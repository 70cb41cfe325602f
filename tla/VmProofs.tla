------------------------------ MODULE VmProofs ------------------------------
(***************************************************************************)
(* Theorems about module Vm, for every layout of the memory.               *)
(***************************************************************************)
EXTENDS Vm, FiniteSetTheorems, TLAPS

-----------------------------------------------------------------------------
(***************************************************************************)
(* Numbers of pages, megabytes, groups of four megabytes and frames.       *)
(***************************************************************************)
LEMMA Layout ==
  /\ PPM \in Nat \ {0} /\ LastMega \in Nat
  /\ RAM_START \in Nat /\ RAM_SIZE \in Nat /\ BOOT_TABLES \in Nat
  /\ KERNEL_SPACE_START \in Nat
  /\ PORTS_MAP_START \in Nat /\ PORTS_SIZE \in Nat
  /\ KERNEL_SPACE_START % 4 = 0 /\ KERNEL_SPACE_START =< LastMega
  /\ RAM_SIZE % 4 = 0
  /\ Mega = 0..LastMega /\ KernelMega = KERNEL_SPACE_START..LastMega
  BY LayoutAssumption DEF Mega, KernelMega

LEMMA FramesAreNumbers ==
  /\ Frame \subseteq Nat /\ LowPage = 0 /\ LowPage \notin Frame
  /\ \A f \in Frame, g \in Frame, h \in Int : f =< h /\ h =< g => h \in Frame
  BY LayoutAssumption, Layout DEF Frame, LowPage

LEMMA FixedPlaces ==
  /\ KERNEL_TTB = RAM_START + BOOT_TABLES /\ KERNEL_PAGE_TBL = KERNEL_TTB + 4
  /\ VECT_PAGE_TBL = KERNEL_PAGE_TBL + RAM_SIZE \div 4 /\ VECT_PAGE = VECT_PAGE_TBL + 1
  /\ RAM_SIZE \div 4 \in Nat /\ 4 * (RAM_SIZE \div 4) = RAM_SIZE
  /\ {KERNEL_TTB, KERNEL_PAGE_TBL, VECT_PAGE_TBL, VECT_PAGE} \subseteq Nat
  BY Layout DEF KERNEL_TTB, KERNEL_PAGE_TBL, VECT_PAGE_TBL, VECT_PAGE

LEMMA PageNumber ==
  ASSUME NEW v \in Nat
  PROVE  /\ v \div PPM \in Nat /\ v % PPM \in 0..(PPM - 1)
         /\ v = PPM * (v \div PPM) + (v % PPM)
  BY Layout

LEMMA SamePage ==
  ASSUME NEW v \in Nat, NEW w \in Nat, v \div PPM = w \div PPM, v % PPM = w % PPM
  PROVE  v = w
  BY PageNumber

LEMMA UserMega ==
  ASSUME NEW v \in UserPage
  PROVE  v \in Nat /\ v \div PPM \in Mega \ KernelMega
<1>1. v \in Nat /\ v < KERNEL_SPACE_START * PPM
  BY Layout DEF UserPage
<1>2. v \div PPM \in Nat /\ v \div PPM < KERNEL_SPACE_START
  BY <1>1, Layout
<1> QED BY <1>1, <1>2, Layout

LEMMA GroupFacts ==
  ASSUME NEW m \in Mega, NEW n \in Mega
  PROVE  /\ Group(m) \in Nat /\ Group(m) =< m
         /\ Group(m) = Group(n) /\ m % 4 = n % 4 => m = n
         /\ Group(m) = Group(n) => (m \in KernelMega <=> n \in KernelMega)
  BY Layout DEF Group

LEMMA OverAt ==
  ASSUME NEW f, NEW g
  PROVE  /\ DOMAIN Over(f, g) = DOMAIN f \cup DOMAIN g
         /\ \A x \in DOMAIN f : Over(f, g)[x] = f[x]
         /\ \A x \in DOMAIN g \ DOMAIN f : Over(f, g)[x] = g[x]
  BY DEF Over

(***************************************************************************)
(* The frames that a set of groups gets are one behind the other.          *)
(***************************************************************************)
LEMMA CountBelow ==
  ASSUME NEW G \in SUBSET Nat, IsFiniteSet(G), NEW g \in G
  PROVE  /\ IsFiniteSet({h \in G : h < g})
         /\ Cardinality({h \in G : h < g}) \in Nat
         /\ Cardinality({h \in G : h < g}) < Cardinality(G)
         /\ Cardinality(G) \in Nat
         /\ \A k \in G : g < k =>
              Cardinality({h \in G : h < g}) < Cardinality({h \in G : h < k})
<1> DEFINE B(k) == {h \in G : h < k}
<1>1. \A k \in G : IsFiniteSet(B(k)) /\ Cardinality(B(k)) \in Nat
  <2> TAKE k \in G
  <2>1. B(k) \in SUBSET G
    OBVIOUS
  <2> QED BY <2>1, FS_Subset, FS_CardinalityType
<1>2. Cardinality(B(g) \cup {g}) = Cardinality(B(g)) + 1 /\ IsFiniteSet(B(g) \cup {g})
  <2>1. g \notin B(g)
    OBVIOUS
  <2> QED BY <1>1, <2>1, FS_AddElement
<1>3. ASSUME NEW S, IsFiniteSet(S), B(g) \cup {g} \subseteq S
      PROVE  Cardinality(B(g)) < Cardinality(S)
  <2>1. Cardinality(B(g) \cup {g}) =< Cardinality(S)
    BY <1>3, FS_Subset
  <2>2. Cardinality(S) \in Nat
    BY <1>3, FS_CardinalityType
  <2> HIDE DEF B
  <2> QED BY <1>1, <1>2, <2>1, <2>2
<1>4. Cardinality(B(g)) < Cardinality(G) /\ Cardinality(G) \in Nat
  <2>1. B(g) \cup {g} \subseteq G
    OBVIOUS
  <2> HIDE DEF B
  <2> QED BY <1>3, <2>1, FS_CardinalityType
<1>5. ASSUME NEW k \in G, g < k PROVE Cardinality(B(g)) < Cardinality(B(k))
  <2>1. \A h \in G : h < g \/ h = g => h < k
    <3> TAKE h \in G
    <3>1. h \in Nat /\ g \in Nat /\ k \in Nat
      OBVIOUS
    <3> QED BY <1>5, <3>1
  <2>2. B(g) \cup {g} \subseteq B(k)
    BY <2>1
  <2> HIDE DEF B
  <2> QED BY <1>1, <1>3, <2>2
<1> QED BY <1>1, <1>4, <1>5

-----------------------------------------------------------------------------
(***************************************************************************)
(* What the allocator and the tables keep.                                 *)
(***************************************************************************)
LEMMA StopHalts ==
  ASSUME NEW s, IsMmu(s)
  PROVE  /\ IsMmu(Stop(s)) /\ Stop(s).halted
         /\ Stop(s).l1 = s.l1 /\ Stop(s).pte = s.pte /\ Stop(s).next = s.next
  BY DEF IsMmu, Stop

LEMMA FirstBehind ==
  ASSUME NEW s, s.next \in Nat, NEW n \in Nat \ {0}
  PROVE  First(s, n) \in Nat /\ s.next =< First(s, n)
<1> DEFINE x == s.next + n - 1
<1>1. x \in Nat
  OBVIOUS
<1>2. x \div n \in Nat /\ x % n \in 0..(n - 1) /\ x = n * (x \div n) + (x % n)
  <2> HIDE DEF x
  <2> QED BY <1>1
<1>3. First(s, n) = n * (x \div n)
  BY DEF First
<1>4. n * (x \div n) \in Nat
  BY <1>2
<1>5. PICK y \in Nat, z \in 0..(n - 1) : x = y + z /\ First(s, n) = y
  BY <1>2, <1>3, <1>4
<1> QED BY <1>5

LEMMA TakeEffect ==
  ASSUME NEW s, IsMmu(s), NEW n
  PROVE  /\ IsMmu(Take(s, n)) /\ (~Take(s, n).halted => ~s.halted)
         /\ Take(s, n).l1 = s.l1 /\ Take(s, n).pte = s.pte
         /\ ~Take(s, n).halted =>
              Take(s, n).next = First(s, n) + n /\ First(s, n) + n - 1 \in Frame
<1>1. CASE n =< LARGEST_BUDDY /\ First(s, n) + n - 1 \in Frame
  BY <1>1 DEF Take, IsMmu
<1>2. CASE ~(n =< LARGEST_BUDDY /\ First(s, n) + n - 1 \in Frame)
  BY <1>2, StopHalts DEF Take
<1> QED BY <1>1, <1>2

(***************************************************************************)
(* Taking a block keeps the tables.                                        *)
(***************************************************************************)
LEMMA TakeKeepsTables ==
  ASSUME NEW s, TablesOK(s), NEW n \in Nat \ {0}, ~Take(s, n).halted
  PROVE  /\ TablesOK(Take(s, n)) /\ ~s.halted
         /\ First(s, n) \in Nat /\ s.next =< First(s, n) /\ s.next \in Nat
         /\ Take(s, n).next = First(s, n) + n
         /\ First(s, n)..(First(s, n) + n - 1) \subseteq Frame
<1> DEFINE t == Take(s, n)
<1>1. IsMmu(s) /\ s.next - 1 \in Frame /\ PAGES_START =< s.next /\ s.next \in Nat
  BY DEF TablesOK, TablesTyped
<1>2. /\ IsMmu(t) /\ ~s.halted /\ t.l1 = s.l1 /\ t.pte = s.pte
      /\ t.next = First(s, n) + n /\ First(s, n) + n - 1 \in Frame
  BY <1>1, TakeEffect
<1>3. PAGES_START \in Nat /\ First(s, n) \in Nat /\ s.next =< First(s, n)
  BY <1>1, FirstBehind, FramesAreNumbers, LayoutAssumption
<1>4. First(s, n)..(First(s, n) + n - 1) \subseteq Frame
  <2> DEFINE f == First(s, n)
  <2> HIDE DEF f
  <2>1. ASSUME NEW x \in f..(f + n - 1) PROVE x \in Frame
    <3>1. s.next - 1 =< x /\ x =< f + n - 1 /\ x \in Int
      BY <1>1, <1>3 DEF f
    <3> QED BY <1>1, <1>2, <3>1, FramesAreNumbers DEF f
  <2> QED BY <2>1 DEF f
<1>5. t.next \in Nat /\ s.next =< t.next /\ t.next - 1 \in Frame /\ t.halted \in BOOLEAN
  <2>1. t.next \in Nat /\ s.next =< t.next /\ t.next - 1 \in Frame
    BY <1>1, <1>2, <1>3
  <2>2. t.halted \in BOOLEAN
    BY DEF Take, Stop, TablesOK, TablesTyped, IsMmu
  <2> QED BY <2>1, <2>2
<1> HIDE DEF t
<1>6. TablesTyped(t)
  <2>1. Entries(t) = Entries(s)
    BY <1>2 DEF Entries
  <2>2. \A a \in DOMAIN s.pte : a \div 4 \in Frame /\ a \div 4 < t.next
    <3> TAKE a \in DOMAIN s.pte
    <3>1. PICK x \in Frame : x = a \div 4 /\ x < s.next
      BY DEF TablesOK, TablesTyped
    <3>2. x \in Nat
      BY FramesAreNumbers
    <3> QED BY <1>1, <1>5, <3>1, <3>2
  <2> QED BY <1>1, <1>2, <1>3, <1>5, <2>1, <2>2 DEF TablesOK, TablesTyped
<1>7. TablesOK(t)
  BY <1>2, <1>6 DEF TablesOK, OneEntryEach, NoUserSections, KernelGroups
<1> QED BY <1>1, <1>2, <1>3, <1>4, <1>7 DEF t

(***************************************************************************)
(* Tables that a directory gets are numbered from the next frame on.       *)
(***************************************************************************)
Groups == {Group(m) : m \in Mega}

LEMMA GroupsFinite ==
  ASSUME NEW G \in SUBSET Groups
  PROVE  G \in SUBSET Nat /\ IsFiniteSet(G)
<1>1. \A g \in G : g \in Nat /\ g =< LastMega
  <2> TAKE g \in G
  <2>1. PICK m \in Mega : g = Group(m)
    BY DEF Groups
  <2>2. Group(m) \in Nat /\ Group(m) =< m
    BY GroupFacts
  <2> QED BY <2>1, <2>2, Layout
<1> QED BY <1>1, Layout, FS_BoundedSetOfNaturals

LEMMA QuarterFacts ==
  ASSUME NEW s, s.next \in Nat, NEW G \in SUBSET Groups,
         NEW m \in Mega, Group(m) \in G
  PROVE  /\ Quarter(s, G, m) \in Nat
         /\ Quarter(s, G, m) \div 4 \in s.next..(s.next + Cardinality(G) - 1)
         /\ Cardinality(G) \in Nat
         /\ \A n \in Mega : Group(n) \in G /\ Quarter(s, G, n) = Quarter(s, G, m) => n = m
<1>1. G \in SUBSET Nat /\ IsFiniteSet(G)
  BY GroupsFinite
<1> DEFINE C(g) == Cardinality({h \in G : h < g})
<1>2. \A g \in G : /\ C(g) \in Nat /\ C(g) < Cardinality(G) /\ Cardinality(G) \in Nat
                    /\ \A k \in G : g < k => C(g) < C(k)
  BY <1>1, CountBelow
<1>3. \A n \in Mega : Quarter(s, G, n) = 4 * (s.next + C(Group(n))) + (n % 4)
  BY DEF Quarter, TableFrame
<1> HIDE DEF C
<1>4. ASSUME NEW n \in Mega, Group(n) \in G
      PROVE  /\ Quarter(s, G, n) \in Nat
             /\ Quarter(s, G, n) \div 4 = s.next + C(Group(n))
             /\ Quarter(s, G, n) % 4 = n % 4
  <2>1. PICK x \in Nat : x = s.next + C(Group(n)) /\ Quarter(s, G, n) = 4 * x + (n % 4)
    BY <1>2, <1>3, <1>4
  <2>2. n \in Nat
    BY Layout
  <2> QED BY <2>1, <2>2
<1>5. Quarter(s, G, m) \div 4 \in s.next..(s.next + Cardinality(G) - 1)
  <2>1. C(Group(m)) \in Nat /\ C(Group(m)) < Cardinality(G) /\ Cardinality(G) \in Nat
    BY <1>2
  <2>2. Quarter(s, G, m) \div 4 = s.next + C(Group(m))
    BY <1>4
  <2> QED BY <2>1, <2>2
<1>6. ASSUME NEW n \in Mega, Group(n) \in G, Quarter(s, G, n) = Quarter(s, G, m)
      PROVE  n = m
  <2>1. s.next + C(Group(n)) = s.next + C(Group(m)) /\ n % 4 = m % 4
    BY <1>4, <1>6
  <2>2. C(Group(n)) = C(Group(m))
    BY <1>2, <1>6, <2>1
  <2>3. Group(n) = Group(m)
    <3>1. Group(n) \in Nat /\ Group(m) \in Nat
      BY GroupFacts
    <3>2. ~(Group(n) < Group(m)) /\ ~(Group(m) < Group(n))
      BY <1>2, <1>6, <2>2
    <3> QED BY <3>1, <3>2
  <2> QED BY <2>1, <2>3, GroupFacts
<1> QED BY <1>2, <1>4, <1>5, <1>6

NewRow(s, d, G) ==
  [m \in Mega |-> IF Group(m) \in G THEN Coarse(Quarter(s, G, m)) ELSE s.l1[d][m]]

Quarters(s, G) == {Quarter(s, G, m) : m \in {n \in Mega : Group(n) \in G}}

BlankTable == [i \in 0..(PPM - 1) |-> LowPage]

BlankTables(Q) == [a \in Q |-> BlankTable]

LEMMA NewTablesHalt ==
  ASSUME NEW s, IsMmu(s), NEW d, NEW G
  PROVE  /\ IsMmu(NewTables(s, d, G))
         /\ ~NewTables(s, d, G).halted =>
              /\ ~s.halted
              /\ \A m \in Mega : Group(m) \in G => Empty(s.l1[d][m])
              /\ s.next + Cardinality(G) - 1 \in Frame
              /\ NewTables(s, d, G).next = s.next + Cardinality(G)
              /\ NewTables(s, d, G).l1 = [s.l1 EXCEPT ![d] = NewRow(s, d, G)]
              /\ NewTables(s, d, G).pte = Over(BlankTables(Quarters(s, G)), s.pte)
<1> DEFINE bad == \/ \E m \in {m \in Mega : Group(m) \in G} : ~Empty(s.l1[d][m])
                  \/ s.next + Cardinality(G) - 1 \notin Frame
<1> DEFINE t == [s EXCEPT !.next = s.next + Cardinality(G),
                          !.l1[d] = NewRow(s, d, G),
                          !.pte = Over(BlankTables(Quarters(s, G)), s.pte)]
<1>1. NewTables(s, d, G) = IF bad THEN Stop(s) ELSE t
  BY DEF NewTables, NewRow, Quarters, BlankTables, BlankTable
<1>2. CASE bad
  BY <1>1, <1>2, StopHalts
<1>3. CASE ~bad
  <2>1. /\ IsMmu(t) /\ t.halted = s.halted /\ t.next = s.next + Cardinality(G)
        /\ t.l1 = [s.l1 EXCEPT ![d] = NewRow(s, d, G)]
        /\ t.pte = Over(BlankTables(Quarters(s, G)), s.pte)
    BY DEF IsMmu
  <2> HIDE DEF t
  <2> QED BY <1>1, <1>3, <2>1
<1> QED BY <1>2, <1>3

(***************************************************************************)
(* Directory d has new tables for the empty entries of the groups G.       *)
(***************************************************************************)
Extended(s, r, d, G) ==
  /\ TablesOK(r) /\ ~r.halted /\ ~s.halted /\ s.next =< r.next
  /\ DOMAIN r.l1 = DOMAIN s.l1
  /\ \A e \in DOMAIN s.l1 \ {d} : r.l1[e] = s.l1[e]
  /\ \A m \in Mega : Group(m) \notin G => r.l1[d][m] = s.l1[d][m]
  /\ \A m \in Mega : Group(m) \in G =>
       /\ Empty(s.l1[d][m]) /\ IsTable(r.l1[d][m])
       /\ r.l1[d][m].table \notin DOMAIN s.pte
       /\ r.l1[d][m].table \div 4 \in s.next..(r.next - 1)
       /\ r.pte[r.l1[d][m].table] = BlankTable
  /\ DOMAIN s.pte \subseteq DOMAIN r.pte
  /\ \A a \in DOMAIN s.pte : r.pte[a] = s.pte[a]

LEMMA EntryKinds ==
  ASSUME NEW a, NEW f
  PROVE  /\ IsTable(Coarse(a)) /\ Coarse(a).table = a /\ ~Empty(Coarse(a))
         /\ Coarse(a).kind = "coarse"
         /\ ~IsTable(NoEntry) /\ ~IsTable(FaultEntry) /\ ~IsTable(Section(f))
         /\ Empty(NoEntry) /\ Empty(FaultEntry) /\ ~Empty(Section(f))
         /\ NoEntry.kind # "section" /\ FaultEntry.kind # "section"
         /\ Section(f).kind = "section"
  BY DEF IsTable, Empty, Coarse, NoEntry, FaultEntry, Section

LEMMA EntryOfTable ==
  ASSUME NEW s, TablesOK(s), NEW d \in DOMAIN s.l1, NEW m \in Mega
  PROVE  /\ s.l1[d][m] \in Entries(s)
         /\ IsTable(s.l1[d][m]) =>
              /\ s.l1[d][m].table \in DOMAIN s.pte /\ s.l1[d][m].table \in Nat
              /\ s.l1[d][m].table \div 4 \in Frame /\ s.l1[d][m].table \div 4 < s.next
              /\ s.pte[s.l1[d][m].table] \in [0..(PPM - 1) -> Frame \cup {LowPage}]
         /\ Empty(s.l1[d][m]) \/ IsTable(s.l1[d][m]) \/ s.l1[d][m].kind = "section"
<1>1. s.l1[d][m] \in Entries(s)
  BY DEF TablesOK, TablesTyped
<1>2. IsTable(s.l1[d][m]) => s.l1[d][m].table \in DOMAIN s.pte
  BY <1>1 DEF Entries, IsTable, NoEntry, FaultEntry
<1>3. Empty(s.l1[d][m]) \/ IsTable(s.l1[d][m]) \/ s.l1[d][m].kind = "section"
  BY <1>1 DEF Entries, IsTable, Empty, NoEntry, FaultEntry
<1>4. \A a \in DOMAIN s.pte :
        /\ a \in Nat /\ a \div 4 \in Frame /\ a \div 4 < s.next
        /\ s.pte[a] \in [0..(PPM - 1) -> Frame \cup {LowPage}]
  BY DEF TablesOK, TablesTyped
<1> QED BY <1>1, <1>2, <1>3, <1>4

LEMMA NewTablesEffect ==
  ASSUME NEW s, TablesOK(s), NEW d \in DOMAIN s.l1, NEW G \in SUBSET Groups,
         ~NewTables(s, d, G).halted
  PROVE  Extended(s, NewTables(s, d, G), d, G)
<1> DEFINE r == NewTables(s, d, G)
<1> DEFINE c == Cardinality(G)
<1> DEFINE Q == Quarters(s, G)
<1>1. /\ IsMmu(s) /\ s.next \in Nat /\ s.next - 1 \in Frame /\ PAGES_START =< s.next
      /\ PAGES_START \in Nat /\ s.halted \in BOOLEAN
  BY FramesAreNumbers, LayoutAssumption DEF TablesOK, TablesTyped
<1>2. /\ IsMmu(r) /\ ~s.halted /\ s.next + c - 1 \in Frame /\ r.next = s.next + c
      /\ \A m \in Mega : Group(m) \in G => Empty(s.l1[d][m])
  BY <1>1, NewTablesHalt
<1>3. r.l1 = [s.l1 EXCEPT ![d] = NewRow(s, d, G)]
  BY <1>1, NewTablesHalt
<1>4. r.pte = Over(BlankTables(Q), s.pte)
  BY <1>1, NewTablesHalt
<1> HIDE DEF r
<1>5. /\ DOMAIN r.l1 = DOMAIN s.l1
      /\ \A e \in DOMAIN s.l1 \ {d} : r.l1[e] = s.l1[e]
      /\ r.l1[d] = [m \in Mega |-> IF Group(m) \in G THEN Coarse(Quarter(s, G, m))
                                   ELSE s.l1[d][m]]
  BY <1>3 DEF TablesOK, TablesTyped, NewRow
<1>6. c \in Nat /\ s.next =< r.next /\ r.next \in Nat /\ r.next - 1 \in Frame
      /\ PAGES_START =< r.next
  <2>1. c \in Nat
    BY GroupsFinite, FS_CardinalityType
  <2> HIDE DEF c
  <2> QED BY <1>1, <1>2, <2>1
<1>7. ASSUME NEW a \in Q
      PROVE  /\ a \in Nat /\ a \div 4 \in s.next..(r.next - 1) /\ a \div 4 \in Frame
             /\ a \notin DOMAIN s.pte
  <2>1. PICK m \in Mega : Group(m) \in G /\ a = Quarter(s, G, m)
    BY DEF Quarters
  <2>2. a \in Nat /\ a \div 4 \in s.next..(r.next - 1)
    BY <1>1, <1>2, <2>1, QuarterFacts
  <2>3. PICK x \in Nat : x = a \div 4 /\ s.next =< x /\ x =< r.next - 1
    BY <1>1, <2>2
  <2>4. x \in Frame
    BY <1>1, <1>6, <2>3, FramesAreNumbers
  <2>5. a \notin DOMAIN s.pte
    BY <1>1, <2>3 DEF TablesOK, TablesTyped
  <2> QED BY <2>2, <2>3, <2>4, <2>5
<1>8. /\ DOMAIN r.pte = Q \cup DOMAIN s.pte
      /\ \A a \in Q : r.pte[a] = BlankTable
      /\ \A a \in DOMAIN s.pte : r.pte[a] = s.pte[a]
  <2> DEFINE f == BlankTables(Q)
  <2>1. DOMAIN f = Q /\ \A a \in Q : f[a] = BlankTable
    BY DEF BlankTables
  <2>2. \A a \in DOMAIN s.pte : a \notin Q
    BY <1>7
  <2> HIDE DEF f, Q
  <2>3. /\ DOMAIN Over(f, s.pte) = DOMAIN f \cup DOMAIN s.pte
        /\ \A x \in DOMAIN f : Over(f, s.pte)[x] = f[x]
        /\ \A x \in DOMAIN s.pte \ DOMAIN f : Over(f, s.pte)[x] = s.pte[x]
    BY OverAt
  <2> QED BY <1>4, <2>1, <2>2, <2>3 DEF f
<1>9. ASSUME NEW m \in Mega, Group(m) \in G
      PROVE  /\ IsTable(r.l1[d][m]) /\ r.l1[d][m] = Coarse(Quarter(s, G, m))
             /\ r.l1[d][m].table = Quarter(s, G, m) /\ Quarter(s, G, m) \in Q
  BY <1>5, <1>9, EntryKinds DEF Quarters
<1>10. TablesTyped(r)
  <2>1. ASSUME NEW e \in DOMAIN s.l1, NEW m \in Mega PROVE r.l1[e][m] \in Entries(r)
    <3>1. CASE e = d /\ Group(m) \in G
      <4>1. PICK q : q \in DOMAIN r.pte /\ r.l1[e][m] = Coarse(q)
        BY <1>8, <1>9, <3>1
      <4> QED BY <4>1 DEF Entries, Coarse
    <3>2. CASE ~(e = d /\ Group(m) \in G)
      <4>1. r.l1[e][m] = s.l1[e][m]
        BY <1>5, <3>2
      <4>2. s.l1[e][m] \in Entries(s)
        BY DEF TablesOK, TablesTyped
      <4> QED BY <1>8, <4>1, <4>2 DEF Entries
    <3> QED BY <3>1, <3>2
  <2>2. r.l1 \in [DOMAIN r.l1 -> [Mega -> Entries(r)]]
    <3>1. \A e \in DOMAIN r.l1 : r.l1[e] \in [Mega -> Entries(r)]
      <4> TAKE e \in DOMAIN r.l1
      <4>1. CASE e = d
        BY <1>5, <2>1, <4>1
      <4>2. CASE e # d
        <5>1. s.l1[e] = [m \in Mega |-> s.l1[e][m]]
          BY <1>5 DEF TablesOK, TablesTyped
        <5> QED BY <1>5, <2>1, <4>2, <5>1
      <4> QED BY <4>1, <4>2
    <3>2. r.l1 = [e \in DOMAIN r.l1 |-> r.l1[e]]
      BY <1>3 DEF TablesOK, TablesTyped
    <3> QED BY <3>1, <3>2
  <2>3. r.pte \in [DOMAIN r.pte -> [0..(PPM - 1) -> Frame \cup {LowPage}]]
    <3>1. \A a \in DOMAIN s.pte : s.pte[a] \in [0..(PPM - 1) -> Frame \cup {LowPage}]
      BY DEF TablesOK, TablesTyped
    <3>2. \A a \in DOMAIN r.pte : r.pte[a] \in [0..(PPM - 1) -> Frame \cup {LowPage}]
      <4>1. BlankTable \in [0..(PPM - 1) -> Frame \cup {LowPage}]
        BY DEF BlankTable
      <4> HIDE DEF Q
      <4> QED BY <1>8, <3>1, <4>1
    <3>3. r.pte = [a \in DOMAIN r.pte |-> r.pte[a]]
      BY <1>4 DEF Over
    <3> QED BY <3>2, <3>3
  <2>4. \A a \in DOMAIN r.pte : a \in Nat /\ a \div 4 \in Frame /\ a \div 4 < r.next
    <3> TAKE a \in DOMAIN r.pte
    <3>1. CASE a \in Q
      <4>1. PICK x : x = a \div 4 /\ x \in s.next..(r.next - 1) /\ x \in Frame /\ a \in Nat
        BY <1>7, <3>1
      <4> QED BY <1>1, <1>6, <4>1
    <3>2. CASE a \in DOMAIN s.pte
      <4>1. PICK x \in Frame : x = a \div 4 /\ x < s.next /\ a \in Nat
        BY <3>2 DEF TablesOK, TablesTyped
      <4>2. x \in Nat
        BY FramesAreNumbers
      <4> QED BY <1>1, <1>6, <4>1, <4>2
    <3> QED BY <1>8, <3>1, <3>2
  <2>5. r.halted = FALSE
    BY <1>2 DEF IsMmu, NewTables, Stop, r
  <2> QED BY <1>2, <1>5, <1>6, <2>2, <2>3, <2>4, <2>5 DEF TablesOK, TablesTyped
<1>11. OneEntryEach(r)
  <2> SUFFICES ASSUME NEW e \in DOMAIN r.l1, NEW h \in DOMAIN r.l1,
                      NEW m \in Mega, NEW n \in Mega,
                      IsTable(r.l1[e][m]), IsTable(r.l1[h][n]),
                      r.l1[e][m].table = r.l1[h][n].table
               PROVE  e = h /\ m = n
    BY DEF OneEntryEach
  <2> DEFINE New(x, k) == x = d /\ Group(k) \in G
  <2>1. \A x \in DOMAIN s.l1, k \in Mega : ~New(x, k) =>
          r.l1[x][k] = s.l1[x][k]
    BY <1>5
  <2>2. \A x \in DOMAIN s.l1, k \in Mega : ~New(x, k) /\ IsTable(r.l1[x][k]) =>
          r.l1[x][k].table \in DOMAIN s.pte
    BY <2>1, EntryOfTable
  <2>3. \A x \in DOMAIN s.l1, k \in Mega : New(x, k) =>
          r.l1[x][k].table = Quarter(s, G, k) /\ r.l1[x][k].table \notin DOMAIN s.pte
    BY <1>7, <1>9
  <2>4. CASE New(e, m) /\ New(h, n)
    <3>1. Quarter(s, G, m) = Quarter(s, G, n)
      BY <1>5, <2>3, <2>4
    <3> QED BY <1>1, <2>4, <3>1, QuarterFacts
  <2>5. CASE ~New(e, m) /\ ~New(h, n)
    BY <1>5, <2>1, <2>5 DEF TablesOK, OneEntryEach
  <2>6. New(e, m) <=> New(h, n)
    BY <1>5, <2>2, <2>3
  <2> QED BY <2>4, <2>5, <2>6
<1>12. NoUserSections(r)
  <2> SUFFICES ASSUME NEW e \in DOMAIN r.l1, NEW m \in Mega \ KernelMega
               PROVE  r.l1[e][m].kind # "section"
    BY DEF NoUserSections
  <2>1. CASE e = d /\ Group(m) \in G
    BY <1>9, <2>1, EntryKinds
  <2>2. CASE ~(e = d /\ Group(m) \in G)
    BY <1>5, <2>2 DEF TablesOK, NoUserSections
  <2> QED BY <2>1, <2>2
<1>13. KernelGroups(r)
  <2> SUFFICES ASSUME NEW m \in KernelMega, NEW n \in KernelMega, Group(m) = Group(n),
                      IsTable(r.l1[KERNEL_TTB][m])
               PROVE  r.l1[KERNEL_TTB][n].kind # "section"
    BY DEF KernelGroups
  <2>1. m \in Mega /\ n \in Mega /\ KERNEL_TTB \in DOMAIN s.l1
    BY Layout DEF TablesOK, TablesTyped
  <2>2. CASE d = KERNEL_TTB /\ Group(m) \in G
    BY <1>9, <2>1, <2>2, EntryKinds
  <2>3. CASE ~(d = KERNEL_TTB /\ Group(m) \in G)
    <3>1. /\ r.l1[KERNEL_TTB][m] = s.l1[KERNEL_TTB][m]
          /\ r.l1[KERNEL_TTB][n] = s.l1[KERNEL_TTB][n]
      BY <1>5, <2>1, <2>3
    <3> QED BY <3>1 DEF TablesOK, KernelGroups
  <2> QED BY <2>2, <2>3
<1>14. TablesOK(r)
  BY <1>10, <1>11, <1>12, <1>13 DEF TablesOK
<1>15. ~r.halted
  BY DEF r
<1>16. ASSUME NEW m \in Mega, Group(m) \in G
       PROVE  /\ Empty(s.l1[d][m]) /\ IsTable(r.l1[d][m])
              /\ r.l1[d][m].table \notin DOMAIN s.pte
              /\ r.l1[d][m].table \div 4 \in s.next..(r.next - 1)
              /\ r.pte[r.l1[d][m].table] = BlankTable
  <2> DEFINE q == Quarter(s, G, m)
  <2>1. r.l1[d][m].table = q /\ q \in Q /\ IsTable(r.l1[d][m])
    BY <1>9, <1>16
  <2> HIDE DEF Q, q
  <2> QED BY <1>2, <1>7, <1>8, <1>16, <2>1
<1> QED
  <2>1. \A m \in Mega : Group(m) \notin G => r.l1[d][m] = s.l1[d][m]
    BY <1>5
  <2> HIDE DEF Q
  <2>2. DOMAIN s.pte \subseteq DOMAIN r.pte /\ \A a \in DOMAIN s.pte : r.pte[a] = s.pte[a]
    BY <1>8
  <2>3. Extended(s, r, d, G)
    BY <1>2, <1>5, <1>6, <1>14, <1>15, <1>16, <2>1, <2>2 DEF Extended
  <2> QED BY <2>3 DEF r

(***************************************************************************)
(* SetPages() changes the entries of the pages in to and no others.        *)
(***************************************************************************)
CanPlace(s, d, to) ==
  /\ DOMAIN to \subseteq Nat
  /\ \A v \in DOMAIN to :
       /\ v \div PPM \in Mega /\ IsTable(s.l1[d][v \div PPM])
       /\ to[v] \in Frame \cup {LowPage}

Changed(s, d, to, a) ==
  [i \in 0..(PPM - 1) |->
     IF PlacedAt(s, d, to, a, i) = {} THEN s.pte[a][i]
     ELSE to[CHOOSE v \in PlacedAt(s, d, to, a, i) : TRUE]]

PlacedTables(s, d, to) == {TableOf(s, d, v) : v \in DOMAIN to}

LEMMA SetPagesFields ==
  ASSUME NEW s, IsMmu(s), NEW d, NEW to
  PROVE  /\ IsMmu(SetPages(s, d, to))
         /\ SetPages(s, d, to).l1 = s.l1 /\ SetPages(s, d, to).next = s.next
         /\ SetPages(s, d, to).halted = s.halted
         /\ SetPages(s, d, to).pte =
              [a \in DOMAIN s.pte |-> IF a \in PlacedTables(s, d, to)
                                      THEN Changed(s, d, to, a) ELSE s.pte[a]]
<1> DEFINE p == [a \in DOMAIN s.pte |-> IF a \in PlacedTables(s, d, to)
                                        THEN Changed(s, d, to, a) ELSE s.pte[a]]
<1> DEFINE t == [s EXCEPT !.pte = p]
<1>1. SetPages(s, d, to) = t
  BY DEF SetPages, Changed, PlacedTables
<1>2. /\ IsMmu(t) /\ t.l1 = s.l1 /\ t.next = s.next /\ t.halted = s.halted /\ t.pte = p
  <2> HIDE DEF p
  <2> QED BY DEF IsMmu
<1> HIDE DEF t
<1> QED BY <1>1, <1>2

LEMMA SetPagesEffect ==
  ASSUME NEW s, TablesOK(s), NEW d \in DOMAIN s.l1, NEW to, CanPlace(s, d, to)
  PROVE  LET r == SetPages(s, d, to) IN
         /\ TablesOK(r) /\ r.l1 = s.l1 /\ r.next = s.next /\ r.halted = s.halted
         /\ DOMAIN r.pte = DOMAIN s.pte
         /\ \A e \in DOMAIN s.l1, v \in Nat :
              v \div PPM \in Mega /\ IsTable(s.l1[e][v \div PPM]) =>
                Page(r, e, v) = IF e = d /\ v \in DOMAIN to THEN to[v] ELSE Page(s, e, v)
<1> DEFINE r == SetPages(s, d, to)
<1> DEFINE A == PlacedTables(s, d, to)
<1>1. IsMmu(s) /\ DOMAIN s.pte \subseteq Nat
  BY DEF TablesOK, TablesTyped
<1>2. /\ IsMmu(r) /\ r.l1 = s.l1 /\ r.next = s.next /\ r.halted = s.halted
      /\ r.pte = [a \in DOMAIN s.pte |-> IF a \in A THEN Changed(s, d, to, a) ELSE s.pte[a]]
  BY <1>1, SetPagesFields
<1> HIDE DEF r
<1>3. ASSUME NEW e \in DOMAIN s.l1, NEW v \in Nat, v \div PPM \in Mega,
             IsTable(s.l1[e][v \div PPM])
      PROVE  Page(r, e, v) = IF e = d /\ v \in DOMAIN to THEN to[v] ELSE Page(s, e, v)
  <2> DEFINE a == TableOf(s, e, v)
  <2> DEFINE i == v % PPM
  <2>1. a \in DOMAIN s.pte
    BY <1>3, EntryOfTable DEF TableOf
  <2>2. i \in 0..(PPM - 1)
    BY PageNumber
  <2>3. Page(r, e, v) = r.pte[a][i] /\ Page(s, e, v) = s.pte[a][i]
    BY <1>2 DEF Page, TableOf
  <2>4. \A w \in DOMAIN to : TableOf(s, d, w) = a /\ w % PPM = i => e = d /\ w = v
    <3> SUFFICES ASSUME NEW w \in DOMAIN to, TableOf(s, d, w) = a, w % PPM = i
                 PROVE  e = d /\ w = v
      OBVIOUS
    <3>1. w \in Nat /\ w \div PPM \in Mega /\ IsTable(s.l1[d][w \div PPM])
      BY DEF CanPlace
    <3>2. e = d /\ w \div PPM = v \div PPM
      BY <1>3, <3>1 DEF TableOf, TablesOK, OneEntryEach
    <3> QED BY <3>1, <3>2, SamePage
  <2>5. CASE e = d /\ v \in DOMAIN to
    <3>1. a \in A
      BY <2>5 DEF PlacedTables
    <3>2. PlacedAt(s, d, to, a, i) = {v}
      BY <2>4, <2>5 DEF PlacedAt
    <3>3. Changed(s, d, to, a)[i] = to[CHOOSE w \in PlacedAt(s, d, to, a, i) : TRUE]
      <4> HIDE DEF a, i
      <4> QED BY <2>2, <3>2 DEF Changed
    <3>4. (CHOOSE w \in {v} : TRUE) = v
      OBVIOUS
    <3>5. r.pte[a] = Changed(s, d, to, a)
      <4> HIDE DEF a, A
      <4> QED BY <1>2, <2>1, <3>1
    <3> HIDE DEF a, i
    <3> QED BY <2>3, <2>5, <3>2, <3>3, <3>4, <3>5
  <2>6. CASE ~(e = d /\ v \in DOMAIN to)
    <3>1. PlacedAt(s, d, to, a, i) = {}
      BY <2>4, <2>6 DEF PlacedAt
    <3> HIDE DEF a, i
    <3>2. Changed(s, d, to, a)[i] = s.pte[a][i]
      BY <2>2, <3>1 DEF Changed
    <3>3. r.pte[a] = IF a \in A THEN Changed(s, d, to, a) ELSE s.pte[a]
      <4> HIDE DEF A
      <4> QED BY <1>2, <2>1
    <3> QED BY <2>3, <2>6, <3>2, <3>3
  <2> QED BY <2>5, <2>6
<1>4. ASSUME NEW a \in DOMAIN s.pte
      PROVE  r.pte[a] \in [0..(PPM - 1) -> Frame \cup {LowPage}]
  <2>1. s.pte[a] \in [0..(PPM - 1) -> Frame \cup {LowPage}]
    BY DEF TablesOK, TablesTyped
  <2>2. Changed(s, d, to, a) \in [0..(PPM - 1) -> Frame \cup {LowPage}]
    <3>1. ASSUME NEW i \in 0..(PPM - 1), PlacedAt(s, d, to, a, i) # {}
          PROVE  to[CHOOSE v \in PlacedAt(s, d, to, a, i) : TRUE] \in Frame \cup {LowPage}
      <4>1. PICK v : /\ v = (CHOOSE w \in PlacedAt(s, d, to, a, i) : TRUE)
                     /\ v \in PlacedAt(s, d, to, a, i)
        BY <3>1
      <4>2. v \in DOMAIN to
        BY <4>1 DEF PlacedAt
      <4> QED BY <4>1, <4>2 DEF CanPlace
    <3> QED BY <2>1, <3>1 DEF Changed
  <2> HIDE DEF A
  <2> QED BY <1>2, <2>1, <2>2
<1>5. TablesTyped(r)
  <2>1. DOMAIN r.pte = DOMAIN s.pte
    BY <1>2
  <2>2. r.pte = [a \in DOMAIN r.pte |-> r.pte[a]]
    <3> HIDE DEF A
    <3> QED BY <1>2
  <2>3. r.pte \in [DOMAIN r.pte -> [0..(PPM - 1) -> Frame \cup {LowPage}]]
    BY <1>4, <2>1, <2>2
  <2>4. Entries(r) = Entries(s)
    BY <2>1 DEF Entries
  <2> QED BY <1>2, <2>1, <2>3, <2>4 DEF TablesOK, TablesTyped
<1>6. TablesOK(r)
  BY <1>2, <1>5 DEF TablesOK, OneEntryEach, NoUserSections, KernelGroups
<1> QED
  <2>1. DOMAIN r.pte = DOMAIN s.pte
    BY <1>2
  <2> QED BY <1>2, <1>3, <1>6, <2>1 DEF r
-----------------------------------------------------------------------------
(***************************************************************************)
(* Directory d has pages of the user's half set, with new tables in frames *)
(* from the next one on and below n.                                       *)
(***************************************************************************)
Grown(s, r, d, to, n) ==
  /\ TablesOK(r) /\ ~r.halted /\ ~s.halted /\ s.next =< r.next
  /\ DOMAIN r.l1 = DOMAIN s.l1
  /\ \A e \in DOMAIN s.l1, m \in Mega :
       \/ r.l1[e][m] = s.l1[e][m]
       \/ /\ e = d /\ m \notin KernelMega /\ Empty(s.l1[e][m]) /\ IsTable(r.l1[e][m])
          /\ r.l1[e][m].table \div 4 \in s.next..(n - 1)
  /\ \A v \in DOMAIN to : IsTable(r.l1[d][v \div PPM])
  /\ \A e \in DOMAIN s.l1, v \in Nat :
       v \div PPM \in Mega /\ IsTable(r.l1[e][v \div PPM]) =>
         Page(r, e, v) = IF e = d /\ v \in DOMAIN to THEN to[v]
                         ELSE IF IsTable(s.l1[e][v \div PPM]) THEN Page(s, e, v)
                         ELSE LowPage

LEMMA ExtendedPages ==
  ASSUME NEW s, TablesOK(s), NEW r, NEW d \in DOMAIN s.l1, NEW G, Extended(s, r, d, G),
         NEW e \in DOMAIN s.l1, NEW v \in Nat, v \div PPM \in Mega,
         IsTable(r.l1[e][v \div PPM])
  PROVE  Page(r, e, v) = IF IsTable(s.l1[e][v \div PPM]) THEN Page(s, e, v) ELSE LowPage
<1> DEFINE m == v \div PPM
<1>1. v % PPM \in 0..(PPM - 1)
  BY PageNumber
<1>2. CASE e = d /\ Group(m) \in G
  <2>1. Empty(s.l1[e][m]) /\ r.pte[r.l1[e][m].table] = BlankTable
    BY <1>2 DEF Extended
  <2>2. ~IsTable(s.l1[e][m])
    BY <2>1 DEF Empty, IsTable
  <2>3. BlankTable[v % PPM] = LowPage
    BY <1>1 DEF BlankTable
  <2> QED BY <2>1, <2>2, <2>3 DEF Page, TableOf
<1>3. CASE ~(e = d /\ Group(m) \in G)
  <2>1. r.l1[e][m] = s.l1[e][m]
    BY <1>3 DEF Extended
  <2>2. IsTable(s.l1[e][m]) /\ s.l1[e][m].table \in DOMAIN s.pte
    BY <2>1, EntryOfTable
  <2>3. r.pte[s.l1[e][m].table] = s.pte[s.l1[e][m].table]
    BY <2>2 DEF Extended
  <2> QED BY <2>1, <2>2, <2>3 DEF Page, TableOf
<1> QED BY <1>2, <1>3

(***************************************************************************)
(* A page of the user's half whose group got tables has one.               *)
(***************************************************************************)
ToUser(to) ==
  /\ DOMAIN to \subseteq UserPage
  /\ \A v \in DOMAIN to : to[v] \in Frame

LEMMA UserEntry ==
  ASSUME NEW s, TablesOK(s), NEW d \in DOMAIN s.l1, NEW v \in UserPage
  PROVE  Empty(s.l1[d][v \div PPM]) \/ IsTable(s.l1[d][v \div PPM])
<1>1. v \div PPM \in Mega \ KernelMega
  BY UserMega
<1>2. s.l1[d][v \div PPM].kind # "section"
  BY <1>1 DEF TablesOK, NoUserSections
<1> QED BY <1>1, <1>2, EntryOfTable

LEMMA ExtendedGrown ==
  ASSUME NEW s, TablesOK(s), NEW d \in DOMAIN s.l1, NEW G, NEW t, Extended(s, t, d, G),
         \A m \in Mega : Group(m) \in G => m \notin KernelMega,
         NEW to, ToUser(to),
         \A v \in DOMAIN to : Empty(s.l1[d][v \div PPM]) => Group(v \div PPM) \in G,
         NEW u, TablesOK(u), u.l1 = t.l1, u.pte = t.pte, t.next =< u.next, ~u.halted,
         NEW n, n = t.next, NEW r, r = SetPages(u, d, to)
  PROVE  Grown(s, r, d, to, n) /\ r.next = u.next
<1>1. \A v \in DOMAIN to : v \in Nat /\ v \div PPM \in Mega \ KernelMega /\ v \in UserPage
  BY UserMega DEF ToUser
<1>2. /\ TablesOK(t) /\ ~s.halted /\ s.next =< t.next /\ DOMAIN t.l1 = DOMAIN s.l1
      /\ s.next \in Nat /\ t.next \in Nat /\ u.next \in Nat
  BY DEF Extended, TablesOK, TablesTyped
<1>3. \A v \in DOMAIN to : IsTable(t.l1[d][v \div PPM])
  <2> TAKE v \in DOMAIN to
  <2>1. CASE Group(v \div PPM) \in G
    BY <1>1, <2>1 DEF Extended
  <2>2. CASE Group(v \div PPM) \notin G
    <3>1. IsTable(s.l1[d][v \div PPM])
      BY <1>1, <2>2, UserEntry
    <3> QED BY <1>1, <2>2, <3>1 DEF Extended
  <2> QED BY <2>1, <2>2
<1>4. CanPlace(u, d, to)
  BY <1>1, <1>3 DEF CanPlace, ToUser
<1>5. /\ TablesOK(r) /\ r.l1 = u.l1 /\ r.next = u.next /\ r.halted = u.halted
      /\ \A e \in DOMAIN u.l1, v \in Nat :
           v \div PPM \in Mega /\ IsTable(u.l1[e][v \div PPM]) =>
             Page(r, e, v) = IF e = d /\ v \in DOMAIN to THEN to[v] ELSE Page(u, e, v)
  BY <1>2, <1>4, SetPagesEffect
<1>6. ASSUME NEW e \in DOMAIN s.l1, NEW v \in Nat, v \div PPM \in Mega,
             IsTable(r.l1[e][v \div PPM])
      PROVE  Page(r, e, v) = IF e = d /\ v \in DOMAIN to THEN to[v]
                             ELSE IF IsTable(s.l1[e][v \div PPM]) THEN Page(s, e, v)
                             ELSE LowPage
  <2>1. Page(u, e, v) = Page(t, e, v)
    BY DEF Page, TableOf
  <2>2. v \div PPM \in Mega /\ IsTable(t.l1[e][v \div PPM])
    BY <1>5, <1>6
  <2>3. Page(t, e, v) = IF IsTable(s.l1[e][v \div PPM]) THEN Page(s, e, v) ELSE LowPage
    BY <2>2, ExtendedPages
  <2> QED BY <1>2, <1>5, <1>6, <2>1, <2>3
<1>7. ASSUME NEW e \in DOMAIN s.l1, NEW m \in Mega
      PROVE  \/ r.l1[e][m] = s.l1[e][m]
             \/ /\ e = d /\ m \notin KernelMega /\ Empty(s.l1[e][m]) /\ IsTable(r.l1[e][m])
                /\ r.l1[e][m].table \div 4 \in s.next..(n - 1)
  <2>1. r.l1[e][m] = t.l1[e][m]
    BY <1>5
  <2>2. CASE e = d /\ Group(m) \in G
    BY <2>1, <2>2 DEF Extended
  <2>3. CASE ~(e = d /\ Group(m) \in G)
    BY <2>1, <2>3 DEF Extended
  <2> QED BY <2>2, <2>3
<1>8. \A v \in DOMAIN to : IsTable(r.l1[d][v \div PPM])
  BY <1>3, <1>5
<1>9. s.next =< r.next
  BY <1>2, <1>5
<1> QED BY <1>2, <1>5, <1>6, <1>7, <1>8, <1>9 DEF Grown

LEMMA EmptyGroupsAre ==
  ASSUME NEW s, NEW d, NEW M \in SUBSET Mega
  PROVE  /\ EmptyGroups(s, d, M) \in SUBSET Groups
         /\ \A m \in M : Empty(s.l1[d][m]) => Group(m) \in EmptyGroups(s, d, M)
         /\ M \cap KernelMega = {} =>
              \A m \in Mega : Group(m) \in EmptyGroups(s, d, M) => m \notin KernelMega
<1>1. EmptyGroups(s, d, M) \in SUBSET Groups
  BY DEF EmptyGroups, Groups
<1>2. \A m \in M : Empty(s.l1[d][m]) => Group(m) \in EmptyGroups(s, d, M)
  BY DEF EmptyGroups
<1>3. ASSUME M \cap KernelMega = {}, NEW m \in Mega, Group(m) \in EmptyGroups(s, d, M)
      PROVE  m \notin KernelMega
  <2>1. PICK k \in M : Group(m) = Group(k)
    BY <1>3 DEF EmptyGroups
  <2>2. k \in Mega /\ k \notin KernelMega
    BY <1>3
  <2> QED BY <2>1, <2>2, GroupFacts
<1> QED BY <1>1, <1>2, <1>3

LEMMA MapHalts ==
  ASSUME NEW s, IsMmu(s), NEW d, NEW to
  PROVE  LET r == map_vaddr2paddr(s, d, to)
             t == NewTables(s, d, EmptyGroups(s, d, {v \div PPM : v \in DOMAIN to}))
         IN  /\ IsMmu(r)
             /\ ~r.halted => ~s.halted /\ ~t.halted /\ r = SetPages(t, d, to)
<1> DEFINE r == map_vaddr2paddr(s, d, to)
<1> DEFINE t == NewTables(s, d, EmptyGroups(s, d, {v \div PPM : v \in DOMAIN to}))
<1>1. r = IF s.halted \/ t.halted THEN Stop(s) ELSE SetPages(t, d, to)
  BY DEF map_vaddr2paddr
<1>2. IsMmu(t) /\ IsMmu(Stop(s)) /\ Stop(s).halted
  BY NewTablesHalt, StopHalts
<1>3. IsMmu(SetPages(t, d, to))
  BY <1>2, SetPagesFields
<1> HIDE DEF r, t
<1>4. IsMmu(r) /\ (~r.halted => ~s.halted /\ ~t.halted /\ r = SetPages(t, d, to))
  BY <1>1, <1>2, <1>3
<1> QED BY <1>4 DEF r, t

LEMMA MapEffect ==
  ASSUME NEW s, TablesOK(s), NEW d \in DOMAIN s.l1, NEW to, ToUser(to),
         ~map_vaddr2paddr(s, d, to).halted
  PROVE  Grown(s, map_vaddr2paddr(s, d, to), d, to, map_vaddr2paddr(s, d, to).next)
<1> DEFINE M == {v \div PPM : v \in DOMAIN to}
<1> DEFINE G == EmptyGroups(s, d, M)
<1> DEFINE t == NewTables(s, d, G)
<1> DEFINE r == map_vaddr2paddr(s, d, to)
<1>1. IsMmu(s)
  BY DEF TablesOK, TablesTyped
<1>2. ~t.halted /\ r = SetPages(t, d, to)
  BY <1>1, MapHalts
<1>3. M \in SUBSET Mega /\ M \cap KernelMega = {}
  BY UserMega DEF ToUser
<1> HIDE DEF r
<1>4. /\ G \in SUBSET Groups
      /\ \A m \in M : Empty(s.l1[d][m]) => Group(m) \in G
      /\ \A m \in Mega : Group(m) \in G => m \notin KernelMega
  <2> HIDE DEF M
  <2> QED BY <1>3, EmptyGroupsAre
<1>5. \A v \in DOMAIN to : Empty(s.l1[d][v \div PPM]) => Group(v \div PPM) \in G
  BY <1>4
<1> HIDE DEF G
<1>6. Extended(s, t, d, G)
  BY <1>2, <1>4, NewTablesEffect
<1> HIDE DEF t
<1>7. TablesOK(t) /\ t.next =< t.next
  BY <1>6 DEF Extended, TablesOK, TablesTyped
<1>8. Grown(s, r, d, to, t.next) /\ r.next = t.next
  BY <1>2, <1>4, <1>5, <1>6, <1>7, ExtendedGrown
<1> QED BY <1>8 DEF r
-----------------------------------------------------------------------------
(***************************************************************************)
(* At most the user's half of directory d changes.                         *)
(***************************************************************************)
Keeps(s, r, d) ==
  /\ DOMAIN r.l1 = DOMAIN s.l1 \cup {d} /\ s.next =< r.next
  /\ \A e \in DOMAIN s.l1, m \in Mega :
       e # d \/ m \in KernelMega => r.l1[e][m] = s.l1[e][m]
  /\ \A e \in DOMAIN s.l1, v \in Nat :
       /\ v \div PPM \in Mega /\ IsTable(s.l1[e][v \div PPM])
       /\ e # d \/ v \div PPM \in KernelMega
       => Page(r, e, v) = Page(s, e, v)
  /\ \A e \in DOMAIN s.l1, m \in Mega : IsTable(s.l1[e][m]) => IsTable(r.l1[e][m])

LEMMA KeepsSame ==
  ASSUME NEW s, NEW r, NEW d \in DOMAIN s.l1, r.l1 = s.l1, r.pte = s.pte, s.next =< r.next
  PROVE  Keeps(s, r, d)
  BY DEF Keeps, Page, TableOf

LEMMA KeepsOnward ==
  ASSUME NEW s, NEW r, NEW q, NEW d, Keeps(s, r, d), Keeps(r, q, d),
         s.next \in Nat, r.next \in Nat, q.next \in Nat
  PROVE  Keeps(s, q, d)
<1>1. DOMAIN q.l1 = DOMAIN s.l1 \cup {d} /\ s.next =< q.next
  BY DEF Keeps
<1>2. \A e \in DOMAIN s.l1, m \in Mega :
        e # d \/ m \in KernelMega => q.l1[e][m] = s.l1[e][m]
  BY DEF Keeps
<1>3. ASSUME NEW e \in DOMAIN s.l1, NEW v \in Nat,
             v \div PPM \in Mega /\ IsTable(s.l1[e][v \div PPM]),
             e # d \/ v \div PPM \in KernelMega
      PROVE  Page(q, e, v) = Page(s, e, v)
  <2>1. r.l1[e][v \div PPM] = s.l1[e][v \div PPM] /\ e \in DOMAIN r.l1
    BY <1>3 DEF Keeps
  <2>2. Page(r, e, v) = Page(s, e, v)
    BY <1>3 DEF Keeps
  <2>3. Page(q, e, v) = Page(r, e, v)
    BY <1>3, <2>1 DEF Keeps
  <2> QED BY <2>2, <2>3
<1>4. \A e \in DOMAIN s.l1, m \in Mega : IsTable(s.l1[e][m]) => IsTable(q.l1[e][m])
  BY DEF Keeps
<1> QED BY <1>1, <1>2, <1>3, <1>4 DEF Keeps

LEMMA GrownKeeps ==
  ASSUME NEW s, NEW r, NEW d \in DOMAIN s.l1, NEW to, NEW n, Grown(s, r, d, to, n),
         ToUser(to)
  PROVE  Keeps(s, r, d)
<1>1. \A v \in DOMAIN to : v \div PPM \notin KernelMega
  BY UserMega DEF ToUser
<1>2. \A e \in DOMAIN s.l1, m \in Mega :
        e # d \/ m \in KernelMega => r.l1[e][m] = s.l1[e][m]
  BY DEF Grown
<1>3. ASSUME NEW e \in DOMAIN s.l1, NEW v \in Nat,
             v \div PPM \in Mega /\ IsTable(s.l1[e][v \div PPM]),
             e # d \/ v \div PPM \in KernelMega
      PROVE  Page(r, e, v) = Page(s, e, v)
  <2>1. IsTable(r.l1[e][v \div PPM])
    BY <1>2, <1>3
  <2>2. ~(e = d /\ v \in DOMAIN to)
    BY <1>1, <1>3
  <2> QED BY <1>3, <2>1, <2>2 DEF Grown
<1>4. \A e \in DOMAIN s.l1, m \in Mega : IsTable(s.l1[e][m]) => IsTable(r.l1[e][m])
  BY DEF Grown
<1> QED BY <1>2, <1>3, <1>4 DEF Grown, Keeps

LEMMA MegaPages ==
  ASSUME NEW m \in Mega, NEW v \in m * PPM .. m * PPM + PPM - 1
  PROVE  v \in Nat /\ v \div PPM = m
<1>1. m \in Nat /\ PPM \in Nat \ {0}
  BY Layout
<1>2. PICK x \in Nat : x = m * PPM
  BY <1>1
<1>3. v \in Nat /\ x =< v /\ v < x + PPM
  BY <1>1, <1>2
<1>4. PICK q \in Nat : q = v \div PPM
  BY <1>1, <1>3
<1>5. PPM * q =< v /\ v < PPM * q + PPM
  BY <1>1, <1>3, <1>4, PageNumber
<1>6. CASE q < m
  <2>1. q + 1 =< m
    BY <1>1, <1>4, <1>6
  <2>2. PPM * (q + 1) =< PPM * m
    BY <1>1, <1>4, <2>1
  <2>3. PPM * (q + 1) = PPM * q + PPM
    BY <1>1, <1>4
  <2> QED BY <1>1, <1>2, <1>3, <1>5, <2>2, <2>3
<1>7. CASE m < q
  <2>1. m + 1 =< q
    BY <1>1, <1>4, <1>7
  <2>2. PPM * (m + 1) =< PPM * q
    BY <1>1, <1>4, <2>1
  <2>3. PPM * (m + 1) = x + PPM
    BY <1>1, <1>2
  <2> QED BY <1>1, <1>2, <1>3, <1>5, <2>2, <2>3
<1> QED BY <1>1, <1>3, <1>4, <1>6, <1>7

(***************************************************************************)
(* The uses of the other spaces and what they share stay.                  *)
(***************************************************************************)
LEMMA KeepsUses ==
  ASSUME NEW s, NEW r, NEW d, Keeps(s, r, d), NEW e \in DOMAIN s.l1, e # d, NEW t
  PROVE  SpaceUses(r, t, e) = SpaceUses(s, t, e)
<1>1. \A m \in Mega : r.l1[e][m] = s.l1[e][m]
  BY DEF Keeps
<1>2. Tables(r, e) = Tables(s, e)
  BY <1>1 DEF Tables
<1>3. \A v \in UserPage : v \in Nat /\ v \div PPM \in Mega
  BY UserMega
<1>4. \A v \in UserPage : IsTable(s.l1[e][v \div PPM]) => Page(r, e, v) = Page(s, e, v)
  BY <1>3 DEF Keeps
<1>5. UserPages(r, e) = UserPages(s, e)
  BY <1>1, <1>3, <1>4 DEF UserPages
<1>6. \A v \in UserPages(s, e) : Page(r, e, v) = Page(s, e, v)
  BY <1>4 DEF UserPages
<1> QED BY <1>2, <1>5, <1>6 DEF SpaceUses

LEMMA KeepsKernel ==
  ASSUME NEW s, NEW r, NEW d, Keeps(s, r, d), KERNEL_TTB \in DOMAIN s.l1,
         NEW e \in DOMAIN s.l1, SharesKernel(s, e)
  PROVE  SharesKernel(r, e)
<1> SUFFICES ASSUME NEW m \in KernelMega
             PROVE  /\ r.l1[KERNEL_TTB][m].kind = "section" => r.l1[e][m] = r.l1[KERNEL_TTB][m]
                    /\ IsTable(r.l1[KERNEL_TTB][m]) =>
                         /\ IsTable(r.l1[e][m])
                         /\ \A v \in m * PPM .. m * PPM + PPM - 1 :
                              Page(r, e, v) = Page(r, KERNEL_TTB, v)
  BY DEF SharesKernel
<1>1. m \in Mega
  BY Layout
<1>2. r.l1[KERNEL_TTB][m] = s.l1[KERNEL_TTB][m] /\ r.l1[e][m] = s.l1[e][m]
  BY <1>1 DEF Keeps
<1>3. /\ s.l1[KERNEL_TTB][m].kind = "section" => s.l1[e][m] = s.l1[KERNEL_TTB][m]
      /\ IsTable(s.l1[KERNEL_TTB][m]) =>
           /\ IsTable(s.l1[e][m])
           /\ \A v \in m * PPM .. m * PPM + PPM - 1 : Page(s, e, v) = Page(s, KERNEL_TTB, v)
  BY DEF SharesKernel
<1>4. ASSUME IsTable(s.l1[KERNEL_TTB][m]), NEW v \in m * PPM .. m * PPM + PPM - 1
      PROVE  Page(r, e, v) = Page(r, KERNEL_TTB, v)
  <2>1. v \in Nat /\ v \div PPM = m
    BY <1>1, MegaPages
  <2>2. Page(r, e, v) = Page(s, e, v) /\ Page(r, KERNEL_TTB, v) = Page(s, KERNEL_TTB, v)
    BY <1>1, <1>3, <1>4, <2>1 DEF Keeps
  <2> QED BY <1>3, <1>4, <2>2
<1> QED BY <1>2, <1>3, <1>4

(***************************************************************************)
(* The kernel's directory shares with itself.                              *)
(***************************************************************************)
LEMMA SharesWithItself == ASSUME NEW s PROVE SharesKernel(s, KERNEL_TTB)
  BY DEF SharesKernel
-----------------------------------------------------------------------------
(***************************************************************************)
(* The uses U of frames and those of directory d of task t are below the   *)
(* next frame and of different frames, as far as the frames differ, and    *)
(* the fixed frames F are only used by "fs", and not yet if that is t.     *)
(***************************************************************************)
FixedFrames == FsFrames \cup RamdskFrames

Fits(s, t, F, W) ==
  /\ OneUseEach(W)
  /\ \A u \in W : u[1] \in Nat /\ u[1] < s.next
  /\ \A u \in W : u[1] \in F => u[3] = 1 /\ t # 1

Sound(s, t, d, U, F) ==
  /\ TablesOK(s) /\ d \in DOMAIN s.l1 /\ F \subseteq FixedFrames
  /\ \E W : U \cup SpaceUses(s, t, d) \subseteq W /\ Fits(s, t, F, W)

(***************************************************************************)
(* What directory d uses afterwards: what it did, new tables, new pages.   *)
(***************************************************************************)
LEMMA GrownUses ==
  ASSUME NEW s, NEW r, NEW d \in DOMAIN s.l1, NEW to, NEW n, NEW t,
         Grown(s, r, d, to, n), NEW u \in SpaceUses(r, t, d)
  PROVE  \/ u \in SpaceUses(s, t, d)
         \/ u[1] \in s.next..(n - 1) /\ u = <<u[1], "tables", t>>
         \/ \E v \in DOMAIN to : u = <<to[v], "page", t, v>>
<1>1. CASE \E f \in d..(d + 3) : u = <<f, "directory", t>>
  BY <1>1 DEF SpaceUses
<1>2. CASE \E f \in Tables(r, d) : u = <<f, "tables", t>>
  <2>1. PICK m \in Mega : IsTable(r.l1[d][m]) /\ u = <<r.l1[d][m].table \div 4, "tables", t>>
    BY <1>2 DEF Tables
  <2>2. CASE r.l1[d][m] = s.l1[d][m]
    BY <2>1, <2>2 DEF SpaceUses, Tables
  <2>3. CASE r.l1[d][m].table \div 4 \in s.next..(n - 1)
    BY <2>1, <2>3
  <2> QED BY <2>2, <2>3 DEF Grown
<1>3. CASE \E v \in UserPages(r, d) : u = <<Page(r, d, v), "page", t, v>>
  <2>1. PICK v \in UserPages(r, d) : u = <<Page(r, d, v), "page", t, v>>
    BY <1>3
  <2>2. v \in UserPage /\ v \in Nat /\ v \div PPM \in Mega /\ IsTable(r.l1[d][v \div PPM])
        /\ Page(r, d, v) # LowPage
    BY <2>1, UserMega DEF UserPages
  <2>3. Page(r, d, v) = IF v \in DOMAIN to THEN to[v]
                        ELSE IF IsTable(s.l1[d][v \div PPM]) THEN Page(s, d, v) ELSE LowPage
    BY <2>2 DEF Grown
  <2>4. CASE v \in DOMAIN to
    BY <2>1, <2>3, <2>4
  <2>5. CASE v \notin DOMAIN to
    <3>1. v \in UserPages(s, d) /\ Page(r, d, v) = Page(s, d, v)
      BY <2>2, <2>3, <2>5 DEF UserPages
    <3> QED BY <2>1, <3>1 DEF SpaceUses
  <2> QED BY <2>4, <2>5
<1> QED BY <1>1, <1>2, <1>3 DEF SpaceUses

(***************************************************************************)
(* Pages in frames that nobody used at s, before a block was taken at q,   *)
(* in new tables.                                                          *)
(***************************************************************************)
Unused(q, r, n, F, f) == f < r.next /\ f \notin q.next..(n - 1) /\ f \notin F

LEMMA SoundAfterPages ==
  ASSUME NEW s, NEW t, NEW d, NEW U, NEW F, Sound(s, t, d, U, F),
         NEW q, TablesOK(q), q.l1 = s.l1, q.pte = s.pte, s.next =< q.next,
         NEW r, NEW to, NEW n \in Nat, Grown(q, r, d, to, n), n =< r.next, ToUser(to),
         NEW H, H \subseteq F,
         \A v, w \in DOMAIN to : to[v] = to[w] => v = w,
         \A v \in DOMAIN to : Unused(q, r, n, H, to[v]),
         \/ \A v \in DOMAIN to : s.next =< to[v]
         \/ t = 1 /\ \A v \in DOMAIN to : to[v] \in F
  PROVE  Sound(r, t, d, U, H)
<1>1. PICK W : U \cup SpaceUses(s, t, d) \subseteq W /\ Fits(s, t, F, W)
  BY DEF Sound
<1> DEFINE X == W \cup SpaceUses(r, t, d)
<1>2. /\ s.next \in Nat /\ r.next \in Nat /\ q.next \in Nat
      /\ q.next =< r.next /\ TablesOK(r) /\ d \in DOMAIN r.l1
  BY DEF Grown, Sound, TablesOK, TablesTyped
<1>3. \A v \in DOMAIN to : to[v] \in Nat
  BY FramesAreNumbers DEF ToUser
<1>4. \A u \in W, v \in DOMAIN to : u[1] # to[v]
  <2>1. CASE \A v \in DOMAIN to : s.next =< to[v]
    BY <1>1, <1>2, <1>3, <2>1 DEF Fits
  <2>2. CASE t = 1 /\ \A v \in DOMAIN to : to[v] \in F
    BY <1>1, <2>2 DEF Fits
  <2> QED BY <2>1, <2>2
<1>5. \A f \in F : f \in Nat /\ f < s.next
  <2>1. \A f \in FixedFrames : f \in Nat /\ f < PAGES_START
    <3> TAKE f \in FixedFrames
    <3>1. f \in (VECT_PAGE + 1)..(PAGES_START - 1)
      BY ProgramAssumption DEF FixedFrames
    <3>2. VECT_PAGE \in Nat
      BY FixedPlaces
    <3>3. PAGES_START \in Nat
      BY LayoutAssumption, FramesAreNumbers
    <3> QED BY <3>1, <3>2, <3>3
  <2>2. PAGES_START =< s.next /\ PAGES_START \in Nat
    BY LayoutAssumption, FramesAreNumbers DEF Sound, TablesOK, TablesTyped
  <2> QED BY <1>2, <2>1, <2>2 DEF Sound
<1>6. ASSUME NEW u \in X
      PROVE  \/ u \in W
             \/ u[1] \in q.next..(n - 1) /\ u = <<u[1], "tables", t>>
             \/ \E v \in DOMAIN to : u = <<to[v], "page", t, v>>
  <2>1. SpaceUses(q, t, d) = SpaceUses(s, t, d)
    BY DEF SpaceUses, Tables, UserPages, Page, TableOf
  <2>2. d \in DOMAIN q.l1
    BY DEF Sound
  <2> QED BY <1>1, <2>1, <2>2, GrownUses
<1> HIDE DEF X
<1>7. OneUseEach(X)
  <2> SUFFICES ASSUME NEW u \in X, NEW w \in X, u[1] = w[1] PROVE u = w
    BY DEF OneUseEach
  <2>1. ASSUME NEW x \in W PROVE x[1] \in Nat /\ x[1] < s.next
    BY <1>1 DEF Fits
  <2>2. CASE u[1] \in q.next..(n - 1)
    <3>1. u \notin W /\ w \notin W
      BY <1>2, <2>1, <2>2
    <3>2. \A v \in DOMAIN to : to[v] # u[1]
      BY <2>2 DEF Unused
    <3>3. u = <<u[1], "tables", t>>
      BY <1>6, <3>1, <3>2
    <3>4. w = <<w[1], "tables", t>>
      BY <1>6, <3>1, <3>2
    <3> QED BY <3>3, <3>4
  <2>3. CASE u[1] \notin q.next..(n - 1)
    <3>1. CASE u \in W
      <4>1. w \in W
        BY <1>4, <1>6, <2>3, <3>1
      <4> QED BY <1>1, <3>1, <4>1 DEF Fits, OneUseEach
    <3>2. CASE u \notin W
      <4>1. PICK v \in DOMAIN to : u = <<to[v], "page", t, v>>
        BY <1>6, <2>3, <3>2
      <4>2. w \notin W
        BY <1>4, <4>1
      <4>3. PICK x \in DOMAIN to : w = <<to[x], "page", t, x>>
        BY <1>6, <2>3, <4>2
      <4>4. to[x] = to[v]
        BY <4>1, <4>3
      <4> QED BY <4>1, <4>3, <4>4
    <3> QED BY <3>1, <3>2
  <2> QED BY <2>2, <2>3
<1>8. ASSUME NEW u \in X PROVE u[1] \in Nat /\ u[1] < r.next
  <2>1. CASE u \in W
    BY <1>1, <1>2, <2>1 DEF Fits
  <2>2. CASE u[1] \in q.next..(n - 1)
    BY <1>2, <2>2
  <2>3. CASE \E v \in DOMAIN to : u = <<to[v], "page", t, v>>
    BY <1>3, <2>3 DEF Unused
  <2> QED BY <1>6, <2>1, <2>2, <2>3
<1>9. ASSUME NEW u \in X, u[1] \in H PROVE u[3] = 1 /\ t # 1
  <2>1. CASE u \in W
    BY <1>1, <1>9, <2>1 DEF Fits
  <2>2. CASE u[1] \in q.next..(n - 1)
    BY <1>2, <1>5, <1>9, <2>2
  <2>3. CASE \E v \in DOMAIN to : u = <<to[v], "page", t, v>>
    BY <1>9, <2>3 DEF Unused
  <2> QED BY <1>6, <2>1, <2>2, <2>3
<1>10. Fits(r, t, H, X)
  BY <1>7, <1>8, <1>9 DEF Fits
<1>11. U \cup SpaceUses(r, t, d) \subseteq X
  BY <1>1 DEF X
<1> QED BY <1>2, <1>10, <1>11 DEF Sound
-----------------------------------------------------------------------------
(***************************************************************************)
(* A block of frames, mapped page by page.                                 *)
(***************************************************************************)
LEMMA OrderOf ==
  ASSUME NEW size \in 1..512
  PROVE  get_order(size) \in Nat \ {0} /\ size =< get_order(size)
<1> DEFINE Fit(n) == n >= size /\ \A k \in Orders : k < n => k < size
<1>1. \E n \in Orders : Fit(n)
  BY DEF Orders
<1>2. get_order(size) = CHOOSE n \in Orders : Fit(n)
  BY DEF get_order
<1>3. get_order(size) \in Orders /\ Fit(get_order(size))
  <2> HIDE DEF Fit
  <2> QED BY <1>1, <1>2
<1> QED BY <1>3 DEF Orders

LEMMA BelowUser ==
  ASSUME NEW v \in Nat, NEW n \in Nat, v + n - 1 \in UserPage
  PROVE  v..(v + n - 1) \subseteq UserPage
<1>1. PICK x \in Nat : x = KERNEL_SPACE_START * PPM
  BY Layout
<1> QED BY <1>1 DEF UserPage

LEMMA FixedBelow ==
  ASSUME NEW s, TablesOK(s)
  PROVE  \A f \in FixedFrames : f \in Nat /\ f < PAGES_START /\ f < s.next /\ f \in Frame
<1> TAKE f \in FixedFrames
<1>1. f \in (VECT_PAGE + 1)..(PAGES_START - 1)
  BY ProgramAssumption DEF FixedFrames
<1>2. VECT_PAGE \in Nat /\ RAM_START \in Nat /\ RAM_START =< VECT_PAGE
  BY FixedPlaces, Layout
<1>3. PAGES_START \in Nat /\ PAGES_START \in Frame
  BY LayoutAssumption, FramesAreNumbers
<1>4. PAGES_START =< s.next /\ s.next \in Nat
  BY DEF TablesOK, TablesTyped
<1>5. f \in Frame
  <2>1. PICK x \in Nat : x = RAM_SIZE * PPM
    BY Layout
  <2> QED BY <1>1, <1>2, <1>3, <2>1 DEF Frame
<1> QED BY <1>1, <1>2, <1>3, <1>4, <1>5

LEMMA BlockHalts ==
  ASSUME NEW s, IsMmu(s), NEW d, NEW v, NEW size
  PROVE  /\ IsMmu(Block(s, d, v, size))
         /\ ~Block(s, d, v, size).halted => ~s.halted
<1> DEFINE n == get_order(size)
<1> DEFINE q == Take(s, n)
<1> DEFINE to == Consecutive(v, size, First(s, n))
<1>1. IsMmu(q) /\ (~q.halted => ~s.halted)
  BY TakeEffect
<1>2. Block(s, d, v, size) = map_vaddr2paddr(q, d, to)
  BY DEF Block
<1> HIDE DEF q, to
<1>3. /\ IsMmu(map_vaddr2paddr(q, d, to))
      /\ ~map_vaddr2paddr(q, d, to).halted => ~q.halted
  BY <1>1, MapHalts
<1> QED BY <1>1, <1>2, <1>3

BlockAt(v, size) == v \in Nat /\ size \in 1..512 /\ v + size - 1 \in UserPage

LEMMA BlockEffect ==
  ASSUME NEW s, NEW t, NEW d, NEW U, NEW F, Sound(s, t, d, U, F),
         NEW v, NEW size, BlockAt(v, size),
         NEW b, b = Block(s, d, v, size), ~b.halted
  PROVE  /\ Sound(b, t, d, U, F) /\ Keeps(s, b, d) /\ ~s.halted
         /\ s.next \in Nat /\ b.next \in Nat
         /\ \A p \in v..(v + size - 1) :
              /\ IsTable(b.l1[d][p \div PPM])
              /\ Page(b, d, p) = First(s, get_order(size)) + p - v
<1> DEFINE n == get_order(size)
<1> DEFINE q == Take(s, n)
<1> DEFINE f == First(s, n)
<1> DEFINE to == Consecutive(v, size, f)
<1> DEFINE r == map_vaddr2paddr(q, d, to)
<1>0. v \in Nat /\ size \in 1..512 /\ v + size - 1 \in UserPage
  BY DEF BlockAt
<1>1. b = r
  BY DEF Block
<1>2. TablesOK(s) /\ IsMmu(s) /\ d \in DOMAIN s.l1 /\ F \subseteq FixedFrames
  BY DEF Sound, TablesOK, TablesTyped
<1>3. n \in Nat \ {0} /\ size =< n
  BY <1>0, OrderOf
<1> HIDE DEF n
<1>4. IsMmu(q) /\ q.l1 = s.l1 /\ q.pte = s.pte
  BY <1>2, TakeEffect
<1>5. ~r.halted /\ ~q.halted
  <2>1. ~r.halted
    BY <1>1
  <2> HIDE DEF q, to
  <2>2. ~map_vaddr2paddr(q, d, to).halted => ~q.halted
    BY <1>4, MapHalts
  <2> QED BY <2>1, <2>2
<1>6. /\ TablesOK(q) /\ ~s.halted /\ f \in Nat /\ s.next =< f /\ s.next \in Nat
      /\ q.next = f + n /\ f..(f + n - 1) \subseteq Frame
  BY <1>2, <1>3, <1>5, TakeKeepsTables
<1> HIDE DEF q, f
<1>7. /\ DOMAIN to = v..(v + size - 1)
      /\ \A p \in v..(v + size - 1) : to[p] = f + p - v /\ to[p] \in f..(f + size - 1)
      /\ \A p, w \in v..(v + size - 1) : to[p] = to[w] => p = w
  <2>1. size \in Nat /\ f \in Nat
    BY <1>0, <1>6
  <2> QED BY ONLY <1>0, <2>1 DEF Consecutive
<1> HIDE DEF to
<1>8. \A p \in v..(v + size - 1) : to[p] \in f..(f + n - 1) /\ to[p] \in Nat
  BY <1>0, <1>3, <1>6, <1>7
<1>9. ToUser(to)
  <2>1. DOMAIN to \subseteq UserPage
    <3>1. size \in Nat
      BY <1>0
    <3>2. v..(v + size - 1) \subseteq UserPage
      BY <1>0, <3>1, BelowUser
    <3> QED BY <1>7, <3>2
  <2>2. \A p \in DOMAIN to : to[p] \in Frame
    BY <1>6, <1>7, <1>8
  <2> QED BY <2>1, <2>2 DEF ToUser
<1>10. Grown(q, r, d, to, r.next)
  BY <1>2, <1>4, <1>5, <1>6, <1>9, MapEffect
<1> HIDE DEF r
<1>11. r.next \in Nat /\ q.next =< r.next /\ q.next \in Nat
  BY <1>6, <1>10 DEF Grown, TablesOK, TablesTyped
<1>12. s.next =< q.next
  BY <1>3, <1>6
<1>13. \A p \in DOMAIN to : Unused(q, r, r.next, F, to[p]) /\ s.next =< to[p]
  <2> TAKE p \in DOMAIN to
  <2>1. to[p] \in Nat /\ f =< to[p] /\ to[p] =< f + n - 1
    BY <1>6, <1>7, <1>8
  <2>2. s.next =< to[p] /\ to[p] < q.next /\ to[p] < r.next
    BY <1>3, <1>6, <1>11, <2>1
  <2>3. to[p] \notin F
    BY <1>2, <1>6, <2>1, <2>2, FixedBelow
  <2>4. to[p] \notin q.next..(r.next - 1)
    BY <1>6, <1>11, <2>1, <2>2
  <2> QED BY <2>2, <2>3, <2>4 DEF Unused
<1>14. \A p, w \in DOMAIN to : to[p] = to[w] => p = w
  BY <1>7
<1>15. Sound(r, t, d, U, F)
  BY <1>4, <1>6, <1>9, <1>10, <1>11, <1>12, <1>13, <1>14, SoundAfterPages
<1>16. Keeps(s, r, d)
  <2>1. Keeps(s, q, d)
    BY <1>2, <1>4, <1>12, KeepsSame
  <2>2. Keeps(q, r, d)
    BY <1>2, <1>4, <1>9, <1>10, GrownKeeps
  <2> QED BY <1>3, <1>6, <1>11, <2>1, <2>2, KeepsOnward
<1>17. ASSUME NEW p \in v..(v + size - 1)
       PROVE  IsTable(r.l1[d][p \div PPM]) /\ Page(r, d, p) = f + p - v
  <2>1. p \in Nat /\ p \div PPM \in Mega
    BY <1>0, BelowUser, UserMega
  <2>2. IsTable(r.l1[d][p \div PPM]) /\ p \in DOMAIN to
    BY <1>7, <1>10 DEF Grown
  <2>3. Page(r, d, p) = to[p]
    BY <1>2, <1>4, <1>10, <2>1, <2>2 DEF Grown
  <2> QED BY <1>7, <2>2, <2>3
<1> QED BY <1>1, <1>6, <1>11, <1>15, <1>16, <1>17 DEF f, n

(***************************************************************************)
(* The frames of the file system server, which only "fs" maps.             *)
(***************************************************************************)
PlaceFor(v, n, f, F, H) ==
  /\ v \in Nat /\ n \in Nat /\ f \in Nat /\ v + n - 1 \in UserPage
  /\ H \subseteq F
  /\ \A x \in f..(f + n - 1) : x \in F /\ x \notin H

LEMMA MapFixed ==
  ASSUME NEW s, NEW d, NEW U, NEW F, Sound(s, 1, d, U, F),
         NEW v, NEW n, NEW f, NEW H, PlaceFor(v, n, f, F, H),
         NEW r, r = map_vaddr2paddr(s, d, Consecutive(v, n, f)), ~r.halted
  PROVE  Sound(r, 1, d, U, H) /\ Keeps(s, r, d) /\ ~s.halted
<1> DEFINE to == Consecutive(v, n, f)
<1>0. /\ v \in Nat /\ n \in Nat /\ f \in Nat /\ v + n - 1 \in UserPage
      /\ H \subseteq F
      /\ \A x \in f..(f + n - 1) : x \in F /\ x \notin H
  BY DEF PlaceFor
<1>1. TablesOK(s) /\ IsMmu(s) /\ d \in DOMAIN s.l1 /\ F \subseteq FixedFrames /\ s.next \in Nat
  BY DEF Sound, TablesOK, TablesTyped
<1>2. /\ DOMAIN to = v..(v + n - 1)
      /\ \A p \in v..(v + n - 1) : to[p] = f + p - v /\ to[p] \in f..(f + n - 1)
      /\ \A p, w \in v..(v + n - 1) : to[p] = to[w] => p = w
  BY <1>0 DEF Consecutive
<1> HIDE DEF to
<1>3. \A p \in DOMAIN to : to[p] \in F /\ to[p] \notin H
  BY <1>0, <1>2
<1>4. \A p \in DOMAIN to : to[p] \in Frame /\ to[p] < s.next /\ to[p] \in Nat
  BY <1>1, <1>3, FixedBelow
<1>5. ToUser(to)
  <2>1. v..(v + n - 1) \subseteq UserPage
    BY <1>0, BelowUser
  <2> QED BY <1>2, <1>4, <2>1 DEF ToUser
<1>6. r = map_vaddr2paddr(s, d, to)
  BY DEF to
<1>7. Grown(s, r, d, to, r.next)
  BY <1>1, <1>5, <1>6, MapEffect
<1>8. r.next \in Nat /\ s.next =< r.next /\ ~s.halted
  BY <1>7 DEF Grown, TablesOK, TablesTyped
<1>9. \A p \in DOMAIN to : Unused(s, r, r.next, H, to[p])
  <2> TAKE p \in DOMAIN to
  <2>1. to[p] < r.next /\ to[p] \notin s.next..(r.next - 1)
    BY <1>1, <1>4, <1>8
  <2> QED BY <1>3, <2>1 DEF Unused
<1>10. Keeps(s, r, d)
  BY <1>1, <1>5, <1>7, GrownKeeps
<1>11. \A p, w \in DOMAIN to : to[p] = to[w] => p = w
  BY <1>2
<1>12. s.next =< s.next /\ r.next =< r.next
  BY <1>1, <1>8
<1>13. Sound(r, 1, d, U, H)
  BY <1>0, <1>1, <1>3, <1>5, <1>7, <1>8, <1>9, <1>11, <1>12, SoundAfterPages
<1> QED BY <1>8, <1>10, <1>13

LEMMA SoundNumbers ==
  ASSUME NEW s, NEW t, NEW d, NEW U, NEW F, Sound(s, t, d, U, F)
  PROVE  TablesOK(s) /\ IsMmu(s) /\ s.next \in Nat /\ d \in DOMAIN s.l1
  BY DEF Sound, TablesOK, TablesTyped

LEMMA BuffersHalts ==
  ASSUME NEW s, IsMmu(s), NEW d
  PROVE  /\ IsMmu(Buffers(s, d))
         /\ ~Buffers(s, d).halted => ~s.halted
<1> DEFINE t == map_vaddr2paddr(s, d, Consecutive(USR_FS_BUFFER, FS_BUFFER_SIZE, FS_BUFFER))
<1> DEFINE to == Consecutive(USR_RAMDSK_BUFFER, RAMDSK_SIZE, RAMDSK_BUFFER)
<1>1. IsMmu(t) /\ (~t.halted => ~s.halted)
  BY MapHalts
<1>2. Buffers(s, d) = map_vaddr2paddr(t, d, to)
  BY DEF Buffers
<1> HIDE DEF t, to
<1>3. /\ IsMmu(map_vaddr2paddr(t, d, to))
      /\ ~map_vaddr2paddr(t, d, to).halted => ~t.halted
  BY <1>1, MapHalts
<1> QED BY <1>1, <1>2, <1>3

LEMMA BuffersEffect ==
  ASSUME NEW s, NEW d, NEW U, Sound(s, 1, d, U, FixedFrames), ~Buffers(s, d).halted
  PROVE  Sound(Buffers(s, d), 1, d, U, {}) /\ Keeps(s, Buffers(s, d), d) /\ ~s.halted
<1> DEFINE t == map_vaddr2paddr(s, d, Consecutive(USR_FS_BUFFER, FS_BUFFER_SIZE, FS_BUFFER))
<1> DEFINE r == map_vaddr2paddr(t, d, Consecutive(USR_RAMDSK_BUFFER, RAMDSK_SIZE, RAMDSK_BUFFER))
<1>1. Buffers(s, d) = r
  BY DEF Buffers
<1>2. IsMmu(s)
  BY SoundNumbers
<1>3. IsMmu(t)
  BY <1>2, MapHalts
<1>4. ~t.halted
  <2> DEFINE to == Consecutive(USR_RAMDSK_BUFFER, RAMDSK_SIZE, RAMDSK_BUFFER)
  <2>1. ~r.halted
    BY <1>1
  <2> HIDE DEF t, to
  <2>2. ~map_vaddr2paddr(t, d, to).halted => ~t.halted
    BY <1>3, MapHalts
  <2> QED BY <2>1, <2>2 DEF to
<1>5. /\ PlaceFor(USR_FS_BUFFER, FS_BUFFER_SIZE, FS_BUFFER, FixedFrames, RamdskFrames)
      /\ PlaceFor(USR_RAMDSK_BUFFER, RAMDSK_SIZE, RAMDSK_BUFFER, RamdskFrames, {})
  BY ProgramAssumption DEF PlaceFor, FixedFrames, FsFrames, RamdskFrames
<1>6. Sound(t, 1, d, U, RamdskFrames) /\ Keeps(s, t, d) /\ ~s.halted
  <2>1. t = map_vaddr2paddr(s, d, Consecutive(USR_FS_BUFFER, FS_BUFFER_SIZE, FS_BUFFER))
    OBVIOUS
  <2> HIDE DEF t
  <2> QED BY <1>4, <1>5, <2>1, MapFixed
<1> HIDE DEF t
<1>7. ~r.halted
  BY <1>1
<1>8. r = map_vaddr2paddr(t, d, Consecutive(USR_RAMDSK_BUFFER, RAMDSK_SIZE, RAMDSK_BUFFER))
  OBVIOUS
<1> HIDE DEF r
<1>9. Sound(r, 1, d, U, {}) /\ Keeps(t, r, d)
  BY <1>5, <1>6, <1>7, <1>8, MapFixed
<1>10. s.next \in Nat /\ t.next \in Nat /\ r.next \in Nat
  BY <1>6, <1>9, SoundNumbers
<1>11. Keeps(s, r, d)
  BY <1>6, <1>9, <1>10, KeepsOnward
<1> QED BY <1>1, <1>6, <1>9, <1>11

(***************************************************************************)
(* createp() maps the image, the buffers of "fs", the stack and the pages  *)
(* for mail.                                                               *)
(***************************************************************************)
LEMMA BlocksFit ==
  /\ \A t \in Program : BlockAt(USR_ENTRY, Image(Name(t)))
  /\ BlockAt(USR_SP, USR_SP_SIZE) /\ BlockAt(SEND_BUF, 1) /\ BlockAt(RECV_BUF, 1)
<1>1. UserPage \subseteq Nat
  BY UserMega
<1>2. \A v \in UserPage : BlockAt(v, 1)
  BY <1>1 DEF BlockAt
<1> QED BY <1>2, ProgramAssumption DEF BlockAt, Image, Name

FixedFor(t) == IF t = 1 THEN {} ELSE FixedFrames

LEMMA CreatedHalts ==
  ASSUME NEW s, IsMmu(s), NEW d, NEW name
  PROVE  /\ IsMmu(Created(s, d, name))
         /\ ~Created(s, d, name).halted => ~s.halted
<1> DEFINE q1 == Block(s, d, USR_ENTRY, Image(name))
<1> DEFINE q2 == IF name = "fs" THEN Buffers(q1, d) ELSE q1
<1> DEFINE q3 == Block(q2, d, USR_SP, USR_SP_SIZE)
<1> DEFINE q4 == Block(q3, d, SEND_BUF, 1)
<1> DEFINE r == Block(q4, d, RECV_BUF, 1)
<1>1. Created(s, d, name) = r
  BY DEF Created
<1>2. IsMmu(q1) /\ (~q1.halted => ~s.halted)
  BY BlockHalts
<1> HIDE DEF q1
<1>3. IsMmu(q2) /\ (~q2.halted => ~q1.halted)
  BY <1>2, BuffersHalts
<1> HIDE DEF q2
<1>4. IsMmu(q3) /\ (~q3.halted => ~q2.halted)
  BY <1>3, BlockHalts
<1> HIDE DEF q3
<1>5. IsMmu(q4) /\ (~q4.halted => ~q3.halted)
  BY <1>4, BlockHalts
<1> HIDE DEF q4
<1>6. IsMmu(r) /\ (~r.halted => ~q4.halted)
  BY <1>5, BlockHalts
<1> HIDE DEF r
<1> QED BY <1>1, <1>2, <1>3, <1>4, <1>5, <1>6

LEMMA CreatedEffect ==
  ASSUME NEW s, NEW t \in Program, NEW d, NEW U, Sound(s, t, d, U, FixedFrames),
         NEW r, r = Created(s, d, Name(t)), ~r.halted
  PROVE  /\ Sound(r, t, d, U, FixedFor(t)) /\ Keeps(s, r, d) /\ ~s.halted
         /\ \A v \in DOMAIN ImagePages(t) : IsTable(r.l1[d][v \div PPM])
<1> DEFINE q1 == Block(s, d, USR_ENTRY, Image(Name(t)))
<1> DEFINE q2 == IF Name(t) = "fs" THEN Buffers(q1, d) ELSE q1
<1> DEFINE q3 == Block(q2, d, USR_SP, USR_SP_SIZE)
<1> DEFINE q4 == Block(q3, d, SEND_BUF, 1)
<1> DEFINE F == FixedFor(t)
<1>1. r = Block(q4, d, RECV_BUF, 1)
  BY DEF Created
<1>2. IsMmu(s)
  BY SoundNumbers
<1>3. IsMmu(q1) /\ q1 = Block(s, d, USR_ENTRY, Image(Name(t)))
  BY <1>2, BlockHalts
<1>4. q2 = IF t = 1 THEN Buffers(q1, d) ELSE q1
  BY DEF Name, Program
<1> HIDE DEF q1
<1>5. IsMmu(q2) /\ (~q2.halted => ~q1.halted)
  BY <1>3, BuffersHalts
<1> HIDE DEF q2
<1>6. IsMmu(q3) /\ (~q3.halted => ~q2.halted) /\ q3 = Block(q2, d, USR_SP, USR_SP_SIZE)
  BY <1>5, BlockHalts
<1> HIDE DEF q3
<1>7. IsMmu(q4) /\ (~q4.halted => ~q3.halted) /\ q4 = Block(q3, d, SEND_BUF, 1)
  BY <1>6, BlockHalts
<1> HIDE DEF q4
<1>8. ~q4.halted
  <2>1. ~Block(q4, d, RECV_BUF, 1).halted => ~q4.halted
    BY <1>7, BlockHalts
  <2> QED BY <1>1, <2>1
<1>9. ~q1.halted /\ ~q2.halted /\ ~q3.halted
  BY <1>5, <1>6, <1>7, <1>8
<1>10. /\ Sound(q1, t, d, U, FixedFrames) /\ Keeps(s, q1, d) /\ ~s.halted
       /\ s.next \in Nat /\ q1.next \in Nat
       /\ \A p \in USR_ENTRY..(USR_ENTRY + Image(Name(t)) - 1) : IsTable(q1.l1[d][p \div PPM])
  BY <1>3, <1>9, BlocksFit, BlockEffect
<1>11. Sound(q2, t, d, U, F) /\ Keeps(q1, q2, d) /\ q2.next \in Nat
  <2>1. CASE t = 1
    <3>1. Sound(q1, 1, d, U, FixedFrames) /\ ~Buffers(q1, d).halted
      BY <1>4, <1>9, <1>10, <2>1
    <3>2. Sound(q2, 1, d, U, {}) /\ Keeps(q1, q2, d)
      BY <1>4, <2>1, <3>1, BuffersEffect
    <3>3. q2.next \in Nat
      BY <3>2, SoundNumbers
    <3> QED BY <2>1, <3>2, <3>3 DEF FixedFor
  <2>2. CASE t # 1
    <3>1. q2 = q1 /\ q1.next =< q1.next /\ d \in DOMAIN q1.l1
      BY <1>4, <1>10, <2>2, SoundNumbers
    <3>2. Keeps(q1, q2, d)
      BY <3>1, KeepsSame
    <3> QED BY <1>10, <2>2, <3>1, <3>2 DEF FixedFor
  <2> QED BY <2>1, <2>2
<1> HIDE DEF F
<1>12. Sound(q3, t, d, U, F) /\ Keeps(q2, q3, d) /\ q3.next \in Nat
  BY <1>6, <1>9, <1>11, BlocksFit, BlockEffect
<1>13. Sound(q4, t, d, U, F) /\ Keeps(q3, q4, d) /\ q4.next \in Nat
  BY <1>7, <1>8, <1>12, BlocksFit, BlockEffect
<1>14. Sound(r, t, d, U, F) /\ Keeps(q4, r, d) /\ r.next \in Nat
  BY <1>1, <1>13, BlocksFit, BlockEffect
<1>15. Keeps(q1, q3, d)
  BY <1>10, <1>11, <1>12, KeepsOnward
<1>16. Keeps(q1, q4, d)
  BY <1>10, <1>12, <1>13, <1>15, KeepsOnward
<1>17. Keeps(q1, r, d)
  BY <1>10, <1>13, <1>14, <1>16, KeepsOnward
<1>18. Keeps(s, r, d)
  BY <1>10, <1>14, <1>17, KeepsOnward
<1>19. ASSUME NEW v \in DOMAIN ImagePages(t) PROVE IsTable(r.l1[d][v \div PPM])
  <2>1. BlockAt(USR_ENTRY, Image(Name(t)))
    BY BlocksFit
  <2>2. v \in USR_ENTRY..(USR_ENTRY + Image(Name(t)) - 1)
    BY DEF ImagePages, Consecutive
  <2>3. v \in UserPage
    <3>1. /\ USR_ENTRY \in Nat /\ Image(Name(t)) \in Nat
          /\ USR_ENTRY + Image(Name(t)) - 1 \in UserPage
      BY <2>1 DEF BlockAt
    <3> QED BY <2>2, <3>1, BelowUser
  <2>4. v \div PPM \in Mega /\ d \in DOMAIN q1.l1
    BY <1>10, <2>3, UserMega, SoundNumbers
  <2> QED BY <1>10, <1>17, <2>2, <2>4 DEF Keeps
<1> QED BY <1>10, <1>14, <1>18, <1>19 DEF F
-----------------------------------------------------------------------------
(***************************************************************************)
(* A new directory gets the kernel's sections and copies of its tables.    *)
(***************************************************************************)
SharedRow(s, row) ==
  [m \in Mega |-> IF m \in KernelMega /\ s.l1[KERNEL_TTB][m].kind = "section"
                  THEN s.l1[KERNEL_TTB][m] ELSE row[m]]

SharedPages(s) == [v \in KernelPages(s) |-> Page(s, KERNEL_TTB, v)]

SharedL1(s, t, d) == [t.l1 EXCEPT ![d] = SharedRow(s, t.l1[d])]

WithSections(s, t, d) == [t EXCEPT !.l1[d] = SharedRow(s, t.l1[d])]

SharedTables(s, d) == NewTables(s, d, EmptyGroups(s, d, KernelTables(s)))

ShareSteps(s, d, t, u, r) ==
  /\ t = SharedTables(s, d) /\ u = WithSections(s, t, d)
  /\ r = share_kernel_space(s, d)

LEMMA ShareHalts ==
  ASSUME NEW s, IsMmu(s), NEW d, NEW t, NEW u, NEW r, ShareSteps(s, d, t, u, r)
  PROVE  /\ IsMmu(t) /\ IsMmu(u) /\ IsMmu(r)
         /\ u.l1 = SharedL1(s, t, d)
         /\ u.pte = t.pte /\ u.next = t.next /\ u.halted = t.halted
         /\ ~r.halted => ~s.halted /\ ~t.halted /\ r = SetPages(u, d, SharedPages(s))
<1>1. IsMmu(t) /\ IsMmu(Stop(s)) /\ Stop(s).halted
  BY NewTablesHalt, StopHalts DEF SharedTables, ShareSteps
<1>2. /\ IsMmu(u) /\ u.l1 = SharedL1(s, t, d)
      /\ u.pte = t.pte /\ u.next = t.next /\ u.halted = t.halted
  BY <1>1 DEF IsMmu, WithSections, SharedL1, ShareSteps
<1>3. IsMmu(SetPages(u, d, SharedPages(s)))
  BY <1>2, SetPagesFields
<1>4. r = IF s.halted \/ t.halted THEN Stop(s) ELSE SetPages(u, d, SharedPages(s))
  BY DEF share_kernel_space, SharedTables, WithSections, SharedRow, SharedPages, ShareSteps
<1> QED BY <1>1, <1>2, <1>3, <1>4

LEMMA KernelPagesAre ==
  ASSUME NEW s, TablesOK(s)
  PROVE  /\ \A v \in KernelPages(s) :
              /\ v \in Nat /\ v \div PPM \in KernelMega /\ v \div PPM \in Mega
              /\ v \div PPM \in KernelTables(s) /\ Page(s, KERNEL_TTB, v) \in Frame \cup {LowPage}
         /\ \A m \in KernelTables(s), v \in Nat :
              v \div PPM = m /\ v \notin KernelPages(s) => Page(s, KERNEL_TTB, v) = LowPage
<1>1. KERNEL_TTB \in DOMAIN s.l1 /\ PPM \in Nat \ {0} /\ KERNEL_SPACE_START \in Nat
      /\ LastMega \in Nat
  BY Layout DEF TablesOK, TablesTyped
<1>2. PICK x \in Nat, y \in Nat : x = KERNEL_SPACE_START * PPM /\ y = (LastMega + 1) * PPM
  BY <1>1
<1>3. KernelPages(s) = {v \in x..(y - 1) : v \div PPM \in KernelTables(s)
                                            /\ Page(s, KERNEL_TTB, v) # LowPage}
  BY <1>2 DEF KernelPages
<1>4. KernelTables(s) \subseteq KernelMega /\ KernelMega \subseteq Mega
      /\ \A m \in KernelTables(s) : IsTable(s.l1[KERNEL_TTB][m])
  BY Layout DEF KernelTables
<1>5. ASSUME NEW v \in KernelPages(s)
      PROVE  /\ v \in Nat /\ v \div PPM \in KernelMega /\ v \div PPM \in Mega
             /\ v \div PPM \in KernelTables(s) /\ Page(s, KERNEL_TTB, v) \in Frame \cup {LowPage}
  <2>1. v \in Nat /\ v \div PPM \in KernelTables(s)
    BY <1>2, <1>3
  <2>2. PICK a : /\ a = TableOf(s, KERNEL_TTB, v)
                 /\ s.pte[a] \in [0..(PPM - 1) -> Frame \cup {LowPage}]
    BY <1>1, <1>4, <2>1, EntryOfTable DEF TableOf
  <2>3. v % PPM \in 0..(PPM - 1)
    BY <2>1, PageNumber
  <2> QED BY <1>4, <2>1, <2>2, <2>3 DEF Page
<1>6. ASSUME NEW m \in KernelTables(s), NEW v \in Nat, v \div PPM = m, v \notin KernelPages(s)
      PROVE  Page(s, KERNEL_TTB, v) = LowPage
  <2>1. m \in Nat /\ KERNEL_SPACE_START =< m /\ m + 1 =< LastMega + 1
    BY <1>4, Layout
  <2>2. KERNEL_SPACE_START * PPM =< m * PPM /\ (m + 1) * PPM =< (LastMega + 1) * PPM
    BY <1>1, <2>1
  <2>3. m * PPM =< v /\ v < (m + 1) * PPM
    <3>1. v % PPM \in 0..(PPM - 1) /\ v = PPM * m + (v % PPM)
      BY <1>6, PageNumber
    <3>2. PICK z \in Nat : z = m * PPM /\ z = PPM * m /\ (m + 1) * PPM = z + PPM
      BY <1>1, <2>1
    <3> QED BY <1>1, <3>1, <3>2
  <2>4. v \in x..(y - 1)
    <3>1. PICK z \in Nat, w \in Nat : z = m * PPM /\ w = (m + 1) * PPM
      BY <1>1, <2>1
    <3>2. x =< z /\ w =< y /\ z =< v /\ v < w
      BY <1>2, <2>2, <2>3, <3>1
    <3> QED BY <1>2, <3>1, <3>2
  <2> QED BY <1>3, <1>6, <2>4
<1> QED BY <1>5, <1>6

(***************************************************************************)
(* Directory d is new: its entries are those of a fresh directory.         *)
(***************************************************************************)
Blank(s, d) == /\ TablesOK(s) /\ d \in DOMAIN s.l1 /\ d # KERNEL_TTB
               /\ \A m \in Mega : s.l1[d][m] = FaultEntry

\* The kernel's part of s in the directory d of t, and nothing else.
HasSections(s, t, u, d, G) ==
  /\ Blank(s, d) /\ Extended(s, t, d, G)
  /\ IsMmu(u) /\ u.pte = t.pte /\ u.next = t.next /\ u.halted = t.halted
  /\ u.l1 = SharedL1(s, t, d)
  /\ \A m \in Mega : Group(m) \in G => m \in KernelMega /\ s.l1[KERNEL_TTB][m].kind # "section"

LEMMA SectionEntries ==
  ASSUME NEW s, NEW t, NEW u, NEW d, NEW G, HasSections(s, t, u, d, G)
  PROVE  /\ DOMAIN u.l1 = DOMAIN s.l1 /\ DOMAIN t.l1 = DOMAIN s.l1
         /\ \A e \in DOMAIN s.l1 \ {d} : u.l1[e] = s.l1[e] /\ t.l1[e] = s.l1[e]
         /\ u.l1[d] = SharedRow(s, t.l1[d])
         /\ \A m \in Mega :
              /\ Group(m) \in G => u.l1[d][m] = t.l1[d][m] /\ IsTable(u.l1[d][m])
              /\ Group(m) \notin G =>
                   u.l1[d][m] = IF m \in KernelMega /\ s.l1[KERNEL_TTB][m].kind = "section"
                                THEN s.l1[KERNEL_TTB][m] ELSE FaultEntry
              /\ IsTable(u.l1[d][m]) => Group(m) \in G
<1>1. /\ DOMAIN t.l1 = DOMAIN s.l1 /\ d \in DOMAIN s.l1
      /\ \A e \in DOMAIN s.l1 \ {d} : t.l1[e] = s.l1[e]
      /\ \A m \in Mega : Group(m) \notin G => t.l1[d][m] = FaultEntry
      /\ \A m \in Mega : Group(m) \in G => IsTable(t.l1[d][m])
  BY DEF HasSections, Extended, Blank
<1>2. u.l1 = SharedL1(s, t, d)
  BY DEF HasSections
<1>3. /\ DOMAIN u.l1 = DOMAIN s.l1 /\ u.l1[d] = SharedRow(s, t.l1[d])
      /\ \A e \in DOMAIN s.l1 \ {d} : u.l1[e] = s.l1[e]
  <2> DEFINE row == SharedRow(s, t.l1[d])
  <2> HIDE DEF row
  <2>1. u.l1 = [t.l1 EXCEPT ![d] = row]
    BY <1>2 DEF row, SharedL1
  <2>2. t.l1 = [e \in DOMAIN t.l1 |-> t.l1[e]]
    BY DEF HasSections, Extended, TablesOK, TablesTyped
  <2> QED BY <1>1, <2>1, <2>2 DEF row
<1>4. ASSUME NEW m \in Mega
      PROVE  /\ Group(m) \in G => u.l1[d][m] = t.l1[d][m] /\ IsTable(u.l1[d][m])
             /\ Group(m) \notin G =>
                  u.l1[d][m] = IF m \in KernelMega /\ s.l1[KERNEL_TTB][m].kind = "section"
                               THEN s.l1[KERNEL_TTB][m] ELSE FaultEntry
             /\ IsTable(u.l1[d][m]) => Group(m) \in G
  <2>1. u.l1[d][m] = IF m \in KernelMega /\ s.l1[KERNEL_TTB][m].kind = "section"
                     THEN s.l1[KERNEL_TTB][m] ELSE t.l1[d][m]
    BY <1>3 DEF SharedRow
  <2>2. CASE Group(m) \in G
    BY <1>1, <2>1, <2>2 DEF HasSections
  <2>3. CASE Group(m) \notin G
    <3>1. u.l1[d][m] = IF m \in KernelMega /\ s.l1[KERNEL_TTB][m].kind = "section"
                       THEN s.l1[KERNEL_TTB][m] ELSE FaultEntry
      BY <1>1, <2>1, <2>3
    <3> QED BY <2>3, <3>1 DEF IsTable, FaultEntry
  <2> QED BY <2>2, <2>3
<1> QED BY <1>1, <1>3, <1>4

LEMMA SectionsKeepTables ==
  ASSUME NEW s, NEW t, NEW u, NEW d, NEW G, HasSections(s, t, u, d, G)
  PROVE  TablesOK(u)
<1>1. /\ DOMAIN u.l1 = DOMAIN s.l1 /\ DOMAIN t.l1 = DOMAIN s.l1 /\ d \in DOMAIN s.l1
      /\ \A e \in DOMAIN s.l1 \ {d} : u.l1[e] = s.l1[e] /\ t.l1[e] = s.l1[e]
      /\ u.l1[d] = SharedRow(s, t.l1[d]) /\ d # KERNEL_TTB /\ KERNEL_TTB \in DOMAIN s.l1
  <2>1. d \in DOMAIN s.l1 /\ d # KERNEL_TTB /\ KERNEL_TTB \in DOMAIN s.l1
    BY DEF HasSections, Blank, TablesOK, TablesTyped
  <2>2. /\ DOMAIN u.l1 = DOMAIN s.l1 /\ DOMAIN t.l1 = DOMAIN s.l1
        /\ \A e \in DOMAIN s.l1 \ {d} : u.l1[e] = s.l1[e] /\ t.l1[e] = s.l1[e]
        /\ u.l1[d] = SharedRow(s, t.l1[d])
    BY SectionEntries
  <2> QED BY <2>1, <2>2
<1>2. ASSUME NEW e \in DOMAIN s.l1, NEW m \in Mega
      PROVE  \/ u.l1[e][m] = t.l1[e][m]
             \/ /\ e = d /\ m \in KernelMega /\ u.l1[e][m].kind = "section"
                /\ u.l1[e][m] = t.l1[KERNEL_TTB][m]
  BY <1>1 DEF SharedRow
<1>3. TablesOK(t) /\ IsMmu(u) /\ u.pte = t.pte /\ u.next = t.next /\ u.halted = t.halted
  BY DEF HasSections, Extended
<1>4. TablesTyped(u)
  <2>1. Entries(u) = Entries(t)
    BY <1>3 DEF Entries
  <2>2. ASSUME NEW e \in DOMAIN s.l1, NEW m \in Mega PROVE u.l1[e][m] \in Entries(u)
    BY <1>1, <1>2, <1>3, <2>1 DEF TablesOK, TablesTyped
  <2>3. \A e \in DOMAIN s.l1 : u.l1[e] \in [Mega -> Entries(u)]
    <3> TAKE e \in DOMAIN s.l1
    <3>1. u.l1[e] = [m \in Mega |-> u.l1[e][m]]
      <4>1. CASE e = d
        BY <1>1, <4>1 DEF SharedRow
      <4>2. CASE e # d
        BY <1>1, <1>3, <4>2 DEF TablesOK, TablesTyped
      <4> QED BY <4>1, <4>2
    <3> QED BY <2>2, <3>1
  <2>4. u.l1 = [e \in DOMAIN u.l1 |-> u.l1[e]]
    BY DEF HasSections, SharedL1
  <2>5. u.l1 \in [DOMAIN u.l1 -> [Mega -> Entries(u)]]
    BY <1>1, <2>3, <2>4
  <2> QED BY <1>1, <1>3, <2>5 DEF TablesOK, TablesTyped
<1>5. ASSUME NEW e \in DOMAIN s.l1, NEW m \in Mega, IsTable(u.l1[e][m])
      PROVE  u.l1[e][m] = t.l1[e][m]
  BY <1>2, <1>5 DEF IsTable
<1>6. OneEntryEach(u)
  BY <1>1, <1>3, <1>5 DEF TablesOK, OneEntryEach
<1>7. NoUserSections(u)
  BY <1>1, <1>2, <1>3 DEF TablesOK, NoUserSections
<1>8. KernelGroups(u)
  <2>1. u.l1[KERNEL_TTB] = t.l1[KERNEL_TTB]
    BY <1>1
  <2> QED BY <1>3, <2>1 DEF TablesOK, KernelGroups
<1> QED BY <1>4, <1>6, <1>7, <1>8 DEF TablesOK

(***************************************************************************)
(* The directory d of r shares the kernel and has no pages of its own.     *)
(***************************************************************************)
Shared(s, r, d) ==
  /\ TablesOK(r) /\ ~r.halted /\ ~s.halted
  /\ s.next =< r.next /\ DOMAIN r.l1 = DOMAIN s.l1
  /\ \A e \in DOMAIN s.l1 \ {d} : r.l1[e] = s.l1[e]
  /\ \A e \in DOMAIN s.l1 \ {d}, v \in Nat :
       v \div PPM \in Mega /\ IsTable(s.l1[e][v \div PPM]) => Page(r, e, v) = Page(s, e, v)
  /\ SharesKernel(r, d)
  /\ \A m \in Mega \ KernelMega : Empty(r.l1[d][m])
  /\ \A m \in Mega : IsTable(r.l1[d][m]) => r.l1[d][m].table \div 4 \in s.next..(r.next - 1)

LEMMA ShareEffect ==
  ASSUME NEW s, NEW d, Blank(s, d), NEW r, r = share_kernel_space(s, d), ~r.halted
  PROVE  Shared(s, r, d)
<1> DEFINE G == EmptyGroups(s, d, KernelTables(s))
<1> DEFINE to == SharedPages(s)
<1>1. /\ TablesOK(s) /\ IsMmu(s) /\ d \in DOMAIN s.l1 /\ d # KERNEL_TTB /\ s.next \in Nat
      /\ \A m \in Mega : s.l1[d][m] = FaultEntry
      /\ KERNEL_TTB \in DOMAIN s.l1
  BY DEF Blank, TablesOK, TablesTyped
<1>2. PICK t : t = SharedTables(s, d)
  OBVIOUS
<1>3. PICK u : u = WithSections(s, t, d)
  OBVIOUS
<1>4. /\ IsMmu(t) /\ IsMmu(u)
      /\ u.l1 = SharedL1(s, t, d)
      /\ u.pte = t.pte /\ u.next = t.next /\ u.halted = t.halted
      /\ ~s.halted /\ ~t.halted /\ r = SetPages(u, d, to)
  <2>0. ShareSteps(s, d, t, u, r)
    BY <1>2, <1>3 DEF ShareSteps
  <2>1. /\ IsMmu(t) /\ IsMmu(u)
        /\ u.l1 = SharedL1(s, t, d)
        /\ u.pte = t.pte /\ u.next = t.next /\ u.halted = t.halted
    BY <1>1, <2>0, ShareHalts
  <2>2. ~r.halted => ~s.halted /\ ~t.halted /\ r = SetPages(u, d, SharedPages(s))
    BY <1>1, <2>0, ShareHalts
  <2> QED BY <2>1, <2>2
<1>5. /\ KernelTables(s) \subseteq KernelMega /\ KernelTables(s) \in SUBSET Mega
      /\ \A m \in KernelTables(s) : IsTable(s.l1[KERNEL_TTB][m]) /\ m \in KernelMega
      /\ \A m \in KernelMega : IsTable(s.l1[KERNEL_TTB][m]) => m \in KernelTables(s)
  BY Layout DEF KernelTables
<1>6. /\ G \in SUBSET Groups
      /\ \A m \in Mega : Group(m) \in G <=> \E n \in KernelTables(s) : Group(m) = Group(n)
  <2>1. G \in SUBSET Groups
    BY <1>5, EmptyGroupsAre
  <2>2. \A m \in KernelTables(s) : Empty(s.l1[d][m])
    BY <1>1, <1>5, EntryKinds
  <2> QED BY <2>1, <2>2 DEF EmptyGroups
<1> HIDE DEF G
<1>7. t = NewTables(s, d, G)
  BY <1>2 DEF SharedTables, G
<1>8. Extended(s, t, d, G)
  BY <1>1, <1>4, <1>6, <1>7, NewTablesEffect
<1>9. \A m \in Mega : Group(m) \in G => m \in KernelMega /\ s.l1[KERNEL_TTB][m].kind # "section"
  <2> SUFFICES ASSUME NEW m \in Mega, Group(m) \in G
               PROVE  m \in KernelMega /\ s.l1[KERNEL_TTB][m].kind # "section"
    OBVIOUS
  <2>1. PICK n \in KernelTables(s) : Group(n) = Group(m)
    BY <1>6
  <2>2. m \in KernelMega
    BY <1>5, <2>1, GroupFacts
  <2> QED BY <1>1, <1>5, <2>1, <2>2 DEF TablesOK, KernelGroups
<1>10. HasSections(s, t, u, d, G)
  BY <1>4, <1>8, <1>9 DEF HasSections
<1>11. TablesOK(u)
  BY <1>10, SectionsKeepTables
<1>12. /\ DOMAIN u.l1 = DOMAIN s.l1 /\ DOMAIN t.l1 = DOMAIN s.l1
       /\ \A e \in DOMAIN s.l1 \ {d} : u.l1[e] = s.l1[e] /\ t.l1[e] = s.l1[e]
       /\ \A m \in Mega :
            /\ Group(m) \in G => u.l1[d][m] = t.l1[d][m] /\ IsTable(u.l1[d][m])
            /\ Group(m) \notin G =>
                 u.l1[d][m] = IF m \in KernelMega /\ s.l1[KERNEL_TTB][m].kind = "section"
                              THEN s.l1[KERNEL_TTB][m] ELSE FaultEntry
            /\ IsTable(u.l1[d][m]) => Group(m) \in G
  BY <1>10, SectionEntries
<1> HIDE DEF to
<1>13. /\ DOMAIN to = KernelPages(s)
       /\ \A v \in KernelPages(s) : to[v] = Page(s, KERNEL_TTB, v)
  BY DEF to, SharedPages
<1>14. CanPlace(u, d, to)
  <2>1. \A v \in KernelPages(s) :
              /\ v \in Nat /\ v \div PPM \in KernelMega /\ v \div PPM \in Mega
              /\ v \div PPM \in KernelTables(s) /\ Page(s, KERNEL_TTB, v) \in Frame \cup {LowPage}
    BY <1>1, KernelPagesAre
  <2>2. \A v \in KernelPages(s) : IsTable(u.l1[d][v \div PPM])
    BY <1>6, <1>12, <2>1
  <2> QED BY <1>13, <2>1, <2>2 DEF CanPlace
<1>15. /\ TablesOK(r) /\ r.l1 = u.l1 /\ r.next = u.next /\ r.halted = u.halted
       /\ \A e \in DOMAIN u.l1, v \in Nat :
            v \div PPM \in Mega /\ IsTable(u.l1[e][v \div PPM]) =>
              Page(r, e, v) = IF e = d /\ v \in DOMAIN to THEN to[v] ELSE Page(u, e, v)
  BY <1>1, <1>4, <1>11, <1>12, <1>14, SetPagesEffect
<1>16. ASSUME NEW e \in DOMAIN s.l1, NEW v \in Nat, v \div PPM \in Mega,
              IsTable(u.l1[e][v \div PPM])
       PROVE  Page(r, e, v) = IF e = d /\ v \in DOMAIN to THEN to[v]
                              ELSE IF e = d THEN LowPage ELSE Page(s, e, v)
  <2>1. u.l1[e][v \div PPM] = t.l1[e][v \div PPM]
    BY <1>12, <1>16
  <2>2. Page(u, e, v) = Page(t, e, v) /\ IsTable(t.l1[e][v \div PPM])
    BY <1>4, <1>16, <2>1 DEF Page, TableOf
  <2>3. Page(t, e, v) = IF IsTable(s.l1[e][v \div PPM]) THEN Page(s, e, v) ELSE LowPage
    BY <1>1, <1>8, <1>16, <2>2, ExtendedPages
  <2>4. IsTable(s.l1[e][v \div PPM]) <=> e # d
    BY <1>1, <1>12, <1>16, EntryKinds
  <2> QED BY <1>12, <1>15, <1>16, <2>2, <2>3, <2>4
<1>17. /\ s.next =< r.next /\ DOMAIN r.l1 = DOMAIN s.l1
       /\ \A e \in DOMAIN s.l1 \ {d} : r.l1[e] = s.l1[e]
  BY <1>4, <1>8, <1>12, <1>15 DEF Extended
<1>18. ASSUME NEW e \in DOMAIN s.l1 \ {d}, NEW v \in Nat, v \div PPM \in Mega,
              IsTable(s.l1[e][v \div PPM])
       PROVE  Page(r, e, v) = Page(s, e, v)
  BY <1>12, <1>16, <1>18
<1>19. SharesKernel(r, d)
  <2> SUFFICES ASSUME NEW m \in KernelMega
               PROVE  /\ r.l1[KERNEL_TTB][m].kind = "section" => r.l1[d][m] = r.l1[KERNEL_TTB][m]
                      /\ IsTable(r.l1[KERNEL_TTB][m]) =>
                           /\ IsTable(r.l1[d][m])
                           /\ \A v \in m * PPM .. m * PPM + PPM - 1 :
                                Page(r, d, v) = Page(r, KERNEL_TTB, v)
    BY DEF SharesKernel
  <2>1. m \in Mega /\ r.l1[KERNEL_TTB] = s.l1[KERNEL_TTB]
    BY <1>1, <1>17, Layout
  <2>2. CASE s.l1[KERNEL_TTB][m].kind = "section"
    <3>1. Group(m) \notin G
      BY <1>9, <2>1, <2>2
    <3>2. r.l1[d][m] = s.l1[KERNEL_TTB][m]
      BY <1>12, <1>15, <2>1, <2>2, <3>1
    <3> QED BY <2>1, <2>2, <3>2 DEF IsTable
  <2>3. CASE IsTable(s.l1[KERNEL_TTB][m])
    <3>1. m \in KernelTables(s) /\ Group(m) \in G
      BY <1>5, <1>6, <2>1, <2>3
    <3>2. IsTable(u.l1[d][m])
      BY <1>12, <2>1, <3>1
    <3>3. ASSUME NEW v \in m * PPM .. m * PPM + PPM - 1
          PROVE  Page(r, d, v) = Page(r, KERNEL_TTB, v)
      <4>1. v \in Nat /\ v \div PPM = m
        BY <2>1, MegaPages
      <4>2. Page(r, d, v) = IF v \in DOMAIN to THEN to[v] ELSE LowPage
        BY <1>1, <1>16, <2>1, <3>2, <4>1
      <4>3. v \notin KernelPages(s) => Page(s, KERNEL_TTB, v) = LowPage
        BY <1>1, <3>1, <4>1, KernelPagesAre
      <4>4. Page(r, KERNEL_TTB, v) = Page(s, KERNEL_TTB, v)
        BY <1>1, <1>18, <2>1, <2>3, <4>1
      <4> QED BY <1>13, <4>2, <4>3, <4>4
    <3> QED BY <1>15, <2>1, <2>3, <3>2, <3>3 DEF IsTable
  <2> QED BY <2>1, <2>2, <2>3
<1>20. \A m \in Mega \ KernelMega : Empty(r.l1[d][m])
  <2> TAKE m \in Mega \ KernelMega
  <2>1. Group(m) \notin G
    BY <1>9
  <2>2. r.l1[d][m] = FaultEntry
    BY <1>12, <1>15, <2>1
  <2> QED BY <2>2, EntryKinds
<1>21. \A m \in Mega : IsTable(r.l1[d][m]) => r.l1[d][m].table \div 4 \in s.next..(r.next - 1)
  <2> TAKE m \in Mega
  <2> HAVE IsTable(r.l1[d][m])
  <2>1. Group(m) \in G /\ r.l1[d][m] = t.l1[d][m]
    BY <1>12, <1>15
  <2> QED BY <1>4, <1>8, <1>15, <2>1 DEF Extended
<1> QED BY <1>4, <1>15, <1>17, <1>18, <1>19, <1>20, <1>21 DEF Shared

(***************************************************************************)
(* The frames of the PCB and of the directory, and a directory without     *)
(* entries.                                                                *)
(***************************************************************************)
BlankRow == [m \in Mega |-> FaultEntry]

Taken(s) == Take(Take(s, 1), 4)

WithBlank(q, d) == [q EXCEPT !.l1 = With(@, d, BlankRow)]

LEMMA BlankFields ==
  ASSUME NEW q, IsMmu(q), NEW d
  PROVE  /\ IsMmu(WithBlank(q, d)) /\ WithBlank(q, d).l1 = With(q.l1, d, BlankRow)
         /\ WithBlank(q, d).pte = q.pte /\ WithBlank(q, d).next = q.next
         /\ WithBlank(q, d).halted = q.halted
  BY DEF IsMmu, WithBlank

LEMMA DirectoryHalts ==
  ASSUME NEW s, IsMmu(s), NEW r, r = WithDirectory(s)
  PROVE  /\ IsMmu(r) /\ IsMmu(Taken(s)) /\ IsMmu(Take(s, 1))
         /\ r = share_kernel_space(WithBlank(Taken(s), NewDirectory(s)), NewDirectory(s))
         /\ ~r.halted => ~Taken(s).halted /\ ~Take(s, 1).halted /\ ~s.halted
<1> DEFINE d == NewDirectory(s)
<1>1. IsMmu(Take(s, 1)) /\ (~Take(s, 1).halted => ~s.halted)
  BY TakeEffect
<1>2. IsMmu(Taken(s)) /\ (~Taken(s).halted => ~Take(s, 1).halted)
  BY <1>1, TakeEffect DEF Taken
<1>3. r = share_kernel_space(WithBlank(Taken(s), d), d)
  BY DEF WithDirectory, Taken, WithBlank, BlankRow
<1> HIDE DEF d
<1>4. PICK x : x = WithBlank(Taken(s), d) /\ IsMmu(x) /\ x.halted = Taken(s).halted
  BY <1>2, BlankFields
<1>5. PICK t, u : ShareSteps(x, d, t, u, r)
  BY <1>3, <1>4 DEF ShareSteps
<1>6. IsMmu(r) /\ (~r.halted => ~x.halted)
  BY <1>4, <1>5, ShareHalts
<1> QED BY <1>1, <1>2, <1>3, <1>4, <1>6 DEF d

(***************************************************************************)
(* The new directory has no table, so that the tables are as before.       *)
(***************************************************************************)
LEMMA BlankKeepsTables ==
  ASSUME NEW q, TablesOK(q), NEW d \in Nat \ DOMAIN q.l1, NEW x, x = WithBlank(q, d)
  PROVE  /\ Blank(x, d) /\ DOMAIN x.l1 = DOMAIN q.l1 \cup {d}
         /\ \A e \in DOMAIN q.l1 : x.l1[e] = q.l1[e]
         /\ x.pte = q.pte /\ x.next = q.next
<1>1. IsMmu(q) /\ KERNEL_TTB \in DOMAIN q.l1
  BY DEF TablesOK, TablesTyped
<1>2. /\ IsMmu(x) /\ x.l1 = With(q.l1, d, BlankRow) /\ x.pte = q.pte /\ x.next = q.next
      /\ x.halted = q.halted
  BY <1>1, BlankFields
<1>3. /\ DOMAIN x.l1 = DOMAIN q.l1 \cup {d} /\ x.l1[d] = BlankRow
      /\ \A e \in DOMAIN q.l1 : x.l1[e] = q.l1[e]
  <2>1. /\ DOMAIN With(q.l1, d, BlankRow) = DOMAIN q.l1 \cup {d}
        /\ With(q.l1, d, BlankRow)[d] = BlankRow
        /\ \A e \in DOMAIN q.l1 \ {d} : With(q.l1, d, BlankRow)[e] = q.l1[e]
    BY DEF With
  <2> QED BY <1>2, <2>1
<1>4. \A m \in Mega : x.l1[d][m] = FaultEntry
  BY <1>3 DEF BlankRow
<1>5. Entries(x) = Entries(q) /\ FaultEntry \in Entries(x)
  BY <1>2 DEF Entries
<1>6. x.l1 \in [DOMAIN x.l1 -> [Mega -> Entries(x)]]
  <2>1. ASSUME NEW e \in DOMAIN x.l1 PROVE x.l1[e] \in [Mega -> Entries(x)]
    <3>1. CASE e = d
      BY <1>3, <1>5, <3>1 DEF BlankRow
    <3>2. CASE e # d
      BY <1>3, <1>5, <3>2 DEF TablesOK, TablesTyped
    <3> QED BY <3>1, <3>2
  <2>2. x.l1 = [e \in DOMAIN x.l1 |-> x.l1[e]]
    BY <1>2 DEF With
  <2> QED BY <2>1, <2>2
<1>7. TablesTyped(x)
  BY <1>2, <1>3, <1>6 DEF TablesOK, TablesTyped
<1>8. \A m \in Mega : ~IsTable(x.l1[d][m]) /\ x.l1[d][m].kind # "section"
  BY <1>4, EntryKinds
<1>9. OneEntryEach(x)
  BY <1>3, <1>8 DEF TablesOK, OneEntryEach
<1>10. NoUserSections(x)
  BY <1>3, <1>8 DEF TablesOK, NoUserSections
<1>11. KernelGroups(x)
  BY <1>1, <1>3 DEF TablesOK, KernelGroups
<1> QED BY <1>1, <1>2, <1>3, <1>4, <1>7, <1>9, <1>10, <1>11 DEF TablesOK, Blank

(***************************************************************************)
(* A task is born: frame p is its PCB's and d its directory's first.       *)
(***************************************************************************)
Pcb(p, t) == <<p, "pcb", t>>

Born(s, r, t, p, d, U) ==
  /\ ~s.halted /\ Keeps(s, r, d)
  /\ d \notin DOMAIN s.l1 /\ DOMAIN r.l1 = DOMAIN s.l1 \cup {d}
  /\ SharesKernel(r, d)
  /\ p \in Frame /\ s.next =< p
  /\ Sound(r, t, d, U \cup {Pcb(p, t)}, FixedFrames)

LEMMA DirectoryFrames ==
  ASSUME NEW s, TablesOK(s), ~Taken(s).halted
  PROVE  /\ TablesOK(Taken(s)) /\ Taken(s).l1 = s.l1 /\ Taken(s).pte = s.pte
         /\ First(s, 1) \in Frame /\ First(s, 1) \in Nat /\ NewDirectory(s) \in Nat
         /\ s.next =< First(s, 1) /\ First(s, 1) < NewDirectory(s)
         /\ Taken(s).next = NewDirectory(s) + 4 /\ s.next \in Nat /\ ~s.halted
<1> DEFINE q == Take(s, 1)
<1>1. IsMmu(s) /\ s.next \in Nat
  BY DEF TablesOK, TablesTyped
<1>2. IsMmu(q) /\ q.l1 = s.l1 /\ q.pte = s.pte
  BY <1>1, TakeEffect
<1>3. Taken(s) = Take(q, 4) /\ NewDirectory(s) = First(q, 4)
  BY DEF Taken, NewDirectory
<1> HIDE DEF q
<1>4. ~q.halted /\ Take(q, 4).l1 = q.l1 /\ Take(q, 4).pte = q.pte
  BY <1>2, <1>3, TakeEffect
<1>5. /\ TablesOK(q) /\ First(s, 1) \in Nat /\ s.next =< First(s, 1)
      /\ q.next = First(s, 1) + 1 /\ First(s, 1)..(First(s, 1) + 1 - 1) \subseteq Frame
      /\ ~s.halted
  <2>1. ~Take(s, 1).halted
    BY <1>4 DEF q
  <2> QED BY <2>1, TakeKeepsTables DEF q
<1>6. /\ TablesOK(Take(q, 4)) /\ First(q, 4) \in Nat /\ q.next =< First(q, 4)
      /\ Take(q, 4).next = First(q, 4) + 4
  BY <1>3, <1>5, TakeKeepsTables
<1>7. First(s, 1) \in Frame /\ First(s, 1) < First(q, 4)
  BY <1>5, <1>6
<1> QED BY <1>1, <1>2, <1>3, <1>4, <1>5, <1>6, <1>7

LEMMA DirectoryEffect ==
  ASSUME NEW s, TablesOK(s), \A e \in DOMAIN s.l1 : e < s.next,
         NEW t, NEW U, Fits(s, t, FixedFrames, U),
         NEW r, r = WithDirectory(s), ~r.halted
  PROVE  Born(s, r, t, First(s, 1), NewDirectory(s), U)
<1> DEFINE q == Taken(s)
<1> DEFINE d == NewDirectory(s)
<1> DEFINE p == First(s, 1)
<1>1. IsMmu(s) /\ KERNEL_TTB \in DOMAIN s.l1 /\ DOMAIN s.l1 \subseteq Nat
  BY DEF TablesOK, TablesTyped
<1>2. /\ r = share_kernel_space(WithBlank(q, d), d) /\ ~q.halted /\ ~s.halted
  BY <1>1, DirectoryHalts
<1>3. /\ TablesOK(q) /\ q.l1 = s.l1 /\ q.pte = s.pte
      /\ p \in Frame /\ p \in Nat /\ d \in Nat /\ s.next =< p /\ p < d
      /\ q.next = d + 4 /\ s.next \in Nat
  BY <1>2, DirectoryFrames
<1> HIDE DEF q, d, p
<1>4. d \in Nat \ DOMAIN q.l1
  BY <1>1, <1>3
<1>5. PICK x : x = WithBlank(q, d)
  OBVIOUS
<1>6. /\ Blank(x, d) /\ DOMAIN x.l1 = DOMAIN s.l1 \cup {d}
      /\ \A e \in DOMAIN s.l1 : x.l1[e] = s.l1[e]
      /\ x.pte = s.pte /\ x.next = d + 4
  BY <1>3, <1>4, <1>5, BlankKeepsTables
<1>7. Shared(x, r, d)
  <2>1. r = share_kernel_space(x, d)
    BY <1>2, <1>5
  <2> QED BY <1>6, <2>1, ShareEffect
<1>8. /\ TablesOK(r) /\ x.next =< r.next /\ DOMAIN r.l1 = DOMAIN x.l1 /\ SharesKernel(r, d)
      /\ r.next \in Nat /\ \A e \in DOMAIN s.l1 : r.l1[e] = s.l1[e]
  <2>1. TablesOK(r) /\ x.next =< r.next /\ DOMAIN r.l1 = DOMAIN x.l1 /\ SharesKernel(r, d)
    BY <1>7 DEF Shared
  <2>2. r.next \in Nat
    BY <2>1 DEF TablesOK, TablesTyped
  <2>3. \A e \in DOMAIN x.l1 \ {d} : r.l1[e] = x.l1[e]
    BY <1>7 DEF Shared
  <2> QED BY <1>3, <1>4, <1>6, <2>1, <2>2, <2>3
<1>9. Keeps(s, r, d)
  <2>1. DOMAIN r.l1 = DOMAIN s.l1 \cup {d} /\ s.next =< r.next
    BY <1>3, <1>6, <1>8
  <2>2. ASSUME NEW e \in DOMAIN s.l1, NEW v \in Nat,
               v \div PPM \in Mega /\ IsTable(s.l1[e][v \div PPM])
        PROVE  Page(r, e, v) = Page(s, e, v)
    <3>1. e \in DOMAIN x.l1 \ {d}
      BY <1>3, <1>4, <1>6
    <3>2. IsTable(x.l1[e][v \div PPM])
      BY <1>6, <2>2
    <3>3. Page(r, e, v) = Page(x, e, v)
      BY <1>7, <2>2, <3>1, <3>2 DEF Shared
    <3>4. Page(x, e, v) = Page(s, e, v)
      BY <1>6 DEF Page, TableOf
    <3> QED BY <3>3, <3>4
  <2> QED BY <1>8, <2>1, <2>2 DEF Keeps
<1>10. ASSUME NEW u \in SpaceUses(r, t, d)
       PROVE  \/ u[1] \in d..(d + 3) /\ u = <<u[1], "directory", t>>
              \/ u[1] \in (d + 4)..(r.next - 1) /\ u = <<u[1], "tables", t>>
  <2>1. UserPages(r, d) = {}
    <3> SUFFICES ASSUME NEW v \in UserPage PROVE ~IsTable(r.l1[d][v \div PPM])
      BY DEF UserPages
    <3>1. Empty(r.l1[d][v \div PPM])
      BY <1>7, UserMega DEF Shared
    <3> QED BY <3>1 DEF Empty, IsTable
  <2>2. \A f \in Tables(r, d) : f \in (d + 4)..(r.next - 1)
    BY <1>6, <1>7 DEF Tables, Shared
  <2> QED BY <2>1, <2>2 DEF SpaceUses
<1>11. Sound(r, t, d, U \cup {Pcb(p, t)}, FixedFrames)
  <2> DEFINE W == U \cup {Pcb(p, t)} \cup SpaceUses(r, t, d)
  <2>1. \A u \in U : u[1] \in Nat /\ u[1] < s.next
    BY DEF Fits
  <2>2. \A u \in W : \/ u \in U /\ u[1] < s.next
                     \/ u = Pcb(p, t) /\ u[1] = p
                     \/ u[1] \in d..(d + 3) /\ u = <<u[1], "directory", t>>
                     \/ u[1] \in (d + 4)..(r.next - 1) /\ u = <<u[1], "tables", t>>
    BY <1>10, <2>1 DEF Pcb
  <2>3. \A u \in W : u[1] \in Nat /\ u[1] < r.next
    <3> TAKE u \in W
    <3>1. CASE u \in U
      BY <1>3, <1>6, <1>8, <2>1, <3>1
    <3>2. CASE u \notin U
      <4> HIDE DEF W
      <4> QED BY <1>3, <1>6, <1>8, <2>2, <3>2
    <3> QED BY <3>1, <3>2
  <2> HIDE DEF W
  <2>4. \A u \in W : u[1] \in FixedFrames => u[3] = 1 /\ t # 1
    <3> SUFFICES ASSUME NEW u \in W, u[1] \in FixedFrames PROVE u[3] = 1 /\ t # 1
      OBVIOUS
    <3>1. u[1] \in Nat /\ u[1] < s.next
      BY FixedBelow
    <3>2. u \in U
      BY <1>3, <2>2, <3>1
    <3> QED BY <3>2 DEF Fits
  <2>5. OneUseEach(W)
    <3> SUFFICES ASSUME NEW u \in W, NEW w \in W, u[1] = w[1] PROVE u = w
      BY DEF OneUseEach
    <3>1. CASE u \in U
      <4>1. w \in U
        BY <1>3, <2>1, <2>2, <3>1
      <4> QED BY <3>1, <4>1 DEF Fits, OneUseEach
    <3>2. CASE u = Pcb(p, t) /\ u[1] = p
      <4>1. w = Pcb(p, t)
        BY <1>3, <2>1, <2>2, <3>2
      <4> QED BY <3>2, <4>1
    <3>3. CASE u[1] \in d..(d + 3) /\ u = <<u[1], "directory", t>>
      <4>1. w = <<w[1], "directory", t>>
        BY <1>3, <2>1, <2>2, <3>3
      <4> QED BY <3>3, <4>1
    <3>4. CASE u[1] \in (d + 4)..(r.next - 1) /\ u = <<u[1], "tables", t>>
      <4>1. w = <<w[1], "tables", t>>
        BY <1>3, <1>8, <2>1, <2>2, <3>4
      <4> QED BY <3>4, <4>1
    <3> QED BY <2>2, <3>1, <3>2, <3>3, <3>4
  <2>6. U \cup {Pcb(p, t)} \cup SpaceUses(r, t, d) \subseteq W
    BY DEF W
  <2>7. Fits(r, t, FixedFrames, W)
    BY <2>3, <2>4, <2>5 DEF Fits
  <2>8. d \in DOMAIN r.l1
    BY <1>6, <1>8
  <2> QED BY <1>8, <2>6, <2>7, <2>8 DEF Sound
<1>12. d \notin DOMAIN s.l1 /\ DOMAIN r.l1 = DOMAIN s.l1 \cup {d}
  BY <1>3, <1>4, <1>6, <1>8
<1> QED BY <1>2, <1>3, <1>8, <1>9, <1>11, <1>12 DEF Born, d, p
-----------------------------------------------------------------------------
(***************************************************************************)
(* The tables that the kernel starts with.                                 *)
(***************************************************************************)
RamTable(m) == 4 * KERNEL_PAGE_TBL + m - KERNEL_SPACE_START
PortsFrame(m) == RAM_START + (RAM_SIZE + m) * PPM

RebuiltRow ==
  [m \in Mega |->
     CASE m \in RamMega -> Coarse(RamTable(m))
       [] m \in PortsMega -> Section(PortsFrame(m))
       [] m = LastMega -> Coarse(4 * VECT_PAGE_TBL)
       [] OTHER -> NoEntry]

RamTables == 4 * KERNEL_PAGE_TBL .. 4 * KERNEL_PAGE_TBL + RAM_SIZE - 1

RamFrames ==
  [a \in RamTables |->
     [i \in 0..(PPM - 1) |-> RAM_START + (a - 4 * KERNEL_PAGE_TBL) * PPM + i]]

Vectors == [i \in 0..(PPM - 1) |-> IF i = (15 * PPM) \div 16 THEN VECT_PAGE ELSE LowPage]

LEMMA RebuiltFields ==
  /\ IsMmu(Rebuilt) /\ Rebuilt.halted = FALSE /\ Rebuilt.next = PAGES_START
  /\ Rebuilt.l1 = [d \in {KERNEL_TTB} |-> RebuiltRow]
  /\ Rebuilt.pte = With(RamFrames, 4 * VECT_PAGE_TBL, Vectors)
  BY DEF Rebuilt, RebuiltRow, RamFrames, RamTables, Vectors, IsMmu, RamTable, PortsFrame

LEMMA KernelPlaces ==
  /\ RamMega \subseteq KernelMega /\ PortsMega \subseteq KernelMega /\ KernelMega \subseteq Mega
  /\ LastMega \in KernelMega /\ LastMega \notin RamMega /\ LastMega \notin PortsMega
  /\ RamMega \cap PortsMega = {}
  /\ \A m, n \in Mega : Group(m) = Group(n) =>
       /\ m \in RamMega => n \in RamMega
       /\ m \in PortsMega => n \in PortsMega
       /\ m = LastMega => n \notin PortsMega
<1>1. /\ RamMega \subseteq KernelMega /\ PortsMega \subseteq KernelMega /\ KernelMega \subseteq Mega
      /\ LastMega \in KernelMega /\ RamMega \cap PortsMega = {}
      /\ Group(LastMega) \notin RamMega /\ Group(LastMega) \notin PortsMega
  BY LayoutAssumption, Layout
<1>2. \A m \in Mega : m \in RamMega <=> Group(m) \in RamMega
  BY Layout DEF RamMega, Group
<1>3. \A m \in Mega : m \in PortsMega <=> Group(m) \in PortsMega
  <2>1. PORTS_MAP_START % 4 = 0 /\ PORTS_SIZE % 4 = 0
    BY LayoutAssumption
  <2> QED BY <2>1, Layout DEF PortsMega, Group
<1> QED BY <1>1, <1>2, <1>3

LEMMA RebuiltEntry ==
  ASSUME NEW m \in Mega
  PROVE  /\ m \in RamMega => RebuiltRow[m] = Coarse(RamTable(m))
         /\ m \in PortsMega => RebuiltRow[m] = Section(PortsFrame(m))
         /\ m = LastMega => RebuiltRow[m] = Coarse(4 * VECT_PAGE_TBL)
         /\ m \notin RamMega /\ m \notin PortsMega /\ m # LastMega => RebuiltRow[m] = NoEntry
<1>1. CASE m \in RamMega
  BY <1>1, KernelPlaces DEF RebuiltRow
<1>2. CASE m \in PortsMega
  BY <1>2, KernelPlaces DEF RebuiltRow
<1>3. CASE m = LastMega
  BY <1>3, KernelPlaces DEF RebuiltRow
<1>4. CASE m \notin RamMega /\ m \notin PortsMega /\ m # LastMega
  BY <1>4 DEF RebuiltRow
<1> QED BY <1>1, <1>2, <1>3, <1>4

LEMMA RebuiltNumbers ==
  /\ DOMAIN Rebuilt.pte = RamTables \cup {4 * VECT_PAGE_TBL}
  /\ DOMAIN Rebuilt.pte \subseteq Nat
  /\ \A a \in DOMAIN Rebuilt.pte :
       /\ a \div 4 \in KERNEL_PAGE_TBL..VECT_PAGE_TBL
       /\ a \div 4 \in Frame /\ a \div 4 < PAGES_START
       /\ Rebuilt.pte[a] \in [0..(PPM - 1) -> Frame \cup {LowPage}]
  /\ \A m \in RamMega : RamTable(m) \in RamTables
  /\ 4 * VECT_PAGE_TBL \in Nat /\ 4 * VECT_PAGE_TBL \notin RamTables
  /\ \A m \in PortsMega : PortsFrame(m) \in Nat
<1> DEFINE K == KERNEL_PAGE_TBL
<1> DEFINE V == VECT_PAGE_TBL
<1>1. /\ K \in Nat /\ V \in Nat /\ 4 * V = 4 * K + RAM_SIZE /\ RAM_SIZE \in Nat
      /\ VECT_PAGE = V + 1 /\ RAM_START \in Nat /\ RAM_START =< K /\ V < PAGES_START
      /\ PAGES_START \in Nat /\ PAGES_START \in Frame /\ VECT_PAGE < PAGES_START
      /\ PPM \in Nat \ {0} /\ KERNEL_SPACE_START \in Nat
  BY FixedPlaces, Layout, ProgramAssumption, LayoutAssumption, FramesAreNumbers
<1> HIDE DEF K, V
<1>2. /\ DOMAIN Rebuilt.pte = RamTables \cup {4 * V} /\ Rebuilt.pte[4 * V] = Vectors
      /\ \A a \in RamTables \ {4 * V} : Rebuilt.pte[a] = RamFrames[a]
  <2>1. DOMAIN RamFrames = RamTables
    BY DEF RamFrames
  <2>2. Rebuilt.pte = With(RamFrames, 4 * V, Vectors)
    BY RebuiltFields DEF V
  <2> QED BY <2>1, <2>2 DEF With
<1>3. RamTables \subseteq Nat /\ 4 * V \in Nat /\ 4 * V \notin RamTables
  BY <1>1 DEF RamTables, K
<1>4. \A m \in RamMega : RamTable(m) \in RamTables
  BY <1>1 DEF RamTables, RamTable, RamMega, K
<1>5. PICK x \in Nat : x = RAM_SIZE * PPM
  BY <1>1
<1>6. Frame = RAM_START..(RAM_START + x - 1)
  BY <1>5 DEF Frame
<1>7. ASSUME NEW a \in DOMAIN Rebuilt.pte
      PROVE  /\ a \div 4 \in KERNEL_PAGE_TBL..VECT_PAGE_TBL
             /\ a \div 4 \in Frame /\ a \div 4 < PAGES_START
             /\ Rebuilt.pte[a] \in [0..(PPM - 1) -> Frame \cup {LowPage}]
  <2>1. a \in Nat /\ 4 * K =< a /\ a =< 4 * V
    BY <1>1, <1>2, <1>3 DEF RamTables, K
  <2>2. PICK y \in Nat : y = a \div 4
    BY <2>1
  <2>3. K =< y /\ y =< V
    BY <1>1, <2>1, <2>2
  <2>4. y \in Frame /\ y < PAGES_START
    BY <1>1, <1>6, <2>3
  <2>5. Vectors \in [0..(PPM - 1) -> Frame \cup {LowPage}]
    <3>1. VECT_PAGE \in Frame
      BY <1>1, <1>6
    <3> QED BY <3>1 DEF Vectors
  <2>6. ASSUME a \in RamTables
        PROVE  RamFrames[a] \in [0..(PPM - 1) -> Frame \cup {LowPage}]
    <3>1. PICK z \in Nat : z = a - 4 * K /\ z + 1 =< RAM_SIZE
      BY <1>1, <2>6 DEF RamTables, K
    <3>2. (z + 1) * PPM =< RAM_SIZE * PPM
      BY <1>1, <3>1
    <3>3. PICK w \in Nat : w = z * PPM /\ (z + 1) * PPM = w + PPM
      BY <1>1
    <3>4. w + PPM =< x
      BY <1>5, <3>2, <3>3
    <3>5. \A i \in 0..(PPM - 1) : RAM_START + w + i \in Frame
      BY <1>1, <1>6, <3>4
    <3>6. RamFrames[a] = [i \in 0..(PPM - 1) |-> RAM_START + w + i]
      BY <2>6, <3>1, <3>3 DEF RamFrames, K
    <3> QED BY <3>5, <3>6
  <2> QED BY <1>2, <2>2, <2>3, <2>4, <2>5, <2>6 DEF K, V
<1>8. \A m \in PortsMega : PortsFrame(m) \in Nat
  <2> TAKE m \in PortsMega
  <2>1. m \in Nat
    BY Layout DEF PortsMega
  <2>2. (RAM_SIZE + m) * PPM \in Nat
    BY <1>1, <2>1
  <2> QED BY <1>1, <2>2 DEF PortsFrame
<1> QED BY <1>2, <1>3, <1>4, <1>7, <1>8 DEF V

LEMMA RebuiltTables ==
  /\ TablesOK(Rebuilt) /\ DOMAIN Rebuilt.l1 = {KERNEL_TTB} /\ Rebuilt.next = PAGES_START
  /\ \A m \in Mega \ KernelMega : ~IsTable(Rebuilt.l1[KERNEL_TTB][m])
  /\ Tables(Rebuilt, KERNEL_TTB) \subseteq KERNEL_PAGE_TBL..VECT_PAGE_TBL
<1> DEFINE s == Rebuilt
<1>1. /\ IsMmu(s) /\ s.halted = FALSE /\ s.next = PAGES_START
      /\ DOMAIN s.l1 = {KERNEL_TTB} /\ s.l1[KERNEL_TTB] = RebuiltRow
      /\ s.l1 = [d \in DOMAIN s.l1 |-> s.l1[d]]
  BY RebuiltFields
<1>2. s.pte = [a \in DOMAIN s.pte |-> s.pte[a]]
  BY RebuiltFields DEF With
<1> HIDE DEF s
<1>3. /\ DOMAIN s.pte = RamTables \cup {4 * VECT_PAGE_TBL} /\ DOMAIN s.pte \subseteq Nat
      /\ \A a \in DOMAIN s.pte :
           /\ a \div 4 \in KERNEL_PAGE_TBL..VECT_PAGE_TBL
           /\ a \div 4 \in Frame /\ a \div 4 < PAGES_START
           /\ s.pte[a] \in [0..(PPM - 1) -> Frame \cup {LowPage}]
      /\ \A m \in RamMega : RamTable(m) \in RamTables
      /\ 4 * VECT_PAGE_TBL \in Nat /\ 4 * VECT_PAGE_TBL \notin RamTables
      /\ \A m \in PortsMega : PortsFrame(m) \in Nat
  BY RebuiltNumbers DEF s
<1>4. ASSUME NEW m \in Mega
      PROVE  /\ RebuiltRow[m] \in Entries(s)
             /\ IsTable(RebuiltRow[m]) => \/ m \in RamMega /\ RebuiltRow[m] = Coarse(RamTable(m))
                                          \/ m = LastMega /\ RebuiltRow[m] = Coarse(4 * VECT_PAGE_TBL)
             /\ RebuiltRow[m].kind = "section" => m \in PortsMega
  <2>1. CASE m \in RamMega
    BY <1>3, <2>1, RebuiltEntry DEF Entries, Coarse, IsTable
  <2>2. CASE m \in PortsMega
    <3>1. PICK f \in Nat : RebuiltRow[m] = Section(f)
      BY <1>3, <2>2, RebuiltEntry
    <3> QED BY <2>2, <3>1 DEF Entries, Section, IsTable
  <2>3. CASE m = LastMega
    BY <1>3, <2>3, RebuiltEntry DEF Entries, Coarse, IsTable
  <2>4. CASE m \notin RamMega /\ m \notin PortsMega /\ m # LastMega
    BY <2>4, RebuiltEntry DEF Entries, NoEntry, IsTable
  <2> QED BY <2>1, <2>2, <2>3, <2>4
<1>5. TablesTyped(s)
  <2>1. s.l1 \in [DOMAIN s.l1 -> [Mega -> Entries(s)]]
    <3>1. RebuiltRow \in [Mega -> Entries(s)]
      <4>1. RebuiltRow = [m \in Mega |-> RebuiltRow[m]]
        BY DEF RebuiltRow
      <4> QED BY <1>4, <4>1
    <3> QED BY <1>1, <3>1
  <2>2. s.pte \in [DOMAIN s.pte -> [0..(PPM - 1) -> Frame \cup {LowPage}]]
    BY <1>2, <1>3
  <2>3. PAGES_START \in Nat /\ PAGES_START - 1 \in Frame /\ PAGES_START =< PAGES_START
        /\ KERNEL_TTB \in Nat
    <3>1. /\ VECT_PAGE \in Nat /\ RAM_START \in Nat /\ RAM_START =< VECT_PAGE
          /\ VECT_PAGE < PAGES_START /\ PAGES_START \in Frame /\ KERNEL_TTB \in Nat
      BY FixedPlaces, Layout, ProgramAssumption, LayoutAssumption
    <3>2. PICK x \in Nat : x = RAM_SIZE * PPM
      BY Layout
    <3> QED BY <3>1, <3>2 DEF Frame
  <2> QED BY <1>1, <1>3, <2>1, <2>2, <2>3 DEF TablesTyped
<1>6. ASSUME NEW m \in Mega, NEW n \in Mega, IsTable(RebuiltRow[m]), IsTable(RebuiltRow[n]),
             RebuiltRow[m].table = RebuiltRow[n].table
      PROVE  m = n
  <2>1. \A k \in RamMega : RamTable(k) # 4 * VECT_PAGE_TBL
    BY <1>3
  <2>2. \A k \in RamMega, j \in RamMega : RamTable(k) = RamTable(j) => k = j
    BY FixedPlaces, Layout DEF RamTable, RamMega
  <2> QED BY <1>4, <1>6, <2>1, <2>2, EntryKinds
<1>7. OneEntryEach(s)
  BY <1>1, <1>6 DEF OneEntryEach
<1>8. NoUserSections(s)
  BY <1>1, <1>4, KernelPlaces DEF NoUserSections
<1>9. KernelGroups(s)
  <2> SUFFICES ASSUME NEW m \in KernelMega, NEW n \in KernelMega, Group(m) = Group(n),
                      IsTable(RebuiltRow[m]), RebuiltRow[n].kind = "section"
               PROVE  FALSE
    BY <1>1 DEF KernelGroups
  <2>1. m \in Mega /\ n \in Mega
    BY KernelPlaces
  <2>2. (m \in RamMega \/ m = LastMega) /\ n \in PortsMega
    BY <1>4, <2>1
  <2> QED BY <2>1, <2>2, KernelPlaces
<1>10. \A m \in Mega \ KernelMega : ~IsTable(s.l1[KERNEL_TTB][m])
  BY <1>1, <1>4, KernelPlaces
<1>11. Tables(s, KERNEL_TTB) \subseteq KERNEL_PAGE_TBL..VECT_PAGE_TBL
  <2> SUFFICES ASSUME NEW m \in Mega, IsTable(RebuiltRow[m])
               PROVE  RebuiltRow[m].table \div 4 \in KERNEL_PAGE_TBL..VECT_PAGE_TBL
    BY <1>1 DEF Tables
  <2>1. PICK a \in DOMAIN s.pte : RebuiltRow[m].table = a
    BY <1>3, <1>4, EntryKinds
  <2> QED BY <1>3, <2>1
<1> QED BY <1>1, <1>5, <1>7, <1>8, <1>9, <1>10, <1>11 DEF TablesOK, s
-----------------------------------------------------------------------------
(***************************************************************************)
(* The idle task gets its PCB's frame and one page of stack.               *)
(***************************************************************************)
LEMMA OnePage ==
  /\ get_order(1) = 1
  /\ \A s : AfterInitTask(s) = Block(Take(s, 1), KERNEL_TTB, USR_SP, 1)
<1>1. get_order(1) = 1
  <2> DEFINE Fit(n) == n >= 1 /\ \A k \in Orders : k < n => k < 1
  <2>1. 1 \in Orders /\ Fit(1) /\ \A n \in Orders : Fit(n) => n = 1
    BY DEF Orders
  <2>2. get_order(1) = CHOOSE n \in Orders : Fit(n)
    BY DEF get_order
  <2> HIDE DEF Fit
  <2> QED BY <2>1, <2>2
<1> QED BY <1>1 DEF AfterInitTask, Block

LEMMA FirstStackPage == BlockAt(USR_SP, 1)
<1>1. USR_SP \in Nat /\ USR_SP_SIZE \in 1..512 /\ USR_SP + USR_SP_SIZE - 1 \in UserPage
  BY BlocksFit DEF BlockAt
<1>2. USR_SP..(USR_SP + USR_SP_SIZE - 1) \subseteq UserPage
  BY <1>1, BelowUser
<1> QED BY <1>1, <1>2 DEF BlockAt

LEMMA IdleHalts ==
  ASSUME NEW s, IsMmu(s)
  PROVE  /\ IsMmu(AfterInitTask(s))
         /\ ~AfterInitTask(s).halted => ~Take(s, 1).halted /\ ~s.halted
<1>1. IsMmu(Take(s, 1)) /\ (~Take(s, 1).halted => ~s.halted)
  BY TakeEffect
<1> QED BY <1>1, OnePage, BlockHalts

LEMMA IdleEffect ==
  ASSUME NEW r, r = AfterInitTask(Rebuilt), ~r.halted
  PROVE  /\ Sound(r, Idle, KERNEL_TTB, {Pcb(First(Rebuilt, 1), Idle)}, FixedFrames)
         /\ Keeps(Rebuilt, r, KERNEL_TTB) /\ DOMAIN r.l1 = {KERNEL_TTB}
         /\ First(Rebuilt, 1) \in Frame
<1> DEFINE s == Rebuilt
<1> DEFINE q == Take(s, 1)
<1> DEFINE p == First(s, 1)
<1>1. /\ TablesOK(s) /\ DOMAIN s.l1 = {KERNEL_TTB} /\ s.next = PAGES_START
      /\ \A m \in Mega \ KernelMega : ~IsTable(s.l1[KERNEL_TTB][m])
      /\ Tables(s, KERNEL_TTB) \subseteq KERNEL_PAGE_TBL..VECT_PAGE_TBL
      /\ IsMmu(s)
  BY RebuiltTables, RebuiltFields
<1>2. r = AfterInitTask(s)
  OBVIOUS
<1> HIDE DEF s
<1>3. ~q.halted /\ r = Block(q, KERNEL_TTB, USR_SP, 1) /\ q.l1 = s.l1 /\ q.pte = s.pte
  BY <1>1, <1>2, IdleHalts, OnePage, TakeEffect
<1>4. /\ TablesOK(q) /\ p \in Nat /\ s.next =< p /\ s.next \in Nat
      /\ q.next = p + 1 /\ p..(p + 1 - 1) \subseteq Frame
  BY <1>1, <1>3, TakeKeepsTables
<1> HIDE DEF q, p
<1>5. p \in Frame
  BY <1>4
<1>6. /\ KERNEL_TTB \in Nat /\ KERNEL_PAGE_TBL = KERNEL_TTB + 4 /\ VECT_PAGE_TBL \in Nat
      /\ VECT_PAGE = VECT_PAGE_TBL + 1 /\ VECT_PAGE < PAGES_START /\ PAGES_START \in Nat
      /\ KERNEL_PAGE_TBL =< VECT_PAGE_TBL
      /\ \A f \in FixedFrames : f > VECT_PAGE /\ f < PAGES_START /\ f \in Nat
  <2>1. \A f \in FixedFrames : f \in (VECT_PAGE + 1)..(PAGES_START - 1)
    BY ProgramAssumption DEF FixedFrames
  <2>2. VECT_PAGE \in Nat /\ PAGES_START \in Nat
    BY FixedPlaces, LayoutAssumption, FramesAreNumbers
  <2> QED BY <2>1, <2>2, FixedPlaces, ProgramAssumption
<1>7. ASSUME NEW u \in SpaceUses(q, Idle, KERNEL_TTB)
      PROVE  \/ u[1] \in KERNEL_TTB..(KERNEL_TTB + 3) /\ u = <<u[1], "directory", Idle>>
             \/ u[1] \in KERNEL_PAGE_TBL..VECT_PAGE_TBL /\ u = <<u[1], "tables", Idle>>
  <2>1. UserPages(q, KERNEL_TTB) = {}
    BY <1>1, <1>3, UserMega DEF UserPages
  <2>2. Tables(q, KERNEL_TTB) \subseteq KERNEL_PAGE_TBL..VECT_PAGE_TBL
    BY <1>1, <1>3 DEF Tables
  <2> QED BY <2>1, <2>2 DEF SpaceUses
<1>8. Sound(q, Idle, KERNEL_TTB, {Pcb(p, Idle)}, FixedFrames)
  <2> DEFINE W == {Pcb(p, Idle)} \cup SpaceUses(q, Idle, KERNEL_TTB)
  <2>1. ASSUME NEW u \in W
        PROVE  \/ u = Pcb(p, Idle) /\ u[1] = p
               \/ u[1] \in KERNEL_TTB..(KERNEL_TTB + 3) /\ u = <<u[1], "directory", Idle>>
               \/ u[1] \in KERNEL_PAGE_TBL..VECT_PAGE_TBL /\ u = <<u[1], "tables", Idle>>
    BY <1>7 DEF Pcb
  <2> HIDE DEF W
  <2>2. ASSUME NEW u \in W
        PROVE  u[1] \in Nat /\ u[1] < q.next /\ u[1] \notin FixedFrames
    BY <1>1, <1>4, <1>6, <2>1
  <2>3. OneUseEach(W)
    <3> SUFFICES ASSUME NEW u \in W, NEW w \in W, u[1] = w[1] PROVE u = w
      BY DEF OneUseEach
    <3>1. CASE u = Pcb(p, Idle) /\ u[1] = p
      <4>1. w = Pcb(p, Idle)
        BY <1>1, <1>4, <1>6, <2>1, <3>1
      <4> QED BY <3>1, <4>1
    <3>2. CASE u[1] \in KERNEL_TTB..(KERNEL_TTB + 3) /\ u = <<u[1], "directory", Idle>>
      <4>1. w = <<w[1], "directory", Idle>>
        BY <1>1, <1>4, <1>6, <2>1, <3>2
      <4> QED BY <3>2, <4>1
    <3>3. CASE u[1] \in KERNEL_PAGE_TBL..VECT_PAGE_TBL /\ u = <<u[1], "tables", Idle>>
      <4>1. w = <<w[1], "tables", Idle>>
        BY <1>1, <1>4, <1>6, <2>1, <3>3
      <4> QED BY <3>3, <4>1
    <3> QED BY <2>1, <3>1, <3>2, <3>3
  <2>4. Fits(q, Idle, FixedFrames, W)
    BY <2>2, <2>3 DEF Fits
  <2>5. {Pcb(p, Idle)} \cup SpaceUses(q, Idle, KERNEL_TTB) \subseteq W
    BY DEF W
  <2>6. KERNEL_TTB \in DOMAIN q.l1
    BY <1>1, <1>3
  <2> QED BY <1>4, <2>4, <2>5, <2>6 DEF Sound
<1>9. /\ Sound(r, Idle, KERNEL_TTB, {Pcb(p, Idle)}, FixedFrames) /\ Keeps(q, r, KERNEL_TTB)
      /\ q.next \in Nat /\ r.next \in Nat
  BY <1>3, <1>8, FirstStackPage, BlockEffect
<1>10. Keeps(s, r, KERNEL_TTB)
  <2>1. s.next =< q.next /\ KERNEL_TTB \in DOMAIN s.l1
    BY <1>1, <1>4
  <2>2. Keeps(s, q, KERNEL_TTB)
    BY <1>3, <2>1, KeepsSame
  <2> QED BY <1>4, <1>9, <2>2, KeepsOnward
<1>11. DOMAIN r.l1 = {KERNEL_TTB}
  BY <1>1, <1>10 DEF Keeps
<1> QED BY <1>5, <1>9, <1>10, <1>11 DEF s, p
-----------------------------------------------------------------------------
(***************************************************************************)
(* The birth of a program.                                                 *)
(***************************************************************************)
LEMMA BirthHalts ==
  ASSUME NEW s, IsMmu(s), NEW t
  PROVE  IsMmu(Birth(s, t)) /\ (~Birth(s, t).halted => ~s.halted)
<1>1. CASE t = Idle
  BY <1>1, IdleHalts DEF Birth
<1>2. CASE t # Idle
  <2> DEFINE x == WithDirectory(s)
  <2>1. IsMmu(x) /\ (~x.halted => ~s.halted)
    BY DirectoryHalts
  <2>2. Birth(s, t) = Created(x, NewDirectory(s), Name(t))
    BY <1>2 DEF Birth
  <2> HIDE DEF x
  <2> QED BY <2>1, <2>2, CreatedHalts
<1> QED BY <1>1, <1>2

LEMMA BirthsGoOn ==
  ASSUME KernelStarts
  PROVE  ~Births.idle.halted /\ ~Births.fs.halted /\ ~Births.sh.halted
<1>1. /\ Births.idle = Birth(Rebuilt, Idle) /\ Births.fs = Birth(Births.idle, 1)
      /\ Births.sh = Birth(Births.fs, 2)
  BY DEF Births
<1>2. IsMmu(Births.idle)
  BY <1>1, RebuiltFields, BirthHalts
<1>3. IsMmu(Births.fs) /\ (~Births.fs.halted => ~Births.idle.halted)
  BY <1>1, <1>2, BirthHalts
<1>4. ~Births.sh.halted => ~Births.fs.halted
  BY <1>1, <1>3, BirthHalts
<1> QED BY <1>3, <1>4 DEF KernelStarts

LEMMA BirthEffect ==
  ASSUME NEW s, TablesOK(s), \A e \in DOMAIN s.l1 : e < s.next,
         NEW t \in Program, NEW U, Fits(s, t, FixedFrames, U),
         NEW r, r = Birth(s, t), ~r.halted
  PROVE  /\ Sound(r, t, NewDirectory(s), U \cup {Pcb(First(s, 1), t)}, FixedFor(t))
         /\ Keeps(s, r, NewDirectory(s)) /\ NewDirectory(s) \notin DOMAIN s.l1
         /\ SharesKernel(r, NewDirectory(s)) /\ First(s, 1) \in Frame
         /\ s.next =< First(s, 1)
         /\ \A v \in DOMAIN ImagePages(t) : IsTable(r.l1[NewDirectory(s)][v \div PPM])
<1> DEFINE x == WithDirectory(s)
<1> DEFINE d == NewDirectory(s)
<1> DEFINE p == First(s, 1)
<1>1. r = Created(x, d, Name(t))
  BY DEF Birth, Program, Idle
<1>2. IsMmu(s) /\ IsMmu(x)
  <2>1. IsMmu(s)
    BY DEF TablesOK, TablesTyped
  <2> QED BY <2>1, DirectoryHalts
<1>3. x = WithDirectory(s)
  OBVIOUS
<1> HIDE DEF x
<1>4. ~x.halted
  <2>1. ~Created(x, d, Name(t)).halted => ~x.halted
    BY <1>2, CreatedHalts
  <2> QED BY <1>1, <2>1
<1>5. Born(s, x, t, p, d, U)
  BY <1>3, <1>4, DirectoryEffect
<1> HIDE DEF d, p
<1>6. Sound(x, t, d, U \cup {Pcb(p, t)}, FixedFrames)
  BY <1>5 DEF Born
<1>7. /\ Sound(r, t, d, U \cup {Pcb(p, t)}, FixedFor(t)) /\ Keeps(x, r, d)
      /\ \A v \in DOMAIN ImagePages(t) : IsTable(r.l1[d][v \div PPM])
  BY <1>1, <1>6, CreatedEffect
<1>8. /\ Keeps(s, x, d) /\ d \notin DOMAIN s.l1 /\ SharesKernel(x, d) /\ p \in Frame
      /\ s.next =< p
  BY <1>5 DEF Born
<1>9. s.next \in Nat /\ x.next \in Nat /\ r.next \in Nat /\ KERNEL_TTB \in DOMAIN x.l1
      /\ d \in DOMAIN x.l1
  BY <1>6, <1>7 DEF Sound, TablesOK, TablesTyped
<1>10. Keeps(s, r, d)
  BY <1>7, <1>8, <1>9, KeepsOnward
<1>11. SharesKernel(r, d)
  BY <1>7, <1>8, <1>9, KeepsKernel
<1> QED BY <1>7, <1>8, <1>10, <1>11 DEF d, p

(***************************************************************************)
(* A page fault gives the program a page.                                  *)
(***************************************************************************)
LEMMA ExtendedEffect ==
  ASSUME NEW s, TablesOK(s), NEW d \in DOMAIN s.l1, NEW v \in UserPage,
         NEW t, t = NewTables(s, d, {Group(v \div PPM)}), ~t.halted
  PROVE  /\ Extended(s, t, d, {Group(v \div PPM)})
         /\ \A m \in Mega : Group(m) \in {Group(v \div PPM)} => m \notin KernelMega
<1>1. v \div PPM \in Mega \ KernelMega
  BY UserMega
<1>2. {Group(v \div PPM)} \in SUBSET Groups
  BY <1>1 DEF Groups
<1>3. Extended(s, t, d, {Group(v \div PPM)})
  BY <1>2, NewTablesEffect
<1> QED BY <1>1, <1>3, GroupFacts

FaultTables(s, d, v) == NewTables(s, d, {Group(v \div PPM)})

LEMMA FaultEffect ==
  ASSUME NEW s, NEW t, NEW d, NEW U, NEW F, Sound(s, t, d, U, F), NEW v \in UserPage,
         NEW x, x = FaultTables(s, d, v), ~x.halted, ~Take(x, 1).halted,
         NEW r, r = SetPages(Take(x, 1), d, Consecutive(v, 1, First(x, 1)))
  PROVE  /\ Sound(r, t, d, U, F) /\ Keeps(s, r, d) /\ ~r.halted
         /\ Grown(s, r, d, Consecutive(v, 1, First(x, 1)), First(x, 1))
         /\ First(x, 1) = r.next - 1 /\ r.next - 1 \in Frame /\ s.next < r.next
<1> DEFINE f == First(x, 1)
<1> DEFINE u == Take(x, 1)
<1> DEFINE to == Consecutive(v, 1, f)
<1> DEFINE G == {Group(v \div PPM)}
<1>1. TablesOK(s) /\ d \in DOMAIN s.l1 /\ F \subseteq FixedFrames /\ s.next \in Nat
  BY DEF Sound, TablesOK, TablesTyped
<1>2. x = NewTables(s, d, G)
  BY DEF FaultTables
<1>3. /\ Extended(s, x, d, G) /\ \A m \in Mega : Group(m) \in G => m \notin KernelMega
  BY <1>1, <1>2, ExtendedEffect
<1>4. TablesOK(x) /\ IsMmu(x) /\ s.next =< x.next /\ x.next \in Nat
  BY <1>3 DEF Extended, TablesOK, TablesTyped
<1>5. u.l1 = x.l1 /\ u.pte = x.pte /\ ~u.halted
  BY <1>4, TakeEffect
<1>6. /\ TablesOK(u) /\ f \in Nat /\ u.next = f + 1 /\ f..(f + 1 - 1) \subseteq Frame
  BY <1>4, TakeKeepsTables
<1>7. f = x.next
  BY <1>4 DEF First
<1> HIDE DEF u, f
<1>8. f \in Frame /\ x.next =< u.next
  BY <1>4, <1>6, <1>7
<1>9. DOMAIN to = {v} /\ to[v] = f /\ v \in Nat
  <2>1. v \in Nat
    BY UserMega
  <2>2. v..(v + 1 - 1) = {v}
    BY <2>1
  <2>3. DOMAIN to = v..(v + 1 - 1) /\ \A p \in v..(v + 1 - 1) : to[p] = f + p - v
    BY DEF Consecutive
  <2> HIDE DEF to
  <2> QED BY <1>6, <2>1, <2>2, <2>3
<1>10. r = SetPages(u, d, to)
  BY DEF u, f
<1> HIDE DEF to
<1>11. ToUser(to)
  BY <1>8, <1>9 DEF ToUser
<1>12. \A p \in DOMAIN to : Empty(s.l1[d][p \div PPM]) => Group(p \div PPM) \in G
  BY <1>9
<1> HIDE DEF G
<1>13. Grown(s, r, d, to, f) /\ r.next = u.next
  BY <1>1, <1>3, <1>5, <1>6, <1>7, <1>8, <1>10, <1>11, <1>12, ExtendedGrown
<1>14. r.next = f + 1 /\ f =< r.next /\ s.next =< f
  BY <1>4, <1>6, <1>7, <1>13
<1>15. \A p \in DOMAIN to : Unused(s, r, f, F, to[p]) /\ s.next =< to[p]
  <2>1. f \notin F
    BY <1>1, <1>6, <1>14, FixedBelow
  <2>2. f < r.next /\ f \notin s.next..(f - 1)
    BY <1>1, <1>6, <1>14
  <2> QED BY <1>9, <1>14, <2>1, <2>2 DEF Unused
<1>16. \A p, w \in DOMAIN to : to[p] = to[w] => p = w
  BY <1>9
<1>17. s.next =< s.next
  BY <1>1
<1>18. Sound(r, t, d, U, F)
  BY <1>1, <1>6, <1>11, <1>13, <1>14, <1>15, <1>16, <1>17, SoundAfterPages
<1>19. Keeps(s, r, d)
  BY <1>1, <1>11, <1>13, GrownKeeps
<1>20. ~r.halted
  BY <1>13 DEF Grown
<1>21. f = r.next - 1 /\ r.next - 1 \in Frame /\ s.next < r.next
  BY <1>1, <1>6, <1>8, <1>14
<1> QED BY <1>13, <1>18, <1>19, <1>20, <1>21 DEF to, f
-----------------------------------------------------------------------------
(***************************************************************************)
(* The invariant, of tables s and tasks k, but for the order of births.    *)
(***************************************************************************)
TaskUses(s, k, t) == {Pcb(k[t].pcb, t)} \cup SpaceUses(s, t, k[t].ttb_base)
AllUses(s, k) == UNION {TaskUses(s, k, t) : t \in DOMAIN k}

Spaces(s, k) ==
  /\ TablesOK(s)
  /\ k \in [DOMAIN k -> [pcb : Frame, ttb_base : DOMAIN s.l1]]
  /\ DOMAIN s.l1 = {KERNEL_TTB} \cup {k[t].ttb_base : t \in DOMAIN k}
  /\ \A t \in DOMAIN k : k[t].ttb_base = KERNEL_TTB <=> t = Idle
  /\ \A t \in DOMAIN k : SharesKernel(s, k[t].ttb_base)
  /\ OneUseEach(AllUses(s, k))
  /\ \A u \in AllUses(s, k) : u[1] < s.next
  /\ \A t \in DOMAIN k : FixedForFs(t, TaskUses(s, k, t))

LEMMA SpacesInv == MmuInv <=> Spaces(mmu, task) /\ Booting
<1>1. \A t \in DOMAIN task : UsesOf(t) = TaskUses(mmu, task, t)
  BY DEF UsesOf, TaskUses, Pcb
<1>2. Uses = AllUses(mmu, task)
  BY <1>1 DEF Uses, AllUses
<1> QED BY <1>1, <1>2 DEF MmuInv, Spaces, KernelIsShared

LEMMA UseOwner ==
  ASSUME NEW s, NEW k, NEW t, NEW u \in TaskUses(s, k, t)
  PROVE  u[3] = t
  BY DEF TaskUses, SpaceUses, Pcb

LEMMA UseNumbers ==
  ASSUME NEW s, NEW k, Spaces(s, k), NEW u \in AllUses(s, k)
  PROVE  u[1] \in Nat
<1>1. PICK t \in DOMAIN k : u \in TaskUses(s, k, t)
  BY DEF AllUses
<1>2. k[t].pcb \in Frame /\ k[t].ttb_base \in DOMAIN s.l1 /\ TablesOK(s)
      /\ DOMAIN s.l1 \subseteq Nat
  BY <1>1 DEF Spaces, TablesOK, TablesTyped
<1> DEFINE d == k[t].ttb_base
<1>3. CASE u = Pcb(k[t].pcb, t)
  BY <1>2, <1>3, FramesAreNumbers DEF Pcb
<1>4. CASE \E f \in d..(d + 3) : u = <<f, "directory", t>>
  BY <1>2, <1>4
<1>5. CASE \E f \in Tables(s, d) : u = <<f, "tables", t>>
  <2>1. \A f \in Tables(s, d) : f \in Frame
    BY <1>2, EntryOfTable DEF Tables
  <2>2. PICK f \in Tables(s, d) : u = <<f, "tables", t>>
    BY <1>5
  <2>3. u[1] = f /\ f \in Frame
    BY <2>1, <2>2
  <2> QED BY <2>3, FramesAreNumbers
<1>6. CASE \E v \in UserPages(s, d) : u = <<Page(s, d, v), "page", t, v>>
  <2>1. PICK v \in UserPages(s, d) : u = <<Page(s, d, v), "page", t, v>>
    BY <1>6
  <2>2. v \in Nat /\ v \div PPM \in Mega /\ IsTable(s.l1[d][v \div PPM])
    BY UserMega DEF UserPages
  <2>3. PICK a : /\ a = TableOf(s, d, v)
                 /\ s.pte[a] \in [0..(PPM - 1) -> Frame \cup {LowPage}]
    BY <1>2, <2>2, EntryOfTable DEF TableOf
  <2>4. Page(s, d, v) \in Frame \cup {LowPage}
    BY <2>2, <2>3, PageNumber DEF Page
  <2>5. u[1] = Page(s, d, v)
    BY <2>1
  <2>6. Frame \cup {LowPage} \subseteq Nat
    BY FramesAreNumbers
  <2>7. u[1] \in Frame \cup {LowPage}
    BY <2>4, <2>5
  <2> QED BY <2>6, <2>7
<1> QED BY <1>1, <1>3, <1>4, <1>5, <1>6 DEF TaskUses, SpaceUses

(***************************************************************************)
(* The uses of all tasks fit for whichever task takes a step.              *)
(***************************************************************************)
LEMMA UsesFit ==
  ASSUME NEW s, NEW k, Spaces(s, k), NEW t, t # 1 \/ t \notin DOMAIN k
  PROVE  Fits(s, t, FixedFrames, AllUses(s, k))
<1>1. ASSUME NEW u \in AllUses(s, k), u[1] \in FixedFrames PROVE u[3] = 1 /\ t # 1
  <2>1. PICK x \in DOMAIN k : u \in TaskUses(s, k, x)
    BY DEF AllUses
  <2>2. x = 1
    BY <1>1, <2>1 DEF Spaces, FixedForFs, FixedFrames
  <2> QED BY <2>1, <2>2, UseOwner
<1>2. \A u \in AllUses(s, k) : u[1] \in Nat /\ u[1] < s.next
  BY UseNumbers DEF Spaces
<1> QED BY <1>1, <1>2 DEF Fits, Spaces

LEMMA UsesFitOne ==
  ASSUME NEW s, NEW k, Spaces(s, k), NEW t
  PROVE  Fits(s, t, FixedFor(t), AllUses(s, k))
<1>1. \A u \in AllUses(s, k) : u[1] \in Nat /\ u[1] < s.next
  BY UseNumbers DEF Spaces
<1>2. CASE t = 1
  BY <1>1, <1>2 DEF Fits, Spaces, FixedFor
<1>3. CASE t # 1
  BY <1>3, UsesFit DEF FixedFor
<1> QED BY <1>2, <1>3

(***************************************************************************)
(* Directories of different tasks are different.                           *)
(***************************************************************************)
LEMMA OwnDirectory ==
  ASSUME NEW s, NEW k, Spaces(s, k), NEW t \in DOMAIN k
  PROVE  /\ k[t].ttb_base \in DOMAIN s.l1 /\ k[t].ttb_base < s.next /\ k[t].ttb_base \in Nat
         /\ \A x \in DOMAIN k \ {t} : k[x].ttb_base # k[t].ttb_base
<1>1. \A x \in DOMAIN k : k[x].ttb_base \in DOMAIN s.l1 /\ k[x].ttb_base \in Nat
  BY DEF Spaces, TablesOK, TablesTyped
<1>2. \A x \in DOMAIN k : <<k[x].ttb_base, "directory", x>> \in AllUses(s, k)
  <2> TAKE x \in DOMAIN k
  <2>1. k[x].ttb_base \in k[x].ttb_base..(k[x].ttb_base + 3)
    BY <1>1
  <2> QED BY <2>1 DEF AllUses, TaskUses, SpaceUses
<1>3. k[t].ttb_base < s.next
  BY <1>2 DEF Spaces
<1>4. ASSUME NEW x \in DOMAIN k \ {t} PROVE k[x].ttb_base # k[t].ttb_base
  <2>1. <<k[x].ttb_base, "directory", x>> # <<k[t].ttb_base, "directory", t>>
    OBVIOUS
  <2> QED BY <1>2, <2>1 DEF Spaces, OneUseEach
<1> QED BY <1>1, <1>3, <1>4

(***************************************************************************)
(* Task t gets frames: its first ones or more.                             *)
(***************************************************************************)
Gets(s, k, r, l, t, d, U) ==
  /\ DOMAIN l = DOMAIN k \cup {t} /\ l = [x \in DOMAIN l |-> l[x]]
  /\ \A x \in DOMAIN k \ {t} : l[x] = k[x] /\ k[x].ttb_base # d
  /\ t \in DOMAIN k => k[t].ttb_base = d
  /\ l[t] \in [pcb : Frame, ttb_base : {d}] /\ (d = KERNEL_TTB <=> t = Idle)
  /\ Keeps(s, r, d) /\ SharesKernel(r, d)
  /\ Sound(r, t, d, U, FixedFor(t))
  /\ Pcb(l[t].pcb, t) \in U
  /\ \A x \in DOMAIN k \ {t} : TaskUses(s, k, x) \subseteq U

LEMMA SpacesGrow ==
  ASSUME NEW s, NEW k, Spaces(s, k), NEW r, NEW l, NEW t, NEW d, NEW U,
         Gets(s, k, r, l, t, d, U)
  PROVE  Spaces(r, l)
<1>1. /\ TablesOK(r) /\ d \in DOMAIN r.l1 /\ DOMAIN r.l1 = DOMAIN s.l1 \cup {d}
      /\ KERNEL_TTB \in DOMAIN s.l1 /\ l[t].ttb_base = d /\ t \in DOMAIN l
  BY DEF Gets, Sound, Keeps, Spaces, TablesOK, TablesTyped
<1>2. l \in [DOMAIN l -> [pcb : Frame, ttb_base : DOMAIN r.l1]]
  <2>1. ASSUME NEW x \in DOMAIN l PROVE l[x] \in [pcb : Frame, ttb_base : DOMAIN r.l1]
    <3>1. CASE x = t
      BY <1>1, <3>1 DEF Gets
    <3>2. CASE x # t
      BY <1>1, <3>2 DEF Gets, Spaces
    <3> QED BY <3>1, <3>2
  <2> QED BY <2>1 DEF Gets
<1>3. DOMAIN r.l1 = {KERNEL_TTB} \cup {l[x].ttb_base : x \in DOMAIN l}
  <2>1. \A x \in DOMAIN l : l[x].ttb_base \in DOMAIN r.l1
    BY <1>2
  <2>2. ASSUME NEW e \in DOMAIN r.l1, e # KERNEL_TTB
        PROVE  \E x \in DOMAIN l : e = l[x].ttb_base
    <3>1. CASE e = d
      <4>1. t \in DOMAIN l /\ e = l[t].ttb_base
        BY <1>1, <3>1
      <4> QED BY <4>1
    <3>2. CASE e # d
      <4>1. PICK x \in DOMAIN k : e = k[x].ttb_base
        BY <1>1, <2>2, <3>2 DEF Spaces
      <4>2. CASE x # t
        <5>1. x \in DOMAIN l /\ l[x] = k[x]
          BY <4>1, <4>2 DEF Gets
        <5>2. e = l[x].ttb_base
          BY <4>1, <5>1, Zenon
        <5> QED BY <5>1, <5>2
      <4>3. CASE x = t
        BY <4>1, <4>3, <3>2 DEF Gets
      <4> QED BY <4>2, <4>3
    <3> QED BY <3>1, <3>2
  <2> QED BY <1>1, <2>1, <2>2
<1>4. \A x \in DOMAIN l : l[x].ttb_base = KERNEL_TTB <=> x = Idle
  BY <1>1 DEF Gets, Spaces
<1>5. \A x \in DOMAIN l : SharesKernel(r, l[x].ttb_base)
  <2> TAKE x \in DOMAIN l
  <2>1. CASE x = t
    BY <1>1, <2>1 DEF Gets
  <2>2. CASE x # t
    <3>1. x \in DOMAIN k \ {t} /\ l[x] = k[x]
      BY <2>2 DEF Gets
    <3>2. SharesKernel(s, k[x].ttb_base) /\ k[x].ttb_base \in DOMAIN s.l1
      BY <3>1, OwnDirectory DEF Spaces
    <3> QED BY <1>1, <3>1, <3>2, KeepsKernel DEF Gets
  <2> QED BY <2>1, <2>2
<1>6. \A x \in DOMAIN k \ {t} : TaskUses(r, l, x) = TaskUses(s, k, x)
  <2> TAKE x \in DOMAIN k \ {t}
  <2>1. l[x] = k[x] /\ k[x].ttb_base # d /\ k[x].ttb_base \in DOMAIN s.l1 /\ Keeps(s, r, d)
    BY OwnDirectory DEF Gets
  <2>2. SpaceUses(r, x, k[x].ttb_base) = SpaceUses(s, x, k[x].ttb_base)
    BY <2>1, KeepsUses
  <2> QED BY <2>1, <2>2 DEF TaskUses
<1>7. PICK W : U \cup SpaceUses(r, t, d) \subseteq W /\ Fits(r, t, FixedFor(t), W)
  BY DEF Gets, Sound
<1>8. \A x \in DOMAIN l : TaskUses(r, l, x) \subseteq W
  <2> TAKE x \in DOMAIN l
  <2>1. CASE x = t
    BY <1>1, <1>7, <2>1 DEF TaskUses, Gets
  <2>2. CASE x # t
    BY <1>6, <1>7, <2>2 DEF Gets
  <2> QED BY <2>1, <2>2
<1>9. AllUses(r, l) \subseteq W
  BY <1>8 DEF AllUses
<1>10. OneUseEach(AllUses(r, l)) /\ \A u \in AllUses(r, l) : u[1] < r.next
  BY <1>7, <1>9 DEF Fits, OneUseEach
<1>11. \A x \in DOMAIN l : FixedForFs(x, TaskUses(r, l, x))
  <2> TAKE x \in DOMAIN l
  <2>1. CASE x # t
    BY <1>6, <2>1 DEF Gets, Spaces
  <2>2. CASE x = t /\ t # 1
    <3>1. ASSUME NEW u \in TaskUses(r, l, t), u[1] \in FixedFrames PROVE FALSE
      <4>1. u[3] = t
        BY UseOwner
      <4>2. u[3] = 1
        BY <1>1, <1>7, <1>8, <2>2, <3>1 DEF Fits, FixedFor
      <4> QED BY <2>2, <4>1, <4>2
    <3> QED BY <2>2, <3>1 DEF FixedForFs, FixedFrames
  <2>3. CASE x = 1
    BY <2>3 DEF FixedForFs
  <2> QED BY <2>1, <2>2, <2>3
<1> QED BY <1>1, <1>2, <1>3, <1>4, <1>5, <1>10, <1>11 DEF Spaces

(***************************************************************************)
(* The steps that change tables.                                           *)
(***************************************************************************)
LEMMA StopKeepsTables ==
  ASSUME NEW s, TablesOK(s), NEW r, r = Stop(s)
  PROVE  TablesOK(r) /\ r.l1 = s.l1 /\ r.pte = s.pte /\ r.next = s.next /\ r.halted
<1>1. /\ IsMmu(s) /\ IsMmu(r) /\ r.l1 = s.l1 /\ r.pte = s.pte /\ r.next = s.next /\ r.halted
      /\ r.halted \in BOOLEAN
  BY DEF TablesOK, TablesTyped, IsMmu, Stop
<1>2. TablesTyped(r)
  BY <1>1 DEF TablesOK, TablesTyped, Entries
<1>3. OneEntryEach(r) /\ NoUserSections(r) /\ KernelGroups(r)
  BY <1>1 DEF TablesOK, OneEntryEach, NoUserSections, KernelGroups
<1> QED BY <1>1, <1>2, <1>3 DEF TablesOK

LEMMA SameSpaces ==
  ASSUME NEW s, NEW k, Spaces(s, k),
         NEW r, TablesOK(r), r.l1 = s.l1, r.pte = s.pte, r.next = s.next
  PROVE  Spaces(r, k)
<1>1. \A t \in DOMAIN k : TaskUses(r, k, t) = TaskUses(s, k, t)
  BY DEF TaskUses, SpaceUses, Tables, UserPages, Page, TableOf
<1>2. AllUses(r, k) = AllUses(s, k)
  BY <1>1 DEF AllUses
<1>3. \A d : SharesKernel(s, d) => SharesKernel(r, d)
  <2> TAKE d
  <2>1. SharesKernel(r, d) <=> SharesKernel(s, d)
    BY DEF SharesKernel, Page, TableOf
  <2> QED BY <2>1
<1> QED BY <1>1, <1>2, <1>3 DEF Spaces

LEMMA StoppedSpaces ==
  ASSUME NEW s, NEW k, Spaces(s, k)
  PROVE  Spaces(Stop(s), k)
<1>1. PICK r : r = Stop(s)
  OBVIOUS
<1>2. TablesOK(s)
  BY DEF Spaces
<1>3. TablesOK(r) /\ r.l1 = s.l1 /\ r.pte = s.pte /\ r.next = s.next
  BY <1>1, <1>2, StopKeepsTables
<1>4. Spaces(r, k)
  BY <1>3, SameSpaces
<1> QED BY <1>1, <1>4

LEMMA SpacesAtStart == Spaces(Rebuilt, <<>>)
<1>1. TablesOK(Rebuilt) /\ DOMAIN Rebuilt.l1 = {KERNEL_TTB}
  BY RebuiltTables
<1>2. DOMAIN <<>> = {}
  OBVIOUS
<1>3. AllUses(Rebuilt, <<>>) = {}
  BY <1>2 DEF AllUses
<1>4. <<>> \in [{} -> [pcb : Frame, ttb_base : DOMAIN Rebuilt.l1]]
  OBVIOUS
<1> QED BY <1>1, <1>2, <1>3, <1>4 DEF Spaces, OneUseEach

LEMMA GetsBorn ==
  ASSUME NEW s, NEW k, NEW r, NEW t, t \notin DOMAIN k, NEW p \in Frame, NEW d,
         NEW l, l = With(k, t, [pcb |-> p, ttb_base |-> d]), NEW U,
         d = KERNEL_TTB <=> t = Idle, \A x \in DOMAIN k : k[x].ttb_base # d,
         Keeps(s, r, d), SharesKernel(r, d),
         Sound(r, t, d, U \cup {Pcb(p, t)}, FixedFor(t)), AllUses(s, k) \subseteq U
  PROVE  Gets(s, k, r, l, t, d, U \cup {Pcb(p, t)})
<1>1. /\ DOMAIN l = DOMAIN k \cup {t} /\ l = [x \in DOMAIN l |-> l[x]]
      /\ \A x \in DOMAIN k : l[x] = k[x]
      /\ l[t] = [pcb |-> p, ttb_base |-> d]
  BY DEF With
<1>2. l[t] \in [pcb : Frame, ttb_base : {d}] /\ l[t].pcb = p
  BY <1>1
<1>3. \A x \in DOMAIN k : TaskUses(s, k, x) \subseteq U
  BY DEF AllUses
<1> QED BY <1>1, <1>2, <1>3 DEF Gets

LEMMA IdleSpaces ==
  ASSUME NEW r, r = AfterInitTask(Rebuilt), ~r.halted
  PROVE  Spaces(r, With(<<>>, Idle, [pcb |-> First(Rebuilt, 1), ttb_base |-> KERNEL_TTB]))
<1> DEFINE p == First(Rebuilt, 1)
<1>1. PICK l : l = With(<<>>, Idle, [pcb |-> p, ttb_base |-> KERNEL_TTB])
  OBVIOUS
<1>2. Spaces(Rebuilt, <<>>)
  BY SpacesAtStart
<1>3. /\ Sound(r, Idle, KERNEL_TTB, {Pcb(p, Idle)}, FixedFrames)
      /\ Keeps(Rebuilt, r, KERNEL_TTB) /\ p \in Frame
  BY IdleEffect
<1> HIDE DEF p
<1>4. DOMAIN <<>> = {}
  OBVIOUS
<1>5. AllUses(Rebuilt, <<>>) = {}
  BY <1>4 DEF AllUses
<1>6. FixedFor(Idle) = FixedFrames /\ {} \cup {Pcb(p, Idle)} = {Pcb(p, Idle)}
  BY DEF FixedFor, Idle
<1>7. Gets(Rebuilt, <<>>, r, l, Idle, KERNEL_TTB, {} \cup {Pcb(p, Idle)})
  BY <1>1, <1>3, <1>4, <1>5, <1>6, SharesWithItself, GetsBorn
<1>8. Spaces(r, l)
  BY <1>2, <1>7, SpacesGrow
<1> QED BY <1>1, <1>8 DEF p

LEMMA BornSpaces ==
  ASSUME NEW s, NEW k, Spaces(s, k), NEW t \in Program, t \notin DOMAIN k,
         NEW r, r = Birth(s, t), ~r.halted
  PROVE  /\ Spaces(r, With(k, t, [pcb |-> First(s, 1), ttb_base |-> NewDirectory(s)]))
         /\ Idle \in DOMAIN k => NewDirectory(s) # KERNEL_TTB
<1> DEFINE d == NewDirectory(s)
<1> DEFINE p == First(s, 1)
<1> DEFINE U == AllUses(s, k)
<1>1. PICK l : l = With(k, t, [pcb |-> p, ttb_base |-> d])
  OBVIOUS
<1>2. TablesOK(s) /\ Fits(s, t, FixedFrames, U)
  BY UsesFit DEF Spaces
<1>3. \A e \in DOMAIN s.l1 : e < s.next
  <2>1. KERNEL_TTB < s.next
    <3>1. PAGES_START =< s.next /\ s.next \in Nat
      BY <1>2 DEF TablesOK, TablesTyped
    <3>2. PAGES_START \in Nat /\ KERNEL_TTB \in Nat /\ KERNEL_TTB < PAGES_START
      BY FixedPlaces, Layout, ProgramAssumption, LayoutAssumption, FramesAreNumbers
    <3> QED BY <3>1, <3>2
  <2>2. \A x \in DOMAIN k : k[x].ttb_base < s.next
    BY OwnDirectory
  <2> QED BY <2>1, <2>2 DEF Spaces
<1> HIDE DEF U
<1>4. /\ Sound(r, t, d, U \cup {Pcb(p, t)}, FixedFor(t)) /\ Keeps(s, r, d)
      /\ d \notin DOMAIN s.l1 /\ SharesKernel(r, d) /\ p \in Frame
  BY <1>2, <1>3, BirthEffect
<1> HIDE DEF d, p
<1>5. d # KERNEL_TTB /\ t # Idle
  BY <1>2, <1>4 DEF TablesOK, TablesTyped, Program, Idle
<1>6. \A x \in DOMAIN k : k[x].ttb_base # d
  BY <1>4, OwnDirectory
<1>7. AllUses(s, k) \subseteq U
  BY DEF U
<1>8. Gets(s, k, r, l, t, d, U \cup {Pcb(p, t)})
  BY <1>1, <1>4, <1>5, <1>6, <1>7, GetsBorn
<1>9. Spaces(r, l)
  BY <1>8, SpacesGrow
<1> QED BY <1>1, <1>5, <1>9 DEF d, p

LEMMA FaultSpaces ==
  ASSUME NEW s, NEW k, Spaces(s, k), NEW t \in DOMAIN k, NEW v \in UserPage,
         NEW d, d = k[t].ttb_base,
         NEW x, x = FaultTables(s, d, v), ~x.halted, ~Take(x, 1).halted,
         NEW r, r = SetPages(Take(x, 1), d, Consecutive(v, 1, First(x, 1)))
  PROVE  /\ Spaces(r, k) /\ Keeps(s, r, d) /\ ~r.halted
         /\ Grown(s, r, d, Consecutive(v, 1, First(x, 1)), First(x, 1))
         /\ First(x, 1) = r.next - 1 /\ r.next - 1 \in Frame /\ s.next < r.next
<1> DEFINE U == AllUses(s, k)
<1>1. TablesOK(s) /\ Fits(s, t, FixedFor(t), U)
  BY UsesFitOne DEF Spaces
<1>2. SpaceUses(s, t, d) \subseteq U
  BY DEF AllUses, TaskUses
<1>3. d \in DOMAIN s.l1 /\ \A y \in DOMAIN k \ {t} : k[y].ttb_base # d
  BY OwnDirectory
<1>4. Pcb(k[t].pcb, t) \in U /\ \A y \in DOMAIN k \ {t} : TaskUses(s, k, y) \subseteq U
  BY DEF AllUses, TaskUses
<1> HIDE DEF U
<1>5. FixedFor(t) \subseteq FixedFrames
  BY DEF FixedFor
<1>6. Sound(s, t, d, U, FixedFor(t))
  BY <1>1, <1>2, <1>3, <1>5 DEF Sound
<1>7. /\ Sound(r, t, d, U, FixedFor(t)) /\ Keeps(s, r, d) /\ ~r.halted
      /\ Grown(s, r, d, Consecutive(v, 1, First(x, 1)), First(x, 1))
      /\ First(x, 1) = r.next - 1 /\ r.next - 1 \in Frame /\ s.next < r.next
  BY <1>6, FaultEffect
<1>8. SharesKernel(r, d)
  <2>1. SharesKernel(s, d) /\ KERNEL_TTB \in DOMAIN s.l1
    BY <1>1 DEF Spaces, TablesOK, TablesTyped
  <2> QED BY <1>3, <1>7, <2>1, KeepsKernel
<1>9. k[t] \in [pcb : Frame, ttb_base : {d}] /\ (d = KERNEL_TTB <=> t = Idle)
      /\ k = [y \in DOMAIN k |-> k[y]]
  BY DEF Spaces
<1>10. Gets(s, k, r, k, t, d, U)
  BY <1>3, <1>4, <1>7, <1>8, <1>9 DEF Gets
<1>11. Spaces(r, k)
  BY <1>10, SpacesGrow
<1> QED BY <1>7, <1>11

(***************************************************************************)
(* The invariant of the tables: of the first state and of each step.       *)
(***************************************************************************)
LEMMA SpacesInvNext == MmuInv' <=> Spaces(mmu', task') /\ Booting'
<1>1. (MmuInv <=> Spaces(mmu, task) /\ Booting)'
  BY SpacesInv, PTL
<1>2. Spaces(mmu, task)' <=> Spaces(mmu', task')
  BY DEF Spaces
<1> QED BY <1>1

LEMMA MmuStart == Init => MmuInv
<1> SUFFICES ASSUME Init PROVE MmuInv
  OBVIOUS
<1>1. mmu = Rebuilt /\ task = <<>>
  BY DEF Init
<1>2. DOMAIN task = {}
  BY <1>1
<1>3. Booting
  BY <1>1, <1>2 DEF Booting
<1> QED BY <1>1, <1>3, SpacesAtStart, SpacesInv

LEMMA MmuInitTask ==
  ASSUME KernelStarts, MmuInv, InitTask
  PROVE  MmuInv' /\ ~mmu'.halted
<1>1. DOMAIN task = {} /\ mmu = Rebuilt
  BY DEF MmuInv, Booting, InitTask, Boot, Idle
<1>2. task = <<>>
  BY <1>1 DEF MmuInv
<1>3. mmu' = AfterInitTask(Rebuilt) /\ mmu' = Births.idle
  BY <1>1 DEF InitTask, Births, Birth
<1>4. ~mmu'.halted
  BY <1>3, BirthsGoOn
<1>5. task' = With(<<>>, Idle, [pcb |-> First(Rebuilt, 1), ttb_base |-> KERNEL_TTB])
  BY <1>1, <1>2 DEF InitTask
<1>6. Spaces(mmu', task')
  BY <1>3, <1>4, <1>5, IdleSpaces
<1>7. DOMAIN task' = {0}
  BY <1>5, <1>1, <1>2 DEF With, Idle
<1>8. Booting'
  BY <1>3, <1>7 DEF Booting
<1> QED BY <1>4, <1>6, <1>8, SpacesInvNext

LEMMA MmuCreatep ==
  ASSUME KernelStarts, MmuInv, NEW t \in Program, createp(t)
  PROVE  /\ MmuInv' /\ ~mmu'.halted /\ mmu' = Birth(mmu, t)
         /\ (t = 1 /\ DOMAIN task = {0}) \/ (t = 2 /\ DOMAIN task = {0, 1})
         /\ \A e \in DOMAIN mmu.l1 : e < mmu.next
<1>1. (t = 1 /\ DOMAIN task = {0}) \/ (t = 2 /\ DOMAIN task = {0, 1})
  BY DEF MmuInv, Booting, createp, Boot, Idle, Task, Program
<1>2. mmu' = Birth(mmu, t)
  BY DEF createp, Birth, Program, Idle
<1>3. /\ t = 1 => mmu = Births.idle /\ mmu' = Births.fs
      /\ t = 2 => mmu = Births.fs /\ mmu' = Births.sh
  <2>1. /\ t = 1 => mmu = Births.idle
        /\ t = 2 => mmu = Births.fs
    BY <1>1 DEF MmuInv, Booting
  <2>2. Births.fs = Birth(Births.idle, 1) /\ Births.sh = Birth(Births.fs, 2)
    BY DEF Births
  <2> QED BY <1>2, <2>1, <2>2
<1>4. ~mmu'.halted
  BY <1>1, <1>3, BirthsGoOn
<1>5. Spaces(mmu, task) /\ t \notin DOMAIN task
  BY <1>1, SpacesInv
<1>6. task' = With(task, t, [pcb |-> First(mmu, 1), ttb_base |-> NewDirectory(mmu)])
  BY DEF createp
<1>7. Spaces(mmu', task')
  BY <1>2, <1>4, <1>5, <1>6, BornSpaces
<1>8. DOMAIN task' = DOMAIN task \cup {t}
  BY <1>6 DEF With
<1>9. Booting'
  BY <1>1, <1>3, <1>8 DEF Booting
<1>10. \A e \in DOMAIN mmu.l1 : e < mmu.next
  <2>1. KERNEL_TTB < mmu.next
    <3>1. Idle \in DOMAIN task /\ task[Idle].ttb_base = KERNEL_TTB
      BY <1>1, <1>5 DEF Spaces, Idle
    <3> QED BY <1>5, <3>1, OwnDirectory
  <2>2. \A x \in DOMAIN task : task[x].ttb_base < mmu.next
    BY <1>5, OwnDirectory
  <2> QED BY <1>5, <2>1, <2>2 DEF Spaces
<1> QED BY <1>1, <1>2, <1>4, <1>7, <1>9, <1>10, SpacesInvNext

(***************************************************************************)
(* What do_page_fault() comes to.                                          *)
(***************************************************************************)
PageGiven(s, r, d, v) ==
  /\ v \in UserPage /\ Empty(s.l1[d][v \div PPM])
  /\ ~FaultTables(s, d, v).halted /\ ~Take(FaultTables(s, d, v), 1).halted
  /\ r = SetPages(Take(FaultTables(s, d, v), 1), d,
                  Consecutive(v, 1, First(FaultTables(s, d, v), 1)))

LEMMA FaultOutcomes ==
  ASSUME NEW type, NEW v
  PROVE  \/ AfterFault(type, v) = Stop(mmu)
         \/ type = 11 /\ PageGiven(mmu, AfterFault(type, v), Directory, v)
<1>1. CASE AfterFault(type, v) = Stop(mmu)
  BY <1>1
<1>2. CASE AfterFault(type, v) # Stop(mmu)
  <2>1. /\ type \in {7, 11} /\ AfterFault(type, v) = do_page_fault(type, v)
        /\ do_page_fault(type, v) # Stop(mmu)
    BY <1>2 DEF AfterFault
  <2>2. v \in UserPage
    <3>1. v \in VMA_AREA
      BY <2>1 DEF do_page_fault
    <3>2. VMA_AREA \subseteq 0..(HEAP_END - 1)
      BY ProgramAssumption DEF VMA_AREA
    <3> QED BY <3>1, <3>2, ProgramAssumption
  <2>3. /\ Empty(mmu.l1[Directory][v \div PPM]) /\ type = 11
        /\ ~FaultTables(mmu, Directory, v).halted
        /\ ~Take(FaultTables(mmu, Directory, v), 1).halted
        /\ do_page_fault(type, v)
             = SetPages(Take(FaultTables(mmu, Directory, v), 1), Directory,
                        Consecutive(v, 1, First(FaultTables(mmu, Directory, v), 1)))
    BY <2>1 DEF do_page_fault, FaultTables
  <2> QED BY <2>1, <2>2, <2>3 DEF PageGiven
<1> QED BY <1>1, <1>2

LEMMA MmuDataAbort ==
  ASSUME MmuInv, NEW t \in Program, NEW v, DataAbort(t, v)
  PROVE  /\ MmuInv' /\ t \in DOMAIN task /\ current_p = t
         /\ \/ mmu' = Stop(mmu)
            \/ /\ PageGiven(mmu, mmu', Directory, v) /\ ~mmu'.halted
               /\ Keeps(mmu, mmu', Directory)
               /\ LET n == mmu'.next - 1 IN
                  /\ n \in Frame /\ mmu.next =< n
                  /\ Grown(mmu, mmu', Directory, Consecutive(v, 1, n), n)
<1>1. t \in DOMAIN task /\ current_p = t /\ DOMAIN task = Task /\ task' = task
  BY DEF DataAbort, Running, Started, Task
<1>2. Spaces(mmu, task)
  BY SpacesInv
<1>3. PICK type : mmu' = AfterFault(type, v)
  BY DEF DataAbort
<1>4. Booting'
  <2>1. 2 \in DOMAIN task
    BY <1>1 DEF Task, Program
  <2>2. DOMAIN task \in {{}, {0}, {0, 1}, {0, 1, 2}}
    BY DEF MmuInv, Booting
  <2>3. DOMAIN task # {} /\ DOMAIN task # {0} /\ DOMAIN task # {0, 1}
    BY <2>1
  <2> QED BY <1>1, <2>2, <2>3 DEF Booting
<1>5. CASE mmu' = Stop(mmu)
  <2>1. Spaces(mmu', task')
    BY <1>1, <1>2, <1>5, StoppedSpaces
  <2> QED BY <1>1, <1>4, <1>5, <2>1, SpacesInvNext
<1>6. CASE mmu' # Stop(mmu)
  <2>1. PageGiven(mmu, mmu', Directory, v)
    BY <1>3, <1>6, FaultOutcomes
  <2> DEFINE d == Directory
  <2>2. d = task[t].ttb_base
    BY <1>1 DEF Directory
  <2>3. PICK x : x = FaultTables(mmu, d, v)
    OBVIOUS
  <2>4. v \in UserPage /\ ~x.halted /\ ~Take(x, 1).halted
        /\ mmu' = SetPages(Take(x, 1), d, Consecutive(v, 1, First(x, 1)))
    BY <2>1, <2>3 DEF PageGiven
  <2> HIDE DEF d
  <2>5. /\ Spaces(mmu', task) /\ Keeps(mmu, mmu', d) /\ ~mmu'.halted
        /\ Grown(mmu, mmu', d, Consecutive(v, 1, First(x, 1)), First(x, 1))
        /\ First(x, 1) = mmu'.next - 1 /\ mmu'.next - 1 \in Frame /\ mmu.next < mmu'.next
    BY <1>1, <1>2, <2>2, <2>3, <2>4, FaultSpaces
  <2>6. MmuInv'
    BY <1>1, <1>4, <2>5, SpacesInvNext
  <2>7. mmu.next =< mmu'.next - 1
    <3>1. mmu.next \in Nat /\ mmu'.next \in Nat
      BY <1>2, <2>5 DEF Spaces, TablesOK, TablesTyped
    <3> QED BY <2>5, <3>1
  <2> QED BY <1>1, <2>1, <2>5, <2>6, <2>7 DEF d
<1> QED BY <1>5, <1>6

LEMMA MmuUnchanged == MmuInv /\ mmu' = mmu /\ task' = task => MmuInv'
<1> SUFFICES ASSUME MmuInv, mmu' = mmu, task' = task PROVE MmuInv'
  OBVIOUS
<1>1. Spaces(mmu', task') /\ Booting
  BY SpacesInv
<1>2. Booting'
  BY <1>1 DEF Booting
<1> QED BY <1>1, <1>2, SpacesInvNext

LEMMA MmuStopped ==
  MmuInv /\ mmu' = Stop(mmu) /\ task' = task /\ DOMAIN task = Task => MmuInv'
<1> SUFFICES ASSUME MmuInv, mmu' = Stop(mmu), task' = task, DOMAIN task = Task PROVE MmuInv'
  OBVIOUS
<1>1. Spaces(mmu', task')
  BY SpacesInv, StoppedSpaces
<1>2. DOMAIN task = {0, 1, 2} /\ 2 \in DOMAIN task
  BY DEF Task, Program, Idle
<1>3. DOMAIN task # {} /\ DOMAIN task # {0} /\ DOMAIN task # {0, 1}
  BY <1>2
<1>4. Booting'
  BY <1>2, <1>3 DEF Booting
<1> QED BY <1>1, <1>4, SpacesInvNext

LEMMA MmuStep == MmuInv /\ [Next]_vars => MmuInv'
<1> SUFFICES ASSUME MmuInv, [Next]_vars PROVE MmuInv'
  OBVIOUS
<1>1. CASE InitTask
  BY <1>1, MmuInitTask, StartAssumption
<1>2. ASSUME NEW t \in Program, createp(t) PROVE MmuInv'
  BY <1>2, MmuCreatep, StartAssumption
<1>3. ASSUME NEW t \in Task, Switch(t) PROVE MmuInv'
  <2>1. mmu' = mmu /\ task' = task
    BY <1>3 DEF Switch
  <2> QED BY <2>1, MmuUnchanged
<1>4. ASSUME NEW t \in Program, NEW u \in Task, Call(t, u) PROVE MmuInv'
  <2>1. mmu' = mmu /\ task' = task
    BY <1>4 DEF Call
  <2> QED BY <2>1, MmuUnchanged
<1>5. ASSUME NEW t \in Program, NEW v \in Touched, Load(t, v) PROVE MmuInv'
  <2>1. mmu' = mmu /\ task' = task
    BY <1>5 DEF Load
  <2> QED BY <2>1, MmuUnchanged
<1>6. ASSUME NEW t \in Program, NEW v \in Touched, NEW x \in Val, Store(t, v, x) PROVE MmuInv'
  <2>1. mmu' = mmu /\ task' = task
    BY <1>6 DEF Store
  <2> QED BY <2>1, MmuUnchanged
<1>7. ASSUME NEW t \in Program, NEW v \in Touched, DataAbort(t, v) PROVE MmuInv'
  BY <1>7, MmuDataAbort
<1>8. ASSUME NEW t \in Program, NEW u \in Program, NEW read \in BOOLEAN,
             NEW a \in Touched, NEW b \in Touched, physrw(t, u, read, a, b)
      PROVE  MmuInv'
  <2>1. mmu' = mmu \/ mmu' = Stop(mmu)
    BY <1>8 DEF physrw
  <2>2. DOMAIN task = Task /\ task' = task
    BY <1>8 DEF physrw, Running, Started
  <2> QED BY <2>1, <2>2, MmuUnchanged, MmuStopped
<1>9. CASE Replace
  <2>1. mmu' = mmu /\ task' = task
    BY <1>9 DEF Replace
  <2> QED BY <2>1, MmuUnchanged
<1>10. CASE UNCHANGED vars
  <2>1. mmu' = mmu /\ task' = task
    BY <1>10 DEF vars
  <2> QED BY <2>1, MmuUnchanged
<1> QED
  BY <1>1, <1>2, <1>3, <1>4, <1>5, <1>6, <1>7, <1>8, <1>9, <1>10 DEF Next

(***************************************************************************)
(* The page tables stay well formed and no frame gets a second use, from   *)
(* the kernel's start to whatever faults and copies come after it.         *)
(***************************************************************************)
THEOREM TablesSafe == Spec => []MmuInv
  BY MmuStart, MmuStep, PTL DEF Spec

(***************************************************************************)
(* Every address space has the kernel at the same addresses, through all   *)
(* of share_kernel_space(), the program's own tables and the faults.       *)
(***************************************************************************)
THEOREM KernelShared == Spec => []KernelIsShared
<1>1. MmuInv => KernelIsShared
  BY DEF MmuInv
<1> QED BY <1>1, TablesSafe, PTL

LEMMA DifferentFirst ==
  ASSUME NEW U, OneUseEach(U), NEW n \in Nat, \A u \in U : u[1] \in Nat /\ u[1] < n
  PROVE  Cardinality(U) = Cardinality({u[1] : u \in U})
<1> DEFINE T == {u[1] : u \in U}
<1> DEFINE f == [u \in U |-> u[1]]
<1>1. f \in [U -> T] /\ \A t \in T : \E u \in U : f[u] = t
  OBVIOUS
<1>2. \A u, w \in U : f[u] = f[w] => u = w
  BY DEF OneUseEach
<1>3. IsFiniteSet(T)
  <2>1. T \in SUBSET Nat /\ \A x \in T : x =< n
    OBVIOUS
  <2> HIDE DEF T
  <2> QED BY <2>1, FS_BoundedSetOfNaturals
<1> HIDE DEF T, f
<1>4. f \in Injection(U, T) /\ f \in Surjection(U, T)
  BY <1>1, <1>2 DEF Injection, IsInjective, Surjection
<1>5. Cardinality(U) = Cardinality(T)
  BY <1>3, <1>4, FS_Injection
<1> QED BY <1>5 DEF T

LEMMA MmuOneUse == MmuInv => FramesHaveOneUse
<1> SUFFICES ASSUME MmuInv PROVE FramesHaveOneUse
  OBVIOUS
<1>1. Spaces(mmu, task) /\ AllUses(mmu, task) = Uses
  <2>1. \A t \in DOMAIN task : UsesOf(t) = TaskUses(mmu, task, t)
    BY DEF UsesOf, TaskUses, Pcb
  <2> QED BY <2>1, SpacesInv DEF Uses, AllUses
<1>2. \A u \in Uses : u[1] \in Nat
  BY <1>1, UseNumbers
<1>3. mmu.next \in Nat /\ OneUseEach(Uses) /\ \A u \in Uses : u[1] < mmu.next
  BY DEF MmuInv, TablesOK, TablesTyped
<1>4. Cardinality(Uses) = Cardinality({u[1] : u \in Uses})
  BY <1>2, <1>3, DifferentFirst
<1> QED BY <1>4 DEF FramesHaveOneUse

(***************************************************************************)
(* No frame has two uses, whatever the sizes of the images, of the stack   *)
(* and of the buffers: the blocks that createp() takes, the tables taken   *)
(* in between and the pages that faults give never overlap.                *)
(***************************************************************************)
THEOREM OneUse == Spec => []FramesHaveOneUse
  BY TablesSafe, MmuOneUse, PTL
-----------------------------------------------------------------------------
(***************************************************************************)
(* The TLB and the data cache.  A line has an owner, and two lines of one  *)
(* frame are one line, but for physical page 0.                            *)
(***************************************************************************)
AnyFrame == Frame \cup {LowPage}

LEMMA SeenAreUser == UserPagesSeen \subseteq UserPage
<1>1. Touched \subseteq UserPage
  BY LayoutAssumption, ProgramAssumption
<1>2. MsgPage \in UserPage
  BY ProgramAssumption DEF MsgPage
<1> QED BY <1>1, <1>2 DEF UserPagesSeen

LEMMA PageTyped ==
  ASSUME NEW s, TablesOK(s), NEW d \in DOMAIN s.l1, NEW v \in UserPage, HasTable(s, d, v)
  PROVE  Page(s, d, v) \in AnyFrame
<1>1. v \in Nat /\ v \div PPM \in Mega /\ IsTable(s.l1[d][v \div PPM])
  BY UserMega DEF HasTable
<1>2. PICK a : /\ a = TableOf(s, d, v)
               /\ s.pte[a] \in [0..(PPM - 1) -> Frame \cup {LowPage}]
  BY <1>1, EntryOfTable DEF TableOf
<1> QED BY <1>1, <1>2, PageNumber DEF Page, AnyFrame

LEMMA OnePageEach ==
  ASSUME NEW s, NEW k, Spaces(s, k), NEW t \in DOMAIN k, NEW u \in DOMAIN k,
         NEW v \in UserPages(s, k[t].ttb_base), NEW w \in UserPages(s, k[u].ttb_base),
         Page(s, k[t].ttb_base, v) = Page(s, k[u].ttb_base, w)
  PROVE  t = u /\ v = w
<1> DEFINE f == Page(s, k[t].ttb_base, v)
<1>1. <<f, "page", t, v>> \in AllUses(s, k)
  BY DEF AllUses, TaskUses, SpaceUses
<1>2. <<f, "page", u, w>> \in AllUses(s, k)
  BY DEF AllUses, TaskUses, SpaceUses
<1>3. <<f, "page", t, v>> = <<f, "page", u, w>>
  <2> HIDE DEF f
  <2> QED BY <1>1, <1>2 DEF Spaces, OneUseEach
<1> QED BY <1>3

OneKey(O) == \A o, q \in O : o[2] = q[2] /\ o[2] # LowPage => o[1] = q[1]

LEMMA OwnersAre ==
  ASSUME NEW s, NEW k, NEW p, NEW o \in Owners(s, k, p)
  PROVE  \/ \E v \in UserPagesSeen : /\ HasTable(s, k[p].ttb_base, v)
                                     /\ o = <<User(v), Page(s, k[p].ttb_base, v)>>
         \/ \E u \in DOMAIN k \ {p, Idle} :
              \E v \in UserPages(s, k[u].ttb_base) :
                 o = <<Kernel(Page(s, k[u].ttb_base, v)), Page(s, k[u].ttb_base, v)>>
  BY DEF Owners

LEMMA OwnersOneKey ==
  ASSUME NEW s, NEW k, Spaces(s, k), NEW p \in DOMAIN k
  PROVE  OneKey(Owners(s, k, p))
<1> DEFINE Mine(o) == \E v \in UserPagesSeen : /\ HasTable(s, k[p].ttb_base, v)
                                                /\ o = <<User(v), Page(s, k[p].ttb_base, v)>>
<1> DEFINE Other(o) == \E u \in DOMAIN k \ {p, Idle} :
              \E v \in UserPages(s, k[u].ttb_base) :
                 o = <<Kernel(Page(s, k[u].ttb_base, v)), Page(s, k[u].ttb_base, v)>>
<1>1. \A v \in UserPagesSeen : HasTable(s, k[p].ttb_base, v)
        /\ Page(s, k[p].ttb_base, v) # LowPage => v \in UserPages(s, k[p].ttb_base)
  BY SeenAreUser DEF UserPages, HasTable
<1>2. \A o, q : Mine(o) /\ Mine(q) /\ o[2] = q[2] /\ o[2] # LowPage => o[1] = q[1]
  <2> SUFFICES ASSUME NEW o, NEW q, Mine(o), Mine(q), o[2] = q[2], o[2] # LowPage
               PROVE  o[1] = q[1]
    OBVIOUS
  <2>1. PICK v \in UserPagesSeen : /\ HasTable(s, k[p].ttb_base, v)
                                   /\ o = <<User(v), Page(s, k[p].ttb_base, v)>>
    OBVIOUS
  <2>2. PICK w \in UserPagesSeen : /\ HasTable(s, k[p].ttb_base, w)
                                   /\ q = <<User(w), Page(s, k[p].ttb_base, w)>>
    OBVIOUS
  <2>3. o[1] = User(v) /\ q[1] = User(w)
        /\ o[2] = Page(s, k[p].ttb_base, v) /\ q[2] = Page(s, k[p].ttb_base, w)
    BY <2>1, <2>2
  <2>4. v = w
    BY <1>1, <2>1, <2>2, <2>3, OnePageEach
  <2> QED BY <2>3, <2>4
<1>3. \A o, q : Mine(o) /\ Other(q) /\ o[2] # LowPage => o[2] # q[2]
  <2> SUFFICES ASSUME NEW o, NEW q, Mine(o), Other(q), o[2] = q[2], o[2] # LowPage
               PROVE  FALSE
    OBVIOUS
  <2>1. PICK v \in UserPagesSeen : /\ HasTable(s, k[p].ttb_base, v)
                                   /\ o = <<User(v), Page(s, k[p].ttb_base, v)>>
    OBVIOUS
  <2>2. PICK u \in DOMAIN k \ {p, Idle} :
              \E w \in UserPages(s, k[u].ttb_base) :
                 q = <<Kernel(Page(s, k[u].ttb_base, w)), Page(s, k[u].ttb_base, w)>>
    OBVIOUS
  <2>3. PICK w \in UserPages(s, k[u].ttb_base) :
               q = <<Kernel(Page(s, k[u].ttb_base, w)), Page(s, k[u].ttb_base, w)>>
    BY <2>2
  <2>4. o[2] = Page(s, k[p].ttb_base, v) /\ q[2] = Page(s, k[u].ttb_base, w)
    BY <2>1, <2>3
  <2>5. p = u
    BY <1>1, <2>1, <2>3, <2>4, OnePageEach
  <2> QED BY <2>5
<1>4. \A o, q : Other(o) /\ Other(q) /\ o[2] = q[2] => o[1] = q[1]
  <2> SUFFICES ASSUME NEW o, NEW q, Other(o), Other(q), o[2] = q[2]
               PROVE  o[1] = q[1]
    OBVIOUS
  <2>1. o[1] = Kernel(o[2])
    OBVIOUS
  <2>2. q[1] = Kernel(q[2])
    OBVIOUS
  <2> QED BY <2>1, <2>2
<1>5. \A o \in Owners(s, k, p) : Mine(o) \/ Other(o)
  BY OwnersAre
<1> HIDE DEF Mine, Other
<1> QED BY <1>2, <1>3, <1>4, <1>5 DEF OneKey

LEMMA LinesOfFields ==
  ASSUME NEW ram, NEW O, Lines(ram, O), NEW r, IsRam(r),
         r.phys = ram.phys, r.cache = ram.cache
  PROVE  Lines(r, O)
  BY DEF Lines

LEMMA EmptyLines ==
  ASSUME NEW r, IsRam(r), r.phys \in [AnyFrame -> Val], DOMAIN r.cache = {}, NEW O
  PROVE  Lines(r, O)
  BY DEF Lines, AnyFrame

LEMMA LineFields ==
  ASSUME NEW f \in AnyFrame, NEW x \in Val, NEW b \in BOOLEAN
  PROVE  /\ Line(f, x, b) \in [frame : Frame \cup {LowPage}, val : Val, dirty : BOOLEAN]
         /\ Line(f, x, b).frame = f /\ Line(f, x, b).val = x /\ Line(f, x, b).dirty = b
  BY DEF Line, AnyFrame

LEMMA AddedLine ==
  ASSUME NEW ram, NEW O, Lines(ram, O), NEW k, NEW f \in AnyFrame, <<k, f>> \in O,
         NEW x \in Val, NEW b \in BOOLEAN, ~b => x = ram.phys[f],
         NEW r, r = [ram EXCEPT !.cache = With(@, k, Line(f, x, b))]
  PROVE  Lines(r, O)
<1>1. IsRam(r) /\ r.phys = ram.phys /\ r.cache = With(ram.cache, k, Line(f, x, b))
  BY DEF Lines, IsRam
<1>2. /\ DOMAIN r.cache = DOMAIN ram.cache \cup {k} /\ r.cache[k] = Line(f, x, b)
      /\ \A l \in DOMAIN ram.cache \ {k} : r.cache[l] = ram.cache[l]
  BY <1>1 DEF With
<1>3. /\ r.cache[k] \in [frame : Frame \cup {LowPage}, val : Val, dirty : BOOLEAN]
      /\ r.cache[k].frame = f /\ r.cache[k].val = x /\ r.cache[k].dirty = b
  BY <1>2, LineFields
<1>4. ASSUME NEW l \in DOMAIN r.cache
      PROVE  /\ r.cache[l] \in [frame : Frame \cup {LowPage}, val : Val, dirty : BOOLEAN]
             /\ <<l, r.cache[l].frame>> \in O
             /\ ~r.cache[l].dirty /\ r.cache[l].frame # LowPage =>
                  r.cache[l].val = r.phys[r.cache[l].frame]
  <2>1. CASE l = k
    BY <1>1, <1>3, <2>1
  <2>2. CASE l # k
    BY <1>1, <1>2, <2>2 DEF Lines
  <2> QED BY <2>1, <2>2
<1> QED BY <1>1, <1>4 DEF Lines

LEMMA AfterLoadLines ==
  ASSUME NEW ram, NEW O, Lines(ram, O), NEW k, NEW f \in AnyFrame, <<k, f>> \in O,
         NEW r \in AfterLoad(ram, k, f)
  PROVE  Lines(r, O)
<1>1. CASE r = ram
  BY <1>1
<1>2. CASE r # ram
  <2>1. r = [ram EXCEPT !.cache = With(@, k, Line(f, ram.phys[f], FALSE))]
    BY <1>2 DEF AfterLoad
  <2>2. ram.phys[f] \in Val
    BY DEF Lines, AnyFrame
  <2> QED BY <2>1, <2>2, AddedLine
<1> QED BY <1>1, <1>2

LEMMA AfterStoreLines ==
  ASSUME NEW ram, NEW O, Lines(ram, O), OneKey(O), NEW k, NEW f \in AnyFrame, <<k, f>> \in O,
         NEW x \in Val, NEW r \in AfterStore(ram, k, f, x)
  PROVE  Lines(r, O)
<1>1. CASE r = [ram EXCEPT !.cache = With(@, k, Line(f, x, TRUE))]
  <2>1. ~TRUE => x = ram.phys[f]
    OBVIOUS
  <2> QED BY <1>1, <2>1, AddedLine
<1>2. CASE r # [ram EXCEPT !.cache = With(@, k, Line(f, x, TRUE))]
  <2>1. k \notin DOMAIN ram.cache /\ r = [ram EXCEPT !.phys[f] = x]
    BY <1>2 DEF AfterStore
  <2>2. IsRam(r) /\ r.cache = ram.cache /\ r.phys = [ram.phys EXCEPT ![f] = x]
    BY <2>1 DEF Lines, IsRam
  <2>3. r.phys \in [Frame \cup {LowPage} -> Val]
    BY <2>2 DEF Lines, AnyFrame
  <2>4. ASSUME NEW l \in DOMAIN ram.cache,
               ~ram.cache[l].dirty, ram.cache[l].frame # LowPage
        PROVE  ram.cache[l].val = r.phys[ram.cache[l].frame]
    <3>1. /\ <<l, ram.cache[l].frame>> \in O
          /\ ram.cache[l].val = ram.phys[ram.cache[l].frame]
      BY <2>4 DEF Lines
    <3>2. ram.cache[l].frame # f
      <4>1. l # k
        BY <2>1
      <4> QED BY <2>4, <3>1, <4>1 DEF OneKey
    <3> QED BY <2>2, <3>1, <3>2 DEF Lines
  <2> QED BY <2>2, <2>3, <2>4 DEF Lines
<1> QED BY <1>1, <1>2

LEMMA AfterSyncLines ==
  ASSUME NEW ram, NEW O, Lines(ram, O), NEW r \in AfterSync(ram), NEW Q
  PROVE  Lines(r, Q) /\ DOMAIN r.cache = {} /\ IsRam(r) /\ r.phys \in [AnyFrame -> Val]
<1> DEFINE F == {ram.cache[k].frame : k \in Dirty(ram)}
<1>1. PICK w \in [F -> Val] : r = [phys |-> Over(w, ram.phys), cache |-> <<>>]
  BY DEF AfterSync
<1>2. IsRam(r) /\ r.phys = Over(w, ram.phys) /\ DOMAIN r.cache = {}
  BY <1>1 DEF IsRam
<1>3. F \subseteq AnyFrame
  BY DEF Lines, Dirty, AnyFrame
<1> HIDE DEF F
<1>4. r.phys \in [AnyFrame -> Val]
  <2>1. ram.phys \in [AnyFrame -> Val]
    BY DEF Lines, AnyFrame
  <2> QED BY <1>2, <1>3, <2>1 DEF Over
<1> QED BY <1>2, <1>4, EmptyLines

LEMMA PeekTyped ==
  ASSUME NEW ram, NEW O, Lines(ram, O), NEW k, NEW f \in AnyFrame
  PROVE  Peek(ram, k, f) \in Val
  BY DEF Lines, Peek, AnyFrame

(***************************************************************************)
(* The MMU and the TLB.                                                    *)
(***************************************************************************)
LEMMA WalkIs ==
  ASSUME TablesOK(mmu), NEW d \in DOMAIN mmu.l1, NEW v \in UserPage
  PROVE  /\ HasTable(mmu, d, v) => Walk(d, v) = Reach(Page(mmu, d, v))
                                   /\ Walk(d, v).frame = Page(mmu, d, v)
         /\ ~HasTable(mmu, d, v) => Walk(d, v).fault # 0 /\ Walk(d, v).frame = LowPage
<1> DEFINE e == mmu.l1[d][v \div PPM]
<1>1. v \div PPM \in Mega \ KernelMega
  BY UserMega
<1>2. e.kind \in {"none", "fault", "coarse"} /\ (e.kind = "coarse" <=> HasTable(mmu, d, v))
  <2>1. e \in Entries(mmu)
    BY <1>1 DEF TablesOK, TablesTyped
  <2>2. e.kind # "section"
    BY <1>1 DEF TablesOK, NoUserSections
  <2>3. HasTable(mmu, d, v) <=> e.kind = "coarse"
    BY DEF HasTable, IsTable
  <2>4. NoEntry.kind = "none" /\ FaultEntry.kind = "fault"
    BY DEF NoEntry, FaultEntry
  <2> HIDE DEF e
  <2> QED BY <2>1, <2>2, <2>3, <2>4 DEF Entries
<1>3. Walk(d, v) = CASE e.kind = "none"    -> Fault(5)
                     [] e.kind = "fault"   -> EmptyFault(v)
                     [] e.kind = "section" -> Reach(e.frame + (v % PPM))
                     [] OTHER              -> Reach(Page(mmu, d, v))
  BY DEF Walk
<1> HIDE DEF e
<1>4. CASE e.kind = "none"
  <2>1. Walk(d, v) = Fault(5)
    BY <1>3, <1>4
  <2> QED BY <1>2, <1>4, <2>1 DEF Fault
<1>5. CASE e.kind = "fault"
  <2>1. Walk(d, v) = EmptyFault(v)
    BY <1>3, <1>5
  <2> QED BY <1>2, <1>5, <2>1 DEF Fault, EmptyFault
<1>6. CASE e.kind = "coarse"
  <2>1. Walk(d, v) = Reach(Page(mmu, d, v))
    BY <1>3, <1>6
  <2> QED BY <1>2, <1>6, <2>1 DEF Reach
<1> QED BY <1>2, <1>4, <1>5, <1>6

(***************************************************************************)
(* What an access of the running program comes to.                         *)
(***************************************************************************)
LEMMA Runner ==
  ASSUME MmuInv, MemInv, NEW t \in Task, current_p = t, DOMAIN task = Task
  PROVE  /\ Spaces(mmu, task) /\ TablesOK(mmu) /\ t \in DOMAIN task
         /\ Directory = task[t].ttb_base /\ Directory \in DOMAIN mmu.l1
         /\ t \in Program => unsynced = {}
         /\ Lines(Ram, Owners(mmu, task, t)) /\ OneKey(Owners(mmu, task, t))
         /\ \A v \in DOMAIN tlb : /\ v \in UserPagesSeen /\ HasTable(mmu, Directory, v)
                                  /\ tlb[v] = Page(mmu, Directory, v)
<1>1. Spaces(mmu, task)
  BY SpacesInv
<1>2. TablesOK(mmu) /\ Directory = task[t].ttb_base /\ Directory \in DOMAIN mmu.l1
  BY <1>1, OwnDirectory DEF Spaces, Directory
<1>3. OneKey(Owners(mmu, task, t))
  BY <1>1, OwnersOneKey
<1> QED BY <1>1, <1>2, <1>3 DEF MemInv, Memory

LEMMA TranslationIs ==
  ASSUME MmuInv, MemInv, NEW t \in Program, current_p = t, DOMAIN task = Task,
         NEW v \in UserPagesSeen, NEW r \in Translations(v)
  PROVE  /\ v \in UserPage
         /\ r.fault = 0 <=> HasTable(mmu, Directory, v)
         /\ HasTable(mmu, Directory, v) =>
              /\ r = Reach(Page(mmu, Directory, v)) /\ r.frame = Page(mmu, Directory, v)
              /\ r.frame \in AnyFrame
              /\ <<User(v), r.frame>> \in Owners(mmu, task, t)
         /\ ~HasTable(mmu, Directory, v) => r.frame = LowPage
<1>1. /\ TablesOK(mmu) /\ Directory \in DOMAIN mmu.l1 /\ unsynced = {}
      /\ Directory = task[t].ttb_base
      /\ v \in DOMAIN tlb => HasTable(mmu, Directory, v) /\ tlb[v] = Page(mmu, Directory, v)
  BY Runner DEF Program, Task
<1>2. v \in UserPage
  BY SeenAreUser
<1>3. /\ HasTable(mmu, Directory, v) => Walk(Directory, v) = Reach(Page(mmu, Directory, v))
      /\ ~HasTable(mmu, Directory, v) =>
           Walk(Directory, v).fault # 0 /\ Walk(Directory, v).frame = LowPage
  BY <1>1, <1>2, WalkIs
<1>4. r = Walk(Directory, v)
  <2>1. CASE v \in DOMAIN tlb
    BY <1>1, <1>3, <2>1 DEF Translations
  <2>2. CASE v \notin DOMAIN tlb
    BY <1>1, <2>2 DEF Translations
  <2> QED BY <2>1, <2>2
<1>5. CASE HasTable(mmu, Directory, v)
  <2>1. r = Reach(Page(mmu, Directory, v))
    BY <1>3, <1>4, <1>5
  <2>2. r.fault = 0 /\ r.frame = Page(mmu, Directory, v)
    BY <2>1 DEF Reach
  <2>3. r.frame \in AnyFrame
    BY <1>1, <1>2, <1>5, <2>2, PageTyped
  <2>4. <<User(v), Page(mmu, Directory, v)>> \in Owners(mmu, task, t)
    BY <1>1, <1>5 DEF Owners
  <2> QED BY <1>2, <1>5, <2>1, <2>2, <2>3, <2>4
<1>6. CASE ~HasTable(mmu, Directory, v)
  BY <1>2, <1>3, <1>4, <1>6
<1> QED BY <1>5, <1>6

LEMMA BecomesLines ==
  ASSUME NEW ram, NEW O, Lines(ram, O), Becomes(ram)
  PROVE  Lines(Ram', O)
<1>1. IsRam(Ram') /\ Ram'.phys = ram.phys /\ Ram'.cache = ram.cache
  BY DEF Becomes, Ram, IsRam
<1> HIDE DEF Ram
<1> QED BY <1>1, LinesOfFields

TlbIs(s, d, t) ==
  \A v \in DOMAIN t : v \in UserPagesSeen /\ HasTable(s, d, v) /\ t[v] = Page(s, d, v)

LEMMA TlbOf ==
  ASSUME NEW s, NEW d, NEW t, TlbIs(s, d, t),
         NEW v \in UserPagesSeen, HasTable(s, d, v), NEW f, f = Page(s, d, v)
  PROVE  TlbIs(s, d, With(t, v, f))
  BY DEF TlbIs, With

LEMMA TlbWithout ==
  ASSUME NEW s, NEW d, NEW t, TlbIs(s, d, t), NEW v
  PROVE  TlbIs(s, d, [p \in DOMAIN t \ {v} |-> t[p]])
  BY DEF TlbIs

LEMMA SameOwners ==
  ASSUME NEW s, NEW r, r.l1 = s.l1, r.pte = s.pte, NEW k, NEW p
  PROVE  Owners(r, k, p) = Owners(s, k, p)
<1>1. \A d, v : Page(r, d, v) = Page(s, d, v) /\ (HasTable(r, d, v) <=> HasTable(s, d, v))
  BY DEF Page, TableOf, HasTable
<1>2. \A d : UserPages(r, d) = UserPages(s, d)
  BY <1>1 DEF UserPages, HasTable
<1> QED BY <1>1, <1>2 DEF Owners

(***************************************************************************)
(* A step of the running task that leaves the entries of the tables alone. *)
(***************************************************************************)
Stays ==
  /\ DOMAIN task = Task
  /\ mmu'.l1 = mmu.l1 /\ mmu'.pte = mmu.pte
  /\ task' = task /\ current_p' = current_p
  /\ unsynced' = unsynced \/ unsynced' = {}
  /\ TlbIs(mmu, Directory, tlb')
  /\ Lines(Ram', Owners(mmu, task, current_p))

LEMMA MemStays == MmuInv /\ MemInv /\ Stays => MemInv'
<1> SUFFICES ASSUME MmuInv, MemInv, Stays PROVE MemInv'
  OBVIOUS
<1>1. /\ \A v : Page(mmu', task[current_p].ttb_base, v) = Page(mmu, task[current_p].ttb_base, v)
      /\ \A v : HasTable(mmu', task[current_p].ttb_base, v)
                  <=> HasTable(mmu, task[current_p].ttb_base, v)
  BY DEF Stays, Page, TableOf, HasTable
<1>2. Owners(mmu', task, current_p) = Owners(mmu, task, current_p)
  BY SameOwners DEF Stays
<1>3. current_p \in Task /\ unsynced \subseteq DOMAIN mmu.l1
      /\ (current_p \in Program => unsynced = {})
  BY DEF MemInv, Memory
<1>4. \A v \in DOMAIN tlb' : /\ v \in UserPagesSeen
                             /\ HasTable(mmu', task[current_p].ttb_base, v)
                             /\ tlb'[v] = Page(mmu', task[current_p].ttb_base, v)
  BY <1>1 DEF Stays, TlbIs, Directory
<1>5. Memory(mmu', task', current_p', Ram', tlb', unsynced')
  <2>1. Lines(Ram', Owners(mmu', task', current_p'))
    BY <1>2 DEF Stays
  <2> QED BY <1>3, <1>4, <2>1 DEF Stays, Memory
<1> QED BY <1>5 DEF MemInv

LEMMA MemLoad ==
  ASSUME MmuInv, MemInv, NEW t \in Program, NEW v \in Touched, Load(t, v)
  PROVE  MemInv'
<1>1. /\ DOMAIN task = Task /\ current_p = t /\ v \in UserPagesSeen /\ t \in Task
      /\ mmu' = mmu /\ task' = task /\ current_p' = current_p /\ unsynced' = unsynced
  BY DEF Load, Running, Started, UserPagesSeen, Task
<1>2. PICK r \in Translations(v) :
        /\ r.fault = 0
        /\ \E ram \in AfterLoad(Ram, User(v), r.frame) : Becomes(ram)
        /\ tlb' = With(tlb, v, r.frame)
  BY DEF Load
<1>3. PICK ram \in AfterLoad(Ram, User(v), r.frame) : Becomes(ram)
  BY <1>2
<1>4. /\ HasTable(mmu, Directory, v) /\ r.frame = Page(mmu, Directory, v)
      /\ r.frame \in AnyFrame /\ <<User(v), r.frame>> \in Owners(mmu, task, t)
  BY <1>1, <1>2, TranslationIs
<1>5. Lines(Ram, Owners(mmu, task, t)) /\ TlbIs(mmu, Directory, tlb)
  BY <1>1, Runner DEF TlbIs
<1>6. Lines(ram, Owners(mmu, task, t))
  BY <1>3, <1>4, <1>5, AfterLoadLines
<1>7. Lines(Ram', Owners(mmu, task, t))
  BY <1>3, <1>6, BecomesLines
<1>8. TlbIs(mmu, Directory, tlb')
  BY <1>1, <1>2, <1>4, <1>5, TlbOf
<1> QED BY <1>1, <1>7, <1>8, MemStays DEF Stays

LEMMA MemStore ==
  ASSUME MmuInv, MemInv, NEW t \in Program, NEW v \in Touched, NEW x \in Val, Store(t, v, x)
  PROVE  MemInv'
<1>1. /\ DOMAIN task = Task /\ current_p = t /\ v \in UserPagesSeen /\ t \in Task
      /\ mmu' = mmu /\ task' = task /\ current_p' = current_p /\ unsynced' = unsynced
  BY DEF Store, Running, Started, UserPagesSeen, Task
<1>2. PICK r \in Translations(v) :
        /\ r.fault = 0
        /\ \E ram \in AfterStore(Ram, User(v), r.frame, x) : Becomes(ram)
        /\ tlb' = With(tlb, v, r.frame)
  BY DEF Store
<1>3. PICK ram \in AfterStore(Ram, User(v), r.frame, x) : Becomes(ram)
  BY <1>2
<1>4. /\ HasTable(mmu, Directory, v) /\ r.frame = Page(mmu, Directory, v)
      /\ r.frame \in AnyFrame /\ <<User(v), r.frame>> \in Owners(mmu, task, t)
  BY <1>1, <1>2, TranslationIs
<1>5. /\ Lines(Ram, Owners(mmu, task, t)) /\ TlbIs(mmu, Directory, tlb)
      /\ OneKey(Owners(mmu, task, t))
  BY <1>1, Runner DEF TlbIs
<1>6. Lines(ram, Owners(mmu, task, t))
  BY <1>3, <1>4, <1>5, AfterStoreLines
<1>7. Lines(Ram', Owners(mmu, task, t))
  BY <1>3, <1>6, BecomesLines
<1>8. TlbIs(mmu, Directory, tlb')
  BY <1>1, <1>2, <1>4, <1>5, TlbOf
<1> QED BY <1>1, <1>7, <1>8, MemStays DEF Stays

(***************************************************************************)
(* The state of the memory in an instant in which nothing is cached.       *)
(***************************************************************************)
LEMMA NothingCached ==
  ASSUME NEW s, NEW k, DOMAIN k = Task, NEW p \in Task, NEW ram, IsRam(ram),
         ram.phys \in [AnyFrame -> Val], DOMAIN ram.cache = {}, NEW t, TlbIs(s, k[p].ttb_base, t)
  PROVE  Memory(s, k, p, ram, t, {})
<1>1. Lines(ram, Owners(s, k, p))
  BY EmptyLines
<1> QED BY <1>1 DEF Memory, TlbIs

LEMMA SyncedRam ==
  ASSUME NEW ram, NEW O, Lines(ram, O), NEW r \in AfterSync(ram), Becomes(r)
  PROVE  IsRam(Ram') /\ Ram'.phys \in [AnyFrame -> Val] /\ DOMAIN Ram'.cache = {}
<1>1. r.phys \in [AnyFrame -> Val] /\ DOMAIN r.cache = {}
  BY AfterSyncLines
<1> QED BY <1>1 DEF Becomes, Ram, IsRam

LEMMA MemSwitch ==
  ASSUME MmuInv, MemInv, NEW t \in Task, Switch(t)
  PROVE  MemInv'
<1>1. DOMAIN task = Task /\ current_p \in Task
  BY DEF Switch, Started, MemInv, Memory
<1>2. /\ mmu' = mmu /\ task' = task /\ current_p' = t /\ tlb' = <<>> /\ unsynced' = {}
  BY DEF Switch, KeptTlb
<1>3. PICK ram \in AfterSync(Ram) : Becomes(ram)
  BY DEF Switch, SyncAtSwitch
<1>4. Lines(Ram, Owners(mmu, task, current_p))
  BY DEF MemInv, Memory
<1>5. IsRam(Ram') /\ Ram'.phys \in [AnyFrame -> Val] /\ DOMAIN Ram'.cache = {}
  BY <1>3, <1>4, SyncedRam
<1>6. TlbIs(mmu, task[t].ttb_base, <<>>)
  <2>1. DOMAIN <<>> = {}
    OBVIOUS
  <2> QED BY <2>1 DEF TlbIs
<1>7. Memory(mmu, task, t, Ram', <<>>, {})
  BY <1>1, <1>5, <1>6, NothingCached
<1> QED BY <1>2, <1>7 DEF MemInv

LEMMA MemCall ==
  ASSUME MmuInv, MemInv, NEW t \in Program, NEW u \in Task, Call(t, u)
  PROVE  MemInv'
<1> DEFINE d == task[u].ttb_base
<1> DEFINE f == Walk(d, MsgPage).frame
<1>1. /\ DOMAIN task = Task /\ current_p = t /\ t \in Task /\ MsgPage \in UserPagesSeen
      /\ mmu' = mmu /\ task' = task /\ current_p' = u /\ unsynced' = {}
      /\ tlb' = With(<<>>, MsgPage, f)
  BY DEF Call, Running, Started, UserPagesSeen, Task
<1>2. /\ Walk(d, MsgPage).fault = 0
      /\ \E ram \in AfterSync(Ram) :
           \E after \in AfterStore(ram, User(MsgPage), f, Result) : Becomes(after)
  BY DEF Call
<1>3. PICK ram \in AfterSync(Ram) :
        \E after \in AfterStore(ram, User(MsgPage), f, Result) : Becomes(after)
  BY <1>2
<1>4. PICK after \in AfterStore(ram, User(MsgPage), f, Result) : Becomes(after)
  BY <1>3
<1>5. /\ Spaces(mmu, task) /\ TablesOK(mmu) /\ Lines(Ram, Owners(mmu, task, t))
  BY <1>1, Runner
<1>6. d \in DOMAIN mmu.l1 /\ u \in DOMAIN task /\ OneKey(Owners(mmu, task, u))
  BY <1>1, <1>5, OwnDirectory, OwnersOneKey
<1>7. HasTable(mmu, d, MsgPage) /\ f = Page(mmu, d, MsgPage) /\ MsgPage \in UserPage
  BY <1>1, <1>2, <1>5, <1>6, SeenAreUser, WalkIs
<1>8. f \in AnyFrame
  BY <1>5, <1>6, <1>7, PageTyped
<1>9. <<User(MsgPage), f>> \in Owners(mmu, task, u)
  BY <1>1, <1>7 DEF Owners
<1> HIDE DEF f
<1>10. Lines(ram, Owners(mmu, task, u))
  BY <1>5, AfterSyncLines
<1>11. Result \in Val
  BY LayoutAssumption DEF Result
<1>12. Lines(after, Owners(mmu, task, u))
  BY <1>4, <1>6, <1>8, <1>9, <1>10, <1>11, AfterStoreLines
<1>13. Lines(Ram', Owners(mmu, task, u))
  BY <1>4, <1>12, BecomesLines
<1>14. TlbIs(mmu, d, With(<<>>, MsgPage, f))
  <2>1. TlbIs(mmu, d, <<>>)
    <3>1. DOMAIN <<>> = {}
      OBVIOUS
    <3> QED BY <3>1 DEF TlbIs
  <2> QED BY <1>1, <1>7, <2>1, TlbOf
<1>15. Memory(mmu, task, u, Ram', tlb', {})
  BY <1>1, <1>13, <1>14 DEF Memory, TlbIs
<1> QED BY <1>1, <1>15 DEF MemInv

LEMMA MappedIs ==
  ASSUME TablesOK(mmu), NEW d \in DOMAIN mmu.l1, NEW v \in UserPage
  PROVE  Mapped(d, v) <=> HasTable(mmu, d, v) /\ Page(mmu, d, v) # LowPage
<1> DEFINE e == mmu.l1[d][v \div PPM]
<1>1. v \div PPM \in Mega \ KernelMega
  BY UserMega
<1>2. e \in Entries(mmu) /\ e.kind # "section"
  BY <1>1 DEF TablesOK, TablesTyped, NoUserSections
<1>3. NoEntry.kind = "none" /\ FaultEntry.kind = "fault"
  BY DEF NoEntry, FaultEntry
<1>4. Mapped(d, v) <=> ~Empty(e) /\ Page(mmu, d, v) # LowPage
  BY DEF Mapped
<1>5. HasTable(mmu, d, v) <=> IsTable(e)
  BY DEF HasTable
<1> HIDE DEF e
<1>6. ~Empty(e) <=> IsTable(e)
  BY <1>2, <1>3 DEF Empty, IsTable, Entries
<1> QED BY <1>4, <1>5, <1>6

LEMMA MemPhysrw ==
  ASSUME MmuInv, MemInv, NEW t \in Program, NEW u \in Program, NEW read \in BOOLEAN,
         NEW a \in Touched, NEW b \in Touched, physrw(t, u, read, a, b)
  PROVE  MemInv'
<1> DEFINE d == task[u].ttb_base
<1> DEFINE f == Page(mmu, d, b)
<1> DEFINE O == Owners(mmu, task, t)
<1>1. /\ DOMAIN task = Task /\ current_p = t /\ a \in UserPagesSeen /\ b \in UserPagesSeen
      /\ t \in Task /\ u \in Task /\ u \in Task \ {t, Idle} /\ Mapped(d, b)
      /\ task' = task /\ current_p' = current_p /\ unsynced' = unsynced
  BY DEF physrw, Running, Started, UserPagesSeen, Task, Program, Idle
<1>2. /\ Spaces(mmu, task) /\ TablesOK(mmu) /\ Lines(Ram, O) /\ OneKey(O)
      /\ TlbIs(mmu, Directory, tlb)
  BY <1>1, Runner DEF TlbIs
<1>3. d \in DOMAIN mmu.l1 /\ b \in UserPage
  BY <1>1, <1>2, OwnDirectory, SeenAreUser
<1>4. HasTable(mmu, d, b) /\ f # LowPage /\ f \in AnyFrame
  BY <1>1, <1>2, <1>3, MappedIs, PageTyped
<1>5. <<Kernel(f), f>> \in O
  <2>1. b \in UserPages(mmu, d)
    BY <1>3, <1>4 DEF UserPages, HasTable
  <2> QED BY <1>1, <2>1 DEF Owners
<1>6. PICK r \in Translations(a) :
       IF r.fault # 0
       THEN mmu' = Stop(mmu) /\ UNCHANGED <<phys, cache, tlb>>
       ELSE
       /\ LET from == IF read THEN Kernel(f) ELSE User(a)
              to   == IF read THEN User(a) ELSE Kernel(f)
              src  == IF read THEN f ELSE r.frame
              dst  == IF read THEN r.frame ELSE f
          IN  \E loaded \in AfterLoad(Ram, from, src) :
                \E ram \in AfterStore(loaded, to, dst, Peek(Ram, from, src)) :
                  Becomes(ram)
       /\ tlb' = With(tlb, a, r.frame)
       /\ UNCHANGED mmu
  BY DEF physrw
<1> HIDE DEF d, f, O
<1>7. CASE r.fault # 0
  <2>1. mmu'.l1 = mmu.l1 /\ mmu'.pte = mmu.pte /\ tlb' = tlb /\ phys' = phys /\ cache' = cache
    BY <1>2, <1>6, <1>7, StopKeepsTables
  <2>2. Becomes(Ram)
    BY <2>1 DEF Becomes, Ram
  <2>3. Lines(Ram', O)
    BY <1>2, <2>2, BecomesLines
  <2> QED BY <1>1, <1>2, <2>1, <2>3, MemStays DEF Stays, O
<1>8. CASE r.fault = 0
  <2> DEFINE from == IF read THEN Kernel(f) ELSE User(a)
  <2> DEFINE to   == IF read THEN User(a) ELSE Kernel(f)
  <2> DEFINE src  == IF read THEN f ELSE r.frame
  <2> DEFINE dst  == IF read THEN r.frame ELSE f
  <2>1. /\ \E loaded \in AfterLoad(Ram, from, src) :
             \E ram \in AfterStore(loaded, to, dst, Peek(Ram, from, src)) : Becomes(ram)
        /\ tlb' = With(tlb, a, r.frame) /\ mmu' = mmu
    BY <1>6, <1>8
  <2>2. /\ HasTable(mmu, Directory, a) /\ r.frame = Page(mmu, Directory, a)
        /\ r.frame \in AnyFrame /\ <<User(a), r.frame>> \in O
    BY <1>1, <1>8, TranslationIs DEF O
  <2>3. src \in AnyFrame /\ dst \in AnyFrame /\ <<from, src>> \in O /\ <<to, dst>> \in O
    BY <1>4, <1>5, <2>2
  <2> HIDE DEF from, to, src, dst
  <2>4. PICK loaded \in AfterLoad(Ram, from, src) :
             \E ram \in AfterStore(loaded, to, dst, Peek(Ram, from, src)) : Becomes(ram)
    BY <2>1
  <2>5. PICK ram \in AfterStore(loaded, to, dst, Peek(Ram, from, src)) : Becomes(ram)
    BY <2>4
  <2>6. Peek(Ram, from, src) \in Val
    BY <1>2, <2>3, PeekTyped
  <2>7. Lines(loaded, O)
    BY <1>2, <2>3, <2>4, AfterLoadLines
  <2>8. Lines(ram, O)
    BY <1>2, <2>3, <2>5, <2>6, <2>7, AfterStoreLines
  <2>9. Lines(Ram', O)
    BY <2>5, <2>8, BecomesLines
  <2>10. TlbIs(mmu, Directory, tlb')
    BY <1>1, <1>2, <2>1, <2>2, TlbOf
  <2> QED BY <1>1, <2>1, <2>9, <2>10, MemStays DEF Stays, O
<1> QED BY <1>7, <1>8

LEMMA LineGone ==
  ASSUME NEW ram, NEW O, Lines(ram, O), OneKey(O), NEW k \in DOMAIN ram.cache,
         NEW r, IsRam(r), r.cache = [l \in DOMAIN ram.cache \ {k} |-> ram.cache[l]],
         r.phys = IF ram.cache[k].dirty
                  THEN [ram.phys EXCEPT ![ram.cache[k].frame] = ram.cache[k].val]
                  ELSE ram.phys
  PROVE  Lines(r, O)
<1>1. r.phys \in [Frame \cup {LowPage} -> Val]
  BY DEF Lines
<1>2. ASSUME NEW l \in DOMAIN ram.cache \ {k}, ~ram.cache[l].dirty,
             ram.cache[l].frame # LowPage
      PROVE  ram.cache[l].val = r.phys[ram.cache[l].frame]
  <2>1. /\ <<l, ram.cache[l].frame>> \in O /\ <<k, ram.cache[k].frame>> \in O
        /\ ram.cache[l].val = ram.phys[ram.cache[l].frame]
    BY <1>2 DEF Lines
  <2>2. ram.cache[l].frame # ram.cache[k].frame
    BY <1>2, <2>1 DEF OneKey
  <2>3. ram.cache[l].frame \in DOMAIN ram.phys
    BY DEF Lines
  <2> QED BY <2>1, <2>2, <2>3
<1> QED BY <1>1, <1>2 DEF Lines

LEMMA MemReplace ==
  ASSUME MmuInv, MemInv, Replace
  PROVE  MemInv'
<1> DEFINE O == Owners(mmu, task, current_p)
<1>1. /\ mmu' = mmu /\ task' = task /\ current_p' = current_p /\ unsynced' = unsynced
  BY DEF Replace
<1>2. DOMAIN task = Task /\ current_p \in Task
  <2>1. DOMAIN cache # {} \/ DOMAIN tlb # {}
    BY DEF Replace
  <2>2. Ram.cache = cache
    BY DEF Ram
  <2> QED BY <2>1, <2>2 DEF MemInv, Memory
<1>3. Lines(Ram, O) /\ OneKey(O) /\ TlbIs(mmu, Directory, tlb)
  BY <1>2, Runner DEF TlbIs
<1> HIDE DEF O
<1>4. ASSUME NEW k \in DOMAIN cache,
             cache' = [l \in DOMAIN cache \ {k} |-> cache[l]],
             phys' = IF cache[k].dirty THEN [phys EXCEPT ![cache[k].frame] = cache[k].val]
                                       ELSE phys,
             tlb' = tlb
      PROVE  MemInv'
  <2>1. IsRam(Ram') /\ Ram'.phys = phys' /\ Ram'.cache = cache'
        /\ Ram.phys = phys /\ Ram.cache = cache
    BY DEF Ram, IsRam
  <2>2. Lines(Ram', O)
    BY <1>3, <1>4, <2>1, LineGone
  <2> QED BY <1>1, <1>2, <1>3, <1>4, <2>2, MemStays DEF Stays, O
<1>5. ASSUME NEW v \in DOMAIN tlb, tlb' = [p \in DOMAIN tlb \ {v} |-> tlb[p]],
             phys' = phys, cache' = cache
      PROVE  MemInv'
  <2>1. Becomes(Ram)
    BY <1>5 DEF Becomes, Ram
  <2>2. Lines(Ram', O)
    BY <1>3, <2>1, BecomesLines
  <2>3. TlbIs(mmu, Directory, tlb')
    BY <1>3, <1>5, TlbWithout
  <2> QED BY <1>1, <1>2, <2>2, <2>3, MemStays DEF Stays, O
<1> QED BY <1>4, <1>5 DEF Replace

(***************************************************************************)
(* A fault: the fresh page is zeroed and the cache written back.           *)
(***************************************************************************)
RamTyped(ram) ==
  /\ IsRam(ram) /\ ram.phys \in [AnyFrame -> Val]
  /\ \A k \in DOMAIN ram.cache :
       ram.cache[k] \in [frame : AnyFrame, val : Val, dirty : BOOLEAN]

LEMMA StoreTyped ==
  ASSUME NEW ram, RamTyped(ram), NEW k, NEW f \in AnyFrame, NEW x \in Val,
         NEW r \in AfterStore(ram, k, f, x)
  PROVE  RamTyped(r)
<1>1. CASE r = [ram EXCEPT !.cache = With(@, k, Line(f, x, TRUE))]
  <2>1. IsRam(r) /\ r.phys = ram.phys /\ r.cache = With(ram.cache, k, Line(f, x, TRUE))
    BY <1>1 DEF RamTyped, IsRam
  <2>2. Line(f, x, TRUE) \in [frame : AnyFrame, val : Val, dirty : BOOLEAN]
    BY LineFields DEF AnyFrame
  <2> QED BY <2>1, <2>2 DEF RamTyped, With
<1>2. CASE r # [ram EXCEPT !.cache = With(@, k, Line(f, x, TRUE))]
  <2>1. r = [ram EXCEPT !.phys[f] = x]
    BY <1>2 DEF AfterStore
  <2>2. IsRam(r) /\ r.cache = ram.cache /\ r.phys = [ram.phys EXCEPT ![f] = x]
    BY <2>1 DEF RamTyped, IsRam
  <2> QED BY <2>2 DEF RamTyped
<1> QED BY <1>1, <1>2

LEMMA SyncTyped ==
  ASSUME NEW ram, RamTyped(ram), NEW r \in AfterSync(ram)
  PROVE  IsRam(r) /\ r.phys \in [AnyFrame -> Val] /\ DOMAIN r.cache = {}
<1> DEFINE F == {ram.cache[k].frame : k \in Dirty(ram)}
<1>1. PICK w \in [F -> Val] : r = [phys |-> Over(w, ram.phys), cache |-> <<>>]
  BY DEF AfterSync
<1>2. IsRam(r) /\ r.phys = Over(w, ram.phys) /\ DOMAIN r.cache = {}
  BY <1>1 DEF IsRam
<1>3. F \subseteq AnyFrame
  BY DEF RamTyped, Dirty
<1> HIDE DEF F
<1> QED BY <1>2, <1>3 DEF RamTyped, Over

LEMMA ZeroedRam ==
  ASSUME NEW ram, NEW O, Lines(ram, O), NEW n \in Frame,
         NEW z \in AfterStore(ram, Kernel(n), n, Zero), NEW r \in AfterSync(z), Becomes(r)
  PROVE  IsRam(Ram') /\ Ram'.phys \in [AnyFrame -> Val] /\ DOMAIN Ram'.cache = {}
<1>1. RamTyped(ram) /\ n \in AnyFrame /\ Zero \in Val
  BY LayoutAssumption DEF Lines, RamTyped, AnyFrame
<1>2. RamTyped(z)
  BY <1>1, StoreTyped
<1>3. r.phys \in [AnyFrame -> Val] /\ DOMAIN r.cache = {}
  BY <1>2, SyncTyped
<1> QED BY <1>3 DEF Becomes, Ram, IsRam

LEMMA ImagePlace ==
  ASSUME NEW t
  PROVE  DOMAIN ImagePages(t) \subseteq UserPage
<1>1. USR_ENTRY \in Nat /\ {FS_IMG_SIZE, SH_IMG_SIZE} \subseteq Nat
      /\ USR_ENTRY + FS_IMG_SIZE - 1 \in UserPage /\ USR_ENTRY + SH_IMG_SIZE - 1 \in UserPage
  BY ProgramAssumption
<1>2. Image(Name(t)) \in Nat /\ USR_ENTRY + Image(Name(t)) - 1 \in UserPage
  BY <1>1 DEF Image
<1>3. DOMAIN ImagePages(t) = USR_ENTRY..(USR_ENTRY + Image(Name(t)) - 1)
  BY DEF ImagePages, Consecutive
<1> QED BY <1>1, <1>2, <1>3, BelowUser

LEMMA ImagePhys ==
  ASSUME NEW I \in SUBSET AnyFrame, NEW x \in Val, NEW h \in [AnyFrame -> Val]
  PROVE  Over([f \in I |-> x], h) \in [AnyFrame -> Val]
  BY DEF Over

LEMMA MemDataAbort ==
  ASSUME MmuInv, MemInv, NEW t \in Program, NEW v \in Touched, DataAbort(t, v)
  PROVE  MemInv'
<1> DEFINE O == Owners(mmu, task, t)
<1>1. /\ DOMAIN task = Task /\ current_p = t /\ t \in Task
      /\ task' = task /\ current_p' = current_p /\ unsynced' = {}
      /\ tlb' = [p \in DOMAIN tlb \ {v} |-> tlb[p]]
  BY DEF DataAbort, Running, Started, Task
<1>2. /\ Spaces(mmu, task) /\ TablesOK(mmu) /\ Lines(Ram, O) /\ OneKey(O)
      /\ TlbIs(mmu, Directory, tlb) /\ Directory \in DOMAIN mmu.l1
      /\ Directory = task[t].ttb_base
  BY <1>1, Runner DEF TlbIs
<1>3. TlbIs(mmu, Directory, tlb')
  BY <1>1, <1>2, TlbWithout
<1> HIDE DEF O
<1>4. CASE mmu' = Stop(mmu)
  <2>1. mmu'.l1 = mmu.l1 /\ mmu'.pte = mmu.pte /\ mmu'.halted
    BY <1>2, <1>4, StopKeepsTables
  <2>2. phys' = phys /\ cache' = cache
    BY <2>1 DEF DataAbort
  <2>3. Becomes(Ram)
    BY <2>2 DEF Becomes, Ram
  <2>4. Lines(Ram', O)
    BY <1>2, <2>3, BecomesLines
  <2> QED BY <1>1, <1>3, <2>1, <2>4, MemStays DEF Stays, O
<1>5. CASE mmu' # Stop(mmu)
  <2> DEFINE n == mmu'.next - 1
  <2>1. /\ ~mmu'.halted /\ n \in Frame
        /\ Grown(mmu, mmu', Directory, Consecutive(v, 1, n), n)
    BY <1>5, MmuDataAbort
  <2>2. \E zeroed \in AfterStore(Ram, Kernel(n), n, Zero) :
          \E ram \in SyncAfterFault(zeroed) : Becomes(ram)
    BY <2>1 DEF DataAbort
  <2> HIDE DEF n
  <2>3. PICK zeroed \in AfterStore(Ram, Kernel(n), n, Zero) :
          \E ram \in SyncAfterFault(zeroed) : Becomes(ram)
    BY <2>2
  <2>4. PICK ram \in AfterSync(zeroed) : Becomes(ram)
    BY <2>3 DEF SyncAfterFault
  <2>5. IsRam(Ram') /\ Ram'.phys \in [AnyFrame -> Val] /\ DOMAIN Ram'.cache = {}
    BY <1>2, <2>1, <2>3, <2>4, ZeroedRam
  <2>6. TlbIs(mmu', Directory, tlb')
    <3> SUFFICES ASSUME NEW p \in DOMAIN tlb'
                 PROVE  /\ p \in UserPagesSeen /\ HasTable(mmu', Directory, p)
                        /\ tlb'[p] = Page(mmu', Directory, p)
      BY DEF TlbIs
    <3>1. /\ p \in UserPagesSeen /\ p # v /\ HasTable(mmu, Directory, p)
          /\ tlb'[p] = Page(mmu, Directory, p)
      BY <1>1, <1>3 DEF TlbIs
    <3>2. p \in Nat /\ p \div PPM \in Mega
      BY <3>1, SeenAreUser, UserMega
    <3>3. mmu'.l1[Directory][p \div PPM] = mmu.l1[Directory][p \div PPM]
      <4>1. ~Empty(mmu.l1[Directory][p \div PPM])
        BY <3>1 DEF HasTable, IsTable, Empty
      <4> QED BY <1>2, <2>1, <3>2, <4>1 DEF Grown
    <3>4. p \notin DOMAIN Consecutive(v, 1, n)
      <4>1. v \in Nat
        BY SeenAreUser, UserMega DEF UserPagesSeen
      <4> QED BY <3>1, <4>1 DEF Consecutive
    <3>5. IsTable(mmu.l1[Directory][p \div PPM]) /\ IsTable(mmu'.l1[Directory][p \div PPM])
      BY <3>1, <3>3 DEF HasTable
    <3>6. Page(mmu', Directory, p) = Page(mmu, Directory, p)
      BY <1>2, <2>1, <3>2, <3>4, <3>5 DEF Grown
    <3> QED BY <3>1, <3>5, <3>6 DEF HasTable
  <2>7. Memory(mmu', task, t, Ram', tlb', {})
    BY <1>1, <1>2, <2>5, <2>6, NothingCached
  <2> QED BY <1>1, <2>7 DEF MemInv
<1> QED BY <1>4, <1>5

LEMMA ZeroedPhys ==
  ASSUME NEW f \in Frame, NEW g \in Frame, NEW h \in [AnyFrame -> Val]
  PROVE  Over(Zeroed(f, g), h) \in [AnyFrame -> Val]
<1>1. f..g \subseteq AnyFrame
  BY FramesAreNumbers DEF AnyFrame
<1>2. Zero \in Val
  BY LayoutAssumption
<1> QED BY <1>1, <1>2 DEF Over, Zeroed

LEMMA Booted ==
  ASSUME MemInv, NEW t \in Task, Boot(t)
  PROVE  /\ current_p = Idle /\ DOMAIN cache = {} /\ DOMAIN tlb = {}
         /\ phys \in [AnyFrame -> Val] /\ unsynced \subseteq DOMAIN mmu.l1
<1>1. DOMAIN task # Task
  BY DEF Boot
<1>2. Ram.cache = cache /\ Ram.phys = phys
  BY DEF Ram
<1> QED BY <1>1, <1>2 DEF MemInv, Memory, Lines, AnyFrame

LEMMA BootedMemory ==
  ASSUME MemInv, NEW t \in Task, Boot(t),
         current_p' = current_p, cache' = cache, tlb' = tlb,
         phys' \in [AnyFrame -> Val], unsynced' \subseteq DOMAIN mmu'.l1
  PROVE  MemInv'
<1>1. current_p = Idle /\ DOMAIN cache = {} /\ DOMAIN tlb = {}
  BY Booted
<1>2. IsRam(Ram') /\ Ram'.phys = phys' /\ Ram'.cache = cache'
  BY DEF Ram, IsRam
<1>3. Lines(Ram', Owners(mmu', task', current_p'))
  BY <1>1, <1>2, EmptyLines
<1>4. Idle \in Task /\ Idle \notin Program
  BY DEF Task, Program, Idle
<1>5. Memory(mmu', task', current_p', Ram', tlb', unsynced')
  BY <1>1, <1>2, <1>3, <1>4 DEF Memory
<1> QED BY <1>5 DEF MemInv

LEMMA MemInitTask ==
  ASSUME MmuInv, MemInv, InitTask
  PROVE  MemInv'
<1>1. Boot(Idle) /\ Idle \in Task
  BY DEF InitTask, Task
<1>2. mmu = Rebuilt /\ MmuInv' /\ ~mmu'.halted
  <2>1. mmu = Rebuilt
    BY DEF MmuInv, Booting, InitTask, Boot, Idle
  <2> QED BY <2>1, MmuInitTask, StartAssumption
<1>3. First(mmu, 1) \in Frame
  <2>1. mmu' = AfterInitTask(Rebuilt)
    BY <1>2 DEF InitTask
  <2> QED BY <1>2, <2>1, IdleEffect
<1>4. mmu'.next - 1 \in Frame /\ DOMAIN mmu.l1 \subseteq DOMAIN mmu'.l1
  <2>1. mmu'.next - 1 \in Frame /\ KERNEL_TTB \in DOMAIN mmu'.l1
    BY <1>2 DEF MmuInv, TablesOK, TablesTyped
  <2>2. DOMAIN mmu.l1 = {KERNEL_TTB}
    BY <1>2, RebuiltTables
  <2> QED BY <2>1, <2>2
<1>5. phys \in [AnyFrame -> Val] /\ unsynced \subseteq DOMAIN mmu.l1
  BY <1>1, Booted
<1>6. phys' = Over(Zeroed(First(mmu, 1), mmu'.next - 1), phys)
      /\ current_p' = current_p /\ cache' = cache /\ tlb' = tlb /\ unsynced' = unsynced
  BY DEF InitTask
<1>7. phys' \in [AnyFrame -> Val]
  BY <1>3, <1>4, <1>5, <1>6, ZeroedPhys
<1> QED BY <1>1, <1>4, <1>5, <1>6, <1>7, BootedMemory

LEMMA MemCreatep ==
  ASSUME MmuInv, MemInv, NEW t \in Program, createp(t)
  PROVE  MemInv'
<1> DEFINE d == NewDirectory(mmu)
<1> DEFINE image == {Page(mmu', d, v) : v \in DOMAIN ImagePages(t)}
<1>1. Boot(t) /\ t \in Task
  BY DEF createp, Task
<1>2. /\ MmuInv' /\ ~mmu'.halted /\ mmu' = Birth(mmu, t)
      /\ \A e \in DOMAIN mmu.l1 : e < mmu.next
  BY MmuCreatep, StartAssumption
<1>3. Spaces(mmu, task) /\ TablesOK(mmu) /\ t \notin DOMAIN task
  BY <1>1, SpacesInv DEF Spaces, Boot
<1>4. Fits(mmu, t, FixedFrames, AllUses(mmu, task))
  BY <1>3, UsesFit
<1>5. /\ Keeps(mmu, mmu', d) /\ First(mmu, 1) \in Frame
      /\ \A v \in DOMAIN ImagePages(t) : IsTable(mmu'.l1[d][v \div PPM])
  BY <1>2, <1>3, <1>4, BirthEffect
<1>6. /\ mmu'.next - 1 \in Frame /\ TablesOK(mmu')
      /\ DOMAIN mmu'.l1 = DOMAIN mmu.l1 \cup {d}
  BY <1>2, <1>5 DEF MmuInv, TablesOK, TablesTyped, Keeps
<1>7. phys \in [AnyFrame -> Val] /\ unsynced \subseteq DOMAIN mmu.l1
  BY <1>1, Booted
<1>8. /\ phys' = Over([f \in image |-> ImageVal],
                      Over(Zeroed(First(mmu, 1), mmu'.next - 1), phys))
      /\ unsynced' = unsynced \cup {d}
      /\ current_p' = current_p /\ cache' = cache /\ tlb' = tlb
  BY DEF createp
<1> HIDE DEF d
<1>9. image \subseteq AnyFrame
  <2>1. DOMAIN ImagePages(t) \subseteq UserPage
    BY ImagePlace
  <2>2. \A v \in DOMAIN ImagePages(t) : Page(mmu', d, v) \in AnyFrame
    BY <1>5, <1>6, <2>1, PageTyped DEF HasTable
  <2> QED BY <2>2
<1> HIDE DEF image
<1>10. Over(Zeroed(First(mmu, 1), mmu'.next - 1), phys) \in [AnyFrame -> Val]
  BY <1>5, <1>6, <1>7, ZeroedPhys
<1>11. phys' \in [AnyFrame -> Val]
  <2>1. ImageVal \in Val
    BY LayoutAssumption
  <2> QED BY <1>8, <1>9, <1>10, <2>1, ImagePhys
<1>12. unsynced' \subseteq DOMAIN mmu'.l1
  BY <1>6, <1>7, <1>8
<1> QED BY <1>1, <1>8, <1>11, <1>12, BootedMemory

LEMMA KernelLine ==
  ASSUME NEW s, NEW k, NEW p, NEW f, NEW g, <<Kernel(f), g>> \in Owners(s, k, p)
  PROVE  g = f
<1> DEFINE o == <<Kernel(f), g>>
<1>1. CASE \E v \in UserPagesSeen : /\ HasTable(s, k[p].ttb_base, v)
                                    /\ o = <<User(v), Page(s, k[p].ttb_base, v)>>
  <2>1. PICK v \in UserPagesSeen : o = <<User(v), Page(s, k[p].ttb_base, v)>>
    BY <1>1
  <2>2. Kernel(f) = User(v)
    BY <2>1
  <2> QED BY <2>2 DEF Kernel, User
<1>2. CASE \E u \in DOMAIN k \ {p, Idle} :
              \E v \in UserPages(s, k[u].ttb_base) :
                 o = <<Kernel(Page(s, k[u].ttb_base, v)), Page(s, k[u].ttb_base, v)>>
  <2>1. PICK h : o = <<Kernel(h), h>>
    BY <1>2
  <2>2. Kernel(f) = Kernel(h) /\ g = h
    BY <2>1
  <2> QED BY <2>2 DEF Kernel
<1> QED BY <1>1, <1>2, OwnersAre

LEMMA MemStart == Init => MemInv
<1> SUFFICES ASSUME Init PROVE MemInv
  OBVIOUS
<1>1. /\ task = <<>> /\ current_p = Idle /\ cache = <<>> /\ tlb = <<>> /\ unsynced = {}
      /\ phys = [f \in AnyFrame |-> ImageVal]
  BY DEF Init, AnyFrame
<1>2. DOMAIN <<>> = {} /\ Idle \in Task /\ Idle \notin Program
  BY DEF Task, Program, Idle
<1>3. ImageVal \in Val
  BY LayoutAssumption
<1>4. IsRam(Ram) /\ Ram.phys \in [AnyFrame -> Val] /\ DOMAIN Ram.cache = {}
  BY <1>1, <1>2, <1>3 DEF Ram, IsRam
<1>5. Lines(Ram, Owners(mmu, task, current_p))
  BY <1>4, EmptyLines
<1>6. Memory(mmu, task, current_p, Ram, tlb, unsynced)
  BY <1>1, <1>2, <1>4, <1>5 DEF Memory
<1> QED BY <1>6 DEF MemInv

LEMMA MemUnchanged == MemInv /\ UNCHANGED vars => MemInv'
<1> SUFFICES ASSUME MemInv, UNCHANGED vars PROVE MemInv'
  OBVIOUS
<1>1. /\ mmu' = mmu /\ task' = task /\ current_p' = current_p /\ Ram' = Ram
      /\ tlb' = tlb /\ unsynced' = unsynced
  BY DEF vars, Ram
<1>2. Memory(mmu', task', current_p', Ram', tlb', unsynced')
  BY <1>1 DEF MemInv
<1> QED BY <1>2 DEF MemInv

LEMMA MemStep == MmuInv /\ MemInv /\ [Next]_vars => MemInv'
<1> SUFFICES ASSUME MmuInv, MemInv, [Next]_vars PROVE MemInv'
  OBVIOUS
<1>1. CASE InitTask
  BY <1>1, MemInitTask
<1>2. ASSUME NEW t \in Program, createp(t) PROVE MemInv'
  BY <1>2, MemCreatep
<1>3. ASSUME NEW t \in Task, Switch(t) PROVE MemInv'
  BY <1>3, MemSwitch
<1>4. ASSUME NEW t \in Program, NEW u \in Task, Call(t, u) PROVE MemInv'
  BY <1>4, MemCall
<1>5. ASSUME NEW t \in Program, NEW v \in Touched, Load(t, v) PROVE MemInv'
  BY <1>5, MemLoad
<1>6. ASSUME NEW t \in Program, NEW v \in Touched, NEW x \in Val, Store(t, v, x) PROVE MemInv'
  BY <1>6, MemStore
<1>7. ASSUME NEW t \in Program, NEW v \in Touched, DataAbort(t, v) PROVE MemInv'
  BY <1>7, MemDataAbort
<1>8. ASSUME NEW t \in Program, NEW u \in Program, NEW read \in BOOLEAN,
             NEW a \in Touched, NEW b \in Touched, physrw(t, u, read, a, b)
      PROVE  MemInv'
  BY <1>8, MemPhysrw
<1>9. CASE Replace
  BY <1>9, MemReplace
<1>10. CASE UNCHANGED vars
  BY <1>10, MemUnchanged
<1> QED
  BY <1>1, <1>2, <1>3, <1>4, <1>5, <1>6, <1>7, <1>8, <1>9, <1>10 DEF Next

(***************************************************************************)
(* Translations and lines of the cache are those of the running program,   *)
(* or of pages that mail was copied from or to, and clean lines are what   *)
(* RAM holds: across faults, switches, copies and lines written back late. *)
(***************************************************************************)
THEOREM MemorySafe == Spec => [](MmuInv /\ MemInv)
<1>1. Init => MmuInv /\ MemInv
  BY MmuStart, MemStart
<1>2. MmuInv /\ MemInv /\ [Next]_vars => (MmuInv /\ MemInv)'
  BY MmuStep, MemStep
<1> QED BY <1>1, <1>2, PTL DEF Spec

LEMMA InvTyped == MmuInv /\ MemInv => TypeOK
<1> SUFFICES ASSUME MmuInv, MemInv PROVE TypeOK
  OBVIOUS
<1>1. TablesTyped(mmu) /\ task \in [DOMAIN task -> [pcb : Frame, ttb_base : DOMAIN mmu.l1]]
  BY DEF MmuInv, TablesOK
<1>2. mmu.l1 \in [DOMAIN mmu.l1 -> [Mega -> Entries(mmu)]]
  BY <1>1 DEF TablesTyped
<1>3. \A a \in DOMAIN mmu.pte :
        a \div 4 \in Frame /\ mmu.pte[a] \in [0..(PPM - 1) -> Frame \cup {LowPage}]
  BY <1>1 DEF TablesTyped
<1>4. /\ current_p \in Task /\ unsynced \subseteq DOMAIN mmu.l1
      /\ phys \in [Frame \cup {LowPage} -> Val]
      /\ \A k \in DOMAIN cache :
           cache[k] \in [frame : Frame \cup {LowPage}, val : Val, dirty : BOOLEAN]
  <2>1. Ram.phys = phys /\ Ram.cache = cache
    BY DEF Ram
  <2> QED BY <2>1 DEF MemInv, Memory, Lines
<1>5. ASSUME NEW v \in DOMAIN tlb PROVE tlb[v] \in Frame \cup {LowPage}
  <2>1. DOMAIN task = Task
    BY <1>5 DEF MemInv, Memory
  <2>2. /\ TablesOK(mmu) /\ Directory \in DOMAIN mmu.l1
        /\ v \in UserPagesSeen /\ HasTable(mmu, Directory, v) /\ tlb[v] = Page(mmu, Directory, v)
    BY <1>4, <2>1, Runner
  <2> QED BY <2>2, SeenAreUser, PageTyped DEF AnyFrame
<1> QED BY <1>1, <1>2, <1>3, <1>4, <1>5 DEF TypeOK, Entries

LEMMA InvHoles == MmuInv /\ MemInv => HolesReachNoFrame
<1> SUFFICES ASSUME MmuInv, MemInv, Started, current_p \in Program,
                    NEW v \in Touched, ~Mapped(Directory, v), NEW r \in Translations(v)
             PROVE  r.frame = LowPage
  BY DEF HolesReachNoFrame
<1>1. DOMAIN task = Task /\ v \in UserPagesSeen /\ current_p \in Task
  BY DEF Started, UserPagesSeen, Task
<1>2. TablesOK(mmu) /\ Directory \in DOMAIN mmu.l1 /\ v \in UserPage
  BY <1>1, Runner, SeenAreUser
<1>3. ~HasTable(mmu, Directory, v) \/ Page(mmu, Directory, v) = LowPage
  BY <1>2, MappedIs
<1> QED BY <1>1, <1>3, TranslationIs

LEMMA OwnContents ==
  ASSUME MmuInv, MemInv, current_p \in Program, DOMAIN task = Task,
         NEW v \in Touched, Mapped(Directory, v)
  PROVE  Contents(current_p, v) = Peek(Ram, User(v), Page(mmu, Directory, v))
<1> DEFINE f == Page(mmu, Directory, v)
<1> DEFINE O == Owners(mmu, task, current_p)
<1>1. v \in UserPagesSeen /\ current_p \in Task
  BY DEF UserPagesSeen, Task
<1>2. /\ TablesOK(mmu) /\ Directory \in DOMAIN mmu.l1 /\ v \in UserPage
      /\ Directory = task[current_p].ttb_base /\ current_p \in DOMAIN task
      /\ Lines(Ram, O) /\ OneKey(O)
  BY <1>1, Runner, SeenAreUser
<1>3. HasTable(mmu, Directory, v) /\ f # LowPage /\ ~Empty(mmu.l1[Directory][v \div PPM])
  BY <1>2, MappedIs DEF Mapped
<1>4. <<User(v), f>> \in O
  BY <1>1, <1>2, <1>3 DEF Owners
<1>5. Kernel(f) \notin DOMAIN cache
  <2> SUFFICES ASSUME Kernel(f) \in DOMAIN cache PROVE FALSE
    OBVIOUS
  <2>1. <<Kernel(f), Ram.cache[Kernel(f)].frame>> \in O
    BY <1>2 DEF Ram, Lines
  <2>2. Ram.cache[Kernel(f)].frame = f
    BY <2>1, KernelLine
  <2>3. Kernel(f) = User(v)
    <3>1. <<Kernel(f), f>> \in O /\ <<User(v), f>> \in O /\ f # LowPage
      BY <1>3, <1>4, <2>1, <2>2
    <3> HIDE DEF O, f
    <3> DEFINE o == <<Kernel(f), f>>
    <3> DEFINE q == <<User(v), f>>
    <3>2. o[1] = Kernel(f) /\ o[2] = f /\ q[1] = User(v) /\ q[2] = f
      OBVIOUS
    <3>3. o \in O /\ q \in O
      BY <3>1
    <3> HIDE DEF o, q
    <3> QED BY <1>2, <3>1, <3>2, <3>3 DEF OneKey
  <2> QED BY <2>3 DEF Kernel, User
<1>6. Contents(current_p, v) = IF User(v) \in DOMAIN cache THEN cache[User(v)].val ELSE phys[f]
  <2>1. Kernel(f) \notin Dirty(Ram)
    BY <1>5 DEF Dirty, Ram
  <2>2. {User(v)} \cap DOMAIN cache # {} <=> User(v) \in DOMAIN cache
    OBVIOUS
  <2> QED BY <1>2, <1>3, <2>1, <2>2 DEF Contents
<1>7. Peek(Ram, User(v), f) = IF User(v) \in DOMAIN cache THEN cache[User(v)].val ELSE phys[f]
  BY DEF Peek, Ram
<1> QED BY <1>6, <1>7

LEMMA InvLoads == MmuInv /\ MemInv => LoadsSeeMemory
<1> SUFFICES ASSUME MmuInv, MemInv, Started, current_p \in Program,
                    NEW v \in Touched, Mapped(Directory, v), NEW r \in Translations(v)
             PROVE  /\ r = Reach(Page(mmu, Directory, v))
                    /\ Peek(Ram, User(v), r.frame) = Contents(current_p, v)
  BY DEF LoadsSeeMemory
<1>1. DOMAIN task = Task /\ v \in UserPagesSeen /\ current_p \in Task
  BY DEF Started, UserPagesSeen, Task
<1>2. TablesOK(mmu) /\ Directory \in DOMAIN mmu.l1 /\ v \in UserPage
  BY <1>1, Runner, SeenAreUser
<1>3. HasTable(mmu, Directory, v)
  BY <1>2, MappedIs
<1>4. r = Reach(Page(mmu, Directory, v)) /\ r.frame = Page(mmu, Directory, v)
  BY <1>1, <1>3, TranslationIs
<1> QED BY <1>1, <1>4, OwnContents

(***************************************************************************)
(* Every table, entry, translation and line of the cache has its type: no  *)
(* entry names a table that is not there, and no page is outside of RAM.   *)
(***************************************************************************)
THEOREM VmTyped == Spec => []TypeOK
  BY MemorySafe, InvTyped, PTL

(***************************************************************************)
(* A page that the running program's tables do not map reaches no frame of *)
(* RAM, through the tables or through a translation kept in the TLB.       *)
(***************************************************************************)
THEOREM HolesSafe == Spec => []HolesReachNoFrame
  BY MemorySafe, InvHoles, PTL

(***************************************************************************)
(* The running program loads what its memory holds: the TLB and the data   *)
(* cache, which know no address space, never answer with another task's    *)
(* page or with a line that hides what was copied.                         *)
(***************************************************************************)
THEOREM LoadsSafe == Spec => []LoadsSeeMemory
  BY MemorySafe, InvLoads, PTL
-----------------------------------------------------------------------------
(***************************************************************************)
(* The refinement of Space.  Frame f holds x, in the cache or in RAM.      *)
(***************************************************************************)
Holds(ram, f, x) ==
  /\ \A k \in DOMAIN ram.cache : ram.cache[k].frame = f => ram.cache[k].val = x
  /\ (\A k \in DOMAIN ram.cache : ram.cache[k].frame = f => ~ram.cache[k].dirty)
       => ram.phys[f] = x

OneFrame(O) == \A o, q \in O : o[1] = q[1] => o[2] = q[2]

LEMMA FramesAreRam == \A f \in Frame : f \in AnyFrame /\ f # LowPage
  BY FramesAreNumbers DEF AnyFrame

LEMMA LineOwners ==
  ASSUME NEW ram, NEW O, Lines(ram, O), OneKey(O), NEW k, NEW f \in Frame, <<k, f>> \in O
  PROVE  \A l \in DOMAIN ram.cache : ram.cache[l].frame = f => l = k
<1> SUFFICES ASSUME NEW l \in DOMAIN ram.cache, ram.cache[l].frame = f PROVE l = k
  OBVIOUS
<1> DEFINE o == <<l, f>>
<1> DEFINE q == <<k, f>>
<1>1. o \in O /\ q \in O /\ f # LowPage
  BY FramesAreRam DEF Lines
<1>2. o[1] = l /\ o[2] = f /\ q[1] = k /\ q[2] = f
  OBVIOUS
<1> HIDE DEF o, q
<1> QED BY <1>1, <1>2 DEF OneKey

LEMMA OneLine ==
  ASSUME NEW ram, NEW O, Lines(ram, O), OneKey(O), NEW f \in Frame,
         NEW k \in DOMAIN ram.cache, ram.cache[k].frame = f,
         NEW l \in DOMAIN ram.cache, ram.cache[l].frame = f
  PROVE  k = l
<1>1. <<k, f>> \in O
  BY DEF Lines
<1> QED BY <1>1, LineOwners

LEMMA OwnFrame ==
  ASSUME NEW ram, NEW O, Lines(ram, O), OneFrame(O), NEW k \in DOMAIN ram.cache,
         NEW f, <<k, f>> \in O
  PROVE  ram.cache[k].frame = f
<1> DEFINE o == <<k, ram.cache[k].frame>>
<1> DEFINE q == <<k, f>>
<1>1. o \in O /\ q \in O
  BY DEF Lines
<1>2. o[1] = k /\ o[2] = ram.cache[k].frame /\ q[1] = k /\ q[2] = f
  OBVIOUS
<1> HIDE DEF o, q
<1> QED BY <1>1, <1>2 DEF OneFrame

LEMMA HoldsSome ==
  ASSUME NEW ram, NEW O, Lines(ram, O), OneKey(O), NEW f \in Frame
  PROVE  \E x \in Val : Holds(ram, f, x)
<1>1. CASE \E k \in DOMAIN ram.cache : ram.cache[k].frame = f
  <2>1. PICK k \in DOMAIN ram.cache : ram.cache[k].frame = f
    BY <1>1
  <2>2. \A l \in DOMAIN ram.cache : ram.cache[l].frame = f => l = k
    BY <2>1, OneLine
  <2>3. ram.cache[k].val \in Val /\ (~ram.cache[k].dirty => ram.phys[f] = ram.cache[k].val)
    BY <2>1, FramesAreRam DEF Lines
  <2>4. Holds(ram, f, ram.cache[k].val)
    BY <2>1, <2>2, <2>3 DEF Holds
  <2> QED BY <2>3, <2>4
<1>2. CASE ~\E k \in DOMAIN ram.cache : ram.cache[k].frame = f
  <2>1. ram.phys[f] \in Val
    BY DEF Lines
  <2>2. Holds(ram, f, ram.phys[f])
    BY <1>2 DEF Holds
  <2> QED BY <2>1, <2>2
<1> QED BY <1>1, <1>2

LEMMA HoldsOne ==
  ASSUME NEW ram, NEW f, NEW x, NEW y, Holds(ram, f, x), Holds(ram, f, y)
  PROVE  x = y
<1>1. CASE \E k \in DOMAIN ram.cache : ram.cache[k].frame = f
  BY <1>1 DEF Holds
<1>2. CASE ~\E k \in DOMAIN ram.cache : ram.cache[k].frame = f
  BY <1>2 DEF Holds
<1> QED BY <1>1, <1>2

LEMMA PeekHolds ==
  ASSUME NEW ram, NEW O, Lines(ram, O), OneKey(O), OneFrame(O),
         NEW k, NEW f \in Frame, <<k, f>> \in O, NEW x, Holds(ram, f, x)
  PROVE  Peek(ram, k, f) = x
<1>1. \A l \in DOMAIN ram.cache : ram.cache[l].frame = f => l = k
  BY LineOwners
<1>2. CASE k \in DOMAIN ram.cache
  <2>1. ram.cache[k].frame = f
    BY <1>2, OwnFrame
  <2> QED BY <1>2, <2>1 DEF Peek, Holds
<1>3. CASE k \notin DOMAIN ram.cache
  BY <1>1, <1>3 DEF Peek, Holds
<1> QED BY <1>2, <1>3

LEMMA LoadHolds ==
  ASSUME NEW ram, NEW O, Lines(ram, O), OneKey(O), NEW k, NEW g \in AnyFrame, <<k, g>> \in O,
         NEW r \in AfterLoad(ram, k, g), NEW f \in Frame, NEW x, Holds(ram, f, x)
  PROVE  Holds(r, f, x)
<1>1. CASE r = ram
  BY <1>1
<1>2. CASE r # ram
  <2>1. k \notin DOMAIN ram.cache
        /\ r = [ram EXCEPT !.cache = With(@, k, Line(g, ram.phys[g], FALSE))]
    BY <1>2 DEF AfterLoad
  <2>2. r.phys = ram.phys /\ r.cache = With(ram.cache, k, Line(g, ram.phys[g], FALSE))
    BY <2>1 DEF Lines, IsRam
  <2>3. /\ DOMAIN r.cache = DOMAIN ram.cache \cup {k}
        /\ r.cache[k].frame = g /\ r.cache[k].val = ram.phys[g] /\ ~r.cache[k].dirty
        /\ \A l \in DOMAIN ram.cache : r.cache[l] = ram.cache[l]
    BY <2>1, <2>2 DEF With, Line
  <2>4. CASE g = f
    <3>1. \A l \in DOMAIN ram.cache : ram.cache[l].frame # f
      BY <2>1, <2>4, LineOwners
    <3>2. ram.phys[f] = x
      BY <3>1 DEF Holds
    <3> QED BY <2>2, <2>3, <2>4, <3>1, <3>2 DEF Holds
  <2>5. CASE g # f
    BY <2>2, <2>3, <2>5 DEF Holds
  <2> QED BY <2>4, <2>5
<1> QED BY <1>1, <1>2

LEMMA StoreHolds ==
  ASSUME NEW ram, NEW O, Lines(ram, O), OneKey(O), OneFrame(O),
         NEW k, NEW g \in AnyFrame, <<k, g>> \in O, NEW y,
         NEW r \in AfterStore(ram, k, g, y)
  PROVE  /\ g \in Frame => Holds(r, g, y)
         /\ \A f \in Frame, x \in Val : f # g /\ Holds(ram, f, x) => Holds(r, f, x)
<1>1. k \in DOMAIN ram.cache => ram.cache[k].frame = g
  BY OwnFrame
<1>2. g \in Frame => \A l \in DOMAIN ram.cache : ram.cache[l].frame = g => l = k
  BY LineOwners
<1>3. CASE r = [ram EXCEPT !.cache = With(@, k, Line(g, y, TRUE))]
  <2>1. r.phys = ram.phys /\ r.cache = With(ram.cache, k, Line(g, y, TRUE))
    BY <1>3 DEF Lines, IsRam
  <2>2. /\ DOMAIN r.cache = DOMAIN ram.cache \cup {k}
        /\ r.cache[k].frame = g /\ r.cache[k].val = y /\ r.cache[k].dirty
        /\ \A l \in DOMAIN ram.cache \ {k} : r.cache[l] = ram.cache[l]
    BY <2>1 DEF With, Line
  <2>3. g \in Frame => Holds(r, g, y)
    BY <1>2, <2>2 DEF Holds
  <2>4. ASSUME NEW f \in Frame, NEW x \in Val, f # g, Holds(ram, f, x) PROVE Holds(r, f, x)
    BY <1>1, <2>1, <2>2, <2>4 DEF Holds
  <2> QED BY <2>3, <2>4
<1>4. CASE r # [ram EXCEPT !.cache = With(@, k, Line(g, y, TRUE))]
  <2>1. k \notin DOMAIN ram.cache /\ r = [ram EXCEPT !.phys[g] = y]
    BY <1>4 DEF AfterStore
  <2>2. r.cache = ram.cache /\ r.phys = [ram.phys EXCEPT ![g] = y]
        /\ DOMAIN ram.phys = AnyFrame
    BY <2>1 DEF Lines, IsRam, AnyFrame
  <2>3. g \in Frame => Holds(r, g, y)
    BY <1>2, <2>1, <2>2 DEF Holds
  <2>4. ASSUME NEW f \in Frame, NEW x \in Val, f # g, Holds(ram, f, x) PROVE Holds(r, f, x)
    BY <2>2, <2>4 DEF Holds
  <2> QED BY <2>3, <2>4
<1> QED BY <1>3, <1>4

LEMMA SyncHolds ==
  ASSUME NEW ram, NEW O, Lines(ram, O), NEW r \in AfterSync(ram),
         NEW f \in Frame, NEW x, Holds(ram, f, x)
  PROVE  Holds(r, f, x)
<1> DEFINE F == {ram.cache[k].frame : k \in Dirty(ram)}
<1>1. PICK w \in [F -> Val] :
        /\ r = [phys |-> Over(w, ram.phys), cache |-> <<>>]
        /\ \A g \in F : \E k \in Dirty(ram) : ram.cache[k].frame = g /\ ram.cache[k].val = w[g]
  BY DEF AfterSync
<1>2. r.phys = Over(w, ram.phys) /\ DOMAIN r.cache = {}
  BY <1>1
<1>3. f \in DOMAIN ram.phys
  BY DEF Lines
<1>4. CASE f \in F
  <2>1. PICK k \in Dirty(ram) : ram.cache[k].frame = f /\ ram.cache[k].val = w[f]
    BY <1>1, <1>4
  <2>2. w[f] = x
    BY <2>1 DEF Holds, Dirty
  <2>3. r.phys[f] = w[f]
    BY <1>2, <1>4 DEF Over
  <2> QED BY <1>2, <2>2, <2>3 DEF Holds
<1>5. CASE f \notin F
  <2>1. \A k \in DOMAIN ram.cache : ram.cache[k].frame = f => ~ram.cache[k].dirty
    BY <1>5 DEF Dirty
  <2>2. r.phys[f] = ram.phys[f]
    BY <1>2, <1>3, <1>5 DEF Over
  <2> QED BY <1>2, <2>1, <2>2 DEF Holds
<1> QED BY <1>4, <1>5

LEMMA GoneHolds ==
  ASSUME NEW ram, NEW O, Lines(ram, O), OneKey(O), NEW k \in DOMAIN ram.cache,
         NEW r, r.cache = [l \in DOMAIN ram.cache \ {k} |-> ram.cache[l]],
         r.phys = IF ram.cache[k].dirty
                  THEN [ram.phys EXCEPT ![ram.cache[k].frame] = ram.cache[k].val]
                  ELSE ram.phys,
         NEW f \in Frame, NEW x, Holds(ram, f, x)
  PROVE  Holds(r, f, x)
<1>1. f \in DOMAIN ram.phys
  BY DEF Lines
<1>2. CASE ram.cache[k].frame = f
  <2>1. \A l \in DOMAIN r.cache : r.cache[l].frame # f
    BY <1>2, OneLine
  <2>2. \A l \in DOMAIN ram.cache : ram.cache[l].frame = f => l = k
    BY <1>2, OneLine
  <2>3. r.phys[f] = x
    BY <1>1, <1>2, <2>2 DEF Holds
  <2> QED BY <2>1, <2>3 DEF Holds
<1>3. CASE ram.cache[k].frame # f
  <2>1. r.phys[f] = ram.phys[f]
    BY <1>1, <1>3
  <2> QED BY <1>3, <2>1 DEF Holds
<1> QED BY <1>2, <1>3
-----------------------------------------------------------------------------
(***************************************************************************)
(* What page v of program t holds, of tables s, tasks k and RAM.           *)
(***************************************************************************)
At(s, k, t, v) == Page(s, k[t].ttb_base, v)

There(s, k, t, v) == t \in DOMAIN k /\ HasTable(s, k[t].ttb_base, v)

Shows(s, k, ram, t, v, x) ==
  /\ ~There(s, k, t, v) => x = Fresh
  /\ There(s, k, t, v) /\ At(s, k, t, v) = LowPage => x = Hole
  /\ There(s, k, t, v) /\ At(s, k, t, v) # LowPage =>
       x \in Val /\ Holds(ram, At(s, k, t, v), x)

LEMMA ShowsOne ==
  ASSUME NEW s, NEW k, NEW ram, NEW t, NEW v, NEW x, NEW y,
         Shows(s, k, ram, t, v, x), Shows(s, k, ram, t, v, y)
  PROVE  x = y
  BY HoldsOne DEF Shows

LEMMA OwnersOneFrame == ASSUME NEW s, NEW k, NEW p PROVE OneFrame(Owners(s, k, p))
<1> DEFINE O == Owners(s, k, p)
<1> SUFFICES ASSUME NEW o \in O, NEW q \in O, o[1] = q[1] PROVE o[2] = q[2]
  BY DEF OneFrame
<1> DEFINE Mine(w) == \E v \in UserPagesSeen : w = <<User(v), Page(s, k[p].ttb_base, v)>>
<1> DEFINE Other(w) == \E f : w = <<Kernel(f), f>>
<1>1. \A w \in O : Mine(w) \/ Other(w)
  <2> TAKE w \in O
  <2>1. CASE \E v \in UserPagesSeen : /\ HasTable(s, k[p].ttb_base, v)
                                      /\ w = <<User(v), Page(s, k[p].ttb_base, v)>>
    BY <2>1
  <2>2. CASE \E u \in DOMAIN k \ {p, Idle} :
              \E v \in UserPages(s, k[u].ttb_base) :
                 w = <<Kernel(Page(s, k[u].ttb_base, v)), Page(s, k[u].ttb_base, v)>>
    BY <2>2
  <2> QED BY <2>1, <2>2, OwnersAre
<1>2. CASE Mine(o) /\ Mine(q)
  <2>1. PICK v : o = <<User(v), Page(s, k[p].ttb_base, v)>>
    BY <1>2
  <2>2. PICK w : q = <<User(w), Page(s, k[p].ttb_base, w)>>
    BY <1>2
  <2>3. v = w
    BY <2>1, <2>2 DEF User
  <2> QED BY <2>1, <2>2, <2>3
<1>3. CASE Other(o) /\ Other(q)
  <2>1. PICK f : o = <<Kernel(f), f>>
    BY <1>3
  <2>2. PICK g : q = <<Kernel(g), g>>
    BY <1>3
  <2>3. f = g
    BY <2>1, <2>2 DEF Kernel
  <2> QED BY <2>1, <2>2, <2>3
<1>4. \A a, b : Mine(a) /\ Other(b) => a[1] # b[1]
  <2> TAKE a, b
  <2> HAVE Mine(a) /\ Other(b)
  <2>1. PICK v : a = <<User(v), Page(s, k[p].ttb_base, v)>>
    OBVIOUS
  <2>2. PICK g : b = <<Kernel(g), g>>
    OBVIOUS
  <2>3. a[1] = User(v) /\ b[1] = Kernel(g)
    BY <2>1, <2>2
  <2> QED BY <2>3 DEF Kernel, User
<1> HIDE DEF Mine, Other
<1> QED BY <1>1, <1>2, <1>3, <1>4

LEMMA FrameAt ==
  ASSUME NEW s, NEW k, Spaces(s, k), NEW t, NEW v \in Touched, There(s, k, t, v)
  PROVE  /\ v \in UserPage /\ v \in UserPagesSeen /\ t \in DOMAIN k
         /\ k[t].ttb_base \in DOMAIN s.l1
         /\ At(s, k, t, v) \in AnyFrame
         /\ At(s, k, t, v) # LowPage =>
              At(s, k, t, v) \in Frame /\ v \in UserPages(s, k[t].ttb_base)
<1>1. v \in UserPagesSeen /\ v \in UserPage
  BY SeenAreUser DEF UserPagesSeen
<1>2. TablesOK(s) /\ k[t].ttb_base \in DOMAIN s.l1 /\ HasTable(s, k[t].ttb_base, v)
      /\ t \in DOMAIN k
  BY OwnDirectory DEF There, Spaces
<1>3. Page(s, k[t].ttb_base, v) \in AnyFrame
  BY <1>1, <1>2, PageTyped
<1> QED BY <1>1, <1>2, <1>3 DEF At, AnyFrame, UserPages, HasTable

LEMMA SeenIs ==
  ASSUME MmuInv, MemInv, NEW t \in Program, NEW v \in Touched
  PROVE  Shows(mmu, task, Ram, t, v, Contents(t, v))
<1> DEFINE d == task[t].ttb_base
<1> DEFINE f == Page(mmu, d, v)
<1>1. Spaces(mmu, task) /\ TablesOK(mmu)
  BY SpacesInv DEF Spaces
<1>2. v \in UserPage /\ v \in UserPagesSeen
  BY SeenAreUser DEF UserPagesSeen
<1>3. t \in DOMAIN task =>
        d \in DOMAIN mmu.l1 /\ (Empty(mmu.l1[d][v \div PPM]) <=> ~HasTable(mmu, d, v))
  <2> HAVE t \in DOMAIN task
  <2>1. d \in DOMAIN mmu.l1
    BY <1>1, OwnDirectory
  <2>2. v \div PPM \in Mega \ KernelMega
    BY <1>2, UserMega
  <2>3. mmu.l1[d][v \div PPM] \in Entries(mmu) /\ mmu.l1[d][v \div PPM].kind # "section"
    BY <1>1, <2>1, <2>2 DEF TablesOK, TablesTyped, NoUserSections
  <2>4. NoEntry.kind = "none" /\ FaultEntry.kind = "fault"
    BY DEF NoEntry, FaultEntry
  <2> QED BY <2>1, <2>3, <2>4 DEF Empty, IsTable, Entries, HasTable
<1>4. CASE ~There(mmu, task, t, v)
  <2>1. Contents(t, v) = Fresh
    BY <1>3, <1>4 DEF Contents, There
  <2> QED BY <1>4, <2>1 DEF Shows
<1>5. CASE There(mmu, task, t, v) /\ f = LowPage
  <2>1. Contents(t, v) = Hole
    BY <1>3, <1>5 DEF Contents, There
  <2> QED BY <1>5, <2>1 DEF Shows, At
<1>6. CASE There(mmu, task, t, v) /\ f # LowPage
  <2>1. f \in Frame /\ t \in DOMAIN task /\ v \in UserPages(mmu, d) /\ HasTable(mmu, d, v)
    BY <1>1, <1>6, FrameAt DEF At, There
  <2>2. SUFFICES Contents(t, v) \in Val /\ Holds(Ram, f, Contents(t, v))
    BY <1>6, <2>2 DEF Shows, At
  <2>3. CASE DOMAIN task # Task
    <3>1. DOMAIN cache = {} /\ phys \in [AnyFrame -> Val] /\ DOMAIN Ram.cache = {}
          /\ Ram.phys = phys
      BY <2>3 DEF MemInv, Memory, Lines, Ram, AnyFrame
    <3>2. Contents(t, v) = phys[f]
      BY <1>3, <1>6, <2>1, <3>1 DEF Contents, Dirty, Ram
    <3>3. phys[f] \in Val
      BY <2>1, <3>1, FramesAreRam
    <3> QED BY <3>1, <3>2, <3>3 DEF Holds
  <2>4. CASE DOMAIN task = Task
    <3> DEFINE O == Owners(mmu, task, current_p)
    <3>1. current_p \in Task
      BY DEF MemInv, Memory
    <3>2. Lines(Ram, O) /\ OneKey(O) /\ OneFrame(O) /\ Directory = task[current_p].ttb_base
      BY <2>4, <3>1, Runner, OwnersOneFrame
    <3> HIDE DEF O
    <3>3. PICK x \in Val : Holds(Ram, f, x)
      BY <2>1, <3>2, HoldsSome
    <3>4. SUFFICES Contents(t, v) = x
      BY <3>3, <3>4
    <3>5. CASE t = current_p
      <4>1. <<User(v), f>> \in O
        BY <1>2, <2>1, <3>5 DEF O, Owners
      <4>2. Peek(Ram, User(v), f) = x
        BY <2>1, <3>2, <3>3, <4>1, PeekHolds
      <4>3. Directory = d /\ d \in DOMAIN mmu.l1
        BY <1>3, <2>1, <3>2, <3>5
      <4>4. Mapped(Directory, v)
        BY <1>1, <1>2, <1>6, <2>1, <4>3, MappedIs
      <4> QED BY <2>4, <3>5, <4>2, <4>3, <4>4, OwnContents
    <3>6. CASE t # current_p
      <4>1. t \in DOMAIN task \ {current_p, Idle}
        BY <2>1, <3>6 DEF Program, Idle
      <4>2. <<Kernel(f), f>> \in O
        BY <2>1, <4>1 DEF O, Owners
      <4>3. \A l \in DOMAIN Ram.cache : Ram.cache[l].frame = f => l = Kernel(f)
        BY <2>1, <3>2, <4>2, LineOwners
      <4>4. Ram.cache = cache /\ Ram.phys = phys
        BY DEF Ram
      <4>5. Contents(t, v) = IF Kernel(f) \in Dirty(Ram) THEN cache[Kernel(f)].val ELSE phys[f]
        BY <1>3, <1>6, <2>1, <3>6 DEF Contents
      <4>6. CASE Kernel(f) \in Dirty(Ram)
        <5>1. Kernel(f) \in DOMAIN Ram.cache /\ Ram.cache[Kernel(f)].frame = f
          BY <3>2, <4>2, <4>6, OwnFrame DEF Dirty
        <5> QED BY <3>3, <4>4, <4>5, <4>6, <5>1 DEF Holds
      <4>7. CASE Kernel(f) \notin Dirty(Ram)
        <5>1. \A l \in DOMAIN Ram.cache : Ram.cache[l].frame = f => ~Ram.cache[l].dirty
          BY <4>3, <4>7 DEF Dirty
        <5> QED BY <3>3, <4>4, <4>5, <4>7, <5>1 DEF Holds
      <4> QED BY <4>6, <4>7
    <3> QED BY <3>5, <3>6
  <2> QED BY <2>3, <2>4
<1> QED BY <1>4, <1>5, <1>6

SeenAll ==
  \A t \in Program, v \in Touched : Shows(mmu, task, Ram, t, v, Contents(t, v))

LEMMA SeenAllIs == MmuInv /\ MemInv => SeenAll
  BY SeenIs DEF SeenAll

LEMMA SeenNext ==
  MmuInv' /\ MemInv' =>
    \A t \in Program, v \in Touched : Shows(mmu', task', Ram', t, v, Contents(t, v)')
<1>1. (MmuInv /\ MemInv => SeenAll)'
  BY SeenAllIs, PTL
<1> QED BY <1>1 DEF SeenAll
Mem == [t \in Program |-> [v \in Touched |-> Contents(t, v)]]

LEMMA NowIs ==
  ASSUME MmuInv', MemInv', NEW t \in Program, NEW v \in Touched, NEW x,
         Shows(mmu', task', Ram', t, v, x)
  PROVE  Contents(t, v)' = x
<1>1. Shows(mmu', task', Ram', t, v, Contents(t, v)')
  BY SeenNext
<1> QED BY <1>1, ShowsOne

LEMMA HoldsOf ==
  ASSUME NEW ram, Becomes(ram), NEW f, NEW x, Holds(ram, f, x)
  PROVE  Holds(Ram', f, x)
<1>1. Ram'.phys = ram.phys /\ Ram'.cache = ram.cache
  BY DEF Becomes, Ram
<1> QED BY <1>1 DEF Holds

(***************************************************************************)
(* A page whose entry stays and whose frame holds the same is the same.    *)
(***************************************************************************)
LEMMA StillSeen ==
  ASSUME MmuInv, MemInv, MmuInv', MemInv', NEW t \in Program, NEW v \in Touched,
         There(mmu', task', t, v) <=> There(mmu, task, t, v),
         There(mmu, task, t, v) => At(mmu', task', t, v) = At(mmu, task, t, v),
         \A f \in Frame, x \in Val :
           There(mmu, task, t, v) /\ f = At(mmu, task, t, v) /\ Holds(Ram, f, x)
             => Holds(Ram', f, x)
  PROVE  Contents(t, v)' = Contents(t, v)
<1> DEFINE x == Contents(t, v)
<1>1. Spaces(mmu, task)
  BY SpacesInv
<1>2. Shows(mmu, task, Ram, t, v, x)
  BY SeenIs
<1>3. There(mmu, task, t, v) /\ At(mmu, task, t, v) # LowPage => At(mmu, task, t, v) \in Frame
  BY <1>1, FrameAt
<1> HIDE DEF x
<1>4. Shows(mmu', task', Ram', t, v, x)
  BY <1>2, <1>3 DEF Shows
<1>5. Contents(t, v)' = x
  BY <1>4, NowIs
<1> QED BY <1>5 DEF x

LEMMA SameTables ==
  ASSUME NEW s, NEW r, r.l1 = s.l1, r.pte = s.pte, NEW k, NEW t, NEW v
  PROVE  (There(r, k, t, v) <=> There(s, k, t, v)) /\ At(r, k, t, v) = At(s, k, t, v)
  BY DEF There, At, HasTable, Page, TableOf

LEMMA MemSame ==
  ASSUME MmuInv, MemInv, MmuInv', MemInv',
         mmu'.l1 = mmu.l1, mmu'.pte = mmu.pte, task' = task,
         \A f \in Frame, x \in Val : Holds(Ram, f, x) => Holds(Ram', f, x)
  PROVE  Mem' = Mem
<1>1. ASSUME NEW t \in Program, NEW v \in Touched PROVE Contents(t, v)' = Contents(t, v)
  <2>1. (There(mmu', task', t, v) <=> There(mmu, task, t, v))
        /\ At(mmu', task', t, v) = At(mmu, task, t, v)
    BY SameTables
  <2> QED BY <2>1, StillSeen
<1> QED BY <1>1 DEF Mem

LEMMA SpaceLoad ==
  ASSUME MmuInv, MemInv, MmuInv', MemInv', NEW t \in Program, NEW v \in Touched, Load(t, v)
  PROVE  Mem' = Mem
<1>1. /\ DOMAIN task = Task /\ current_p = t /\ v \in UserPagesSeen /\ t \in Task
      /\ mmu' = mmu /\ task' = task
  BY DEF Load, Running, Started, UserPagesSeen, Task
<1>2. PICK r \in Translations(v) :
        r.fault = 0 /\ \E ram \in AfterLoad(Ram, User(v), r.frame) : Becomes(ram)
  BY DEF Load
<1>3. PICK ram \in AfterLoad(Ram, User(v), r.frame) : Becomes(ram)
  BY <1>2
<1>4. r.frame \in AnyFrame /\ <<User(v), r.frame>> \in Owners(mmu, task, t)
  BY <1>1, <1>2, TranslationIs
<1>5. Lines(Ram, Owners(mmu, task, t)) /\ OneKey(Owners(mmu, task, t))
  BY <1>1, Runner
<1>6. ASSUME NEW f \in Frame, NEW x \in Val, Holds(Ram, f, x) PROVE Holds(Ram', f, x)
  <2>1. Holds(ram, f, x)
    BY <1>3, <1>4, <1>5, <1>6, LoadHolds
  <2> QED BY <1>3, <2>1, HoldsOf
<1> QED BY <1>1, <1>6, MemSame

LEMMA SpaceSwitch ==
  ASSUME MmuInv, MemInv, MmuInv', MemInv', NEW t \in Task, Switch(t)
  PROVE  Mem' = Mem
<1>1. mmu' = mmu /\ task' = task
  BY DEF Switch
<1>2. PICK ram \in AfterSync(Ram) : Becomes(ram)
  BY DEF Switch, SyncAtSwitch
<1>3. Lines(Ram, Owners(mmu, task, current_p))
  BY DEF MemInv, Memory
<1>4. ASSUME NEW f \in Frame, NEW x \in Val, Holds(Ram, f, x) PROVE Holds(Ram', f, x)
  <2>1. Holds(ram, f, x)
    BY <1>2, <1>3, <1>4, SyncHolds
  <2> QED BY <1>2, <2>1, HoldsOf
<1> QED BY <1>1, <1>4, MemSame

LEMMA SpaceReplace ==
  ASSUME MmuInv, MemInv, MmuInv', MemInv', Replace
  PROVE  Mem' = Mem
<1>1. mmu' = mmu /\ task' = task
  BY DEF Replace
<1>2. DOMAIN task = Task /\ current_p \in Task
  <2>1. DOMAIN cache # {} \/ DOMAIN tlb # {}
    BY DEF Replace
  <2>2. Ram.cache = cache
    BY DEF Ram
  <2> QED BY <2>1, <2>2 DEF MemInv, Memory
<1>3. Lines(Ram, Owners(mmu, task, current_p)) /\ OneKey(Owners(mmu, task, current_p))
  BY <1>2, Runner
<1>4. Ram'.phys = phys' /\ Ram'.cache = cache' /\ Ram.phys = phys /\ Ram.cache = cache
  BY DEF Ram
<1>5. ASSUME NEW f \in Frame, NEW x \in Val, Holds(Ram, f, x) PROVE Holds(Ram', f, x)
  <2>1. CASE phys' = phys /\ cache' = cache
    BY <1>4, <1>5, <2>1 DEF Holds
  <2>2. ASSUME NEW k \in DOMAIN cache,
               cache' = [l \in DOMAIN cache \ {k} |-> cache[l]],
               phys' = IF cache[k].dirty THEN [phys EXCEPT ![cache[k].frame] = cache[k].val]
                                         ELSE phys
        PROVE  Holds(Ram', f, x)
    BY <1>3, <1>4, <1>5, <2>2, GoneHolds
  <2> QED BY <2>1, <2>2 DEF Replace
<1> QED BY <1>1, <1>5, MemSame

(***************************************************************************)
(* A frame is stored to: the page that has it holds what was stored, and   *)
(* the others hold what they held.                                         *)
(***************************************************************************)
LEMMA OtherFrame ==
  ASSUME NEW s, NEW k, Spaces(s, k), NEW t \in DOMAIN k, NEW u \in DOMAIN k,
         NEW v \in UserPages(s, k[t].ttb_base), NEW w \in Touched, There(s, k, u, w),
         t # u \/ v # w
  PROVE  At(s, k, t, v) # At(s, k, u, w)
<1>1. At(s, k, t, v) # LowPage
  BY DEF UserPages, At
<1>2. At(s, k, u, w) # LowPage => w \in UserPages(s, k[u].ttb_base)
  BY FrameAt
<1> QED BY <1>1, <1>2, OnePageEach DEF At

LEMMA MemPut ==
  ASSUME NEW t \in Program, NEW v \in Touched, NEW x, Contents(t, v)' = x,
         \A u \in Program, w \in Touched : u # t \/ w # v => Contents(u, w)' = Contents(u, w)
  PROVE  Mem' = [Mem EXCEPT ![t][v] = x]
<1> DEFINE M == [Mem EXCEPT ![t] = [Mem[t] EXCEPT ![v] = x]]
<1>1. \A u \in Program : Mem[u] = [w \in Touched |-> Contents(u, w)]
  BY DEF Mem
<1>2. Mem' = [u \in Program |-> [w \in Touched |-> Contents(u, w)']]
  BY DEF Mem
<1>3. DOMAIN M = Program
      /\ \A u \in Program : M[u] = IF u = t THEN [Mem[t] EXCEPT ![v] = x] ELSE Mem[u]
  BY DEF Mem
<1>4. M = [u \in Program |-> M[u]]
  BY DEF Mem
<1>5. ASSUME NEW u \in Program PROVE M[u] = [w \in Touched |-> Contents(u, w)']
  <2>1. CASE u = t
    BY <1>1, <1>3, <2>1
  <2>2. CASE u # t
    BY <1>1, <1>3, <2>2
  <2> QED BY <2>1, <2>2
<1> HIDE DEF M
<1>6. Mem' = M
  BY <1>2, <1>4, <1>5
<1> QED BY <1>6 DEF M

LEMMA StoredAt ==
  ASSUME MmuInv, MemInv, MmuInv', MemInv',
         mmu'.l1 = mmu.l1, mmu'.pte = mmu.pte, task' = task,
         NEW t \in DOMAIN task, NEW v \in UserPages(mmu, task[t].ttb_base), NEW y \in Val,
         NEW g, g = At(mmu, task, t, v), Holds(Ram', g, y),
         \A f \in Frame, x \in Val : f # g /\ Holds(Ram, f, x) => Holds(Ram', f, x)
  PROVE  IF t \in Program /\ v \in Touched
         THEN Mem' = [Mem EXCEPT ![t][v] = y] /\ Mem[t][v] \in Val
         ELSE Mem' = Mem
<1>1. Spaces(mmu, task)
  BY SpacesInv
<1>2. ASSUME NEW u \in Program, NEW w \in Touched, u # t \/ w # v
      PROVE  Contents(u, w)' = Contents(u, w)
  <2>1. (There(mmu', task', u, w) <=> There(mmu, task, u, w))
        /\ At(mmu', task', u, w) = At(mmu, task, u, w)
    BY SameTables
  <2>2. There(mmu, task, u, w) => At(mmu, task, u, w) # g
    <3> HAVE There(mmu, task, u, w)
    <3>1. u \in DOMAIN task
      BY DEF There
    <3> QED BY <1>1, <1>2, <3>1, OtherFrame
  <2> QED BY <2>1, <2>2, StillSeen
<1>3. CASE t \in Program /\ v \in Touched
  <2>1. (There(mmu', task', t, v) <=> There(mmu, task, t, v))
        /\ At(mmu', task', t, v) = g
    BY SameTables
  <2>2. There(mmu, task, t, v) /\ g # LowPage
    BY DEF There, At, UserPages, HasTable
  <2>3. Shows(mmu', task', Ram', t, v, y)
    BY <2>1, <2>2 DEF Shows
  <2>4. Contents(t, v)' = y
    BY <1>3, <2>3, NowIs
  <2>5. Shows(mmu, task, Ram, t, v, Contents(t, v))
    BY <1>3, SeenIs
  <2>6. Contents(t, v) \in Val
    BY <2>2, <2>5 DEF Shows
  <2>7. Mem' = [Mem EXCEPT ![t][v] = y]
    BY <1>2, <1>3, <2>4, MemPut
  <2>8. Mem[t][v] = Contents(t, v)
    BY <1>3 DEF Mem
  <2> QED BY <1>3, <2>6, <2>7, <2>8
<1>4. CASE ~(t \in Program /\ v \in Touched)
  <2>1. \A u \in Program, w \in Touched : Contents(u, w)' = Contents(u, w)
    BY <1>2, <1>4
  <2> QED BY <1>4, <2>1 DEF Mem
<1> QED BY <1>3, <1>4

LEMMA StoredLow ==
  ASSUME MmuInv, MemInv, MmuInv', MemInv',
         mmu'.l1 = mmu.l1, mmu'.pte = mmu.pte, task' = task,
         \A f \in Frame, x \in Val : f # LowPage /\ Holds(Ram, f, x) => Holds(Ram', f, x)
  PROVE  Mem' = Mem
  BY MemSame, FramesAreRam

LEMMA SpaceStore ==
  ASSUME MmuInv, MemInv, MmuInv', MemInv', NEW t \in Program, NEW v \in Touched,
         NEW x \in Val, Store(t, v, x)
  PROVE  /\ current_p = t
         /\ \/ Mem' = Mem
            \/ Mem[t][v] \in Val /\ Mem' = [Mem EXCEPT ![t][v] = x]
<1>1. /\ DOMAIN task = Task /\ current_p = t /\ v \in UserPagesSeen /\ t \in Task
      /\ mmu' = mmu /\ task' = task
  BY DEF Store, Running, Started, UserPagesSeen, Task
<1>2. PICK r \in Translations(v) :
        r.fault = 0 /\ \E ram \in AfterStore(Ram, User(v), r.frame, x) : Becomes(ram)
  BY DEF Store
<1>3. PICK ram \in AfterStore(Ram, User(v), r.frame, x) : Becomes(ram)
  BY <1>2
<1>4. /\ HasTable(mmu, Directory, v) /\ r.frame = Page(mmu, Directory, v)
      /\ r.frame \in AnyFrame /\ <<User(v), r.frame>> \in Owners(mmu, task, t)
      /\ v \in UserPage
  BY <1>1, <1>2, TranslationIs
<1>5. /\ Lines(Ram, Owners(mmu, task, t)) /\ OneKey(Owners(mmu, task, t))
      /\ OneFrame(Owners(mmu, task, t)) /\ Directory = task[t].ttb_base /\ t \in DOMAIN task
  BY <1>1, Runner, OwnersOneFrame
<1>6. /\ r.frame \in Frame => Holds(ram, r.frame, x)
      /\ \A f \in Frame, y \in Val : f # r.frame /\ Holds(Ram, f, y) => Holds(ram, f, y)
  BY <1>3, <1>4, <1>5, StoreHolds
<1>7. /\ r.frame \in Frame => Holds(Ram', r.frame, x)
      /\ \A f \in Frame, y \in Val : f # r.frame /\ Holds(Ram, f, y) => Holds(Ram', f, y)
  BY <1>3, <1>6, HoldsOf
<1>8. CASE r.frame = LowPage
  BY <1>1, <1>7, <1>8, StoredLow
<1>9. CASE r.frame # LowPage
  <2>1. v \in UserPages(mmu, task[t].ttb_base) /\ r.frame = At(mmu, task, t, v)
        /\ r.frame \in Frame
    BY <1>4, <1>5, <1>9 DEF UserPages, HasTable, At, AnyFrame
  <2> QED BY <1>1, <1>5, <1>7, <2>1, StoredAt
<1> QED BY <1>1, <1>8, <1>9

LEMMA SpaceCall ==
  ASSUME MmuInv, MemInv, MmuInv', MemInv', NEW t \in Program, NEW u \in Task, Call(t, u)
  PROVE  /\ current_p = t /\ current_p' = u /\ u # t
         /\ \/ Mem' = Mem
            \/ /\ u \in Program /\ MsgPage \in Touched
               /\ Mem' = [Mem EXCEPT ![u][MsgPage] = Result]
<1> DEFINE d == task[u].ttb_base
<1> DEFINE f == Walk(d, MsgPage).frame
<1>1. /\ DOMAIN task = Task /\ current_p = t /\ t \in Task /\ MsgPage \in UserPagesSeen
      /\ mmu' = mmu /\ task' = task /\ current_p' = u /\ u # t
  BY DEF Call, Running, Started, UserPagesSeen, Task
<1>2. /\ Walk(d, MsgPage).fault = 0
      /\ \E ram \in AfterSync(Ram) :
           \E after \in AfterStore(ram, User(MsgPage), f, Result) : Becomes(after)
  BY DEF Call
<1>3. PICK ram \in AfterSync(Ram) :
        \E after \in AfterStore(ram, User(MsgPage), f, Result) : Becomes(after)
  BY <1>2
<1>4. PICK after \in AfterStore(ram, User(MsgPage), f, Result) : Becomes(after)
  BY <1>3
<1>5. /\ Spaces(mmu, task) /\ TablesOK(mmu) /\ Lines(Ram, Owners(mmu, task, t))
  BY <1>1, Runner
<1>6. d \in DOMAIN mmu.l1 /\ u \in DOMAIN task /\ OneKey(Owners(mmu, task, u))
      /\ OneFrame(Owners(mmu, task, u))
  BY <1>1, <1>5, OwnDirectory, OwnersOneKey, OwnersOneFrame
<1>7. HasTable(mmu, d, MsgPage) /\ f = Page(mmu, d, MsgPage) /\ MsgPage \in UserPage
  BY <1>1, <1>2, <1>5, <1>6, SeenAreUser, WalkIs
<1>8. f \in AnyFrame
  BY <1>5, <1>6, <1>7, PageTyped
<1>9. <<User(MsgPage), f>> \in Owners(mmu, task, u)
  BY <1>1, <1>7 DEF Owners
<1>10. f # LowPage => MsgPage \in UserPages(mmu, task[u].ttb_base) /\ f = At(mmu, task, u, MsgPage)
                      /\ f \in Frame
  BY <1>7, <1>8 DEF UserPages, HasTable, At, AnyFrame
<1> HIDE DEF f, d
<1>11. Lines(ram, Owners(mmu, task, u))
  BY <1>5, AfterSyncLines
<1>12. /\ f \in Frame => Holds(after, f, Result)
       /\ \A g \in Frame, x \in Val : g # f /\ Holds(ram, g, x) => Holds(after, g, x)
  BY <1>4, <1>6, <1>8, <1>9, <1>11, StoreHolds
<1>13. ASSUME NEW g \in Frame, NEW x \in Val, g # f, Holds(Ram, g, x) PROVE Holds(Ram', g, x)
  <2>1. Holds(ram, g, x)
    BY <1>3, <1>5, <1>13, SyncHolds
  <2> QED BY <1>4, <1>12, <1>13, <2>1, HoldsOf
<1>14. Result \in Val
  BY LayoutAssumption DEF Result
<1>15. CASE f = LowPage
  BY <1>1, <1>13, <1>15, StoredLow
<1>16. CASE f # LowPage
  <2>1. Holds(Ram', f, Result)
    BY <1>4, <1>10, <1>12, <1>16, HoldsOf
  <2> QED BY <1>1, <1>6, <1>10, <1>13, <1>14, <1>16, <2>1, StoredAt
<1> QED BY <1>1, <1>15, <1>16

LEMMA CopyHolds ==
  ASSUME NEW ram, NEW O, Lines(ram, O), OneKey(O), OneFrame(O),
         NEW from, NEW src \in AnyFrame, <<from, src>> \in O,
         NEW to, NEW dst \in AnyFrame, <<to, dst>> \in O, NEW y,
         NEW loaded \in AfterLoad(ram, from, src), NEW r \in AfterStore(loaded, to, dst, y)
  PROVE  /\ dst \in Frame => Holds(r, dst, y)
         /\ \A f \in Frame, x \in Val : f # dst /\ Holds(ram, f, x) => Holds(r, f, x)
<1>1. Lines(loaded, O)
  BY AfterLoadLines
<1>2. \A f \in Frame, x \in Val : Holds(ram, f, x) => Holds(loaded, f, x)
  BY LoadHolds
<1>3. /\ dst \in Frame => Holds(r, dst, y)
      /\ \A f \in Frame, x \in Val : f # dst /\ Holds(loaded, f, x) => Holds(r, f, x)
  BY <1>1, StoreHolds
<1> QED BY <1>2, <1>3

(***************************************************************************)
(* What the kernel or the running program reads of a page is what the page *)
(* holds.                                                                  *)
(***************************************************************************)
LEMMA PeekSeen ==
  ASSUME MmuInv, MemInv, NEW O, Lines(Ram, O), OneKey(O), OneFrame(O),
         NEW t \in Program, NEW v \in Touched, There(mmu, task, t, v),
         NEW key, NEW g, g = At(mmu, task, t, v), <<key, g>> \in O
  PROVE  Mem[t][v] \in {Peek(Ram, key, g), Hole}
<1>1. Spaces(mmu, task)
  BY SpacesInv
<1>2. Shows(mmu, task, Ram, t, v, Contents(t, v))
  BY SeenIs
<1>3. Mem[t][v] = Contents(t, v)
  BY DEF Mem
<1>4. CASE g = LowPage
  BY <1>2, <1>3, <1>4 DEF Shows
<1>5. CASE g # LowPage
  <2>1. g \in Frame /\ Holds(Ram, g, Contents(t, v))
    BY <1>1, <1>2, <1>5, FrameAt DEF Shows
  <2>2. Peek(Ram, key, g) = Contents(t, v)
    BY <2>1, PeekHolds
  <2> QED BY <1>3, <2>2
<1> QED BY <1>4, <1>5

LEMMA SpacePhysrw ==
  ASSUME MmuInv, MemInv, MmuInv', MemInv',
         NEW t \in Program, NEW u \in Program, NEW read \in BOOLEAN,
         NEW a \in Touched, NEW b \in Touched, physrw(t, u, read, a, b)
  PROVE  /\ current_p = t /\ u # t
         /\ \/ Mem' = Mem
            \/ \E x \in Val :
                 \/ /\ Mem[u][b] \in {x, Hole} /\ Mem[t][a] \in Val
                    /\ Mem' = [Mem EXCEPT ![t][a] = x]
                 \/ /\ Mem[t][a] \in {x, Hole} /\ Mem[u][b] \in Val
                    /\ Mem' = [Mem EXCEPT ![u][b] = x]
<1> DEFINE d == task[u].ttb_base
<1> DEFINE f == Page(mmu, d, b)
<1> DEFINE O == Owners(mmu, task, t)
<1>1. /\ DOMAIN task = Task /\ current_p = t /\ a \in UserPagesSeen /\ b \in UserPagesSeen
      /\ t \in Task /\ u \in Task /\ u \in Task \ {t, Idle} /\ Mapped(d, b) /\ u # t
      /\ task' = task
  BY DEF physrw, Running, Started, UserPagesSeen, Task, Program, Idle
<1>2. /\ Spaces(mmu, task) /\ TablesOK(mmu) /\ Lines(Ram, O) /\ OneKey(O) /\ OneFrame(O)
      /\ Directory = task[t].ttb_base /\ t \in DOMAIN task
  BY <1>1, Runner, OwnersOneFrame
<1>3. d \in DOMAIN mmu.l1 /\ b \in UserPage /\ u \in DOMAIN task
  BY <1>1, <1>2, OwnDirectory, SeenAreUser
<1>4. HasTable(mmu, d, b) /\ f # LowPage /\ f \in AnyFrame /\ f \in Frame
  BY <1>1, <1>2, <1>3, MappedIs, PageTyped DEF AnyFrame
<1>5. b \in UserPages(mmu, d)
  BY <1>3, <1>4 DEF UserPages, HasTable
<1>6. <<Kernel(f), f>> \in O
  BY <1>1, <1>5 DEF Owners
<1>7. f = At(mmu, task, u, b) /\ There(mmu, task, u, b)
  BY <1>3, <1>4 DEF At, There
<1>8. PICK r \in Translations(a) :
       IF r.fault # 0
       THEN mmu' = Stop(mmu) /\ UNCHANGED <<phys, cache, tlb>>
       ELSE
       /\ LET from == IF read THEN Kernel(f) ELSE User(a)
              to   == IF read THEN User(a) ELSE Kernel(f)
              src  == IF read THEN f ELSE r.frame
              dst  == IF read THEN r.frame ELSE f
          IN  \E loaded \in AfterLoad(Ram, from, src) :
                \E ram \in AfterStore(loaded, to, dst, Peek(Ram, from, src)) :
                  Becomes(ram)
       /\ tlb' = With(tlb, a, r.frame)
       /\ UNCHANGED mmu
  BY DEF physrw
<1> HIDE DEF f, O
<1>9. CASE r.fault # 0
  <2>1. mmu'.l1 = mmu.l1 /\ mmu'.pte = mmu.pte /\ phys' = phys /\ cache' = cache
    BY <1>2, <1>8, <1>9, StopKeepsTables
  <2>2. Becomes(Ram)
    BY <2>1 DEF Becomes, Ram
  <2>3. \A g \in Frame, x \in Val : Holds(Ram, g, x) => Holds(Ram', g, x)
    BY <2>2, HoldsOf
  <2> QED BY <1>1, <2>1, <2>3, MemSame
<1>10. CASE r.fault = 0
  <2>1. /\ HasTable(mmu, Directory, a) /\ r.frame = Page(mmu, Directory, a)
        /\ r.frame \in AnyFrame /\ <<User(a), r.frame>> \in O /\ a \in UserPage
    BY <1>1, <1>10, TranslationIs DEF O
  <2>2. r.frame = At(mmu, task, t, a) /\ There(mmu, task, t, a)
    BY <1>2, <2>1 DEF At, There
  <2>3. mmu' = mmu
    BY <1>8, <1>10
  <2>4. CASE read
    <3> DEFINE x == Peek(Ram, Kernel(f), f)
    <3>1. \E loaded \in AfterLoad(Ram, Kernel(f), f) :
            \E ram \in AfterStore(loaded, User(a), r.frame, x) : Becomes(ram)
      BY <1>8, <1>10, <2>4
    <3>2. x \in Val /\ Mem[u][b] \in {x, Hole}
      BY <1>2, <1>4, <1>6, <1>7, PeekTyped, PeekSeen
    <3> HIDE DEF x
    <3>3. PICK loaded \in AfterLoad(Ram, Kernel(f), f) :
            \E ram \in AfterStore(loaded, User(a), r.frame, x) : Becomes(ram)
      BY <3>1
    <3>4. PICK ram \in AfterStore(loaded, User(a), r.frame, x) : Becomes(ram)
      BY <3>3
    <3>5. /\ r.frame \in Frame => Holds(ram, r.frame, x)
          /\ \A g \in Frame, y \in Val : g # r.frame /\ Holds(Ram, g, y) => Holds(ram, g, y)
      BY <1>2, <1>4, <1>6, <2>1, <3>3, <3>4, CopyHolds
    <3>6. /\ r.frame \in Frame => Holds(Ram', r.frame, x)
          /\ \A g \in Frame, y \in Val : g # r.frame /\ Holds(Ram, g, y) => Holds(Ram', g, y)
      BY <3>4, <3>5, HoldsOf
    <3>7. CASE r.frame = LowPage
      BY <1>1, <2>3, <3>6, <3>7, StoredLow
    <3>8. CASE r.frame # LowPage
      <4>1. a \in UserPages(mmu, task[t].ttb_base) /\ r.frame \in Frame
        BY <1>2, <2>1, <3>8 DEF UserPages, HasTable, AnyFrame
      <4>2. Mem' = [Mem EXCEPT ![t][a] = x] /\ Mem[t][a] \in Val
        BY <1>1, <1>2, <2>2, <2>3, <3>2, <3>6, <4>1, StoredAt
      <4> QED BY <1>1, <3>2, <4>2
    <3> QED BY <1>1, <3>7, <3>8
  <2>5. CASE ~read
    <3> DEFINE x == Peek(Ram, User(a), r.frame)
    <3>1. \E loaded \in AfterLoad(Ram, User(a), r.frame) :
            \E ram \in AfterStore(loaded, Kernel(f), f, x) : Becomes(ram)
      BY <1>8, <1>10, <2>5
    <3>2. x \in Val /\ Mem[t][a] \in {x, Hole}
      BY <1>2, <2>1, <2>2, PeekTyped, PeekSeen
    <3> HIDE DEF x
    <3>3. PICK loaded \in AfterLoad(Ram, User(a), r.frame) :
            \E ram \in AfterStore(loaded, Kernel(f), f, x) : Becomes(ram)
      BY <3>1
    <3>4. PICK ram \in AfterStore(loaded, Kernel(f), f, x) : Becomes(ram)
      BY <3>3
    <3>5. /\ f \in Frame => Holds(ram, f, x)
          /\ \A g \in Frame, y \in Val : g # f /\ Holds(Ram, g, y) => Holds(ram, g, y)
      <4>1. /\ Lines(Ram, O) /\ OneKey(O) /\ OneFrame(O) /\ f \in AnyFrame
            /\ <<Kernel(f), f>> \in O /\ r.frame \in AnyFrame /\ <<User(a), r.frame>> \in O
        BY <1>2, <1>4, <1>6, <2>1
      <4>2. Lines(loaded, O)
        BY <3>3, <4>1, AfterLoadLines
      <4>3. \A g \in Frame, y \in Val : Holds(Ram, g, y) => Holds(loaded, g, y)
        BY <3>3, <4>1, LoadHolds
      <4>4. /\ f \in Frame => Holds(ram, f, x)
            /\ \A g \in Frame, y \in Val : g # f /\ Holds(loaded, g, y) => Holds(ram, g, y)
        BY <3>4, <4>1, <4>2, StoreHolds
      <4> QED BY <4>3, <4>4
    <3>6. /\ Holds(Ram', f, x)
          /\ \A g \in Frame, y \in Val : g # f /\ Holds(Ram, g, y) => Holds(Ram', g, y)
      BY <1>4, <3>4, <3>5, HoldsOf
    <3>7. Mem' = [Mem EXCEPT ![u][b] = x] /\ Mem[u][b] \in Val
      BY <1>1, <1>3, <1>5, <1>7, <2>3, <3>2, <3>6, StoredAt
    <3> QED BY <1>1, <3>2, <3>7
  <2> QED BY <2>4, <2>5
<1> QED BY <1>9, <1>10

(***************************************************************************)
(* Steps that give frames out.                                             *)
(***************************************************************************)
LEMMA FrameOld ==
  ASSUME NEW s, NEW k, Spaces(s, k), NEW t \in DOMAIN k, NEW v \in UserPages(s, k[t].ttb_base)
  PROVE  At(s, k, t, v) \in Nat /\ At(s, k, t, v) < s.next
<1> DEFINE f == Page(s, k[t].ttb_base, v)
<1> DEFINE u == <<f, "page", t, v>>
<1>1. u \in AllUses(s, k)
  BY DEF AllUses, TaskUses, SpaceUses
<1>2. u[1] = f
  OBVIOUS
<1> HIDE DEF u
<1>3. u[1] \in Nat /\ u[1] < s.next
  BY <1>1, UseNumbers DEF Spaces
<1> QED BY <1>2, <1>3 DEF At

LEMMA OwnersOld ==
  ASSUME NEW s, NEW k, Spaces(s, k), NEW p \in DOMAIN k,
         NEW o \in Owners(s, k, p), o[2] # LowPage
  PROVE  o[2] \in Nat /\ o[2] < s.next
<1>1. CASE \E v \in UserPagesSeen : /\ HasTable(s, k[p].ttb_base, v)
                                    /\ o = <<User(v), Page(s, k[p].ttb_base, v)>>
  <2>1. PICK v \in UserPagesSeen : /\ HasTable(s, k[p].ttb_base, v)
                                   /\ o = <<User(v), Page(s, k[p].ttb_base, v)>>
    BY <1>1
  <2>2. o[2] = At(s, k, p, v) /\ v \in UserPages(s, k[p].ttb_base)
    BY <2>1, SeenAreUser DEF UserPages, HasTable, At
  <2> QED BY <2>2, FrameOld
<1>2. CASE \E u \in DOMAIN k \ {p, Idle} :
              \E v \in UserPages(s, k[u].ttb_base) :
                 o = <<Kernel(Page(s, k[u].ttb_base, v)), Page(s, k[u].ttb_base, v)>>
  <2>1. PICK u \in DOMAIN k \ {p, Idle} :
              \E v \in UserPages(s, k[u].ttb_base) :
                 o = <<Kernel(Page(s, k[u].ttb_base, v)), Page(s, k[u].ttb_base, v)>>
    BY <1>2
  <2>2. PICK v \in UserPages(s, k[u].ttb_base) :
                 o = <<Kernel(Page(s, k[u].ttb_base, v)), Page(s, k[u].ttb_base, v)>>
    BY <2>1
  <2>3. o[2] = At(s, k, u, v)
    BY <2>2 DEF At
  <2> QED BY <2>3, FrameOld
<1> QED BY <1>1, <1>2, OwnersAre

(***************************************************************************)
(* A frame that was never given out gets its first line.                   *)
(***************************************************************************)
LEMMA FreshOwner ==
  ASSUME NEW s, NEW k, Spaces(s, k), NEW p \in DOMAIN k, NEW n \in Frame, s.next =< n,
         NEW ram, Lines(ram, Owners(s, k, p)),
         NEW O, O = Owners(s, k, p) \cup {<<Kernel(n), n>>}
  PROVE  Lines(ram, O) /\ OneKey(O) /\ OneFrame(O) /\ <<Kernel(n), n>> \in O
<1> DEFINE Q == Owners(s, k, p)
<1> DEFINE x == <<Kernel(n), n>>
<1>1. OneKey(Q) /\ OneFrame(Q)
  BY OwnersOneKey, OwnersOneFrame
<1>2. s.next \in Nat /\ n \in Nat
  BY FramesAreNumbers DEF Spaces, TablesOK, TablesTyped
<1>3. \A o \in Q : o[2] # LowPage => o[2] # n
  BY <1>2, OwnersOld
<1>4. \A o \in Q : o[1] = Kernel(n) => o[2] = n
  <2> TAKE o \in Q
  <2> HAVE o[1] = Kernel(n)
  <2>1. o = <<o[1], o[2]>>
    <3>1. CASE \E v : o = <<User(v), Page(s, k[p].ttb_base, v)>>
      BY <3>1
    <3>2. CASE \E f : o = <<Kernel(f), f>>
      BY <3>2
    <3>3. (\E v : o = <<User(v), Page(s, k[p].ttb_base, v)>>) \/ \E f : o = <<Kernel(f), f>>
      <4>1. CASE \E v \in UserPagesSeen : /\ HasTable(s, k[p].ttb_base, v)
                                          /\ o = <<User(v), Page(s, k[p].ttb_base, v)>>
        BY <4>1
      <4>2. CASE \E u \in DOMAIN k \ {p, Idle} :
                   \E v \in UserPages(s, k[u].ttb_base) :
                     o = <<Kernel(Page(s, k[u].ttb_base, v)), Page(s, k[u].ttb_base, v)>>
        BY <4>2
      <4> QED BY <4>1, <4>2, OwnersAre
    <3> QED BY <3>1, <3>2, <3>3
  <2>2. <<Kernel(n), o[2]>> \in Q
    BY <2>1
  <2> QED BY <2>2, KernelLine
<1>5. x[1] = Kernel(n) /\ x[2] = n /\ O = Q \cup {x}
  OBVIOUS
<1> HIDE DEF Q, x
<1>6. \A o \in O : o \in Q \/ o = x
  BY <1>5
<1>7. \A f \in Frame : f # LowPage
  BY FramesAreRam
<1>8. OneKey(O)
  BY <1>1, <1>3, <1>5, <1>6 DEF OneKey
<1>9. OneFrame(O)
  BY <1>1, <1>4, <1>5, <1>6 DEF OneFrame
<1>10. Lines(ram, O)
  BY DEF Lines
<1> QED BY <1>8, <1>9, <1>10

LEMMA ZeroedHolds ==
  ASSUME NEW s, NEW k, Spaces(s, k), NEW p \in DOMAIN k, NEW n \in Frame, s.next =< n,
         NEW ram, Lines(ram, Owners(s, k, p)),
         NEW z \in AfterStore(ram, Kernel(n), n, Zero), NEW r \in AfterSync(z)
  PROVE  /\ Holds(r, n, Zero)
         /\ \A f \in Frame, x \in Val : f # n /\ Holds(ram, f, x) => Holds(r, f, x)
<1>1. PICK O : O = Owners(s, k, p) \cup {<<Kernel(n), n>>}
  OBVIOUS
<1>2. Lines(ram, O) /\ OneKey(O) /\ OneFrame(O) /\ <<Kernel(n), n>> \in O
  BY <1>1, FreshOwner
<1>3. n \in AnyFrame /\ Zero \in Val
  BY FramesAreRam, LayoutAssumption
<1>4. /\ Holds(z, n, Zero)
      /\ \A f \in Frame, x \in Val : f # n /\ Holds(ram, f, x) => Holds(z, f, x)
  BY <1>2, <1>3, StoreHolds
<1>5. Lines(z, O)
  BY <1>2, <1>3, AfterStoreLines
<1>6. \A f \in Frame, x \in Val : Holds(z, f, x) => Holds(r, f, x)
  BY <1>5, SyncHolds
<1> QED BY <1>3, <1>4, <1>6
GivenTo(t, v) ==
  {u \in Touched \ {v} : ~There(mmu, task, t, u) /\ There(mmu', task', t, u)}

LEMMA SpaceDataAbort ==
  ASSUME MmuInv, MemInv, MmuInv', MemInv', NEW t \in Program, NEW v \in Touched, DataAbort(t, v)
  PROVE  /\ current_p = t
         /\ \/ Mem' = Mem
            \/ /\ \A u \in GivenTo(t, v) \cup {v} : Mem[t][u] = Fresh
               /\ Mem' = [Mem EXCEPT ![t] =
                    [u \in Touched |-> IF u = v THEN Zero
                                       ELSE IF u \in GivenTo(t, v) THEN Hole ELSE @[u]]]
<1>1. /\ DOMAIN task = Task /\ current_p = t /\ t \in Task /\ task' = task
  BY DEF DataAbort, Running, Started, Task
<1>2. /\ Spaces(mmu, task) /\ TablesOK(mmu) /\ Lines(Ram, Owners(mmu, task, t))
      /\ Directory = task[t].ttb_base /\ Directory \in DOMAIN mmu.l1 /\ t \in DOMAIN task
  BY <1>1, Runner
<1>3. CASE mmu' = Stop(mmu)
  <2>1. mmu'.l1 = mmu.l1 /\ mmu'.pte = mmu.pte /\ mmu'.halted
    BY <1>2, <1>3, StopKeepsTables
  <2>2. phys' = phys /\ cache' = cache
    BY <2>1 DEF DataAbort
  <2>3. Becomes(Ram)
    BY <2>2 DEF Becomes, Ram
  <2>4. \A g \in Frame, x \in Val : Holds(Ram, g, x) => Holds(Ram', g, x)
    BY <2>3, HoldsOf
  <2> QED BY <1>1, <2>1, <2>4, MemSame
<1>4. CASE mmu' # Stop(mmu)
  <2> DEFINE n == mmu'.next - 1
  <2> DEFINE d == Directory
  <2>1. /\ ~mmu'.halted /\ n \in Frame /\ mmu.next =< n
        /\ Keeps(mmu, mmu', d) /\ Grown(mmu, mmu', d, Consecutive(v, 1, n), n)
        /\ PageGiven(mmu, mmu', d, v)
    BY <1>4, MmuDataAbort
  <2>2. \E zeroed \in AfterStore(Ram, Kernel(n), n, Zero) :
          \E ram \in SyncAfterFault(zeroed) : Becomes(ram)
    BY <2>1 DEF DataAbort
  <2> HIDE DEF n, d
  <2>3. PICK zeroed \in AfterStore(Ram, Kernel(n), n, Zero) :
          \E ram \in SyncAfterFault(zeroed) : Becomes(ram)
    BY <2>2
  <2>4. PICK ram \in AfterSync(zeroed) : Becomes(ram)
    BY <2>3 DEF SyncAfterFault
  <2>5. /\ Holds(ram, n, Zero)
        /\ \A f \in Frame, x \in Val : f # n /\ Holds(Ram, f, x) => Holds(ram, f, x)
    BY <1>2, <2>1, <2>3, <2>4, ZeroedHolds
  <2>6. /\ Holds(Ram', n, Zero)
        /\ \A f \in Frame, x \in Val : f # n /\ Holds(Ram, f, x) => Holds(Ram', f, x)
    BY <2>4, <2>5, HoldsOf
  <2>7. DOMAIN Consecutive(v, 1, n) = {v} /\ Consecutive(v, 1, n)[v] = n
        /\ v \in Nat /\ v \div PPM \in Mega
    <3>1. v \in Nat /\ v \div PPM \in Mega
      BY SeenAreUser, UserMega DEF UserPagesSeen
    <3>2. n \in Nat /\ v..(v + 1 - 1) = {v}
      BY <2>1, <3>1, FramesAreNumbers
    <3>3. n + v - v = n
      BY <3>1, <3>2
    <3> QED BY <3>1, <3>2, <3>3 DEF Consecutive
  <2>8. \A u \in Touched : u \in Nat /\ u \div PPM \in Mega
    BY SeenAreUser, UserMega DEF UserPagesSeen
  <2>9. ASSUME NEW w \in Program, NEW u \in Touched, There(mmu, task, w, u)
        PROVE  w = t => u # v
    <3>1. Empty(mmu.l1[d][v \div PPM])
      BY <2>1 DEF PageGiven
    <3> QED BY <1>2, <2>9, <3>1 DEF There, HasTable, Empty, IsTable, d
  <2>10. ASSUME NEW w \in Program, NEW u \in Touched, There(mmu, task, w, u)
         PROVE  There(mmu', task', w, u) /\ At(mmu', task', w, u) = At(mmu, task, w, u)
    <3>1. /\ task[w].ttb_base \in DOMAIN mmu.l1 /\ w \in DOMAIN task
          /\ IsTable(mmu.l1[task[w].ttb_base][u \div PPM])
      BY <1>2, <2>10, FrameAt DEF There, HasTable
    <3>2. IsTable(mmu'.l1[task[w].ttb_base][u \div PPM])
      BY <2>1, <2>8, <3>1 DEF Keeps
    <3>3. ~(task[w].ttb_base = d /\ u \in DOMAIN Consecutive(v, 1, n))
      BY <1>2, <2>7, <2>9, <2>10, <3>1, OwnDirectory DEF d
    <3>4. Page(mmu', task[w].ttb_base, u) = Page(mmu, task[w].ttb_base, u)
      BY <2>1, <2>8, <3>1, <3>2, <3>3 DEF Grown
    <3> QED BY <1>1, <3>1, <3>2, <3>4 DEF There, At, HasTable
  <2>11. ASSUME NEW w \in Program, NEW u \in Touched, There(mmu, task, w, u)
         PROVE  At(mmu, task, w, u) # n
    <3>1. CASE At(mmu, task, w, u) = LowPage
      BY <2>1, <3>1, FramesAreRam
    <3>2. CASE At(mmu, task, w, u) # LowPage
      <4>1. w \in DOMAIN task /\ u \in UserPages(mmu, task[w].ttb_base)
        BY <1>2, <2>11, <3>2, FrameAt
      <4>2. At(mmu, task, w, u) \in Nat /\ At(mmu, task, w, u) < mmu.next
        BY <1>2, <4>1, FrameOld
      <4>3. mmu.next \in Nat /\ n \in Nat
        BY <1>2, <2>1, FramesAreNumbers DEF TablesOK, TablesTyped
      <4> QED BY <2>1, <4>2, <4>3
    <3> QED BY <3>1, <3>2
  <2>12. ASSUME NEW w \in Program, NEW u \in Touched, w # t, There(mmu', task', w, u)
         PROVE  There(mmu, task, w, u)
    <3>1. w \in DOMAIN task /\ HasTable(mmu', task[w].ttb_base, u)
      BY <1>1, <2>12 DEF There
    <3>2. task[w].ttb_base \in DOMAIN mmu.l1 /\ task[w].ttb_base # d
      BY <1>2, <2>12, <3>1, OwnDirectory DEF d
    <3>3. mmu'.l1[task[w].ttb_base][u \div PPM] = mmu.l1[task[w].ttb_base][u \div PPM]
      BY <2>1, <2>8, <3>2 DEF Keeps
    <3> QED BY <3>1, <3>3 DEF There, HasTable
  <2>13. ASSUME NEW w \in Program, NEW u \in Touched, ~(w = t /\ u \in GivenTo(t, v) \cup {v})
         PROVE  Contents(w, u)' = Contents(w, u)
    <3>1. There(mmu', task', w, u) <=> There(mmu, task, w, u)
      BY <2>10, <2>12, <2>13 DEF GivenTo
    <3>2. There(mmu, task, w, u) => At(mmu', task', w, u) = At(mmu, task, w, u)
                                    /\ At(mmu, task, w, u) # n
      BY <2>10, <2>11
    <3> QED BY <2>6, <3>1, <3>2, StillSeen
  <2>14. Contents(t, v)' = Zero
    <3>1. There(mmu', task', t, v) /\ At(mmu', task', t, v) = n
      <4>1. IsTable(mmu'.l1[d][v \div PPM])
        BY <2>1, <2>7 DEF Grown
      <4>2. Page(mmu', d, v) = n
        BY <1>2, <2>1, <2>7, <4>1 DEF Grown, d
      <4> QED BY <1>1, <1>2, <4>1, <4>2 DEF There, At, HasTable, d
    <3>2. n # LowPage /\ Zero \in Val
      BY <2>1, FramesAreRam, LayoutAssumption
    <3>3. Shows(mmu', task', Ram', t, v, Zero)
      BY <2>6, <3>1, <3>2 DEF Shows
    <3> QED BY <3>3, NowIs
  <2>15. ASSUME NEW u \in GivenTo(t, v) PROVE u \in Touched /\ Contents(t, u)' = Hole
    <3>1. u \in Touched /\ u # v /\ ~There(mmu, task, t, u) /\ There(mmu', task', t, u)
      BY DEF GivenTo
    <3>2. /\ IsTable(mmu'.l1[d][u \div PPM]) /\ ~IsTable(mmu.l1[d][u \div PPM])
      BY <1>1, <1>2, <3>1 DEF There, HasTable, d
    <3>3. Page(mmu', d, u) = LowPage
      BY <1>2, <2>1, <2>7, <2>8, <3>1, <3>2 DEF Grown, d
    <3>4. At(mmu', task', t, u) = LowPage
      BY <1>1, <1>2, <3>3 DEF At, d
    <3>5. Shows(mmu', task', Ram', t, u, Hole)
      BY <3>1, <3>4 DEF Shows
    <3> QED BY <3>1, <3>5, NowIs
  <2>16. ASSUME NEW u \in GivenTo(t, v) \cup {v} PROVE Mem[t][u] = Fresh
    <3>1. u \in Touched /\ ~There(mmu, task, t, u)
      BY <2>9 DEF GivenTo
    <3>2. Shows(mmu, task, Ram, t, u, Contents(t, u))
      BY <3>1, SeenIs
    <3> QED BY <3>1, <3>2 DEF Shows, Mem
  <2>17. Mem' = [Mem EXCEPT ![t] =
                   [u \in Touched |-> IF u = v THEN Zero
                                      ELSE IF u \in GivenTo(t, v) THEN Hole ELSE @[u]]]
    <3> DEFINE G == GivenTo(t, v)
    <3> DEFINE row == [u \in Touched |-> IF u = v THEN Zero
                                         ELSE IF u \in G THEN Hole ELSE Mem[t][u]]
    <3> HIDE DEF G
    <3>1. \A w \in Program : Mem[w] = [u \in Touched |-> Contents(w, u)]
      BY DEF Mem
    <3>2. Mem' = [w \in Program |-> [u \in Touched |-> Contents(w, u)']]
      BY DEF Mem
    <3>3. row = [u \in Touched |-> Contents(t, u)']
      BY <2>13, <2>14, <2>15, <3>1 DEF G
    <3>4. \A w \in Program : w # t => Mem[w] = [u \in Touched |-> Contents(w, u)']
      BY <2>13, <3>1
    <3> HIDE DEF row
    <3>5. [Mem EXCEPT ![t] = row] = [w \in Program |-> IF w = t THEN row ELSE Mem[w]]
      BY DEF Mem
    <3>6. Mem' = [Mem EXCEPT ![t] = row]
      BY <3>2, <3>3, <3>4, <3>5
    <3> QED BY <3>6 DEF row, G
  <2> QED BY <1>1, <2>16, <2>17
<1> QED BY <1>3, <1>4

LEMMA BootRam ==
  ASSUME MemInv, NEW t \in Task, Boot(t), cache' = cache, NEW f, phys'[f] = phys[f], NEW x
  PROVE  Holds(Ram, f, x) => Holds(Ram', f, x)
<1>1. /\ Ram.phys = phys /\ Ram.cache = cache /\ Ram'.phys = phys' /\ Ram'.cache = cache'
  BY DEF Ram
<1>2. DOMAIN cache = {}
  BY Booted
<1> QED BY <1>1, <1>2 DEF Holds

LEMMA SpaceInitTask ==
  ASSUME MmuInv, MemInv, MmuInv', MemInv', InitTask
  PROVE  Mem' = Mem
<1>1. DOMAIN task = {}
  BY DEF MmuInv, Booting, InitTask, Boot, Idle
<1>2. DOMAIN task' = {Idle}
  BY <1>1 DEF InitTask, With
<1>3. \A t \in Program : t \notin DOMAIN task /\ t \notin DOMAIN task'
  BY <1>1, <1>2 DEF Program, Idle
<1>4. ASSUME NEW t \in Program, NEW v \in Touched PROVE Contents(t, v)' = Contents(t, v)
  <2>1. ~There(mmu, task, t, v) /\ ~There(mmu', task', t, v)
    BY <1>3 DEF There
  <2> QED BY <2>1, StillSeen
<1> QED BY <1>4 DEF Mem

LEMMA SpaceCreatep ==
  ASSUME MmuInv, MemInv, MmuInv', MemInv', NEW t \in Program, createp(t)
  PROVE  /\ current_p = Idle
         /\ \A v \in Touched : Mem[t][v] = Fresh /\ Contents(t, v)' \in Val \cup {Fresh, Hole}
         /\ Mem' = [Mem EXCEPT ![t] = [v \in Touched |-> Contents(t, v)']]
<1> DEFINE d == NewDirectory(mmu)
<1> DEFINE image == {Page(mmu', d, v) : v \in DOMAIN ImagePages(t)}
<1> DEFINE zeroed == Zeroed(First(mmu, 1), mmu'.next - 1)
<1>1. Boot(t) /\ t \in Task /\ t \notin DOMAIN task /\ cache' = cache
      /\ phys' = Over([f \in image |-> ImageVal], Over(zeroed, phys))
      /\ task' = With(task, t, [pcb |-> First(mmu, 1), ttb_base |-> d])
  BY DEF createp, Task, Boot
<1>2. mmu' = Birth(mmu, t) /\ ~mmu'.halted /\ \A e \in DOMAIN mmu.l1 : e < mmu.next
  BY MmuCreatep, StartAssumption
<1>3. Spaces(mmu, task) /\ TablesOK(mmu) /\ Spaces(mmu', task')
  BY SpacesInv, SpacesInvNext DEF Spaces
<1>4. Fits(mmu, t, FixedFrames, AllUses(mmu, task))
  BY <1>1, <1>3, UsesFit
<1>5. /\ Keeps(mmu, mmu', d) /\ First(mmu, 1) \in Frame /\ mmu.next =< First(mmu, 1)
      /\ d \notin DOMAIN mmu.l1
      /\ \A v \in DOMAIN ImagePages(t) : IsTable(mmu'.l1[d][v \div PPM])
  BY <1>2, <1>3, <1>4, BirthEffect
<1>6. current_p = Idle /\ phys \in [AnyFrame -> Val]
  BY <1>1, Booted
<1>7. DOMAIN task' = DOMAIN task \cup {t} /\ task'[t].ttb_base = d
      /\ \A w \in DOMAIN task : task'[w] = task[w]
  BY <1>1 DEF With
<1> HIDE DEF d
<1>8. \A w \in Program, v \in Touched : There(mmu, task, w, v) => w # t
  BY <1>1 DEF There
<1>9. ASSUME NEW w \in Program, NEW v \in Touched, There(mmu, task, w, v)
      PROVE  There(mmu', task', w, v) /\ At(mmu', task', w, v) = At(mmu, task, w, v)
  <2>1. /\ w \in DOMAIN task /\ task[w].ttb_base \in DOMAIN mmu.l1 /\ task[w].ttb_base # d
        /\ v \in UserPage /\ IsTable(mmu.l1[task[w].ttb_base][v \div PPM])
    BY <1>3, <1>5, <1>9, FrameAt DEF There, HasTable
  <2>2. v \in Nat /\ v \div PPM \in Mega
    BY <2>1, UserMega
  <2>3. /\ IsTable(mmu'.l1[task[w].ttb_base][v \div PPM])
        /\ Page(mmu', task[w].ttb_base, v) = Page(mmu, task[w].ttb_base, v)
    BY <1>5, <2>1, <2>2 DEF Keeps
  <2> QED BY <1>7, <2>1, <2>3 DEF There, At, HasTable
<1>10. ASSUME NEW w \in Program, NEW v \in Touched, w # t, There(mmu', task', w, v)
       PROVE  There(mmu, task, w, v)
  <2>1. w \in DOMAIN task /\ HasTable(mmu', task[w].ttb_base, v)
    BY <1>7, <1>10 DEF There
  <2>2. task[w].ttb_base \in DOMAIN mmu.l1 /\ task[w].ttb_base # d
    BY <1>3, <1>5, <2>1, OwnDirectory
  <2>3. v \div PPM \in Mega
    BY SeenAreUser, UserMega DEF UserPagesSeen
  <2>4. mmu'.l1[task[w].ttb_base][v \div PPM] = mmu.l1[task[w].ttb_base][v \div PPM]
    BY <1>5, <2>2, <2>3 DEF Keeps
  <2> QED BY <2>1, <2>4 DEF There, HasTable
<1>11. ASSUME NEW w \in Program, NEW v \in Touched, There(mmu, task, w, v),
              NEW f \in Frame, f = At(mmu, task, w, v)
       PROVE  phys'[f] = phys[f]
  <2>1. w \in DOMAIN task /\ v \in UserPages(mmu, task[w].ttb_base)
    BY <1>3, <1>11, FrameAt, FramesAreRam
  <2>2. f \in Nat /\ f < mmu.next
    BY <1>3, <1>11, <2>1, FrameOld
  <2>3. f \notin DOMAIN zeroed
    <3>1. mmu.next \in Nat /\ First(mmu, 1) \in Nat
      BY <1>3, <1>5, FramesAreNumbers DEF TablesOK, TablesTyped
    <3>2. ~(First(mmu, 1) =< f)
      BY <1>5, <2>2, <3>1
    <3> QED BY <3>2 DEF Zeroed
  <2>4. f \notin image
    <3> SUFFICES ASSUME NEW i \in DOMAIN ImagePages(t), f = Page(mmu', d, i) PROVE FALSE
      OBVIOUS
    <3>1. f # LowPage
      BY FramesAreRam
    <3>2. i \in UserPages(mmu', task'[t].ttb_base)
      BY <1>5, <1>7, <3>1, ImagePlace DEF UserPages
    <3>3. There(mmu', task', w, v) /\ At(mmu', task', w, v) = f
      BY <1>9, <1>11
    <3>4. v \in UserPages(mmu', task'[w].ttb_base) /\ w \in DOMAIN task'
      BY <1>3, <3>1, <3>3, FrameAt
    <3>5. w = t
      BY <1>3, <1>7, <3>2, <3>3, <3>4, OnePageEach DEF At
    <3> QED BY <1>8, <1>11, <3>5
  <2>5. f \in DOMAIN phys
    BY <1>6, FramesAreRam
  <2> HIDE DEF zeroed, image
  <2> QED BY <1>1, <2>3, <2>4, <2>5 DEF Over
<1>12. ASSUME NEW w \in Program, NEW v \in Touched, w # t
       PROVE  Contents(w, v)' = Contents(w, v)
  <2>1. There(mmu', task', w, v) <=> There(mmu, task, w, v)
    BY <1>9, <1>10, <1>12
  <2>2. There(mmu, task, w, v) => At(mmu', task', w, v) = At(mmu, task, w, v)
    BY <1>9
  <2>3. \A f \in Frame, x \in Val :
           There(mmu, task, w, v) /\ f = At(mmu, task, w, v) /\ Holds(Ram, f, x)
             => Holds(Ram', f, x)
    BY <1>1, <1>11, BootRam
  <2> QED BY <2>1, <2>2, <2>3, StillSeen
<1>13. ASSUME NEW v \in Touched
       PROVE  Mem[t][v] = Fresh /\ Contents(t, v)' \in Val \cup {Fresh, Hole}
  <2>1. Shows(mmu, task, Ram, t, v, Contents(t, v)) /\ ~There(mmu, task, t, v)
    BY <1>8, SeenIs
  <2>2. Shows(mmu', task', Ram', t, v, Contents(t, v)')
    BY SeenNext
  <2>3. Contents(t, v) = Fresh
    BY <2>1 DEF Shows
  <2>4. Contents(t, v)' \in Val \cup {Fresh, Hole}
    BY <2>2 DEF Shows
  <2> QED BY <2>3, <2>4 DEF Mem
<1>14. Mem' = [Mem EXCEPT ![t] = [v \in Touched |-> Contents(t, v)']]
  <2> DEFINE row == [v \in Touched |-> Contents(t, v)']
  <2>1. Mem' = [w \in Program |-> [v \in Touched |-> Contents(w, v)']]
    BY DEF Mem
  <2>2. \A w \in Program : w # t => Mem[w] = [v \in Touched |-> Contents(w, v)']
    BY <1>12 DEF Mem
  <2>3. row = [v \in Touched |-> Contents(t, v)']
    OBVIOUS
  <2> HIDE DEF row
  <2>4. [Mem EXCEPT ![t] = row] = [w \in Program |-> IF w = t THEN row ELSE Mem[w]]
    BY DEF Mem
  <2>5. Mem' = [Mem EXCEPT ![t] = row]
    BY <2>1, <2>2, <2>3, <2>4
  <2> QED BY <2>5 DEF row
<1> QED BY <1>6, <1>13, <1>14

(***************************************************************************)
(* Each step is a step of Space or leaves the memories alone.              *)
(***************************************************************************)
LEMMA SpaceSame == ASSUME Mem' = Mem PROVE Memories!Next
  BY DEF Memories!Next, Mem

LEMMA SpaceStep ==
  ASSUME MmuInv, MemInv, MmuInv', MemInv', [Next]_vars
  PROVE  Memories!Next
<1>1. CASE InitTask
  BY <1>1, SpaceInitTask, SpaceSame
<1>2. ASSUME NEW t \in Program, createp(t) PROVE Memories!Next
  <2> DEFINE pages == [v \in Touched |-> Contents(t, v)']
  <2>1. /\ current_p = Idle
        /\ \A v \in Touched : Mem[t][v] = Fresh /\ Contents(t, v)' \in Val \cup {Fresh, Hole}
        /\ Mem' = [Mem EXCEPT ![t] = pages]
    BY <1>2, SpaceCreatep
  <2>2. pages \in [Touched -> Memories!Contents]
    BY <2>1 DEF Memories!Contents
  <2> HIDE DEF pages
  <2>3. current_p \notin Program
    BY <2>1 DEF Program, Idle
  <2>4. Memories!Create(t, pages)
    BY <2>1, <2>3 DEF Memories!Create, Mem
  <2> QED BY <2>2, <2>4 DEF Memories!Next
<1>3. ASSUME NEW t \in Task, Switch(t) PROVE Memories!Next
  BY <1>3, SpaceSwitch, SpaceSame
<1>4. ASSUME NEW t \in Program, NEW u \in Task, Call(t, u) PROVE Memories!Next
  <2>1. /\ current_p = t /\ current_p' = u /\ u # t
        /\ \/ Mem' = Mem
           \/ /\ u \in Program /\ MsgPage \in Touched
              /\ Mem' = [Mem EXCEPT ![u][MsgPage] = Result]
    BY <1>4, SpaceCall
  <2>2. CASE Mem' = Mem
    BY <2>2, SpaceSame
  <2>3. CASE /\ u \in Program /\ MsgPage \in Touched
             /\ Mem' = [Mem EXCEPT ![u][MsgPage] = Result]
    <3>1. Memories!Answered(u)
      BY <2>1, <2>3 DEF Memories!Answered, Mem
    <3> QED BY <2>3, <3>1 DEF Memories!Next
  <2> QED BY <2>1, <2>2, <2>3
<1>5. ASSUME NEW t \in Program, NEW v \in Touched, Load(t, v) PROVE Memories!Next
  BY <1>5, SpaceLoad, SpaceSame
<1>6. ASSUME NEW t \in Program, NEW v \in Touched, NEW x \in Val, Store(t, v, x)
      PROVE  Memories!Next
  <2>1. current_p = t /\ (Mem' = Mem \/ (Mem[t][v] \in Val /\ Mem' = [Mem EXCEPT ![t][v] = x]))
    BY <1>6, SpaceStore
  <2>2. CASE Mem' = Mem
    BY <2>2, SpaceSame
  <2>3. CASE Mem[t][v] \in Val /\ Mem' = [Mem EXCEPT ![t][v] = x]
    <3>1. Memories!Store(v, x)
      BY <2>1, <2>3 DEF Memories!Store, Mem
    <3> QED BY <2>1, <3>1 DEF Memories!Next
  <2> QED BY <2>1, <2>2, <2>3
<1>7. ASSUME NEW t \in Program, NEW v \in Touched, DataAbort(t, v) PROVE Memories!Next
  <2>1. /\ current_p = t
        /\ \/ Mem' = Mem
           \/ /\ \A u \in GivenTo(t, v) \cup {v} : Mem[t][u] = Fresh
              /\ Mem' = [Mem EXCEPT ![t] =
                   [u \in Touched |-> IF u = v THEN Zero
                                      ELSE IF u \in GivenTo(t, v) THEN Hole ELSE @[u]]]
    BY <1>7, SpaceDataAbort
  <2>2. CASE Mem' = Mem
    BY <2>2, SpaceSame
  <2>3. CASE Mem' # Mem
    <3>1. GivenTo(t, v) \in SUBSET (Touched \ {v})
      BY DEF GivenTo
    <3>2. Memories!Touch(v, GivenTo(t, v))
      BY <2>1, <2>3 DEF Memories!Touch, Mem
    <3> QED BY <2>1, <3>1, <3>2 DEF Memories!Next
  <2> QED BY <2>2, <2>3
<1>8. ASSUME NEW t \in Program, NEW u \in Program, NEW read \in BOOLEAN,
             NEW a \in Touched, NEW b \in Touched, physrw(t, u, read, a, b)
      PROVE  Memories!Next
  <2>1. /\ current_p = t /\ u # t
        /\ \/ Mem' = Mem
           \/ \E x \in Val :
                \/ /\ Mem[u][b] \in {x, Hole} /\ Mem[t][a] \in Val
                   /\ Mem' = [Mem EXCEPT ![t][a] = x]
                \/ /\ Mem[t][a] \in {x, Hole} /\ Mem[u][b] \in Val
                   /\ Mem' = [Mem EXCEPT ![u][b] = x]
    BY <1>8, SpacePhysrw
  <2>2. CASE Mem' = Mem
    BY <2>2, SpaceSame
  <2>3. ASSUME NEW x \in Val, Mem[u][b] \in {x, Hole}, Mem[t][a] \in Val,
               Mem' = [Mem EXCEPT ![t][a] = x]
        PROVE  Memories!Next
    <3>1. Memories!Copy(u, b, t, a, x)
      BY <2>1, <2>3 DEF Memories!Copy, Mem
    <3> QED BY <3>1 DEF Memories!Next
  <2>4. ASSUME NEW x \in Val, Mem[t][a] \in {x, Hole}, Mem[u][b] \in Val,
               Mem' = [Mem EXCEPT ![u][b] = x]
        PROVE  Memories!Next
    <3>1. Memories!Copy(t, a, u, b, x)
      BY <2>1, <2>4 DEF Memories!Copy, Mem
    <3> QED BY <3>1 DEF Memories!Next
  <2> QED BY <2>1, <2>2, <2>3, <2>4
<1>9. CASE Replace
  BY <1>9, SpaceReplace, SpaceSame
<1>10. CASE UNCHANGED vars
  <2>1. mmu' = mmu /\ task' = task /\ Ram' = Ram
    BY <1>10 DEF vars, Ram
  <2>2. \A f \in Frame, x \in Val : Holds(Ram, f, x) => Holds(Ram', f, x)
    BY <2>1
  <2>3. Mem' = Mem
    BY <2>1, <2>2, MemSame
  <2> QED BY <2>3, SpaceSame
<1> QED
  BY <1>1, <1>2, <1>3, <1>4, <1>5, <1>6, <1>7, <1>8, <1>9, <1>10 DEF Next

(***************************************************************************)
(* Each program's memory is its own: what a page holds changes by a store  *)
(* of the program, a copy of mail or the answer to a call, and never by a  *)
(* fault, a switch, a line written back late or a frame given out twice.   *)
(***************************************************************************)
THEOREM MemoriesArePrivate == Spec => SpaceSpec
<1>1. Init => Mem = [t \in Program |-> [v \in Touched |-> Fresh]]
  <2> SUFFICES ASSUME Init PROVE Mem = [t \in Program |-> [v \in Touched |-> Fresh]]
    OBVIOUS
  <2>1. DOMAIN task = {}
    BY DEF Init
  <2>2. \A t \in Program, v \in Touched : Contents(t, v) = Fresh
    BY <2>1 DEF Contents
  <2> QED BY <2>2 DEF Mem
<1>2. MmuInv /\ MemInv /\ MmuInv' /\ MemInv' /\ [Next]_vars => [Memories!Next]_<<current_p, Mem>>
  BY SpaceStep
<1> QED BY <1>1, <1>2, MemorySafe, PTL DEF Spec, SpaceSpec, Memories!Spec, Mem
=============================================================================
