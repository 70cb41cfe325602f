------------------------------ MODULE NameiProofs -----------------------------
(***************************************************************************)
(* What is proved about inodes, zones and the commands on names: for any   *)
(* sizes of the device and of the tables, and any paths.                   *)
(***************************************************************************)
EXTENDS Namei, FiniteSetTheorems, SequenceTheorems, TLAPS

(***************************************************************************)
(* The inductive invariant, of a file system f in the middle of a command. *)
(* h[s] is how often the command holds the inode in slot s.  What a        *)
(* command does after the file system has stopped is never seen.           *)
(***************************************************************************)
DevInode == [mode : InodeMode, nlinks : Int, size : Nat, zone : [0..DIRECT -> Zone \cup {NoZone}]]
Row == [num : Inode, cnt : Nat, dirt : BOOLEAN, valid : BOOLEAN, node : DevInode]
Entry == [name : EntryName, inr : Inode]
Systems == [table : [Slot -> Row], imap : SUBSET Inode, zmap : SUBSET Zone,
            dev_inode : [Inode -> DevInode],
            entries : [Zone -> [DOMAIN NoEntries -> Entry]],
            objs : [Zone -> [DOMAIN NoObjs -> Zone \cup {NoZone}]],
            pos : 0..(NrZones - 1), leaks : [Zone -> Nat], lost : SUBSET Zone,
            halt : {"no", "crash", "hang"}]

Runs(f) == f.halt = "no"

(***************************************************************************)
(* An inode is in the table once at most.  A slot that is not to be        *)
(* written names the same zones as the device, unless the inode goes with  *)
(* its last user.                                                          *)
(***************************************************************************)
Copies(m, n) == m.mode = n.mode /\ m.zone = n.zone
Valid(f) == {s \in Slot : f.table[s].valid}
InMap(f) == \A s \in Valid(f) : f.table[s].num \in f.imap
Once(f) == \A s, t \in Valid(f) : f.table[s].num = f.table[t].num => s = t
Going(r) == r.cnt > 0 /\ r.node.nlinks = 0
OnDevice(f) ==
  \A s \in Valid(f) :
    f.table[s].dirt \/ Going(f.table[s]) \/ Copies(f.table[s].node, f.dev_inode[f.table[s].num])
CountsOK(f, h) == \A s \in Slot : f.table[s].cnt = h[s] /\ (h[s] > 0 => f.table[s].valid)
TableOK(f, h) == InMap(f) /\ Once(f) /\ OnDevice(f) /\ CountsOK(f, h)

(***************************************************************************)
(* The zone that an inode has at a position, as the file system counts it. *)
(***************************************************************************)
Has(f, i, p) == IF NodeOf(f, i).mode = "dev" THEN NoZone ELSE ZoneIn(f, NodeOf(f, i).zone, p)

OwnedIn(f, Z) ==
  /\ \A i \in f.imap, p \in Position :
       Has(f, i, p) # NoZone => Has(f, i, p) \in Z /\ Has(f, i, p) \notin f.lost
  /\ \A i, j \in f.imap, p, q \in Position :
       Has(f, i, p) # NoZone /\ Has(f, i, p) = Has(f, j, q) => i = j /\ p = q
  /\ f.lost \subseteq Z
  /\ \A z \in Z : z \in f.lost \/ \E i \in f.imap, p \in Position : Has(f, i, p) = z

Owned(f) == OwnedIn(f, f.zmap)

Holds(f, h) == f \in Systems /\ (Runs(f) => TableOK(f, h) /\ Owned(f))

NoHolds == [s \in Slot |-> 0]

IInv ==
  /\ Holds(f0, NoHolds)
  /\ \A z \in Zone : leaks[z] <= MaxLeaks
  /\ cwd \in Inode /\ root \in Inode /\ halt \in {"no", "crash", "hang"}


-----------------------------------------------------------------------------
(***************************************************************************)
(* Numbers, and the induction on the steps of a path.                      *)
(***************************************************************************)
LEMMA LeastNumber ==
  ASSUME NEW T \in SUBSET Nat, IsFiniteSet(T), T # {}
  PROVE  \E m \in T : \A x \in T : m =< x
<1> DEFINE Below(x) == {y \in T : y < x}
<1> DEFINE F == {Below(x) : x \in T}
<1>1. F \subseteq FiniteSubsetsOf(T) /\ F # {}
  <2>1. \A x : Below(x) \in SUBSET T
    OBVIOUS
  <2>2. \A A \in SUBSET T : IsFiniteSet(A)
    BY FS_Subset
  <2> QED
    BY <2>1, <2>2 DEF FiniteSubsetsOf
<1>2. PICK A \in F : \A B \in F : <<B, A>> \notin StrictSubsetOrdering(T)
  BY <1>1, FS_StrictSubsetOrderingWellFounded, WFMin
<1>3. PICK m \in T : A = Below(m)
  OBVIOUS
<1>4. ASSUME NEW y \in Below(m) PROVE FALSE
  <2>1. m \in Nat /\ y \in Nat /\ y < m /\ y \in T
    BY <1>4
  <2>2. Below(y) \subseteq Below(m)
    <3>1. ASSUME NEW z \in Below(y) PROVE z \in Below(m)
      <4>1. z \in Nat /\ z < y /\ z \in T
        BY <3>1
      <4> QED
        BY <4>1, <2>1
    <3> QED
      BY <3>1
  <2>3. Below(y) \subseteq T /\ Below(m) \subseteq T /\ y \in Below(m) /\ y \notin Below(y)
    BY <2>1
  <2>4. <<Below(y), Below(m)>> \in StrictSubsetOrdering(T)
    BY <2>2, <2>3 DEF StrictSubsetOrdering
  <2>5. Below(y) \in F
    BY <2>1
  <2> QED
    BY <2>4, <2>5, <1>2, <1>3
<1>5. \A x \in T : ~(x < m)
  BY <1>4
<1> QED
  BY <1>5

\* Induction on turns, of a function of Booleans instead of an operator.
LEMMA TurnByTurn ==
  ASSUME NEW N \in Nat, NEW P, P[0], \A t \in 1..N : P[t - 1] => P[t]
  PROVE  \A t \in 0..N : P[t]
<1> DEFINE T == {t \in 0..N : ~P[t]}
<1> SUFFICES ASSUME T # {} PROVE FALSE
  OBVIOUS
<1>1. T \in SUBSET Nat /\ IsFiniteSet(T)
  <2>1. IsFiniteSet(0..N)
    BY FS_Interval
  <2> QED
    BY <2>1, FS_Subset
<1>2. PICK m \in T : \A x \in T : m =< x
  BY <1>1, LeastNumber
<1>3. m \in 1..N
  <2>1. m # 0 /\ m \in 0..N
    OBVIOUS
  <2> QED
    BY <2>1
<1>4. m - 1 \in 0..N /\ ~(m =< m - 1)
  BY <1>3
<1>5. P[m - 1]
  BY <1>2, <1>4
<1> QED
  BY <1>3, <1>5

RunOf(f, N, S, x0, step) ==
  /\ f \in [0..N -> S] /\ f[0] = x0
  /\ \A t \in 1..N : f[t] = step[t][f[t - 1]]

\* A recursive function on turns exists, so that it is what its turns say.
LEMMA RunExists ==
  ASSUME NEW N \in Nat, NEW S, NEW x0 \in S, NEW step \in [1..N -> [S -> S]]
  PROVE  \E f : RunOf(f, N, S, x0, step)
<1> DEFINE Run(n) == \E f \in [0..n -> S] :
                       f[0] = x0 /\ \A t \in 1..n : f[t] = step[t][f[t - 1]]
<1> DEFINE P == [n \in 0..N |-> Run(n)]
<1>1. P[0]
  <2>1. [t \in 0..0 |-> x0] \in [0..0 -> S] /\ 0 \in 0..0 /\ 1..0 = {}
    OBVIOUS
  <2>2. Run(0)
    BY <2>1
  <2> QED
    BY <2>2
<1>2. ASSUME NEW n \in 1..N, P[n - 1] PROVE P[n]
  <2>1. n \in Nat /\ n - 1 \in 0..N
    OBVIOUS
  <2>2. PICK f \in [0..(n - 1) -> S] :
          f[0] = x0 /\ \A t \in 1..(n - 1) : f[t] = step[t][f[t - 1]]
    BY <1>2, <2>1
  <2> DEFINE g == [t \in 0..n |-> IF t = n THEN step[n][f[n - 1]] ELSE f[t]]
  <2>3. f[n - 1] \in S
    BY <2>1
  <2>4. step[n] \in [S -> S]
    OBVIOUS
  <2>5. g \in [0..n -> S]
    <3>1. \A t \in 0..n : t # n => t \in 0..(n - 1)
      BY <2>1
    <3> QED
      BY <2>3, <2>4, <3>1
  <2>6. g[0] = x0
    BY <2>1, <2>2
  <2>7. ASSUME NEW t \in 1..n PROVE g[t] = step[t][g[t - 1]]
    <3>1. t - 1 \in 0..n /\ t - 1 # n /\ t \in 0..n /\ (t # n => t \in 1..(n - 1))
      BY <2>1
    <3>2. g[t - 1] = f[t - 1]
      BY <3>1
    <3> QED
      BY <3>1, <3>2, <2>2
  <2> HIDE DEF g
  <2>8. Run(n) /\ n \in 0..N
    BY <2>5, <2>6, <2>7
  <2> HIDE DEF Run
  <2> QED
    BY <2>8
<1> HIDE DEF P, Run
<1>3. P[N]
  <2>1. \A n \in 0..N : P[n]
    BY <1>1, <1>2, TurnByTurn
  <2>2. N \in 0..N
    OBVIOUS
  <2> QED
    BY <2>1, <2>2
<1> QED
  <2>1. N \in 0..N
    OBVIOUS
  <2>2. Run(N)
    BY <2>1, <1>3 DEF P
  <2> QED
    BY <2>2 DEF Run, RunOf

LEMMA MinIn ==
  ASSUME NEW n \in Int, NEW S \in SUBSET (0..n), S # {}
  PROVE  Min(S) \in S /\ \A x \in S : Min(S) =< x
<1>1. IsFiniteSet(S) /\ S \in SUBSET Nat
  <2>1. IsFiniteSet(0..n)
    BY FS_Interval
  <2>2. IsFiniteSet(S)
    BY <2>1, FS_Subset
  <2>3. \A k \in 0..n : k \in Nat
    OBVIOUS
  <2> QED
    BY <2>2, <2>3
<1>2. \E m \in S : \A x \in S : m =< x
  BY <1>1, LeastNumber
<1> QED
  BY <1>2 DEF Min

LEMMA Ranges ==
  /\ NR_INODE_BUF - 1 \in Nat /\ NrInodes - 1 \in Nat /\ DIRECT + NR_BLK_OBJS \in Nat
  /\ NrZones \in Nat \ {0} /\ DIRECT \in Nat \ {0} /\ NR_BLK_OBJS \in Nat \ {0}
  /\ Slot \subseteq Nat /\ Inode \subseteq Nat /\ Zone \subseteq Nat
  /\ None \notin Slot /\ None \notin Inode /\ NoZone \notin Zone
  /\ 0 \in Slot /\ ROOT_IND_NR \in Inode /\ 1 \in Zone /\ DeviceNumber \in Zone
  /\ Position = 0..(DIRECT + NR_BLK_OBJS) /\ FileBlock = 0..(DIRECT + NR_BLK_OBJS - 1)
<1>1. /\ NR_INODE_BUF \in Nat \ {0} /\ NrInodes \in Nat \ {0} /\ NrZones \in Nat \ {0}
      /\ DIRECT \in Nat \ {0} /\ NR_BLK_OBJS \in Nat \ {0}
  BY InodeAssumption
<1> QED
  BY <1>1 DEF Slot, Inode, Zone, None, NoZone, ROOT_IND_NR, DeviceNumber, Position, FileBlock

LEMMA MinSlot ==
  ASSUME NEW S \in SUBSET Slot, S # {}
  PROVE  Min(S) \in S
<1>1. NR_INODE_BUF - 1 \in Int /\ S \in SUBSET (0..(NR_INODE_BUF - 1))
  BY Ranges DEF Slot
<1> QED
  BY <1>1, MinIn

LEMMA MinInode ==
  ASSUME NEW S \in SUBSET Inode, S # {}
  PROVE  Min(S) \in S
<1>1. NrInodes - 1 \in Int /\ S \in SUBSET (0..(NrInodes - 1))
  BY Ranges DEF Inode
<1> QED
  BY <1>1, MinIn

LEMMA MinBlock ==
  ASSUME NEW S \in SUBSET FileBlock, S # {}
  PROVE  Min(S) \in S
<1>1. DIRECT + NR_BLK_OBJS - 1 \in Int /\ S \in SUBSET (0..(DIRECT + NR_BLK_OBJS - 1))
  BY Ranges
<1> QED
  BY <1>1, MinIn

LEMMA MinEntry ==
  ASSUME NEW S \in SUBSET DOMAIN NoEntries, S # {}
  PROVE  Min(S) \in S
<1>1. ENTRIES_PER_BLK - 1 \in Int /\ DOMAIN NoEntries = 0..(ENTRIES_PER_BLK - 1)
  BY InodeAssumption DEF NoEntries
<1> QED
  BY <1>1, MinIn

(***************************************************************************)
(* new_block() finds a zone that is free.                                  *)
(***************************************************************************)
LEMMA FreeZoneIs ==
  ASSUME NEW f \in Systems
  PROVE  FreeZone(f) = NoZone \/ FreeZone(f) \in Zone \ f.zmap
<1> DEFINE turns == {i \in 0..(ZmapBlocks - 1) : FreeIn(f, i) \in Zone}
<1> SUFFICES ASSUME turns # {} PROVE FreeZone(f) \in Zone \ f.zmap
  BY DEF FreeZone
<1> DEFINE t == Min(turns)
           blk == ZmapBlock(f, t)
           bit == FreeBit(f, t)
           zeros == {l \in 0..(ZoneBits - 1) : blk * ZoneBits + l + 1 \notin f.zmap}
           from == IF t = 0 THEN f.pos % ZoneBits ELSE 0
           seen == Seen({l \in zeros : l \div ByteBits >= from \div ByteBits}, from)
<1>1. t \in turns
  <2>1. ZmapBlocks - 1 \in Int /\ turns \in SUBSET (0..(ZmapBlocks - 1))
    BY InodeAssumption
  <2> QED
    BY <2>1, MinIn
<1>2. FreeZone(f) = ZoneAt(blk, bit) /\ ZoneAt(blk, bit) \in Zone
  BY <1>1 DEF FreeZone, FreeIn
<1>3. bit = First(seen, None)
  BY DEF FreeBit, FindFirstZero
<1>4. seen \subseteq zeros /\ zeros \subseteq 0..(ZoneBits - 1)
  BY DEF Seen
<1> HIDE DEF seen, t, blk, bit
<1>5. seen # {} /\ bit = Min(seen)
  <2>1. bit # None
    BY <1>2, Ranges DEF ZoneAt
  <2> QED
    BY <1>3, <2>1 DEF First
<1>6. bit \in seen
  <2>1. ZoneBits - 1 \in Int /\ seen \in SUBSET (0..(ZoneBits - 1))
    BY <1>4, InodeAssumption
  <2> QED
    BY <1>5, <2>1, MinIn
<1>7. bit # None
  BY <1>4, <1>6 DEF None
<1>8. blk * ZoneBits + bit + 1 \notin f.zmap
  BY <1>4, <1>6
<1> QED
  BY <1>2, <1>7, <1>8 DEF ZoneAt

-----------------------------------------------------------------------------
(***************************************************************************)
(* The inodes as the file system has them, and whose the zones are.        *)
(***************************************************************************)
LEMMA NodeAt ==
  ASSUME NEW f \in Systems, Once(f), NEW s \in Valid(f)
  PROVE  /\ Cached(f, f.table[s].num) = {s}
         /\ NodeOf(f, f.table[s].num) = f.table[s].node
<1>1. s \in Slot /\ f.table[s].valid
  BY DEF Valid
<1>2. Cached(f, f.table[s].num) = {s}
  BY <1>1 DEF Cached, Valid, Once
<1>3. Min({s}) = s
  BY <1>1, MinSlot
<1> QED
  BY <1>2, <1>3 DEF NodeOf

LEMMA NodeOnDevice ==
  ASSUME NEW f \in Systems, NEW i, \A s \in Valid(f) : f.table[s].num # i
  PROVE  Cached(f, i) = {} /\ NodeOf(f, i) = f.dev_inode[i]
BY DEF Cached, Valid, NodeOf

LEMMA HasSame ==
  ASSUME NEW f, NEW g, g.objs = f.objs, NEW i, Copies(NodeOf(g, i), NodeOf(f, i)), NEW p
  PROVE  Has(g, i, p) = Has(f, i, p)
BY DEF Has, ZoneIn, Copies

Calm(f, g) ==
  /\ g.imap = f.imap /\ g.zmap = f.zmap /\ g.lost = f.lost /\ g.objs = f.objs
  /\ \A i \in Inode : Copies(NodeOf(g, i), NodeOf(f, i))

LEMMA CalmOwned ==
  ASSUME NEW f \in Systems, NEW g, Calm(f, g), Owned(f)
  PROVE  Owned(g)
<1>1. \A i \in f.imap, p \in Position : Has(g, i, p) = Has(f, i, p)
  BY HasSame DEF Calm, Systems
<1> QED
  BY <1>1 DEF Calm, Owned, OwnedIn

LEMMA CalmTwice ==
  ASSUME NEW f, NEW g, NEW u, Calm(f, g), Calm(g, u)
  PROVE  Calm(f, u)
BY DEF Calm, Copies

(***************************************************************************)
(* The table and the device change, and no inode does.                     *)
(***************************************************************************)
Carried(f, g, i) ==
  /\ \A s \in Valid(f) : f.table[s].num = i => Copies(g.dev_inode[i], f.table[s].node)
  /\ (\A s \in Valid(f) : f.table[s].num # i) => Copies(g.dev_inode[i], f.dev_inode[i])

LEMMA TableChanges ==
  ASSUME NEW f \in Systems, NEW g \in Systems, InMap(f), Once(f), g.imap = f.imap,
         g.zmap = f.zmap, g.lost = f.lost, g.objs = f.objs, Valid(g) \subseteq Valid(f),
         \A s \in Valid(g) : /\ g.table[s].num = f.table[s].num
                             /\ Copies(g.table[s].node, f.table[s].node),
         \A i \in Inode : (\A s \in Valid(g) : g.table[s].num # i) => Carried(f, g, i)
  PROVE  InMap(g) /\ Once(g) /\ Calm(f, g)
<1>1. InMap(g) /\ Once(g)
  BY DEF InMap, Once
<1>2. ASSUME NEW i \in Inode PROVE Copies(NodeOf(g, i), NodeOf(f, i))
  <2>1. CASE \E s \in Valid(g) : g.table[s].num = i
    <3>1. PICK s \in Valid(g) : g.table[s].num = i
      BY <2>1
    <3>2. s \in Valid(f) /\ f.table[s].num = i
      BY <3>1
    <3>3. NodeOf(g, i) = g.table[s].node /\ NodeOf(f, i) = f.table[s].node
      BY <1>1, <3>1, <3>2, NodeAt
    <3> QED
      BY <3>1, <3>3
  <2>2. CASE \A s \in Valid(g) : g.table[s].num # i
    <3>1. Carried(f, g, i) /\ NodeOf(g, i) = g.dev_inode[i]
      BY <2>2, NodeOnDevice
    <3>2. CASE \E s \in Valid(f) : f.table[s].num = i
      BY <3>1, <3>2, NodeAt DEF Carried
    <3>3. CASE \A s \in Valid(f) : f.table[s].num # i
      BY <3>1, <3>3, NodeOnDevice DEF Carried
    <3> QED
      BY <3>2, <3>3
  <2> QED
    BY <2>1, <2>2
<1> QED
  BY <1>1, <1>2 DEF Calm

(***************************************************************************)
(* One slot changes in what is not about zones.                            *)
(***************************************************************************)
RowTo(f, g, s) ==
  /\ g.imap = f.imap /\ g.zmap = f.zmap /\ g.lost = f.lost /\ g.objs = f.objs
  /\ g.dev_inode = f.dev_inode
  /\ \A t \in Slot : t # s => g.table[t] = f.table[t]
  /\ g.table[s].valid = f.table[s].valid /\ g.table[s].num = f.table[s].num
  /\ Copies(g.table[s].node, f.table[s].node)
  /\ f.table[s].valid =>
       g.table[s].dirt \/ Going(g.table[s]) \/ ~(f.table[s].dirt \/ Going(f.table[s]))

LEMMA RowChanges ==
  ASSUME NEW f \in Systems, NEW g \in Systems, NEW h, NEW k, NEW s \in Slot, TableOK(f, h),
         Owned(f), RowTo(f, g, s), \A t \in Slot : t # s => k[t] = h[t],
         g.table[s].cnt = k[s], k[s] > 0 => f.table[s].valid
  PROVE  TableOK(g, k) /\ Owned(g)
<1>1. InMap(f) /\ Once(f) /\ OnDevice(f) /\ CountsOK(f, h)
  BY DEF TableOK
<1>2. Valid(g) = Valid(f)
  BY DEF Valid, RowTo
<1>3. \A t \in Slot : g.table[t].num = f.table[t].num /\ Copies(g.table[t].node, f.table[t].node)
  BY DEF RowTo, Copies
<1>4. ASSUME NEW i \in Inode, \A t \in Valid(g) : g.table[t].num # i PROVE Carried(f, g, i)
  <2>1. \A t \in Valid(f) : f.table[t].num # i
    BY <1>2, <1>3, <1>4 DEF Valid
  <2> QED
    BY <2>1 DEF Carried, Copies, RowTo
<1>5. \A t \in Valid(g) : g.table[t].num = f.table[t].num /\ Copies(g.table[t].node, f.table[t].node)
  BY <1>3 DEF Valid
<1>6. g.imap = f.imap /\ g.zmap = f.zmap /\ g.lost = f.lost /\ g.objs = f.objs
  BY DEF RowTo
<1>7. InMap(g) /\ Once(g) /\ Calm(f, g)
  BY <1>1, <1>2, <1>4, <1>5, <1>6, TableChanges
<1>8. OnDevice(g)
  <2> SUFFICES ASSUME NEW t \in Valid(g)
               PROVE  \/ g.table[t].dirt \/ Going(g.table[t])
                      \/ Copies(g.table[t].node, g.dev_inode[g.table[t].num])
    BY DEF OnDevice
  <2>1. t \in Slot /\ f.table[t].valid
    BY <1>2 DEF Valid
  <2>2. \/ f.table[t].dirt \/ Going(f.table[t])
        \/ Copies(g.table[t].node, g.dev_inode[g.table[t].num])
    BY <1>1, <1>2, <1>3, <2>1, SMTT(60) DEF OnDevice, Copies, RowTo
  <2>3. CASE t = s
    BY <2>1, <2>2, <2>3 DEF RowTo
  <2>4. CASE t # s
    BY <2>1, <2>2, <2>4 DEF RowTo
  <2> QED
    BY <2>3, <2>4
<1>9. CountsOK(g, k)
  <2> SUFFICES ASSUME NEW t \in Slot
               PROVE  g.table[t].cnt = k[t] /\ (k[t] > 0 => g.table[t].valid)
    BY DEF CountsOK
  <2>1. CASE t = s
    BY <2>1 DEF RowTo
  <2>2. CASE t # s
    BY <2>2, <1>1 DEF RowTo, CountsOK
  <2> QED
    BY <2>1, <2>2
<1> QED
  BY <1>7, <1>8, <1>9, CalmOwned DEF TableOK

-----------------------------------------------------------------------------
(***************************************************************************)
(* Slots of the inode table.                                               *)
(***************************************************************************)
LEMMA MaxSlot ==
  ASSUME NEW S \in SUBSET Slot, S # {}
  PROVE  Max(S) \in S
<1> DEFINE n == NR_INODE_BUF - 1
           T == {n - x : x \in S}
<1>1. n \in Nat /\ S \in SUBSET (0..n)
  BY Ranges DEF Slot
<1> HIDE DEF n
<1>2. T \in SUBSET (0..n) /\ T # {} /\ n \in Int
  <2>1. ASSUME NEW x \in S PROVE n - x \in 0..n
    BY <1>1
  <2>2. T \in SUBSET (0..n)
    BY <2>1
  <2>3. T # {}
    OBVIOUS
  <2> QED
    BY <1>1, <2>2, <2>3
<1>3. Min(T) \in T /\ \A x \in T : Min(T) =< x
  BY <1>2, MinIn
<1>4. PICK m \in S : Min(T) = n - m
  BY <1>3
<1>5. ASSUME NEW x \in S PROVE m >= x
  <2>1. n - m =< n - x
    BY <1>3, <1>4
  <2> QED
    BY <2>1, <1>1
<1> QED
  BY <1>4, <1>5 DEF Max

LEMMA Rows ==
  /\ ZeroInode \in DevInode /\ EmptySlot \in Row /\ ~EmptySlot.valid /\ EmptySlot.cnt = 0
  /\ EmptySlot.num = 0 /\ ~EmptySlot.dirt /\ EmptySlot.node = ZeroInode
  /\ ZeroInode.mode = "none" /\ ZeroInode.nlinks = 0 /\ ZeroInode.size = 0
  /\ \A p \in 0..DIRECT : ZeroInode.zone[p] = NoZone
<1>1. [k \in 0..DIRECT |-> NoZone] \in [0..DIRECT -> Zone \cup {NoZone}]
  OBVIOUS
<1>2. ZeroInode \in DevInode
  BY <1>1 DEF ZeroInode, DevInode, InodeMode
<1>3. 0 \in Inode
  BY Ranges DEF ROOT_IND_NR
<1> QED
  BY <1>1, <1>2, <1>3 DEF EmptySlot, ZeroInode, Row

LEMMA Fields ==
  ASSUME NEW f \in Systems
  PROVE  /\ f.table \in [Slot -> Row] /\ f.imap \in SUBSET Inode /\ f.zmap \in SUBSET Zone
         /\ f.dev_inode \in [Inode -> DevInode]
         /\ f.entries \in [Zone -> [DOMAIN NoEntries -> Entry]]
         /\ f.objs \in [Zone -> [DOMAIN NoObjs -> Zone \cup {NoZone}]]
         /\ f.pos \in 0..(NrZones - 1) /\ f.leaks \in [Zone -> Nat] /\ f.lost \in SUBSET Zone
         /\ f.halt \in {"no", "crash", "hang"}
BY DEF Systems

LEMMA RowFields ==
  ASSUME NEW f \in Systems, NEW s \in Slot
  PROVE  /\ f.table[s] \in Row /\ f.table[s].num \in Inode /\ f.table[s].cnt \in Nat
         /\ f.table[s].dirt \in BOOLEAN /\ f.table[s].valid \in BOOLEAN
         /\ f.table[s].node \in DevInode /\ f.table[s].node.mode \in InodeMode
         /\ f.table[s].node.nlinks \in Int /\ f.table[s].node.size \in Nat
         /\ f.table[s].node.zone \in [0..DIRECT -> Zone \cup {NoZone}]
<1>1. f.table[s] \in Row
  BY Fields
<1>2. f.table[s].node \in DevInode
  BY <1>1 DEF Row
<1> QED
  BY <1>1, <1>2 DEF Row, DevInode

(***************************************************************************)
(* What is the same after a step that takes or gives back slots.           *)
(***************************************************************************)
Rest(f, g) ==
  /\ g.zmap = f.zmap /\ g.objs = f.objs /\ g.entries = f.entries
  /\ g.leaks = f.leaks /\ g.lost = f.lost /\ g.pos = f.pos

Cache(f) == InMap(f) /\ Once(f) /\ OnDevice(f)

SyncTo(f, g) ==
  /\ g \in Systems /\ Rest(f, g) /\ g.imap = f.imap /\ g.halt = f.halt
  /\ \A s \in Slot : g.table[s] = IF s \in ToWrite(f) THEN EmptySlot ELSE f.table[s]
  /\ \A i \in Inode :
       (\A s \in ToWrite(f) : f.table[s].num # i) => g.dev_inode[i] = f.dev_inode[i]
  /\ Once(f) => \A s \in ToWrite(f) : g.dev_inode[f.table[s].num] = f.table[s].node

LEMMA SyncGives ==
  ASSUME NEW f \in Systems
  PROVE  SyncTo(f, SyncDevInodes(f))
<1> DEFINE g == SyncDevInodes(f)
           copies(i) == {s \in ToWrite(f) : f.table[s].num = i}
           table == [s \in Slot |-> IF s \in ToWrite(f) THEN EmptySlot ELSE f.table[s]]
           nodes == [i \in Inode |-> IF copies(i) = {} THEN f.dev_inode[i]
                                     ELSE f.table[Max(copies(i))].node]
<1>1. g = [f EXCEPT !.table = table, !.dev_inode = nodes]
  BY DEF SyncDevInodes
<1>2. ToWrite(f) \subseteq Slot
  BY DEF ToWrite
<1>3. table \in [Slot -> Row]
  BY Fields, Rows
<1>4. nodes \in [Inode -> DevInode]
  <2> SUFFICES ASSUME NEW i \in Inode PROVE nodes[i] \in DevInode
    OBVIOUS
  <2>1. CASE copies(i) = {}
    BY <2>1, Fields
  <2>2. CASE copies(i) # {}
    <3>1. Max(copies(i)) \in Slot
      BY <1>2, <2>2, MaxSlot
    <3> QED
      BY <2>2, <3>1, RowFields
  <2> QED
    BY <2>1, <2>2
<1>5. ASSUME NEW i \in Inode, \A s \in ToWrite(f) : f.table[s].num # i
      PROVE  nodes[i] = f.dev_inode[i]
  <2>1. copies(i) = {}
    BY <1>5
  <2> QED
    BY <2>1
<1>6. ASSUME Once(f), NEW s \in ToWrite(f) PROVE nodes[f.table[s].num] = f.table[s].node
  <2>1. s \in Slot /\ f.table[s].num \in Inode
    BY <1>2, RowFields
  <2>2. copies(f.table[s].num) = {s}
    BY <1>6 DEF Once, Valid, ToWrite
  <2>3. Max({s}) = s
    BY <2>1, MaxSlot
  <2> QED
    BY <2>1, <2>2, <2>3
<1> HIDE DEF table, nodes
<1>7. /\ g \in Systems /\ Rest(f, g) /\ g.imap = f.imap /\ g.halt = f.halt
      /\ g.table = table /\ g.dev_inode = nodes
  BY <1>1, <1>3, <1>4 DEF Systems, Rest
<1> HIDE DEF g
<1>8. \A s \in Slot : g.table[s] = IF s \in ToWrite(f) THEN EmptySlot ELSE f.table[s]
  BY <1>7 DEF table
<1> QED
  BY <1>5, <1>6, <1>7, <1>8 DEF SyncTo, g

LEMMA SyncKeeps ==
  ASSUME NEW f \in Systems, Cache(f), NEW g, SyncTo(f, g)
  PROVE  /\ Cache(g) /\ Calm(f, g) /\ Valid(g) \subseteq Valid(f)
         /\ \A s \in Valid(g) : g.table[s] = f.table[s]
<1>1. g \in Systems /\ Rest(f, g) /\ g.imap = f.imap
  BY DEF SyncTo
<1>2. ToWrite(f) \subseteq Valid(f)
  BY DEF ToWrite, Valid
<1>3. Valid(g) = Valid(f) \ ToWrite(f)
  BY Rows DEF Valid, SyncTo
<1>4. \A s \in Valid(g) : g.table[s] = f.table[s]
  BY <1>3 DEF Valid, SyncTo
<1>5. ASSUME NEW i \in Inode, \A s \in Valid(g) : g.table[s].num # i PROVE Carried(f, g, i)
  <2>1. \A s \in Valid(f) : f.table[s].num = i => s \in ToWrite(f)
    BY <1>3, <1>4, <1>5
  <2>2. \A s \in Valid(f) : f.table[s].num = i => Copies(g.dev_inode[i], f.table[s].node)
    BY <2>1 DEF SyncTo, Copies, Cache
  <2>3. (\A s \in Valid(f) : f.table[s].num # i) => Copies(g.dev_inode[i], f.dev_inode[i])
    BY <1>2 DEF SyncTo, Copies
  <2> QED
    BY <2>2, <2>3 DEF Carried
<1>6. InMap(g) /\ Once(g) /\ Calm(f, g)
  BY <1>1, <1>3, <1>4, <1>5, TableChanges DEF Cache, Rest, Copies
<1>7. OnDevice(g)
  <2> SUFFICES ASSUME NEW s \in Valid(g)
               PROVE  \/ g.table[s].dirt \/ Going(g.table[s])
                      \/ Copies(g.table[s].node, g.dev_inode[g.table[s].num])
    BY DEF OnDevice
  <2>1. s \in Slot /\ s \in Valid(f) /\ s \notin ToWrite(f)
    BY <1>3 DEF Valid
  <2>2. f.table[s].num \in Inode
    BY <2>1, RowFields
  <2>3. \A t \in ToWrite(f) : f.table[t].num # f.table[s].num
    BY <1>2, <2>1 DEF Cache, Once
  <2>4. g.dev_inode[f.table[s].num] = f.dev_inode[f.table[s].num]
    BY <2>2, <2>3 DEF SyncTo
  <2> QED
    BY <1>4, <2>1, <2>4 DEF Cache, OnDevice
<1> QED
  BY <1>3, <1>4, <1>6, <1>7 DEF Cache

(***************************************************************************)
(* get_empty_inode(): an empty slot, that nobody held.                     *)
(***************************************************************************)
EmptyTo(f, e) ==
  /\ e.s \in Slot /\ e.f \in Systems /\ Rest(f, e.f) /\ e.f.imap = f.imap
  /\ e = [f |-> e.f, s |-> e.s]
  /\ Runs(e.f) =>
       /\ Runs(f) /\ e.f.table[e.s] = EmptySlot /\ f.table[e.s].cnt = 0
       /\ \A t \in Slot : e.f.table[t].cnt = f.table[t].cnt
       /\ \A t \in Slot : f.table[t].cnt > 0 => e.f.table[t] = f.table[t]
       /\ Valid(e.f) \subseteq Valid(f) /\ \A t \in Valid(e.f) : e.f.table[t] = f.table[t]
       /\ Cache(f) => Cache(e.f) /\ Calm(f, e.f)

LEMMA TakeSlotGives ==
  ASSUME NEW f \in Systems
  PROVE  EmptyTo(f, TakeVacant(f))
<1> DEFINE s == First(Vacant(f), None)
           e == TakeVacant(f)
           g == [f EXCEPT !.table[s] = EmptySlot]
<1>1. Vacant(f) \subseteq Slot
  BY DEF Vacant
<1>2. CASE Vacant(f) = {}
  <2>1. e = [f |-> [f EXCEPT !.halt = "hang"], s |-> 0]
    BY <1>2 DEF TakeVacant, TakeSlot, First
  <2>2. [f EXCEPT !.halt = "hang"] \in Systems /\ Rest(f, [f EXCEPT !.halt = "hang"])
    BY DEF Systems, Rest
  <2>3. [f EXCEPT !.halt = "hang"].imap = f.imap /\ ~Runs([f EXCEPT !.halt = "hang"])
    BY DEF Systems, Runs
  <2> DEFINE u == [f EXCEPT !.halt = "hang"]
  <2> HIDE DEF u, e
  <2>4. e.f = u /\ e.s = 0 /\ e = [f |-> e.f, s |-> e.s] /\ 0 \in Slot
    BY <2>1, Ranges DEF u
  <2>5. u \in Systems /\ Rest(f, u) /\ u.imap = f.imap /\ ~Runs(u)
    BY <2>2, <2>3 DEF u
  <2>6. EmptyTo(f, e)
    BY <2>4, <2>5 DEF EmptyTo
  <2> QED
    BY <2>6 DEF e
<1>3. CASE Vacant(f) # {}
  <2>1. s \in Vacant(f) /\ s \in Slot
    BY <1>1, <1>3, MinSlot DEF First
  <2> HIDE DEF s
  <2>2. e = [f |-> g, s |-> s]
    BY <2>1, Ranges DEF TakeVacant, TakeSlot, s
  <2>3. /\ g \in Systems /\ Rest(f, g) /\ g.imap = f.imap /\ g.halt = f.halt
        /\ g.dev_inode = f.dev_inode /\ g.table[s] = EmptySlot
        /\ \A t \in Slot : t # s => g.table[t] = f.table[t]
    BY <2>1, Rows DEF Systems, Rest
  <2> HIDE DEF g
  <2>4. f.table[s].cnt = 0 /\ ~(f.table[s].dirt /\ f.table[s].valid)
    BY <2>1 DEF Vacant
  <2>5. /\ \A t \in Slot : g.table[t].cnt = f.table[t].cnt
        /\ \A t \in Slot : f.table[t].cnt > 0 => g.table[t] = f.table[t]
    BY <2>3, <2>4, Rows
  <2>6. Valid(g) = Valid(f) \ {s} /\ \A t \in Valid(g) : g.table[t] = f.table[t]
    BY <2>3, Rows DEF Valid
  <2>7. ASSUME Cache(f) PROVE Cache(g) /\ Calm(f, g)
    <3>1. ASSUME NEW i \in Inode, \A t \in Valid(g) : g.table[t].num # i PROVE Carried(f, g, i)
      <4>1. \A t \in Valid(f) : f.table[t].num = i => t = s
        BY <2>6, <3>1
      <4>2. ASSUME s \in Valid(f), f.table[s].num = i
            PROVE  Copies(g.dev_inode[i], f.table[s].node)
        BY <2>3, <2>4, <2>7, <4>2 DEF Cache, OnDevice, Valid, Going, Copies
      <4> QED
        BY <2>3, <4>1, <4>2 DEF Carried, Copies
    <3>2. InMap(g) /\ Once(g) /\ Calm(f, g)
      BY <2>3, <2>6, <2>7, <3>1, TableChanges DEF Cache, Rest, Copies
    <3>3. OnDevice(g)
      BY <2>3, <2>6, <2>7 DEF Cache, OnDevice
    <3> QED
      BY <3>2, <3>3 DEF Cache
  <2>8. e.f = g /\ e.s = s /\ e = [f |-> e.f, s |-> e.s]
    BY <2>2
  <2> HIDE DEF e
  <2>9. Runs(g) => Runs(f)
    BY <2>3 DEF Runs
  <2>10. /\ e.s \in Slot /\ e.f \in Systems /\ Rest(f, e.f) /\ e.f.imap = f.imap
         /\ e = [f |-> e.f, s |-> e.s]
    BY <2>1, <2>3, <2>8
  <2>11. EmptyTo(f, e)
    BY <2>3, <2>4, <2>5, <2>6, <2>7, <2>8, <2>9, <2>10 DEF EmptyTo
  <2> QED
    BY <2>11 DEF e
<1> QED
  BY <1>2, <1>3

\* The slot that is found loses a copy that nobody needs; others may be written.
LEMMA GetEmptyGives ==
  ASSUME NEW f \in Systems
  PROVE  EmptyTo(f, GetEmptyInode(f))
<1>1. CASE Vacant(f) # {}
  BY <1>1, TakeSlotGives DEF GetEmptyInode
<1>2. CASE Vacant(f) = {}
  <2> DEFINE g == SyncDevInodes(f)
             e == TakeVacant(g)
  <2>1. GetEmptyInode(f) = e
    BY <1>2 DEF GetEmptyInode
  <2>2. SyncTo(f, g)
    BY SyncGives
  <2> HIDE DEF g
  <2>3. g \in Systems /\ Rest(f, g) /\ g.imap = f.imap /\ g.halt = f.halt
    BY <2>2 DEF SyncTo
  <2>4. EmptyTo(g, e)
    BY <2>3, TakeSlotGives
  <2> HIDE DEF e
  <2>5. \A t \in Slot : g.table[t].cnt = f.table[t].cnt
    BY <2>2, Rows DEF SyncTo, ToWrite
  <2>6. \A t \in Slot : f.table[t].cnt > 0 => g.table[t] = f.table[t]
    BY <2>2 DEF SyncTo, ToWrite
  <2>7. Valid(g) \subseteq Valid(f) /\ \A t \in Valid(g) : g.table[t] = f.table[t]
    BY <2>2, Rows DEF SyncTo, Valid
  <2>8. ASSUME Cache(f) PROVE Cache(g) /\ Calm(f, g)
    BY <2>2, <2>8, SyncKeeps
  <2>9. /\ e.s \in Slot /\ e.f \in Systems /\ Rest(f, e.f) /\ e.f.imap = f.imap
        /\ e = [f |-> e.f, s |-> e.s]
    BY <2>3, <2>4 DEF EmptyTo, Rest
  <2>10. ASSUME Runs(e.f)
         PROVE  /\ Runs(f) /\ e.f.table[e.s] = EmptySlot /\ f.table[e.s].cnt = 0
                /\ \A t \in Slot : e.f.table[t].cnt = f.table[t].cnt
                /\ \A t \in Slot : f.table[t].cnt > 0 => e.f.table[t] = f.table[t]
                /\ Valid(e.f) \subseteq Valid(f) /\ \A t \in Valid(e.f) : e.f.table[t] = f.table[t]
    BY <2>3, <2>4, <2>5, <2>6, <2>7, <2>9, <2>10 DEF EmptyTo, Runs
  <2>11. ASSUME Runs(e.f), Cache(f) PROVE Cache(e.f) /\ Calm(f, e.f)
    BY <2>4, <2>8, <2>11, CalmTwice DEF EmptyTo
  <2> QED
    BY <2>1, <2>9, <2>10, <2>11 DEF EmptyTo
<1> QED
  BY <1>1, <1>2

(***************************************************************************)
(* The empty slot is taken for inode i.                                    *)
(***************************************************************************)
With(h, s) == IF s = None THEN h ELSE [h EXCEPT ![s] = @ + 1]

LEMMA WithIs ==
  ASSUME NEW h \in [Slot -> Nat], NEW s \in Slot \cup {None}
  PROVE  /\ With(h, s) \in [Slot -> Nat]
         /\ s = None => With(h, s) = h
         /\ s # None => With(h, s)[s] = h[s] + 1
         /\ \A t \in Slot : t # s => With(h, s)[t] = h[t]
         /\ \A t \in Slot : With(h, s)[t] >= h[t]
BY Ranges DEF With

HeldRow(i, dirt, node) == [num |-> i, cnt |-> 1, dirt |-> dirt, valid |-> TRUE, node |-> node]

IsHeld(f, g, s, i, dirt, node) == g = [f EXCEPT !.table[s] = HeldRow(i, dirt, node)]

HeldTo(f, h, s, i, dirt, node, g) ==
  /\ g \in Systems /\ TableOK(g, With(h, s)) /\ g.imap = f.imap /\ Rest(f, g)
  /\ g.halt = f.halt /\ g.table[s] = HeldRow(i, dirt, node)
  /\ NodeOf(g, i) = node
  /\ \A j \in Inode : j # i => Copies(NodeOf(g, j), NodeOf(f, j))
  /\ \A t \in Slot : t # s => g.table[t] = f.table[t]

LEMMA HoldKeeps ==
  ASSUME NEW f \in Systems, NEW h \in [Slot -> Nat], TableOK(f, h), NEW s \in Slot,
         f.table[s] = EmptySlot, NEW i \in f.imap, \A t \in Valid(f) : f.table[t].num # i,
         NEW dirt \in BOOLEAN, NEW node \in DevInode, dirt \/ Copies(node, f.dev_inode[i]),
         NEW g, IsHeld(f, g, s, i, dirt, node)
  PROVE  HeldTo(f, h, s, i, dirt, node, g)
<1>1. i \in Inode /\ HeldRow(i, dirt, node) \in Row
  BY Fields DEF HeldRow, Row
<1>2. /\ g \in Systems /\ g.imap = f.imap /\ Rest(f, g) /\ g.halt = f.halt
      /\ g.dev_inode = f.dev_inode /\ g.table[s] = HeldRow(i, dirt, node)
      /\ \A t \in Slot : t # s => g.table[t] = f.table[t]
  BY <1>1 DEF Systems, Rest, IsHeld
<1>3. s \notin Valid(f) /\ Valid(g) = Valid(f) \cup {s} /\ s \in Valid(g)
  BY <1>2, Rows DEF Valid, HeldRow
<1>4. g.table[s].num = i /\ g.table[s].cnt = 1 /\ g.table[s].valid /\ g.table[s].node = node
      /\ g.table[s].dirt = dirt
  BY <1>2 DEF HeldRow
<1>5. \A t \in Valid(f) : t # s /\ g.table[t] = f.table[t]
  BY <1>2, <1>3 DEF Valid
<1>6. InMap(f) /\ Once(f) /\ OnDevice(f) /\ CountsOK(f, h)
  BY DEF TableOK
<1>7. InMap(g) /\ Once(g)
  BY <1>2, <1>3, <1>4, <1>5, <1>6 DEF InMap, Once
<1>8. OnDevice(g)
  BY <1>2, <1>3, <1>4, <1>5, <1>6 DEF OnDevice
<1>9. CountsOK(g, With(h, s))
  <2> SUFFICES ASSUME NEW t \in Slot
               PROVE  /\ g.table[t].cnt = With(h, s)[t]
                      /\ With(h, s)[t] > 0 => g.table[t].valid
    BY DEF CountsOK
  <2>1. CASE t = s
    <3>1. h[s] = 0 /\ With(h, s)[s] = h[s] + 1
      BY <1>6, Rows, WithIs, Ranges DEF CountsOK
    <3> QED
      BY <2>1, <3>1, <1>4
  <2>2. CASE t # s
    BY <2>2, <1>2, <1>6, WithIs DEF CountsOK
  <2> QED
    BY <2>1, <2>2
<1>10. NodeOf(g, i) = node
  <2>1. NodeOf(g, g.table[s].num) = g.table[s].node
    BY <1>2, <1>3, <1>7, NodeAt
  <2> QED
    BY <2>1, <1>4
<1>11. ASSUME NEW j \in Inode, j # i PROVE Copies(NodeOf(g, j), NodeOf(f, j))
  <2>1. CASE \E t \in Valid(f) : f.table[t].num = j
    <3>1. PICK t \in Valid(f) : f.table[t].num = j
      BY <2>1
    <3>2. t \in Valid(g) /\ g.table[t] = f.table[t]
      BY <1>3, <1>5
    <3>3. NodeOf(g, g.table[t].num) = g.table[t].node
      BY <3>2, <1>2, <1>7, NodeAt
    <3>4. NodeOf(f, f.table[t].num) = f.table[t].node
      BY <3>1, <1>6, NodeAt
    <3> QED
      BY <3>1, <3>2, <3>3, <3>4 DEF Copies
  <2>2. CASE \A t \in Valid(f) : f.table[t].num # j
    <3>1. \A t \in Valid(g) : g.table[t].num # j
      BY <2>2, <1>3, <1>4, <1>5, <1>11
    <3>2. NodeOf(g, j) = g.dev_inode[j]
      BY <3>1, <1>2, NodeOnDevice
    <3>3. NodeOf(f, j) = f.dev_inode[j]
      BY <2>2, NodeOnDevice
    <3> QED
      BY <3>2, <3>3, <1>2 DEF Copies
  <2> QED
    BY <2>1, <2>2
<1> QED
  BY <1>2, <1>7, <1>8, <1>9, <1>10, <1>11 DEF TableOK, HeldTo

-----------------------------------------------------------------------------
(***************************************************************************)
(* Whose the zones are after a step.                                       *)
(***************************************************************************)
LEMMA OwnedAs ==
  ASSUME NEW f, NEW g, NEW Z, OwnedIn(f, Z), g.imap = f.imap, g.lost = f.lost,
         \A i \in f.imap, p \in Position : Has(g, i, p) = Has(f, i, p)
  PROVE  OwnedIn(g, Z)
BY DEF OwnedIn

\* Zone z is given to inode i, at position p.
LEMMA OwnedMore ==
  ASSUME NEW f, NEW g, NEW Z, NoZone \notin Z, NEW z, z \notin Z, z # NoZone, OwnedIn(f, Z),
         g.imap = f.imap, g.lost = f.lost, NEW i \in f.imap, NEW p \in Position,
         Has(f, i, p) = NoZone, Has(g, i, p) = z,
         \A j \in f.imap, q \in Position : j # i \/ q # p => Has(g, j, q) = Has(f, j, q)
  PROVE  OwnedIn(g, Z \cup {z})
<1>1. z \notin f.lost
  BY DEF OwnedIn
<1>2. \A j \in f.imap, q \in Position : j # i \/ q # p => Has(g, j, q) # z
  BY DEF OwnedIn
<1>3. ASSUME NEW j \in g.imap, NEW q \in Position, Has(g, j, q) # NoZone
      PROVE  Has(g, j, q) \in Z \cup {z} /\ Has(g, j, q) \notin g.lost
  BY <1>1, <1>3 DEF OwnedIn
<1>4. ASSUME NEW j \in g.imap, NEW k \in g.imap, NEW q \in Position, NEW r \in Position,
             Has(g, j, q) # NoZone, Has(g, j, q) = Has(g, k, r)
      PROVE  j = k /\ q = r
  <2>1. CASE j = i /\ q = p
    BY <1>2, <1>4, <2>1
  <2>2. CASE k = i /\ r = p
    BY <1>2, <1>4, <2>2
  <2>3. CASE (j # i \/ q # p) /\ (k # i \/ r # p)
    BY <1>4, <2>3 DEF OwnedIn
  <2> QED
    BY <2>1, <2>2, <2>3
<1>5. g.lost \subseteq Z \cup {z}
  BY DEF OwnedIn
<1>6. ASSUME NEW y \in Z \cup {z}
      PROVE  y \in g.lost \/ \E j \in g.imap, q \in Position : Has(g, j, q) = y
  <2>1. CASE y = z
    BY <2>1
  <2>2. CASE y \in Z /\ y \notin f.lost
    <3>1. PICK j \in f.imap, q \in Position : Has(f, j, q) = y
      BY <2>2 DEF OwnedIn
    <3> QED
      BY <2>2, <3>1
  <2> QED
    BY <2>1, <2>2, <1>6
<1> QED
  BY <1>3, <1>4, <1>5, <1>6 DEF OwnedIn

ZonesAre(f, i, S) == \A z : z \in S <=> z # NoZone /\ \E p \in Position : Has(f, i, p) = z

\* Inode i goes, and its zones are free (A) or lost (B).
LEMMA OwnedLess ==
  ASSUME NEW f, NEW g, NEW Z, NoZone \notin Z, OwnedIn(f, Z), NEW i \in f.imap,
         g.imap = f.imap \ {i},
         NEW A, NEW B, A \cap B = {}, g.lost = f.lost \cup B,
         ZonesAre(f, i, A \cup B),
         \A j \in g.imap, p \in Position : Has(g, j, p) = Has(f, j, p)
  PROVE  OwnedIn(g, Z \ A)
<1>1. A \cup B \subseteq Z /\ A \cap f.lost = {}
  BY DEF OwnedIn, ZonesAre
<1>2. ASSUME NEW j \in g.imap, NEW p \in Position, Has(g, j, p) # NoZone
      PROVE  Has(g, j, p) \notin A \cup B
  BY <1>2 DEF OwnedIn, ZonesAre
<1>3. ASSUME NEW j \in g.imap, NEW p \in Position, Has(g, j, p) # NoZone
      PROVE  Has(g, j, p) \in Z \ A /\ Has(g, j, p) \notin g.lost
  BY <1>2, <1>3 DEF OwnedIn
<1>4. \A j, k \in g.imap, q, r \in Position :
        Has(g, j, q) # NoZone /\ Has(g, j, q) = Has(g, k, r) => j = k /\ q = r
  BY DEF OwnedIn
<1>5. g.lost \subseteq Z \ A
  BY <1>1 DEF OwnedIn
<1>6. ASSUME NEW y \in Z \ A
      PROVE  y \in g.lost \/ \E j \in g.imap, q \in Position : Has(g, j, q) = y
  <2>1. SUFFICES ASSUME y \notin f.lost, y \notin B
                 PROVE  \E j \in g.imap, q \in Position : Has(g, j, q) = y
    OBVIOUS
  <2>2. PICK j \in f.imap, q \in Position : Has(f, j, q) = y
    BY <2>1 DEF OwnedIn
  <2>3. j # i
    BY <1>6, <2>1, <2>2 DEF ZonesAre
  <2> QED
    BY <2>2, <2>3
<1> QED
  BY <1>3, <1>4, <1>5, <1>6 DEF OwnedIn

\* Inode i is new, and has no zones.
LEMMA OwnedNew ==
  ASSUME NEW f, NEW g, NEW Z, OwnedIn(f, Z), NEW i, g.imap = f.imap \cup {i},
         g.lost = f.lost, \A p \in Position : Has(g, i, p) = NoZone,
         \A j \in f.imap, p \in Position : Has(g, j, p) = Has(f, j, p)
  PROVE  OwnedIn(g, Z)
<1>1. ASSUME NEW j \in g.imap, NEW p \in Position, Has(g, j, p) # NoZone
      PROVE  j \in f.imap /\ Has(g, j, p) = Has(f, j, p)
  BY <1>1
<1>2. \A j \in g.imap, p \in Position :
        Has(g, j, p) # NoZone => Has(g, j, p) \in Z /\ Has(g, j, p) \notin g.lost
  BY <1>1 DEF OwnedIn
<1>3. \A j, k \in g.imap, q, r \in Position :
        Has(g, j, q) # NoZone /\ Has(g, j, q) = Has(g, k, r) => j = k /\ q = r
  BY <1>1 DEF OwnedIn
<1>4. \A z \in Z : z \in g.lost \/ \E j \in g.imap, p \in Position : Has(g, j, p) = z
  BY DEF OwnedIn
<1> QED
  BY <1>2, <1>3, <1>4 DEF OwnedIn

LEMMA BlankHas ==
  ASSUME NEW f, NEW i, \A k \in 0..DIRECT : NodeOf(f, i).zone[k] = NoZone, NEW p \in Position
  PROVE  Has(f, i, p) = NoZone
<1>1. DIRECT \in 0..DIRECT /\ (p <= DIRECT => p \in 0..DIRECT)
  BY Ranges DEF Position
<1> QED
  BY <1>1 DEF Has, ZoneIn

(***************************************************************************)
(* The inode in slot s changes.                                            *)
(***************************************************************************)
NodeTo(f, g, s) ==
  /\ g.imap = f.imap /\ g.dev_inode = f.dev_inode
  /\ \A t \in Slot : t # s => g.table[t] = f.table[t]
  /\ g.table[s].valid /\ g.table[s].num = f.table[s].num /\ g.table[s].cnt = f.table[s].cnt
  /\ g.table[s].dirt \/ Going(g.table[s])

LEMMA NodeChanges ==
  ASSUME NEW f \in Systems, NEW g \in Systems, NEW h, TableOK(f, h), NEW s \in Valid(f),
         NodeTo(f, g, s)
  PROVE  /\ TableOK(g, h)
         /\ NodeOf(f, f.table[s].num) = f.table[s].node
         /\ NodeOf(g, f.table[s].num) = g.table[s].node
         /\ \A j \in Inode : j # f.table[s].num => NodeOf(g, j) = NodeOf(f, j)
<1>1. InMap(f) /\ Once(f) /\ OnDevice(f) /\ CountsOK(f, h) /\ s \in Slot
  BY DEF TableOK, Valid
<1>2. Valid(g) = Valid(f) /\ \A t \in Slot : g.table[t].num = f.table[t].num
  BY DEF NodeTo, Valid
<1>3. InMap(g) /\ Once(g)
  BY <1>1, <1>2 DEF InMap, Once, NodeTo, Valid
<1>4. OnDevice(g)
  BY <1>1, <1>2 DEF OnDevice, NodeTo, Valid
<1>5. CountsOK(g, h)
  BY <1>1 DEF CountsOK, NodeTo, Valid
<1>6. NodeOf(f, f.table[s].num) = f.table[s].node
  BY <1>1, NodeAt
<1>7. NodeOf(g, g.table[s].num) = g.table[s].node
  BY <1>2, <1>3, NodeAt
<1>8. ASSUME NEW j \in Inode, j # f.table[s].num PROVE NodeOf(g, j) = NodeOf(f, j)
  <2>1. CASE \A t \in Valid(f) : f.table[t].num # j
    <3>1. \A t \in Valid(g) : g.table[t].num # j
      BY <1>2, <2>1 DEF Valid
    <3>2. NodeOf(g, j) = g.dev_inode[j] /\ NodeOf(f, j) = f.dev_inode[j]
      BY <2>1, <3>1, NodeOnDevice
    <3> QED
      BY <3>2 DEF NodeTo
  <2>2. CASE \E t \in Valid(f) : f.table[t].num = j
    <3>1. PICK t \in Valid(f) : f.table[t].num = j
      BY <2>2
    <3>2. t \in Slot /\ t # s /\ t \in Valid(g) /\ g.table[t] = f.table[t]
      BY <1>2, <1>8, <3>1 DEF Valid, NodeTo
    <3>3. NodeOf(f, f.table[t].num) = f.table[t].node
      BY <3>1, <1>1, NodeAt
    <3>4. NodeOf(g, g.table[t].num) = g.table[t].node
      BY <3>2, <1>3, NodeAt
    <3> QED
      BY <3>1, <3>2, <3>3, <3>4
  <2> QED
    BY <2>1, <2>2
<1> QED
  BY <1>2, <1>3, <1>4, <1>5, <1>6, <1>7, <1>8, <1>1 DEF TableOK

(***************************************************************************)
(* What is not about inodes and zones changes.                             *)
(***************************************************************************)
SameTo(f, g) ==
  /\ g.table = f.table /\ g.imap = f.imap /\ g.zmap = f.zmap /\ g.dev_inode = f.dev_inode
  /\ g.objs = f.objs /\ g.lost = f.lost

LEMMA SameHolds ==
  ASSUME NEW f, NEW g \in Systems, NEW h, Holds(f, h), SameTo(f, g), Runs(g) => Runs(f)
  PROVE  Holds(g, h)
<1>1. SUFFICES ASSUME Runs(g) PROVE TableOK(g, h) /\ Owned(g)
  BY DEF Holds
<1>2. TableOK(f, h) /\ Owned(f)
  BY <1>1 DEF Holds
<1>3. TableOK(g, h)
  BY <1>2 DEF TableOK, InMap, Once, OnDevice, CountsOK, Valid, SameTo
<1>4. \A i \in f.imap, p \in Position : Has(g, i, p) = Has(f, i, p)
  BY DEF Has, NodeOf, Cached, ZoneIn, SameTo
<1>5. OwnedIn(g, f.zmap)
  BY <1>2, <1>4, OwnedAs DEF Owned, SameTo
<1> QED
  BY <1>3, <1>5 DEF Owned, SameTo

-----------------------------------------------------------------------------
(***************************************************************************)
(* iget() and new_inode(): the inode that is found is held once more.      *)
(***************************************************************************)
Way(v, h) == v.s \in Slot \cup {None} /\ Holds(v.f, With(h, v.s))

LEMMA HoldIs ==
  ASSUME NEW f, NEW e, EmptyTo(f, e), NEW i \in Inode, NEW dirt \in BOOLEAN,
         NEW node \in DevInode
  PROVE  LET v == Hold(e, i, dirt, node)
             g == [e.f EXCEPT !.table[e.s] = HeldRow(i, dirt, node)]
         IN  v = [f |-> g, s |-> e.s] /\ g \in Systems /\ g.halt = e.f.halt
<1> DEFINE g == [e.f EXCEPT !.table[e.s] = HeldRow(i, dirt, node)]
<1>1. e.s \in Slot /\ e.f \in Systems /\ e = [f |-> e.f, s |-> e.s]
  BY DEF EmptyTo
<1>2. HeldRow(i, dirt, node) \in Row
  BY DEF HeldRow, Row
<1>3. g \in Systems /\ g.halt = e.f.halt
  BY <1>1, <1>2 DEF Systems
<1>4. Hold(e, i, dirt, node) = [e EXCEPT !.f.table[e.s] = HeldRow(i, dirt, node)]
  BY DEF Hold, HeldRow
<1> DEFINE ef == e.f
           es == e.s
<1>5. e = [f |-> ef, s |-> es]
  BY <1>1
<1> HIDE DEF ef, es
<1>6. [e EXCEPT !.f.table[es] = HeldRow(i, dirt, node)]
        = [f |-> [ef EXCEPT !.table[es] = HeldRow(i, dirt, node)], s |-> es]
  BY <1>5
<1> QED
  BY <1>3, <1>4, <1>6 DEF ef, es

\* The counts of a slot that was empty.
LEMMA EmptyKeeps ==
  ASSUME NEW f \in Systems, NEW h, TableOK(f, h), NEW e, EmptyTo(f, e), Runs(e.f)
  PROVE  TableOK(e.f, h) /\ Calm(f, e.f) /\ h[e.s] = 0
<1>1. Cache(f) /\ CountsOK(f, h)
  BY DEF TableOK, Cache
<1>2. Cache(e.f) /\ Calm(f, e.f) /\ e.s \in Slot
  BY <1>1 DEF EmptyTo
<1>3. CountsOK(e.f, h)
  <2> SUFFICES ASSUME NEW t \in Slot
               PROVE  e.f.table[t].cnt = h[t] /\ (h[t] > 0 => e.f.table[t].valid)
    BY DEF CountsOK
  <2> QED
    BY <1>1 DEF CountsOK, EmptyTo
<1>4. h[e.s] = 0
  BY <1>1, <1>2 DEF CountsOK, EmptyTo
<1> QED
  BY <1>2, <1>3, <1>4 DEF TableOK, Cache

\* The inode in use once more, from the table or from the device; or none.
LEMMA IgetHolds ==
  ASSUME NEW f, NEW h \in [Slot -> Nat], Holds(f, h), NEW i \in Inode
  PROVE  Way(Iget(f, i), h)
<1>1. f \in Systems
  BY DEF Holds
<1> DEFINE v == Iget(f, i)
<1>2. CASE i \notin f.imap
  <2>1. v = [f |-> f, s |-> None]
    BY <1>2 DEF Iget
  <2> QED
    BY <2>1, WithIs DEF Way
<1>3. CASE i \in f.imap /\ Cached(f, i) # {}
  <2> DEFINE s == Min(Cached(f, i))
             g == [f EXCEPT !.table[s].cnt = @ + 1]
  <2>1. v = [f |-> g, s |-> s]
    BY <1>3 DEF Iget
  <2>2. s \in Slot /\ f.table[s].valid /\ f.table[s].num = i
    <3>1. Cached(f, i) \subseteq Slot
      BY DEF Cached
    <3>2. s \in Cached(f, i)
      BY <3>1, <1>3, MinSlot
    <3> QED
      BY <3>2 DEF Cached
  <2> HIDE DEF s
  <2>3. f.table[s] \in Row /\ f.table[s].cnt \in Nat
    BY <1>1, <2>2, RowFields
  <2> DEFINE r == [f.table[s] EXCEPT !.cnt = f.table[s].cnt + 1]
  <2>4. r \in Row /\ g = [f EXCEPT !.table[s] = r]
    BY <2>3 DEF Row
  <2>5. r.cnt = f.table[s].cnt + 1 /\ r.valid = f.table[s].valid /\ r.num = f.table[s].num
        /\ r.node = f.table[s].node /\ r.dirt = f.table[s].dirt
    BY <2>3 DEF Row
  <2> HIDE DEF r
  <2>6. g \in Systems /\ g.halt = f.halt /\ g.table[s] = r
        /\ \A t \in Slot : t # s => g.table[t] = f.table[t]
    BY <1>1, <2>2, <2>4, ZenonT(60) DEF Systems
  <2>7. /\ g.imap = f.imap /\ g.zmap = f.zmap /\ g.lost = f.lost /\ g.objs = f.objs
        /\ g.dev_inode = f.dev_inode
    BY <1>1, <2>4 DEF Systems
  <2> HIDE DEF g
  <2>8. RowTo(f, g, s)
    <3>1. Going(f.table[s]) => Going(g.table[s])
      BY <2>3, <2>5, <2>6 DEF Going
    <3> QED
      BY <2>5, <2>6, <2>7, <3>1 DEF RowTo, Copies
  <2>9. ASSUME Runs(g) PROVE TableOK(g, With(h, s)) /\ Owned(g)
    <3>1. TableOK(f, h) /\ Owned(f)
      BY <2>6, <2>9 DEF Holds, Runs
    <3>2. g.table[s].cnt = With(h, s)[s] /\ \A t \in Slot : t # s => With(h, s)[t] = h[t]
      <4>1. s # None /\ s \in Slot \cup {None}
        BY <2>2, Ranges
      <4>2. With(h, s)[s] = h[s] + 1 /\ \A t \in Slot : t # s => With(h, s)[t] = h[t]
        BY <4>1, WithIs
      <4>3. f.table[s].cnt = h[s]
        BY <2>2, <3>1 DEF TableOK, CountsOK
      <4> QED
        BY <2>5, <2>6, <4>2, <4>3
    <3> QED
      BY <1>1, <2>2, <2>6, <2>8, <3>1, <3>2, RowChanges
  <2> HIDE DEF v
  <2>10. Holds(g, With(h, s)) /\ v.f = g /\ v.s = s
    BY <2>1, <2>6, <2>9 DEF Holds
  <2>11. Way(v, h)
    BY <2>2, <2>10 DEF Way
  <2> QED
    BY <2>11 DEF v
<1>4. CASE i \in f.imap /\ Cached(f, i) = {}
  <2> DEFINE e == GetEmptyInode(f)
             node == f.dev_inode[i]
             g == [e.f EXCEPT !.table[e.s] = HeldRow(i, FALSE, node)]
  <2>1. EmptyTo(f, e) /\ node \in DevInode
    BY <1>1, GetEmptyGives, Fields
  <2>2. v = Hold(e, i, FALSE, node)
    BY <1>4 DEF Iget
  <2> HIDE DEF e, node
  <2>3. v = [f |-> g, s |-> e.s] /\ g \in Systems /\ g.halt = e.f.halt
    BY <2>1, <2>2, HoldIs
  <2>4. ASSUME Runs(g) PROVE TableOK(g, With(h, e.s)) /\ Owned(g)
    <3>1. Runs(e.f)
      BY <2>3, <2>4 DEF Runs
    <3>2. TableOK(f, h) /\ Owned(f)
      BY <2>1, <3>1 DEF Holds, EmptyTo
    <3>3. TableOK(e.f, h) /\ Calm(f, e.f)
      BY <1>1, <2>1, <3>1, <3>2, EmptyKeeps
    <3>4. /\ e.f \in Systems /\ e.s \in Slot /\ e.f.table[e.s] = EmptySlot /\ e.f.imap = f.imap
          /\ Valid(e.f) \subseteq Valid(f) /\ Rest(f, e.f)
          /\ \A t \in Valid(e.f) : e.f.table[t] = f.table[t]
      BY <2>1, <3>1 DEF EmptyTo
    <3>5. \A t \in Valid(f) : f.table[t].num # i
      BY <1>4 DEF Cached, Valid
    <3>6. \A t \in Valid(e.f) : e.f.table[t].num # i
      BY <3>4, <3>5
    <3>7. NodeOf(f, i) = f.dev_inode[i]
      BY <1>1, <3>5, NodeOnDevice
    <3>8. NodeOf(e.f, i) = e.f.dev_inode[i]
      BY <3>4, <3>6, NodeOnDevice
    <3>9. Copies(node, e.f.dev_inode[i])
      BY <3>3, <3>7, <3>8 DEF Calm, Copies, node
    <3>10. HeldTo(e.f, h, e.s, i, FALSE, node, g)
      <4> DEFINE ef == e.f
                 es == e.s
      <4>1. IsHeld(ef, g, es, i, FALSE, node)
        BY DEF IsHeld
      <4> HIDE DEF g
      <4>2. /\ ef \in Systems /\ TableOK(ef, h) /\ es \in Slot /\ ef.table[es] = EmptySlot
            /\ i \in ef.imap /\ \A t \in Valid(ef) : ef.table[t].num # i
            /\ Copies(node, ef.dev_inode[i])
        BY <1>4, <3>3, <3>4, <3>6, <3>9
      <4> HIDE DEF ef, es
      <4>3. HeldTo(ef, h, es, i, FALSE, node, g)
        BY <2>1, <4>1, <4>2, HoldKeeps
      <4> QED
        BY <4>3 DEF ef, es
    <3>11. ASSUME NEW j \in Inode PROVE Copies(NodeOf(g, j), NodeOf(f, j))
      <4>1. CASE j = i
        BY <4>1, <3>7, <3>10 DEF Copies, node, HeldTo
      <4>2. CASE j # i
        BY <4>2, <3>3, <3>10 DEF Calm, Copies, HeldTo
      <4> QED
        BY <4>1, <4>2
    <3> HIDE DEF g
    <3>12. Calm(f, g)
      BY <3>4, <3>10, <3>11 DEF Calm, Rest, HeldTo
    <3>13. Owned(g)
      BY <1>1, <3>2, <3>12, CalmOwned
    <3> QED
      BY <3>10, <3>13 DEF HeldTo
  <2>5. e.s \in Slot
    BY <2>1 DEF EmptyTo
  <2> HIDE DEF g, v
  <2>6. v.f = g /\ v.s = e.s /\ Holds(g, With(h, e.s))
    BY <2>3, <2>4 DEF Holds
  <2>7. Way(v, h)
    BY <2>5, <2>6 DEF Way
  <2> QED
    BY <2>7 DEF v
<1> QED
  BY <1>2, <1>3, <1>4

Blank(r) == r.valid /\ r.dirt /\ r.node.mode = "none" /\ \A k \in 0..DIRECT : r.node.zone[k] = NoZone

\* A way on which the command keeps what it holds, and the slot n is a new inode.
MadeTo(f, h, v) ==
  /\ Way(v, h)
  /\ Runs(v.f) =>
       /\ Runs(f) /\ \A t \in Slot : h[t] > 0 => v.f.table[t] = f.table[t]
       /\ v.s # None => h[v.s] = 0 /\ Blank(v.f.table[v.s])

LEMMA NewInodeHolds ==
  ASSUME NEW f, NEW h \in [Slot -> Nat], Holds(f, h)
  PROVE  MadeTo(f, h, NewInode(f))
<1>1. f \in Systems /\ f.imap \in SUBSET Inode
  BY Fields DEF Holds
<1> DEFINE v == NewInode(f)
<1>2. CASE Inode \ f.imap = {}
  <2>1. v = [f |-> f, s |-> None]
    BY <1>2 DEF NewInode, MakeInode, First
  <2>2. Way(v, h) /\ v.s = None /\ v.f = f
    BY <2>1, WithIs DEF Way
  <2> QED
    BY <2>2 DEF MadeTo
<1>3. CASE Inode \ f.imap # {}
  <2> DEFINE i == Min(Inode \ f.imap)
             f1 == [f EXCEPT !.imap = @ \cup {i}]
             e == GetEmptyInode(f1)
             node == [ZeroInode EXCEPT !.nlinks = 1]
             g == [e.f EXCEPT !.table[e.s] = HeldRow(i, TRUE, node)]
  <2>1. i \in Inode /\ i \notin f.imap /\ i # None
    <3>1. Inode \ f.imap \in SUBSET Inode
      OBVIOUS
    <3>2. i \in Inode \ f.imap
      BY <1>3, <3>1, MinInode
    <3> QED
      BY <3>2, Ranges
  <2>2. v = Hold(e, i, TRUE, node)
    BY <1>3, <2>1 DEF NewInode, MakeInode, First
  <2> HIDE DEF i
  <2>3. /\ f1 \in Systems /\ f1.imap = f.imap \cup {i} /\ f1.table = f.table /\ f1.halt = f.halt
        /\ f1.zmap = f.zmap /\ f1.lost = f.lost /\ f1.objs = f.objs /\ f1.dev_inode = f.dev_inode
    BY <1>1, <2>1 DEF Systems
  <2> HIDE DEF f1
  <2>4. EmptyTo(f1, e)
    BY <2>3, GetEmptyGives
  <2>5. node \in DevInode /\ node.mode = "none" /\ \A k \in 0..DIRECT : node.zone[k] = NoZone
    BY Rows DEF DevInode
  <2> HIDE DEF e, node
  <2>6. v = [f |-> g, s |-> e.s] /\ g \in Systems /\ g.halt = e.f.halt
    BY <2>1, <2>2, <2>4, <2>5, HoldIs
  <2> DEFINE ef == e.f
             es == e.s
  <2>7. IsHeld(ef, g, es, i, TRUE, node) /\ e.f = ef /\ e.s = es
    BY DEF IsHeld
  <2> HIDE DEF g
  <2>8. ASSUME Runs(g)
        PROVE  /\ TableOK(g, With(h, es)) /\ Owned(g) /\ h[es] = 0 /\ Blank(g.table[es])
               /\ Runs(f) /\ \A t \in Slot : h[t] > 0 => g.table[t] = f.table[t]
    <3>1. Runs(ef)
      BY <2>6, <2>8 DEF Runs
    <3>2. Runs(f)
      BY <2>3, <2>4, <3>1 DEF EmptyTo, Runs
    <3>3. TableOK(f, h) /\ Owned(f)
      BY <3>2 DEF Holds
    <3>4. TableOK(f1, h)
      BY <2>3, <3>3 DEF TableOK, InMap, Once, OnDevice, CountsOK, Valid
    <3>5. TableOK(ef, h) /\ Calm(f1, ef) /\ h[es] = 0
      BY <2>3, <2>4, <3>1, <3>4, EmptyKeeps
    <3>6. /\ ef \in Systems /\ es \in Slot /\ ef.table[es] = EmptySlot /\ ef.imap = f1.imap
          /\ Valid(ef) \subseteq Valid(f) /\ Rest(f1, ef)
          /\ \A t \in Valid(ef) : ef.table[t] = f.table[t]
          /\ \A t \in Slot : f.table[t].cnt > 0 => ef.table[t] = f.table[t]
      BY <2>3, <2>4, <3>1 DEF EmptyTo, Valid
    <3>7. \A t \in Valid(ef) : ef.table[t].num # i
      BY <2>1, <3>3, <3>6 DEF TableOK, InMap
    <3>8. i \in ef.imap
      BY <2>3, <3>6
    <3> HIDE DEF ef, es
    <3>9. HeldTo(ef, h, es, i, TRUE, node, g)
      BY <2>5, <2>7, <3>5, <3>6, <3>7, <3>8, HoldKeeps
    <3>10. ASSUME NEW j \in f.imap, NEW p \in Position PROVE Has(g, j, p) = Has(f, j, p)
      <4>1. j \in Inode /\ j # i
        BY <1>1, <2>1
      <4>2. NodeOf(f1, j) = NodeOf(f, j)
        BY <2>3 DEF NodeOf, Cached
      <4>3. Copies(NodeOf(g, j), NodeOf(f, j))
        BY <3>5, <3>9, <4>1, <4>2 DEF Calm, Copies, HeldTo
      <4>4. g.objs = f.objs
        BY <2>3, <3>6, <3>9 DEF HeldTo, Rest
      <4> QED
        BY <4>3, <4>4, HasSame
    <3>11. \A k \in 0..DIRECT : NodeOf(g, i).zone[k] = NoZone
      BY <2>5, <3>9 DEF HeldTo
    <3>12. \A p \in Position : Has(g, i, p) = NoZone
      BY <3>11, BlankHas
    <3>13. g.imap = f.imap \cup {i} /\ g.lost = f.lost /\ g.zmap = f.zmap
      BY <2>3, <3>6, <3>9 DEF HeldTo, Rest
    <3>14. Owned(g)
      BY <3>3, <3>10, <3>12, <3>13, OwnedNew DEF Owned
    <3>15. Blank(g.table[es])
      BY <2>5, <3>9 DEF Blank, HeldTo, HeldRow
    <3>16. ASSUME NEW t \in Slot, h[t] > 0 PROVE g.table[t] = f.table[t]
      <4>1. t # es
        BY <3>5, <3>16
      <4>2. f.table[t].cnt > 0
        BY <3>3, <3>16 DEF TableOK, CountsOK
      <4> QED
        BY <3>6, <3>9, <4>1, <4>2 DEF HeldTo
    <3> QED
      BY <3>2, <3>5, <3>9, <3>14, <3>15, <3>16 DEF HeldTo
  <2>9. es \in Slot
    BY <2>4 DEF EmptyTo
  <2> HIDE DEF v, ef, es
  <2>10. v.f = g /\ v.s = es /\ g \in Systems
    BY <2>6, <2>7
  <2>11. Way(v, h)
    BY <2>8, <2>9, <2>10 DEF Way, Holds
  <2>12. MadeTo(f, h, v)
    BY <2>8, <2>10, <2>11 DEF MadeTo
  <2> QED
    BY <2>12 DEF v
<1> QED
  BY <1>2, <1>3

-----------------------------------------------------------------------------
(***************************************************************************)
(* An inode goes with its slot, and its zones are free (A) or lost (B).    *)
(***************************************************************************)
GoneTo(f, g, s, A, B) ==
  /\ g.imap = f.imap \ {f.table[s].num} /\ g.dev_inode = f.dev_inode /\ g.objs = f.objs
  /\ g.table[s] = EmptySlot /\ \A t \in Slot : t # s => g.table[t] = f.table[t]
  /\ g.zmap = f.zmap \ A /\ g.lost = f.lost \cup B

LEMMA GoneKeeps ==
  ASSUME NEW f \in Systems, NEW g \in Systems, NEW h \in [Slot -> Nat], NEW s \in Slot,
         TableOK(f, With(h, s)), h[s] = 0, Owned(f), NEW A, NEW B, A \cap B = {},
         GoneTo(f, g, s, A, B), ZonesAre(f, f.table[s].num, A \cup B)
  PROVE  TableOK(g, h) /\ Owned(g)
<1> DEFINE i == f.table[s].num
           k == With(h, s)
<1>1. k[s] = h[s] + 1 /\ \A t \in Slot : t # s => k[t] = h[t]
  BY WithIs, Ranges
<1>2. InMap(f) /\ Once(f) /\ OnDevice(f) /\ CountsOK(f, k)
  BY DEF TableOK
<1>3. s \in Valid(f) /\ i \in f.imap /\ i \in Inode
  <2>1. s \in Valid(f)
    BY <1>1, <1>2 DEF CountsOK, Valid
  <2> QED
    BY <2>1, <1>2, RowFields DEF InMap
<1>4. Valid(g) = Valid(f) \ {s} /\ \A t \in Valid(g) : g.table[t] = f.table[t]
  BY Rows DEF Valid, GoneTo
<1>5. \A t \in Valid(g) : g.table[t].num # i
  BY <1>2, <1>3, <1>4 DEF Once
<1>6. InMap(g) /\ Once(g)
  BY <1>2, <1>4, <1>5 DEF InMap, Once, GoneTo
<1>7. OnDevice(g)
  BY <1>2, <1>4 DEF OnDevice, GoneTo
<1>8. CountsOK(g, h)
  <2> SUFFICES ASSUME NEW t \in Slot
               PROVE  g.table[t].cnt = h[t] /\ (h[t] > 0 => g.table[t].valid)
    BY DEF CountsOK
  <2>1. CASE t = s
    BY <2>1, Rows DEF GoneTo
  <2>2. CASE t # s
    BY <2>2, <1>1, <1>2 DEF GoneTo, CountsOK
  <2> QED
    BY <2>1, <2>2
<1>9. ASSUME NEW j \in g.imap, NEW p \in Position PROVE Has(g, j, p) = Has(f, j, p)
  <2>1. j \in Inode /\ j # i
    BY Fields DEF GoneTo
  <2>2. Cached(g, j) = Cached(f, j)
    <3>1. \A t \in Slot : t \in Cached(f, j) => t # s
      BY <2>1 DEF Cached
    <3>2. \A t \in Slot : t \in Cached(g, j) => t # s
      BY Rows DEF Cached, GoneTo
    <3> QED
      BY <3>1, <3>2 DEF Cached, GoneTo
  <2>3. NodeOf(g, j) = NodeOf(f, j)
    <3>1. CASE Cached(f, j) = {}
      BY <2>2, <3>1 DEF NodeOf, GoneTo
    <3>2. CASE Cached(f, j) # {}
      <4>1. Cached(f, j) \in SUBSET Slot /\ s \notin Cached(f, j)
        BY <2>1 DEF Cached
      <4>2. Min(Cached(f, j)) \in Slot /\ Min(Cached(f, j)) # s
        BY <3>2, <4>1, MinSlot
      <4> QED
        BY <2>2, <3>2, <4>2 DEF NodeOf, GoneTo
    <3> QED
      BY <3>1, <3>2
  <2> QED
    BY <2>3 DEF Has, ZoneIn, GoneTo
<1>10. OwnedIn(f, f.zmap) /\ NoZone \notin f.zmap
  BY Fields, Ranges DEF Owned
<1>11. ZonesAre(f, i, A \cup B)
  OBVIOUS
<1> HIDE DEF i
<1>12. g.imap = f.imap \ {i} /\ g.lost = f.lost \cup B /\ g.zmap = f.zmap \ A
  BY DEF GoneTo, i
<1>13. OwnedIn(g, f.zmap \ A)
  BY <1>3, <1>9, <1>10, <1>11, <1>12, OwnedLess
<1> QED
  BY <1>6, <1>7, <1>8, <1>12, <1>13 DEF TableOK, Owned

(***************************************************************************)
(* clear_iblks() and free_inode().                                         *)
(***************************************************************************)
\* What a user that gives back slot s leaves alone.
PutTo(f, g, s) ==
  /\ g \in Systems /\ g.entries = f.entries /\ g.objs = f.objs /\ g.leaks = f.leaks
  /\ g.pos = f.pos /\ (Runs(g) => Runs(f))
  /\ \A t \in Slot : t # s => g.table[t] = f.table[t]

LEMMA CrashIs ==
  ASSUME NEW f \in Systems
  PROVE  /\ Crash(f) \in Systems /\ ~Runs(Crash(f)) /\ Crash(f).table = f.table
         /\ Rest(f, Crash(f)) /\ Crash(f).imap = f.imap /\ Crash(f).dev_inode = f.dev_inode
BY DEF Crash, Systems, Runs, Rest

ZoneSet(f, zone) == {ZoneIn(f, zone, p) : p \in Filled(f, zone)}

ClearedTo(f, g, zone) ==
  /\ g \in Systems /\ g.table = f.table /\ g.imap = f.imap /\ g.dev_inode = f.dev_inode
  /\ g.objs = f.objs /\ g.entries = f.entries /\ g.leaks = f.leaks /\ g.pos = f.pos
  /\ g.lost = f.lost /\ (Runs(g) => Runs(f) /\ g.zmap = f.zmap \ ZoneSet(f, zone))

LEMMA ClearGives ==
  ASSUME NEW f \in Systems, NEW zone
  PROVE  ClearedTo(f, ClearZones(f, zone), zone)
<1>1. CASE CanClear(f, zone)
  <2> DEFINE g == [f EXCEPT !.zmap = @ \ ZoneSet(f, zone)]
  <2>1. ClearZones(f, zone) = g
    BY <1>1 DEF ClearZones, ZoneSet
  <2>2. f.zmap \ ZoneSet(f, zone) \in SUBSET Zone
    BY Fields
  <2> HIDE DEF ZoneSet
  <2>3. ClearedTo(f, g, zone)
    BY <2>2 DEF ClearedTo, Systems, Runs
  <2> QED
    BY <2>1, <2>3
<1>2. CASE ~CanClear(f, zone)
  <2>1. ClearZones(f, zone) = Crash(f)
    BY <1>2 DEF ClearZones
  <2> QED
    BY <2>1, CrashIs DEF ClearedTo, Rest
<1> QED
  BY <1>1, <1>2

\* The sets of zones that are freed, and lost, with the inode in slot s.
Freed(f, s) == IF f.table[s].node.mode = "reg" THEN ZoneSet(f, f.table[s].node.zone) ELSE {}
LostWith(f, s) ==
  IF f.table[s].node.mode = "reg" THEN {} ELSE ZonesOf(f, f.table[s].node) \cap f.zmap

LEMMA FreeGives ==
  ASSUME NEW f \in Systems, NEW s \in Slot
  PROVE  /\ PutTo(f, FreeInode(f, s), s)
         /\ Runs(FreeInode(f, s)) =>
              GoneTo(f, FreeInode(f, s), s, {}, ZonesOf(f, f.table[s].node) \cap f.zmap)
<1> DEFINE g == FreeInode(f, s)
           B == ZonesOf(f, f.table[s].node) \cap f.zmap
<1>1. CASE f.table[s].num \notin f.imap
  BY <1>1, CrashIs DEF FreeInode, PutTo, Rest
<1>2. CASE f.table[s].num \in f.imap
  <2>1. g = [f EXCEPT !.imap = @ \ {f.table[s].num}, !.table[s] = EmptySlot,
                      !.lost = @ \cup B]
    BY <1>2 DEF FreeInode
  <2>2. /\ B \in SUBSET Zone /\ EmptySlot \in Row /\ f.lost \cup B \in SUBSET Zone
        /\ f.imap \ {f.table[s].num} \in SUBSET Inode
    BY Fields, Rows
  <2> HIDE DEF B
  <2>3. g \in Systems
    <3> DEFINE imap2 == f.imap \ {f.table[s].num}
               table2 == [f.table EXCEPT ![s] = EmptySlot]
               lost2 == f.lost \cup B
    <3>1. g = [f EXCEPT !.imap = imap2, !.table = table2, !.lost = lost2]
      BY <2>1
    <3>2. imap2 \in SUBSET Inode /\ lost2 \in SUBSET Zone
      BY <2>2
    <3>3. table2 \in [Slot -> Row]
      BY <2>2, Fields
    <3> HIDE DEF g, imap2, table2, lost2
    <3> QED
      BY <3>1, <3>2, <3>3 DEF Systems
  <2>4. /\ g.imap = f.imap \ {f.table[s].num} /\ g.lost = f.lost \cup B
        /\ g.dev_inode = f.dev_inode /\ g.objs = f.objs /\ g.zmap = f.zmap
        /\ g.entries = f.entries /\ g.leaks = f.leaks /\ g.pos = f.pos /\ g.halt = f.halt
        /\ g.table[s] = EmptySlot /\ \A t \in Slot : t # s => g.table[t] = f.table[t]
    BY <2>1 DEF Systems
  <2> HIDE DEF g
  <2>5. PutTo(f, g, s) /\ GoneTo(f, g, s, {}, B)
    BY <2>3, <2>4 DEF PutTo, GoneTo, Runs
  <2> QED
    BY <2>5 DEF g, B
<1> QED
  BY <1>1, <1>2

LEMMA ReleasedGives ==
  ASSUME NEW f \in Systems, NEW s \in Slot
  PROVE  LET g == FreeInode(ClearIblks(f, s), s)
         IN  PutTo(f, g, s) /\ (Runs(g) => GoneTo(f, g, s, Freed(f, s), LostWith(f, s)))
<1> DEFINE g == FreeInode(ClearIblks(f, s), s)
<1>1. CASE f.table[s].node.mode # "reg"
  <2>1. ClearIblks(f, s) = f
    BY <1>1 DEF ClearIblks
  <2> QED
    BY <2>1, <1>1, FreeGives DEF Freed, LostWith
<1>2. CASE f.table[s].node.mode = "reg"
  <2> DEFINE zone == f.table[s].node.zone
             b == ClearZones(f, zone)
             node == [f.table[s].node EXCEPT !.zone = ZeroInode.zone, !.size = 0]
             r == [f.table[s] EXCEPT !.node = node]
             c == ClearIblks(f, s)
  <2>1. ClearedTo(f, b, zone)
    BY ClearGives
  <2>2. ZeroInode.zone \in [0..DIRECT -> Zone \cup {NoZone}]
    BY DEF ZeroInode
  <2>3. f.table[s].node \in DevInode /\ f.table[s] \in Row
    BY RowFields
  <2>4. node \in DevInode /\ node.mode = "reg" /\ node.zone = ZeroInode.zone
    BY <1>2, <2>2, <2>3 DEF DevInode
  <2> HIDE DEF node
  <2>5. r \in Row /\ r.num = f.table[s].num /\ r.node = node
    BY <2>3, <2>4 DEF Row
  <2>6. b \in Systems /\ b.table = f.table
    BY <2>1 DEF ClearedTo
  <2>7. c = [b EXCEPT !.table[s] = r]
    <3>1. c = [b EXCEPT !.table[s].node.zone = ZeroInode.zone, !.table[s].node.size = 0]
      BY <1>2 DEF ClearIblks
    <3> HIDE DEF b, c
    <3> DEFINE Z == ZeroInode.zone
               node1 == [f.table[s].node EXCEPT !.zone = Z]
               r1 == [f.table[s] EXCEPT !.node = node1]
               b1 == [b EXCEPT !.table[s].node.zone = Z]
    <3>2. b1 = [b EXCEPT !.table[s] = r1]
      BY <2>6 DEF Systems
    <3>3. node = [node1 EXCEPT !.size = 0]
      BY DEF node
    <3>4. [r1 EXCEPT !.node.size = 0] = [f.table[s] EXCEPT !.node = node]
      BY <2>3, <3>3 DEF Row
    <3>5. c = [b1 EXCEPT !.table[s].node.size = 0]
      BY <3>1
    <3> HIDE DEF b1, r1, node1, Z
    <3>6. b1.table[s] = r1 /\ b1 = [b EXCEPT !.table = [b.table EXCEPT ![s] = r1]]
      BY <2>6, <3>2, Fields DEF Systems
    <3>7. [b1 EXCEPT !.table[s].node.size = 0]
            = [b1 EXCEPT !.table = [b1.table EXCEPT ![s] = [r1 EXCEPT !.node.size = 0]]]
      BY <3>6
    <3>8. b1.table = [b.table EXCEPT ![s] = r1]
      BY <2>6, <3>6 DEF Systems
    <3> DEFINE r2 == [r1 EXCEPT !.node.size = 0]
    <3>9. [b1.table EXCEPT ![s] = r2] = [b.table EXCEPT ![s] = r2]
      BY <2>6, <3>8, Fields
    <3>10. c = [b1 EXCEPT !.table = [b.table EXCEPT ![s] = r2]]
      BY <3>5, <3>7, <3>9
    <3>11. r2 = r
      BY <3>4 DEF r
    <3> HIDE DEF r2
    <3> DEFINE table2 == [b.table EXCEPT ![s] = r2]
    <3> HIDE DEF table2
    <3>12. c = [b EXCEPT !.table = table2]
      BY <2>6, <3>6, <3>10 DEF Systems, table2
    <3> QED
      BY <3>11, <3>12 DEF table2
  <2> HIDE DEF c, r, b
  <2>8. /\ c \in Systems /\ c.imap = b.imap /\ c.dev_inode = b.dev_inode /\ c.objs = b.objs
        /\ c.entries = b.entries /\ c.leaks = b.leaks /\ c.pos = b.pos /\ c.lost = b.lost
        /\ c.halt = b.halt /\ c.zmap = b.zmap /\ c.table[s] = r
        /\ \A t \in Slot : t # s => c.table[t] = f.table[t]
    <3> DEFINE table2 == [b.table EXCEPT ![s] = r]
    <3>1. c = [b EXCEPT !.table = table2]
      BY <2>7
    <3>2. table2 \in [Slot -> Row]
      BY <2>5, <2>6, Fields
    <3>3. table2[s] = r /\ \A t \in Slot : t # s => table2[t] = f.table[t]
      BY <2>6, Fields
    <3> HIDE DEF table2
    <3> QED
      BY <2>6, <3>1, <3>2, <3>3 DEF Systems
  <2>9. ZonesOf(c, c.table[s].node) = {}
    <3>1. ASSUME NEW p \in Position PROVE ZoneIn(c, ZeroInode.zone, p) = NoZone
      <4>1. DIRECT \in 0..DIRECT /\ (p <= DIRECT => p \in 0..DIRECT)
        BY Ranges DEF Position
      <4> QED
        BY <4>1, Rows DEF ZoneIn
    <3> QED
      BY <2>4, <2>5, <2>8, <3>1 DEF ZonesOf, Uses, Filled
  <2>10. /\ PutTo(c, g, s)
         /\ Runs(g) => GoneTo(c, g, s, {}, {} \cap c.zmap)
    BY <2>8, <2>9, FreeGives DEF c
  <2> HIDE DEF g
  <2>11. PutTo(f, g, s)
    <3>1. /\ g \in Systems /\ g.entries = c.entries /\ g.objs = c.objs /\ g.leaks = c.leaks
          /\ g.pos = c.pos /\ (Runs(g) => Runs(c))
          /\ \A t \in Slot : t # s => g.table[t] = c.table[t]
      BY <2>10 DEF PutTo
    <3>2. Runs(c) => Runs(f)
      BY <2>1, <2>8 DEF ClearedTo, Runs
    <3>3. /\ c.entries = f.entries /\ c.objs = f.objs /\ c.leaks = f.leaks /\ c.pos = f.pos
      BY <2>1, <2>8 DEF ClearedTo
    <3> QED
      BY <2>8, <3>1, <3>2, <3>3 DEF PutTo
  <2>12. ASSUME Runs(g) PROVE GoneTo(f, g, s, Freed(f, s), LostWith(f, s))
    <3>1. Freed(f, s) = ZoneSet(f, zone) /\ LostWith(f, s) = {}
      BY <1>2 DEF Freed, LostWith
    <3>2. GoneTo(c, g, s, {}, {} \cap c.zmap)
      BY <2>10, <2>12
    <3>3. /\ c.imap = f.imap /\ c.dev_inode = f.dev_inode /\ c.objs = f.objs
          /\ c.lost = f.lost /\ c.zmap = f.zmap \ ZoneSet(f, zone)
      <4>1. Runs(b)
        BY <2>8, <2>10, <2>12 DEF PutTo, Runs
      <4> QED
        BY <2>1, <2>8, <4>1 DEF ClearedTo
    <3>4. c.table[s].num = f.table[s].num
      BY <2>5, <2>8
    <3>5. /\ g.imap = f.imap \ {f.table[s].num} /\ g.dev_inode = f.dev_inode
          /\ g.objs = f.objs /\ g.table[s] = EmptySlot
          /\ \A t \in Slot : t # s => g.table[t] = f.table[t]
      BY <2>8, <3>2, <3>3, <3>4 DEF GoneTo
    <3>6. g.zmap = f.zmap \ ZoneSet(f, zone) /\ g.lost = f.lost
      BY <3>2, <3>3 DEF GoneTo
    <3> QED
      BY <3>1, <3>5, <3>6 DEF GoneTo
  <2> QED
    BY <2>11, <2>12 DEF g
<1> QED
  BY <1>1, <1>2

\* The zones of an inode that goes are freed or lost, and not both.
LEMMA ZonesGone ==
  ASSUME NEW f \in Systems, Once(f), Owned(f), NEW s \in Valid(f), f.table[s].num \in f.imap
  PROVE  /\ ZonesAre(f, f.table[s].num, Freed(f, s) \cup LostWith(f, s))
         /\ Freed(f, s) \cap LostWith(f, s) = {}
<1> DEFINE i == f.table[s].num
           node == f.table[s].node
<1>1. NodeOf(f, i) = node
  BY NodeAt
<1>2. Freed(f, s) \cap LostWith(f, s) = {}
  BY DEF Freed, LostWith
<1>3. \A p \in Position : Has(f, i, p) # NoZone => Has(f, i, p) \in f.zmap
  BY DEF Owned, OwnedIn
<1>4. CASE node.mode = "dev"
  <2>1. Freed(f, s) \cup LostWith(f, s) = {}
    BY <1>4 DEF Freed, LostWith, ZonesOf, Uses
  <2> QED
    BY <2>1, <1>1, <1>2, <1>4 DEF ZonesAre, Has
<1>5. CASE node.mode # "dev"
  <2>1. \A p \in Position : Has(f, i, p) = ZoneIn(f, node.zone, p)
    BY <1>1, <1>5 DEF Has
  <2>2. Freed(f, s) \cup LostWith(f, s)
          = {ZoneIn(f, node.zone, p) : p \in Filled(f, node.zone)}
    <3>1. CASE node.mode = "reg"
      BY <3>1 DEF Freed, LostWith, ZoneSet
    <3>2. CASE node.mode # "reg"
      <4>1. Freed(f, s) \cup LostWith(f, s) = ZonesOf(f, node) \cap f.zmap
        BY <3>2 DEF Freed, LostWith
      <4>2. ZonesOf(f, node) = {ZoneIn(f, node.zone, p) : p \in Filled(f, node.zone)}
        BY <1>5 DEF ZonesOf, Uses
      <4>3. ZonesOf(f, node) \subseteq f.zmap
        BY <4>2, <2>1, <1>3 DEF Filled
      <4> QED
        BY <4>1, <4>2, <4>3
    <3> QED
      BY <3>1, <3>2
  <2> HIDE DEF i, node
  <2>3. ZonesAre(f, i, Freed(f, s) \cup LostWith(f, s))
    BY <2>1, <2>2 DEF ZonesAre, Filled
  <2> QED
    BY <2>3, <1>2 DEF i
<1> QED
  BY <1>4, <1>5

LEMMA FewerIs ==
  ASSUME NEW f \in Systems, NEW s \in Slot, f.table[s].cnt # 0
  PROVE  LET g == [f EXCEPT !.table[s].cnt = @ - 1]
         IN  /\ g \in Systems /\ Rest(f, g) /\ g.imap = f.imap /\ g.dev_inode = f.dev_inode
             /\ g.halt = f.halt /\ \A t \in Slot : t # s => g.table[t] = f.table[t]
             /\ g.table[s].cnt = f.table[s].cnt - 1 /\ g.table[s].num = f.table[s].num
             /\ g.table[s].node = f.table[s].node /\ g.table[s].dirt = f.table[s].dirt
             /\ g.table[s].valid = f.table[s].valid
<1> DEFINE r == [f.table[s] EXCEPT !.cnt = f.table[s].cnt - 1]
           table2 == [f.table EXCEPT ![s] = r]
           g == [f EXCEPT !.table[s].cnt = @ - 1]
<1>1. f.table[s] \in Row /\ f.table[s].cnt \in Nat
  BY RowFields
<1>2. f.table[s].cnt - 1 \in Nat
  BY <1>1
<1>3. r \in Row /\ r.cnt = f.table[s].cnt - 1 /\ r.num = f.table[s].num
      /\ r.node = f.table[s].node /\ r.dirt = f.table[s].dirt /\ r.valid = f.table[s].valid
  BY <1>1, <1>2 DEF Row
<1>4. g = [f EXCEPT !.table = table2]
  BY DEF Systems
<1> HIDE DEF r, g
<1>5. table2 \in [Slot -> Row] /\ table2[s] = r /\ \A t \in Slot : t # s => table2[t] = f.table[t]
  BY <1>3, Fields
<1> HIDE DEF table2
<1>6. /\ g \in Systems /\ Rest(f, g) /\ g.imap = f.imap /\ g.dev_inode = f.dev_inode
      /\ g.halt = f.halt /\ g.table = table2
  BY <1>4, <1>5 DEF Systems, Rest
<1> QED
  BY <1>3, <1>5, <1>6 DEF g

WrittenTo(f, g, s) ==
  /\ g \in Systems /\ Rest(f, g) /\ g.imap = f.imap /\ g.halt = f.halt
  /\ \A t \in Slot : t # s => g.table[t] = f.table[t]
  /\ g.table[s].cnt = f.table[s].cnt /\ g.table[s].num = f.table[s].num
  /\ g.table[s].node = f.table[s].node /\ g.table[s].valid = f.table[s].valid
  /\ ~g.table[s].dirt /\ g.dev_inode[f.table[s].num] = f.table[s].node
  /\ \A i \in Inode : i # f.table[s].num => g.dev_inode[i] = f.dev_inode[i]

LEMMA WriteGives ==
  ASSUME NEW f \in Systems, NEW s \in Slot
  PROVE  WrittenTo(f, WriteDevInode(f, s), s)
<1> DEFINE g == WriteDevInode(f, s)
           r == [f.table[s] EXCEPT !.dirt = FALSE]
           nodes == [f.dev_inode EXCEPT ![f.table[s].num] = f.table[s].node]
           table2 == [f.table EXCEPT ![s] = r]
<1>1. f.table[s] \in Row /\ f.table[s].num \in Inode /\ f.table[s].node \in DevInode
  BY RowFields
<1>2. r \in Row /\ r.cnt = f.table[s].cnt /\ r.num = f.table[s].num /\ r.node = f.table[s].node
      /\ r.valid = f.table[s].valid /\ ~r.dirt
  BY <1>1 DEF Row
<1>3. g = [f EXCEPT !.dev_inode = nodes, !.table = table2]
  BY DEF WriteDevInode, Systems
<1> HIDE DEF g, r
<1>4. table2 \in [Slot -> Row] /\ table2[s] = r /\ \A t \in Slot : t # s => table2[t] = f.table[t]
  BY <1>2, Fields
<1>5. nodes \in [Inode -> DevInode] /\ nodes[f.table[s].num] = f.table[s].node
      /\ \A i \in Inode : i # f.table[s].num => nodes[i] = f.dev_inode[i]
  BY <1>1, Fields
<1> HIDE DEF table2, nodes
<1>6. /\ g \in Systems /\ Rest(f, g) /\ g.imap = f.imap /\ g.halt = f.halt
      /\ g.table = table2 /\ g.dev_inode = nodes
  BY <1>3, <1>4, <1>5 DEF Systems, Rest
<1> QED
  BY <1>2, <1>4, <1>5, <1>6 DEF WrittenTo, g

\* The types alone, which hold without the invariant too.
LEMMA IputPuts ==
  ASSUME NEW f \in Systems, NEW s \in Slot
  PROVE  PutTo(f, Iput(f, s), s)
<1>1. CASE f.table[s].cnt = 0
  BY <1>1 DEF Iput, PutTo
<1>2. CASE f.table[s].cnt # 0
  <2> DEFINE g == [f EXCEPT !.table[s].cnt = @ - 1]
  <2>1. Iput(f, s) = Release(g, s)
    BY <1>2 DEF Iput
  <2>2. /\ g \in Systems /\ Rest(f, g) /\ g.halt = f.halt
        /\ \A t \in Slot : t # s => g.table[t] = f.table[t]
    BY <1>2, FewerIs
  <2> HIDE DEF g
  <2>3. \/ Release(g, s) = g \/ Release(g, s) = WriteDevInode(g, s)
        \/ Release(g, s) = FreeInode(ClearIblks(g, s), s)
    BY DEF Release
  <2>4. WrittenTo(g, WriteDevInode(g, s), s)
    BY <2>2, WriteGives
  <2>5. PutTo(g, WriteDevInode(g, s), s)
    BY <2>2, <2>4 DEF WrittenTo, PutTo, Runs, Rest
  <2>6. PutTo(g, FreeInode(ClearIblks(g, s), s), s)
    BY <2>2, ReleasedGives
  <2>7. PutTo(g, g, s)
    BY <2>2 DEF PutTo
  <2>8. PutTo(g, Release(g, s), s)
    BY <2>3, <2>5, <2>6, <2>7
  <2>9. PutTo(f, Release(g, s), s)
    BY <2>2, <2>8 DEF PutTo, Rest, Runs
  <2> QED
    BY <2>1, <2>9
<1> QED
  BY <1>1, <1>2

\* What has no user and is not to be written.
AtRest(r) == ~r.valid \/ ~r.dirt

LEMMA IputHolds ==
  ASSUME NEW f, NEW h \in [Slot -> Nat], NEW s \in Slot, Holds(f, With(h, s))
  PROVE  /\ Holds(Iput(f, s), h)
         /\ Runs(Iput(f, s)) /\ h[s] = 0 => AtRest(Iput(f, s).table[s])
<1> DEFINE u == Iput(f, s)
<1>1. f \in Systems
  BY DEF Holds
<1>2. PutTo(f, u, s)
  BY <1>1, IputPuts
<1>3. SUFFICES ASSUME Runs(u)
               PROVE  TableOK(u, h) /\ Owned(u) /\ (h[s] = 0 => AtRest(u.table[s]))
  BY <1>2 DEF Holds, PutTo
<1>4. TableOK(f, With(h, s)) /\ Owned(f)
  BY <1>2, <1>3 DEF Holds, PutTo
<1>5. With(h, s)[s] = h[s] + 1 /\ \A t \in Slot : t # s => With(h, s)[t] = h[t]
  BY WithIs, Ranges
<1>6. f.table[s].cnt = h[s] + 1 /\ f.table[s].valid /\ s \in Valid(f)
  BY <1>4, <1>5 DEF TableOK, CountsOK, Valid
<1>7. f.table[s].cnt # 0
  BY <1>6
<1> DEFINE g == [f EXCEPT !.table[s].cnt = @ - 1]
<1>8. u = Release(g, s)
  BY <1>7 DEF Iput
<1>9. /\ g \in Systems /\ Rest(f, g) /\ g.imap = f.imap /\ g.dev_inode = f.dev_inode
      /\ g.halt = f.halt /\ \A t \in Slot : t # s => g.table[t] = f.table[t]
      /\ g.table[s].cnt = f.table[s].cnt - 1 /\ g.table[s].num = f.table[s].num
      /\ g.table[s].node = f.table[s].node /\ g.table[s].dirt = f.table[s].dirt
      /\ g.table[s].valid = f.table[s].valid
  BY <1>1, <1>7, FewerIs
<1> HIDE DEF g, u
<1>10. g.table[s].cnt = h[s] /\ h[s] \in Nat
  BY <1>6, <1>9
<1>11. ASSUME ~(g.table[s].cnt = 0 /\ g.table[s].node.nlinks = 0)
       PROVE  TableOK(g, h) /\ Owned(g)
  <2>1. RowTo(f, g, s)
    <3>1. g.table[s].node.nlinks = 0 => g.table[s].cnt > 0
      <4>1. h[s] # 0 => h[s] > 0
        BY <1>10
      <4>2. g.table[s].node.nlinks = 0 => g.table[s].cnt # 0
        BY <1>11
      <4> QED
        BY <1>10, <4>1, <4>2
    <3>2. g.table[s].node = f.table[s].node
      BY <1>9
    <3>3. Going(f.table[s]) => Going(g.table[s])
      BY <3>1, <3>2 DEF Going
    <3> QED
      BY <1>9, <3>3 DEF RowTo, Copies, Rest
  <2> QED
    BY <1>1, <1>4, <1>5, <1>6, <1>9, <1>10, <2>1, RowChanges
<1>12. CASE g.table[s].cnt > 0
  <2>1. u = g
    BY <1>8, <1>12 DEF Release
  <2> QED
    BY <1>10, <1>11, <1>12, <2>1
<1>13. CASE g.table[s].cnt = 0 /\ g.table[s].node.nlinks = 0
  <2>1. u = FreeInode(ClearIblks(g, s), s)
    BY <1>8, <1>13 DEF Release
  <2>2. GoneTo(g, u, s, Freed(g, s), LostWith(g, s))
    BY <1>3, <1>9, <2>1, ReleasedGives
  <2>3. Freed(g, s) = Freed(f, s) /\ LostWith(g, s) = LostWith(f, s)
    BY <1>9 DEF Freed, LostWith, ZonesOf, Uses, ZoneSet, Filled, ZoneIn, Rest
  <2>4. GoneTo(f, u, s, Freed(f, s), LostWith(f, s))
    BY <1>9, <2>2, <2>3 DEF GoneTo, Rest
  <2>5. Once(f) /\ f.table[s].num \in f.imap
    BY <1>4, <1>6 DEF TableOK, InMap
  <2>6. /\ ZonesAre(f, f.table[s].num, Freed(f, s) \cup LostWith(f, s))
        /\ Freed(f, s) \cap LostWith(f, s) = {}
    BY <1>1, <1>4, <1>6, <2>5, ZonesGone
  <2>7. TableOK(u, h) /\ Owned(u)
    BY <1>1, <1>2, <1>4, <1>10, <1>13, <2>4, <2>6, GoneKeeps DEF PutTo
  <2>8. AtRest(u.table[s])
    BY <2>4, Rows DEF AtRest, GoneTo
  <2> QED
    BY <2>7, <2>8
<1>14. CASE g.table[s].cnt = 0 /\ g.table[s].node.nlinks # 0 /\ g.table[s].dirt
  <2>1. u = WriteDevInode(g, s)
    BY <1>6, <1>8, <1>9, <1>14 DEF Release
  <2>2. WrittenTo(g, u, s)
    BY <1>9, <2>1, WriteGives
  <2>3. TableOK(g, h) /\ Owned(g)
    BY <1>11, <1>14
  <2>4. InMap(g) /\ Once(g) /\ OnDevice(g) /\ CountsOK(g, h)
    BY <2>3 DEF TableOK
  <2>5. Valid(u) = Valid(g) /\ s \in Valid(g) /\ u \in Systems
    BY <1>6, <1>9, <2>2 DEF Valid, WrittenTo
  <2>6. \A t \in Slot : u.table[t].num = g.table[t].num /\ u.table[t].node = g.table[t].node
    BY <2>2 DEF WrittenTo
  <2>7. ASSUME NEW i \in Inode, \A t \in Valid(u) : u.table[t].num # i PROVE Carried(g, u, i)
    <3>1. \A t \in Valid(g) : g.table[t].num # i
      BY <2>5, <2>6, <2>7 DEF Valid
    <3>2. i # g.table[s].num
      BY <2>5, <3>1
    <3> QED
      BY <2>2, <3>1, <3>2 DEF Carried, Copies, WrittenTo
  <2>8. InMap(u) /\ Once(u) /\ Calm(g, u)
    <3>1. u.imap = g.imap /\ u.zmap = g.zmap /\ u.lost = g.lost /\ u.objs = g.objs
      BY <2>2 DEF WrittenTo, Rest
    <3>2. \A t \in Valid(u) : /\ u.table[t].num = g.table[t].num
                              /\ Copies(u.table[t].node, g.table[t].node)
      BY <2>6 DEF Valid, Copies
    <3> QED
      BY <1>9, <2>4, <2>5, <2>7, <3>1, <3>2, TableChanges
  <2>9. OnDevice(u)
    <3> SUFFICES ASSUME NEW t \in Valid(u)
                 PROVE  \/ u.table[t].dirt \/ Going(u.table[t])
                        \/ Copies(u.table[t].node, u.dev_inode[u.table[t].num])
      BY DEF OnDevice
    <3>1. t \in Slot /\ t \in Valid(g)
      BY <2>5 DEF Valid
    <3>2. CASE t = s
      BY <2>2, <3>2 DEF WrittenTo, Copies
    <3>3. CASE t # s
      <4>1. u.table[t] = g.table[t] /\ g.table[t].num # g.table[s].num
        BY <2>2, <2>4, <2>5, <3>1, <3>3 DEF WrittenTo, Once
      <4>2. u.dev_inode[g.table[t].num] = g.dev_inode[g.table[t].num]
        BY <1>9, <2>2, <3>1, <4>1, RowFields DEF WrittenTo
      <4> QED
        BY <2>4, <3>1, <4>1, <4>2 DEF OnDevice
    <3> QED
      BY <3>2, <3>3
  <2>10. CountsOK(u, h)
    BY <2>2, <2>4 DEF CountsOK, WrittenTo
  <2>11. Owned(u)
    BY <1>9, <2>3, <2>8, CalmOwned
  <2>12. AtRest(u.table[s])
    BY <2>2 DEF AtRest, WrittenTo
  <2> QED
    BY <2>8, <2>9, <2>10, <2>11, <2>12 DEF TableOK
<1>15. CASE g.table[s].cnt = 0 /\ g.table[s].node.nlinks # 0 /\ ~g.table[s].dirt
  <2>1. u = g
    BY <1>8, <1>15 DEF Release
  <2> QED
    BY <1>11, <1>15, <2>1 DEF AtRest
<1> QED
  BY <1>10, <1>12, <1>13, <1>14, <1>15

\* iput() of an inode without users does nothing (do_rmdir() relies on it).
LEMMA IputAgain ==
  ASSUME NEW f, NEW h \in [Slot -> Nat], NEW s \in Slot, Holds(f, h), h[s] = 0, Runs(f)
  PROVE  Iput(f, s) = f
BY DEF Holds, TableOK, CountsOK, Iput

-----------------------------------------------------------------------------
(***************************************************************************)
(* new_block(): a zone without user, empty.                                *)
(***************************************************************************)
LooseTo(f, b) ==
  /\ b = [f |-> b.f, z |-> b.z] /\ b.f \in Systems /\ b.f.table = f.table /\ b.f.imap = f.imap
  /\ b.f.dev_inode = f.dev_inode /\ b.f.lost = f.lost /\ b.f.leaks = f.leaks
  /\ b.f.halt = f.halt
  /\ \/ b.z = NoZone /\ b.f = f
     \/ /\ b.z \in Zone \ f.zmap /\ b.f.zmap = f.zmap \cup {b.z}
        /\ b.f.objs[b.z] = NoObjs
        /\ \A y \in Zone : y # b.z => b.f.objs[y] = f.objs[y]

LEMMA EmptyZones ==
  /\ NoObjs \in [DOMAIN NoObjs -> Zone \cup {NoZone}] /\ DOMAIN NoObjs = 0..(NR_BLK_OBJS - 1)
  /\ NoEntries \in [DOMAIN NoEntries -> Entry] /\ DOMAIN NoEntries = 0..(ENTRIES_PER_BLK - 1)
  /\ EmptyEntry \in Entry /\ \A k \in DOMAIN NoObjs : NoObjs[k] = NoZone
<1>1. EmptyEntry \in Entry
  BY Ranges DEF EmptyEntry, Entry, EntryName, ROOT_IND_NR
<1> QED
  BY <1>1 DEF NoObjs, NoEntries

\* A zone that is given out is not in the map, so nobody has it.
LEMMA NewBlockGives ==
  ASSUME NEW f \in Systems
  PROVE  LooseTo(f, NewBlock(f))
<1> DEFINE z == FreeZone(f)
           b == NewBlock(f)
<1>1. z = NoZone \/ z \in Zone \ f.zmap
  BY FreeZoneIs
<1>2. CASE z = NoZone
  <2>1. b = [f |-> f, z |-> NoZone]
    BY <1>2 DEF NewBlock, Give
  <2> HIDE DEF b
  <2>2. LooseTo(f, b)
    BY <2>1 DEF LooseTo
  <2> QED
    BY <2>2 DEF b
<1>3. CASE z \in Zone \ f.zmap
  <2> DEFINE entries2 == [f.entries EXCEPT ![z] = NoEntries]
             objs2 == [f.objs EXCEPT ![z] = NoObjs]
             zmap2 == f.zmap \cup {z}
             g == [f EXCEPT !.zmap = zmap2, !.pos = z - 1, !.entries = entries2, !.objs = objs2]
  <2>1. b = [f |-> g, z |-> z]
    BY <1>3, Ranges DEF NewBlock, Give
  <2> HIDE DEF b, z
  <2>2. z - 1 \in 0..(NrZones - 1)
    BY <1>3, Ranges DEF Zone
  <2>3. zmap2 \in SUBSET Zone
    BY <1>3, Fields
  <2>4. entries2 \in [Zone -> [DOMAIN NoEntries -> Entry]]
    BY Fields, EmptyZones
  <2>5. objs2 \in [Zone -> [DOMAIN NoObjs -> Zone \cup {NoZone}]]
    BY Fields, EmptyZones
  <2>6. objs2[z] = NoObjs /\ \A y \in Zone : y # z => objs2[y] = f.objs[y]
    BY <1>3, Fields
  <2> DEFINE pos2 == z - 1
  <2> HIDE DEF entries2, objs2, zmap2, pos2
  <2>7. g \in Systems
    BY <2>2, <2>3, <2>4, <2>5 DEF Systems, pos2
  <2>8. /\ g.table = f.table /\ g.imap = f.imap /\ g.dev_inode = f.dev_inode
        /\ g.lost = f.lost /\ g.leaks = f.leaks /\ g.halt = f.halt /\ g.zmap = zmap2
        /\ g.objs = objs2
    BY DEF Systems
  <2> HIDE DEF g
  <2>9. b.f = g /\ b.z = z /\ b = [f |-> b.f, z |-> b.z]
    BY <2>1
  <2>10. LooseTo(f, b)
    BY <1>3, <2>6, <2>7, <2>8, <2>9 DEF LooseTo, zmap2
  <2> QED
    BY <2>10 DEF b
<1> QED
  BY <1>1, <1>2, <1>3

-----------------------------------------------------------------------------
(***************************************************************************)
(* A zone gets a user.                                                     *)
(***************************************************************************)
LEMMA NodeTyped ==
  ASSUME NEW f \in Systems, NEW i \in Inode
  PROVE  /\ NodeOf(f, i) \in DevInode
         /\ NodeOf(f, i).zone \in [0..DIRECT -> Zone \cup {NoZone}]
<1>1. CASE Cached(f, i) = {}
  BY <1>1, Fields DEF NodeOf, DevInode
<1>2. CASE Cached(f, i) # {}
  <2>1. Cached(f, i) \in SUBSET Slot
    BY DEF Cached
  <2>2. Min(Cached(f, i)) \in Slot
    BY <1>2, <2>1, MinSlot
  <2> QED
    BY <1>2, <2>2, RowFields DEF NodeOf
<1> QED
  BY <1>1, <1>2

Beyond(p) == p \in Position /\ p > DIRECT

LEMMA Positions ==
  /\ DIRECT \in Position /\ 0..DIRECT \subseteq Position /\ DIRECT \in 0..DIRECT /\ 0 \in 0..DIRECT
  /\ \A p \in Position : p <= DIRECT <=> p \in 0..DIRECT
  /\ \A p \in Position : ~(p <= DIRECT) => Beyond(p)
  /\ \A p : Beyond(p) => ~(p <= DIRECT) /\ p - DIRECT - 1 \in DOMAIN NoObjs
<1> USE DEF Position, Beyond
<1>1. DIRECT \in Nat /\ NR_BLK_OBJS \in Nat \ {0}
  BY Ranges
<1>2. DIRECT \in Position /\ 0..DIRECT \subseteq Position /\ DIRECT \in 0..DIRECT /\ 0 \in 0..DIRECT
  BY <1>1
<1>3. /\ \A p \in Position : p <= DIRECT <=> p \in 0..DIRECT
      /\ \A p \in Position : ~(p <= DIRECT) => Beyond(p)
  BY <1>1
<1>4. ASSUME NEW p, Beyond(p) PROVE ~(p <= DIRECT) /\ p - DIRECT - 1 \in DOMAIN NoObjs
  BY <1>1, <1>4 DEF NoObjs
<1> QED
  BY <1>2, <1>3, <1>4

\* The zones of inodes that did not change are what they were.
Else(f, g, z) == \A y \in Zone : y # z => g.objs[y] = f.objs[y]

LEMMA ElseSame ==
  ASSUME NEW f \in Systems, NEW g \in Systems, NEW z \in Zone \ f.zmap, Owned(f),
         Else(f, g, z), NEW i \in f.imap, NodeOf(g, i) = NodeOf(f, i), NEW p \in Position
  PROVE  Has(g, i, p) = Has(f, i, p)
<1> DEFINE node == NodeOf(f, i)
           x == node.zone[DIRECT]
<1>1. i \in Inode
  BY Fields
<1>2. node.zone \in [0..DIRECT -> Zone \cup {NoZone}]
  BY <1>1, NodeTyped
<1>3. CASE node.mode = "dev" \/ p <= DIRECT \/ x = NoZone
  BY <1>3 DEF Has, ZoneIn
<1>4. CASE node.mode # "dev" /\ ~(p <= DIRECT) /\ x # NoZone
  <2>1. x \in Zone
    BY <1>2, <1>4, Positions
  <2>2. Has(f, i, DIRECT) = x /\ DIRECT \in Position
    BY <1>4, Positions DEF Has, ZoneIn
  <2>3. x \in f.zmap
    BY <1>4, <2>2 DEF Owned, OwnedIn
  <2>4. g.objs[x] = f.objs[x]
    BY <2>1, <2>3 DEF Else
  <2> QED
    BY <1>4, <2>4 DEF Has, ZoneIn
<1> QED
  BY <1>3, <1>4

ZonePut(f, g, s, k, z) ==
  /\ NodeTo(f, g, s) /\ g.lost = f.lost /\ g.zmap = f.zmap \cup {z}
  /\ g.objs[z] = NoObjs /\ Else(f, g, z)
  /\ g.table[s].node.mode # "dev"
  /\ g.table[s].node.zone[k] = z
  /\ \A q \in 0..DIRECT : q # k => g.table[s].node.zone[q] = f.table[s].node.zone[q]

\* An inode gets a zone that is new, as its own or for its indirect block.
LEMMA ZoneGiven ==
  ASSUME NEW f \in Systems, NEW g \in Systems, NEW h, TableOK(f, h), Owned(f),
         NEW s \in Valid(f), f.table[s].node.mode # "dev", NEW k \in 0..DIRECT,
         f.table[s].node.zone[k] = NoZone, NEW z \in Zone \ f.zmap, ZonePut(f, g, s, k, z)
  PROVE  TableOK(g, h) /\ Owned(g)
<1> DEFINE i == f.table[s].num
           m == f.table[s].node
           n == g.table[s].node
<1>1. /\ TableOK(g, h) /\ NodeOf(f, i) = m /\ NodeOf(g, i) = n
      /\ \A j \in Inode : j # i => NodeOf(g, j) = NodeOf(f, j)
  BY NodeChanges DEF ZonePut
<1>2. i \in f.imap /\ f.imap \subseteq Inode /\ k \in Position /\ k <= DIRECT
  BY Fields, Positions DEF TableOK, InMap
<1>3. z # NoZone /\ NoZone \notin f.zmap
  BY Ranges, Fields
<1>4. /\ n.mode # "dev" /\ m.mode # "dev" /\ n.zone[k] = z /\ m.zone[k] = NoZone
      /\ \A q \in 0..DIRECT : q # k => n.zone[q] = m.zone[q]
      /\ g.objs[z] = NoObjs /\ Else(f, g, z) /\ g.zmap = f.zmap \cup {z}
      /\ g.lost = f.lost /\ g.imap = f.imap
  BY DEF ZonePut, NodeTo
<1> HIDE DEF i, m, n
<1>5. Has(f, i, k) = NoZone /\ Has(g, i, k) = z
  BY <1>1, <1>2, <1>4 DEF Has, ZoneIn
<1>6. ASSUME NEW j \in f.imap, NEW q \in Position, j # i \/ q # k
      PROVE  Has(g, j, q) = Has(f, j, q)
  <2>1. CASE j # i
    <3>1. NodeOf(g, j) = NodeOf(f, j)
      BY <1>1, <1>2, <2>1
    <3> QED
      BY <1>4, <3>1, ElseSame
  <2>2. CASE j = i /\ q <= DIRECT
    <3>1. q \in 0..DIRECT /\ q # k
      BY <1>6, <2>2, Positions
    <3> QED
      BY <1>1, <1>4, <2>2, <3>1 DEF Has, ZoneIn
  <2>3. CASE j = i /\ ~(q <= DIRECT) /\ k = DIRECT
    <3>1. q - DIRECT - 1 \in DOMAIN NoObjs
      BY <2>3, Positions
    <3>2. NoObjs[q - DIRECT - 1] = NoZone
      BY <3>1, EmptyZones
    <3>3. Has(f, i, q) = NoZone
      BY <1>1, <1>4, <2>3 DEF Has, ZoneIn
    <3>4. Has(g, i, q) = NoZone
      BY <1>1, <1>3, <1>4, <2>3, <3>2 DEF Has, ZoneIn
    <3> QED
      BY <2>3, <3>3, <3>4
  <2>4. CASE j = i /\ ~(q <= DIRECT) /\ k # DIRECT
    <3> DEFINE x == m.zone[DIRECT]
    <3>1. n.zone[DIRECT] = x
      BY <1>4, <2>4, Positions
    <3>2. CASE x = NoZone
      BY <1>1, <1>4, <2>4, <3>1, <3>2 DEF Has, ZoneIn
    <3>3. CASE x # NoZone
      <4>1. Has(f, i, DIRECT) = x
        BY <1>1, <1>4, Positions DEF Has, ZoneIn
      <4>2. x \in f.zmap /\ x \in Zone
        BY <1>2, <3>3, <4>1, Positions, Fields DEF Owned, OwnedIn
      <4>3. g.objs[x] = f.objs[x]
        BY <1>4, <4>2 DEF Else
      <4> QED
        BY <1>1, <1>4, <2>4, <3>1, <3>3, <4>3 DEF Has, ZoneIn
    <3> QED
      BY <3>2, <3>3
  <2> QED
    BY <2>1, <2>2, <2>3, <2>4
<1>7. OwnedIn(g, f.zmap \cup {z})
  BY <1>2, <1>3, <1>4, <1>5, <1>6, OwnedMore DEF Owned
<1> QED
  BY <1>1, <1>4, <1>7 DEF Owned

ObjPut(f, g, ind, k, z) ==
  /\ g.table = f.table /\ g.imap = f.imap /\ g.dev_inode = f.dev_inode /\ g.lost = f.lost
  /\ g.zmap = f.zmap \cup {z}
  /\ g.objs[ind][k] = z /\ \A q \in DOMAIN NoObjs : q # k => g.objs[ind][q] = f.objs[ind][q]
  /\ \A y \in Zone : y # z /\ y # ind => g.objs[y] = f.objs[y]

\* The indirect block of an inode gets a zone that is new.
LEMMA ObjGiven ==
  ASSUME NEW f \in Systems, NEW g \in Systems, NEW h, TableOK(f, h), Owned(f),
         NEW s \in Valid(f), f.table[s].node.mode # "dev", NEW k \in DOMAIN NoObjs,
         NEW ind \in Zone, f.table[s].node.zone[DIRECT] = ind, f.objs[ind][k] = NoZone,
         NEW z \in Zone \ f.zmap, ObjPut(f, g, ind, k, z)
  PROVE  TableOK(g, h) /\ Owned(g)
<1> DEFINE i == f.table[s].num
           p == DIRECT + 1 + k
<1>1. TableOK(g, h)
  BY DEF TableOK, InMap, Once, OnDevice, CountsOK, Valid, ObjPut
<1>2. \A j : NodeOf(g, j) = NodeOf(f, j)
  BY DEF NodeOf, Cached, ObjPut
<1>3. i \in f.imap /\ NodeOf(f, i) = f.table[s].node /\ f.imap \subseteq Inode
  BY NodeAt, Fields DEF TableOK, InMap
<1>4. p \in Position /\ p - DIRECT - 1 = k /\ ~(p <= DIRECT)
  <2>1. k \in 0..(NR_BLK_OBJS - 1)
    BY EmptyZones
  <2>2. DIRECT \in Nat /\ NR_BLK_OBJS \in Nat
    BY Ranges
  <2> QED
    BY <2>1, <2>2 DEF Position
<1>5. z # NoZone /\ NoZone \notin f.zmap /\ ind # NoZone
  BY Ranges, Fields
<1> HIDE DEF i, p
<1>6. Has(f, i, p) = NoZone /\ Has(g, i, p) = z
  BY <1>2, <1>3, <1>4, <1>5, SMTT(60) DEF Has, ZoneIn, ObjPut
<1>7. Has(f, i, DIRECT) = ind
  BY <1>3, Positions DEF Has, ZoneIn
<1>8. ASSUME NEW j \in f.imap, NEW q \in Position, j # i \/ q # p
      PROVE  Has(g, j, q) = Has(f, j, q)
  <2> DEFINE node == NodeOf(f, j)
             x == node.zone[DIRECT]
  <2>1. NodeOf(g, j) = node
    BY <1>2
  <2>2. node.zone \in [0..DIRECT -> Zone \cup {NoZone}]
    BY <1>3, NodeTyped
  <2>3. CASE node.mode = "dev" \/ q <= DIRECT \/ x = NoZone
    BY <2>1, <2>3 DEF Has, ZoneIn
  <2>4. CASE node.mode # "dev" /\ ~(q <= DIRECT) /\ x # NoZone
    <3>1. Has(f, j, DIRECT) = x /\ DIRECT \in Position /\ x \in Zone
      BY <2>2, <2>4, Positions DEF Has, ZoneIn
    <3>2. x \in f.zmap
      BY <2>4, <3>1 DEF Owned, OwnedIn
    <3>3. CASE x = ind
      <4>1. j = i
        BY <1>3, <1>5, <1>7, <3>1, <3>3 DEF Owned, OwnedIn
      <4>2. q - DIRECT - 1 # k
        <5>1. q \in Int /\ k \in Int /\ DIRECT \in Int
          BY Ranges, EmptyZones DEF Position
        <5>2. q # DIRECT + 1 + k
          BY <1>8, <4>1 DEF p
        <5> QED
          BY <5>1, <5>2
      <4>3. q - DIRECT - 1 \in DOMAIN NoObjs
        BY <2>4, Positions
      <4>4. g.objs[x][q - DIRECT - 1] = f.objs[x][q - DIRECT - 1]
        BY <3>3, <4>2, <4>3 DEF ObjPut
      <4> QED
        BY <2>1, <2>4, <4>4 DEF Has, ZoneIn
    <3>4. CASE x # ind
      <4>1. g.objs[x] = f.objs[x]
        BY <3>1, <3>2, <3>4 DEF ObjPut
      <4> QED
        BY <2>1, <2>4, <4>1 DEF Has, ZoneIn
    <3> QED
      BY <3>3, <3>4
  <2> QED
    BY <2>3, <2>4
<1>9. OwnedIn(g, f.zmap \cup {z})
  BY <1>3, <1>4, <1>5, <1>6, <1>8, OwnedMore DEF Owned, ObjPut
<1> QED
  BY <1>1, <1>9 DEF Owned, ObjPut

-----------------------------------------------------------------------------
(***************************************************************************)
(* _bmap(): what slot s holds gets the zones that it needs.                *)
(***************************************************************************)
\* The inode in slot s changes, and nobody else's slot.
StepTo(f, g, s) ==
  /\ g \in Systems /\ g.leaks = f.leaks /\ (Runs(g) => Runs(f))
  /\ \A t \in Slot : t # s => g.table[t] = f.table[t]
  /\ g.table[s].node.mode = f.table[s].node.mode

HasZones(f, s) == Runs(f) => f.table[s].node.mode # "dev"

LEMMA StepTwice ==
  ASSUME NEW f, NEW g, NEW u, NEW s, StepTo(f, g, s), StepTo(g, u, s)
  PROVE  StepTo(f, u, s)
BY DEF StepTo

BmapTo(f, b, s, h) ==
  /\ b = [f |-> b.f, z |-> b.z, new |-> b.new] /\ b.new \in BOOLEAN
  /\ b.z \in Zone \cup {NoZone} /\ StepTo(f, b.f, s) /\ Holds(b.f, h)

\* A row with a zone more.
ZoneRow(r, k, z) == [r EXCEPT !.node = [r.node EXCEPT !.zone = [r.node.zone EXCEPT ![k] = z]],
                              !.dirt = TRUE]

Zoned(f, s, k, z) == [f EXCEPT !.table[s].node.zone[k] = z, !.table[s].dirt = TRUE]

ZonedTo(f, g, r, s, k, z) ==
  /\ g \in Systems /\ Rest(f, g) /\ g.imap = f.imap /\ g.dev_inode = f.dev_inode
  /\ g.halt = f.halt /\ g.table[s] = r
  /\ \A t \in Slot : t # s => g.table[t] = f.table[t]
  /\ r.num = f.table[s].num /\ r.cnt = f.table[s].cnt /\ r.valid = f.table[s].valid
  /\ r.dirt /\ r.node.mode = f.table[s].node.mode /\ r.node.zone[k] = z
  /\ \A q \in 0..DIRECT : q # k => r.node.zone[q] = f.table[s].node.zone[q]

LEMMA ZoneRowIs ==
  ASSUME NEW f \in Systems, NEW s \in Slot, NEW k \in 0..DIRECT, NEW z \in Zone
  PROVE  ZonedTo(f, Zoned(f, s, k, z), ZoneRow(f.table[s], k, z), s, k, z)
<1> DEFINE row == f.table[s]
           zone2 == [row.node.zone EXCEPT ![k] = z]
           node2 == [row.node EXCEPT !.zone = zone2]
           row1 == [row EXCEPT !.node = node2]
           table1 == [f.table EXCEPT ![s] = row1]
           f1 == [f EXCEPT !.table[s].node.zone[k] = z]
           g == Zoned(f, s, k, z)
           r == ZoneRow(row, k, z)
           table2 == [f.table EXCEPT ![s] = r]
<1>1. /\ row \in Row /\ row.node \in DevInode
      /\ row.node.zone \in [0..DIRECT -> Zone \cup {NoZone}]
  BY RowFields
<1>2. /\ zone2 \in [0..DIRECT -> Zone \cup {NoZone}] /\ zone2[k] = z
      /\ \A q \in 0..DIRECT : q # k => zone2[q] = row.node.zone[q]
  BY <1>1
<1>3. f1 = [f EXCEPT !.table = table1]
  OBVIOUS
<1>4. g = [f1 EXCEPT !.table[s].dirt = TRUE]
  BY DEF Zoned
<1> HIDE DEF zone2
<1>5. node2 \in DevInode /\ node2.mode = row.node.mode /\ node2.zone = zone2
  BY <1>1, <1>2 DEF DevInode
<1>6. r = [row EXCEPT !.node = node2, !.dirt = TRUE]
  BY DEF ZoneRow, zone2
<1> HIDE DEF node2
<1>7. /\ row1 \in Row /\ r = [row1 EXCEPT !.dirt = TRUE] /\ r \in Row /\ r.num = row.num
      /\ r.cnt = row.cnt /\ r.valid = row.valid /\ r.dirt /\ r.node = node2
  BY <1>1, <1>5, <1>6 DEF Row
<1> HIDE DEF row1, r
<1>8. /\ table1 \in [Slot -> Row] /\ table1[s] = row1 /\ table2 \in [Slot -> Row]
      /\ table2[s] = r /\ \A t \in Slot : t # s => table2[t] = f.table[t]
      /\ table2 = [table1 EXCEPT ![s] = r]
  BY <1>7, Fields
<1> HIDE DEF table1, table2
<1>9. f1.table = table1 /\ f1 \in Systems
  BY <1>3, <1>8 DEF Systems
<1>10. g = [f1 EXCEPT !.table = table2]
  BY <1>4, <1>7, <1>8, <1>9
<1>11. g = [f EXCEPT !.table = table2]
  BY <1>3, <1>10 DEF Systems
<1> HIDE DEF g, f1
<1>12. /\ g \in Systems /\ Rest(f, g) /\ g.imap = f.imap /\ g.dev_inode = f.dev_inode
       /\ g.halt = f.halt /\ g.table = table2
  BY <1>8, <1>11 DEF Systems, Rest
<1>13. /\ g.table[s] = r /\ \A t \in Slot : t # s => g.table[t] = f.table[t]
  BY <1>8, <1>12
<1>14. /\ r.num = f.table[s].num /\ r.cnt = f.table[s].cnt /\ r.valid = f.table[s].valid
       /\ r.dirt
  BY <1>7
<1>15. r.node.mode = f.table[s].node.mode /\ r.node.zone = zone2
  BY <1>5, <1>7
<1>16. /\ r.node.zone[k] = z
       /\ \A q \in 0..DIRECT : q # k => r.node.zone[q] = f.table[s].node.zone[q]
  BY <1>2, <1>15
<1> HIDE DEF row
<1>17. ZonedTo(f, g, r, s, k, z)
  BY <1>12, <1>13, <1>14, <1>15, <1>16 DEF ZonedTo
<1> QED
  BY <1>17 DEF g, r, row

InodeZoneTo(f, b, s, k, h) ==
  /\ BmapTo(f, b, s, h)
  /\ b.z # NoZone => b.f.table[s].node.zone[k] = b.z

LEMMA InodeZoneHolds ==
  ASSUME NEW f, NEW h, NEW s \in Slot, h[s] > 0, Holds(f, h), HasZones(f, s),
         NEW k \in 0..DIRECT
  PROVE  InodeZoneTo(f, InodeZone(f, s, k), s, k, h)
<1> DEFINE u == InodeZone(f, s, k)
           zk == f.table[s].node.zone[k]
<1>1. f \in Systems
  BY DEF Holds
<1>2. zk \in Zone \cup {NoZone}
  BY <1>1, RowFields
<1>3. CASE zk # NoZone
  <2>1. u = [f |-> f, z |-> zk, new |-> FALSE]
    BY <1>3 DEF InodeZone
  <2> HIDE DEF u, zk
  <2>2. BmapTo(f, u, s, h)
    BY <1>1, <1>2, <2>1 DEF BmapTo, StepTo
  <2> QED
    BY <2>1, <2>2 DEF InodeZoneTo, zk, u
<1>4. CASE zk = NoZone
  <2> DEFINE b == NewBlock(f)
  <2>1. LooseTo(f, b)
    BY <1>1, NewBlockGives
  <2>2. u = SetInodeZone(b, s, k)
    BY <1>4 DEF InodeZone
  <2> HIDE DEF b
  <2>3. CASE b.z = NoZone
    <3>1. u = [f |-> b.f, z |-> NoZone, new |-> FALSE] /\ b.f = f
      BY <2>1, <2>2, <2>3, Ranges DEF SetInodeZone, LooseTo
    <3> HIDE DEF u
    <3>2. BmapTo(f, u, s, h)
      BY <1>1, <3>1 DEF BmapTo, StepTo
    <3> QED
      BY <3>1, <3>2 DEF InodeZoneTo, u
  <2>4. CASE b.z # NoZone
    <3> DEFINE g == Zoned(b.f, s, k, b.z)
               r == ZoneRow(b.f.table[s], k, b.z)
    <3>1. /\ b.z \in Zone \ f.zmap /\ b.f.zmap = f.zmap \cup {b.z} /\ b.f \in Systems
          /\ b.f.objs[b.z] = NoObjs /\ b.f.table = f.table /\ b.f.imap = f.imap
          /\ b.f.dev_inode = f.dev_inode /\ b.f.lost = f.lost /\ b.f.leaks = f.leaks
          /\ b.f.halt = f.halt /\ \A y \in Zone : y # b.z => b.f.objs[y] = f.objs[y]
      BY <2>1, <2>4 DEF LooseTo
    <3>2. u = [f |-> g, z |-> b.z, new |-> TRUE]
      BY <2>2, <2>4 DEF SetInodeZone, Zoned
    <3>3. /\ g \in Systems /\ Rest(b.f, g) /\ g.imap = b.f.imap /\ g.dev_inode = b.f.dev_inode
          /\ g.halt = b.f.halt /\ g.table[s] = r
          /\ \A t \in Slot : t # s => g.table[t] = b.f.table[t]
          /\ r.num = f.table[s].num /\ r.cnt = f.table[s].cnt /\ r.valid = f.table[s].valid
          /\ r.dirt /\ r.node.mode = f.table[s].node.mode /\ r.node.zone[k] = b.z
          /\ \A q \in 0..DIRECT : q # k => r.node.zone[q] = f.table[s].node.zone[q]
      <4>1. ZonedTo(b.f, g, r, s, k, b.z)
        BY <3>1, ZoneRowIs
      <4> HIDE DEF g, r
      <4> QED
        BY <3>1, <4>1 DEF ZonedTo
    <3> HIDE DEF g, r
    <3>4. StepTo(f, g, s)
      BY <3>1, <3>3 DEF StepTo, Runs, Rest
    <3>5. ASSUME Runs(g) PROVE TableOK(g, h) /\ Owned(g)
      <4>1. TableOK(f, h) /\ Owned(f) /\ Runs(f)
        BY <3>4, <3>5 DEF StepTo, Holds
      <4>2. s \in Valid(f)
        BY <4>1 DEF TableOK, CountsOK, Valid
      <4>3. f.table[s].node.mode # "dev"
        BY <4>1 DEF HasZones
      <4>4. NodeTo(f, g, s)
        BY <3>1, <3>3, <4>2 DEF NodeTo, Valid
      <4>5. ZonePut(f, g, s, k, b.z)
        BY <3>1, <3>3, <4>3, <4>4 DEF ZonePut, Rest, Else
      <4> QED
        BY <1>1, <1>4, <3>1, <3>3, <4>1, <4>2, <4>3, <4>5, ZoneGiven
    <3> HIDE DEF u
    <3>6. BmapTo(f, u, s, h)
      BY <3>1, <3>2, <3>3, <3>4, <3>5 DEF BmapTo, Holds
    <3>7. InodeZoneTo(f, u, s, k, h)
      BY <3>2, <3>3, <3>6 DEF InodeZoneTo
    <3> QED
      BY <3>7 DEF u
  <2> QED
    BY <2>3, <2>4
<1> QED
  BY <1>3, <1>4

LEMMA IndirectHolds ==
  ASSUME NEW f, NEW h, NEW s \in Slot, h[s] > 0, HasZones(f, s), NEW b,
         InodeZoneTo(f, b, s, DIRECT, h), NEW k \in DOMAIN NoObjs
  PROVE  BmapTo(f, IndirectZone(b, k), s, h)
<1> DEFINE u == IndirectZone(b, k)
           v == b.f
<1>1. /\ b = [f |-> v, z |-> b.z, new |-> b.new] /\ b.z \in Zone \cup {NoZone}
      /\ StepTo(f, v, s) /\ Holds(v, h) /\ v \in Systems
  BY DEF InodeZoneTo, BmapTo, Holds
<1>2. CASE b.z = NoZone
  <2>1. u = [f |-> v, z |-> NoZone, new |-> FALSE]
    BY <1>1, <1>2 DEF IndirectZone
  <2> HIDE DEF u, v
  <2>2. BmapTo(f, u, s, h)
    BY <1>1, <2>1 DEF BmapTo
  <2> QED
    BY <2>2 DEF u
<1>3. CASE b.z # NoZone
  <2>1. b.z \in Zone /\ v.table[s].node.zone[DIRECT] = b.z
    BY <1>1, <1>3 DEF InodeZoneTo
  <2>2. v.objs[b.z][k] \in Zone \cup {NoZone}
    BY <1>1, <2>1, Fields
  <2>3. CASE v.objs[b.z][k] # NoZone
    <3>1. u = [f |-> v, z |-> v.objs[b.z][k], new |-> FALSE]
      BY <1>3, <2>3 DEF IndirectZone
    <3> HIDE DEF u, v
    <3>2. BmapTo(f, u, s, h)
      BY <1>1, <2>2, <3>1 DEF BmapTo
    <3> QED
      BY <3>2 DEF u
  <2>4. CASE v.objs[b.z][k] = NoZone
    <3> DEFINE c == NewBlock(v)
    <3>1. LooseTo(v, c)
      BY <1>1, NewBlockGives
    <3>2. u = SetObj(c, b.z, k)
      BY <1>3, <2>4 DEF IndirectZone
    <3> HIDE DEF c
    <3>3. CASE c.z = NoZone
      <4>1. u = [f |-> v, z |-> NoZone, new |-> FALSE]
        BY <3>1, <3>2, <3>3, Ranges DEF SetObj, LooseTo
      <4> HIDE DEF u, v
      <4>2. BmapTo(f, u, s, h)
        BY <1>1, <4>1 DEF BmapTo
      <4> QED
        BY <4>2 DEF u
    <3>4. CASE c.z # NoZone
      <4> DEFINE w == c.f
                 row == [w.objs[b.z] EXCEPT ![k] = c.z]
                 objs == [w.objs EXCEPT ![b.z] = row]
                 g == [w EXCEPT !.objs = objs]
      <4>1. /\ c.z \in Zone \ v.zmap /\ w.zmap = v.zmap \cup {c.z} /\ w \in Systems
            /\ w.table = v.table /\ w.imap = v.imap
            /\ w.dev_inode = v.dev_inode /\ w.lost = v.lost /\ w.leaks = v.leaks
            /\ w.halt = v.halt /\ \A y \in Zone : y # c.z => w.objs[y] = v.objs[y]
        BY <3>1, <3>4 DEF LooseTo
      <4>2. u = [f |-> g, z |-> c.z, new |-> TRUE]
        BY <3>2, <3>4 DEF SetObj
      <4>3. w.objs \in [Zone -> [DOMAIN NoObjs -> Zone \cup {NoZone}]]
        BY <4>1, Fields
      <4>4. /\ row \in [DOMAIN NoObjs -> Zone \cup {NoZone}] /\ row[k] = c.z
            /\ \A q \in DOMAIN NoObjs : q # k => row[q] = w.objs[b.z][q]
        BY <2>1, <4>1, <4>3
      <4> HIDE DEF row
      <4>5. /\ objs \in [Zone -> [DOMAIN NoObjs -> Zone \cup {NoZone}]] /\ objs[b.z] = row
            /\ \A y \in Zone : y # b.z => objs[y] = w.objs[y]
        BY <2>1, <4>3, <4>4
      <4> HIDE DEF objs
      <4>6. /\ g \in Systems /\ g.table = w.table /\ g.imap = w.imap /\ g.zmap = w.zmap
            /\ g.dev_inode = w.dev_inode /\ g.lost = w.lost /\ g.leaks = w.leaks
            /\ g.halt = w.halt /\ g.objs = objs
        BY <4>1, <4>5 DEF Systems
      <4> HIDE DEF g, w
      <4>7. StepTo(v, g, s)
        BY <4>1, <4>6 DEF StepTo, Runs
      <4>8. ASSUME Runs(g) PROVE TableOK(g, h) /\ Owned(g)
        <5>1. TableOK(v, h) /\ Owned(v) /\ Runs(v)
          BY <1>1, <4>7, <4>8 DEF StepTo, Holds
        <5>2. s \in Valid(v) /\ Once(v) /\ v.table[s].num \in v.imap
          BY <5>1 DEF TableOK, CountsOK, Valid, InMap
        <5>3. v.table[s].node.mode # "dev"
          BY <1>1, <5>1 DEF HasZones, StepTo
        <5>4. NodeOf(v, v.table[s].num) = v.table[s].node
          BY <1>1, <5>2, NodeAt
        <5>5. Has(v, v.table[s].num, DIRECT) = b.z
          <6>1. DIRECT <= DIRECT
            BY Ranges
          <6> QED
            BY <2>1, <5>3, <5>4, <6>1 DEF Has, ZoneIn
        <5>6. b.z \in v.zmap
          BY <1>3, <5>1, <5>2, <5>5, Positions DEF Owned, OwnedIn
        <5>7. b.z # c.z /\ w.objs[b.z] = v.objs[b.z]
          BY <2>1, <4>1, <5>6
        <5>8. ObjPut(v, g, b.z, k, c.z)
          BY <4>1, <4>4, <4>5, <4>6, <5>7 DEF ObjPut
        <5> QED
          BY <1>1, <2>1, <2>4, <4>1, <4>6, <5>1, <5>2, <5>3, <5>8, ObjGiven
      <4> HIDE DEF u, v
      <4>9. StepTo(f, g, s)
        BY <1>1, <4>7, StepTwice
      <4>10. BmapTo(f, u, s, h)
        BY <4>1, <4>2, <4>6, <4>8, <4>9 DEF BmapTo, Holds
      <4> QED
        BY <4>10 DEF u
    <3> QED
      BY <3>3, <3>4
  <2> QED
    BY <2>3, <2>4
<1> QED
  BY <1>2, <1>3

\* Zones are made, as far as there are some, for an inode that has zones.
LEMMA BmapHolds ==
  ASSUME NEW f, NEW h, NEW s \in Slot, h[s] > 0, Holds(f, h), HasZones(f, s),
         NEW n \in FileBlock
  PROVE  BmapTo(f, Bmap(f, s, n), s, h)
<1>1. CASE n < DIRECT
  <2>1. n \in 0..DIRECT
    BY <1>1, Ranges
  <2> QED
    BY <1>1, <2>1, InodeZoneHolds DEF Bmap, InodeZoneTo
<1>2. CASE ~(n < DIRECT)
  <2>1. n - DIRECT \in 0..(NR_BLK_OBJS - 1) /\ DIRECT \in 0..DIRECT
    BY <1>2, Ranges
  <2>2. n - DIRECT \in DOMAIN NoObjs
    BY <2>1, EmptyZones
  <2>3. InodeZoneTo(f, InodeZone(f, s, DIRECT), s, DIRECT, h)
    BY <2>1, InodeZoneHolds
  <2> QED
    BY <1>2, <2>2, <2>3, IndirectHolds DEF Bmap
<1> QED
  BY <1>1, <1>2

-----------------------------------------------------------------------------
(***************************************************************************)
(* A slot and an entry of a directory that change.                         *)
(***************************************************************************)
RowPut(f, s, r) == [f EXCEPT !.table = [f.table EXCEPT ![s] = r]]

RowPutTo(f, g, s, r) ==
  /\ g \in Systems /\ Rest(f, g) /\ g.imap = f.imap /\ g.dev_inode = f.dev_inode
  /\ g.halt = f.halt /\ g.table[s] = r /\ \A t \in Slot : t # s => g.table[t] = f.table[t]

LEMMA RowPutIs ==
  ASSUME NEW f \in Systems, NEW s \in Slot, NEW r \in Row
  PROVE  RowPutTo(f, RowPut(f, s, r), s, r)
<1> DEFINE table == [f.table EXCEPT ![s] = r]
           g == [f EXCEPT !.table = table]
<1>1. /\ table \in [Slot -> Row] /\ table[s] = r
      /\ \A t \in Slot : t # s => table[t] = f.table[t]
  BY Fields
<1> HIDE DEF table
<1>2. /\ g \in Systems /\ Rest(f, g) /\ g.imap = f.imap /\ g.dev_inode = f.dev_inode
      /\ g.halt = f.halt /\ g.table = table
  BY <1>1 DEF Systems, Rest
<1>3. RowPut(f, s, r) = g
  BY DEF RowPut, table
<1> HIDE DEF g
<1> QED
  BY <1>1, <1>2, <1>3 DEF RowPutTo

LEMMA RowPutTwice ==
  ASSUME NEW f \in Systems, NEW s \in Slot, NEW r, NEW u
  PROVE  RowPut(RowPut(f, s, r), s, u) = RowPut(f, s, u)
<1> DEFINE t1 == [f.table EXCEPT ![s] = r]
           f1 == [f EXCEPT !.table = t1]
           t2 == [t1 EXCEPT ![s] = u]
           f2 == [f1 EXCEPT !.table = t2]
           t3 == [f.table EXCEPT ![s] = u]
<1>1. f1.table = t1
  BY DEF Systems
<1>2. t2 = t3
  BY Fields
<1>3. f2 = [f EXCEPT !.table = t2]
  BY DEF Systems
<1> QED
  BY <1>1, <1>2, <1>3 DEF RowPut

\* The inode in slot s has the same zones, and will be written if it has to be.
Stays(f, s, r) ==
  /\ r \in Row /\ r.num = f.table[s].num /\ r.cnt = f.table[s].cnt
  /\ r.valid = f.table[s].valid /\ Copies(r.node, f.table[s].node)
  /\ f.table[s].valid => r.dirt \/ Going(r) \/ ~(f.table[s].dirt \/ Going(f.table[s]))

LEMMA RowHolds ==
  ASSUME NEW f, NEW h, Holds(f, h), NEW s \in Slot, NEW r, Stays(f, s, r)
  PROVE  StepTo(f, RowPut(f, s, r), s) /\ Holds(RowPut(f, s, r), h)
<1> DEFINE g == RowPut(f, s, r)
<1>1. f \in Systems
  BY DEF Holds
<1>2. RowPutTo(f, g, s, r)
  BY <1>1, RowPutIs DEF Stays
<1> HIDE DEF g
<1>3. StepTo(f, g, s)
  BY <1>2 DEF RowPutTo, StepTo, Rest, Runs, Stays, Copies
<1>4. ASSUME Runs(g) PROVE TableOK(g, h) /\ Owned(g)
  <2>1. TableOK(f, h) /\ Owned(f)
    BY <1>3, <1>4 DEF StepTo, Holds
  <2>2. RowTo(f, g, s)
    BY <1>2 DEF RowPutTo, Rest, RowTo, Stays
  <2>3. g.table[s].cnt = h[s] /\ (h[s] > 0 => f.table[s].valid)
    BY <1>2, <2>1 DEF RowPutTo, Stays, TableOK, CountsOK
  <2>4. g \in Systems
    BY <1>2 DEF RowPutTo
  <2> QED
    BY <1>1, <2>1, <2>2, <2>3, <2>4, RowChanges
<1>5. g \in Systems
  BY <1>2 DEF RowPutTo
<1> QED
  BY <1>3, <1>4, <1>5 DEF Holds, g

EntriesTo(f, g) == g \in Systems /\ SameTo(f, g) /\ g.leaks = f.leaks /\ g.halt = f.halt

LEMMA EntryPut ==
  ASSUME NEW f \in Systems, NEW z \in Zone, NEW k, NEW e, k \in DOMAIN NoEntries => e \in Entry
  PROVE  EntriesTo(f, [f EXCEPT !.entries[z][k] = e])
<1> DEFINE row == [f.entries[z] EXCEPT ![k] = e]
           entries == [f.entries EXCEPT ![z] = row]
           g == [f EXCEPT !.entries = entries]
<1>1. f.entries \in [Zone -> [DOMAIN NoEntries -> Entry]]
  BY Fields
<1>2. row \in [DOMAIN NoEntries -> Entry]
  BY <1>1
<1>3. [f EXCEPT !.entries[z][k] = e] = g
  OBVIOUS
<1> HIDE DEF row
<1>4. entries \in [Zone -> [DOMAIN NoEntries -> Entry]]
  BY <1>1, <1>2
<1> HIDE DEF entries
<1>5. EntriesTo(f, g)
  BY <1>4 DEF Systems, EntriesTo, SameTo
<1> QED
  BY <1>3, <1>5

LEMMA EntriesHold ==
  ASSUME NEW f, NEW h, Holds(f, h), NEW g, EntriesTo(f, g), NEW s \in Slot
  PROVE  StepTo(f, g, s) /\ Holds(g, h)
<1>1. g \in Systems /\ SameTo(f, g) /\ (Runs(g) => Runs(f))
  BY DEF EntriesTo, Runs
<1>2. Holds(g, h)
  BY <1>1, SameHolds
<1>3. StepTo(f, g, s)
  BY <1>1 DEF StepTo, EntriesTo, SameTo
<1> QED
  BY <1>2, <1>3

\* The inode in slot s is to be written.
LEMMA DirtHolds ==
  ASSUME NEW f, NEW h, Holds(f, h), NEW s \in Slot
  PROVE  LET g == [f EXCEPT !.table[s].dirt = TRUE] IN StepTo(f, g, s) /\ Holds(g, h)
<1> DEFINE r == [f.table[s] EXCEPT !.dirt = TRUE]
           g == [f EXCEPT !.table[s].dirt = TRUE]
<1>1. f \in Systems /\ f.table[s] \in Row
  BY RowFields DEF Holds
<1>2. g = RowPut(f, s, r)
  BY DEF RowPut
<1>3. Stays(f, s, r)
  BY <1>1 DEF Stays, Row, Copies
<1> HIDE DEF r, g
<1>4. StepTo(f, g, s) /\ Holds(g, h)
  BY <1>2, <1>3, RowHolds
<1> QED
  BY <1>4 DEF g

\* Counts and sizes: the inode has the same zones, and is to be written.
LEMMA NodeStays ==
  ASSUME NEW f, NEW h, Holds(f, h), NEW s \in Slot, NEW node \in DevInode,
         Copies(node, f.table[s].node), NEW g,
         g = [[f EXCEPT !.table[s].node = node] EXCEPT !.table[s].dirt = TRUE]
  PROVE  StepTo(f, g, s) /\ Holds(g, h)
<1> DEFINE row == f.table[s]
           r1 == [row EXCEPT !.node = node]
           r == [r1 EXCEPT !.dirt = TRUE]
           f1 == [f EXCEPT !.table[s].node = node]
<1>1. f \in Systems /\ row \in Row
  BY RowFields DEF Holds
<1>2. f1 = RowPut(f, s, r1)
  BY DEF RowPut
<1>3. r1 \in Row
  BY <1>1 DEF Row
<1>4. Stays(f, s, r)
  BY <1>1 DEF Stays, Row
<1> HIDE DEF r1, f1, row
<1>5. f1.table[s] = r1
  BY <1>1, <1>2, <1>3, RowPutIs DEF RowPutTo
<1>6. g = RowPut(f1, s, r)
  BY <1>5 DEF RowPut, f1
<1> HIDE DEF r
<1>7. g = RowPut(f, s, r)
  BY <1>1, <1>2, <1>6, RowPutTwice
<1> QED
  BY <1>4, <1>7, RowHolds

-----------------------------------------------------------------------------
(***************************************************************************)
(* Directories: looking for a name, and a name more.                       *)
(***************************************************************************)
LEMMA GrownHolds ==
  ASSUME NEW f, NEW h, NEW s \in Slot, NEW b, BmapTo(f, b, s, h)
  PROVE  BmapTo(f, Grown(b, s), s, h)
<1> DEFINE v == b.f
           old == v.table[s].node
           node == [old EXCEPT !.size = @ + 1]
           f1 == [v EXCEPT !.table[s].node = node]
           g == [f1 EXCEPT !.table[s].dirt = TRUE]
           u == Grown(b, s)
<1>1. /\ b = [f |-> v, z |-> b.z, new |-> b.new] /\ b.new \in BOOLEAN
      /\ b.z \in Zone \cup {NoZone} /\ StepTo(f, v, s) /\ Holds(v, h) /\ v \in Systems
  BY DEF BmapTo, Holds
<1>2. CASE ~b.new
  BY <1>2 DEF Grown
<1>3. CASE b.new
  <2>1. old \in DevInode
    BY <1>1, RowFields
  <2>2. u = [f |-> g, z |-> b.z, new |-> b.new]
    BY <1>1, <1>3 DEF Grown
  <2> HIDE DEF old
  <2>3. node \in DevInode /\ Copies(node, old)
    <3>1. old.size + 1 \in Nat
      BY <2>1 DEF DevInode
    <3>2. node = [old EXCEPT !.size = old.size + 1]
      OBVIOUS
    <3> QED
      BY <2>1, <3>1, <3>2 DEF DevInode, Copies
  <2> USE DEF old
  <2> HIDE DEF node, v, u
  <2>4. StepTo(v, g, s) /\ Holds(g, h)
    BY <1>1, <2>3, NodeStays
  <2> HIDE DEF g
  <2>5. StepTo(f, g, s)
    BY <1>1, <2>4, StepTwice
  <2>6. BmapTo(f, u, s, h)
    BY <1>1, <2>2, <2>4, <2>5 DEF BmapTo
  <2> QED
    BY <2>6 DEF u
<1> QED
  BY <1>1, <1>2, <1>3

EnterTo(f, a, d, h) ==
  /\ a = [f |-> a.f, e |-> a.e] /\ StepTo(f, a.f, d) /\ Holds(a.f, h)
  /\ a.e # NotFound => a.e.z \in Zone

LEMMA InZoneHolds ==
  ASSUME NEW f, NEW h, NEW s \in Slot, NEW b, BmapTo(f, b, s, h), NEW name \in EntryName
  PROVE  EnterTo(f, EntryInZone(b, s, name), s, h)
<1> DEFINE v == b.f
           u == EntryInZone(b, s, name)
<1>1. b.z \in Zone \cup {NoZone} /\ StepTo(f, v, s) /\ Holds(v, h) /\ v \in Systems
  BY DEF BmapTo, Holds
<1>2. CASE b.z = NoZone
  <2>1. u = [f |-> v, e |-> NotFound]
    BY <1>2 DEF EntryInZone
  <2> HIDE DEF u, v
  <2>2. EnterTo(f, u, s, h)
    BY <1>1, <2>1 DEF EnterTo
  <2> QED
    BY <2>2 DEF u
<1>3. CASE b.z # NoZone
  <2> DEFINE k == Min(EmptyAt(v, b.z))
             old == v.entries[b.z][k]
             e == [old EXCEPT !.name = name]
             f1 == [v EXCEPT !.entries[b.z][k] = e]
             g == [f1 EXCEPT !.table[s].dirt = TRUE]
  <2>1. b.z \in Zone
    BY <1>1, <1>3
  <2> HIDE DEF k
  <2>2. k \in DOMAIN NoEntries => old \in Entry
    BY <1>1, <2>1, Fields
  <2>3. k \in DOMAIN NoEntries => e \in Entry
    BY <2>2 DEF Entry
  <2>4. u = [f |-> g, e |-> [z |-> b.z, k |-> k]]
    BY <1>3 DEF EntryInZone, k
  <2> HIDE DEF e, u, v
  <2>5. EntriesTo(v, f1)
    BY <1>1, <2>1, <2>3, EntryPut
  <2> HIDE DEF f1
  <2>6. StepTo(v, f1, s) /\ Holds(f1, h)
    BY <1>1, <2>5, EntriesHold
  <2>7. StepTo(f1, g, s) /\ Holds(g, h)
    BY <2>6, DirtHolds
  <2> HIDE DEF g
  <2>8. StepTo(f, g, s)
    BY <1>1, <2>6, <2>7, StepTwice
  <2>9. EnterTo(f, u, s, h)
    BY <2>1, <2>4, <2>7, <2>8 DEF EnterTo
  <2> QED
    BY <2>9 DEF u
<1> QED
  BY <1>2, <1>3

LEMMA AddEntryHolds ==
  ASSUME NEW f, NEW h, NEW s \in Slot, h[s] > 0, Holds(f, h), HasZones(f, s),
         NEW name \in EntryName
  PROVE  EnterTo(f, AddEntry(f, s, name), s, h)
<1> DEFINE u == AddEntry(f, s, name)
           n == Min(NotFull(f, s))
<1>1. CASE NotFull(f, s) = {}
  <2>1. u = [f |-> f, e |-> NotFound]
    BY <1>1 DEF AddEntry
  <2> HIDE DEF u
  <2>2. EnterTo(f, u, s, h)
    BY <2>1 DEF EnterTo, StepTo, Holds
  <2> QED
    BY <2>2 DEF u
<1>2. CASE NotFull(f, s) # {}
  <2>1. n \in FileBlock
    <3>1. NotFull(f, s) \in SUBSET FileBlock
      BY DEF NotFull
    <3>2. n \in NotFull(f, s)
      BY <1>2, <3>1, MinBlock
    <3> QED
      BY <3>1, <3>2
  <2>2. u = EntryInZone(Grown(Bmap(f, s, n), s), s, name)
    BY <1>2 DEF AddEntry
  <2> HIDE DEF n
  <2> QED
    BY <2>1, <2>2, BmapHolds, GrownHolds, InZoneHolds
<1> QED
  BY <1>1, <1>2

LEMMA EnterHolds ==
  ASSUME NEW f, NEW h, NEW d \in Slot, h[d] > 0, Holds(f, h), HasZones(f, d),
         NEW n \in Slot, NEW name \in EntryName
  PROVE  EnterTo(f, Enter(f, d, n, name), d, h)
<1> DEFINE a == AddEntry(f, d, name)
           v == a.f
           u == Enter(f, d, n, name)
<1>1. EnterTo(f, a, d, h)
  BY AddEntryHolds
<1>2. u = Numbered(a, n)
  BY DEF Enter
<1> HIDE DEF a, u
<1>3. a = [f |-> v, e |-> a.e] /\ StepTo(f, v, d) /\ Holds(v, h) /\ v \in Systems
  BY <1>1 DEF EnterTo, Holds
<1>4. CASE a.e = NotFound
  BY <1>1, <1>2, <1>4 DEF Numbered, u
<1>5. CASE a.e # NotFound
  <2> DEFINE z == a.e.z
             k == a.e.k
             old == v.entries[z][k]
             e == [old EXCEPT !.inr = v.table[n].num]
             g == [v EXCEPT !.entries[z][k] = e]
  <2>1. z \in Zone /\ v.table[n].num \in Inode
    BY <1>1, <1>3, <1>5, RowFields DEF EnterTo
  <2>2. k \in DOMAIN NoEntries => old \in Entry
    BY <1>3, <2>1, Fields
  <2>3. k \in DOMAIN NoEntries => e \in Entry
    BY <2>1, <2>2 DEF Entry
  <2>4. u = [a EXCEPT !.f = g]
    BY <1>2, <1>5 DEF Numbered
  <2> HIDE DEF e
  <2>5. EntriesTo(v, g)
    BY <1>3, <2>1, <2>3, EntryPut
  <2> HIDE DEF g
  <2>6. u = [f |-> g, e |-> a.e]
    BY <1>3, <2>4
  <2> HIDE DEF v
  <2>7. StepTo(v, g, d) /\ Holds(g, h)
    BY <1>3, <2>5, EntriesHold
  <2>8. StepTo(f, g, d)
    BY <1>3, <2>7, StepTwice
  <2>9. EnterTo(f, u, d, h)
    BY <2>1, <2>6, <2>7, <2>8 DEF EnterTo
  <2> QED
    BY <2>9 DEF u
<1> QED
  BY <1>4, <1>5

FoundTo(e) == e # NotFound => e.z \in Zone /\ e.k \in DOMAIN NoEntries

LEMMA ZoneTyped ==
  ASSUME NEW f \in Systems, NEW s \in Slot, NEW n \in FileBlock
  PROVE  BlockZone(f, s, n) \in Zone \cup {NoZone}
<1> DEFINE zone == f.table[s].node.zone
           p == IF n < DIRECT THEN n ELSE n + 1
<1>1. zone \in [0..DIRECT -> Zone \cup {NoZone}]
  BY RowFields
<1>2. f.objs \in [Zone -> [DOMAIN NoObjs -> Zone \cup {NoZone}]]
  BY Fields
<1>3. p \in Position
  BY Ranges
<1> HIDE DEF zone, p
<1>4. ZoneIn(f, zone, p) \in Zone \cup {NoZone}
  <2>1. CASE p <= DIRECT
    BY <1>1, <1>3, <2>1, Positions DEF ZoneIn
  <2>2. CASE ~(p <= DIRECT)
    <3>1. p - DIRECT - 1 \in DOMAIN NoObjs /\ DIRECT \in 0..DIRECT
      BY <1>3, <2>2, Positions
    <3> QED
      BY <1>1, <1>2, <2>2, <3>1 DEF ZoneIn
  <2> QED
    BY <2>1, <2>2
<1> QED
  BY <1>4 DEF BlockZone, ZoneOf, zone, p

LEMMA FindEntryIs ==
  ASSUME NEW f \in Systems, NEW s \in Slot, NEW name
  PROVE  FoundTo(FindEntry(f, s, name))
<1> DEFINE e == FindEntry(f, s, name)
           sought == Sought(f, s, name)
           blocks == {n \in DirBlocks(f, s) : NamedAt(f, BlockZone(f, s, n), sought) # {}}
           n == Min(blocks)
           z == BlockZone(f, s, n)
           k == Min(NamedAt(f, z, sought))
<1> SUFFICES ASSUME e # NotFound PROVE FoundTo(e)
  BY DEF FoundTo
<1>1. blocks # {} /\ e = [z |-> z, k |-> k]
  BY DEF FindEntry, FindSought, FirstNamed
<1>2. n \in FileBlock /\ NamedAt(f, z, sought) # {} /\ z # NoZone
  <2>1. blocks \in SUBSET FileBlock /\ \A m \in blocks : BlockZone(f, s, m) # NoZone
    BY DEF DirBlocks, FirstBlocks
  <2>2. n \in blocks
    BY <1>1, <2>1, MinBlock
  <2> QED
    BY <2>1, <2>2
<1> HIDE DEF e, n, sought
<1>3. z \in Zone
  BY <1>2, ZoneTyped
<1>4. k \in DOMAIN NoEntries
  <2>1. NamedAt(f, z, sought) \in SUBSET DOMAIN NoEntries
    BY DEF NamedAt
  <2>2. k \in NamedAt(f, z, sought)
    BY <1>2, <2>1, MinEntry
  <2> QED
    BY <2>1, <2>2
<1> HIDE DEF z, k, blocks
<1> QED
  BY <1>1, <1>3, <1>4 DEF FoundTo

LEMMA EntryInodeIs ==
  ASSUME NEW f \in Systems, NEW e, FoundTo(e), e # NotFound
  PROVE  EntryInode(f, e) \in Inode
<1>1. e.z \in Zone /\ e.k \in DOMAIN NoEntries
  BY DEF FoundTo
<1>2. f.entries[e.z][e.k] \in Entry
  BY <1>1, Fields
<1> QED
  BY <1>2 DEF EntryInode, Entry

-----------------------------------------------------------------------------
(***************************************************************************)
(* Inodes that are given back, and counts of links that change.            *)
(***************************************************************************)
LEMMA WithSwap ==
  ASSUME NEW h \in [Slot -> Nat], NEW a \in Slot \cup {None}, NEW b \in Slot \cup {None}
  PROVE  With(With(h, a), b) = With(With(h, b), a)
<1>1. CASE a = None \/ b = None
  BY <1>1 DEF With
<1>2. CASE a # None /\ b # None
  <2> DEFINE h1 == [h EXCEPT ![a] = @ + 1]
             h2 == [h EXCEPT ![b] = @ + 1]
             h12 == [h1 EXCEPT ![b] = @ + 1]
             h21 == [h2 EXCEPT ![a] = @ + 1]
  <2>1. /\ a \in Slot /\ b \in Slot /\ h1 \in [Slot -> Nat] /\ h2 \in [Slot -> Nat]
        /\ h12 \in [Slot -> Nat] /\ h21 \in [Slot -> Nat]
    BY <1>2
  <2>2. \A s \in Slot : h12[s] = h21[s]
    BY <2>1
  <2>3. h12 = h21
    BY <2>1, <2>2
  <2> QED
    BY <1>2, <2>3 DEF With
<1> QED
  BY <1>1, <1>2

\* Two holds are given back in either order.
LEMMA GiveBack ==
  ASSUME NEW f, NEW h \in [Slot -> Nat], NEW a \in Slot, NEW b \in Slot,
         Holds(f, With(With(h, a), b))
  PROVE  /\ Holds(Iput(f, a), With(h, b)) /\ Holds(Iput(f, b), With(h, a))
         /\ Holds(Iput(Iput(f, a), b), h) /\ Holds(Iput(Iput(f, b), a), h)
<1>1. With(h, a) \in [Slot -> Nat] /\ With(h, b) \in [Slot -> Nat]
  BY WithIs
<1>2. Holds(f, With(With(h, b), a))
  BY WithSwap
<1>3. Holds(Iput(f, a), With(h, b)) /\ Holds(Iput(f, b), With(h, a))
  BY <1>1, <1>2, IputHolds
<1> QED
  BY <1>3, IputHolds

LEMMA HeldCount ==
  ASSUME NEW f, NEW h \in [Slot -> Nat], NEW s \in Slot, Holds(f, With(h, s)), Runs(f)
  PROVE  f.table[s].cnt = h[s] + 1 /\ f.table[s].cnt > 0 /\ f.table[s].valid /\ s \in Valid(f)
<1>1. With(h, s)[s] = h[s] + 1 /\ h[s] \in Nat
  BY WithIs, Ranges
<1> QED
  BY <1>1 DEF Holds, TableOK, CountsOK, Valid

LEMMA IputNone ==
  ASSUME NEW f, NEW h \in [Slot -> Nat], NEW s \in Slot, Holds(f, h), h[s] = 0
  PROVE  Holds(Iput(f, s), h)
<1>1. CASE Runs(f)
  BY <1>1, IputAgain
<1>2. CASE ~Runs(f)
  BY <1>2, IputPuts DEF PutTo, Holds
<1> QED
  BY <1>1, <1>2

Unnamed(f, s) == [f EXCEPT !.table[s].node.nlinks = 0]

LEMMA UnnamedIs ==
  ASSUME NEW f, NEW s \in Slot, f \in Systems
  PROVE  LET r == Unnamed(f, s).table[s]
         IN  /\ RowPutTo(f, Unnamed(f, s), s, r) /\ r.num = f.table[s].num
             /\ r.cnt = f.table[s].cnt /\ r.valid = f.table[s].valid /\ r.dirt = f.table[s].dirt
             /\ Copies(r.node, f.table[s].node) /\ r.node.nlinks = 0
             /\ r \in Row /\ Unnamed(f, s) = RowPut(f, s, r)
<1> DEFINE row == f.table[s]
           node == [row.node EXCEPT !.nlinks = 0]
           r == [row EXCEPT !.node = node]
           g == Unnamed(f, s)
<1>1. row \in Row /\ row.node \in DevInode
  BY RowFields
<1>2. g = RowPut(f, s, r)
  BY DEF Unnamed, RowPut
<1>3. node \in DevInode /\ Copies(node, row.node) /\ node.nlinks = 0
  BY <1>1 DEF DevInode, Copies
<1> HIDE DEF node
<1>4. /\ r \in Row /\ r.num = row.num /\ r.cnt = row.cnt /\ r.valid = row.valid
      /\ r.dirt = row.dirt /\ r.node = node
  BY <1>1, <1>3 DEF Row
<1> HIDE DEF r, g, row
<1>5. RowPutTo(f, g, s, r) /\ g.table[s] = r
  BY <1>2, <1>4, RowPutIs DEF RowPutTo
<1> QED
  BY <1>2, <1>3, <1>4, <1>5 DEF row, g

LEMMA ForgetHolds ==
  ASSUME NEW f, NEW h \in [Slot -> Nat], NEW s \in Slot, Holds(f, With(h, s))
  PROVE  Holds(Forget(f, s), h)
<1> DEFINE g == Unnamed(f, s)
           r == g.table[s]
<1>1. f \in Systems
  BY DEF Holds
<1>2. /\ RowPutTo(f, g, s, r) /\ r.num = f.table[s].num
      /\ r.cnt = f.table[s].cnt /\ r.valid = f.table[s].valid /\ r.dirt = f.table[s].dirt
      /\ Copies(r.node, f.table[s].node) /\ r.node.nlinks = 0
      /\ r \in Row /\ g = RowPut(f, s, r)
  BY <1>1, UnnamedIs
<1>3. Forget(f, s) = Iput(g, s)
  BY DEF Forget, Unnamed
<1> HIDE DEF g, r
<1>4. CASE Runs(f)
  <2>1. Going(r)
    BY <1>2, <1>4, HeldCount DEF Going
  <2>2. Stays(f, s, r)
    BY <1>2, <2>1 DEF Stays
  <2>3. Holds(g, With(h, s))
    BY <1>2, <2>2, RowHolds
  <2> QED
    BY <1>3, <2>3, IputHolds
<1>5. CASE ~Runs(f)
  <2>1. g \in Systems /\ ~Runs(g)
    BY <1>2, <1>5 DEF RowPutTo, Runs
  <2> QED
    BY <1>3, <2>1, IputPuts DEF PutTo, Holds
<1> QED
  BY <1>4, <1>5

LEMMA LinkHolds ==
  ASSUME NEW f, NEW h, Holds(f, h), NEW s \in Slot
  PROVE  /\ StepTo(f, Linked(f, s), s) /\ Holds(Linked(f, s), h)
         /\ StepTo(f, Unlinked(f, s), s) /\ Holds(Unlinked(f, s), h)
<1> DEFINE old == f.table[s].node
           more == [old EXCEPT !.nlinks = @ + 1]
           less == [old EXCEPT !.nlinks = @ - 1]
<1>1. old \in DevInode
  BY RowFields DEF Holds
<1>2. Linked(f, s) = [[f EXCEPT !.table[s].node = more] EXCEPT !.table[s].dirt = TRUE]
  BY DEF Linked
<1>3. Unlinked(f, s) = [[f EXCEPT !.table[s].node = less] EXCEPT !.table[s].dirt = TRUE]
  BY DEF Unlinked
<1> HIDE DEF old
<1>4. more \in DevInode /\ less \in DevInode
  BY <1>1 DEF DevInode
<1>5. Copies(more, old) /\ Copies(less, old)
  BY <1>1 DEF DevInode, Copies
<1> HIDE DEF more, less
<1>6. Copies(more, f.table[s].node) /\ Copies(less, f.table[s].node)
  BY <1>5 DEF old
<1>7. ASSUME NEW node \in DevInode, Copies(node, f.table[s].node), NEW g,
             g = [[f EXCEPT !.table[s].node = node] EXCEPT !.table[s].dirt = TRUE]
      PROVE  StepTo(f, g, s) /\ Holds(g, h)
  BY <1>7, NodeStays
<1>8. StepTo(f, Linked(f, s), s) /\ Holds(Linked(f, s), h)
  BY <1>2, <1>4, <1>6, <1>7
<1>9. StepTo(f, Unlinked(f, s), s) /\ Holds(Unlinked(f, s), h)
  BY <1>3, <1>4, <1>6, <1>7
<1> QED
  BY <1>8, <1>9

LEMMA WriteHolds ==
  ASSUME NEW f, NEW h, NEW s \in Slot, h[s] > 0, Holds(f, h)
  PROVE  Holds(DoWrite(f, s), h)
<1> DEFINE b == Bmap(f, s, 0)
           v == b.f
           old == v.table[s].node
           node == [old EXCEPT !.size = 1]
           g == [[v EXCEPT !.table[s].node = node] EXCEPT !.table[s].dirt = TRUE]
<1>1. CASE f.table[s].node.mode # "reg"
  BY <1>1 DEF DoWrite
<1>2. CASE f.table[s].node.mode = "reg"
  <2>1. HasZones(f, s) /\ 0 \in FileBlock
    BY <1>2, Ranges DEF HasZones
  <2>2. BmapTo(f, b, s, h)
    BY <2>1, BmapHolds
  <2> HIDE DEF b
  <2>3. Holds(v, h) /\ old \in DevInode
    BY <2>2, RowFields DEF BmapTo, Holds
  <2>4. DoWrite(f, s) = Written(b, s)
    BY <1>2 DEF DoWrite, b
  <2>5. Written(b, s) = v \/ Written(b, s) = g
    BY DEF Written
  <2> HIDE DEF old, v
  <2>6. node \in DevInode /\ Copies(node, old)
    BY <2>3 DEF DevInode, Copies
  <2> HIDE DEF node
  <2>7. Holds(g, h)
    BY <2>3, <2>6, NodeStays DEF old
  <2> HIDE DEF g
  <2> QED
    BY <2>3, <2>4, <2>5, <2>7
<1> QED
  BY <1>1, <1>2

-----------------------------------------------------------------------------
(***************************************************************************)
(* The walk along a path.                                                  *)
(***************************************************************************)
IsPair(w) == w = [f |-> w.f, s |-> w.s]

LEMMA IgetPair ==
  ASSUME NEW f \in Systems, NEW i \in Inode
  PROVE  IsPair(Iget(f, i))
<1> DEFINE e == GetEmptyInode(f)
           v == Iget(f, i)
<1>1. CASE i \notin f.imap
  BY <1>1 DEF Iget, IsPair
<1>2. CASE i \in f.imap /\ Cached(f, i) # {}
  BY <1>2 DEF Iget, IsPair
<1>3. CASE i \in f.imap /\ Cached(f, i) = {}
  <2>1. EmptyTo(f, e) /\ f.dev_inode[i] \in DevInode
    BY GetEmptyGives, Fields
  <2>2. v = Hold(e, i, FALSE, f.dev_inode[i])
    BY <1>3 DEF Iget
  <2> HIDE DEF e, v
  <2>3. v = [f |-> [e.f EXCEPT !.table[e.s] = HeldRow(i, FALSE, f.dev_inode[i])], s |-> e.s]
    BY <2>1, <2>2, HoldIs
  <2>4. IsPair(v)
    BY <2>3 DEF IsPair
  <2> QED
    BY <2>4 DEF v
<1> QED
  BY <1>1, <1>2, <1>3

\* A result whose inode is a directory.
DirWay(w, h) == Way(w, h) /\ (Runs(w.f) /\ w.s # None => IsDir(w.f, w.s))

LEMMA NoneHolds ==
  ASSUME NEW f, NEW h, Holds(f, h)
  PROVE  DirWay([f |-> f, s |-> None], h)
BY DEF DirWay, Way, With

LEMMA DroppedHolds ==
  ASSUME NEW f, NEW h \in [Slot -> Nat], NEW s \in Slot, Holds(f, With(h, s))
  PROVE  DirWay([f |-> Iput(f, s), s |-> None], h)
BY IputHolds, NoneHolds

LEMMA OnlyDirHolds ==
  ASSUME NEW a, NEW h \in [Slot -> Nat], Way(a, h)
  PROVE  DirWay(OnlyDir(a), h) /\ (IsPair(a) => IsPair(OnlyDir(a)))
<1>1. CASE a.s = None \/ IsDir(a.f, a.s)
  BY <1>1 DEF OnlyDir, DirWay
<1>2. CASE ~(a.s = None \/ IsDir(a.f, a.s))
  <2>1. OnlyDir(a) = [f |-> Iput(a.f, a.s), s |-> None]
    BY <1>2 DEF OnlyDir
  <2>2. a.s \in Slot /\ Holds(a.f, With(h, a.s))
    BY <1>2 DEF Way
  <2> QED
    BY <2>1, <2>2, DroppedHolds DEF IsPair
<1> QED
  BY <1>1, <1>2

LEMMA FollowToHolds ==
  ASSUME NEW f, NEW h \in [Slot -> Nat], NEW s \in Slot, Holds(f, With(h, s)), NEW e,
         FoundTo(e)
  PROVE  Way(FollowTo(f, s, e), h) /\ IsPair(FollowTo(f, s, e))
<1>1. CASE e = NotFound
  <2>1. FollowTo(f, s, e) = [f |-> Iput(f, s), s |-> None]
    BY <1>1 DEF FollowTo
  <2> QED
    BY <2>1, DroppedHolds DEF DirWay, IsPair
<1>2. CASE e # NotFound
  <2>1. FollowTo(f, s, e) = Iget(Iput(f, s), EntryInode(f, e))
    BY <1>2 DEF FollowTo
  <2>2. EntryInode(f, e) \in Inode
    BY <1>2, EntryInodeIs DEF Holds
  <2>3. Holds(Iput(f, s), h)
    BY IputHolds
  <2> QED
    BY <2>1, <2>2, <2>3, IgetHolds, IgetPair DEF Holds
<1> QED
  BY <1>1, <1>2

LEMMA FollowHolds ==
  ASSUME NEW d, NEW h \in [Slot -> Nat], Way(d, h), NEW name
  PROVE  Way(Follow(d, name), h) /\ (IsPair(d) => IsPair(Follow(d, name)))
<1>1. CASE d.s = None
  BY <1>1 DEF Follow
<1>2. CASE d.s # None
  <2>1. d.s \in Slot /\ Holds(d.f, With(h, d.s)) /\ d.f \in Systems
    BY <1>2 DEF Way, Holds
  <2>2. FoundTo(FindEntry(d.f, d.s, name))
    BY <2>1, FindEntryIs
  <2> QED
    BY <1>2, <2>1, <2>2, FollowToHolds DEF Follow
<1> QED
  BY <1>1, <1>2

\* The walk along a path holds one inode, or none where it fails.
LEMMA AlongHolds ==
  ASSUME NEW a, NEW h \in [Slot -> Nat], Way(a, h), IsPair(a), NEW D, NEW dirs \in Seq(D)
  PROVE  Way(Along(a, dirs), h)
<1> DEFINE N == Len(dirs)
           Step(w, n) == Follow(OnlyDir(w), dirs[n])
           S == {w \in [f : Systems, s : Slot \cup {None}] : Way(w, h)}
           step == [t \in 1..N |-> [w \in S |-> Step(w, t)]]
<1>1. N \in Nat
  OBVIOUS
<1>2. \A w : Way(w, h) /\ IsPair(w) => w \in S
  <2> SUFFICES ASSUME NEW w, Way(w, h), IsPair(w)
               PROVE  w \in [f : Systems, s : Slot \cup {None}]
    OBVIOUS
  <2>1. w.f \in Systems /\ w.s \in Slot \cup {None} /\ w = [f |-> w.f, s |-> w.s]
    BY DEF Way, Holds, IsPair
  <2> QED
    BY <2>1
<1>3. \A w \in S : Way(w, h) /\ IsPair(w)
  <2> SUFFICES ASSUME NEW w \in [f : Systems, s : Slot \cup {None}] PROVE IsPair(w)
    OBVIOUS
  <2> QED
    BY DEF IsPair
<1> HIDE DEF N, S
<1>4. step \in [1..N -> [S -> S]] /\ a \in S
  <2>1. ASSUME NEW t \in 1..N, NEW w \in S PROVE Step(w, t) \in S
    <3>1. Way(OnlyDir(w), h) /\ IsPair(OnlyDir(w))
      BY <1>3, OnlyDirHolds DEF DirWay
    <3>2. Way(Step(w, t), h) /\ IsPair(Step(w, t))
      BY <3>1, FollowHolds
    <3> HIDE DEF Step
    <3> QED
      BY <1>2, <3>2
  <2> HIDE DEF Step
  <2> QED
    BY <2>1, <1>2
<1>5. \A t \in 1..N : \A w \in S : step[t][w] = Step(w, t)
  OBVIOUS
<1> HIDE DEF step
<1>6. PICK W : RunOf(W, N, S, a, step)
  BY <1>1, <1>4, RunExists
<1>7. W \in [0..N -> S] /\ W[0] = a
  BY <1>6 DEF RunOf
<1> HIDE DEF Step
<1>8. ASSUME NEW t \in 1..N PROVE t - 1 \in 0..N /\ W[t] = Step(W[t - 1], t)
  <2>1. t - 1 \in 0..N
    BY <1>1
  <2> QED
    BY <2>1, <1>5, <1>6, <1>7 DEF RunOf
<1> DEFINE Walks(w) == w = [t \in 0..N |-> IF t = 0 THEN a ELSE Step(w[t - 1], t)]
<1>9. Walks(W)
  <2>1. ASSUME NEW t \in 0..N
        PROVE  W[t] = IF t = 0 THEN a ELSE Step(W[t - 1], t)
    <3>1. t # 0 => t \in 1..N
      BY <1>1
    <3> QED
      BY <3>1, <1>7, <1>8
  <2> QED
    BY <2>1, <1>7
<1>10. ASSUME NEW w, Walks(w) PROVE w[N] = W[N]
  <2> DEFINE P == [t \in 0..N |-> w[t] = W[t]]
  <2>1. 0 \in 0..N /\ N \in 0..N
    BY <1>1
  <2>2. P[0]
    BY <2>1, <1>10, <1>7
  <2>3. ASSUME NEW t \in 1..N, P[t - 1] PROVE P[t]
    <3>1. t \in 0..N /\ t # 0 /\ t - 1 \in 0..N
      BY <1>1
    <3>2. w[t] = Step(w[t - 1], t)
      BY <3>1, <1>10
    <3>3. w[t - 1] = W[t - 1]
      BY <3>1, <2>3
    <3> QED
      BY <3>1, <3>2, <3>3, <1>8
  <2> HIDE DEF P
  <2>4. \A t \in 0..N : P[t]
    BY <1>1, <2>2, <2>3, TurnByTurn
  <2> QED
    BY <2>1, <2>4 DEF P
<1>11. Along(a, dirs) = (CHOOSE w : Walks(w))[N]
  BY DEF Along, N, Step
<1> HIDE DEF Walks
<1>12. Along(a, dirs) = W[N]
  BY <1>9, <1>10, <1>11
<1>13. Way(W[N], h)
  BY <1>1, <1>3, <1>7
<1> QED
  BY <1>12, <1>13

LEMMA DirNameiHolds ==
  ASSUME NEW f, NEW h \in [Slot -> Nat], Holds(f, h), cwd \in Inode, root \in Inode,
         NEW path \in Path
  PROVE  DirWay(DirNamei(f, path), h)
<1> DEFINE i == IF path.abs THEN root ELSE cwd
<1>1. i \in Inode /\ f \in Systems
  BY DEF Holds
<1> HIDE DEF i
<1>2. Way(Iget(f, i), h) /\ IsPair(Iget(f, i))
  BY <1>1, IgetHolds, IgetPair
<1>3. path.dirs \in Seq(Name \cup {".", ".."})
  BY DEF Path
<1>4. Way(Along(Iget(f, i), path.dirs), h)
  BY <1>2, <1>3, AlongHolds
<1> QED
  BY <1>4, OnlyDirHolds DEF DirNamei, i

LEMMA NameiHolds ==
  ASSUME NEW f, NEW h \in [Slot -> Nat], Holds(f, h), cwd \in Inode, root \in Inode,
         NEW path \in Path
  PROVE  Way(Namei(f, path), h)
BY DirNameiHolds, FollowHolds DEF Namei, DirWay

\* What InDir(d, name) gives, and what the commands go on with.
PathTo(p, h) == DirWay(p, h) /\ FoundTo(p.e)

LEMMA InDirHolds ==
  ASSUME NEW d, NEW h \in [Slot -> Nat], DirWay(d, h), NEW name
  PROVE  PathTo(InDir(d, name), h)
<1>1. CASE d.s = None
  BY <1>1 DEF InDir, PathTo, DirWay, Way, FoundTo
<1>2. CASE d.s # None
  <2>1. d.s \in Slot /\ Holds(d.f, With(h, d.s)) /\ d.f \in Systems
    BY <1>2 DEF DirWay, Way, Holds
  <2>2. FoundTo(FindEntry(d.f, d.s, name))
    BY <2>1, FindEntryIs
  <2>3. CASE name = NoName
    <3>1. InDir(d, name) = [f |-> Iput(d.f, d.s), s |-> None, e |-> NotFound]
      BY <1>2, <2>3 DEF InDir
    <3>2. Holds(Iput(d.f, d.s), h)
      BY <2>1, IputHolds
    <3> QED
      BY <3>1, <3>2 DEF PathTo, DirWay, Way, FoundTo, With
  <2>4. CASE name # NoName
    <3>1. InDir(d, name) = [f |-> d.f, s |-> d.s, e |-> FindEntry(d.f, d.s, name)]
      BY <1>2, <2>4 DEF InDir
    <3> QED
      BY <2>2, <3>1 DEF PathTo, DirWay, Way
  <2> QED
    BY <2>3, <2>4
<1> QED
  BY <1>1, <1>2

-----------------------------------------------------------------------------
(***************************************************************************)
(* A new inode becomes a file, a device file or a directory.               *)
(***************************************************************************)
Beside(f, g, s) ==
  g \in Systems /\ (Runs(g) => Runs(f)) /\ \A t \in Slot : t # s => g.table[t] = f.table[t]

New(f, h, s) == Runs(f) => h[s] > 0 /\ Blank(f.table[s])

Bare(node) == node.mode = "dev" \/ \A k \in 0..DIRECT : node.zone[k] = NoZone

Dressed(f, s, node) == [f EXCEPT !.table[s].node = node]

DressedTo(f, g, h, s) == Beside(f, g, s) /\ Holds(g, h)

LEMMA BareHolds ==
  ASSUME NEW f, NEW h, Holds(f, h), NEW s \in Slot, New(f, h, s), NEW node \in DevInode,
         Runs(f) => Bare(node)
  PROVE  DressedTo(f, Dressed(f, s, node), h, s)
<1> DEFINE row == f.table[s]
           r == [row EXCEPT !.node = node]
           g == Dressed(f, s, node)
           i == row.num
<1>1. f \in Systems /\ row \in Row
  BY RowFields DEF Holds
<1>2. g = RowPut(f, s, r)
  BY DEF RowPut, Dressed
<1>3. /\ r \in Row /\ r.num = row.num /\ r.cnt = row.cnt /\ r.valid = row.valid
      /\ r.dirt = row.dirt /\ r.node = node
  BY <1>1 DEF Row
<1> HIDE DEF r, g
<1>4. RowPutTo(f, g, s, r)
  BY <1>1, <1>2, <1>3, RowPutIs
<1>5. Beside(f, g, s)
  BY <1>4 DEF RowPutTo, Beside, Runs
<1>6. ASSUME Runs(g) PROVE TableOK(g, h) /\ Owned(g)
  <2>1. TableOK(f, h) /\ Owned(f) /\ Blank(row) /\ Bare(node)
    BY <1>5, <1>6 DEF Beside, Holds, New
  <2>2. s \in Valid(f) /\ InMap(f) /\ g \in Systems
    BY <1>4, <2>1 DEF Valid, TableOK, Blank, RowPutTo
  <2>3. NodeTo(f, g, s)
    BY <1>3, <1>4, <2>1 DEF NodeTo, RowPutTo, Blank
  <2>4. /\ TableOK(g, h) /\ NodeOf(f, i) = row.node /\ NodeOf(g, i) = node
        /\ \A j \in Inode : j # i => NodeOf(g, j) = NodeOf(f, j)
    <3>1. g.table[s].node = node
      BY <1>3, <1>4 DEF RowPutTo
    <3> QED
      BY <1>1, <2>1, <2>2, <2>3, <3>1, NodeChanges
  <2> HIDE DEF i
  <2>5. ASSUME NEW j \in f.imap, NEW p \in Position PROVE Has(g, j, p) = Has(f, j, p)
    <3>1. CASE j = i
      <4>1. Has(f, i, p) = NoZone
        BY <2>1, <2>4, BlankHas DEF Blank
      <4>2. CASE node.mode = "dev"
        BY <2>4, <3>1, <4>1, <4>2 DEF Has
      <4>3. CASE node.mode # "dev"
        BY <2>1, <2>4, <3>1, <4>1, <4>3, BlankHas DEF Bare
      <4> QED
        BY <4>2, <4>3
    <3>2. CASE j # i
      <4>1. j \in Inode /\ g.objs = f.objs
        BY <1>1, <1>4, Fields DEF RowPutTo, Rest
      <4>2. Copies(NodeOf(g, j), NodeOf(f, j))
        BY <2>4, <3>2, <4>1 DEF Copies
      <4> QED
        BY <4>1, <4>2, HasSame
    <3> QED
      BY <3>1, <3>2
  <2>6. g.imap = f.imap /\ g.lost = f.lost /\ g.zmap = f.zmap
    BY <1>4 DEF RowPutTo, Rest
  <2>7. OwnedIn(g, f.zmap)
    BY <2>1, <2>5, <2>6, OwnedAs DEF Owned
  <2> QED
    BY <2>4, <2>6, <2>7 DEF Owned
<1>7. DressedTo(f, g, h, s)
  BY <1>5, <1>6 DEF DressedTo, Holds, Beside
<1> QED
  BY <1>7 DEF g

DirNode(z) == [ZeroInode EXCEPT !.mode = "dir", !.nlinks = 2, !.size = 1, !.zone[0] = z]

\* A directory of one zone.
OnlyZone(node, z) ==
  /\ node.mode = "dir" /\ node.zone[0] = z
  /\ \A q \in 0..DIRECT : q # 0 => node.zone[q] = NoZone

LEMMA DirNodeIs ==
  ASSUME NEW z \in Zone
  PROVE  DirNode(z) \in DevInode /\ OnlyZone(DirNode(z), z)
<1> DEFINE zone == [ZeroInode.zone EXCEPT ![0] = z]
           node == [mode |-> "dir", nlinks |-> 2, size |-> 1, zone |-> zone]
<1>1. ZeroInode \in DevInode /\ ZeroInode.zone \in [0..DIRECT -> Zone \cup {NoZone}]
  BY Rows DEF DevInode
<1>2. /\ zone \in [0..DIRECT -> Zone \cup {NoZone}] /\ zone[0] = z
      /\ \A q \in 0..DIRECT : q # 0 => zone[q] = NoZone
  BY <1>1, Rows, Positions
<1>3. DirNode(z) = node
  <2> DEFINE Z == ZeroInode.zone
             Y(m, l, c) == [mode |-> m, nlinks |-> l, size |-> c, zone |-> Z]
             A1 == [ZeroInode EXCEPT !.mode = "dir"]
             A2 == [A1 EXCEPT !.nlinks = 2]
             A3 == [A2 EXCEPT !.size = 1]
             A4 == [A3 EXCEPT !.zone[0] = z]
  <2>1. DirNode(z) = A4
    BY DEF DirNode
  <2>2. ZeroInode = Y("none", 0, 0)
    BY DEF ZeroInode
  <2>3. node = [mode |-> "dir", nlinks |-> 2, size |-> 1, zone |-> [Z EXCEPT ![0] = z]]
    OBVIOUS
  <2> HIDE DEF Z, zone, node
  <2>4. A1 = Y("dir", 0, 0)
    BY <2>2
  <2> HIDE DEF A1
  <2>5. A2 = Y("dir", 2, 0)
    BY <2>4
  <2> HIDE DEF A2
  <2>6. A3 = Y("dir", 2, 1)
    BY <2>5
  <2> HIDE DEF A3
  <2>7. A4 = node
    BY <2>3, <2>6
  <2> QED
    BY <2>1, <2>7
<1> HIDE DEF zone
<1>4. node \in DevInode /\ node.mode = "dir" /\ node.zone = zone
  BY <1>1, <1>2 DEF DevInode, InodeMode
<1> HIDE DEF node
<1> QED
  BY <1>2, <1>3, <1>4 DEF OnlyZone

LEMMA DirZoneIs ==
  ASSUME NEW f, NEW node, NEW z, OnlyZone(node, z), NEW p \in Position
  PROVE  /\ ZoneIn(f, node.zone, 0) = z
         /\ ZoneIn(f, node.zone, p) # NoZone => ZoneIn(f, node.zone, p) = z
<1>1. DIRECT \in 0..DIRECT /\ DIRECT # 0 /\ 0 <= DIRECT
  BY Positions, Ranges
<1>2. p <= DIRECT => p \in 0..DIRECT
  BY Positions
<1> QED
  BY <1>1, <1>2 DEF OnlyZone, ZoneIn

LEMMA DirEntriesAre ==
  ASSUME NEW i \in Inode, NEW parent \in Inode
  PROVE  NewDirEntries(i, parent) \in [DOMAIN NoEntries -> Entry]
<1> DEFINE dot == [name |-> ".", inr |-> i]
           up == [name |-> "..", inr |-> parent]
<1>1. dot \in Entry /\ up \in Entry
  BY DEF Entry, EntryName
<1> HIDE DEF dot, up
<1>2. [NoEntries EXCEPT ![0] = dot, ![1] = up] \in [DOMAIN NoEntries -> Entry]
  BY <1>1, EmptyZones
<1> QED
  BY <1>2 DEF NewDirEntries, dot, up

MadeDirTo(f, g, h, n, z) ==
  /\ Beside(f, g, n) /\ Holds(g, h) /\ OnlyZone(g.table[n].node, z)

\* The zone becomes that of the new directory, which had none.
LEMMA MadeDirHolds ==
  ASSUME NEW f, NEW h, Holds(f, h), NEW n \in Slot, New(f, h, n), NEW b, LooseTo(f, b),
         b.z # NoZone, NEW parent \in Inode
  PROVE  MadeDirTo(f, MadeDir(b.f, n, b.z, parent), h, n, b.z)
<1> DEFINE v == b.f
           z == b.z
           i == v.table[n].num
           E == NewDirEntries(i, parent)
           f2 == [v EXCEPT !.entries = [v.entries EXCEPT ![z] = E]]
           node == DirNode(z)
           r == [f2.table[n] EXCEPT !.node = node]
           g == MadeDir(v, n, z, parent)
<1>1. f \in Systems /\ f.table[n] \in Row /\ i \in Inode
  BY RowFields DEF Holds, LooseTo
<1>2. /\ z \in Zone \ f.zmap /\ v.zmap = f.zmap \cup {z} /\ v \in Systems
      /\ v.objs[z] = NoObjs /\ v.table = f.table /\ v.imap = f.imap
      /\ v.dev_inode = f.dev_inode /\ v.lost = f.lost /\ v.leaks = f.leaks
      /\ v.halt = f.halt /\ \A y \in Zone : y # z => v.objs[y] = f.objs[y]
  BY DEF LooseTo
<1>3. /\ f2 \in Systems /\ f2.table = v.table /\ f2.imap = v.imap /\ f2.zmap = v.zmap
      /\ f2.objs = v.objs /\ f2.lost = v.lost /\ f2.dev_inode = v.dev_inode
      /\ f2.halt = v.halt
  <2>1. E \in [DOMAIN NoEntries -> Entry]
    BY <1>1, DirEntriesAre
  <2> HIDE DEF E
  <2> DEFINE entries == [v.entries EXCEPT ![z] = E]
  <2>2. entries \in [Zone -> [DOMAIN NoEntries -> Entry]]
    BY <1>2, <2>1, Fields
  <2> HIDE DEF entries
  <2>3. LET u == [v EXCEPT !.entries = entries]
        IN  /\ u \in Systems /\ u.table = v.table /\ u.imap = v.imap /\ u.zmap = v.zmap
            /\ u.objs = v.objs /\ u.lost = v.lost /\ u.dev_inode = v.dev_inode
            /\ u.halt = v.halt
    BY <1>2, <2>2 DEF Systems
  <2> QED
    BY <2>3 DEF entries
<1>4. g = [v EXCEPT !.entries = [v.entries EXCEPT ![z] = E],
                    !.table = [v.table EXCEPT ![n] = [v.table[n] EXCEPT !.node = node]]]
  BY DEF MadeDir, DirNode
<1>5. g = [f2 EXCEPT !.table = [v.table EXCEPT ![n] = [v.table[n] EXCEPT !.node = node]]]
  BY <1>4
<1> HIDE DEF f2, E, node, g, v
<1>6. g = RowPut(f2, n, r)
  BY <1>3, <1>5 DEF RowPut
<1>7. node \in DevInode /\ OnlyZone(node, z)
  BY <1>2, DirNodeIs DEF node
<1>8. f2.table[n] = f.table[n]
  BY <1>2, <1>3
<1>9. /\ r \in Row /\ r.num = f.table[n].num /\ r.cnt = f.table[n].cnt
      /\ r.valid = f.table[n].valid /\ r.dirt = f.table[n].dirt /\ r.node = node
  BY <1>1, <1>7, <1>8 DEF Row
<1> HIDE DEF r
<1>10. RowPutTo(f2, g, n, r)
  BY <1>3, <1>6, <1>9, RowPutIs
<1>11. Beside(f, g, n) /\ g.table[n] = r
  BY <1>2, <1>3, <1>10 DEF Beside, RowPutTo, Runs
<1>12. ASSUME Runs(g) PROVE TableOK(g, h) /\ Owned(g)
  <2>1. TableOK(f, h) /\ Owned(f) /\ Blank(f.table[n])
    BY <1>11, <1>12 DEF Beside, Holds, New
  <2>2. NodeTo(f, g, n)
    <3>1. g.table[n].valid /\ g.table[n].dirt
      BY <1>9, <1>11, <2>1 DEF Blank
    <3>2. g.table[n].num = f.table[n].num /\ g.table[n].cnt = f.table[n].cnt
      BY <1>9, <1>11
    <3>3. g.imap = f.imap /\ g.dev_inode = f.dev_inode
      BY <1>2, <1>3, <1>10 DEF RowPutTo
    <3> QED
      BY <1>11, <3>1, <3>2, <3>3 DEF NodeTo, Beside
  <2>3. \A q \in 0..DIRECT : f.table[n].node.zone[q] = NoZone
    BY <2>1 DEF Blank
  <2>4. g.table[n].node = node
    BY <1>9, <1>11
  <2>5. /\ g.lost = f.lost /\ g.zmap = f.zmap \cup {z} /\ g.objs[z] = NoObjs /\ Else(f, g, z)
    BY <1>2, <1>3, <1>10 DEF RowPutTo, Rest, Else
  <2>6. ZonePut(f, g, n, 0, z)
    BY <1>7, <2>2, <2>3, <2>4, <2>5 DEF ZonePut, OnlyZone
  <2>7. n \in Valid(f) /\ f.table[n].node.mode # "dev" /\ g \in Systems
    BY <1>10, <2>1 DEF Valid, Blank, RowPutTo
  <2> QED
    BY <1>1, <1>2, <2>1, <2>3, <2>6, <2>7, Positions, ZoneGiven
<1>13. g \in Systems
  BY <1>11 DEF Beside
<1>14. MadeDirTo(f, g, h, n, z)
  BY <1>7, <1>9, <1>11, <1>12, <1>13 DEF MadeDirTo, Holds
<1> QED
  BY <1>14 DEF g, v

\* A directory that got no name goes, after its zone was freed and not cleared.
LEMMA ForgetDirHolds ==
  ASSUME NEW f, NEW h \in [Slot -> Nat], NEW n \in Slot, Holds(f, With(h, n)), NEW z \in Zone,
         Runs(f) => h[n] = 0 /\ OnlyZone(f.table[n].node, z)
  PROVE  Holds(Forget(FreeBlock(f, z), n), h)
<1> DEFINE g == FreeBlock(f, z)
           u == Unnamed(g, n)
           v == [u EXCEPT !.table[n].cnt = @ - 1]
           w == Forget(g, n)
           i == f.table[n].num
           node == f.table[n].node
<1>1. f \in Systems
  BY DEF Holds
<1>2. g \in Systems /\ (Runs(g) => Runs(f) /\ z \in f.zmap /\ g = [f EXCEPT !.zmap = @ \ {z}])
  <2>1. g = Crash(f) \/ (z \in f.zmap /\ g = [f EXCEPT !.zmap = @ \ {z}])
    BY DEF FreeBlock
  <2>2. LET x == [f EXCEPT !.zmap = @ \ {z}] IN x \in Systems /\ x.halt = f.halt
    BY <1>1 DEF Systems
  <2> QED
    BY <1>1, <2>1, <2>2, CrashIs DEF Runs
<1>3. /\ RowPutTo(g, u, n, u.table[n]) /\ u.table[n].num = g.table[n].num
      /\ u.table[n].cnt = g.table[n].cnt /\ u.table[n].valid = g.table[n].valid
      /\ Copies(u.table[n].node, g.table[n].node) /\ u.table[n].node.nlinks = 0
  BY <1>2, UnnamedIs
<1>4. u \in Systems /\ (Runs(u) => Runs(g))
  BY <1>3 DEF RowPutTo, Runs
<1>5. w = Iput(u, n)
  BY DEF Forget, Unnamed
<1> HIDE DEF u, w
<1>6. w \in Systems /\ (Runs(w) => Runs(u))
  BY <1>4, <1>5, IputPuts DEF PutTo
<1>7. ASSUME Runs(w) PROVE TableOK(w, h) /\ Owned(w)
  <2>1. /\ Runs(f) /\ z \in f.zmap /\ h[n] = 0 /\ OnlyZone(node, z)
        /\ TableOK(f, With(h, n)) /\ Owned(f)
    BY <1>2, <1>4, <1>6, <1>7 DEF Holds
  <2>2. g = [f EXCEPT !.zmap = @ \ {z}]
    BY <1>2, <1>4, <1>6, <1>7
  <2>3. /\ g.table = f.table /\ g.imap = f.imap /\ g.dev_inode = f.dev_inode
        /\ g.objs = f.objs /\ g.lost = f.lost /\ g.zmap = f.zmap \ {z}
    BY <1>1, <2>2 DEF Systems
  <2> HIDE DEF g
  <2>4. f.table[n].cnt = 1 /\ n \in Valid(f)
    BY <2>1, HeldCount
  <2>5. u.table[n].cnt = 1 /\ u.table[n].cnt # 0
    BY <1>3, <2>3, <2>4
  <2>6. /\ v \in Systems /\ Rest(u, v) /\ v.imap = u.imap /\ v.dev_inode = u.dev_inode
        /\ \A t \in Slot : t # n => v.table[t] = u.table[t]
        /\ v.table[n].cnt = 0 /\ v.table[n].num = u.table[n].num
        /\ v.table[n].node = u.table[n].node
    BY <1>4, <2>5, FewerIs
  <2>7. Iput(u, n) = Release(v, n)
    BY <2>5 DEF Iput
  <2> HIDE DEF v
  <2>8. /\ v.zmap = f.zmap \ {z} /\ v.objs = f.objs /\ v.lost = f.lost /\ v.imap = f.imap
        /\ v.dev_inode = f.dev_inode /\ v.table[n].num = i
        /\ \A t \in Slot : t # n => v.table[t] = f.table[t]
    BY <1>3, <2>3, <2>6 DEF RowPutTo, Rest
  <2>9. Copies(v.table[n].node, node) /\ v.table[n].node.nlinks = 0
    BY <1>3, <2>3, <2>6 DEF Copies
  <2> DEFINE vn == v.table[n].node
  <2>10. OnlyZone(vn, z)
    BY <2>1, <2>9 DEF OnlyZone, Copies
  <2>11. w = FreeInode(v, n)
    <3>1. vn.mode # "reg"
      BY <2>10 DEF OnlyZone
    <3>2. ClearIblks(v, n) = v
      BY <3>1 DEF ClearIblks
    <3>3. Release(v, n) = FreeInode(ClearIblks(v, n), n)
      BY <2>6, <2>9 DEF Release
    <3> QED
      BY <1>5, <2>7, <3>2, <3>3
  <2>12. GoneTo(v, w, n, {}, ZonesOf(v, vn) \cap v.zmap)
    BY <1>7, <2>6, <2>11, FreeGives
  <2>13. ZonesOf(v, vn) \cap v.zmap = {}
    <3>1. ASSUME NEW x \in ZonesOf(v, vn) PROVE x = z
      <4> HIDE DEF vn
      <4>1. PICK p \in Position : x = ZoneIn(v, vn.zone, p) /\ ZoneIn(v, vn.zone, p) # NoZone
        BY DEF ZonesOf, Uses, Filled
      <4>2. OnlyZone(vn, z)
        BY <2>10 DEF vn
      <4>3. ZoneIn(v, vn.zone, p) # NoZone => ZoneIn(v, vn.zone, p) = z
        <5>1. p <= DIRECT => p \in 0..DIRECT
          BY Positions
        <5>2. DIRECT \in 0..DIRECT /\ DIRECT # 0
          BY Positions, Ranges
        <5> QED
          BY <4>2, <5>1, <5>2 DEF OnlyZone, ZoneIn
      <4> QED
        BY <4>1, <4>3
    <3> QED
      BY <3>1, <2>8
  <2> HIDE DEF vn, i, node
  <2>14. GoneTo(f, w, n, {z}, {})
    BY <2>8, <2>12, <2>13 DEF GoneTo, i
  <2>15. ZonesAre(f, i, {z} \cup {})
    <3>1. Once(f)
      BY <2>1 DEF TableOK
    <3>2. NodeOf(f, i) = node
      BY <1>1, <2>4, <3>1, NodeAt DEF i, node
    <3>3. node.mode = "dir"
      BY <2>1 DEF OnlyZone
    <3>4. \A p \in Position : Has(f, i, p) = ZoneIn(f, node.zone, p)
      BY <3>2, <3>3 DEF Has
    <3>5. Has(f, i, 0) = z /\ 0 \in Position
      BY <2>1, <3>4, DirZoneIs, Positions, ZenonT(60)
    <3>6. \A p \in Position : Has(f, i, p) # NoZone => Has(f, i, p) = z
      BY <2>1, <3>4, DirZoneIs
    <3>7. z # NoZone
      BY Ranges
    <3> QED
      BY <3>5, <3>6, <3>7 DEF ZonesAre
  <2>16. ZonesAre(f, f.table[n].num, {z} \cup {}) /\ {z} \cap {} = {}
    BY <2>15 DEF i
  <2> QED
    BY <1>1, <1>6, <2>1, <2>14, <2>16, GoneKeeps
<1>8. Holds(w, h)
  BY <1>6, <1>7 DEF Holds
<1> QED
  BY <1>8 DEF w

-----------------------------------------------------------------------------
(***************************************************************************)
(* The commands that make something: the directory in slot d and the new   *)
(* inode in slot n are held.                                               *)
(***************************************************************************)
NewTo(f, h, d, n) ==
  /\ Holds(f, With(With(h, d), n))
  /\ Runs(f) => IsDir(f, d) /\ n # d /\ h[n] = 0 /\ Blank(f.table[n])

LEMMA BothHeld ==
  ASSUME NEW h \in [Slot -> Nat], NEW a \in Slot, NEW b \in Slot
  PROVE  /\ With(With(h, a), b) \in [Slot -> Nat] /\ With(h, a) \in [Slot -> Nat]
         /\ With(With(h, a), b)[a] > 0 /\ With(With(h, a), b)[b] > 0 /\ With(h, a)[a] > 0
<1>1. /\ With(h, a) \in [Slot -> Nat] /\ With(h, a)[a] = h[a] + 1
      /\ a # None /\ b # None
  BY WithIs, Ranges
<1>2. /\ With(With(h, a), b) \in [Slot -> Nat]
      /\ With(With(h, a), b)[b] = With(h, a)[b] + 1
      /\ With(With(h, a), b)[a] >= With(h, a)[a]
  BY <1>1, WithIs
<1>3. h[a] \in Nat /\ With(h, a)[b] \in Nat /\ With(With(h, a), b)[a] \in Nat
  BY <1>1, <1>2
<1> QED
  BY <1>1, <1>2, <1>3

LEMMA NewInodeGives ==
  ASSUME NEW f, NEW h \in [Slot -> Nat], NEW d \in Slot, Holds(f, With(h, d)),
         Runs(f) => IsDir(f, d)
  PROVE  LET n == NewInode(f)
         IN  /\ n.s = None => Holds(n.f, With(h, d))
             /\ n.s # None => n.s \in Slot /\ NewTo(n.f, h, d, n.s)
<1> DEFINE v == NewInode(f)
           k == With(h, d)
<1>1. k \in [Slot -> Nat] /\ k[d] > 0 /\ \A t \in Slot : t # d => k[t] = h[t]
  BY BothHeld, WithIs
<1>2. MadeTo(f, k, v)
  BY <1>1, NewInodeHolds
<1> HIDE DEF v, k
<1>3. CASE v.s = None
  BY <1>1, <1>2, <1>3, WithIs, Ranges DEF MadeTo, Way, v, k
<1>4. CASE v.s # None
  <2>1. v.s \in Slot /\ Holds(v.f, With(k, v.s))
    BY <1>2, <1>4 DEF MadeTo, Way
  <2>2. ASSUME Runs(v.f)
        PROVE  IsDir(v.f, d) /\ v.s # d /\ h[v.s] = 0 /\ Blank(v.f.table[v.s])
    <3>1. Runs(f) /\ v.f.table[d] = f.table[d] /\ k[v.s] = 0 /\ Blank(v.f.table[v.s])
      BY <1>1, <1>2, <1>4, <2>2 DEF MadeTo
    <3>2. v.s # d
      BY <1>1, <3>1
    <3> QED
      BY <1>1, <2>1, <3>1, <3>2 DEF IsDir
  <2>3. NewTo(v.f, h, d, v.s)
    BY <2>1, <2>2 DEF NewTo, k
  <2> QED
    BY <1>4, <2>1, <2>3 DEF v
<1> QED
  BY <1>3, <1>4

\* The entry for the new inode.
LEMMA EnterNewHolds ==
  ASSUME NEW f, NEW h \in [Slot -> Nat], NEW d \in Slot, NEW n \in Slot,
         NewTo(f, h, d, n), NEW g, DressedTo(f, g, With(With(h, d), n), n),
         NEW name \in EntryName
  PROVE  EnterTo(g, Enter(g, d, n, name), d, With(With(h, d), n))
<1> DEFINE k == With(With(h, d), n)
<1>1. k[d] > 0 /\ Holds(g, k)
  BY BothHeld DEF DressedTo
<1>2. HasZones(g, d)
  BY DEF HasZones, DressedTo, Beside, NewTo, IsDir
<1> QED
  BY <1>1, <1>2, EnterHolds

LEMMA FillDirHolds ==
  ASSUME NEW f, NEW h \in [Slot -> Nat], NEW d \in Slot, NEW n \in Slot,
         NewTo(f, h, d, n), NEW name \in EntryName
  PROVE  Holds(FillDir(NewBlock(f), d, n, name), h)
<1> DEFINE k == With(With(h, d), n)
           b == NewBlock(f)
           z == b.z
           g == MadeDir(b.f, n, z, b.f.table[d].num)
           a == Enter(g, d, n, name)
<1>1. f \in Systems /\ Holds(f, k) /\ LooseTo(f, b)
  BY NewBlockGives DEF NewTo, Holds
<1>2. CASE z = NoZone
  <2>1. b.f = f
    BY <1>1, <1>2, Ranges DEF LooseTo
  <2>2. FillDir(b, d, n, name) = Forget(Iput(f, d), n)
    BY <1>2, <2>1 DEF FillDir
  <2>3. Holds(Iput(f, d), With(h, n))
    BY <1>1, GiveBack
  <2> QED
    BY <2>2, <2>3, ForgetHolds
<1>3. CASE z # NoZone
  <2>1. b.f.table[d].num \in Inode /\ z \in Zone
    BY <1>1, <1>3, RowFields DEF LooseTo
  <2>2. New(f, k, n)
    BY BothHeld DEF New, NewTo
  <2>3. FillDir(b, d, n, name) = EnterDir(a, d, n, z)
    BY <1>3 DEF FillDir
  <2> HIDE DEF b
  <2>4. MadeDirTo(f, g, k, n, z)
    BY <1>1, <1>3, <2>1, <2>2, MadeDirHolds
  <2> HIDE DEF g
  <2>5. DressedTo(f, g, k, n)
    BY <2>4 DEF MadeDirTo, DressedTo
  <2>6. EnterTo(g, a, d, k)
    BY <2>5, EnterNewHolds
  <2> HIDE DEF a
  <2>7. CASE a.e = NotFound
    <3> DEFINE v == Iput(a.f, d)
    <3>1. EnterDir(a, d, n, z) = Forget(FreeBlock(v, z), n)
      BY <2>7 DEF EnterDir
    <3>2. Holds(v, With(h, n)) /\ PutTo(a.f, v, d)
      BY <2>6, GiveBack, IputPuts DEF EnterTo, Holds
    <3> HIDE DEF v
    <3>3. ASSUME Runs(v) PROVE h[n] = 0 /\ OnlyZone(v.table[n].node, z)
      <4>1. Runs(a.f) /\ Runs(g) /\ Runs(f)
        BY <2>4, <2>6, <3>2, <3>3 DEF PutTo, EnterTo, StepTo, MadeDirTo, Beside
      <4>2. n # d /\ h[n] = 0
        BY <4>1 DEF NewTo
      <4>3. v.table[n] = g.table[n]
        BY <2>6, <3>2, <4>2 DEF PutTo, EnterTo, StepTo
      <4> QED
        BY <2>4, <4>2, <4>3 DEF MadeDirTo
    <3> QED
      BY <2>1, <2>3, <3>1, <3>2, <3>3, ForgetDirHolds DEF b
  <2>8. CASE a.e # NotFound
    <3>1. EnterDir(a, d, n, z) = Iput(Iput(Linked(a.f, d), d), n)
      BY <2>8 DEF EnterDir
    <3>2. Holds(Linked(a.f, d), k)
      BY <2>6, LinkHolds DEF EnterTo
    <3> QED
      BY <2>3, <3>1, <3>2, GiveBack DEF b
  <2> QED
    BY <2>7, <2>8
<1> QED
  BY <1>2, <1>3

LEMMA MkdirHolds ==
  ASSUME NEW p, NEW h \in [Slot -> Nat], PathTo(p, h), NEW name \in EntryName
  PROVE  Holds(MkdirIn(p, name), h)
<1>1. CASE p.s = None
  BY <1>1 DEF MkdirIn, PathTo, DirWay, Way, With
<1>2. CASE p.s # None
  <2> DEFINE n == NewInode(p.f)
  <2>1. p.s \in Slot /\ Holds(p.f, With(h, p.s)) /\ (Runs(p.f) => IsDir(p.f, p.s))
    BY <1>2 DEF PathTo, DirWay, Way
  <2>2. CASE p.e # NotFound
    BY <1>2, <2>1, <2>2, IputHolds DEF MkdirIn
  <2>3. CASE p.e = NotFound
    <3>1. MkdirIn(p, name) = NewDir(n, p.s, name)
      BY <1>2, <2>3 DEF MkdirIn
    <3>2. /\ n.s = None => Holds(n.f, With(h, p.s))
          /\ n.s # None => n.s \in Slot /\ NewTo(n.f, h, p.s, n.s)
      BY <2>1, NewInodeGives
    <3> HIDE DEF n
    <3>3. CASE n.s = None
      BY <2>1, <3>1, <3>2, <3>3, IputHolds DEF NewDir
    <3>4. CASE n.s # None
      <4>1. NewDir(n, p.s, name) = FillDir(NewBlock(n.f), p.s, n.s, name)
        BY <3>4 DEF NewDir
      <4> QED
        BY <2>1, <3>1, <3>2, <3>4, <4>1, FillDirHolds
    <3> QED
      BY <3>3, <3>4
  <2> QED
    BY <2>2, <2>3
<1> QED
  BY <1>1, <1>2

DevNode(node) == [[node EXCEPT !.mode = "dev"] EXCEPT !.zone[0] = DeviceNumber]

Device(f, s) ==
  [f EXCEPT !.table[s].node.mode = "dev", !.table[s].node.zone[0] = DeviceNumber]

LEMMA DeviceIs ==
  ASSUME NEW f \in Systems, NEW s \in Slot
  PROVE  LET node == DevNode(f.table[s].node)
         IN  node \in DevInode /\ Bare(node) /\ Device(f, s) = Dressed(f, s, node)
<1> DEFINE old == f.table[s].node
           n1 == [old EXCEPT !.mode = "dev"]
           zone == [old.zone EXCEPT ![0] = DeviceNumber]
           n2 == [n1 EXCEPT !.zone = zone]
           r1 == [f.table[s] EXCEPT !.node = n1]
           r2 == [f.table[s] EXCEPT !.node = n2]
           f1 == RowPut(f, s, r1)
<1>1. f.table[s] \in Row /\ old \in DevInode /\ old.zone \in [0..DIRECT -> Zone \cup {NoZone}]
  BY RowFields
<1>2. zone \in [0..DIRECT -> Zone \cup {NoZone}]
  BY <1>1, Ranges
<1>3. Dressed(f, s, n2) = RowPut(f, s, r2)
  BY DEF Dressed, RowPut
<1>4. Device(f, s) = [f1 EXCEPT !.table[s].node.zone[0] = DeviceNumber]
  BY DEF Device, RowPut
<1> HIDE DEF old
<1>5. n1.zone = old.zone
  BY <1>1 DEF DevInode
<1>6. n1 \in DevInode
  BY <1>1 DEF DevInode, InodeMode
<1>7. DevNode(old) = n2
  BY <1>5 DEF DevNode
<1> HIDE DEF zone
<1>8. n2 \in DevInode /\ n2.mode = "dev"
  BY <1>1, <1>2 DEF DevInode, InodeMode
<1> HIDE DEF n1
<1>9. r1 \in Row /\ r1.node = n1
  BY <1>1, <1>6 DEF Row
<1>10. f1.table[s] = r1
  BY <1>9, RowPutIs DEF RowPutTo
<1>11. r2 = [r1 EXCEPT !.node = n2]
  BY <1>1 DEF Row
<1> HIDE DEF r1, r2, n2
<1>12. [f1 EXCEPT !.table[s].node.zone[0] = DeviceNumber] = RowPut(f1, s, r2)
  <2> HIDE DEF f1
  <2> DEFINE row == f1.table[s]
  <2>1. row.node.zone = old.zone /\ row.node = n1
    BY <1>5, <1>9, <1>10
  <2>2. [row EXCEPT !.node.zone[0] = DeviceNumber] = [row EXCEPT !.node = [n1 EXCEPT !.zone = zone]]
    BY <2>1 DEF zone
  <2>3. [row EXCEPT !.node.zone[0] = DeviceNumber] = r2
    BY <1>10, <1>11, <2>2 DEF n2
  <2>4. [f1 EXCEPT !.table[s].node.zone[0] = DeviceNumber] =
        [f1 EXCEPT !.table[s] = [row EXCEPT !.node.zone[0] = DeviceNumber]]
    OBVIOUS
  <2> HIDE DEF row
  <2> QED
    BY <2>3, <2>4 DEF RowPut
<1>13. Device(f, s) = RowPut(f, s, r2)
  BY <1>4, <1>12, RowPutTwice
<1>14. n2 \in DevInode /\ Bare(n2) /\ Device(f, s) = Dressed(f, s, n2)
  BY <1>3, <1>8, <1>13 DEF Bare
<1>15. DevNode(old) \in DevInode /\ Bare(DevNode(old))
       /\ Device(f, s) = Dressed(f, s, DevNode(old))
  BY <1>7, <1>14
<1> QED
  BY <1>15 DEF old

LEMMA NewNodeHolds ==
  ASSUME NEW n, NEW h \in [Slot -> Nat], NEW d \in Slot, NEW name \in EntryName,
         n.s = None => Holds(n.f, With(h, d)),
         n.s # None => n.s \in Slot /\ NewTo(n.f, h, d, n.s)
  PROVE  Holds(NewNode(n, d, name), h)
<1>1. CASE n.s = None
  BY <1>1, IputHolds DEF NewNode
<1>2. CASE n.s # None
  <2> DEFINE k == With(With(h, d), n.s)
             g == Device(n.f, n.s)
             a == Enter(g, d, n.s, name)
  <2>1. n.s \in Slot /\ NewTo(n.f, h, d, n.s) /\ Holds(n.f, k) /\ n.f \in Systems
    BY <1>2 DEF NewTo, Holds
  <2>2. NewNode(n, d, name) = EnterNode(a, d, n.s)
    BY <1>2 DEF NewNode, Device
  <2>3. New(n.f, k, n.s)
    BY <2>1, BothHeld DEF New, NewTo
  <2>4. DressedTo(n.f, g, k, n.s)
    <3>1. PICK node \in DevInode : Bare(node) /\ g = Dressed(n.f, n.s, node)
      BY <2>1, DeviceIs
    <3> QED
      BY <2>1, <2>3, <3>1, BareHolds
  <2> HIDE DEF g
  <2>5. EnterTo(g, a, d, k)
    BY <2>1, <2>4, EnterNewHolds
  <2> HIDE DEF a
  <2>6. Holds(a.f, k) /\ Holds(Iput(a.f, d), With(h, n.s)) /\ Holds(Iput(Iput(a.f, d), n.s), h)
    BY <2>1, <2>5, GiveBack DEF EnterTo
  <2>7. CASE a.e = NotFound
    BY <2>1, <2>2, <2>6, <2>7, ForgetHolds DEF EnterNode
  <2>8. CASE a.e # NotFound
    BY <2>2, <2>6, <2>8 DEF EnterNode
  <2> QED
    BY <2>7, <2>8
<1> QED
  BY <1>1, <1>2

LEMMA MknodHolds ==
  ASSUME NEW p, NEW h \in [Slot -> Nat], PathTo(p, h), NEW name \in EntryName
  PROVE  Holds(MknodIn(p, name), h)
<1>1. CASE p.s = None
  BY <1>1 DEF MknodIn, PathTo, DirWay, Way, With
<1>2. CASE p.s # None
  <2> DEFINE n == NewInode(p.f)
  <2>1. p.s \in Slot /\ Holds(p.f, With(h, p.s)) /\ (Runs(p.f) => IsDir(p.f, p.s))
    BY <1>2 DEF PathTo, DirWay, Way
  <2>2. CASE p.e # NotFound
    BY <1>2, <2>1, <2>2, IputHolds DEF MknodIn
  <2>3. CASE p.e = NotFound
    <3>1. MknodIn(p, name) = NewNode(n, p.s, name)
      BY <1>2, <2>3 DEF MknodIn
    <3>2. /\ n.s = None => Holds(n.f, With(h, p.s))
          /\ n.s # None => n.s \in Slot /\ NewTo(n.f, h, p.s, n.s)
      BY <2>1, NewInodeGives
    <3> HIDE DEF n
    <3> QED
      BY <2>1, <3>1, <3>2, NewNodeHolds
  <2> QED
    BY <2>2, <2>3
<1> QED
  BY <1>1, <1>2

LEMMA OpenNewHolds ==
  ASSUME NEW n, NEW h \in [Slot -> Nat], NEW d \in Slot, NEW name \in EntryName,
         n.s = None => Holds(n.f, With(h, d)),
         n.s # None => n.s \in Slot /\ NewTo(n.f, h, d, n.s)
  PROVE  Way(OpenNew(n, d, name), h)
<1>1. CASE n.s = None
  <2>1. OpenNew(n, d, name) = [f |-> Iput(n.f, d), s |-> None]
    BY <1>1 DEF OpenNew
  <2> QED
    BY <1>1, <2>1, DroppedHolds DEF DirWay
<1>2. CASE n.s # None
  <2> DEFINE k == With(With(h, d), n.s)
             old == n.f.table[n.s].node
             node == [old EXCEPT !.mode = "reg"]
             g == Dressed(n.f, n.s, node)
             a == Enter(g, d, n.s, name)
  <2>1. n.s \in Slot /\ NewTo(n.f, h, d, n.s) /\ Holds(n.f, k) /\ n.f \in Systems
    BY <1>2 DEF NewTo, Holds
  <2>2. OpenNew(n, d, name) = OpenEntry(a, d, n.s)
    BY <1>2 DEF OpenNew, Dressed
  <2>3. New(n.f, k, n.s)
    BY <2>1, BothHeld DEF New, NewTo
  <2>4. DressedTo(n.f, g, k, n.s)
    <3>1. old \in DevInode
      BY <2>1, RowFields
    <3> HIDE DEF old
    <3>2. node \in DevInode /\ node.zone = old.zone
      BY <3>1 DEF DevInode, InodeMode
    <3> HIDE DEF node
    <3>3. Runs(n.f) => Bare(node)
      BY <2>3, <3>2 DEF New, Blank, Bare, old
    <3> QED
      BY <2>1, <2>3, <3>2, <3>3, BareHolds
  <2> HIDE DEF g
  <2>5. EnterTo(g, a, d, k)
    BY <2>1, <2>4, EnterNewHolds
  <2> HIDE DEF a
  <2>6. Holds(a.f, k) /\ Holds(Iput(a.f, d), With(h, n.s))
    BY <2>1, <2>5, GiveBack DEF EnterTo
  <2>7. CASE a.e = NotFound
    <3>1. OpenEntry(a, d, n.s) = [f |-> Iput(Forget(a.f, n.s), d), s |-> None]
      BY <2>7 DEF OpenEntry
    <3>2. Holds(Forget(a.f, n.s), With(h, d))
      BY <2>1, <2>6, BothHeld, ForgetHolds
    <3> QED
      BY <2>2, <3>1, <3>2, DroppedHolds DEF DirWay
  <2>8. CASE a.e # NotFound
    <3>1. OpenEntry(a, d, n.s) = [f |-> Iput(a.f, d), s |-> n.s]
      BY <2>8 DEF OpenEntry
    <3> QED
      BY <2>1, <2>2, <2>6, <3>1 DEF Way
  <2> QED
    BY <2>7, <2>8
<1> QED
  BY <1>1, <1>2

LEMMA OpenHolds ==
  ASSUME NEW f, NEW h \in [Slot -> Nat], Holds(f, h), cwd \in Inode, root \in Inode,
         NEW path \in Path, NEW write \in BOOLEAN
  PROVE  Way(OpenNamei(f, path, write), h)
<1> DEFINE d == DirNamei(f, path)
           name == path.base
           e == FindEntry(d.f, d.s, name)
           w == OpenNamei(f, path, write)
<1>1. DirWay(d, h) /\ name \in EntryName
  BY DirNameiHolds DEF Path
<1>2. w = OpenDir(d, name, write)
  BY DEF OpenNamei
<1> HIDE DEF d, name, w
<1>3. CASE d.s = None
  BY <1>1, <1>2, <1>3 DEF OpenDir, DirWay, w
<1>4. CASE d.s # None
  <2>1. d.s \in Slot /\ Holds(d.f, With(h, d.s)) /\ d.f \in Systems
        /\ (Runs(d.f) => IsDir(d.f, d.s)) /\ Way(d, h)
    BY <1>1, <1>4 DEF DirWay, Way, Holds
  <2>2. Way([f |-> Iput(d.f, d.s), s |-> None], h)
    BY <2>1, DroppedHolds DEF DirWay
  <2>3. CASE name = NoName
    BY <1>2, <1>4, <2>1, <2>2, <2>3 DEF OpenDir, w
  <2>4. CASE name # NoName
    <3>1. w = OpenIn(d, e, name, write) /\ FoundTo(e)
      BY <1>2, <1>4, <2>1, <2>4, FindEntryIs DEF OpenDir
    <3> HIDE DEF e
    <3>2. CASE e # NotFound
      <4> DEFINE t == Iget(Iput(d.f, d.s), EntryInode(d.f, e))
      <4>1. Way(t, h)
        BY <2>1, <3>1, <3>2, EntryInodeIs, IputHolds, IgetHolds
      <4>2. w = OpenOld(t, write)
        BY <3>1, <3>2 DEF OpenIn
      <4> HIDE DEF t
      <4>3. CASE w = t
        BY <4>1, <4>3 DEF w
      <4>4. CASE w # t
        <5>1. t.s # None /\ w = [f |-> Iput(t.f, t.s), s |-> None]
          BY <4>2, <4>4 DEF OpenOld
        <5>2. t.s \in Slot /\ Holds(t.f, With(h, t.s))
          BY <4>1, <5>1 DEF Way
        <5> QED
          BY <5>1, <5>2, DroppedHolds DEF DirWay, w
      <4> QED
        BY <4>3, <4>4
    <3>3. CASE e = NotFound /\ write
      <4> DEFINE n == NewInode(d.f)
      <4>1. w = OpenNew(n, d.s, name)
        BY <3>1, <3>3 DEF OpenIn
      <4>2. /\ n.s = None => Holds(n.f, With(h, d.s))
            /\ n.s # None => n.s \in Slot /\ NewTo(n.f, h, d.s, n.s)
        BY <2>1, NewInodeGives
      <4> HIDE DEF n
      <4> QED
        BY <1>1, <2>1, <4>1, <4>2, OpenNewHolds DEF w
    <3>4. CASE e = NotFound /\ ~write
      BY <2>2, <3>1, <3>4 DEF OpenIn, w
    <3> QED
      BY <3>2, <3>3, <3>4
  <2> QED
    BY <2>3, <2>4
<1> QED
  BY <1>3, <1>4

-----------------------------------------------------------------------------
(***************************************************************************)
(* The commands that give an inode a name more, or take one from it.       *)
(***************************************************************************)
LEMMA LinkInHolds ==
  ASSUME NEW d, NEW h \in [Slot -> Nat], NEW o \in Slot, DirWay(d, With(h, o)),
         NEW name \in EntryName
  PROVE  Holds(LinkIn(d, o, name), h)
<1>1. CASE d.s = None
  BY <1>1, IputHolds DEF LinkIn, DirWay, Way, With
<1>2. CASE d.s # None
  <2> DEFINE k == With(With(h, o), d.s)
             a == Enter(d.f, d.s, o, name)
  <2>1. d.s \in Slot /\ Holds(d.f, k) /\ (Runs(d.f) => IsDir(d.f, d.s))
    BY <1>2 DEF DirWay, Way
  <2>2. Holds(Iput(Iput(d.f, o), d.s), h)
    BY <2>1, GiveBack
  <2>3. EnterTo(d.f, a, d.s, k)
    <3>1. k[d.s] > 0 /\ HasZones(d.f, d.s)
      BY <2>1, BothHeld DEF HasZones, IsDir
    <3> QED
      BY <2>1, <3>1, EnterHolds
  <2>4. LinkIn(d, o, name) = Iput(Iput(d.f, o), d.s) \/ LinkIn(d, o, name) = EnterLink(a, d.s, o)
    BY <1>2 DEF LinkIn
  <2> HIDE DEF a
  <2>5. Holds(a.f, k)
    BY <2>3 DEF EnterTo
  <2>6. Holds(Iput(Iput(a.f, o), d.s), h) /\ Holds(Iput(a.f, d.s), With(h, o))
    BY <2>1, <2>5, GiveBack
  <2>7. Holds(Iput(Linked(Iput(a.f, d.s), o), o), h)
    BY <2>6, LinkHolds, IputHolds
  <2>8. Holds(EnterLink(a, d.s, o), h)
    BY <2>6, <2>7 DEF EnterLink
  <2> QED
    BY <2>2, <2>4, <2>8
<1> QED
  BY <1>1, <1>2

LEMMA HlinkHolds ==
  ASSUME NEW f, NEW h \in [Slot -> Nat], Holds(f, h), cwd \in Inode, root \in Inode,
         NEW old \in Path, NEW new \in Path
  PROVE  Holds(DoHlink(f, old, new), h)
<1> DEFINE o == Namei(f, old)
<1>1. Way(o, h)
  BY NameiHolds
<1>2. DoHlink(f, old, new) = LinkTo(o, new)
  BY DEF DoHlink
<1> HIDE DEF o
<1>3. CASE o.s = None
  BY <1>1, <1>2, <1>3 DEF LinkTo, Way, With
<1>4. CASE o.s # None
  <2>1. o.s \in Slot /\ Holds(o.f, With(h, o.s)) /\ With(h, o.s) \in [Slot -> Nat]
    BY <1>1, <1>4, WithIs DEF Way
  <2>2. CASE IsDir(o.f, o.s)
    BY <1>2, <1>4, <2>1, <2>2, IputHolds DEF LinkTo
  <2>3. CASE ~IsDir(o.f, o.s)
    <3>1. LinkTo(o, new) = LinkIn(DirNamei(o.f, new), o.s, new.base)
      BY <1>4, <2>3 DEF LinkTo
    <3>2. DirWay(DirNamei(o.f, new), With(h, o.s)) /\ new.base \in EntryName
      BY <2>1, DirNameiHolds DEF Path
    <3> QED
      BY <1>2, <2>1, <3>1, <3>2, LinkInHolds
  <2> QED
    BY <2>2, <2>3
<1> QED
  BY <1>3, <1>4

\* The count and the zones of the inode in slot s: g is as f but for the count.
RecountTo(f, g, s) ==
  /\ g \in Systems /\ SameTo([f EXCEPT !.table = g.table], g) /\ g.halt = f.halt
  /\ \A t \in Slot : t # s => g.table[t] = f.table[t]
  /\ g.table[s].num = f.table[s].num /\ g.table[s].cnt = f.table[s].cnt
  /\ g.table[s].valid = f.table[s].valid /\ Copies(g.table[s].node, f.table[s].node)

LEMMA CountedIs ==
  ASSUME NEW f \in Systems, NEW s \in Slot
  PROVE  RecountTo(f, Counted(f, s), s)
<1> DEFINE g == Counted(f, s)
           old == f.table[s].node
           node == [old EXCEPT !.nlinks = 1]
           r == [f.table[s] EXCEPT !.node = node]
<1>1. f.table[s] \in Row /\ old \in DevInode
  BY RowFields
<1>2. CASE old.nlinks > 0
  <2>1. g = f
    BY <1>2 DEF Counted
  <2> HIDE DEF g
  <2>2. RecountTo(f, g, s)
    BY <2>1 DEF RecountTo, SameTo, Systems, Copies
  <2> QED
    BY <2>2 DEF g
<1>3. CASE ~(old.nlinks > 0)
  <2>1. g = RowPut(f, s, r)
    BY <1>3 DEF Counted, RowPut
  <2> HIDE DEF old, g
  <2>2. node \in DevInode /\ Copies(node, old)
    BY <1>1 DEF DevInode, Copies
  <2> HIDE DEF node
  <2>3. /\ r \in Row /\ r.num = f.table[s].num /\ r.cnt = f.table[s].cnt
        /\ r.valid = f.table[s].valid /\ r.node = node
    BY <1>1, <2>2 DEF Row
  <2> HIDE DEF r
  <2>4. RowPutTo(f, g, s, r)
    BY <2>1, <2>3, RowPutIs
  <2>5. SameTo([f EXCEPT !.table = g.table], g)
    BY <2>4 DEF RowPutTo, Rest, SameTo, Systems
  <2>6. RecountTo(f, g, s)
    BY <2>2, <2>3, <2>4, <2>5 DEF RecountTo, RowPutTo, old
  <2> QED
    BY <2>6 DEF g
<1> QED
  BY <1>2, <1>3

LEMMA UnlinkedIs ==
  ASSUME NEW f \in Systems, NEW s \in Slot
  PROVE  RecountTo(f, Unlinked(f, s), s) /\ Unlinked(f, s).table[s].dirt
<1> DEFINE g == Unlinked(f, s)
           old == f.table[s].node
           node == [old EXCEPT !.nlinks = @ - 1]
           r1 == [f.table[s] EXCEPT !.node = node]
           r == [r1 EXCEPT !.dirt = TRUE]
           f1 == [f EXCEPT !.table[s].node = node]
<1>1. f.table[s] \in Row /\ old \in DevInode
  BY RowFields
<1>2. g = [f1 EXCEPT !.table[s].dirt = TRUE] /\ f1 = RowPut(f, s, r1)
  BY DEF Unlinked, RowPut
<1> HIDE DEF f1, g, old
<1>3. node \in DevInode /\ Copies(node, old)
  BY <1>1 DEF DevInode, Copies
<1> HIDE DEF node
<1>4. /\ r1 \in Row /\ r \in Row /\ r.num = f.table[s].num /\ r.cnt = f.table[s].cnt
      /\ r.valid = f.table[s].valid /\ r.node = node /\ r.dirt
  BY <1>1, <1>3 DEF Row
<1> HIDE DEF r1
<1>5. f1.table[s] = r1
  BY <1>2, <1>4, RowPutIs DEF RowPutTo
<1>6. g = RowPut(f1, s, r)
  BY <1>2, <1>5 DEF RowPut
<1> HIDE DEF r
<1>7. g = RowPut(f, s, r)
  BY <1>2, <1>6, RowPutTwice
<1>8. RowPutTo(f, g, s, r)
  BY <1>4, <1>7, RowPutIs
<1>9. SameTo([f EXCEPT !.table = g.table], g)
  BY <1>8 DEF RowPutTo, Rest, SameTo, Systems
<1>10. RecountTo(f, g, s) /\ g.table[s].dirt
  BY <1>3, <1>4, <1>8, <1>9 DEF RecountTo, RowPutTo, old
<1> QED
  BY <1>10 DEF g

LEMMA ClearEntryIs ==
  ASSUME NEW f \in Systems, NEW e, e.z \in Zone
  PROVE  EntriesTo(f, ClearEntry(f, e))
BY EntryPut, EmptyZones DEF ClearEntry

LEMMA RecountGives ==
  ASSUME NEW f \in Systems, NEW g, NEW s, RecountTo(f, g, s)
  PROVE  /\ g \in Systems /\ g.halt = f.halt /\ g.imap = f.imap /\ g.zmap = f.zmap
         /\ g.dev_inode = f.dev_inode /\ g.objs = f.objs /\ g.lost = f.lost
         /\ \A t \in Slot : t # s => g.table[t] = f.table[t]
BY DEF RecountTo, SameTo, Systems

\* An entry goes, and the count of its inode, which was made right before.
LEMMA TakenAway ==
  ASSUME NEW f, NEW h, Holds(f, h), NEW s \in Slot, NEW e, e.z \in Zone
  PROVE  Holds(Unlinked(ClearEntry(Counted(f, s), e), s), h)
<1> DEFINE c == Counted(f, s)
           y == ClearEntry(c, e)
           g == Unlinked(y, s)
<1>1. f \in Systems
  BY DEF Holds
<1>2. RecountTo(f, c, s)
  BY <1>1, CountedIs
<1> HIDE DEF c
<1>3. /\ c \in Systems /\ c.halt = f.halt /\ c.imap = f.imap /\ c.zmap = f.zmap
      /\ c.dev_inode = f.dev_inode /\ c.objs = f.objs /\ c.lost = f.lost
      /\ \A t \in Slot : t # s => c.table[t] = f.table[t]
  BY <1>1, <1>2, RecountGives
<1>4. EntriesTo(c, y)
  BY <1>3, ClearEntryIs
<1> HIDE DEF y
<1>5. y \in Systems /\ SameTo(c, y) /\ y.halt = c.halt
  BY <1>4 DEF EntriesTo
<1>6. RecountTo(y, g, s) /\ g.table[s].dirt
  BY <1>5, UnlinkedIs
<1> HIDE DEF g
<1>7. /\ g \in Systems /\ g.halt = y.halt /\ g.imap = y.imap /\ g.zmap = y.zmap
      /\ g.dev_inode = y.dev_inode /\ g.objs = y.objs /\ g.lost = y.lost
      /\ \A t \in Slot : t # s => g.table[t] = y.table[t]
  BY <1>5, <1>6, RecountGives
<1>8. /\ g.table[s].num = f.table[s].num /\ g.table[s].cnt = f.table[s].cnt
      /\ g.table[s].valid = f.table[s].valid /\ Copies(g.table[s].node, f.table[s].node)
  <2>1. y.table[s] = c.table[s]
    BY <1>5 DEF SameTo
  <2> QED
    BY <1>2, <1>6, <2>1 DEF RecountTo, Copies
<1>9. RowTo(f, g, s)
  BY <1>3, <1>5, <1>6, <1>7, <1>8 DEF RowTo, SameTo
<1>10. ASSUME Runs(g) PROVE TableOK(g, h) /\ Owned(g)
  <2>1. TableOK(f, h) /\ Owned(f)
    BY <1>3, <1>5, <1>7, <1>10 DEF Holds, Runs
  <2>2. g.table[s].cnt = h[s] /\ (h[s] > 0 => f.table[s].valid)
    BY <1>8, <2>1 DEF TableOK, CountsOK
  <2> QED
    BY <1>1, <1>7, <1>9, <2>1, <2>2, RowChanges
<1>11. Holds(g, h)
  BY <1>7, <1>10 DEF Holds
<1> QED
  BY <1>11 DEF g, y, c

\* The inode that an entry names, and the directory that is held with it.
LEMMA EntryHeld ==
  ASSUME NEW p, NEW h \in [Slot -> Nat], PathTo(p, h), p.s # None, p.e # NotFound
  PROVE  /\ p.s \in Slot /\ p.e.z \in Zone
         /\ Way(Iget(p.f, EntryInode(p.f, p.e)), With(h, p.s))
<1>1. p.s \in Slot /\ Holds(p.f, With(h, p.s)) /\ p.f \in Systems /\ FoundTo(p.e)
  BY DEF PathTo, DirWay, Way, Holds
<1>2. With(h, p.s) \in [Slot -> Nat]
  BY <1>1, WithIs
<1>3. EntryInode(p.f, p.e) \in Inode /\ p.e.z \in Zone
  BY <1>1, EntryInodeIs DEF FoundTo
<1> QED
  BY <1>1, <1>2, <1>3, IgetHolds

LEMMA UnlinkHolds ==
  ASSUME NEW t, NEW h \in [Slot -> Nat], NEW d \in Slot, Way(t, With(h, d)), NEW e, e.z \in Zone
  PROVE  Holds(UnlinkInode(t, d, e), h)
<1>1. CASE t.s = None
  BY <1>1, IputHolds DEF UnlinkInode, Way, With
<1>2. CASE t.s # None
  <2> DEFINE k == With(With(h, d), t.s)
             g == Unlinked(ClearEntry(Counted(t.f, t.s), e), t.s)
  <2>1. t.s \in Slot /\ Holds(t.f, k)
    BY <1>2 DEF Way
  <2>2. Holds(g, k)
    BY <2>1, TakenAway
  <2>3. UnlinkInode(t, d, e) = Iput(Iput(t.f, t.s), d) \/ UnlinkInode(t, d, e) = Iput(Iput(g, t.s), d)
    BY <1>2 DEF UnlinkInode
  <2> HIDE DEF g
  <2> QED
    BY <2>1, <2>2, <2>3, GiveBack
<1> QED
  BY <1>1, <1>2

LEMMA UnhlinkHolds ==
  ASSUME NEW f, NEW h \in [Slot -> Nat], Holds(f, h), cwd \in Inode, root \in Inode,
         NEW path \in Path
  PROVE  Holds(DoUnhlink(f, path), h)
<1> DEFINE p == InDir(DirNamei(f, path), path.base)
           t == Iget(p.f, EntryInode(p.f, p.e))
<1>1. PathTo(p, h)
  BY DirNameiHolds, InDirHolds
<1>2. DoUnhlink(f, path) = UnhlinkIn(p)
  BY DEF DoUnhlink
<1> HIDE DEF p
<1>3. CASE p.s = None
  BY <1>1, <1>2, <1>3 DEF UnhlinkIn, PathTo, DirWay, Way, With
<1>4. CASE p.s # None /\ p.e = NotFound
  <2>1. p.s \in Slot /\ Holds(p.f, With(h, p.s))
    BY <1>1, <1>4 DEF PathTo, DirWay, Way
  <2> QED
    BY <1>2, <1>4, <2>1, IputHolds DEF UnhlinkIn
<1>5. CASE p.s # None /\ p.e # NotFound
  <2>1. UnhlinkIn(p) = UnlinkInode(t, p.s, p.e)
    BY <1>5 DEF UnhlinkIn
  <2>2. p.s \in Slot /\ p.e.z \in Zone /\ Way(t, With(h, p.s))
    BY <1>1, <1>5, EntryHeld
  <2> HIDE DEF t
  <2> QED
    BY <1>2, <2>1, <2>2, UnlinkHolds
<1> QED
  BY <1>3, <1>4, <1>5

-----------------------------------------------------------------------------
(***************************************************************************)
(* do_rmdir(): with the directory in slot d and the one that goes in t.    *)
(***************************************************************************)
LEMMA RemoveDirHolds ==
  ASSUME NEW f, NEW h, Holds(f, h), NEW d \in Slot, NEW t \in Slot, NEW e, e.z \in Zone,
         Runs(f) => AtRest(f.table[t]) \/ f.table[t].cnt > 0
  PROVE  Holds(RemoveDir(f, d, t, e), h)
<1> DEFINE y == ClearEntry(f, e)
           u == Unnamed(y, t)
           r == [u.table[t] EXCEPT !.dirt = FALSE]
           g == [y EXCEPT !.table[t].node.nlinks = 0, !.table[t].dirt = FALSE]
<1>1. f \in Systems
  BY DEF Holds
<1>2. RemoveDir(f, d, t, e) = Unlinked(g, d)
  BY DEF RemoveDir
<1>3. EntriesTo(f, y)
  BY <1>1, ClearEntryIs
<1>4. g = [u EXCEPT !.table[t].dirt = FALSE]
  BY DEF Unnamed
<1> HIDE DEF y
<1>5. y \in Systems /\ Holds(y, h) /\ y.table = f.table /\ y.halt = f.halt
  BY <1>3, EntriesHold DEF EntriesTo, SameTo
<1>6. /\ u.table[t].num = y.table[t].num
      /\ u.table[t].cnt = y.table[t].cnt /\ u.table[t].valid = y.table[t].valid
      /\ Copies(u.table[t].node, y.table[t].node) /\ u.table[t].node.nlinks = 0
      /\ u.table[t] \in Row /\ u = RowPut(y, t, u.table[t])
  BY <1>5, UnnamedIs
<1>7. g = RowPut(u, t, r)
  BY <1>4 DEF RowPut
<1> HIDE DEF u, g
<1>8. g = RowPut(y, t, r)
  BY <1>5, <1>6, <1>7, RowPutTwice
<1>9. /\ r \in Row /\ r.num = f.table[t].num /\ r.cnt = f.table[t].cnt
      /\ r.valid = f.table[t].valid /\ Copies(r.node, f.table[t].node) /\ r.node.nlinks = 0
  <2>1. /\ r \in Row /\ r.num = u.table[t].num /\ r.cnt = u.table[t].cnt
        /\ r.valid = u.table[t].valid /\ r.node = u.table[t].node
    BY <1>6 DEF Row
  <2> HIDE DEF r
  <2> QED
    BY <1>5, <1>6, <2>1
<1> HIDE DEF r
<1>10. Holds(g, h)
  <2>1. CASE Runs(f)
    <3>1. f.table[t].cnt \in Nat
      BY <1>1, RowFields
    <3>2. CASE f.table[t].cnt > 0
      <4>1. Going(r)
        BY <1>9, <3>2 DEF Going
      <4> QED
        BY <1>5, <1>8, <1>9, <4>1, RowHolds DEF Stays
    <3>3. CASE ~(f.table[t].cnt > 0)
      <4>1. ~Going(f.table[t]) /\ (f.table[t].valid => ~f.table[t].dirt)
        BY <2>1, <3>3 DEF Going, AtRest
      <4>2. Stays(y, t, r)
        BY <1>5, <1>9, <4>1 DEF Stays
      <4> QED
        BY <1>5, <1>8, <4>2, RowHolds
    <3> QED
      BY <3>2, <3>3
  <2>2. CASE ~Runs(f)
    <3>1. RowPutTo(y, g, t, r)
      BY <1>5, <1>8, <1>9, RowPutIs
    <3> QED
      BY <1>5, <2>2, <3>1 DEF RowPutTo, Runs, Holds
  <2> QED
    BY <2>1, <2>2
<1>11. Holds(Unlinked(g, d), h)
  BY <1>10, LinkHolds
<1> QED
  BY <1>2, <1>11

LEMMA LeaksHold ==
  ASSUME NEW f, NEW h, Holds(f, h), NEW l \in [Zone -> Nat], NEW g, g = [f EXCEPT !.leaks = l]
  PROVE  Holds(g, h)
<1>1. f \in Systems
  BY DEF Holds
<1>2. g \in Systems /\ SameTo(f, g) /\ g.halt = f.halt
  BY <1>1 DEF Systems, SameTo
<1> QED
  BY <1>2, SameHolds DEF Runs

\* A directory with more links goes after both inodes were given back.
LEMMA RemoveTwiceHolds ==
  ASSUME NEW f, NEW h \in [Slot -> Nat], NEW d \in Slot, NEW t \in Slot,
         Holds(f, With(With(h, d), t)), h[d] = 0, h[t] = 0, NEW e, e.z \in Zone
  PROVE  Holds(Iput(Iput(RemoveTwice(f, d, t, e), d), t), h)
<1> DEFINE u == Iput(f, d)
           v == Iput(u, t)
           l == [v.leaks EXCEPT ![e.z] = @ - 1]
           x == [v EXCEPT !.leaks = l]
           w == RemoveTwice(f, d, t, e)
<1>1. f \in Systems
  BY DEF Holds
<1>2. CASE f.leaks[e.z] = 0
  <2>1. w = Crash(f) /\ Crash(f) \in Systems /\ ~Runs(Crash(f))
    BY <1>1, <1>2, CrashIs DEF RemoveTwice
  <2>2. Holds(w, h)
    BY <2>1 DEF Holds
  <2> HIDE DEF w
  <2> QED
    BY <2>2, IputNone DEF w
<1>3. CASE f.leaks[e.z] # 0
  <2>1. w = RemoveDir(x, d, t, e)
    BY <1>3 DEF RemoveTwice
  <2>2. Holds(u, With(h, t)) /\ PutTo(f, u, d) /\ u \in Systems
    BY <1>1, GiveBack, IputPuts DEF Holds
  <2> HIDE DEF u, w
  <2>3. Holds(v, h) /\ (Runs(v) => AtRest(v.table[t])) /\ PutTo(u, v, t) /\ v \in Systems
    BY <2>2, IputHolds, IputPuts DEF Holds
  <2> HIDE DEF v
  <2>4. v.leaks = f.leaks /\ f.leaks \in [Zone -> Nat]
    BY <1>1, <2>2, <2>3, Fields DEF PutTo
  <2>5. l \in [Zone -> Nat]
    <3>1. f.leaks[e.z] - 1 \in Nat
      BY <1>3, <2>4
    <3> QED
      BY <2>4, <3>1
  <2> HIDE DEF l
  <2>6. Holds(x, h) /\ x.table = v.table /\ x.halt = v.halt
    BY <2>3, <2>5, LeaksHold DEF Systems
  <2> HIDE DEF x
  <2>7. Holds(w, h)
    BY <2>1, <2>3, <2>6, RemoveDirHolds DEF Runs
  <2> QED
    BY <2>7, IputNone DEF w
<1> QED
  BY <1>2, <1>3

LEMMA LeakHolds ==
  ASSUME NEW f, NEW h, Holds(f, h), NEW s
  PROVE  Holds(LeakFrom(f, s), h)
<1> DEFINE z == BlockZone(f, s, Min(InTheWay(f, s)))
           l == [f.leaks EXCEPT ![z] = @ + 1]
<1>1. f.leaks \in [Zone -> Nat]
  BY Fields DEF Holds
<1>2. LeakFrom(f, s) = [f EXCEPT !.leaks = l]
  BY DEF LeakFrom
<1> HIDE DEF z
<1>3. ASSUME NEW y \in Zone PROVE l[y] \in Nat
  <2>1. f.leaks[y] \in Nat
    BY <1>1
  <2>2. f.leaks[y] + 1 \in Nat
    BY <2>1
  <2> QED
    BY <1>1, <2>1, <2>2
<1>4. l \in [Zone -> Nat]
  <2>1. l = [y \in Zone |-> l[y]]
    BY <1>1
  <2> HIDE DEF l
  <2> QED
    BY <1>3, <2>1
<1> HIDE DEF l
<1> QED
  BY <1>2, <1>4, LeaksHold

LEMMA RmdirInodeHolds ==
  ASSUME NEW q, NEW h \in [Slot -> Nat], NEW d \in Slot, Way(q, With(h, d)), NEW e,
         e.z \in Zone, \A s \in Slot : h[s] = 0
  PROVE  Holds(RmdirInode(q, d, e), h)
<1>1. CASE q.s = None
  BY <1>1, IputHolds DEF RmdirInode, Way, With
<1>2. CASE q.s # None
  <2> DEFINE f == q.f
             t == q.s
             k == With(With(h, d), t)
             g == RmdirInode(q, d, e)
  <2>1. t \in Slot /\ Holds(f, k)
    BY <1>2 DEF Way
  <2>2. \/ g = Iput(Iput(f, d), t)
        \/ g = Iput(Iput(LeakFrom(f, t), d), t)
        \/ g = Iput(Iput(RemoveTwice(f, d, t, e), d), t)
        \/ g = Iput(Iput(RemoveDir(f, d, t, e), d), t)
    BY <1>2 DEF RmdirInode
  <2> HIDE DEF g, t, f
  <2>3. Holds(Iput(Iput(f, d), t), h)
    BY <2>1, GiveBack
  <2>4. Holds(Iput(Iput(LeakFrom(f, t), d), t), h)
    BY <2>1, LeakHolds, GiveBack
  <2>5. Holds(Iput(Iput(RemoveTwice(f, d, t, e), d), t), h)
    BY <2>1, RemoveTwiceHolds
  <2>6. Holds(Iput(Iput(RemoveDir(f, d, t, e), d), t), h)
    <3>1. Runs(f) => f.table[t].cnt > 0
      BY <2>1, BothHeld, HeldCount
    <3>2. Holds(RemoveDir(f, d, t, e), k)
      BY <2>1, <3>1, RemoveDirHolds
    <3> QED
      BY <2>1, <3>2, GiveBack
  <2> QED
    BY <2>2, <2>3, <2>4, <2>5, <2>6 DEF g
<1> QED
  BY <1>1, <1>2

LEMMA RmdirHolds ==
  ASSUME NEW f, Holds(f, NoHolds), cwd \in Inode, root \in Inode, NEW path \in Path
  PROVE  Holds(DoRmdir(f, path), NoHolds)
<1> DEFINE h == NoHolds
           p == InDir(DirNamei(f, path), path.base)
           t == Iget(p.f, EntryInode(p.f, p.e))
<1>1. h \in [Slot -> Nat] /\ \A s \in Slot : h[s] = 0
  BY DEF NoHolds
<1> HIDE DEF h
<1>2. PathTo(p, h)
  BY <1>1, DirNameiHolds, InDirHolds DEF h
<1>3. DoRmdir(f, path) = RmdirIn(p)
  BY DEF DoRmdir
<1> HIDE DEF p
<1>4. CASE p.s = None
  BY <1>2, <1>3, <1>4 DEF RmdirIn, PathTo, DirWay, Way, With, h
<1>5. CASE p.s # None /\ p.e = NotFound
  <2>1. p.s \in Slot /\ Holds(p.f, With(h, p.s))
    BY <1>2, <1>5 DEF PathTo, DirWay, Way
  <2>2. Holds(Iput(p.f, p.s), h)
    BY <1>1, <2>1, IputHolds
  <2> QED
    BY <1>3, <1>5, <2>2 DEF RmdirIn, h
<1>6. CASE p.s # None /\ p.e # NotFound
  <2>1. RmdirIn(p) = RmdirInode(t, p.s, p.e)
    BY <1>6 DEF RmdirIn
  <2>2. p.s \in Slot /\ p.e.z \in Zone /\ Way(t, With(h, p.s))
    BY <1>1, <1>2, <1>6, EntryHeld
  <2> HIDE DEF t
  <2>3. Holds(RmdirInode(t, p.s, p.e), h)
    BY <1>1, <2>2, RmdirInodeHolds
  <2> QED
    BY <1>3, <2>1, <2>3 DEF h
<1> QED
  BY <1>4, <1>5, <1>6

-----------------------------------------------------------------------------
(***************************************************************************)
(* Files: what is written and copied, and what is given back at the end.   *)
(***************************************************************************)
LEMMA CloseHolds ==
  ASSUME NEW l, NEW h \in [Slot -> Nat], Way(l, h)
  PROVE  Holds(Close(l), h)
<1>1. CASE l.s = None
  BY <1>1 DEF Close, Way, With
<1>2. CASE l.s # None
  BY <1>2, IputHolds DEF Close, Way
<1> QED
  BY <1>1, <1>2

LEMMA WriteCloseHolds ==
  ASSUME NEW w, NEW h \in [Slot -> Nat], Way(w, h)
  PROVE  Holds(WriteClose(w), h)
<1>1. CASE w.s = None
  BY <1>1 DEF WriteClose, Way, With
<1>2. CASE w.s # None
  <2>1. w.s \in Slot /\ Holds(w.f, With(h, w.s)) /\ With(h, w.s)[w.s] > 0
    BY <1>2, BothHeld DEF Way
  <2>2. Holds(DoWrite(w.f, w.s), With(h, w.s))
    BY <2>1, WriteHolds
  <2> QED
    BY <1>2, <2>1, <2>2, IputHolds DEF WriteClose
<1> QED
  BY <1>1, <1>2

LEMMA CopyToHolds ==
  ASSUME NEW w, NEW h \in [Slot -> Nat], NEW r \in Slot, Way(w, With(h, r))
  PROVE  Holds(CopyTo(w, r).f, h)
<1>1. CASE w.s = None
  BY <1>1, IputHolds DEF CopyTo, Way, With
<1>2. CASE w.s # None
  <2> DEFINE k == With(With(h, r), w.s)
             x == IF HasData(w.f, r) THEN DoWrite(w.f, w.s) ELSE w.f
  <2>1. w.s \in Slot /\ Holds(w.f, k) /\ k[w.s] > 0
    BY <1>2, BothHeld DEF Way
  <2>2. Holds(x, k)
    BY <2>1, WriteHolds
  <2>3. CopyTo(w, r).f = Iput(Iput(x, w.s), r)
    BY <1>2 DEF CopyTo
  <2> HIDE DEF x
  <2> QED
    BY <2>1, <2>2, <2>3, GiveBack
<1> QED
  BY <1>1, <1>2

LEMMA CopyHolds ==
  ASSUME NEW f, NEW h \in [Slot -> Nat], Holds(f, h), cwd \in Inode, root \in Inode,
         NEW from \in Path, NEW to \in Path
  PROVE  Holds(DoCopy(f, from, to).f, h)
<1> DEFINE r == OpenNamei(f, from, FALSE)
           w == OpenNamei(r.f, to, TRUE)
<1>1. Way(r, h)
  BY OpenHolds
<1>2. DoCopy(f, from, to) = CopyFrom(r, to)
  BY DEF DoCopy
<1> HIDE DEF r
<1>3. CASE r.s = None
  BY <1>1, <1>2, <1>3 DEF CopyFrom, Way, With
<1>4. CASE r.s # None
  <2>1. r.s \in Slot /\ Holds(r.f, With(h, r.s)) /\ With(h, r.s) \in [Slot -> Nat]
    BY <1>1, <1>4, WithIs DEF Way
  <2>2. Way(w, With(h, r.s))
    BY <2>1, OpenHolds
  <2>3. CopyFrom(r, to) = CopyTo(w, r.s)
    BY <1>4 DEF CopyFrom
  <2> HIDE DEF w
  <2> QED
    BY <1>2, <2>1, <2>2, <2>3, CopyToHolds
<1> QED
  BY <1>3, <1>4

LEMMA MovedHolds ==
  ASSUME NEW c, NEW h \in [Slot -> Nat], Holds(c.f, h), cwd \in Inode, root \in Inode,
         NEW from \in Path
  PROVE  Holds(Moved(c, from), h)
BY UnhlinkHolds DEF Moved

-----------------------------------------------------------------------------
(***************************************************************************)
(* The commands as actions: IInv holds first, and every action keeps it.   *)
(***************************************************************************)
LEMMA NoneHeld == NoHolds \in [Slot -> Nat] /\ \A s \in Slot : NoHolds[s] = 0
BY DEF NoHolds

\* What a command leaves when it has given back what it took.
LEMMA DoneKeeps ==
  ASSUME IInv, NEW f, Holds(f, NoHolds), Done(f), cwd' \in Inode, root' \in Inode
  PROVE  IInv'
<1>1. f \in Systems /\ f.halt \in {"no", "crash", "hang"} /\ \A z \in Zone : f.leaks[z] <= MaxLeaks
  BY Fields DEF Holds, Done
<1>2. CASE f.halt = "no"
  <2>1. Becomes(f)
    BY <1>2 DEF Done
  <2> DEFINE g == f0'
  <2>2. /\ g.table = f.table /\ g.imap = f.imap /\ g.zmap = f.zmap
        /\ g.dev_inode = f.dev_inode /\ g.entries = f.entries /\ g.objs = f.objs
        /\ g.pos = f.pos /\ g.leaks = f.leaks /\ g.lost = f.lost /\ g.halt = "no"
        /\ leaks' = f.leaks /\ halt' = "no"
    BY <2>1 DEF Becomes, f0
  <2>3. g = [table |-> g.table, imap |-> g.imap, zmap |-> g.zmap, dev_inode |-> g.dev_inode,
             entries |-> g.entries, objs |-> g.objs, pos |-> g.pos, leaks |-> g.leaks,
             lost |-> g.lost, halt |-> g.halt]
    BY DEF f0
  <2> HIDE DEF g
  <2>4. g \in Systems
    BY <1>1, <2>2, <2>3, Fields DEF Systems
  <2>5. Holds(g, NoHolds)
    BY <1>2, <2>2, <2>4, SameHolds DEF SameTo, Runs
  <2> QED
    BY <1>1, <2>2, <2>5 DEF IInv, g
<1>3. CASE f.halt # "no"
  <2>1. UNCHANGED <<inode_table, device, sb_pos, leaks, lost>> /\ halt' = f.halt
    BY <1>3 DEF Done
  <2>2. f0' = f0 /\ NoHolds' = NoHolds
    BY <2>1 DEF f0, NoHolds
  <2>3. Holds(f0, NoHolds)'
    BY <2>2 DEF IInv
  <2> QED
    BY <1>1, <2>1, <2>3 DEF IInv
<1> QED
  BY <1>2, <1>3

LEMMA CommandKeeps ==
  ASSUME IInv, NEW f, Holds(f, NoHolds), Command(f)
  PROVE  IInv'
<1>1. Done(f) /\ cwd' \in Inode /\ root' \in Inode
  BY DEF Command, IInv
<1> QED
  BY <1>1, DoneKeeps

LEMMA RestartHolds ==
  ASSUME NEW f, Holds(f, NoHolds), Runs(f)
  PROVE  Holds([SyncDevInodes(f) EXCEPT !.table = [s \in Slot |-> EmptySlot], !.pos = 0,
                                        !.leaks = [z \in Zone |-> 0]], NoHolds)
<1> DEFINE u == SyncDevInodes(f)
           table == [s \in Slot |-> EmptySlot]
           pins == [z \in Zone |-> 0]
           g == [u EXCEPT !.table = table, !.pos = 0, !.leaks = pins]
<1>1. f \in Systems /\ TableOK(f, NoHolds) /\ Owned(f)
  BY DEF Holds
<1>2. SyncTo(f, u)
  BY <1>1, SyncGives
<1> HIDE DEF u
<1>3. u \in Systems
  BY <1>2 DEF SyncTo
<1>4. Cache(u) /\ Calm(f, u)
  BY <1>1, <1>2, SyncKeeps DEF Cache, TableOK
<1>5. /\ table \in [Slot -> Row] /\ \A s \in Slot : table[s] = EmptySlot
      /\ pins \in [Zone -> Nat] /\ 0 \in 0..(NrZones - 1)
  BY Rows, Ranges
<1> HIDE DEF table, pins
<1>6. /\ g \in Systems /\ g.table = table /\ g.imap = u.imap /\ g.zmap = u.zmap
      /\ g.dev_inode = u.dev_inode /\ g.objs = u.objs /\ g.lost = u.lost
  BY <1>3, <1>5 DEF Systems
<1> HIDE DEF g
<1>7. Valid(g) = {}
  BY <1>5, <1>6, Rows DEF Valid
<1>8. ASSUME NEW s \in Valid(u) PROVE Copies(u.dev_inode[u.table[s].num], u.table[s].node)
  <2>1. s \in Slot /\ u.table[s].valid
    BY DEF Valid
  <2>2. s \notin ToWrite(f) /\ u.table[s] = f.table[s]
    BY <1>2, <2>1, Rows DEF SyncTo
  <2>3. f.table[s].cnt = 0
    BY <1>1, <2>1, NoneHeld DEF TableOK, CountsOK
  <2>4. ~u.table[s].dirt /\ ~Going(u.table[s])
    BY <2>1, <2>2, <2>3 DEF ToWrite, Going
  <2> QED
    BY <1>4, <2>4 DEF Cache, OnDevice, Copies
<1>9. \A i \in Inode : Carried(u, g, i)
  BY <1>6, <1>8 DEF Carried, Copies
<1>10. InMap(g) /\ Once(g) /\ Calm(u, g)
  BY <1>3, <1>4, <1>6, <1>7, <1>9, TableChanges DEF Cache
<1>11. Owned(g)
  BY <1>1, <1>3, <1>4, <1>10, CalmOwned
<1>12. TableOK(g, NoHolds)
  BY <1>5, <1>6, <1>7, <1>10, NoneHeld, Rows DEF TableOK, OnDevice, CountsOK
<1>13. Holds(g, NoHolds)
  BY <1>6, <1>11, <1>12 DEF Holds
<1> QED
  BY <1>13 DEF g, u, table, pins

LEMMA InitHolds ==
  ASSUME Init
  PROVE  IInv
<1> DEFINE row == [EmptySlot EXCEPT !.num = ROOT_IND_NR, !.valid = TRUE, !.node = RootNode]
           g == f0
<1>1. RootNode \in DevInode /\ OnlyZone(RootNode, 1)
  <2>1. RootNode = DirNode(1)
    BY DEF RootNode, DirNode
  <2> QED
    BY <2>1, DirNodeIs, Ranges
<1>2. /\ row \in Row /\ row.num = ROOT_IND_NR /\ row.valid /\ row.node = RootNode
      /\ row.cnt = 0
  BY <1>1, Rows, Ranges DEF Row
<1>3. /\ g.table = [s \in Slot |-> IF s > 0 THEN EmptySlot ELSE row]
      /\ g.imap = {ROOT_IND_NR} /\ g.zmap = {1}
      /\ g.dev_inode = [i \in Inode |-> IF i = ROOT_IND_NR THEN RootNode ELSE ZeroInode]
      /\ g.entries = [z \in Zone |-> IF z = 1 THEN NewDirEntries(ROOT_IND_NR, ROOT_IND_NR)
                                     ELSE NoEntries]
      /\ g.objs = [z \in Zone |-> NoObjs] /\ g.pos = 0
      /\ g.leaks = [z \in Zone |-> 0] /\ g.lost = {} /\ g.halt = "no"
      /\ g = [table |-> g.table, imap |-> g.imap, zmap |-> g.zmap, dev_inode |-> g.dev_inode,
              entries |-> g.entries, objs |-> g.objs, pos |-> g.pos, leaks |-> g.leaks,
              lost |-> g.lost, halt |-> g.halt]
  BY DEF Init, f0
<1>4. leaks = [z \in Zone |-> 0] /\ cwd = ROOT_IND_NR /\ root = ROOT_IND_NR /\ halt = "no"
  BY DEF Init
<1> HIDE DEF g, row
<1>5. g.table \in [Slot -> Row]
  BY <1>2, <1>3, Rows
<1>6. g.dev_inode \in [Inode -> DevInode]
  BY <1>1, <1>3, Rows
<1>7. /\ g.entries \in [Zone -> [DOMAIN NoEntries -> Entry]]
      /\ g.objs \in [Zone -> [DOMAIN NoObjs -> Zone \cup {NoZone}]]
  BY <1>3, Ranges, EmptyZones, DirEntriesAre
<1>8. /\ g.imap \in SUBSET Inode /\ g.zmap \in SUBSET Zone /\ g.lost \in SUBSET Zone
      /\ g.pos \in 0..(NrZones - 1) /\ g.leaks \in [Zone -> Nat]
  BY <1>3, Ranges
<1>9. g \in Systems
  BY <1>3, <1>5, <1>6, <1>7, <1>8 DEF Systems
<1>10. Valid(g) = {0} /\ g.table[0] = row
  <2>1. 0 \in Slot /\ ~(0 > 0) /\ \A s \in Slot : s # 0 => s > 0
    BY Ranges DEF Slot
  <2> QED
    BY <1>2, <1>3, <2>1, Rows DEF Valid
<1>11. TableOK(g, NoHolds)
  <2>1. InMap(g) /\ Once(g)
    BY <1>2, <1>3, <1>10 DEF InMap, Once
  <2>2. OnDevice(g)
    BY <1>2, <1>3, <1>10, Ranges DEF OnDevice, Copies
  <2>3. CountsOK(g, NoHolds)
    BY <1>2, <1>3, Rows, NoneHeld DEF CountsOK
  <2> QED
    BY <2>1, <2>2, <2>3 DEF TableOK
<1>12. NodeOf(g, ROOT_IND_NR) = RootNode
  BY <1>2, <1>9, <1>10, <1>11, NodeAt DEF TableOK
<1>13. /\ Has(g, ROOT_IND_NR, 0) = 1
       /\ \A p \in Position : p # 0 => Has(g, ROOT_IND_NR, p) = NoZone
  <2> DEFINE node == RootNode
  <2>1. node.mode = "dir" /\ OnlyZone(node, 1)
    BY <1>1 DEF OnlyZone
  <2> HIDE DEF node
  <2>2. NodeOf(g, ROOT_IND_NR) = node
    BY <1>12 DEF node
  <2>3. ASSUME NEW p \in Position PROVE Has(g, ROOT_IND_NR, p) = ZoneIn(g, node.zone, p)
    BY <2>1, <2>2 DEF Has
  <2>4. ZoneIn(g, node.zone, 0) = 1 /\ 0 \in Position
    BY <2>1, DirZoneIs, Positions
  <2>5. ASSUME NEW p \in Position, p # 0 PROVE ZoneIn(g, node.zone, p) = NoZone
    <3>1. p <= DIRECT => p \in 0..DIRECT
      BY Positions
    <3>2. DIRECT \in 0..DIRECT /\ DIRECT # 0
      BY Positions, Ranges
    <3> QED
      BY <2>1, <2>5, <3>1, <3>2 DEF OnlyZone, ZoneIn
  <2> QED
    BY <2>3, <2>4, <2>5
<1>14. Owned(g)
  BY <1>3, <1>13, Positions DEF Owned, OwnedIn, NoZone
<1>15. Holds(f0, NoHolds)
  BY <1>9, <1>11, <1>14 DEF Holds, g
<1>16. \A z \in Zone : leaks[z] <= MaxLeaks
  BY <1>4, NameiAssumption
<1> QED
  BY <1>4, <1>15, <1>16, Ranges DEF IInv

LEMMA NextKeeps ==
  ASSUME IInv, [Next]_vars
  PROVE  IInv'
<1> DEFINE h == NoHolds
<1>1. /\ Holds(f0, h) /\ Runs(f0) /\ cwd \in Inode /\ root \in Inode
      /\ h \in [Slot -> Nat] /\ ROOT_IND_NR \in Inode
  BY NoneHeld, Ranges DEF IInv, f0, Runs
<1>2. \A c \in CommandName : \A path \in Given[c] : path \in Path
  BY NameiAssumption
<1>3. {"mkdir", "rmdir", "mknod", "rm", "ls", "write", "cd", "chroot", "ln", "cp", "mv"}
      \subseteq CommandName
  BY DEF CommandName
<1>4. ASSUME NEW path \in Path PROVE PathTo(InDir(DirNamei(f0, path), path.base), h)
  BY <1>1, DirNameiHolds, InDirHolds
<1>5. \A path \in Path : path.base \in EntryName
  BY DEF Path
<1>6. CASE \E path \in Given["mkdir"] : Mkdir(path)
  <2>1. PICK path \in Given["mkdir"] : Mkdir(path)
    BY <1>6
  <2>2. path \in Path
    BY <1>2, <1>3
  <2>3. Holds(DoMkdir(f0, path), h)
    BY <1>1, <1>4, <1>5, <2>2, MkdirHolds DEF DoMkdir
  <2> QED
    BY <2>1, <2>3, CommandKeeps DEF Mkdir
<1>7. CASE \E path \in Given["rmdir"] : Rmdir(path)
  <2>1. PICK path \in Given["rmdir"] : Rmdir(path)
    BY <1>7
  <2>2. path \in Path
    BY <1>2, <1>3
  <2>3. Holds(DoRmdir(f0, path), h)
    BY <1>1, <2>2, RmdirHolds
  <2> QED
    BY <2>1, <2>3, CommandKeeps DEF Rmdir
<1>8. CASE \E path \in Given["mknod"] : Mknod(path)
  <2>1. PICK path \in Given["mknod"] : Mknod(path)
    BY <1>8
  <2>2. path \in Path
    BY <1>2, <1>3
  <2>3. Holds(DoMknod(f0, path), h)
    BY <1>1, <1>4, <1>5, <2>2, MknodHolds DEF DoMknod
  <2> QED
    BY <2>1, <2>3, CommandKeeps DEF Mknod
<1>9. CASE \E path \in Given["rm"] : Rm(path)
  <2>1. PICK path \in Given["rm"] : Rm(path)
    BY <1>9
  <2>2. path \in Path
    BY <1>2, <1>3
  <2>3. Holds(DoUnhlink(f0, path), h)
    BY <1>1, <2>2, UnhlinkHolds
  <2> QED
    BY <2>1, <2>3, CommandKeeps DEF Rm
<1>10. CASE \E path \in Given["ls"] : Ls(path)
  <2>1. PICK path \in Given["ls"] : Ls(path)
    BY <1>10
  <2>2. path \in Path
    BY <1>2, <1>3
  <2>3. Holds(Close(Namei(f0, path)), h)
    BY <1>1, <2>2, NameiHolds, CloseHolds
  <2> QED
    BY <2>1, <2>3, CommandKeeps DEF Ls
<1>11. CASE \E path \in Given["write"] : Write(path)
  <2>1. PICK path \in Given["write"] : Write(path)
    BY <1>11
  <2>2. path \in Path
    BY <1>2, <1>3
  <2>3. Holds(WriteClose(OpenNamei(f0, path, TRUE)), h)
    BY <1>1, <2>2, OpenHolds, WriteCloseHolds
  <2> QED
    BY <2>1, <2>3, CommandKeeps DEF Write
<1>12. ASSUME NEW path \in Path
       PROVE  LET l == Namei(f0, path)
              IN  Holds(Close(l), h) /\ DirNumber(l, cwd) \in Inode
                  /\ DirNumber(l, root) \in Inode
  <2> DEFINE l == Namei(f0, path)
  <2>1. Way(l, h)
    BY <1>1, NameiHolds
  <2> HIDE DEF l
  <2>2. Holds(Close(l), h)
    BY <1>1, <2>1, CloseHolds
  <2>3. l.s # None => l.f.table[l.s].num \in Inode
    BY <2>1, RowFields DEF Way, Holds
  <2>4. DirNumber(l, cwd) \in Inode /\ DirNumber(l, root) \in Inode
    BY <1>1, <2>3 DEF DirNumber
  <2> QED
    BY <2>2, <2>4 DEF l
<1>13. CASE \E path \in Given["cd"] : Chdir(path)
  <2>1. PICK path \in Given["cd"] : Chdir(path)
    BY <1>13
  <2>2. path \in Path
    BY <1>2, <1>3
  <2> DEFINE l == Namei(f0, path)
  <2>3. Holds(Close(l), h) /\ DirNumber(l, cwd) \in Inode
    BY <1>12, <2>2
  <2>4. Done(Close(l)) /\ cwd' = DirNumber(l, cwd) /\ root' = root
    BY <2>1 DEF Chdir, ChangedDir
  <2> HIDE DEF l
  <2>5. cwd' \in Inode /\ root' \in Inode
    BY <1>1, <2>3, <2>4
  <2> QED
    BY <2>3, <2>4, <2>5, DoneKeeps
<1>14. CASE \E path \in Given["chroot"] : Chroot(path)
  <2>1. PICK path \in Given["chroot"] : Chroot(path)
    BY <1>14
  <2>2. path \in Path
    BY <1>2, <1>3
  <2> DEFINE l == Namei(f0, path)
  <2>3. Holds(Close(l), h) /\ DirNumber(l, root) \in Inode
    BY <1>12, <2>2
  <2>4. Done(Close(l)) /\ root' = DirNumber(l, root) /\ cwd' = cwd
    BY <2>1 DEF Chroot, ChangedRoot
  <2> HIDE DEF l
  <2>5. cwd' \in Inode /\ root' \in Inode
    BY <1>1, <2>3, <2>4
  <2> QED
    BY <2>3, <2>4, <2>5, DoneKeeps
<1>15. CASE \E old, new \in Given["ln"] : Ln(old, new)
  <2>1. PICK old \in Given["ln"], new \in Given["ln"] : Ln(old, new)
    BY <1>15
  <2>2. old \in Path /\ new \in Path
    BY <1>2, <1>3
  <2>3. Holds(DoHlink(f0, old, new), h)
    BY <1>1, <2>2, HlinkHolds
  <2> QED
    BY <2>1, <2>3, CommandKeeps DEF Ln
<1>16. CASE \E from, to \in Given["cp"] : Cp(from, to)
  <2>1. PICK from \in Given["cp"], to \in Given["cp"] : Cp(from, to)
    BY <1>16
  <2>2. from \in Path /\ to \in Path
    BY <1>2, <1>3
  <2>3. Holds(DoCopy(f0, from, to).f, h)
    BY <1>1, <2>2, CopyHolds
  <2> QED
    BY <2>1, <2>3, CommandKeeps DEF Cp
<1>17. CASE \E from, to \in Given["mv"] : Mv(from, to)
  <2>1. PICK from \in Given["mv"], to \in Given["mv"] : Mv(from, to)
    BY <1>17
  <2>2. from \in Path /\ to \in Path
    BY <1>2, <1>3
  <2>3. Holds(DoCopy(f0, from, to).f, h)
    BY <1>1, <2>2, CopyHolds
  <2>4. Holds(Moved(DoCopy(f0, from, to), from), h)
    BY <1>1, <2>2, <2>3, MovedHolds
  <2> QED
    BY <2>1, <2>4, CommandKeeps DEF Mv
<1>18. CASE Restart
  <2>1. cwd' \in Inode /\ root' \in Inode
    BY <1>1, <1>18 DEF Restart
  <2> QED
    BY <1>1, <1>18, <2>1, RestartHolds, DoneKeeps DEF Restart
<1>19. CASE UNCHANGED vars
  <2>1. f0' = f0 /\ NoHolds' = NoHolds /\ leaks' = leaks /\ cwd' = cwd /\ root' = root
        /\ halt' = halt
    BY <1>19 DEF vars, f0, NoHolds
  <2>2. Holds(f0, NoHolds)'
    BY <1>1, <2>1
  <2> QED
    BY <2>1, <2>2 DEF IInv
<1> QED
  BY <1>6, <1>7, <1>8, <1>9, <1>10, <1>11, <1>13, <1>14, <1>15, <1>16, <1>17, <1>18, <1>19
  DEF Next

-----------------------------------------------------------------------------
(***************************************************************************)
(* The invariant, of all that can happen to names, inodes and zones: every *)
(* command on every way out, crashes and a search that never ends too      *)
(* (fs/namei.c, fs/inode.c, fs/bmap.c).                                    *)
(***************************************************************************)
THEOREM NameiInvariant == Spec => []IInv
<1>1. Init => IInv
  BY InitHolds
<1>2. IInv /\ [Next]_vars => IInv'
  BY NextKeeps
<1> QED
  BY <1>1, <1>2, PTL DEF Spec

(***************************************************************************)
(* Every table, map and zone has its type; nothing is in use between       *)
(* commands, so no count passes the number of slots.                       *)
(***************************************************************************)
THEOREM TypeCorrect == Spec => []TypeOK
<1>1. ASSUME IInv PROVE TypeOK
  <2> DEFINE f == f0
  <2>1. /\ f.table = inode_table /\ f.imap = device.imap /\ f.zmap = device.zmap
        /\ f.dev_inode = device.dev_inode /\ f.entries = device.entries
        /\ f.objs = device.objs /\ f.pos = sb_pos /\ f.leaks = leaks /\ f.lost = lost
        /\ f.halt = "no"
    BY DEF f0
  <2> HIDE DEF f
  <2>2. f \in Systems /\ Holds(f, NoHolds) /\ TableOK(f, NoHolds)
    BY <1>1, <2>1 DEF IInv, Holds, Runs, f
  <2> DEFINE Small == [num : Inode, cnt : 0..NR_INODE_BUF, dirt : BOOLEAN, valid : BOOLEAN,
                       node : DevInode]
  <2>3. ASSUME NEW s \in Slot PROVE inode_table[s] \in Small
    <3>1. inode_table[s] \in Row /\ inode_table[s].cnt = 0
      BY <2>1, <2>2, RowFields, NoneHeld DEF TableOK, CountsOK
    <3>2. 0 \in 0..NR_INODE_BUF
      BY InodeAssumption
    <3> QED
      BY <3>1, <3>2 DEF Row
  <2> HIDE DEF Small
  <2>4. inode_table \in [Slot -> Small]
    BY <2>1, <2>2, <2>3, Fields
  <2>5. leaks \in [Zone -> 0..MaxLeaks]
    <3>1. leaks \in [Zone -> Nat] /\ \A z \in Zone : leaks[z] <= MaxLeaks
      BY <1>1, <2>1, <2>2, Fields DEF IInv
    <3>2. \A z \in Zone : leaks[z] \in 0..MaxLeaks
      BY <3>1, NameiAssumption
    <3> QED
      BY <3>1, <3>2
  <2>6. /\ device.imap \subseteq Inode /\ device.zmap \subseteq Zone
        /\ device.dev_inode \in [Inode -> DevInode]
        /\ device.entries \in [Zone -> [DOMAIN NoEntries -> Entry]]
        /\ device.objs \in [Zone -> [DOMAIN NoObjs -> Zone \cup {NoZone}]]
        /\ sb_pos \in 0..(NrZones - 1) /\ lost \subseteq Zone
    BY <2>1, <2>2, Fields
  <2>7. cwd \in Inode /\ root \in Inode /\ halt \in {"no", "crash", "hang"}
    BY <1>1 DEF IInv
  <2> QED
    BY <2>4, <2>5, <2>6, <2>7 DEF TypeOK, Small, DevInode, Entry
<1> QED
  BY <1>1, NameiInvariant, PTL

(***************************************************************************)
(* A zone has one user, and is in the map while it has it; what is in the  *)
(* map besides are the zones that were not freed with their inode          *)
(* (inode.c:317-318, bmap.c:46-101): for any device and any commands.      *)
(***************************************************************************)
THEOREM ZonesAlwaysOneUser == Spec => []ZonesHaveOneUser
<1>1. ASSUME IInv PROVE ZonesHaveOneUser
  <2> DEFINE f == f0
  <2>1. /\ f.imap = device.imap /\ f.zmap = device.zmap /\ f.lost = lost /\ Owned(f)
        /\ \A i : Node(i) = NodeOf(f, i)
    BY <1>1 DEF f0, IInv, Holds, Runs, Node
  <2>2. ASSUME NEW z \in Zone, NEW u
        PROVE  u \in Users(z) <=>
                 \E i \in f.imap, p \in Position : u = <<i, p>> /\ Has(f, i, p) = z
    <3>1. z # NoZone
      BY Ranges
    <3>2. ASSUME NEW i
          PROVE  {q \in Uses(f0, Node(i)) : ZoneIn(f0, Node(i).zone, q) = z} =
                 {p \in Position : Has(f, i, p) = z}
      <4>1. CASE NodeOf(f, i).mode = "dev"
        BY <2>1, <3>1, <4>1 DEF Uses, Has
      <4>2. CASE NodeOf(f, i).mode # "dev"
        BY <2>1, <3>1, <4>2 DEF Uses, Has, Filled
      <4> QED
        BY <4>1, <4>2
    <3>3. Users(z) = UNION {{<<i, p>> : p \in {q \in Position : Has(f, i, q) = z}} : i \in f.imap}
      BY <2>1, <3>2 DEF Users
    <3> QED
      BY <3>3
  <2> HIDE DEF f
  <2>3. ASSUME NEW z \in Zone
        PROVE  /\ \A u, v \in Users(z) : u = v
               /\ Users(z) # {} => z \notin lost
               /\ z \in device.zmap <=> Users(z) # {} \/ z \in lost
    <3>1. z # NoZone
      BY Ranges
    <3>2. \A u, v \in Users(z) : u = v
      BY <2>1, <2>2, <3>1 DEF Owned, OwnedIn
    <3>3. Users(z) # {} <=> \E i \in f.imap, p \in Position : Has(f, i, p) = z
      BY <2>2
    <3>4. Users(z) # {} => z \notin lost /\ z \in device.zmap
      BY <2>1, <3>1, <3>3 DEF Owned, OwnedIn
    <3>5. z \in device.zmap => Users(z) # {} \/ z \in lost
      BY <2>1, <3>3 DEF Owned, OwnedIn
    <3>6. z \in lost => z \in device.zmap
      BY <2>1 DEF Owned, OwnedIn
    <3> QED
      BY <3>2, <3>4, <3>5, <3>6
  <2> QED
    BY <2>3 DEF ZonesHaveOneUser
<1> QED
  BY <1>1, NameiInvariant, PTL

(***************************************************************************)
(* Between commands every hold on an inode has been given back, an inode   *)
(* is in the table once at most and in the map as long, and a copy that is *)
(* not to be written has the mode and the zones that are on the device     *)
(* (inode.c:92-163).                                                       *)
(***************************************************************************)
TableRests ==
  \A s \in Slot :
    inode_table[s].valid =>
      /\ inode_table[s].cnt = 0 /\ inode_table[s].num \in device.imap
      /\ Cached(f0, inode_table[s].num) = {s}
      /\ inode_table[s].dirt
         \/ Copies(inode_table[s].node, device.dev_inode[inode_table[s].num])

THEOREM TableAlwaysRests == Spec => []TableRests
<1>1. ASSUME IInv PROVE TableRests
  <2> DEFINE f == f0
  <2>1. /\ f.table = inode_table /\ f.imap = device.imap /\ f.dev_inode = device.dev_inode
        /\ TableOK(f, NoHolds) /\ f \in Systems
    BY <1>1 DEF f0, IInv, Holds, Runs
  <2>3. \A i : Cached(f0, i) = Cached(f, i)
    OBVIOUS
  <2> HIDE DEF f
  <2>2. ASSUME NEW s \in Slot, f.table[s].valid
        PROVE  /\ f.table[s].cnt = 0 /\ f.table[s].num \in f.imap
               /\ Cached(f, f.table[s].num) = {s}
               /\ f.table[s].dirt \/ Copies(f.table[s].node, f.dev_inode[f.table[s].num])
    <3>1. s \in Valid(f) /\ Once(f) /\ InMap(f) /\ OnDevice(f) /\ CountsOK(f, NoHolds)
      BY <2>1, <2>2 DEF Valid, TableOK
    <3>2. f.table[s].cnt = 0 /\ f.table[s].num \in f.imap
      BY <3>1, NoneHeld DEF CountsOK, InMap
    <3>3. f.table[s].dirt \/ Copies(f.table[s].node, f.dev_inode[f.table[s].num])
      BY <3>1, <3>2 DEF OnDevice, Going
    <3> QED
      BY <2>1, <3>1, <3>2, <3>3, NodeAt
  <2> QED
    BY <2>1, <2>2, <2>3 DEF TableRests
<1> QED
  BY <1>1, NameiInvariant, PTL
==============================================================================
