------------------------------ MODULE MountProofs -----------------------------
(***************************************************************************)
(* What is proved about the mounts: for any devices, trees of directories, *)
(* paths, and sizes of the tables.                                         *)
(***************************************************************************)
EXTENDS Mount, FiniteSetTheorems, SequenceTheorems, TLAPS

(***************************************************************************)
(* The inductive invariant, of a file system f in the middle of a command. *)
(* a and b are the slots that the command holds, or None.  Base also holds *)
(* when the file system has stopped.                                       *)
(***************************************************************************)
Held(s, a, b) == (IF s = a THEN 1 ELSE 0) + (IF s = b THEN 1 ELSE 0)
Hosts(f, s) == \E b \in Sblk : f.sb[b].host = s
Known(f, d) == \E b \in Sblk : f.sb[b].dev = d /\ f.sb[b].maps
HasMount(f, d) == \E b \in Sblk : f.sb[b].dev = d /\ f.sb[b].host # None
Row == [dev : Dev \cup {None}, num : Ind \cup {None}, cnt : Nat, dirt : BOOLEAN,
        mounted : BOOLEAN, nlinks : Nat]
SblkRow == [dev : Dev \cup {None}, host : Slot \cup {None}, maps : BOOLEAN]
Stops == {"no", "hang", "maps", "root"}
Systems == [table : [Slot -> Row], sb : [Sblk -> SblkRow], tree : [Dev -> Tree],
            nlinks : [Dev -> [Ind -> Nat]], pins : [Dev -> Nat], halt : Stops]

SblksOK(f) ==
  /\ \A b \in Sblk : f.sb[b].host # None => f.sb[b].dev # None /\ f.sb[b].maps
  /\ \A b, c \in Sblk : f.sb[b].dev = f.sb[c].dev /\ f.sb[b].dev # None => b = c
  /\ \A b, c \in Sblk : f.sb[b].host = f.sb[c].host /\ f.sb[b].host # None => b = c
  /\ Known(f, ROOT_DEV)

PinsOK(f) ==
  \A d \in Dev :
    f.pins[d] = (IF HasMount(f, d) THEN 1 ELSE 0) + (IF d = ROOT_DEV THEN 1 ELSE 0)

CountsOK(f, a, b) ==
  \A s \in Slot : f.table[s].cnt = (IF Hosts(f, s) THEN 1 ELSE 0) + Held(s, a, b)

Base(f, a, b) == f \in Systems /\ SblksOK(f) /\ PinsOK(f) /\ CountsOK(f, a, b)

LinksIn(f, d, i) == 2 + Cardinality(Children(f.tree[d], i))

Changed(f, s, d, i) ==
  s \in Slot /\ f.table[s].dev = d /\ f.table[s].num = i /\ f.table[s].dirt /\ ~f.table[s].mounted

HostsOK(f) ==
  \A s \in Slot :
    /\ f.table[s].mounted <=> Hosts(f, s)
    /\ Hosts(f, s) => f.table[s].num # ROOT_IND_NR

UsedOK(f) ==
  \A s \in Slot :
    /\ f.table[s].cnt > 0 => f.table[s].dev \in Dev /\ Known(f, f.table[s].dev)
    /\ f.table[s].dirt => f.table[s].cnt > 0

RowsOK(f) ==
  \A s \in Slot :
    f.table[s].dev # None =>
      /\ f.table[s].num # None /\ f.tree[f.table[s].dev][f.table[s].num] # None
      /\ f.table[s].nlinks > 0
      /\ f.table[s].num # ROOT_IND_NR =>
           f.table[s].nlinks = LinksIn(f, f.table[s].dev, f.table[s].num)

OnceOK(f) ==
  \A s, t \in Slot :
    f.table[s].dev # None /\ f.table[s].dev = f.table[t].dev
      /\ f.table[s].num = f.table[t].num /\ f.table[s].num # ROOT_IND_NR => s = t

DiskOK(f, a, b) ==
  \A d \in Dev :
    /\ IsTree(f.tree[d])
    /\ \A i \in Ind :
         /\ f.nlinks[d][i] > 0
         /\ i # ROOT_IND_NR /\ f.tree[d][i] # None =>
              f.nlinks[d][i] = LinksIn(f, d, i) \/ Changed(f, a, d, i) \/ Changed(f, b, d, i)

Agree(f, a, b) == HostsOK(f) /\ UsedOK(f) /\ RowsOK(f) /\ OnceOK(f) /\ DiskOK(f, a, b)

now == [f0 EXCEPT !.halt = halt]

IInv ==
  /\ DOMAIN device = {"tree", "nlinks"}
  /\ cwd \in [dev : Dev, num : Ind] /\ root \in [dev : Dev, num : Ind]
  /\ \E a \in Slot \cup {None} : Base(now, a, None)
  /\ halt = "no" =>
       /\ Base(now, None, None) /\ Agree(now, None, None)
       /\ InTree(cwd) => Known(now, cwd.dev)

-----------------------------------------------------------------------------
(***************************************************************************)
(* Numbers, and the induction on the steps of a path.                      *)
(***************************************************************************)
LEMMA LeastNumber ==
  ASSUME NEW T \in SUBSET Nat, IsFiniteSet(T), T # {}
  PROVE  \E m \in T : \A x \in T : m =< x
<1> DEFINE Below(x) == {y \in T : y < x}
<1> DEFINE F == {Below(x) : x \in T}
<1>1. F \subseteq FiniteSubsetsOf(T) /\ F # {}
  <2>1. \A x : Below(x) \in SUBSET T
    OBVIOUS
  <2>2. \A A \in SUBSET T : IsFiniteSet(A)
    BY FS_Subset
  <2> QED
    BY <2>1, <2>2 DEF FiniteSubsetsOf
<1>2. PICK A \in F : \A B \in F : <<B, A>> \notin StrictSubsetOrdering(T)
  BY <1>1, FS_StrictSubsetOrderingWellFounded, WFMin
<1>3. PICK m \in T : A = Below(m)
  OBVIOUS
<1>4. ASSUME NEW y \in Below(m) PROVE FALSE
  <2>1. m \in Nat /\ y \in Nat /\ y < m /\ y \in T
    BY <1>4
  <2>2. Below(y) \subseteq Below(m)
    <3>1. ASSUME NEW z \in Below(y) PROVE z \in Below(m)
      <4>1. z \in Nat /\ z < y /\ z \in T
        BY <3>1
      <4> QED
        BY <4>1, <2>1
    <3> QED
      BY <3>1
  <2>3. Below(y) \subseteq T /\ Below(m) \subseteq T /\ y \in Below(m) /\ y \notin Below(y)
    BY <2>1
  <2>4. <<Below(y), Below(m)>> \in StrictSubsetOrdering(T)
    BY <2>2, <2>3 DEF StrictSubsetOrdering
  <2>5. Below(y) \in F
    BY <2>1
  <2> QED
    BY <2>4, <2>5, <1>2, <1>3
<1>5. \A x \in T : ~(x < m)
  BY <1>4
<1> QED
  BY <1>5

LEMMA TurnByTurn ==
  ASSUME NEW N \in Nat, NEW P, P[0], \A t \in 1..N : P[t - 1] => P[t]
  PROVE  \A t \in 0..N : P[t]
<1> DEFINE T == {t \in 0..N : ~P[t]}
<1> SUFFICES ASSUME T # {} PROVE FALSE
  OBVIOUS
<1>1. T \in SUBSET Nat /\ IsFiniteSet(T)
  <2>1. IsFiniteSet(0..N)
    BY FS_Interval
  <2> QED
    BY <2>1, FS_Subset
<1>2. PICK m \in T : \A x \in T : m =< x
  BY <1>1, LeastNumber
<1>3. m \in 1..N
  <2>1. m # 0 /\ m \in 0..N
    OBVIOUS
  <2> QED
    BY <2>1
<1>4. m - 1 \in 0..N /\ ~(m =< m - 1)
  BY <1>3
<1>5. P[m - 1]
  BY <1>2, <1>4
<1> QED
  BY <1>3, <1>5

RunOf(f, N, S, x0, step) ==
  /\ f \in [0..N -> S] /\ f[0] = x0
  /\ \A t \in 1..N : f[t] = step[t][f[t - 1]]

LEMMA RunExists ==
  ASSUME NEW N \in Nat, NEW S, NEW x0 \in S, NEW step \in [1..N -> [S -> S]]
  PROVE  \E f : RunOf(f, N, S, x0, step)
<1> DEFINE Run(n) == \E f \in [0..n -> S] :
                       f[0] = x0 /\ \A t \in 1..n : f[t] = step[t][f[t - 1]]
<1> DEFINE P == [n \in 0..N |-> Run(n)]
<1>1. P[0]
  <2>1. [t \in 0..0 |-> x0] \in [0..0 -> S] /\ 0 \in 0..0 /\ 1..0 = {}
    OBVIOUS
  <2>2. Run(0)
    BY <2>1
  <2> QED
    BY <2>2
<1>2. ASSUME NEW n \in 1..N, P[n - 1] PROVE P[n]
  <2>1. n \in Nat /\ n - 1 \in 0..N
    OBVIOUS
  <2>2. PICK f \in [0..(n - 1) -> S] :
          f[0] = x0 /\ \A t \in 1..(n - 1) : f[t] = step[t][f[t - 1]]
    BY <1>2, <2>1
  <2> DEFINE g == [t \in 0..n |-> IF t = n THEN step[n][f[n - 1]] ELSE f[t]]
  <2>3. f[n - 1] \in S
    BY <2>1
  <2>4. step[n] \in [S -> S]
    OBVIOUS
  <2>5. g \in [0..n -> S]
    <3>1. \A t \in 0..n : t # n => t \in 0..(n - 1)
      BY <2>1
    <3> QED
      BY <2>3, <2>4, <3>1
  <2>6. g[0] = x0
    BY <2>1, <2>2
  <2>7. ASSUME NEW t \in 1..n PROVE g[t] = step[t][g[t - 1]]
    <3>1. t - 1 \in 0..n /\ t - 1 # n /\ t \in 0..n /\ (t # n => t \in 1..(n - 1))
      BY <2>1
    <3>2. g[t - 1] = f[t - 1]
      BY <3>1
    <3> QED
      BY <3>1, <3>2, <2>2
  <2> HIDE DEF g
  <2>8. Run(n) /\ n \in 0..N
    BY <2>5, <2>6, <2>7
  <2> HIDE DEF Run
  <2> QED
    BY <2>8
<1> HIDE DEF P, Run
<1>3. P[N]
  <2>1. \A n \in 0..N : P[n]
    BY <1>1, <1>2, TurnByTurn
  <2>2. N \in 0..N
    OBVIOUS
  <2> QED
    BY <2>1, <2>2
<1> QED
  <2>1. N \in 0..N
    OBVIOUS
  <2>2. Run(N)
    BY <2>1, <1>3 DEF P
  <2> QED
    BY <2>2 DEF Run, RunOf

LEMMA MinIn ==
  ASSUME NEW n \in Int, NEW S \in SUBSET (0..n), S # {}
  PROVE  Min(S) \in S /\ \A x \in S : Min(S) =< x
<1>1. IsFiniteSet(S) /\ S \in SUBSET Nat
  <2>1. IsFiniteSet(0..n)
    BY FS_Interval
  <2>2. IsFiniteSet(S)
    BY <2>1, FS_Subset
  <2>3. \A k \in 0..n : k \in Nat
    OBVIOUS
  <2> QED
    BY <2>2, <2>3
<1>2. \E m \in S : \A x \in S : m =< x
  BY <1>1, LeastNumber
<1> QED
  BY <1>2 DEF Min

LEMMA Ranges ==
  /\ NR_INODE_BUF - 1 \in Int /\ NR_SBLKS - 1 \in Int /\ LastInd \in Nat
  /\ Slot \subseteq Nat /\ Sblk \subseteq Nat /\ Ind \subseteq Nat
  /\ None \notin Slot /\ None \notin Sblk /\ None \notin Ind /\ None \notin Dev \cup OtherDev
  /\ ROOT_IND_NR \in Ind /\ 0 \in Sblk /\ ROOT_DEV \in Dev /\ None # Up
  /\ Up \notin Ind
BY MountAssumption DEF Slot, Sblk, Ind, None, ROOT_IND_NR, Up

LEMMA MinSlot ==
  ASSUME NEW S \in SUBSET Slot, S # {}
  PROVE  Min(S) \in S /\ \A x \in S : Min(S) =< x
BY MinIn, Ranges DEF Slot

LEMMA MinSblk ==
  ASSUME NEW S \in SUBSET Sblk, S # {}
  PROVE  Min(S) \in S
BY MinIn, Ranges DEF Sblk

LEMMA MinInd ==
  ASSUME NEW S \in SUBSET Ind, S # {}
  PROVE  Min(S) \in S
<1>1. LastInd \in Int /\ S \in SUBSET (0..LastInd)
  BY Ranges DEF Ind
<1> QED
  BY <1>1, MinIn

(***************************************************************************)
(* Links: a directory more or less in another one.                         *)
(***************************************************************************)
LEMMA ChildrenFinite ==
  ASSUME NEW t, NEW i
  PROVE  IsFiniteSet(Children(t, i)) /\ Cardinality(Children(t, i)) \in Nat
<1>1. IsFiniteSet(Ind)
  BY FS_Interval, Ranges DEF Ind
<1>2. IsFiniteSet(Children(t, i))
  BY <1>1, FS_Subset DEF Children
<1> QED
  BY <1>2, FS_CardinalityType

LEMMA NoChildren ==
  ASSUME NEW t, NEW i, Children(t, i) = {}
  PROVE  2 + Cardinality(Children(t, i)) = 2
BY FS_EmptySet
-----------------------------------------------------------------------------
(***************************************************************************)
(* get_sblk(): a device has one super block, and a slot one mount.         *)
(***************************************************************************)
LEMMA SblkOf ==
  ASSUME NEW f, SblksOK(f), NEW b \in Sblk, f.sb[b].dev # None
  PROVE  SblksOf(f, f.sb[b].dev) = {b} /\ Min(SblksOf(f, f.sb[b].dev)) = b
<1>1. SblksOf(f, f.sb[b].dev) = {b}
  BY DEF SblksOf, SblksOK
<1> QED
  BY <1>1, MinSblk

LEMMA HostedBy ==
  ASSUME NEW f, SblksOK(f), NEW b \in Sblk, f.sb[b].host # None
  PROVE  MountedOn(f, f.sb[b].host) = {b} /\ Min(MountedOn(f, f.sb[b].host)) = b
<1>1. MountedOn(f, f.sb[b].host) = {b}
  BY DEF MountedOn, SblksOK
<1> QED
  BY <1>1, MinSblk

LEMMA HostsAre ==
  ASSUME NEW f, NEW s \in Slot
  PROVE  MountedOn(f, s) # {} <=> Hosts(f, s)
BY DEF MountedOn, Hosts

(***************************************************************************)
(* What stays of f in g when a super block is read: everything but sb.     *)
(***************************************************************************)
SameBut(f, g) ==
  /\ g.table = f.table /\ g.tree = f.tree /\ g.nlinks = f.nlinks /\ g.pins = f.pins
  /\ g.halt = f.halt

LEMMA GetSblkKnown ==
  ASSUME NEW f, SblksOK(f), NEW d \in Dev, Known(f, d)
  PROVE  /\ GetSblk(f, d).f = f /\ GetSblk(f, d).b \in Sblk
         /\ f.sb[GetSblk(f, d).b].dev = d /\ f.sb[GetSblk(f, d).b].maps
<1>1. PICK b \in Sblk : f.sb[b].dev = d /\ f.sb[b].maps
  BY DEF Known
<1>2. SblksOf(f, d) = {b} /\ Min(SblksOf(f, d)) = b
  BY <1>1, SblkOf, Ranges
<1> QED
  BY <1>1, <1>2 DEF GetSblk

SblkAdded(f, g, a, b, d, m) ==
  /\ SameBut(f, g) /\ Base(g, a, b)
  /\ g.sb[m] = [dev |-> d, host |-> None, maps |-> FALSE]
  /\ \A c \in Sblk : c # m => g.sb[c] = f.sb[c]

LEMMA ReadSblkEffect ==
  ASSUME NEW f, NEW a, NEW b, Base(f, a, b), NEW d \in Dev, NEW m \in Sblk, f.sb[m].dev = None,
         \A c \in Sblk : f.sb[c].dev # d
  PROVE  SblkAdded(f, [f EXCEPT !.sb[m] = SblkAfterRead(d)], a, b, d, m)
<1> DEFINE g == [f EXCEPT !.sb[m] = SblkAfterRead(d)]
<1> SUFFICES SblkAdded(f, g, a, b, d, m)
  OBVIOUS
<1>1. f \in Systems /\ SblksOK(f) /\ PinsOK(f) /\ CountsOK(f, a, b)
  BY DEF Base
<1> DEFINE row == [dev |-> d, host |-> None, maps |-> FALSE]
<1>2. row \in SblkRow /\ SblkAfterRead(d) = row
  BY DEF SblkRow, SblkAfterRead
<1> HIDE DEF row
<1>3. g \in Systems /\ g.sb = [f.sb EXCEPT ![m] = row] /\ SameBut(f, g)
  BY <1>1, <1>2 DEF Systems, SameBut
<1> HIDE DEF g
<1>4. g.sb[m] = row /\ \A c \in Sblk : c # m => g.sb[c] = f.sb[c]
  BY <1>1, <1>3 DEF Systems
<1>5. f.sb[m].host = None
  BY <1>1 DEF SblksOK
<1>6. row.dev = d /\ row.host = None /\ ~row.maps
  BY DEF row
<1>7. \A s \in Slot : Hosts(g, s) <=> Hosts(f, s)
  BY <1>4, <1>5, <1>6, Ranges DEF Hosts
<1>8. \A e \in Dev : HasMount(g, e) <=> HasMount(f, e)
  BY <1>4, <1>5, <1>6 DEF HasMount
<1>9. CountsOK(g, a, b)
  BY <1>1, <1>3, <1>7 DEF CountsOK, SameBut
<1>10. PinsOK(g)
  BY <1>1, <1>3, <1>8 DEF PinsOK, SameBut
<1>11. SblksOK(g)
  <2>1. Known(g, ROOT_DEV)
    BY <1>1, <1>4, Ranges DEF SblksOK, Known
  <2>2. \A c \in Sblk : g.sb[c].host # None => g.sb[c].dev # None /\ g.sb[c].maps
    BY <1>1, <1>4, <1>6 DEF SblksOK
  <2>3. ASSUME NEW c \in Sblk, NEW e \in Sblk, g.sb[c].dev = g.sb[e].dev, g.sb[c].dev # None
        PROVE  c = e
    BY <1>1, <1>4, <1>6, <2>3 DEF SblksOK
  <2>4. ASSUME NEW c \in Sblk, NEW e \in Sblk, g.sb[c].host = g.sb[e].host, g.sb[c].host # None
        PROVE  c = e
    BY <1>1, <1>4, <1>6, <2>4 DEF SblksOK
  <2> QED
    BY <2>1, <2>2, <2>3, <2>4 DEF SblksOK
<1> QED
  BY <1>3, <1>4, <1>9, <1>10, <1>11 DEF Base, row, SblkAdded
-----------------------------------------------------------------------------
(***************************************************************************)
(* iput() of a slot that is held and whose inode has links.                *)
(***************************************************************************)
RowAfterIput(r) == [r EXCEPT !.cnt = @ - 1, !.dirt = r.cnt > 1 /\ r.dirt]

Written(f, a) ==
  IF f.table[a].cnt = 1 /\ f.table[a].dirt
  THEN [f.nlinks EXCEPT ![f.table[a].dev][f.table[a].num] = f.table[a].nlinks]
  ELSE f.nlinks

LEMMA HeldIsCounted ==
  ASSUME NEW f, NEW a \in Slot, NEW b, Base(f, a, b)
  PROVE  /\ f.table[a].cnt \in Nat /\ f.table[a].cnt > 0
         /\ ~Hosts(f, a) /\ a # b => f.table[a].cnt = 1
         /\ a = b => f.table[a].cnt > 1
         /\ Hosts(f, a) => f.table[a].cnt > 1
BY DEF Base, CountsOK, Held, Systems, Row

IputTo(f, a, g) ==
  /\ g \in Systems /\ g.sb = f.sb /\ g.tree = f.tree /\ g.pins = f.pins
  /\ g.halt = f.halt /\ g.nlinks = Written(f, a)
  /\ g.table = [f.table EXCEPT ![a] = RowAfterIput(f.table[a])]

LEMMA IputMakes ==
  ASSUME NEW f \in Systems, NEW a \in Slot, f.table[a].cnt > 0, f.table[a].nlinks # 0
  PROVE  IputTo(f, a, Iput(f, a))
<1> DEFINE g == Iput(f, a)
<1> SUFFICES IputTo(f, a, g)
  OBVIOUS
<1>1. f \in Systems /\ f.table[a] \in Row /\ f.table[a].cnt > 0 /\ f.table[a].cnt \in Nat
  BY DEF Systems, Row
<1> DEFINE r == [f.table[a] EXCEPT !.cnt = @ - 1]
<1> DEFINE h == [f EXCEPT !.table[a].cnt = @ - 1]
<1>2. r \in Row /\ r.cnt = f.table[a].cnt - 1 /\ r.dirt = f.table[a].dirt
        /\ r.nlinks = f.table[a].nlinks /\ r.dev = f.table[a].dev /\ r.num = f.table[a].num
        /\ r.mounted = f.table[a].mounted
  BY <1>1 DEF Row
<1>3. h \in Systems /\ h.table = [f.table EXCEPT ![a] = r] /\ h.sb = f.sb /\ h.tree = f.tree
        /\ h.pins = f.pins /\ h.halt = f.halt /\ h.nlinks = f.nlinks
  BY <1>1, <1>2 DEF Systems
<1> HIDE DEF r
<1>4. h.table[a] = r
  BY <1>1, <1>3 DEF Systems
<1>5. g = Release(h, a)
  BY <1>1, Ranges DEF Iput
<1> HIDE DEF h, g
<1>6. CASE f.table[a].cnt > 1
  <2>1. g = h
    BY <1>1, <1>2, <1>4, <1>5, <1>6 DEF Release
  <2>2. r = RowAfterIput(f.table[a])
    BY <1>1, <1>6 DEF r, RowAfterIput, Row
  <2> QED
    BY <1>3, <1>1, <1>6, <2>1, <2>2 DEF Written, IputTo
<1>7. CASE f.table[a].cnt = 1 /\ ~f.table[a].dirt
  <2>1. g = h
    BY <1>1, <1>2, <1>4, <1>5, <1>7 DEF Release
  <2>2. r = RowAfterIput(f.table[a])
    BY <1>1, <1>7 DEF r, RowAfterIput, Row
  <2> QED
    BY <1>3, <1>1, <1>7, <2>1, <2>2 DEF Written, IputTo
<1>8. CASE f.table[a].cnt = 1 /\ f.table[a].dirt
  <2>1. g = WriteDevInode(h, a)
    BY <1>1, <1>2, <1>4, <1>5, <1>8 DEF Release
  <2> DEFINE q == [r EXCEPT !.dirt = FALSE]
  <2>2. q = RowAfterIput(f.table[a]) /\ q \in Row
    <3>1. (f.table[a].cnt > 1 /\ f.table[a].dirt) = FALSE
      BY <1>8
    <3>2. q = RowAfterIput(f.table[a])
      BY <3>1 DEF r, RowAfterIput
    <3>3. q \in Row
      BY <1>2 DEF Row
    <3> QED
      BY <3>2, <3>3
  <2>3. h.table[a].dev = f.table[a].dev /\ h.table[a].num = f.table[a].num
          /\ h.table[a].nlinks = f.table[a].nlinks /\ h.table[a].nlinks \in Nat
    BY <1>1, <1>2, <1>4 DEF Row
  <2>4. g.sb = f.sb /\ g.tree = f.tree /\ g.pins = f.pins /\ g.halt = f.halt
          /\ g.nlinks = [h.nlinks EXCEPT ![f.table[a].dev][f.table[a].num] = f.table[a].nlinks]
          /\ g.table = [h.table EXCEPT ![a] = q]
    BY <1>3, <1>4, <2>1, <2>3 DEF WriteDevInode, Systems
  <2> HIDE DEF q
  <2>5. g.table = [f.table EXCEPT ![a] = q]
    BY <1>3, <2>4, <1>1, <1>2 DEF Systems
  <2>6. g.nlinks \in [Dev -> [Ind -> Nat]]
    <3> DEFINE o == h.nlinks
    <3>1. o \in [Dev -> [Ind -> Nat]] /\ f.table[a].nlinks \in Nat
      BY <1>3, <2>3 DEF Systems
    <3> HIDE DEF o
    <3>2. \A d, i, n : n \in Nat => [o EXCEPT ![d][i] = n] \in [Dev -> [Ind -> Nat]]
      BY <3>1
    <3> QED
      BY <3>1, <3>2, <2>4, SMTT(60) DEF o
  <2>7. g.table \in [Slot -> Row]
    BY <1>1, <2>2, <2>5 DEF Systems
  <2>8. g = [table |-> g.table, sb |-> g.sb, tree |-> g.tree, nlinks |-> g.nlinks,
             pins |-> g.pins, halt |-> g.halt]
    BY <1>3, <2>1 DEF WriteDevInode, Systems
  <2>9. g \in Systems
    BY <1>3, <1>1, <2>4, <2>6, <2>7, <2>8 DEF Systems
  <2> QED
    BY <1>3, <1>8, <2>2, <2>4, <2>5, <2>9 DEF Written, IputTo
<1> QED
  <2>1. f.table[a].cnt = 1 \/ f.table[a].cnt > 1
    BY <1>1
  <2> QED
    BY <1>6, <1>7, <1>8, <2>1
LEMMA IputEffect ==
  ASSUME NEW f, NEW a \in Slot, NEW b, Base(f, a, b),
         f.table[a].nlinks # 0
  PROVE  IputTo(f, a, Iput(f, a))
BY HeldIsCounted, IputMakes DEF Base

(***************************************************************************)
(* Super blocks and pins depend on sb and pins only.                       *)
(***************************************************************************)
LEMMA SameSblks ==
  ASSUME NEW f, NEW g, g.sb = f.sb
  PROVE  /\ \A s : Hosts(g, s) <=> Hosts(f, s)
         /\ \A d : Known(g, d) <=> Known(f, d)
         /\ \A d : HasMount(g, d) <=> HasMount(f, d)
         /\ SblksOK(f) => SblksOK(g)
         /\ g.pins = f.pins /\ PinsOK(f) => PinsOK(g)
<1>1. (\A s : Hosts(g, s) <=> Hosts(f, s)) /\ (\A d : Known(g, d) <=> Known(f, d))
        /\ (\A d : HasMount(g, d) <=> HasMount(f, d))
  BY DEF Hosts, Known, HasMount
<1>2. SblksOK(f) => SblksOK(g)
  BY <1>1 DEF SblksOK
<1>3. g.pins = f.pins /\ PinsOK(f) => PinsOK(g)
  BY <1>1 DEF PinsOK
<1> QED
  BY <1>1, <1>2, <1>3

LEMMA IputBase ==
  ASSUME NEW f, NEW a \in Slot, NEW b, Base(f, a, b),
         f.table[a].nlinks # 0
  PROVE  Base(Iput(f, a), None, b)
<1> DEFINE g == Iput(f, a)
<1>1. /\ g \in Systems /\ g.sb = f.sb /\ g.tree = f.tree /\ g.pins = f.pins
      /\ g.table = [f.table EXCEPT ![a] = RowAfterIput(f.table[a])]
  BY IputEffect DEF IputTo
<1> HIDE DEF g
<1>2. f \in Systems /\ SblksOK(f) /\ PinsOK(f) /\ CountsOK(f, a, b)
  BY DEF Base
<1>3. g.table[a].cnt = f.table[a].cnt - 1 /\ \A s \in Slot : s # a => g.table[s] = f.table[s]
  BY <1>1, <1>2 DEF RowAfterIput, Systems, Row
<1>4. CountsOK(g, None, b)
  <2> SUFFICES ASSUME NEW s \in Slot
               PROVE  g.table[s].cnt = (IF Hosts(g, s) THEN 1 ELSE 0) + Held(s, None, b)
    BY DEF CountsOK
  <2>1. Hosts(g, s) <=> Hosts(f, s)
    BY <1>1, SameSblks
  <2>2. f.table[s].cnt = (IF Hosts(f, s) THEN 1 ELSE 0) + Held(s, a, b)
    BY <1>2 DEF CountsOK
  <2>3. s # None
    BY Ranges
  <2> QED
    BY <1>3, <2>1, <2>2, <2>3 DEF Held
<1> QED
  BY <1>1, <1>2, <1>4, SameSblks DEF Base, g

LEMMA IputAgree ==
  ASSUME NEW f, NEW a \in Slot, NEW b, Base(f, a, b), Agree(f, a, b)
  PROVE  Agree(Iput(f, a), None, b)
<1> DEFINE g == Iput(f, a)
<1>1. /\ f \in Systems /\ HostsOK(f) /\ UsedOK(f) /\ RowsOK(f) /\ OnceOK(f) /\ DiskOK(f, a, b)
      /\ f.table \in [Slot -> Row]
  BY DEF Base, Agree, Systems
<1>2. f.table[a].cnt > 0 /\ f.table[a].cnt \in Nat /\ f.table[a].dev \in Dev
        /\ f.table[a].num \in Ind /\ f.table[a].nlinks > 0 /\ f.table[a].nlinks \in Nat
  <2>1. f.table[a].cnt > 0 /\ f.table[a] \in Row
    BY <1>1, HeldIsCounted
  <2>2. f.table[a].dev \in Dev /\ f.table[a].dev # None
    BY <1>1, <2>1, Ranges DEF UsedOK
  <2> QED
    BY <1>1, <2>1, <2>2 DEF RowsOK, Row
<1>3. f.table[a].nlinks # 0
  BY <1>2
<1>4. /\ g \in Systems /\ g.sb = f.sb /\ g.tree = f.tree /\ g.nlinks = Written(f, a)
      /\ g.table = [f.table EXCEPT ![a] = RowAfterIput(f.table[a])]
  BY <1>3, IputEffect DEF IputTo
<1> HIDE DEF g
<1>5. /\ g.table[a].cnt = f.table[a].cnt - 1
      /\ g.table[a].dirt <=> (f.table[a].cnt > 1 /\ f.table[a].dirt)
      /\ g.table[a].dev = f.table[a].dev /\ g.table[a].num = f.table[a].num
      /\ g.table[a].mounted = f.table[a].mounted /\ g.table[a].nlinks = f.table[a].nlinks
      /\ \A s \in Slot : s # a => g.table[s] = f.table[s]
  <2> DEFINE r == f.table[a]
  <2>1. r \in Row /\ g.table[a] = RowAfterIput(r) /\ \A s \in Slot : s # a => g.table[s] = f.table[s]
    BY <1>1, <1>4
  <2> HIDE DEF r
  <2>2. /\ RowAfterIput(r).cnt = r.cnt - 1
        /\ RowAfterIput(r).dev = r.dev /\ RowAfterIput(r).num = r.num
        /\ RowAfterIput(r).mounted = r.mounted /\ RowAfterIput(r).nlinks = r.nlinks
    BY <2>1 DEF RowAfterIput, Row
  <2>3. RowAfterIput(r).dirt = (r.cnt > 1 /\ r.dirt)
    BY <2>1 DEF RowAfterIput, Row
  <2>4. g.table[a].dirt <=> (r.cnt > 1 /\ r.dirt)
    BY <2>1, <2>3, Zenon
  <2> QED
    BY <2>1, <2>2, <2>4 DEF r
<1>6. \A s \in Slot :
        /\ g.table[s].dev = f.table[s].dev /\ g.table[s].num = f.table[s].num
        /\ g.table[s].mounted = f.table[s].mounted /\ g.table[s].nlinks = f.table[s].nlinks
  BY <1>5
<1>7. HostsOK(g)
  BY <1>1, <1>4, <1>6, SameSblks DEF HostsOK
<1>8. UsedOK(g)
  <2> SUFFICES ASSUME NEW s \in Slot
               PROVE  /\ g.table[s].cnt > 0 => g.table[s].dev \in Dev /\ Known(g, g.table[s].dev)
                      /\ g.table[s].dirt => g.table[s].cnt > 0
    BY DEF UsedOK
  <2>1. g.table[s].cnt > 0 => f.table[s].cnt > 0
    BY <1>2, <1>5
  <2>2. g.table[s].dirt => g.table[s].cnt > 0
    BY <1>1, <1>2, <1>5 DEF UsedOK
  <2>3. f.table[s].cnt > 0 => f.table[s].dev \in Dev /\ Known(f, f.table[s].dev)
    BY <1>1 DEF UsedOK
  <2> QED
    BY <1>4, <1>6, <2>1, <2>2, <2>3, SameSblks
<1>9. RowsOK(g)
  BY <1>1, <1>4, <1>6, SMTT(60) DEF RowsOK, LinksIn
<1>10. OnceOK(g)
  BY <1>1, <1>6 DEF OnceOK
<1>11. DiskOK(g, None, b)
  <2> SUFFICES ASSUME NEW d \in Dev
               PROVE  /\ IsTree(g.tree[d])
                      /\ \A i \in Ind :
                           /\ g.nlinks[d][i] > 0
                           /\ i # ROOT_IND_NR /\ g.tree[d][i] # None =>
                                g.nlinks[d][i] = LinksIn(g, d, i) \/ Changed(g, b, d, i)
    BY DEF DiskOK
  <2>1. IsTree(g.tree[d])
    BY <1>1, <1>4 DEF DiskOK
  <2> SUFFICES ASSUME NEW i \in Ind
               PROVE  /\ g.nlinks[d][i] > 0
                      /\ i # ROOT_IND_NR /\ g.tree[d][i] # None =>
                                g.nlinks[d][i] = LinksIn(g, d, i) \/ Changed(g, b, d, i)
    BY <2>1
  <2> DEFINE writes == f.table[a].cnt = 1 /\ f.table[a].dirt
             here == f.table[a].dev = d /\ f.table[a].num = i
  <2>2. f.nlinks \in [Dev -> [Ind -> Nat]]
    BY <1>1 DEF Systems
  <2>3. g.nlinks[d][i] = IF writes /\ here THEN f.table[a].nlinks ELSE f.nlinks[d][i]
    BY <1>2, <1>4, <2>2, SMTT(60) DEF Written
  <2>4. f.nlinks[d][i] > 0
    BY <1>1 DEF DiskOK
  <2>5. g.nlinks[d][i] > 0
    BY <1>2, <2>3, <2>4
  <2>6. LinksIn(g, d, i) = LinksIn(f, d, i) /\ g.tree = f.tree
    BY <1>4 DEF LinksIn
  <2>7. ASSUME i # ROOT_IND_NR, f.tree[d][i] # None
        PROVE  g.nlinks[d][i] = LinksIn(f, d, i) \/ Changed(g, b, d, i)
    <3>1. CASE writes /\ here
      <4>1. f.table[a].nlinks = LinksIn(f, d, i)
        BY <1>1, <2>7, <3>1, Ranges DEF RowsOK
      <4> QED
        BY <2>3, <3>1, <4>1
    <3>2. CASE ~(writes /\ here)
      <4>1. g.nlinks[d][i] = f.nlinks[d][i]
        BY <2>3, <3>2
      <4>2. f.nlinks[d][i] = LinksIn(f, d, i) \/ Changed(f, a, d, i) \/ Changed(f, b, d, i)
        BY <1>1, <2>7 DEF DiskOK
      <4>3. ASSUME Changed(f, a, d, i) PROVE a = b /\ Changed(g, b, d, i)
        <5>1. here /\ f.table[a].dirt /\ ~f.table[a].mounted /\ f.table[a].cnt # 1
          BY <3>2, <4>3 DEF Changed
        <5>2. ~Hosts(f, a)
          BY <1>1, <5>1 DEF HostsOK
        <5>3. a = b
          BY <5>1, <5>2, HeldIsCounted
        <5> QED
          BY <1>2, <1>5, <5>1, <5>3 DEF Changed
      <4>4. ASSUME Changed(f, b, d, i), a # b PROVE Changed(g, b, d, i)
        BY <1>5, <4>4 DEF Changed
      <4> QED
        BY <4>1, <4>2, <4>3, <4>4
    <3> QED
      BY <3>1, <3>2
  <2> QED
    BY <2>5, <2>6, <2>7
<1> QED
  BY <1>7, <1>8, <1>9, <1>10, <1>11 DEF Agree, g
-----------------------------------------------------------------------------
(***************************************************************************)
(* iget(): what it needs, and what it gives.                               *)
(***************************************************************************)
LEMMA Swap ==
  ASSUME NEW f, NEW a, NEW b
  PROVE  (Base(f, a, b) => Base(f, b, a)) /\ (Agree(f, a, b) => Agree(f, b, a))
<1>1. \A s : Held(s, a, b) = Held(s, b, a)
  BY DEF Held
<1>2. CountsOK(f, a, b) => CountsOK(f, b, a)
  BY <1>1 DEF CountsOK
<1>3. DiskOK(f, a, b) => DiskOK(f, b, a)
  BY DEF DiskOK
<1> QED
  BY <1>2, <1>3 DEF Base, Agree

LEMMA HaltBase ==
  ASSUME NEW f, NEW a, NEW b, Base(f, a, b), NEW why \in Stops
  PROVE  /\ Base(Halt(f, why).f, a, b) /\ Halt(f, why).s = None
         /\ Halt(f, why).f.halt = why /\ Halt(f, why).f.table = f.table
         /\ Halt(f, why).f.sb = f.sb /\ Halt(f, why).f.tree = f.tree
         /\ Halt(f, why).f.nlinks = f.nlinks /\ Halt(f, why).f.pins = f.pins
<1> DEFINE g == [f EXCEPT !.halt = why]
<1>1. f \in Systems
  BY DEF Base
<1>2. g \in Systems /\ g.table = f.table /\ g.sb = f.sb /\ g.tree = f.tree
        /\ g.nlinks = f.nlinks /\ g.pins = f.pins /\ g.halt = why
  BY <1>1 DEF Systems
<1>3. Halt(f, why).f = g /\ Halt(f, why).s = None
  BY DEF Halt
<1> HIDE DEF g
<1>4. CountsOK(g, a, b)
  BY <1>2, SameSblks DEF CountsOK, Base
<1>5. SblksOK(g) /\ PinsOK(g)
  BY <1>2, SameSblks DEF Base
<1> QED
  BY <1>2, <1>3, <1>4, <1>5 DEF Base

LEMMA GetSblkUnknown ==
  ASSUME NEW f, NEW a, NEW b, Base(f, a, b), NEW d \in Dev, ~Known(f, d)
  PROVE  /\ Base(GetSblk(f, d).f, a, b) /\ SameBut(f, GetSblk(f, d).f)
         /\ GetSblk(f, d).b = None \/ ~GetSblk(f, d).f.sb[GetSblk(f, d).b].maps
<1>1. CASE SblksOf(f, d) # {}
  <2> DEFINE m == Min(SblksOf(f, d))
  <2>1. m \in SblksOf(f, d)
    BY <1>1, MinSblk DEF SblksOf
  <2>2. m \in Sblk /\ f.sb[m].dev = d
    BY <2>1 DEF SblksOf
  <2>3. GetSblk(f, d).f = f /\ GetSblk(f, d).b = m
    BY <1>1 DEF GetSblk
  <2> QED
    BY <2>2, <2>3 DEF Known, SameBut
<1>2. CASE SblksOf(f, d) = {}
  <2> DEFINE free == SblksOf(f, None)
  <2>1. GetSblk(f, d) = ReadSblk(f, d, free)
    BY <1>2 DEF GetSblk
  <2>2. CASE free = {}
    BY <2>1, <2>2 DEF ReadSblk, SameBut
  <2>3. CASE free # {}
    <3> DEFINE m == Min(free)
    <3>1. m \in free
      BY <2>3, MinSblk DEF SblksOf
    <3>2. m \in Sblk /\ f.sb[m].dev = None
      BY <3>1 DEF SblksOf
    <3> HIDE DEF m
    <3> DEFINE g == [f EXCEPT !.sb[m] = SblkAfterRead(d)]
    <3>3. GetSblk(f, d).f = g /\ GetSblk(f, d).b = m
      BY <2>1, <2>3 DEF ReadSblk, m
    <3>4. \A c \in Sblk : f.sb[c].dev # d
      BY <1>2 DEF SblksOf
    <3>5. SblkAdded(f, g, a, b, d, m)
      BY <3>2, <3>4, ReadSblkEffect
    <3> HIDE DEF g
    <3>6. /\ SameBut(f, g) /\ Base(g, a, b)
          /\ g.sb[m] = [dev |-> d, host |-> None, maps |-> FALSE]
      BY <3>5 DEF SblkAdded
    <3> QED
      BY <3>3, <3>6
  <2> QED
    BY <2>2, <2>3
<1> QED
  BY <1>1, <1>2

Seated(d, i, n, dirt) ==
  [dev |-> d, num |-> i, cnt |-> 1, dirt |-> dirt, mounted |-> FALSE, nlinks |-> n]

OccupyTo(f, d, i, n, dirt, g, v) ==
  /\ v \in Slot /\ f.table[v].cnt = 0 /\ ~f.table[v].dirt
  /\ g \in Systems /\ g.table = [f.table EXCEPT ![v] = Seated(d, i, n, dirt)]
  /\ g.sb = f.sb /\ g.tree = f.tree /\ g.nlinks = f.nlinks /\ g.pins = f.pins
  /\ g.halt = f.halt

LEMMA OccupyEffect ==
  ASSUME NEW f \in Systems, NEW d \in Dev, NEW i \in Ind, NEW n \in Nat, NEW dirt \in BOOLEAN
  PROVE  \/ Occupy(f, d, i, n, dirt) = Halt(f, "hang")
         \/ OccupyTo(f, d, i, n, dirt, Occupy(f, d, i, n, dirt).f, Occupy(f, d, i, n, dirt).s)
<1>1. CASE Vacant(f) = {}
  BY <1>1 DEF Occupy
<1>2. CASE Vacant(f) # {}
  <2> DEFINE v == Min(Vacant(f))
  <2>1. v \in Vacant(f)
    BY <1>2, MinSlot DEF Vacant
  <2>2. v \in Slot /\ f.table[v].cnt = 0 /\ ~f.table[v].dirt
    BY <2>1 DEF Vacant
  <2> HIDE DEF v
  <2> DEFINE r == Seated(d, i, n, dirt)
             g == [f EXCEPT !.table[v] = r]
  <2>3. Occupy(f, d, i, n, dirt).f = g /\ Occupy(f, d, i, n, dirt).s = v
    BY <1>2 DEF Occupy, v, Seated
  <2>4. r \in Row
    BY DEF Row, Seated
  <2> HIDE DEF r
  <2>5. g \in Systems /\ g.table = [f.table EXCEPT ![v] = r] /\ g.sb = f.sb /\ g.tree = f.tree
          /\ g.nlinks = f.nlinks /\ g.pins = f.pins /\ g.halt = f.halt
    BY <2>2, <2>4 DEF Systems
  <2> HIDE DEF g
  <2> QED
    BY <2>2, <2>3, <2>5 DEF OccupyTo, r
<1> QED
  BY <1>1, <1>2
LEMMA OccupyBase ==
  ASSUME NEW f, NEW a, Base(f, a, None), NEW d \in Dev, NEW i \in Ind, NEW n \in Nat,
         NEW dirt \in BOOLEAN, NEW g, NEW v, OccupyTo(f, d, i, n, dirt, g, v)
  PROVE  /\ Base(g, a, v) /\ v # a /\ ~Hosts(f, v)
         /\ g.table[v] = Seated(d, i, n, dirt)
         /\ \A s \in Slot : s # v => g.table[s] = f.table[s]
<1>1. /\ f \in Systems /\ SblksOK(f) /\ PinsOK(f) /\ CountsOK(f, a, None)
      /\ f.table \in [Slot -> Row]
  BY DEF Base, Systems
<1>2. /\ v \in Slot /\ f.table[v].cnt = 0 /\ g \in Systems /\ g.sb = f.sb /\ g.pins = f.pins
      /\ g.table = [f.table EXCEPT ![v] = Seated(d, i, n, dirt)]
  BY DEF OccupyTo
<1>3. g.table[v] = Seated(d, i, n, dirt) /\ \A s \in Slot : s # v => g.table[s] = f.table[s]
  BY <1>1, <1>2
<1>4. f.table[v].cnt = (IF Hosts(f, v) THEN 1 ELSE 0) + Held(v, a, None)
  BY <1>1, <1>2 DEF CountsOK
<1>5. v # a /\ ~Hosts(f, v) /\ v # None
  BY <1>2, <1>4, Ranges DEF Held
<1>6. CountsOK(g, a, v)
  <2> SUFFICES ASSUME NEW s \in Slot
               PROVE  g.table[s].cnt = (IF Hosts(g, s) THEN 1 ELSE 0) + Held(s, a, v)
    BY DEF CountsOK
  <2>1. Hosts(g, s) <=> Hosts(f, s)
    BY <1>2, SameSblks
  <2>2. f.table[s].cnt = (IF Hosts(f, s) THEN 1 ELSE 0) + Held(s, a, None)
    BY <1>1 DEF CountsOK
  <2>3. s # None
    BY Ranges
  <2>4. CASE s = v
    <3>1. g.table[s].cnt = 1
      BY <1>3, <2>4 DEF Seated
    <3> QED
      BY <1>5, <2>1, <2>4, <3>1 DEF Held
  <2>5. CASE s # v
    BY <1>3, <2>1, <2>2, <2>3, <2>5 DEF Held
  <2> QED
    BY <2>4, <2>5
<1> QED
  BY <1>1, <1>2, <1>3, <1>5, <1>6, SameSblks DEF Base

(***************************************************************************)
(* An inode is read that is not in the table, or the root of a device.     *)
(***************************************************************************)
LEMMA ReadAgree ==
  ASSUME NEW f, NEW a, Base(f, a, None), Agree(f, a, None), NEW d \in Dev, NEW i \in Ind,
         Known(f, d), f.tree[d][i] # None, i = ROOT_IND_NR \/ Cached(f, d, i) = {},
         NEW g, NEW v, OccupyTo(f, d, i, f.nlinks[d][i], FALSE, g, v)
  PROVE  Agree(g, a, v)
<1>1. /\ f \in Systems /\ f.table \in [Slot -> Row] /\ f.nlinks \in [Dev -> [Ind -> Nat]]
      /\ HostsOK(f) /\ UsedOK(f) /\ RowsOK(f) /\ OnceOK(f) /\ DiskOK(f, a, None)
  BY DEF Base, Agree, Systems
<1> DEFINE n == f.nlinks[d][i]
<1>2. n \in Nat /\ n > 0
  BY <1>1 DEF DiskOK
<1>3. /\ v \in Slot /\ g.sb = f.sb /\ g.tree = f.tree /\ g.nlinks = f.nlinks
      /\ f.table[v].cnt = 0 /\ ~f.table[v].dirt
  BY DEF OccupyTo
<1> DEFINE clean == FALSE
<1>14. OccupyTo(f, d, i, n, clean, g, v) /\ clean \in BOOLEAN
  OBVIOUS
<1> HIDE DEF n, clean
<1>4. /\ v # a /\ ~Hosts(f, v) /\ g.table[v] = Seated(d, i, n, clean)
      /\ \A s \in Slot : s # v => g.table[s] = f.table[s]
  BY <1>2, <1>14, OccupyBase
<1>5. /\ g.table[v].dev = d /\ g.table[v].num = i /\ g.table[v].cnt = 1 /\ ~g.table[v].dirt
      /\ ~g.table[v].mounted /\ g.table[v].nlinks = n
  BY <1>4 DEF Seated, clean
<1>6. /\ \A s : Hosts(g, s) <=> Hosts(f, s)
      /\ \A e : Known(g, e) <=> Known(f, e)
  BY <1>3, SameSblks
<1>7. HostsOK(g)
  BY <1>1, <1>4, <1>5, <1>6 DEF HostsOK
<1>8. UsedOK(g)
  BY <1>1, <1>4, <1>5, <1>6 DEF UsedOK
<1>9. i # ROOT_IND_NR => n = LinksIn(f, d, i)
  <2> SUFFICES ASSUME i # ROOT_IND_NR PROVE n = LinksIn(f, d, i)
    OBVIOUS
  <2>1. n = LinksIn(f, d, i) \/ Changed(f, a, d, i) \/ Changed(f, None, d, i)
    BY <1>1 DEF DiskOK, n
  <2>2. ~Changed(f, None, d, i)
    BY Ranges DEF Changed
  <2>3. ~Changed(f, a, d, i)
    BY DEF Changed, Cached
  <2> QED
    BY <2>1, <2>2, <2>3
<1>10. \A e, j : LinksIn(g, e, j) = LinksIn(f, e, j)
  BY <1>3 DEF LinksIn
<1>11. RowsOK(g)
  <2> SUFFICES ASSUME NEW s \in Slot, g.table[s].dev # None
               PROVE  /\ g.table[s].num # None /\ g.tree[g.table[s].dev][g.table[s].num] # None
                      /\ g.table[s].nlinks > 0
                      /\ g.table[s].num # ROOT_IND_NR =>
                           g.table[s].nlinks = LinksIn(g, g.table[s].dev, g.table[s].num)
    BY DEF RowsOK
  <2>1. CASE s = v
    BY <1>2, <1>3, <1>5, <1>9, <1>10, <2>1, Ranges
  <2>2. CASE s # v
    BY <1>1, <1>3, <1>4, <1>10, <2>2, SMTT(60) DEF RowsOK
  <2> QED
    BY <2>1, <2>2
<1>12. OnceOK(g)
  <2> SUFFICES ASSUME NEW s \in Slot, NEW t \in Slot, g.table[s].dev # None,
                      g.table[s].dev = g.table[t].dev, g.table[s].num = g.table[t].num,
                      g.table[s].num # ROOT_IND_NR
               PROVE  s = t
    BY DEF OnceOK
  <2>1. CASE s = v /\ t # v
    <3>1. t \in Cached(f, d, i) /\ i # ROOT_IND_NR
      BY <1>4, <1>5, <2>1 DEF Cached
    <3> QED
      BY <3>1
  <2>2. CASE s # v /\ t = v
    <3>1. s \in Cached(f, d, i) /\ i # ROOT_IND_NR
      BY <1>4, <1>5, <2>2 DEF Cached
    <3> QED
      BY <3>1
  <2>3. CASE s # v /\ t # v
    BY <1>1, <1>4, <2>3 DEF OnceOK
  <2> QED
    BY <2>1, <2>2, <2>3
<1>13. DiskOK(g, a, v)
  <2>1. \A e, j : Changed(f, a, e, j) => Changed(g, a, e, j)
    BY <1>4 DEF Changed
  <2>2. \A e, j : ~Changed(f, None, e, j)
    BY Ranges DEF Changed
  <2> QED
    BY <1>1, <1>3, <1>10, <2>1, <2>2 DEF DiskOK
<1> QED
  BY <1>7, <1>8, <1>11, <1>12, <1>13 DEF Agree
(***************************************************************************)
(* One more user of a slot.                                                *)
(***************************************************************************)
RowAfterHold(r) == [r EXCEPT !.cnt = @ + 1]

HoldTo(f, s, h) ==
  /\ h \in Systems /\ h.table = [f.table EXCEPT ![s] = RowAfterHold(f.table[s])]
  /\ h.sb = f.sb /\ h.tree = f.tree /\ h.nlinks = f.nlinks /\ h.pins = f.pins
  /\ h.halt = f.halt

LEMMA HoldEffect ==
  ASSUME NEW f \in Systems, NEW s \in Slot
  PROVE  HoldTo(f, s, [f EXCEPT !.table[s].cnt = @ + 1])
<1> DEFINE h == [f EXCEPT !.table[s].cnt = @ + 1]
           r == RowAfterHold(f.table[s])
<1> SUFFICES HoldTo(f, s, h)
  OBVIOUS
<1>1. r \in Row
  <2>1. f.table[s] \in Row
    BY DEF Systems
  <2> QED
    BY <2>1 DEF Row, RowAfterHold
<1>2. h.table = [f.table EXCEPT ![s] = r] /\ h.sb = f.sb /\ h.tree = f.tree
        /\ h.nlinks = f.nlinks /\ h.pins = f.pins /\ h.halt = f.halt
  BY DEF Systems, RowAfterHold
<1> HIDE DEF r
<1>3. h.table \in [Slot -> Row]
  BY <1>1, <1>2 DEF Systems
<1>4. h \in Systems
  BY <1>2, <1>3 DEF Systems
<1> HIDE DEF h
<1> QED
  BY <1>2, <1>4 DEF HoldTo, r

LEMMA HoldRows ==
  ASSUME NEW f \in Systems, NEW s \in Slot, NEW h, HoldTo(f, s, h)
  PROVE  /\ h.table[s].cnt = f.table[s].cnt + 1 /\ f.table[s].cnt \in Nat
         /\ \A t \in Slot : t # s => h.table[t] = f.table[t]
         /\ \A t \in Slot :
              /\ h.table[t].dev = f.table[t].dev /\ h.table[t].num = f.table[t].num
              /\ h.table[t].mounted = f.table[t].mounted /\ h.table[t].dirt = f.table[t].dirt
              /\ h.table[t].nlinks = f.table[t].nlinks
<1>1. f.table \in [Slot -> Row] /\ h.table = [f.table EXCEPT ![s] = RowAfterHold(f.table[s])]
  BY DEF Systems, HoldTo
<1> QED
  BY <1>1 DEF RowAfterHold, Row

LEMMA HoldBase ==
  ASSUME NEW f, NEW a, Base(f, a, None), NEW s \in Slot, NEW h, HoldTo(f, s, h)
  PROVE  Base(h, a, s)
<1>1. f \in Systems /\ SblksOK(f) /\ PinsOK(f) /\ CountsOK(f, a, None)
  BY DEF Base
<1>2. h \in Systems /\ h.sb = f.sb /\ h.pins = f.pins
  BY DEF HoldTo
<1>3. CountsOK(h, a, s)
  <2> SUFFICES ASSUME NEW t \in Slot
               PROVE  h.table[t].cnt = (IF Hosts(h, t) THEN 1 ELSE 0) + Held(t, a, s)
    BY DEF CountsOK
  <2>1. Hosts(h, t) <=> Hosts(f, t)
    BY <1>2, SameSblks
  <2>2. f.table[t].cnt = (IF Hosts(f, t) THEN 1 ELSE 0) + Held(t, a, None)
    BY <1>1 DEF CountsOK
  <2>3. t # None
    BY Ranges
  <2>4. h.table[t].cnt = f.table[t].cnt + (IF t = s THEN 1 ELSE 0)
    <3>1. t # s => h.table[t] = f.table[t]
      BY <1>1, HoldRows
    <3>2. h.table[s].cnt = f.table[s].cnt + 1
      BY <1>1, HoldRows
    <3> QED
      BY <2>2, <3>1, <3>2 DEF Held
  <2> QED
    BY <2>1, <2>2, <2>3, <2>4 DEF Held
<1> QED
  BY <1>1, <1>2, <1>3, SameSblks DEF Base

LEMMA HoldAgree ==
  ASSUME NEW f, NEW a, Base(f, a, None), Agree(f, a, None), NEW s \in Slot, NEW h,
         HoldTo(f, s, h), f.table[s].dev \in Dev, Known(f, f.table[s].dev)
  PROVE  Agree(h, a, s)
<1>1. /\ f \in Systems /\ f.table \in [Slot -> Row]
      /\ HostsOK(f) /\ UsedOK(f) /\ RowsOK(f) /\ OnceOK(f) /\ DiskOK(f, a, None)
  BY DEF Base, Agree, Systems
<1>2. h.sb = f.sb /\ h.tree = f.tree /\ h.nlinks = f.nlinks
  BY DEF HoldTo
<1>3. /\ h.table[s].cnt = f.table[s].cnt + 1 /\ f.table[s].cnt \in Nat
      /\ \A t \in Slot : t # s => h.table[t] = f.table[t]
  BY <1>1, HoldRows
<1>4. \A t \in Slot :
        /\ h.table[t].dev = f.table[t].dev /\ h.table[t].num = f.table[t].num
        /\ h.table[t].mounted = f.table[t].mounted /\ h.table[t].dirt = f.table[t].dirt
        /\ h.table[t].nlinks = f.table[t].nlinks
  BY <1>1, HoldRows
<1>5. /\ \A t : Hosts(h, t) <=> Hosts(f, t)
      /\ \A e : Known(h, e) <=> Known(f, e)
      /\ \A e, j : LinksIn(h, e, j) = LinksIn(f, e, j)
  BY <1>2, SameSblks DEF LinksIn
<1>6. HostsOK(h)
  BY <1>1, <1>4, <1>5 DEF HostsOK
<1>7. UsedOK(h)
  BY <1>1, <1>3, <1>4, <1>5 DEF UsedOK
<1>8. RowsOK(h)
  BY <1>1, <1>2, <1>4, <1>5, SMTT(60) DEF RowsOK
<1>9. OnceOK(h)
  BY <1>1, <1>4 DEF OnceOK
<1>10. DiskOK(h, a, s)
  <2>1. \A e, j : Changed(f, a, e, j) => Changed(h, a, e, j)
    BY <1>4 DEF Changed
  <2>2. \A e, j : ~Changed(f, None, e, j)
    BY Ranges DEF Changed
  <2> QED
    BY <1>1, <1>2, <1>5, <2>1, <2>2 DEF DiskOK
<1> QED
  BY <1>6, <1>7, <1>8, <1>9, <1>10 DEF Agree

(***************************************************************************)
(* A mount point is taken and given back.                                  *)
(***************************************************************************)
LEMMA HoldAndPut ==
  ASSUME NEW f, NEW a, Base(f, a, None), NEW s \in Slot, Hosts(f, s), f.table[s].nlinks # 0,
         NEW h, HoldTo(f, s, h)
  PROVE  Iput(h, s) = f
<1> DEFINE g == Iput(h, s)
<1>1. f \in Systems /\ f.table \in [Slot -> Row] /\ f.table[s] \in Row
  BY DEF Base, Systems
<1>2. /\ h \in Systems /\ h.table = [f.table EXCEPT ![s] = RowAfterHold(f.table[s])]
      /\ h.sb = f.sb /\ h.tree = f.tree /\ h.nlinks = f.nlinks /\ h.pins = f.pins
      /\ h.halt = f.halt
  BY DEF HoldTo
<1>3. Base(h, s, a)
  BY HoldBase, Swap
<1>4. h.table[s] = RowAfterHold(f.table[s]) /\ h.table[s].nlinks # 0
  BY <1>1, <1>2 DEF RowAfterHold, Row
<1>5. IputTo(h, s, g)
  BY <1>3, <1>4, IputEffect
<1> HIDE DEF g
<1>6. Hosts(h, s)
  BY <1>2, SameSblks
<1>7. h.table[s].cnt > 1
  BY <1>3, <1>6, HeldIsCounted
<1>8. g.nlinks = f.nlinks
  BY <1>2, <1>5, <1>7, SMTT(60) DEF IputTo, Written
<1>9. RowAfterIput(h.table[s]) = f.table[s]
  <2> DEFINE r == f.table[s]
             q == RowAfterHold(r)
  <2>1. q.cnt = r.cnt + 1 /\ q.dirt = r.dirt /\ q \in Row /\ r \in Row /\ r.cnt \in Nat
    BY <1>1 DEF RowAfterHold, Row
  <2>2. q.cnt > 1
    BY <1>4, <1>7
  <2>3. (q.cnt > 1 /\ q.dirt) = r.dirt
    <3>1. (q.cnt > 1 /\ q.dirt) <=> r.dirt
      BY <2>1, <2>2
    <3>2. r.dirt \in BOOLEAN
      BY <2>1 DEF Row
    <3> HIDE DEF q, r
    <3> QED
      BY <3>1, <3>2, Zenon
  <2>4. RowAfterIput(q) = r
    <3>1. q.cnt - 1 = r.cnt
      BY <2>1
    <3>2. RowAfterIput(q) = [q EXCEPT !.cnt = r.cnt, !.dirt = r.dirt]
      BY <2>3, <3>1 DEF RowAfterIput
    <3> DEFINE n == r.cnt + 1
    <3>3. q = [r EXCEPT !.cnt = n]
      BY DEF RowAfterHold
    <3>4. r \in Row
      BY <2>1
    <3> HIDE DEF n, q, r
    <3>5. [q EXCEPT !.cnt = r.cnt, !.dirt = r.dirt] = r
      BY <3>3, <3>4 DEF Row
    <3> QED
      BY <3>2, <3>5
  <2> QED
    BY <1>4, <2>4
<1>10. g.table = f.table
  BY <1>1, <1>2, <1>5, <1>9 DEF IputTo
<1>11. g = f
  <2>1. g \in Systems
    BY <1>5 DEF IputTo
  <2>2. g.sb = f.sb /\ g.tree = f.tree /\ g.pins = f.pins /\ g.halt = f.halt
    BY <1>2, <1>5 DEF IputTo
  <2> QED
    BY <1>1, <1>8, <1>10, <2>1, <2>2 DEF Systems
<1> QED
  BY <1>11 DEF g
(***************************************************************************)
(* What iget(x) gives while the slot a is held: nothing when there is no   *)
(* such inode, and otherwise a slot of x or, when a device is mounted on   *)
(* x, of the root of that device.  Or the file system stops.               *)
(***************************************************************************)
Enters(f, x, y) ==
  \/ \E b \in Sblk : /\ f.sb[b].host # None /\ At(f, f.sb[b].host) = x
                     /\ y = [dev |-> f.sb[b].dev, num |-> ROOT_IND_NR]
  \/ /\ \A b \in Sblk : f.sb[b].host # None => At(f, f.sb[b].host) # x
     /\ y = x

Kept(f, g) ==
  \A t \in Slot :
    f.table[t].cnt > 0 => /\ g.table[t].dev = f.table[t].dev
                          /\ g.table[t].num = f.table[t].num
                          /\ g.table[t].mounted = f.table[t].mounted

Runs(f) == f.halt = "no"

IsWay(w) == w = [f |-> w.f, s |-> w.s]

Taken(f, a, w) ==
  /\ IsWay(w)
  /\ Base(w.f, a, w.s) /\ w.s \in Slot \cup {None}
  /\ w.f.tree = f.tree /\ w.f.pins = f.pins /\ Kept(f, w.f)
  /\ w.f.halt \in {"no", "hang", "maps"} /\ (~Runs(w.f) => w.s = None)
  /\ Runs(w.f) => w.f.sb = f.sb /\ Agree(w.f, a, w.s)
  /\ Runs(w.f) /\ w.s # None =>
       ~w.f.table[w.s].mounted /\ (w.f.table[w.s].dirt => w.s = a)

IgetTo(f, a, x, w) ==
  /\ Taken(f, a, w)
  /\ Runs(w.f) => Known(f, x.dev) /\ (w.s = None <=> f.tree[x.dev][x.num] = None)
  /\ Runs(w.f) /\ w.s # None => Enters(f, x, At(w.f, w.s))
  /\ ~Runs(w.f) => w.f.table = f.table

LEMMA HaltTaken ==
  ASSUME NEW f, NEW a, NEW e, Base(e, a, None), e.tree = f.tree, e.pins = f.pins,
         e.table = f.table, NEW why \in {"hang", "maps"}
  PROVE  /\ Taken(f, a, Halt(e, why)) /\ ~Runs(Halt(e, why).f) /\ Halt(e, why).s = None
         /\ Halt(e, why).f.table = f.table
<1>1. why \in Stops /\ why # "no"
  BY DEF Stops
<1> DEFINE w == Halt(e, why)
<1>2. /\ Base(w.f, a, None) /\ w.s = None /\ w.f.halt = why /\ w.f.table = e.table
      /\ w.f.tree = e.tree /\ w.f.pins = e.pins
  BY <1>1, HaltBase
<1>4. IsWay(w)
  BY DEF IsWay, Halt
<1> HIDE DEF w
<1>3. Taken(f, a, w) /\ ~Runs(w.f) /\ w.s = None /\ w.f.table = f.table
  BY <1>1, <1>2, <1>4 DEF Taken, Kept, Runs
<1> QED
  BY <1>3 DEF w

LEMMA ReadInodeGives ==
  ASSUME NEW f, NEW a, Base(f, a, None), Agree(f, a, None), Runs(f), NEW d \in Dev,
         NEW i \in Ind, Known(f, d), f.tree[d][i] # None,
         i = ROOT_IND_NR \/ Cached(f, d, i) = {}
  PROVE  LET w == ReadInode(f, d, i)
         IN  /\ Taken(f, a, w)
             /\ Runs(w.f) => w.s # None /\ At(w.f, w.s) = [dev |-> d, num |-> i]
             /\ ~Runs(w.f) => w.f.table = f.table
<1> DEFINE w == ReadInode(f, d, i)
           n == f.nlinks[d][i]
           clean == FALSE
           Goal == /\ Taken(f, a, w)
                   /\ Runs(w.f) => w.s # None /\ At(w.f, w.s) = [dev |-> d, num |-> i]
                   /\ ~Runs(w.f) => w.f.table = f.table
<1>1. f \in Systems /\ n \in Nat /\ clean \in BOOLEAN
  BY DEF Base, Systems
<1>2. w = Occupy(f, d, i, n, clean)
  BY DEF ReadInode
<1>3. clean = FALSE /\ n = f.nlinks[d][i]
  OBVIOUS
<1> HIDE DEF w, n, clean
<1>4. CASE w = Halt(f, "hang")
  <2>1. Taken(f, a, w) /\ ~Runs(w.f) /\ w.f.table = f.table
    BY <1>4, HaltTaken
  <2> QED
    BY <2>1 DEF w
<1>5. CASE OccupyTo(f, d, i, n, clean, w.f, w.s)
  <2>1. /\ Base(w.f, a, w.s) /\ w.s # a /\ w.f.table[w.s] = Seated(d, i, n, clean)
        /\ \A t \in Slot : t # w.s => w.f.table[t] = f.table[t]
    BY <1>1, <1>5, OccupyBase
  <2>2. OccupyTo(f, d, i, f.nlinks[d][i], FALSE, w.f, w.s)
    BY <1>3, <1>5
  <2>3. Agree(w.f, a, w.s)
    BY <2>2, ReadAgree
  <2>4. /\ w.s \in Slot /\ f.table[w.s].cnt = 0 /\ w.f.sb = f.sb /\ w.f.tree = f.tree
        /\ w.f.pins = f.pins /\ w.f.halt = f.halt
    BY <1>5 DEF OccupyTo
  <2>5. Kept(f, w.f)
    BY <2>1, <2>4 DEF Kept
  <2>6. ~w.f.table[w.s].mounted /\ At(w.f, w.s) = [dev |-> d, num |-> i]
    BY <2>1 DEF Seated, At
  <2>10. ~w.f.table[w.s].dirt
    BY <1>3, <2>1 DEF Seated
  <2>7. w.s # None
    BY <2>4, Ranges
  <2>9. IsWay(w)
    BY <1>2 DEF Occupy, Halt, IsWay
  <2>8. Taken(f, a, w)
    BY <2>1, <2>3, <2>4, <2>5, <2>6, <2>9, <2>10 DEF Taken, Runs
  <2>11. Runs(w.f)
    BY <2>4 DEF Runs
  <2> QED
    BY <2>6, <2>7, <2>8, <2>11 DEF w
<1> QED
  BY <1>1, <1>2, <1>4, <1>5, OccupyEffect
Places == [dev : Dev, num : Ind]

LEMMA PlaceIs ==
  ASSUME NEW x \in Places
  PROVE  x.dev \in Dev /\ x.num \in Ind /\ x = [dev |-> x.dev, num |-> x.num]
BY DEF Places

LEMMA HoldGives ==
  ASSUME NEW f, NEW a, Base(f, a, None), Agree(f, a, None), Runs(f), NEW x \in Places,
         Known(f, x.dev), f.tree[x.dev][x.num] # None, NEW s \in Cached(f, x.dev, x.num)
  PROVE  IgetTo(f, a, x, Hold(f, s))
<1>1. /\ f \in Systems /\ f.table \in [Slot -> Row] /\ f.sb \in [Sblk -> SblkRow]
      /\ SblksOK(f) /\ HostsOK(f) /\ RowsOK(f) /\ OnceOK(f) /\ DiskOK(f, a, None)
  BY DEF Base, Agree, Systems
<1>2. x.dev \in Dev /\ x.num \in Ind /\ x = [dev |-> x.dev, num |-> x.num]
  BY PlaceIs
<1>3. s \in Slot /\ f.table[s].dev = x.dev /\ f.table[s].num = x.num
  BY DEF Cached
<1>4. At(f, s) = x
  BY <1>2, <1>3 DEF At
<1> DEFINE h == [f EXCEPT !.table[s].cnt = @ + 1]
<1>5. HoldTo(f, s, h)
  BY <1>1, <1>3, HoldEffect
<1>6. Hold(f, s) = IF h.table[s].mounted /\ MountedOn(h, s) # {} THEN Cross(h, s)
                   ELSE [f |-> h, s |-> s]
  BY DEF Hold
<1> HIDE DEF h
<1>7. h.sb = f.sb /\ h.tree = f.tree /\ h.pins = f.pins /\ h.halt = f.halt
  BY <1>5 DEF HoldTo
<1>8. h.table[s].mounted = f.table[s].mounted
  BY <1>1, <1>3, <1>5, HoldRows
<1>9. MountedOn(h, s) # {} <=> Hosts(f, s)
  BY <1>3, <1>7, SameSblks, HostsAre
<1>10. f.table[s].mounted <=> Hosts(f, s)
  BY <1>1, <1>3 DEF HostsOK
<1>11. CASE Hosts(f, s)
  <2> DEFINE b == Min(MountedOn(h, s))
             d == f.sb[b].dev
             w == ReadInode(f, d, ROOT_IND_NR)
  <2>1. Hold(f, s) = Cross(h, s)
    BY <1>6, <1>8, <1>9, <1>10, <1>11
  <2>2. f.table[s].nlinks # 0
    <3>1. f.table[s] \in Row /\ f.table[s].dev # None
      BY <1>1, <1>2, <1>3, Ranges
    <3> QED
      BY <1>1, <1>3, <3>1 DEF RowsOK, Row
  <2>3. Iput(h, s) = f
    BY <1>3, <1>5, <1>11, <2>2, HoldAndPut
  <2>4. b \in Sblk /\ f.sb[b].host = s
    <3>1. b \in MountedOn(h, s)
      BY <1>9, <1>11, MinSblk DEF MountedOn
    <3> QED
      BY <1>7, <3>1 DEF MountedOn
  <2>5. Hold(f, s) = w
    BY <1>7, <2>1, <2>3 DEF Cross
  <2> HIDE DEF b
  <2>6. s # None
    BY <1>3, Ranges
  <2>7. d \in Dev /\ Known(f, d)
    <3>1. f.sb[b].dev # None /\ f.sb[b].maps /\ f.sb[b] \in SblkRow
      BY <1>1, <2>4, <2>6 DEF SblksOK
    <3> QED
      BY <2>4, <3>1 DEF Known, SblkRow
  <2>8. f.tree[d][ROOT_IND_NR] # None
    BY <1>1, <2>7, Ranges DEF DiskOK, IsTree
  <2>9. ROOT_IND_NR \in Ind
    BY Ranges
  <2>10. /\ Taken(f, a, w)
         /\ Runs(w.f) => w.s # None /\ At(w.f, w.s) = [dev |-> d, num |-> ROOT_IND_NR]
         /\ ~Runs(w.f) => w.f.table = f.table
    BY <2>7, <2>8, <2>9, ReadInodeGives
  <2>11. Runs(w.f) => Enters(f, x, At(w.f, w.s))
    BY <1>4, <2>4, <2>6, <2>10 DEF Enters
  <2> QED
    BY <2>5, <2>10, <2>11 DEF IgetTo
<1>12. CASE ~Hosts(f, s)
  <2> DEFINE w == [f |-> h, s |-> s]
  <2>1. Hold(f, s) = w
    BY <1>6, <1>8, <1>10, <1>12
  <2>2. w.f = h /\ w.s = s /\ IsWay(w)
    BY DEF IsWay
  <2> HIDE DEF w
  <2>3. Base(h, a, s)
    BY <1>3, <1>5, HoldBase
  <2>4. Agree(h, a, s)
    BY <1>2, <1>3, <1>5, HoldAgree
  <2>5. ~h.table[s].mounted
    BY <1>8, <1>10, <1>12
  <2>6. Kept(f, h)
    BY <1>1, <1>3, <1>5, HoldRows DEF Kept
  <2>7. s # None
    BY <1>3, Ranges
  <2>12. h.table[s].dirt => s = a
    <3>1. h.table[s].dirt = f.table[s].dirt
      BY <1>1, <1>3, <1>5, HoldRows
    <3>2. f.table[s].dirt => f.table[s].cnt > 0
      BY <1>3 DEF Agree, UsedOK
    <3>3. f.table[s].cnt > 0 => s = a
      BY <1>3, <1>12, <2>7 DEF Base, CountsOK, Held
    <3> QED
      BY <3>1, <3>2, <3>3
  <2>8. Taken(f, a, w)
    BY <1>3, <1>7, <2>2, <2>3, <2>4, <2>5, <2>6, <2>12 DEF Taken, Runs
  <2>9. At(h, s) = x
    <3>1. h.table[s].dev = f.table[s].dev /\ h.table[s].num = f.table[s].num
      BY <1>1, <1>3, <1>5, HoldRows
    <3> QED
      BY <1>2, <1>3, <3>1 DEF At
  <2>10. \A b \in Sblk : f.sb[b].host # None => At(f, f.sb[b].host) # x
    <3> SUFFICES ASSUME NEW b \in Sblk, f.sb[b].host # None, At(f, f.sb[b].host) = x
                 PROVE  FALSE
      OBVIOUS
    <3> DEFINE t == f.sb[b].host
    <3>1. t \in Slot /\ Hosts(f, t)
      BY <1>1 DEF SblkRow, Hosts
    <3>2. f.table[t].dev = x.dev /\ f.table[t].num = x.num
      BY <1>2 DEF At
    <3>3. f.table[t].num # ROOT_IND_NR
      BY <1>1, <3>1 DEF HostsOK
    <3>4. t = s
      BY <1>1, <1>2, <1>3, <3>1, <3>2, <3>3, Ranges DEF OnceOK
    <3> QED
      BY <1>12, <3>1, <3>4
  <2>11. Enters(f, x, At(h, s))
    BY <2>9, <2>10 DEF Enters
  <2>13. Runs(w.f)
    BY <1>7, <2>2 DEF Runs
  <2> QED
    BY <2>1, <2>2, <2>7, <2>8, <2>11, <2>13 DEF IgetTo
<1> QED
  BY <1>11, <1>12

LEMMA IgetGives ==
  ASSUME NEW f, NEW a, Base(f, a, None), Agree(f, a, None), Runs(f), NEW x \in Places
  PROVE  IgetTo(f, a, x, Iget(f, x))
<1>1. /\ f \in Systems /\ f.table \in [Slot -> Row] /\ f.sb \in [Sblk -> SblkRow] /\ SblksOK(f)
      /\ RowsOK(f) /\ HostsOK(f)
  BY DEF Base, Agree, Systems
<1>2. x.dev \in Dev /\ x.num \in Ind /\ x = [dev |-> x.dev, num |-> x.num]
  BY PlaceIs
<1> DEFINE g == GetSblk(f, x.dev)
<1>3. Iget(f, x) = IgetOn(g, x.dev, x.num)
  BY DEF Iget
<1>4. CASE ~Known(f, x.dev)
  <2>1. /\ Base(g.f, a, None) /\ SameBut(f, g.f)
        /\ g.b = None \/ ~g.f.sb[g.b].maps
    BY <1>2, <1>4, GetSblkUnknown
  <2> HIDE DEF g
  <2>2. Iget(f, x) = Halt(g.f, "maps")
    BY <1>3, <2>1 DEF IgetOn
  <2> DEFINE e == g.f
             w == Halt(e, "maps")
  <2>3. /\ Base(e, a, None) /\ e.tree = f.tree /\ e.pins = f.pins /\ e.table = f.table
    BY <2>1 DEF SameBut
  <2> HIDE DEF e
  <2>4. Taken(f, a, w) /\ ~Runs(w.f) /\ w.s = None /\ w.f.table = f.table
    BY <2>3, HaltTaken
  <2> QED
    BY <2>2, <2>4 DEF IgetTo, e
<1>5. CASE Known(f, x.dev)
  <2>1. g.f = f /\ g.b \in Sblk /\ f.sb[g.b].maps
    BY <1>1, <1>2, <1>5, GetSblkKnown
  <2> HIDE DEF g
  <2>2. g.b # None
    BY <2>1, Ranges
  <2>3. CASE f.tree[x.dev][x.num] = None
    <3> DEFINE w == [f |-> f, s |-> None]
    <3>1. Iget(f, x) = w
      BY <1>3, <2>1, <2>2, <2>3 DEF IgetOn
    <3>2. w.f = f /\ w.s = None /\ IsWay(w)
      BY DEF IsWay
    <3> HIDE DEF w
    <3>3. Taken(f, a, w)
      BY <3>2 DEF Taken, Kept, Runs
    <3> QED
      BY <1>5, <2>3, <3>1, <3>2, <3>3 DEF IgetTo
  <2>4. CASE f.tree[x.dev][x.num] # None /\ Cached(f, x.dev, x.num) = {}
    <3> DEFINE w == ReadInode(f, x.dev, x.num)
    <3>1. Iget(f, x) = w
      BY <1>3, <2>1, <2>2, <2>4 DEF IgetOn
    <3>2. /\ Taken(f, a, w)
          /\ Runs(w.f) => w.s # None /\ At(w.f, w.s) = [dev |-> x.dev, num |-> x.num]
          /\ ~Runs(w.f) => w.f.table = f.table
      BY <1>2, <1>5, <2>4, ReadInodeGives
    <3>3. \A b \in Sblk : f.sb[b].host # None => At(f, f.sb[b].host) # x
      <4> SUFFICES ASSUME NEW b \in Sblk, f.sb[b].host # None, At(f, f.sb[b].host) = x
                   PROVE  FALSE
        OBVIOUS
      <4>1. f.sb[b].host \in Slot
        BY <1>1 DEF SblkRow
      <4>2. f.sb[b].host \in Cached(f, x.dev, x.num)
        BY <4>1, <1>2 DEF Cached, At
      <4> QED
        BY <2>4, <4>2
    <3>4. Runs(w.f) => Enters(f, x, At(w.f, w.s))
      BY <1>2, <3>2, <3>3 DEF Enters
    <3> QED
      BY <1>5, <2>4, <3>1, <3>2, <3>4 DEF IgetTo
  <2>5. CASE f.tree[x.dev][x.num] # None /\ Cached(f, x.dev, x.num) # {}
    <3> DEFINE s == Min(Cached(f, x.dev, x.num))
    <3>1. s \in Cached(f, x.dev, x.num)
      BY <2>5, MinSlot DEF Cached
    <3>2. Iget(f, x) = Hold(f, s)
      BY <1>3, <2>1, <2>2, <2>5 DEF IgetOn
    <3> HIDE DEF s
    <3> QED
      BY <1>5, <2>5, <3>1, <3>2, HoldGives
  <2> QED
    BY <2>3, <2>4, <2>5
<1> QED
  BY <1>4, <1>5
-----------------------------------------------------------------------------
(***************************************************************************)
(* find_entry().                                                           *)
(***************************************************************************)
Alike(f, g) ==
  /\ g.sb = f.sb /\ g.tree = f.tree /\ g.pins = f.pins /\ g.halt = f.halt
  /\ \A t \in Slot : /\ g.table[t].dev = f.table[t].dev /\ g.table[t].num = f.table[t].num
                     /\ g.table[t].mounted = f.table[t].mounted

LEMMA HeldRow ==
  ASSUME NEW f, NEW a \in Slot, NEW b, Base(f, a, b), Agree(f, a, b)
  PROVE  /\ f.table[a] \in Row /\ f.table[a].dev \in Dev /\ f.table[a].num \in Ind
         /\ Known(f, f.table[a].dev) /\ f.tree[f.table[a].dev][f.table[a].num] # None
         /\ f.table[a].nlinks \in Nat /\ f.table[a].nlinks > 0 /\ At(f, a) \in Places
<1>1. f.table[a].cnt > 0 /\ f.table[a] \in Row
  BY HeldIsCounted DEF Base, Systems
<1>2. f.table[a].dev \in Dev /\ Known(f, f.table[a].dev) /\ f.table[a].dev # None
  BY <1>1, Ranges DEF Agree, UsedOK
<1>3. /\ f.table[a].num # None /\ f.tree[f.table[a].dev][f.table[a].num] # None
      /\ f.table[a].nlinks > 0
  BY <1>2 DEF Agree, RowsOK
<1> QED
  BY <1>1, <1>2, <1>3 DEF Row, At, Places

LEMMA PutBack ==
  ASSUME NEW f, NEW a \in Slot, NEW b, Base(f, a, b), Agree(f, a, b)
  PROVE  /\ Base(Iput(f, a), None, b) /\ Agree(Iput(f, a), None, b) /\ Alike(f, Iput(f, a))
<1>1. f.table[a].nlinks # 0 /\ f.table \in [Slot -> Row]
  BY HeldRow DEF Base, Systems
<1> DEFINE g == Iput(f, a)
<1>2. Base(g, None, b) /\ Agree(g, None, b) /\ IputTo(f, a, g)
  BY <1>1, IputBase, IputAgree, IputEffect
<1> HIDE DEF g
<1>3. Alike(f, g)
  BY <1>1, <1>2 DEF IputTo, Alike, RowAfterIput, Row
<1> QED
  BY <1>2, <1>3 DEF g

(***************************************************************************)
(* ".." at x leads to y, where another device may be entered.              *)
(***************************************************************************)
ParentOf(f, x) == [dev |-> x.dev, num |-> f.tree[x.dev][x.num]]

Leads(f, x, y) ==
  \/ \E b \in Sblk : /\ x.num = ROOT_IND_NR /\ f.sb[b].dev = x.dev /\ f.sb[b].host # None
                     /\ y = ParentOf(f, At(f, f.sb[b].host))
  \/ /\ x.num = ROOT_IND_NR /\ \A b \in Sblk : f.sb[b].dev = x.dev => f.sb[b].host = None
     /\ y = ParentOf(f, x)
  \/ x.num # ROOT_IND_NR /\ y = IF x = root THEN x ELSE ParentOf(f, x)

FoundTo(f, s, n, e) ==
  /\ Base(e.f, e.s, None) /\ Agree(e.f, e.s, None) /\ e.s \in Slot /\ Alike(f, e.f)
  /\ e.i \in Ind \cup {None}
  /\ LET d == f.table[e.s].dev
         num == f.table[e.s].num
     IN  \/ /\ n = Up /\ e.i \in Ind /\ f.tree[d][e.i] # None
            /\ Leads(f, At(f, s), [dev |-> d, num |-> e.i])
            /\ e.i = ROOT_IND_NR \/ e.i = num \/ num \in Children(f.tree[d], e.i)
         \/ /\ n # Up /\ e.s = s
            /\ e.i = IF n \in Children(f.tree[d], num) THEN n ELSE None

LEMMA FindUpGives ==
  ASSUME NEW f, NEW s \in Slot, Base(f, s, None), Agree(f, s, None)
  PROVE  FoundTo(f, s, Up, FindUp(f, s))
<1>1. /\ f \in Systems /\ f.table \in [Slot -> Row] /\ f.sb \in [Sblk -> SblkRow]
      /\ SblksOK(f) /\ HostsOK(f) /\ RowsOK(f) /\ UsedOK(f) /\ DiskOK(f, s, None)
      /\ f.tree \in [Dev -> Tree]
  BY DEF Base, Agree, Systems
<1> DEFINE d == f.table[s].dev
           i == f.table[s].num
<1>2. d \in Dev /\ i \in Ind /\ Known(f, d) /\ f.tree[d][i] # None
  BY HeldRow
<1>3. PICK b \in Sblk : f.sb[b].dev = d /\ f.sb[b].maps
  BY <1>2 DEF Known
<1>4. Min(SblksOf(f, d)) = b
  BY <1>1, <1>2, <1>3, SblkOf, Ranges
<1>5. \A c \in Sblk : f.sb[c].dev = d => c = b
  BY <1>1, <1>2, <1>3, Ranges DEF SblksOK
<1> DEFINE host == f.sb[b].host
<1>6. \A e \in Dev : \A j \in Ind : f.tree[e][j] # None =>
        f.tree[e][j] \in Ind /\ f.tree[e][f.tree[e][j]] # None
  BY <1>1 DEF DiskOK, IsTree, Tree
<1>7. \A e \in Dev, j \in Ind : j # ROOT_IND_NR => j \in Children(f.tree[e], f.tree[e][j])
  BY DEF Children
<1>8. CASE i = ROOT_IND_NR /\ host # None
  <2> DEFINE g == Iput(f, s)
             h == HoldHost(g, host)
             e == [f |-> h, s |-> host, i |-> Parent(f, host)]
  <2>1. FindUp(f, s) = e
    BY <1>4, <1>8 DEF FindUp
  <2>2. Base(g, None, None) /\ Agree(g, None, None) /\ Alike(f, g) /\ g \in Systems
    BY PutBack DEF Base
  <2> HIDE DEF g
  <2>3. host \in Slot /\ Hosts(f, host)
    BY <1>1, <1>3, <1>8 DEF SblkRow, Hosts
  <2>4. HoldTo(g, host, h)
    BY <2>2, <2>3, HoldEffect DEF HoldHost
  <2> HIDE DEF h
  <2>5. Hosts(g, host)
    BY <2>2, <2>3, SameSblks DEF Alike
  <2>6. g.table[host].cnt > 0
    <3>1. g.table[host].cnt = (IF Hosts(g, host) THEN 1 ELSE 0) + Held(host, None, None)
      BY <2>2, <2>3 DEF Base, CountsOK
    <3>2. host # None
      BY <2>3, Ranges
    <3> HIDE DEF host
    <3> QED
      BY <2>5, <3>1, <3>2 DEF Held
  <2>7. g.table[host].dev \in Dev /\ Known(g, g.table[host].dev) /\ g.table[host].dev # None
    BY <2>2, <2>3, <2>6, Ranges DEF Agree, UsedOK
  <2>8. Base(h, None, host) /\ Agree(h, None, host)
    BY <2>2, <2>3, <2>4, <2>7, HoldBase, HoldAgree
  <2>9. Base(h, host, None) /\ Agree(h, host, None)
    BY <2>8, Swap
  <2>10. Alike(f, h)
    <3>1. \A t \in Slot :
            /\ h.table[t].dev = g.table[t].dev /\ h.table[t].num = g.table[t].num
            /\ h.table[t].mounted = g.table[t].mounted
      BY <2>2, <2>3, <2>4, HoldRows
    <3> QED
      BY <2>2, <2>4, <3>1, ZenonT(60) DEF Alike, HoldTo
  <2>11. /\ f.table[host].dev \in Dev /\ f.table[host].num \in Ind
         /\ f.table[host].num # ROOT_IND_NR
         /\ f.tree[f.table[host].dev][f.table[host].num] # None
    <3>1. f.table[host].dev \in Dev /\ f.table[host].dev # None /\ f.table[host] \in Row
      BY <1>1, <2>2, <2>3, <2>7, Ranges DEF Alike
    <3> QED
      BY <1>1, <2>3, <3>1 DEF HostsOK, RowsOK, Row
  <2> DEFINE y == [dev |-> f.table[host].dev, num |-> Parent(f, host)]
  <2>12. /\ Parent(f, host) \in Ind /\ f.tree[f.table[host].dev][Parent(f, host)] # None
         /\ f.table[host].num \in Children(f.tree[f.table[host].dev], Parent(f, host))
    BY <1>6, <1>7, <2>11 DEF Parent
  <2>13. Leads(f, At(f, s), y)
    <3>1. y = ParentOf(f, At(f, host))
      BY DEF Parent, ParentOf, At
    <3>2. At(f, s).num = ROOT_IND_NR /\ At(f, s).dev = d
      BY <1>8 DEF At
    <3> HIDE DEF y
    <3> QED
      BY <1>3, <1>8, <3>1, <3>2 DEF Leads
  <2>14. e.f = h /\ e.s = host /\ e.i = Parent(f, host)
    OBVIOUS
  <2> HIDE DEF e, host
  <2> QED
    BY <2>1, <2>3, <2>9, <2>10, <2>12, <2>13, <2>14 DEF FoundTo
<1>9. CASE ~(i = ROOT_IND_NR /\ host # None)
  <2> DEFINE j == IF i # ROOT_IND_NR /\ At(f, s) = root THEN root.num ELSE Parent(f, s)
             e == [f |-> f, s |-> s, i |-> j]
  <2>1. FindUp(f, s) = e
    BY <1>4, <1>9 DEF FindUp
  <2>2. Alike(f, f)
    BY DEF Alike
  <2>3. Parent(f, s) = f.tree[d][i]
    BY DEF Parent
  <2>4. At(f, s) = root => root.num = i /\ root.dev = d
    BY DEF At
  <2>5. j \in Ind /\ f.tree[d][j] # None
    BY <1>2, <1>6, <2>3, <2>4
  <2>6. j = ROOT_IND_NR \/ j = i \/ i \in Children(f.tree[d], j)
    <3>1. CASE i = ROOT_IND_NR
      <4>1. f.tree[d][i] = ROOT_IND_NR
        BY <1>1, <1>2, <3>1 DEF DiskOK, IsTree
      <4> QED
        BY <2>3, <3>1, <4>1
    <3>2. CASE i # ROOT_IND_NR
      BY <1>2, <1>7, <2>3, <2>4, <3>2
    <3> QED
      BY <3>1, <3>2
  <2>7. Leads(f, At(f, s), [dev |-> d, num |-> j])
    <3>1. At(f, s) = [dev |-> d, num |-> i] /\ At(f, s).dev = d /\ At(f, s).num = i
      BY DEF At
    <3>2. ParentOf(f, At(f, s)) = [dev |-> d, num |-> f.tree[d][i]]
      BY DEF ParentOf, At
    <3>3. CASE i = ROOT_IND_NR
      <4>1. \A c \in Sblk : f.sb[c].dev = At(f, s).dev => f.sb[c].host = None
        BY <1>5, <1>9, <3>1, <3>3
      <4>2. [dev |-> d, num |-> j] = ParentOf(f, At(f, s))
        BY <2>3, <3>2, <3>3
      <4> QED
        BY <3>1, <3>3, <4>1, <4>2 DEF Leads
    <3>4. CASE i # ROOT_IND_NR
      <4>1. [dev |-> d, num |-> j] = IF At(f, s) = root THEN At(f, s) ELSE ParentOf(f, At(f, s))
        BY <2>3, <2>4, <3>1, <3>2, <3>4
      <4> QED
        BY <3>1, <3>4, <4>1 DEF Leads
    <3> QED
      BY <3>3, <3>4
  <2>8. e.f = f /\ e.s = s /\ e.i = j
    OBVIOUS
  <2> HIDE DEF e, j
  <2> QED
    BY <2>1, <2>2, <2>5, <2>6, <2>7, <2>8 DEF FoundTo
<1> QED
  BY <1>8, <1>9

LEMMA FindGives ==
  ASSUME NEW f, NEW s \in Slot, Base(f, s, None), Agree(f, s, None), NEW n
  PROVE  FoundTo(f, s, n, FindEntry(f, s, n))
<1>1. CASE n = Up
  BY <1>1, FindUpGives DEF FindEntry
<1>2. CASE n # Up
  <2> DEFINE e == FindDown(f, s, n)
  <2>1. FindEntry(f, s, n) = e
    BY <1>2 DEF FindEntry
  <2>2. /\ e.f = f /\ e.s = s
        /\ e.i = IF n \in Children(f.tree[f.table[s].dev], f.table[s].num) THEN n ELSE None
    BY DEF FindDown
  <2> HIDE DEF e
  <2>3. Alike(f, f)
    BY DEF Alike
  <2>4. e.i \in Ind \cup {None}
    BY <2>2 DEF Children
  <2> QED
    BY <1>2, <2>1, <2>2, <2>3, <2>4 DEF FoundTo
<1> QED
  BY <1>1, <1>2
-----------------------------------------------------------------------------
(***************************************************************************)
(* The steps of a path.  The mounts, which use their slots, stay the same. *)
(***************************************************************************)
SameTree(f, g) == g.sb = f.sb /\ g.tree = f.tree /\ g.pins = f.pins /\ Kept(f, g)

LEMMA SameMounts ==
  ASSUME NEW f, NEW a, NEW b, Base(f, a, b), NEW g, SameTree(f, g)
  PROVE  \A x, y : (Enters(g, x, y) <=> Enters(f, x, y)) /\ (Leads(g, x, y) <=> Leads(f, x, y))
<1>1. ASSUME NEW c \in Sblk, f.sb[c].host # None
      PROVE  At(g, f.sb[c].host) = At(f, f.sb[c].host)
  <2>1. f.sb[c].host \in Slot /\ Hosts(f, f.sb[c].host)
    BY <1>1 DEF Base, Systems, SblkRow, Hosts
  <2>2. f.table[f.sb[c].host].cnt > 0
    BY <2>1 DEF Base, CountsOK, Held
  <2> QED
    BY <2>1, <2>2 DEF SameTree, Kept, At
<1>2. g.sb = f.sb /\ g.tree = f.tree
  BY DEF SameTree
<1>3. ASSUME NEW x, NEW y PROVE Enters(g, x, y) <=> Enters(f, x, y)
  BY <1>1, <1>2 DEF Enters
<1>4. ASSUME NEW x, NEW y PROVE Leads(g, x, y) <=> Leads(f, x, y)
  BY <1>1, <1>2 DEF Leads, ParentOf
<1> QED
  BY <1>3, <1>4

LEMMA TakenAgain ==
  ASSUME NEW f, Base(f, None, None), NEW g, Base(g, None, None), SameTree(f, g),
         NEW v, Taken(g, None, v)
  PROVE  Taken(f, None, v)
<1>1. Kept(f, v.f)
  <2> SUFFICES ASSUME NEW t \in Slot, f.table[t].cnt > 0
               PROVE  /\ v.f.table[t].dev = f.table[t].dev /\ v.f.table[t].num = f.table[t].num
                      /\ v.f.table[t].mounted = f.table[t].mounted
    BY DEF Kept
  <2>1. Hosts(f, t)
    BY Ranges DEF Base, CountsOK, Held
  <2>2. Hosts(g, t)
    BY <2>1 DEF SameTree, Hosts
  <2>3. g.table[t].cnt > 0
    BY <2>2, Ranges DEF Base, CountsOK, Held
  <2> QED
    BY <2>3 DEF SameTree, Taken, Kept
<1>2. v.f.tree = f.tree /\ v.f.pins = f.pins /\ (Runs(v.f) => v.f.sb = f.sb)
  BY DEF SameTree, Taken
<1> QED
  BY <1>1, <1>2 DEF Taken

LEMMA AlikeSame ==
  ASSUME NEW f, NEW e, NEW g, Alike(f, e), Alike(e, g)
  PROVE  Alike(f, g) /\ SameTree(f, g) /\ (Runs(g) <=> Runs(f))
BY DEF Alike, SameTree, Kept, Runs

Moves(f, x, n, v) ==
  \/ /\ v.s # None /\ n = Up
     /\ \E y \in Places : Leads(f, x, y) /\ Enters(f, y, At(v.f, v.s))
  \/ /\ v.s # None /\ n # Up /\ n \in Children(f.tree[x.dev], x.num)
     /\ Enters(f, [dev |-> x.dev, num |-> n], At(v.f, v.s))
  \/ v.s = None /\ n # Up /\ n \notin Children(f.tree[x.dev], x.num)

StepTo(f, w, n, v) ==
  Taken(f, None, v) /\ (Runs(v.f) => Moves(f, At(w.f, w.s), n, v))

LEMMA StepGives ==
  ASSUME NEW f, Base(f, None, None), NEW w, Taken(f, None, w), Runs(w.f), w.s \in Slot,
         NEW n
  PROVE  StepTo(f, w, n, Step(w, n))
<1> DEFINE e == FindEntry(w.f, w.s, n)
<1> DEFINE g == Iput(e.f, e.s)
<1> DEFINE v == Step(w, n)
<1> SUFFICES StepTo(f, w, n, v)
  OBVIOUS
<1>1. Base(w.f, w.s, None) /\ Agree(w.f, w.s, None)
  BY Swap DEF Taken
<1>2. FoundTo(w.f, w.s, n, e)
  BY <1>1, FindGives
<1>3. v = Follow(e)
  BY Ranges DEF Step
<1> HIDE DEF e
<1>4. Base(g, None, None) /\ Agree(g, None, None) /\ Alike(e.f, g)
  BY <1>2, PutBack DEF FoundTo
<1>5. v = IF e.i = None THEN [f |-> g, s |-> None]
          ELSE Iget(g, [dev |-> e.f.table[e.s].dev, num |-> e.i])
  BY <1>3 DEF Follow
<1> HIDE DEF v, g
<1>6. SameTree(w.f, g) /\ Runs(g) /\ Alike(w.f, g)
  BY <1>2, <1>4, AlikeSame DEF FoundTo
<1>7. SameTree(f, g)
  <2>1. g.sb = f.sb /\ g.tree = f.tree /\ g.pins = f.pins
    BY <1>6 DEF SameTree, Taken
  <2>2. Kept(f, w.f)
    BY DEF Taken
  <2>3. Kept(f, g)
    BY <2>2, <1>6 DEF Kept, Alike
  <2> QED
    BY <2>1, <2>3 DEF SameTree
<1>8. \A x, y : (Enters(g, x, y) <=> Enters(f, x, y)) /\ (Leads(g, x, y) <=> Leads(f, x, y))
  BY <1>7, SameMounts
<1>9. \A x, y : Leads(g, x, y) <=> Leads(w.f, x, y)
  BY <1>1, <1>6, SameMounts
<1> DEFINE d == w.f.table[e.s].dev
<1> DEFINE x == [dev |-> d, num |-> e.i]
<1>10. e.s \in Slot /\ d \in Dev /\ e.f.table[e.s].dev = d /\ w.f.tree = f.tree
  <2>1. e.s \in Slot /\ e.f.table[e.s].dev \in Dev
    BY <1>2, HeldRow DEF FoundTo
  <2> QED
    BY <2>1, <1>2 DEF FoundTo, Alike, Taken
<1>11. CASE e.i = None
  <2>1. v = [f |-> g, s |-> None] /\ v.f = g /\ v.s = None
    BY <1>5, <1>11
  <2>2. Taken(f, None, v)
    <3>1. IsWay(v) /\ v.s \in Slot \cup {None}
      BY <2>1 DEF IsWay
    <3>2. Runs(v.f) /\ v.f.halt \in {"no", "hang", "maps"}
      BY <2>1, <1>6 DEF Runs
    <3> QED
      BY <3>1, <3>2, <2>1, <1>4, <1>7 DEF Taken, SameTree
  <2>3. n # Up /\ e.s = w.s /\ n \notin Children(w.f.tree[d], w.f.table[e.s].num)
    BY <1>2, <1>11, Ranges DEF FoundTo, Children
  <2>4. At(w.f, w.s) = [dev |-> d, num |-> w.f.table[e.s].num]
    BY <2>3 DEF At
  <2>5. Moves(f, At(w.f, w.s), n, v)
    BY <2>1, <2>3, <2>4, <1>10, SMTT(60) DEF Moves
  <2> QED
    BY <2>2, <2>5 DEF StepTo
<1>12. CASE e.i # None
  <2>1. x \in Places /\ x.dev = d /\ x.num = e.i /\ e.i \in Ind
    BY <1>2, <1>10, <1>12 DEF Places, FoundTo
  <2>2. v = Iget(g, x)
    BY <1>5, <1>10, <1>12
  <2>3. IgetTo(g, None, x, v)
    BY <2>1, <2>2, <1>4, <1>6, IgetGives
  <2> HIDE DEF x
  <2>4. Taken(f, None, v)
    BY <2>3, <1>4, <1>7, TakenAgain DEF IgetTo
  <2>5. ASSUME Runs(v.f) PROVE Moves(f, At(w.f, w.s), n, v)
    <3>1. (v.s = None <=> f.tree[d][e.i] = None) /\ (v.s # None => Enters(f, x, At(v.f, v.s)))
      BY <2>5, <2>3, <2>1, <1>7, <1>8 DEF IgetTo, SameTree
    <3>2. CASE n = Up
      <4>1. v.s # None
        BY <3>1, <3>2, <1>2, <1>10 DEF FoundTo
      <4>2. Leads(w.f, At(w.f, w.s), x)
        BY <3>2, <1>2 DEF FoundTo, x
      <4>3. Leads(f, At(w.f, w.s), x)
        BY <4>2, <1>8, <1>9
      <4> QED
        BY <4>1, <4>3, <3>1, <3>2, <2>1 DEF Moves
    <3>3. CASE n # Up
      <4>1. e.s = w.s /\ e.i = n /\ n \in Children(f.tree[d], w.f.table[w.s].num)
        BY <3>3, <1>2, <1>10, <1>12 DEF FoundTo
      <4>2. At(w.f, w.s) = [dev |-> d, num |-> w.f.table[w.s].num]
        BY <4>1 DEF At
      <4>3. f.tree[d][n] # None
        <5>1. w.f.table[w.s].num # None
          BY <1>1, HeldRow, Ranges
        <5> QED
          BY <4>1, <5>1 DEF Children
      <4>4. v.s # None /\ Enters(f, x, At(v.f, v.s)) /\ x = [dev |-> d, num |-> n]
        BY <3>1, <4>1, <4>3 DEF x
      <4> QED
        BY <4>1, <4>2, <4>4, <3>3, SMTT(60) DEF Moves
    <3> QED
      BY <3>2, <3>3
  <2> QED
    BY <2>4, <2>5 DEF StepTo
<1> QED
  BY <1>11, <1>12
LEMMA StepTakes ==
  ASSUME NEW f, Base(f, None, None), NEW w, Taken(f, None, w), NEW n
  PROVE  Taken(f, None, Step(w, n))
<1>1. CASE w.s = None
  BY <1>1 DEF Step
<1>2. CASE w.s # None
  <2>1. w.s \in Slot /\ Runs(w.f)
    BY <1>2 DEF Taken
  <2> QED
    BY <2>1, StepGives DEF StepTo
<1> QED
  BY <1>1, <1>2

WalkTo(f, start, steps, W) ==
  /\ W[0] = start /\ NameiFrom(start, steps) = W[Len(steps)]
  /\ \A t \in 1..Len(steps) : W[t] = Step(W[t - 1], steps[t])
  /\ \A t \in 0..Len(steps) : Taken(f, None, W[t])

LEMMA WalkGives ==
  ASSUME NEW f, Base(f, None, None), NEW start, Taken(f, None, start),
         NEW steps \in Seq(Ind \cup {Up})
  PROVE  \E W : WalkTo(f, start, steps, W)
<1> DEFINE N == Len(steps)
<1> DEFINE S == {w \in [f : Systems, s : Slot \cup {None}] : Taken(f, None, w)}
<1> DEFINE step == [t \in 1..N |-> [w \in S |-> Step(w, steps[t])]]
<1>1. N \in Nat
  OBVIOUS
<1>2. \A w : Taken(f, None, w) => w \in S
  <2> SUFFICES ASSUME NEW w, Taken(f, None, w) PROVE w \in [f : Systems, s : Slot \cup {None}]
    OBVIOUS
  <2>1. w.f \in Systems /\ w.s \in Slot \cup {None} /\ w = [f |-> w.f, s |-> w.s]
    BY DEF Taken, Base, IsWay
  <2> QED
    BY <2>1
<1>3. \A w \in S : Taken(f, None, w)
  OBVIOUS
<1> HIDE DEF N, S
<1>4. step \in [1..N -> [S -> S]] /\ start \in S
  <2>1. ASSUME NEW t \in 1..N, NEW w \in S PROVE Step(w, steps[t]) \in S
    BY <1>2, <1>3, StepTakes
  <2> QED
    BY <2>1, <1>2
<1>5. \A t \in 1..N : \A w \in S : step[t][w] = Step(w, steps[t])
  OBVIOUS
<1> HIDE DEF step
<1>6. PICK W : RunOf(W, N, S, start, step)
  BY <1>1, <1>4, RunExists
<1>7. W \in [0..N -> S] /\ W[0] = start
  BY <1>6 DEF RunOf
<1>8. ASSUME NEW t \in 1..N PROVE t - 1 \in 0..N /\ W[t] = Step(W[t - 1], steps[t])
  <2>1. t - 1 \in 0..N
    BY <1>1
  <2> QED
    BY <2>1, <1>5, <1>6, <1>7 DEF RunOf
<1> DEFINE Walks(w) == w = [t \in 0..N |-> IF t = 0 THEN start ELSE Step(w[t - 1], steps[t])]
<1>9. Walks(W)
  <2>1. ASSUME NEW t \in 0..N
        PROVE  W[t] = IF t = 0 THEN start ELSE Step(W[t - 1], steps[t])
    <3>1. t # 0 => t \in 1..N
      BY <1>1
    <3> QED
      BY <3>1, <1>7, <1>8
  <2> QED
    BY <2>1, <1>7
<1>10. ASSUME NEW w, Walks(w) PROVE w[N] = W[N]
  <2> DEFINE P == [t \in 0..N |-> w[t] = W[t]]
  <2>1. 0 \in 0..N /\ N \in 0..N
    BY <1>1
  <2>2. P[0]
    BY <2>1, <1>10, <1>7
  <2>3. ASSUME NEW t \in 1..N, P[t - 1] PROVE P[t]
    <3>1. t \in 0..N /\ t # 0 /\ t - 1 \in 0..N
      BY <1>1
    <3>2. w[t] = Step(w[t - 1], steps[t])
      BY <3>1, <1>10
    <3>3. w[t - 1] = W[t - 1]
      BY <3>1, <2>3
    <3> QED
      BY <3>1, <3>2, <3>3, <1>8
  <2> HIDE DEF P
  <2>4. \A t \in 0..N : P[t]
    BY <1>1, <2>2, <2>3, TurnByTurn
  <2> QED
    BY <2>1, <2>4 DEF P
<1>11. NameiFrom(start, steps) = (CHOOSE w : Walks(w))[N]
  BY DEF NameiFrom, N
<1> HIDE DEF Walks
<1>12. NameiFrom(start, steps) = W[N]
  BY <1>9, <1>10, <1>11
<1>13. \A t \in 0..N : Taken(f, None, W[t])
  BY <1>3, <1>7
<1> QED
  BY <1>7, <1>8, <1>12, <1>13 DEF WalkTo, N
Clean(f) == Base(f, None, None) /\ Agree(f, None, None) /\ Runs(f)

CwdIn(p) == IF p.abs THEN root ELSE cwd

LEMMA StartGives ==
  ASSUME NEW f, Clean(f), cwd \in Places, root \in Places, NEW p
  PROVE  IgetTo(f, None, CwdIn(p), Start(f, p))
<1>1. CwdIn(p) \in Places
  BY DEF CwdIn
<1> QED
  BY <1>1, IgetGives DEF Start, CwdIn, Clean

LEMMA FrontSteps ==
  ASSUME NEW S, NEW steps \in Seq(S)
  PROVE  Front(steps) \in Seq(S)
<1>1. Len(steps) - 1 \in Int /\ 1 \in Int /\ \A i \in 1..(Len(steps) - 1) : steps[i] \in S
  OBVIOUS
<1> QED
  BY <1>1, SubSeqProperties DEF Front

LEMMA NameiTakes ==
  ASSUME NEW f, Clean(f), cwd \in Places, root \in Places, NEW p \in Path
  PROVE  Taken(f, None, Namei(f, p)) /\ Taken(f, None, DirNamei(f, p))
<1>1. Taken(f, None, Start(f, p)) /\ Base(f, None, None)
  BY StartGives DEF IgetTo, Clean
<1>2. p.steps \in Seq(Ind \cup {Up}) /\ Front(p.steps) \in Seq(Ind \cup {Up})
  BY FrontSteps DEF Path
<1>3. ASSUME NEW steps \in Seq(Ind \cup {Up})
      PROVE  Taken(f, None, NameiFrom(Start(f, p), steps))
  <2>1. PICK W : WalkTo(f, Start(f, p), steps, W)
    BY <1>1, WalkGives
  <2>2. Len(steps) \in 0..Len(steps)
    OBVIOUS
  <2> QED
    BY <2>1, <2>2 DEF WalkTo
<1> QED
  BY <1>2, <1>3 DEF Namei, DirNamei
-----------------------------------------------------------------------------
(***************************************************************************)
(* The file system f between two commands, with x the current directory,   *)
(* and what a command may leave.                                           *)
(***************************************************************************)
Settled(f, x) == Clean(f) /\ (f.tree[x.dev][x.num] # None => Known(f, x.dev))

Outcome(g, x) ==
  /\ \E a \in Slot \cup {None} : Base(g, a, None)
  /\ Runs(g) => Settled(g, x)

LEMMA GivesBack ==
  ASSUME NEW f, NEW x, Settled(f, x), NEW w, Taken(f, None, w)
  PROVE  /\ Outcome(Iput(w.f, w.s), x)
         /\ Runs(w.f) => /\ Settled(Iput(w.f, w.s), x) /\ Alike(w.f, Iput(w.f, w.s))
                         /\ Iput(w.f, w.s).tree = f.tree /\ Iput(w.f, w.s).sb = f.sb
         /\ w.s # None => At(w.f, w.s) \in Places /\ Known(f, At(w.f, w.s).dev)
<1> DEFINE g == Iput(w.f, w.s)
<1>1. CASE w.s = None
  <2>1. g = w.f
    BY <1>1 DEF Iput
  <2>2. Base(g, None, None) /\ None \in Slot \cup {None} /\ (Runs(w.f) => Agree(g, None, None))
    BY <1>1, <2>1 DEF Taken
  <2>3. g.tree = f.tree /\ (Runs(w.f) => g.sb = f.sb) /\ Alike(w.f, g)
    BY <2>1 DEF Taken, Alike
  <2> HIDE DEF g
  <2>4. Runs(w.f) => Settled(g, x)
    BY <2>1, <2>2, <2>3, SameSblks DEF Settled, Clean
  <2>5. Outcome(g, x)
    BY <2>1, <2>2, <2>4 DEF Outcome
  <2> QED
    BY <1>1, <2>3, <2>4, <2>5 DEF g
<1>2. CASE w.s # None
  <2>1. w.s \in Slot /\ Runs(w.f) /\ Base(w.f, w.s, None) /\ Agree(w.f, w.s, None)
    BY <1>2, Swap DEF Taken
  <2>2. Base(g, None, None) /\ Agree(g, None, None) /\ Alike(w.f, g)
    BY <2>1, PutBack
  <2>3. w.f.sb = f.sb /\ w.f.tree = f.tree
    BY <2>1 DEF Taken
  <2>4. /\ w.f.table[w.s].dev \in Dev /\ w.f.table[w.s].num \in Ind
        /\ Known(w.f, w.f.table[w.s].dev)
    BY <2>1, HeldRow
  <2>5. At(w.f, w.s) \in Places /\ At(w.f, w.s).dev = w.f.table[w.s].dev
    BY <2>4 DEF At, Places
  <2>6. Known(f, At(w.f, w.s).dev)
    BY <2>3, <2>4, <2>5, SameSblks
  <2> HIDE DEF g
  <2>7. g.tree = f.tree /\ g.sb = f.sb /\ Runs(g)
    BY <2>1, <2>2, <2>3 DEF Alike, Runs
  <2>8. Settled(g, x)
    BY <2>2, <2>7, SameSblks DEF Settled, Clean
  <2>9. Outcome(g, x)
    BY <2>2, <2>8 DEF Outcome
  <2> QED
    BY <2>2, <2>5, <2>6, <2>7, <2>8, <2>9 DEF g
<1> QED
  BY <1>1, <1>2

(***************************************************************************)
(* get_sblk() may read a super block: nothing else changes.                *)
(***************************************************************************)
MoreSblks(f, g) ==
  /\ SameBut(f, g)
  /\ \A c \in Sblk : IF f.sb[c].dev # None THEN g.sb[c] = f.sb[c] ELSE g.sb[c].host = None

GetSblkTo(f, a, b, d, g) ==
  /\ Base(g.f, a, b) /\ MoreSblks(f, g.f)
  /\ g.b = None \/ (g.b \in Sblk /\ g.f.sb[g.b].dev = d /\ d \in Dev)

LEMMA GetSblkGives ==
  ASSUME NEW f, NEW a, NEW b, Base(f, a, b), NEW d \in Dev \cup OtherDev
  PROVE  GetSblkTo(f, a, b, d, GetSblk(f, d))
<1> DEFINE g == GetSblk(f, d)
<1> SUFFICES GetSblkTo(f, a, b, d, g)
  OBVIOUS
<1>1. MoreSblks(f, f) /\ f.sb \in [Sblk -> SblkRow]
  BY DEF MoreSblks, SameBut, Base, SblksOK, Systems
<1>2. CASE SblksOf(f, d) # {}
  <2> DEFINE m == Min(SblksOf(f, d))
  <2>1. m \in SblksOf(f, d)
    BY <1>2, MinSblk DEF SblksOf
  <2>2. m \in Sblk /\ f.sb[m].dev = d
    BY <2>1 DEF SblksOf
  <2>3. g.f = f /\ g.b = m
    BY <1>2 DEF GetSblk
  <2>4. d \in Dev
    BY <1>1, <2>2, Ranges DEF SblkRow
  <2> QED
    BY <1>1, <2>2, <2>3, <2>4 DEF GetSblkTo
<1>3. CASE SblksOf(f, d) = {}
  <2> DEFINE free == SblksOf(f, None)
  <2>1. g = ReadSblk(f, d, free)
    BY <1>3 DEF GetSblk
  <2>2. CASE free = {} \/ d \notin Dev
    <3>1. g.f = f /\ g.b = None
      BY <2>1, <2>2 DEF ReadSblk
    <3> QED
      BY <1>1, <3>1 DEF GetSblkTo
  <2>3. CASE ~(free = {} \/ d \notin Dev)
    <3> DEFINE m == Min(free)
    <3>1. m \in free
      BY <2>3, MinSblk DEF SblksOf
    <3>2. m \in Sblk /\ f.sb[m].dev = None
      BY <3>1 DEF SblksOf
    <3>3. g.f = [f EXCEPT !.sb[m] = SblkAfterRead(d)] /\ g.b = m
      BY <2>1, <2>3 DEF ReadSblk
    <3> HIDE DEF m, g
    <3>4. \A c \in Sblk : f.sb[c].dev # d
      BY <1>3 DEF SblksOf
    <3>5. SblkAdded(f, g.f, a, b, d, m)
      BY <2>3, <3>2, <3>3, <3>4, ReadSblkEffect
    <3>6. g.f.sb[m].dev = d /\ g.f.sb[m].host = None
      BY <3>5 DEF SblkAdded
    <3>7. f.sb[m].host = None
      BY <3>2 DEF Base, SblksOK
    <3>8. MoreSblks(f, g.f)
      <4>1. ASSUME NEW c \in Sblk
            PROVE  IF f.sb[c].dev # None THEN g.f.sb[c] = f.sb[c] ELSE g.f.sb[c].host = None
        BY <3>2, <3>5, <3>6 DEF SblkAdded, Base, SblksOK
      <4> QED
        BY <4>1, <3>5 DEF MoreSblks, SblkAdded
    <3> QED
      BY <2>3, <3>2, <3>3, <3>5, <3>6, <3>8 DEF GetSblkTo, SblkAdded
  <2> QED
    BY <2>2, <2>3
<1> QED
  BY <1>2, <1>3

LEMMA MoreAgree ==
  ASSUME NEW f, NEW a, NEW b, Base(f, a, b), NEW g, MoreSblks(f, g)
  PROVE  /\ \A s \in Slot : Hosts(g, s) <=> Hosts(f, s)
         /\ \A d \in Dev : Known(f, d) => Known(g, d)
         /\ Agree(f, a, b) => Agree(g, a, b)
<1>1. SblksOK(f) /\ g.table = f.table /\ g.tree = f.tree /\ g.nlinks = f.nlinks
  BY DEF Base, MoreSblks, SameBut
<1>2. ASSUME NEW s \in Slot PROVE Hosts(g, s) <=> Hosts(f, s)
  BY <1>1, Ranges DEF Hosts, SblksOK, MoreSblks
<1>3. ASSUME NEW d \in Dev, Known(f, d) PROVE Known(g, d)
  <2>1. d # None
    BY Ranges
  <2> QED
    BY <2>1, <1>3 DEF Known, MoreSblks
<1>4. ASSUME Agree(f, a, b) PROVE Agree(g, a, b)
  <2>1. HostsOK(g)
    BY <1>1, <1>2, <1>4 DEF Agree, HostsOK
  <2>2. UsedOK(g)
    BY <1>1, <1>3, <1>4 DEF Agree, UsedOK
  <2>3. RowsOK(g) /\ OnceOK(g)
    BY <1>1, <1>4, SMTT(60) DEF Agree, RowsOK, OnceOK, LinksIn
  <2>4. DiskOK(g, a, b)
    BY <1>1, <1>4 DEF Agree, DiskOK, LinksIn, Changed
  <2> QED
    BY <2>1, <2>2, <2>3, <2>4 DEF Agree
<1> QED
  BY <1>2, <1>3, <1>4
-----------------------------------------------------------------------------
(***************************************************************************)
(* do_mount().                                                             *)
(***************************************************************************)
Mounts(f, b, s, d) ==
  [f EXCEPT !.pins[d] = @ + 1, !.sb[b] = [@ EXCEPT !.host = s, !.maps = TRUE],
            !.table[s] = [@ EXCEPT !.mounted = TRUE, !.dirt = TRUE]]

RowMounted(r) == [r EXCEPT !.mounted = TRUE, !.dirt = TRUE]
SblkMounted(r, s) == [r EXCEPT !.host = s, !.maps = TRUE]

MountsTo(f, b, s, d, h) ==
  /\ h \in Systems /\ h.tree = f.tree /\ h.nlinks = f.nlinks /\ h.halt = f.halt
  /\ h.table = [f.table EXCEPT ![s] = RowMounted(f.table[s])]
  /\ h.sb = [f.sb EXCEPT ![b] = SblkMounted(f.sb[b], s)]
  /\ h.pins = [f.pins EXCEPT ![d] = @ + 1]

LEMMA MountsEffect ==
  ASSUME NEW f \in Systems, NEW b \in Sblk, NEW s \in Slot, NEW d \in Dev
  PROVE  MountsTo(f, b, s, d, Mounts(f, b, s, d))
<1> DEFINE h == Mounts(f, b, s, d)
<1> DEFINE row == RowMounted(f.table[s])
<1> DEFINE blk == SblkMounted(f.sb[b], s)
<1> DEFINE pins1 == [f.pins EXCEPT ![d] = @ + 1]
<1> SUFFICES MountsTo(f, b, s, d, h)
  OBVIOUS
<1>1. f.table[s] \in Row /\ f.sb[b] \in SblkRow /\ f.pins \in [Dev -> Nat]
  BY DEF Systems
<1>2. row \in Row /\ blk \in SblkRow /\ pins1 \in [Dev -> Nat]
  <2>1. \A r \in Row : RowMounted(r) \in Row
    BY DEF Row, RowMounted
  <2>2. \A r \in SblkRow : SblkMounted(r, s) \in SblkRow
    BY DEF SblkRow, SblkMounted
  <2>3. pins1 \in [Dev -> Nat]
    BY <1>1
  <2> QED
    BY <1>1, <2>1, <2>2, <2>3
<1>3. h = [f EXCEPT !.pins = pins1, !.sb[b] = blk, !.table[s] = row]
  BY DEF Mounts, RowMounted, SblkMounted
<1> HIDE DEF row, blk, pins1, h
<1>4. /\ h.table = [f.table EXCEPT ![s] = row] /\ h.sb = [f.sb EXCEPT ![b] = blk]
      /\ h.pins = pins1 /\ h.tree = f.tree /\ h.nlinks = f.nlinks /\ h.halt = f.halt
  BY <1>3 DEF Systems
<1>5. h \in Systems
  BY <1>2, <1>3 DEF Systems
<1> QED
  BY <1>4, <1>5 DEF MountsTo, row, blk, pins1

LEMMA MountsClean ==
  ASSUME NEW f, NEW s \in Slot, Base(f, None, s), Agree(f, None, s), Runs(f),
         f.table[s].num # ROOT_IND_NR, ~f.table[s].mounted, ~f.table[s].dirt,
         NEW b \in Sblk, NEW d \in Dev, f.sb[b].dev = d, f.sb[b].host = None,
         NEW h, MountsTo(f, b, s, d, h)
  PROVE  Clean(h) /\ h.tree = f.tree /\ \A e \in Dev : Known(f, e) => Known(h, e)
<1> DEFINE blk == SblkMounted(f.sb[b], s)
<1>1. f \in Systems /\ SblksOK(f) /\ PinsOK(f) /\ CountsOK(f, None, s)
  BY DEF Base
<1>2. f.table \in [Slot -> Row] /\ f.sb \in [Sblk -> SblkRow] /\ f.pins \in [Dev -> Nat]
  BY <1>1 DEF Systems
<1>3. blk.dev = d /\ blk.host = s /\ blk.maps
  <2>1. f.sb[b] \in SblkRow
    BY <1>2
  <2> QED
    BY <2>1 DEF SblkRow, SblkMounted
<1>4. h \in Systems /\ h.sb = [f.sb EXCEPT ![b] = blk]
  BY DEF MountsTo
<1> HIDE DEF blk
<1>5. h.sb[b] = blk /\ \A c \in Sblk : c # b => h.sb[c] = f.sb[c]
  BY <1>2, <1>4
<1>6. h.pins[d] = f.pins[d] + 1 /\ \A e \in Dev : e # d => h.pins[e] = f.pins[e]
  BY <1>2 DEF MountsTo
<1>7. /\ h.table[s].mounted /\ h.table[s].dirt
      /\ h.table[s].cnt = f.table[s].cnt /\ h.table[s].dev = f.table[s].dev
      /\ h.table[s].num = f.table[s].num /\ h.table[s].nlinks = f.table[s].nlinks
  <2>1. h.table[s] = RowMounted(f.table[s]) /\ f.table[s] \in Row
    BY <1>2 DEF MountsTo
  <2> QED
    BY <2>1 DEF RowMounted, Row
<1>8. \A t \in Slot : t # s => h.table[t] = f.table[t]
  BY <1>2 DEF MountsTo
<1>9. /\ \A t \in Slot : /\ h.table[t].cnt = f.table[t].cnt /\ h.table[t].dev = f.table[t].dev
                         /\ h.table[t].num = f.table[t].num /\ h.table[t].nlinks = f.table[t].nlinks
      /\ h.tree = f.tree /\ h.nlinks = f.nlinks /\ Runs(h)
  BY <1>7, <1>8 DEF MountsTo, Runs
<1>10. ~Hosts(f, s) /\ s # None
  BY Ranges DEF Agree, HostsOK
<1>11. \A t \in Slot : Hosts(h, t) <=> Hosts(f, t) \/ t = s
  <2> SUFFICES ASSUME NEW t \in Slot PROVE Hosts(h, t) <=> Hosts(f, t) \/ t = s
    OBVIOUS
  <2>1. t = s => Hosts(h, t)
    BY <1>3, <1>5 DEF Hosts
  <2>2. t # s => (Hosts(h, t) <=> Hosts(f, t))
    BY <1>3, <1>5, Ranges DEF Hosts
  <2> QED
    BY <2>1, <2>2
<1>12. \A e \in Dev : HasMount(h, e) <=> HasMount(f, e) \/ e = d
  <2> SUFFICES ASSUME NEW e \in Dev PROVE HasMount(h, e) <=> HasMount(f, e) \/ e = d
    OBVIOUS
  <2>1. e = d => HasMount(h, e)
    BY <1>3, <1>5, <1>10 DEF HasMount
  <2>2. e # d => (HasMount(h, e) <=> HasMount(f, e))
    BY <1>3, <1>5 DEF HasMount
  <2> QED
    BY <2>1, <2>2
<1>13. ~HasMount(f, d)
  BY <1>1, Ranges DEF HasMount, SblksOK
<1>14. \A e \in Dev : Known(f, e) => Known(h, e)
  <2> SUFFICES ASSUME NEW e \in Dev, NEW c \in Sblk, f.sb[c].dev = e, f.sb[c].maps
               PROVE  Known(h, e)
    BY DEF Known
  <2>1. h.sb[c].dev = e /\ h.sb[c].maps
    BY <1>3, <1>5
  <2> QED
    BY <2>1 DEF Known
<1>15. SblksOK(h)
  <2>1. \A c \in Sblk : h.sb[c].host # None => h.sb[c].dev # None /\ h.sb[c].maps
    BY <1>1, <1>3, <1>5, Ranges DEF SblksOK
  <2>2. ASSUME NEW c \in Sblk, NEW e \in Sblk, h.sb[c].dev = h.sb[e].dev, h.sb[c].dev # None
        PROVE  c = e
    BY <1>1, <1>3, <1>5, <2>2 DEF SblksOK
  <2>3. ASSUME NEW c \in Sblk, NEW e \in Sblk, h.sb[c].host = h.sb[e].host, h.sb[c].host # None
        PROVE  c = e
    BY <1>1, <1>3, <1>5, <1>10, <2>3 DEF SblksOK, Hosts
  <2>4. Known(h, ROOT_DEV)
    BY <1>1, <1>14, Ranges DEF SblksOK
  <2> QED
    BY <2>1, <2>2, <2>3, <2>4 DEF SblksOK
<1>16. PinsOK(h)
  BY <1>1, <1>2, <1>6, <1>12, <1>13 DEF PinsOK
<1>17. CountsOK(h, None, None)
  <2> SUFFICES ASSUME NEW t \in Slot
               PROVE  h.table[t].cnt = (IF Hosts(h, t) THEN 1 ELSE 0) + Held(t, None, None)
    BY DEF CountsOK
  <2>1. f.table[t].cnt = (IF Hosts(f, t) THEN 1 ELSE 0) + Held(t, None, s)
    BY <1>1 DEF CountsOK
  <2>2. CASE t = s
    <3>1. h.table[t].cnt = f.table[t].cnt /\ Hosts(h, t) /\ ~Hosts(f, t)
      BY <2>2, <1>9, <1>10, <1>11
    <3>2. Held(t, None, s) = 1 /\ Held(t, None, None) = 0
      BY <2>2, <1>10 DEF Held
    <3> QED
      BY <2>1, <3>1, <3>2
  <2>3. CASE t # s
    <3>1. h.table[t].cnt = f.table[t].cnt /\ (Hosts(h, t) <=> Hosts(f, t))
      BY <2>3, <1>9, <1>11
    <3>2. Held(t, None, s) = Held(t, None, None)
      BY <2>3, Ranges DEF Held
    <3> QED
      BY <2>1, <3>1, <3>2
  <2> QED
    BY <2>2, <2>3
<1>18. HostsOK(h)
  <2> SUFFICES ASSUME NEW t \in Slot
               PROVE  /\ h.table[t].mounted <=> Hosts(h, t)
                      /\ Hosts(h, t) => h.table[t].num # ROOT_IND_NR
    BY DEF HostsOK
  <2>1. CASE t = s
    BY <2>1, <1>7, <1>11
  <2>2. CASE t # s
    BY <2>2, <1>8, <1>11 DEF Agree, HostsOK
  <2> QED
    BY <2>1, <2>2
<1>19. UsedOK(h)
  <2> SUFFICES ASSUME NEW t \in Slot
               PROVE  /\ h.table[t].cnt > 0 => h.table[t].dev \in Dev /\ Known(h, h.table[t].dev)
                      /\ h.table[t].dirt => h.table[t].cnt > 0
    BY DEF UsedOK
  <2>1. f.table[t].cnt > 0 => f.table[t].dev \in Dev /\ Known(f, f.table[t].dev)
    BY DEF Agree, UsedOK
  <2>2. CASE t = s
    <3>1. f.table[s].cnt > 0
      BY <1>1, <1>10 DEF CountsOK, Held
    <3> QED
      BY <2>1, <2>2, <3>1, <1>9, <1>14
  <2>3. CASE t # s
    BY <2>1, <2>3, <1>8, <1>14 DEF Agree, UsedOK
  <2> QED
    BY <2>2, <2>3
<1>20. RowsOK(h)
  BY <1>9 DEF Agree, RowsOK, LinksIn
<1>21. OnceOK(h)
  BY <1>9 DEF Agree, OnceOK
<1>22. DiskOK(h, None, None)
  <2> SUFFICES ASSUME NEW e \in Dev
               PROVE  /\ IsTree(h.tree[e])
                      /\ \A i \in Ind :
                           /\ h.nlinks[e][i] > 0
                           /\ i # ROOT_IND_NR /\ h.tree[e][i] # None =>
                                h.nlinks[e][i] = LinksIn(h, e, i)
    BY DEF DiskOK
  <2>1. \A i \in Ind : ~Changed(f, None, e, i) /\ ~Changed(f, s, e, i)
    BY Ranges DEF Changed
  <2> QED
    BY <2>1, <1>9 DEF Agree, DiskOK, LinksIn
<1> QED
  BY <1>4, <1>9, <1>14, <1>15, <1>16, <1>17, <1>18, <1>19, <1>20, <1>21, <1>22
  DEF Clean, Base, Agree
LEMMA FileSettled ==
  ASSUME NEW f, NEW x, Settled(f, x), NEW g \in DeviceFile(f)
  PROVE  Settled(g, x)
<1>1. CASE g = f
  BY <1>1
<1>2. CASE g # f
  <2>1. PICK s \in Vacant(f) : g = [f EXCEPT !.table[s] = EmptySlot]
    BY <1>2 DEF DeviceFile
  <2>2. /\ f \in Systems /\ SblksOK(f) /\ PinsOK(f) /\ CountsOK(f, None, None) /\ Runs(f)
        /\ HostsOK(f) /\ UsedOK(f) /\ RowsOK(f) /\ OnceOK(f) /\ DiskOK(f, None, None)
    BY DEF Settled, Clean, Base, Agree
  <2>3. EmptySlot \in Row /\ s \in Slot /\ f.table[s].cnt = 0
    BY <2>1 DEF EmptySlot, Row, Vacant
  <2>4. EmptySlot.cnt = 0 /\ EmptySlot.dev = None /\ ~EmptySlot.dirt /\ ~EmptySlot.mounted
    BY DEF EmptySlot
  <2> DEFINE row == EmptySlot
  <2> HIDE DEF row
  <2>5. /\ g \in Systems /\ g.table = [f.table EXCEPT ![s] = EmptySlot] /\ g.sb = f.sb
        /\ g.tree = f.tree /\ g.nlinks = f.nlinks /\ g.pins = f.pins /\ g.halt = f.halt
    BY <2>1, <2>2, <2>3 DEF Systems
  <2>6. g.table[s] = EmptySlot /\ \A t \in Slot : t # s => g.table[t] = f.table[t]
    BY <2>2, <2>3, <2>5 DEF Systems
  <2>7. /\ \A t : Hosts(g, t) <=> Hosts(f, t)
        /\ \A d : Known(g, d) <=> Known(f, d)
        /\ SblksOK(g) /\ PinsOK(g)
    BY <2>2, <2>5, SameSblks
  <2>8. CountsOK(g, None, None)
    BY <2>2, <2>3, <2>4, <2>6, <2>7 DEF CountsOK
  <2>9. ~Hosts(f, s)
    BY <2>2, <2>3, Ranges DEF CountsOK, Held
  <2>10. HostsOK(g)
    BY <2>2, <2>4, <2>6, <2>7, <2>9 DEF HostsOK
  <2>11. UsedOK(g)
    BY <2>2, <2>4, <2>6, <2>7 DEF UsedOK
  <2>12. RowsOK(g)
    BY <2>2, <2>4, <2>5, <2>6, SMTT(60) DEF RowsOK, LinksIn
  <2>13. OnceOK(g)
    BY <2>2, <2>4, <2>6 DEF OnceOK
  <2>14. DiskOK(g, None, None)
    BY <2>2, <2>5, Ranges DEF DiskOK, LinksIn, Changed
  <2> QED
    BY <2>2, <2>5, <2>7, <2>8, <2>10, <2>11, <2>12, <2>13, <2>14
    DEF Settled, Clean, Base, Agree, Runs
<1> QED
  BY <1>1, <1>2

LEMMA MountEnds ==
  ASSUME NEW f, NEW x \in Places, Settled(f, x), NEW w, Taken(f, None, w),
         NEW d \in Dev \cup OtherDev
  PROVE  Outcome(DoMount(w, d), x)
<1>1. Outcome(Iput(w.f, w.s), x)
  BY GivesBack
<1>2. CASE w.s = None
  <2>1. DoMount(w, d) = Iput(w.f, w.s)
    BY <1>2 DEF DoMount, Iput
  <2> QED
    BY <1>1, <2>1
<1>3. CASE w.s # None /\ (w.f.table[w.s].cnt # 1 \/ w.f.table[w.s].num = ROOT_IND_NR)
  <2>1. DoMount(w, d) = Iput(w.f, w.s)
    BY <1>3 DEF DoMount
  <2> QED
    BY <1>1, <2>1
<1>4. CASE w.s # None /\ ~(w.f.table[w.s].cnt # 1 \/ w.f.table[w.s].num = ROOT_IND_NR)
  <2> DEFINE g == GetSblk(w.f, d)
  <2>1. DoMount(w, d) = MountOn(g, w.s, d)
    BY <1>4 DEF DoMount
  <2>2. w.s \in Slot /\ Runs(w.f) /\ Base(w.f, None, w.s) /\ Agree(w.f, None, w.s)
          /\ w.f.sb = f.sb /\ w.f.tree = f.tree
    BY <1>4 DEF Taken
  <2>3. GetSblkTo(w.f, None, w.s, d, g)
    BY <2>2, GetSblkGives
  <2> HIDE DEF g
  <2>4. Base(g.f, None, w.s) /\ MoreSblks(w.f, g.f)
    BY <2>3 DEF GetSblkTo
  <2>5. Agree(g.f, None, w.s) /\ \A e \in Dev : Known(w.f, e) => Known(g.f, e)
    BY <2>2, <2>4, MoreAgree
  <2>6. g.f.table = w.f.table /\ g.f.tree = f.tree /\ Runs(g.f)
    BY <2>2, <2>4 DEF MoreSblks, SameBut, Runs
  <2>7. \A e \in Dev : Known(f, e) => Known(g.f, e)
    BY <2>2, <2>5, SameSblks
  <2>8. x.dev \in Dev
    BY PlaceIs
  <2>9. CASE ~MayMount(g)
    <3> DEFINE h == Iput(g.f, w.s)
    <3>1. DoMount(w, d) = h
      BY <2>1, <2>9 DEF MountOn
    <3>2. Base(g.f, w.s, None) /\ Agree(g.f, w.s, None)
      BY <2>4, <2>5, Swap
    <3>3. Base(h, None, None) /\ Agree(h, None, None) /\ Alike(g.f, h)
      BY <2>2, <3>2, PutBack
    <3> HIDE DEF h
    <3>4. Runs(h) /\ h.tree = f.tree /\ h.sb = g.f.sb
      BY <2>6, <3>3 DEF Alike, Runs
    <3>5. Settled(h, x)
      BY <2>7, <2>8, <3>3, <3>4, SameSblks DEF Settled, Clean
    <3> QED
      BY <3>1, <3>3, <3>5 DEF Outcome
  <2>10. CASE MayMount(g)
    <3> DEFINE h == Mounts(g.f, g.b, w.s, d)
    <3>1. DoMount(w, d) = h
      BY <2>1, <2>10 DEF MountOn, Mounts
    <3>2. g.b \in Sblk /\ g.f.sb[g.b].dev = d /\ d \in Dev /\ g.f.sb[g.b].host = None
      BY <2>3, <2>10 DEF GetSblkTo, MayMount
    <3>3. g.f \in Systems
      BY <2>4 DEF Base
    <3>4. MountsTo(g.f, g.b, w.s, d, h)
      BY <2>2, <3>2, <3>3, MountsEffect
    <3>5. g.f.table[w.s].num # ROOT_IND_NR /\ ~g.f.table[w.s].mounted /\ ~g.f.table[w.s].dirt
      BY <1>4, <2>2, <2>6 DEF Taken
    <3> HIDE DEF h
    <3>6. Clean(h) /\ h.tree = g.f.tree /\ \A e \in Dev : Known(g.f, e) => Known(h, e)
      BY <2>2, <2>4, <2>5, <2>6, <3>2, <3>4, <3>5, MountsClean
    <3>7. Settled(h, x) /\ Base(h, None, None)
      BY <2>6, <2>7, <2>8, <3>6 DEF Settled, Clean
    <3> QED
      BY <3>1, <3>7 DEF Outcome
  <2> QED
    BY <2>9, <2>10
<1> QED
  BY <1>2, <1>3, <1>4
-----------------------------------------------------------------------------
(***************************************************************************)
(* do_umount().  The super block could be given back first: iput() does    *)
(* not look at it.                                                         *)
(***************************************************************************)
PutTo(f, b, d, g) ==
  /\ g \in Systems /\ g.table = f.table /\ g.tree = f.tree /\ g.nlinks = f.nlinks
  /\ g.halt = f.halt /\ g.sb = [f.sb EXCEPT ![b] = EmptySblk]
  /\ g.pins = [f.pins EXCEPT ![d] = @ - 1]

LEMMA PutEffect ==
  ASSUME NEW f \in Systems, NEW d \in Dev, NEW b \in Sblk, b = Min(SblksOf(f, d)),
         f.pins[d] > 0
  PROVE  PutTo(f, b, d, PutSblk(f, d))
<1> DEFINE g == PutSblk(f, d)
<1> DEFINE pins1 == [f.pins EXCEPT ![d] = @ - 1]
<1> DEFINE none == EmptySblk
<1> SUFFICES PutTo(f, b, d, g)
  OBVIOUS
<1>1. none \in SblkRow
  BY DEF SblkRow, EmptySblk
<1>2. pins1 \in [Dev -> Nat]
  BY DEF Systems
<1>3. g = [f EXCEPT !.pins = pins1, !.sb[b] = none]
  BY DEF PutSblk
<1> HIDE DEF g, pins1, none
<1>4. /\ g.sb = [f.sb EXCEPT ![b] = none] /\ g.pins = pins1 /\ g.table = f.table
      /\ g.tree = f.tree /\ g.nlinks = f.nlinks /\ g.halt = f.halt
  BY <1>3 DEF Systems
<1>5. g \in Systems
  BY <1>1, <1>2, <1>3 DEF Systems
<1> QED
  BY <1>4, <1>5 DEF PutTo, pins1, none

LEMMA SameSystem ==
  ASSUME NEW f \in Systems, NEW g \in Systems, f.table = g.table, f.sb = g.sb, f.tree = g.tree,
         f.nlinks = g.nlinks, f.pins = g.pins, f.halt = g.halt
  PROVE  f = g
BY DEF Systems

LEMMA PutAfter ==
  ASSUME NEW f \in Systems, NEW d \in Dev, NEW b \in Sblk, b = Min(SblksOf(f, d)),
         f.pins[d] > 0, NEW a \in Slot, f.table[a].cnt > 0, f.table[a].nlinks # 0
  PROVE  /\ PutSblk(Iput(f, a), d) = Iput(PutSblk(f, d), a)
         /\ IputTo(f, a, Iput(f, a)) /\ SblksOf(Iput(f, a), d) = SblksOf(f, d)
<1> DEFINE g == Iput(f, a)
           u == PutSblk(f, d)
           h == PutSblk(g, d)
           v == Iput(u, a)
<1>1. IputTo(f, a, g)
  BY IputMakes
<1>2. PutTo(f, b, d, u)
  BY PutEffect
<1> HIDE DEF g, u
<1>3. SblksOf(g, d) = SblksOf(f, d) /\ g \in Systems /\ g.pins[d] > 0
  BY <1>1 DEF IputTo, SblksOf
<1>4. PutTo(g, b, d, h)
  BY <1>3, PutEffect
<1>5. u \in Systems /\ u.table = f.table
  BY <1>2 DEF PutTo
<1>6. IputTo(u, a, v)
  BY <1>5, IputMakes
<1> HIDE DEF h, v
<1>7. h.table = v.table /\ h.tree = v.tree /\ h.halt = v.halt /\ h.sb = v.sb /\ h.pins = v.pins
  BY <1>1, <1>2, <1>4, <1>6 DEF IputTo, PutTo
<1>8. h.nlinks = v.nlinks
  BY <1>1, <1>2, <1>4, <1>6 DEF IputTo, PutTo, Written
<1>9. h \in Systems /\ v \in Systems
  BY <1>4, <1>6 DEF IputTo, PutTo
<1>10. h = v
  BY <1>7, <1>8, <1>9, SameSystem
<1> QED
  BY <1>1, <1>3, <1>10 DEF g, h, u, v
RowFreed(r) == [r EXCEPT !.mounted = FALSE]

FreedTo(f, b, host, d, u) ==
  /\ u \in Systems /\ u.tree = f.tree /\ u.nlinks = f.nlinks /\ u.halt = f.halt
  /\ u.table = [f.table EXCEPT ![host] = RowFreed(f.table[host])]
  /\ u.sb = [f.sb EXCEPT ![b] = EmptySblk]
  /\ u.pins = [f.pins EXCEPT ![d] = @ - 1]

LEMMA UnmountIs ==
  ASSUME NEW f, NEW s \in Slot \cup {None}, Base(f, None, s), Agree(f, None, s),
         s # None => ~f.table[s].mounted,
         NEW b \in Sblk, NEW d \in Dev, f.sb[b].dev = d, f.sb[b].host # None
  PROVE  \E u : /\ FreedTo(f, b, f.sb[b].host, d, u)
                /\ Unmount(f, b, d, s) = Iput(Iput(u, f.sb[b].host), s)
<1> DEFINE host == f.sb[b].host
           row == RowFreed(f.table[host])
           g == [f EXCEPT !.table[host].mounted = FALSE]
           u == PutSblk(g, d)
           h == Iput(g, host)
<1>1. f \in Systems /\ SblksOK(f) /\ PinsOK(f) /\ CountsOK(f, None, s) /\ HostsOK(f)
        /\ RowsOK(f) /\ UsedOK(f)
  BY DEF Base, Agree
<1>2. f.sb \in [Sblk -> SblkRow] /\ f.table \in [Slot -> Row] /\ f.pins \in [Dev -> Nat]
  BY <1>1 DEF Systems
<1>3. host \in Slot /\ Hosts(f, host)
  BY <1>2 DEF SblkRow, Hosts
<1>4. host # s /\ host # None
  BY <1>1, <1>3, Ranges DEF HostsOK
<1>5. SblksOf(f, d) = {b} /\ b = Min(SblksOf(f, d))
  BY <1>1, SblkOf, Ranges
<1>6. f.pins[d] > 0
  <2>1. HasMount(f, d)
    BY DEF HasMount
  <2> QED
    BY <1>1, <1>2, <2>1 DEF PinsOK
<1> HIDE DEF host
<1>7. row \in Row /\ row.cnt = f.table[host].cnt /\ row.nlinks = f.table[host].nlinks
  <2>1. \A r \in Row : RowFreed(r) \in Row /\ RowFreed(r).cnt = r.cnt /\ RowFreed(r).nlinks = r.nlinks
    BY DEF Row, RowFreed
  <2> QED
    BY <1>2, <1>3, <2>1
<1>8. g = [f EXCEPT !.table[host] = row]
  BY DEF RowFreed
<1> HIDE DEF row, g
<1>9. g \in Systems /\ g.table = [f.table EXCEPT ![host] = row] /\ g.sb = f.sb
        /\ g.tree = f.tree /\ g.nlinks = f.nlinks /\ g.pins = f.pins /\ g.halt = f.halt
  BY <1>1, <1>3, <1>7, <1>8 DEF Systems
<1>10. \A t \in Slot : f.table[t].cnt > 0 => f.table[t].nlinks # 0
  <2> SUFFICES ASSUME NEW t \in Slot, f.table[t].cnt > 0 PROVE f.table[t].nlinks # 0
    OBVIOUS
  <2>1. f.table[t] \in Row /\ f.table[t].dev # None
    BY <1>1, <1>2, Ranges DEF UsedOK
  <2> QED
    BY <1>1, <2>1 DEF RowsOK, Row
<1>11. g.table[host].cnt > 0 /\ g.table[host].nlinks # 0
  <2>1. f.table[host].cnt > 0
    BY <1>1, <1>3 DEF CountsOK, Held
  <2>2. g.table[host] = row
    BY <1>2, <1>3, <1>9
  <2> QED
    BY <1>3, <1>7, <1>10, <2>1, <2>2
<1>12. SblksOf(g, d) = SblksOf(f, d)
  BY <1>9 DEF SblksOf
<1>13. b = Min(SblksOf(g, d)) /\ g.pins[d] > 0
  BY <1>5, <1>6, <1>9, <1>12
<1>14. PutTo(g, b, d, u)
  BY <1>9, <1>13, PutEffect
<1>15. FreedTo(f, b, host, d, u)
  BY <1>9, <1>14 DEF PutTo, FreedTo, row
<1>16. PutSblk(h, d) = Iput(u, host) /\ IputTo(g, host, h) /\ SblksOf(h, d) = SblksOf(g, d)
  BY <1>3, <1>9, <1>11, <1>13, PutAfter
<1>17. Unmount(f, b, d, s) = PutSblk(Iput(h, s), d)
  BY DEF Unmount, host, g
<1> HIDE DEF h, u
<1>18. CASE s = None
  <2>1. Iput(h, s) = h /\ Iput(Iput(u, host), s) = Iput(u, host)
    BY <1>18 DEF Iput
  <2>2. Unmount(f, b, d, s) = Iput(Iput(u, host), s)
    BY <2>1, <1>16, <1>17
  <2> QED
    BY <2>2, <1>15 DEF host
<1>19. CASE s # None
  <2>1. s \in Slot /\ f.table[s].cnt > 0
    BY <1>1, <1>2, <1>19 DEF CountsOK, Held
  <2>2. g.table[s] = f.table[s]
    BY <1>2, <1>4, <1>9, <2>1
  <2>3. h.table[s] = g.table[s] /\ h \in Systems /\ h.pins = g.pins
    BY <1>4, <1>9, <1>16, <2>1 DEF IputTo, Systems
  <2>4. h.table[s].cnt > 0 /\ h.table[s].nlinks # 0 /\ b = Min(SblksOf(h, d)) /\ h.pins[d] > 0
    BY <1>10, <1>13, <1>16, <2>1, <2>2, <2>3
  <2>5. PutSblk(Iput(h, s), d) = Iput(PutSblk(h, d), s)
    BY <2>1, <2>3, <2>4, PutAfter
  <2>6. Unmount(f, b, d, s) = Iput(Iput(u, host), s)
    BY <2>5, <1>16, <1>17
  <2> QED
    BY <2>6, <1>15 DEF host
<1> QED
  BY <1>18, <1>19
LEMMA FreedAgree ==
  ASSUME NEW f, NEW s \in Slot \cup {None}, Base(f, None, s), Agree(f, None, s),
         s # None => ~f.table[s].mounted,
         NEW b \in Sblk, NEW d \in Dev, f.sb[b].dev = d, f.sb[b].host # None,
         d # ROOT_DEV, ~InUse(f, d), NEW u, FreedTo(f, b, f.sb[b].host, d, u)
  PROVE  /\ f.sb[b].host \in Slot /\ Base(u, f.sb[b].host, s) /\ Agree(u, f.sb[b].host, s)
         /\ \A e \in Dev : e # d /\ Known(f, e) => Known(u, e)
<1> DEFINE host == f.sb[b].host
<1>1. /\ f \in Systems /\ SblksOK(f) /\ PinsOK(f) /\ CountsOK(f, None, s) /\ HostsOK(f)
      /\ RowsOK(f) /\ UsedOK(f) /\ OnceOK(f) /\ DiskOK(f, None, s)
  BY DEF Base, Agree
<1>2. f.sb \in [Sblk -> SblkRow] /\ f.table \in [Slot -> Row] /\ f.pins \in [Dev -> Nat]
  BY <1>1 DEF Systems
<1>3. host \in Slot /\ Hosts(f, host)
  BY <1>2 DEF SblkRow, Hosts
<1>4. host # s /\ host # None
  BY <1>1, <1>3, Ranges DEF HostsOK
<1> HIDE DEF host
<1>5. u \in Systems /\ u.tree = f.tree /\ u.nlinks = f.nlinks
        /\ u.table = [f.table EXCEPT ![host] = RowFreed(f.table[host])]
        /\ u.sb = [f.sb EXCEPT ![b] = EmptySblk] /\ u.pins = [f.pins EXCEPT ![d] = @ - 1]
  BY DEF FreedTo, host
<1>6. u.sb[b] = EmptySblk /\ \A c \in Sblk : c # b => u.sb[c] = f.sb[c]
  BY <1>2, <1>5
<1>7. EmptySblk.dev = None /\ EmptySblk.host = None /\ ~EmptySblk.maps
  BY DEF EmptySblk
<1>8. /\ \A t \in Slot : t # host => u.table[t] = f.table[t]
      /\ ~u.table[host].mounted
      /\ \A t \in Slot : /\ u.table[t].cnt = f.table[t].cnt /\ u.table[t].dev = f.table[t].dev
                         /\ u.table[t].num = f.table[t].num /\ u.table[t].dirt = f.table[t].dirt
                         /\ u.table[t].nlinks = f.table[t].nlinks
  <2>1. u.table[host] = RowFreed(f.table[host]) /\ f.table[host] \in Row
    BY <1>2, <1>3, <1>5
  <2>2. \A t \in Slot : t # host => u.table[t] = f.table[t]
    BY <1>2, <1>5
  <2>3. /\ ~u.table[host].mounted
        /\ u.table[host].cnt = f.table[host].cnt /\ u.table[host].dev = f.table[host].dev
        /\ u.table[host].num = f.table[host].num /\ u.table[host].dirt = f.table[host].dirt
        /\ u.table[host].nlinks = f.table[host].nlinks
    BY <2>1 DEF RowFreed, Row
  <2> QED
    BY <2>2, <2>3
<1>9. \A t \in Slot : Hosts(u, t) <=> Hosts(f, t) /\ t # host
  <2> SUFFICES ASSUME NEW t \in Slot PROVE Hosts(u, t) <=> Hosts(f, t) /\ t # host
    OBVIOUS
  <2>1. ASSUME t = host, Hosts(u, t) PROVE FALSE
    <3>1. PICK c \in Sblk : u.sb[c].host = t
      BY <2>1 DEF Hosts
    <3>2. c # b
      BY <3>1, <2>1, <1>4, <1>6, <1>7
    <3> QED
      BY <3>1, <3>2, <2>1, <1>1, <1>6, <1>4 DEF SblksOK, host
  <2>2. t # host => (Hosts(u, t) <=> Hosts(f, t))
    BY <1>6, <1>7, Ranges DEF Hosts, host
  <2> QED
    BY <2>1, <2>2
<1>10. \A e \in Dev : HasMount(u, e) <=> HasMount(f, e) /\ e # d
  <2> SUFFICES ASSUME NEW e \in Dev PROVE HasMount(u, e) <=> HasMount(f, e) /\ e # d
    OBVIOUS
  <2>1. e # d => (HasMount(u, e) <=> HasMount(f, e))
    BY <1>6, <1>7 DEF HasMount
  <2>2. ASSUME HasMount(u, d) PROVE FALSE
    <3>1. PICK c \in Sblk : u.sb[c].dev = d /\ u.sb[c].host # None
      BY <2>2 DEF HasMount
    <3> QED
      BY <3>1, <1>1, <1>6, <1>7, Ranges DEF SblksOK
  <2> QED
    BY <2>1, <2>2
<1>11. \A e \in Dev : e # d /\ Known(f, e) => Known(u, e)
  <2> SUFFICES ASSUME NEW e \in Dev, e # d, NEW c \in Sblk, f.sb[c].dev = e, f.sb[c].maps
               PROVE  Known(u, e)
    BY DEF Known
  <2>1. c # b /\ u.sb[c] = f.sb[c]
    BY <1>6
  <2> QED
    BY <2>1 DEF Known
<1>12. SblksOK(u)
  <2>1. \A c \in Sblk : u.sb[c].host # None => u.sb[c].dev # None /\ u.sb[c].maps
    BY <1>1, <1>6, <1>7 DEF SblksOK
  <2>2. ASSUME NEW c \in Sblk, NEW e \in Sblk, u.sb[c].dev = u.sb[e].dev, u.sb[c].dev # None
        PROVE  c = e
    BY <1>1, <1>6, <1>7, <2>2 DEF SblksOK
  <2>3. ASSUME NEW c \in Sblk, NEW e \in Sblk, u.sb[c].host = u.sb[e].host, u.sb[c].host # None
        PROVE  c = e
    BY <1>1, <1>6, <1>7, <2>3 DEF SblksOK
  <2>4. Known(u, ROOT_DEV)
    BY <1>1, <1>11, Ranges DEF SblksOK
  <2> QED
    BY <2>1, <2>2, <2>3, <2>4 DEF SblksOK
<1>13. PinsOK(u)
  <2> SUFFICES ASSUME NEW e \in Dev
               PROVE  u.pins[e] = (IF HasMount(u, e) THEN 1 ELSE 0) + (IF e = ROOT_DEV THEN 1 ELSE 0)
    BY DEF PinsOK
  <2>1. f.pins[e] = (IF HasMount(f, e) THEN 1 ELSE 0) + (IF e = ROOT_DEV THEN 1 ELSE 0)
    BY <1>1 DEF PinsOK
  <2>2. CASE e = d
    <3>1. HasMount(f, d) /\ ~HasMount(u, d)
      BY <1>10 DEF HasMount
    <3>2. u.pins[d] = f.pins[d] - 1
      BY <1>2, <1>5
    <3> QED
      BY <2>1, <2>2, <3>1, <3>2
  <2>3. CASE e # d
    <3>1. (HasMount(u, e) <=> HasMount(f, e)) /\ u.pins[e] = f.pins[e]
      BY <2>3, <1>2, <1>5, <1>10
    <3> QED
      BY <2>1, <3>1
  <2> QED
    BY <2>2, <2>3
<1>14. CountsOK(u, host, s)
  <2> SUFFICES ASSUME NEW t \in Slot
               PROVE  u.table[t].cnt = (IF Hosts(u, t) THEN 1 ELSE 0) + Held(t, host, s)
    BY DEF CountsOK
  <2>1. u.table[t].cnt = (IF Hosts(f, t) THEN 1 ELSE 0) + Held(t, None, s)
    BY <1>1, <1>8 DEF CountsOK
  <2>2. CASE t = host
    <3>1. Held(t, None, s) = 0 /\ Held(t, host, s) = 1
      BY <2>2, <1>3, <1>4 DEF Held
    <3>2. Hosts(f, t) /\ ~Hosts(u, t)
      BY <2>2, <1>3, <1>9
    <3> QED
      BY <2>1, <3>1, <3>2
  <2>3. CASE t # host
    <3>1. Held(t, None, s) = Held(t, host, s)
      BY <2>3, Ranges DEF Held
    <3>2. Hosts(f, t) <=> Hosts(u, t)
      BY <2>3, <1>9
    <3> QED
      BY <2>1, <3>1, <3>2
  <2> QED
    BY <2>2, <2>3
<1>15. HostsOK(u)
  <2> SUFFICES ASSUME NEW t \in Slot
               PROVE  /\ u.table[t].mounted <=> Hosts(u, t)
                      /\ Hosts(u, t) => u.table[t].num # ROOT_IND_NR
    BY DEF HostsOK
  <2>1. CASE t = host
    BY <2>1, <1>8, <1>9
  <2>2. CASE t # host
    BY <2>2, <1>1, <1>8, <1>9 DEF HostsOK
  <2> QED
    BY <2>1, <2>2
<1>16. UsedOK(u)
  <2> SUFFICES ASSUME NEW t \in Slot
               PROVE  /\ u.table[t].cnt > 0 => u.table[t].dev \in Dev /\ Known(u, u.table[t].dev)
                      /\ u.table[t].dirt => u.table[t].cnt > 0
    BY DEF UsedOK
  <2>1. f.table[t].cnt > 0 => f.table[t].dev # d
    BY DEF InUse
  <2> QED
    BY <2>1, <1>1, <1>8, <1>11 DEF UsedOK
<1>17. RowsOK(u)
  BY <1>1, <1>5, <1>8, SMTT(60) DEF RowsOK, LinksIn
<1>18. OnceOK(u)
  BY <1>1, <1>8 DEF OnceOK
<1>19. DiskOK(u, host, s)
  <2> SUFFICES ASSUME NEW e \in Dev
               PROVE  /\ IsTree(u.tree[e])
                      /\ \A i \in Ind :
                           /\ u.nlinks[e][i] > 0
                           /\ i # ROOT_IND_NR /\ u.tree[e][i] # None =>
                                u.nlinks[e][i] = LinksIn(u, e, i) \/ Changed(u, s, e, i)
    BY DEF DiskOK
  <2>1. \A i \in Ind : ~Changed(f, None, e, i) /\ (Changed(f, s, e, i) => Changed(u, s, e, i))
    BY <1>4, <1>8, Ranges DEF Changed
  <2> QED
    BY <2>1, <1>1, <1>5 DEF DiskOK, LinksIn
<1> QED
  BY <1>3, <1>5, <1>11, <1>12, <1>13, <1>14, <1>15, <1>16, <1>17, <1>18, <1>19
  DEF Base, Agree, host
(***************************************************************************)
(* No inode of d is in use: the current directory is not on d, if it is    *)
(* still there.                                                            *)
(***************************************************************************)
LEMMA CwdElsewhere ==
  ASSUME NEW h, NEW x \in Places, Settled(h, x), NEW v, IgetTo(h, None, x, v), Runs(v.f),
         NEW d, ~InUse(v.f, d), h.tree[x.dev][x.num] # None
  PROVE  x.dev # d
<1>1. v.s \in Slot /\ Enters(h, x, At(v.f, v.s)) /\ Kept(h, v.f) /\ v.f.sb = h.sb
        /\ CountsOK(v.f, None, v.s) /\ v.f.table \in [Slot -> Row]
  BY DEF IgetTo, Taken, Base, Systems
<1>2. \A t \in Slot : v.f.table[t].cnt > 0 => v.f.table[t].dev # d
  BY DEF InUse
<1>3. CASE At(v.f, v.s) = x
  <2>1. v.f.table[v.s].dev = x.dev
    BY <1>3 DEF At
  <2>2. v.f.table[v.s].cnt > 0
    BY <1>1 DEF CountsOK, Held
  <2> QED
    BY <1>1, <1>2, <2>1, <2>2
<1>4. CASE At(v.f, v.s) # x
  <2>1. PICK b \in Sblk : h.sb[b].host # None /\ At(h, h.sb[b].host) = x
    BY <1>1, <1>4 DEF Enters
  <2> DEFINE t == h.sb[b].host
  <2>2. t \in Slot /\ Hosts(h, t) /\ Hosts(v.f, t)
    BY <1>1, <2>1 DEF Settled, Clean, Base, Systems, SblkRow, Hosts
  <2> HIDE DEF t
  <2>3. h.table[t].cnt > 0 /\ v.f.table[t].cnt > 0
    BY <1>1, <2>2 DEF Settled, Clean, Base, CountsOK, Held
  <2>4. v.f.table[t].dev = x.dev
    BY <1>1, <2>1, <2>2, <2>3 DEF Kept, At, t
  <2> QED
    BY <1>2, <2>2, <2>3, <2>4
<1> QED
  BY <1>3, <1>4

LEMMA UmountEnds ==
  ASSUME NEW f, cwd \in Places, Settled(f, cwd), NEW w, Taken(f, None, w)
  PROVE  Outcome(DoUmount(w), cwd)
<1> DEFINE h == Iput(w.f, w.s)
<1>1. Outcome(h, cwd)
  BY GivesBack
<1>2. CASE w.s = None
  <2>1. DoUmount(w) = h
    BY <1>2 DEF DoUmount, Iput
  <2> QED
    BY <1>1, <2>1
<1>3. CASE w.s # None
  <2> DEFINE d == w.f.table[w.s].dev
             g == GetSblk(h, d)
             v == Iget(h, cwd)
  <2>1. Runs(w.f)
    BY <1>3 DEF Taken
  <2>2. /\ Settled(h, cwd) /\ h.sb = f.sb /\ At(w.f, w.s) \in Places
        /\ Known(f, At(w.f, w.s).dev)
    BY <1>3, <2>1, GivesBack
  <2>3. At(w.f, w.s).dev = d
    BY DEF At
  <2>4. d \in Dev /\ Known(h, d)
    BY <2>2, <2>3, PlaceIs, SameSblks
  <2>5. DoUmount(w) = UmountDev(g, d)
    BY <1>3 DEF DoUmount
  <2> HIDE DEF h, d
  <2>6. g.f = h /\ g.b \in Sblk /\ h.sb[g.b].dev = d
    BY <2>2, <2>4, GetSblkKnown DEF Settled, Clean, Base
  <2>7. IgetTo(h, None, cwd, v)
    BY <2>2, IgetGives DEF Settled, Clean
  <2>8. Taken(h, None, v)
    BY <2>7 DEF IgetTo
  <2> HIDE DEF g, v
  <2>9. Outcome(Iput(v.f, v.s), cwd)
    BY <2>2, <2>8, GivesBack
  <2>10. CASE d = ROOT_DEV \/ h.sb[g.b].host = None
    <3>1. DoUmount(w) = h
      BY <2>5, <2>6, <2>10 DEF UmountDev
    <3> QED
      BY <1>1, <3>1 DEF h
  <2>11. CASE ~(d = ROOT_DEV \/ h.sb[g.b].host = None) /\ ~Runs(v.f)
    <3>1. DoUmount(w) = v.f
      BY <2>5, <2>6, <2>11 DEF UmountDev, UmountUnused, v, Runs
    <3>2. Iput(v.f, v.s) = v.f
      BY <2>8, <2>11 DEF Taken, Iput
    <3> QED
      BY <2>9, <3>1, <3>2
  <2>12. CASE ~(d = ROOT_DEV \/ h.sb[g.b].host = None) /\ Runs(v.f) /\ InUse(v.f, d)
    <3>1. DoUmount(w) = Iput(v.f, v.s)
      BY <2>5, <2>6, <2>12 DEF UmountDev, UmountUnused, v, Runs
    <3> QED
      BY <2>9, <3>1
  <2>13. CASE ~(d = ROOT_DEV \/ h.sb[g.b].host = None) /\ Runs(v.f) /\ ~InUse(v.f, d)
    <3> DEFINE b == g.b
    <3>1. DoUmount(w) = Unmount(v.f, b, d, v.s)
      BY <2>5, <2>6, <2>13 DEF UmountDev, UmountUnused, v, Runs
    <3>2. /\ Base(v.f, None, v.s) /\ Agree(v.f, None, v.s) /\ v.s \in Slot \cup {None}
          /\ (v.s # None => ~v.f.table[v.s].mounted) /\ v.f.sb = h.sb /\ v.f.tree = h.tree
      BY <2>8, <2>13 DEF Taken
    <3>3. b \in Sblk /\ v.f.sb[b].dev = d /\ v.f.sb[b].host # None /\ d # ROOT_DEV
      BY <2>6, <2>13, <3>2
    <3> HIDE DEF b
    <3> DEFINE host == v.f.sb[b].host
    <3>4. PICK u : /\ FreedTo(v.f, b, v.f.sb[b].host, d, u)
                   /\ Unmount(v.f, b, d, v.s) = Iput(Iput(u, v.f.sb[b].host), v.s)
      BY <2>4, <3>2, <3>3, UnmountIs
    <3>5. /\ host \in Slot /\ Base(u, host, v.s) /\ Agree(u, host, v.s)
          /\ \A e \in Dev : e # d /\ Known(v.f, e) => Known(u, e)
      <4>1. /\ v.s \in Slot \cup {None} /\ Base(v.f, None, v.s) /\ Agree(v.f, None, v.s)
            /\ v.s # None => ~v.f.table[v.s].mounted
        BY <3>2
      <4>2. /\ b \in Sblk /\ d \in Dev /\ v.f.sb[b].dev = d /\ v.f.sb[b].host # None
            /\ d # ROOT_DEV /\ ~InUse(v.f, d)
        BY <2>4, <2>13, <3>3
      <4>3. FreedTo(v.f, b, v.f.sb[b].host, d, u)
        BY <3>4
      <4>4. /\ v.f.sb[b].host \in Slot /\ Base(u, v.f.sb[b].host, v.s)
            /\ Agree(u, v.f.sb[b].host, v.s)
            /\ \A e \in Dev : e # d /\ Known(v.f, e) => Known(u, e)
        BY ONLY <4>1, <4>2, <4>3, FreedAgree
      <4> QED
        BY <4>4
    <3>6. u.tree = h.tree /\ Runs(u)
      BY <2>13, <3>2, <3>4 DEF FreedTo, Runs
    <3> DEFINE u1 == Iput(u, host)
               u2 == Iput(u1, v.s)
    <3>7. DoUmount(w) = u2
      BY <3>1, <3>4
    <3> HIDE DEF host
    <3>8. Base(u1, None, v.s) /\ Agree(u1, None, v.s) /\ Alike(u, u1)
      BY <3>5, PutBack
    <3>9. Base(u2, None, None) /\ Agree(u2, None, None) /\ Alike(u1, u2)
      <4>1. CASE v.s = None
        BY <3>8, <4>1 DEF Iput, Alike
      <4>2. CASE v.s # None
        <5>1. v.s \in Slot /\ Base(u1, v.s, None) /\ Agree(u1, v.s, None)
          BY <3>2, <3>8, <4>2, Swap
        <5> HIDE DEF u1
        <5> QED
          BY <5>1, PutBack
      <4> QED
        BY <4>1, <4>2
    <3> HIDE DEF u1, u2
    <3>10. Runs(u2) /\ u2.tree = h.tree /\ u2.sb = u.sb
      BY <3>6, <3>8, <3>9 DEF Alike, Runs
    <3>11. ASSUME u2.tree[cwd.dev][cwd.num] # None PROVE Known(u2, cwd.dev)
      <4>1. cwd.dev # d
        BY <2>2, <2>7, <2>13, <3>10, <3>11, CwdElsewhere
      <4>2. Known(v.f, cwd.dev) /\ cwd.dev \in Dev
        BY <2>2, <3>2, <3>10, <3>11, PlaceIs, SameSblks DEF Settled
      <4>3. Known(u, cwd.dev)
        BY <3>5, <4>1, <4>2
      <4> QED
        BY <3>10, <4>3, SameSblks
    <3>12. Settled(u2, cwd)
      BY <3>9, <3>10, <3>11 DEF Settled, Clean
    <3> QED
      BY <3>7, <3>9, <3>12 DEF Outcome
  <2> QED
    BY <2>10, <2>11, <2>12, <2>13
<1> QED
  BY <1>2, <1>3
-----------------------------------------------------------------------------
(***************************************************************************)
(* do_mkdir().  A directory more changes the links of its parent only.     *)
(***************************************************************************)
Grown(t, i, p, u) == t[i] = None /\ u[i] = p /\ \A j \in Ind \ {i} : u[j] = t[j]

LEMMA OneChild ==
  ASSUME NEW t, NEW i \in Ind \ {ROOT_IND_NR}, NEW p \in Ind, NEW u, Grown(t, i, p, u)
  PROVE  /\ Cardinality(Children(u, p)) = Cardinality(Children(t, p)) + 1
         /\ \A q \in Ind \ {p} : Children(u, q) = Children(t, q)
<1>1. Children(u, p) = Children(t, p) \cup {i} /\ i \notin Children(t, p)
  BY Ranges DEF Children, Grown
<1>2. IsFiniteSet(Children(t, p))
  BY ChildrenFinite
<1>3. Cardinality(Children(u, p)) = Cardinality(Children(t, p)) + 1
  BY <1>1, <1>2, FS_AddElement
<1>4. \A q \in Ind \ {p} : Children(u, q) = Children(t, q)
  BY Ranges DEF Children, Grown
<1> QED
  BY <1>3, <1>4

MkdirTo(f, s, v, i, h) ==
  LET d == f.table[s].dev
  IN  /\ h \in Systems /\ h.sb = f.sb /\ h.nlinks = f.nlinks /\ h.pins = f.pins /\ h.halt = f.halt
      /\ h.tree = [f.tree EXCEPT ![d] = [@ EXCEPT ![i] = f.table[s].num]]
      /\ h.table[s] = Linked(f.table[s], 1) /\ h.table[v] = Seated(d, i, 2, TRUE)
      /\ \A t \in Slot \ {s, v} : h.table[t] = f.table[t]

LEMMA LinkedRow ==
  ASSUME NEW r \in Row, NEW change \in Int, r.nlinks + change \in Nat
  PROVE  Linked(r, change) \in Row
<1> DEFINE n == r.nlinks + change
<1>1. n \in Nat
  OBVIOUS
<1>2. Linked(r, change) = [r EXCEPT !.nlinks = n, !.dirt = TRUE]
  BY DEF Linked
<1> HIDE DEF n
<1>3. [r EXCEPT !.nlinks = n, !.dirt = TRUE] \in Row
  BY <1>1 DEF Row
<1> QED
  BY <1>2, <1>3

LEMMA MkdirTree ==
  ASSUME NEW t, IsTree(t), NEW i \in Ind, t[i] = None, NEW p \in Ind, t[p] # None,
         NEW u, u = [t EXCEPT ![i] = p]
  PROVE  /\ IsTree(u) /\ i # ROOT_IND_NR /\ i # p /\ Grown(t, i, p, u) /\ Children(u, i) = {}
<1>1. t \in Tree /\ t[ROOT_IND_NR] = ROOT_IND_NR /\ \A j \in Ind : t[j] # None => t[t[j]] # None
  BY DEF IsTree
<1>2. i # ROOT_IND_NR /\ i # p
  BY <1>1, Ranges
<1>3. Grown(t, i, p, u) /\ u \in Tree
  BY <1>1 DEF Tree, Grown
<1>4. \A j \in Ind : t[j] # i
  BY <1>1, Ranges
<1>5. Children(u, i) = {}
  BY <1>2, <1>3, <1>4 DEF Children, Grown
<1>6. \A j \in Ind : u[j] # None => u[u[j]] # None
  <2> SUFFICES ASSUME NEW j \in Ind, u[j] # None PROVE u[u[j]] # None
    OBVIOUS
  <2>1. CASE j = i
    BY <2>1, <1>2, <1>3 DEF Grown
  <2>2. CASE j # i
    <3>1. u[j] = t[j] /\ t[j] \in Ind /\ t[j] # i /\ t[t[j]] # None
      BY <2>2, <1>1, <1>3, <1>4 DEF Grown, Tree
    <3>2. u[t[j]] = t[t[j]]
      BY <3>1, <1>3 DEF Grown
    <3> QED
      BY <3>1, <3>2
  <2> QED
    BY <2>1, <2>2
<1> QED
  BY <1>1, <1>2, <1>3, <1>5, <1>6, Ranges DEF IsTree, Grown
LEMMA MkdirAgree ==
  ASSUME NEW f, NEW s \in Slot, Base(f, None, s), Agree(f, None, s), ~f.table[s].mounted,
         NEW v \in Slot, v # s, f.table[v].cnt = 0,
         NEW i \in Ind, f.tree[f.table[s].dev][i] = None, NEW h, MkdirTo(f, s, v, i, h)
  PROVE  Base(h, s, v) /\ Agree(h, s, v)
<1> DEFINE d == f.table[s].dev
           p == f.table[s].num
<1>1. /\ f \in Systems /\ SblksOK(f) /\ PinsOK(f) /\ CountsOK(f, None, s) /\ HostsOK(f)
      /\ RowsOK(f) /\ UsedOK(f) /\ OnceOK(f) /\ DiskOK(f, None, s)
  BY DEF Base, Agree
<1>2. f.table \in [Slot -> Row] /\ f.tree \in [Dev -> Tree]
  BY <1>1 DEF Systems
<1>3. Base(f, s, None) /\ Agree(f, s, None)
  BY Swap
<1>4. d \in Dev /\ p \in Ind /\ Known(f, d) /\ f.tree[d][p] # None /\ f.table[s] \in Row
        /\ f.table[s].nlinks > 0
  BY <1>3, HeldRow
<1> HIDE DEF d, p
<1>5. /\ h \in Systems /\ h.sb = f.sb /\ h.nlinks = f.nlinks /\ h.pins = f.pins
      /\ h.tree = [f.tree EXCEPT ![d] = [@ EXCEPT ![i] = p]]
      /\ h.table[s] = Linked(f.table[s], 1) /\ h.table[v] = Seated(d, i, 2, TRUE)
      /\ \A t \in Slot \ {s, v} : h.table[t] = f.table[t]
  BY DEF MkdirTo, d, p
<1>6. h.tree[d] = [f.tree[d] EXCEPT ![i] = p] /\ \A e \in Dev : e # d => h.tree[e] = f.tree[e]
  BY <1>2, <1>4, <1>5
<1>7. /\ IsTree(h.tree[d]) /\ i # ROOT_IND_NR /\ i # p /\ Grown(f.tree[d], i, p, h.tree[d])
      /\ Children(h.tree[d], i) = {}
  <2>1. IsTree(f.tree[d]) /\ f.tree[d][i] = None
    BY <1>1, <1>4 DEF DiskOK, d
  <2> QED
    BY <2>1, <1>4, <1>6, MkdirTree
<1>8. /\ LinksIn(h, d, p) = LinksIn(f, d, p) + 1 /\ LinksIn(h, d, i) = 2
      /\ \A q \in Ind \ {p} : LinksIn(h, d, q) = LinksIn(f, d, q)
      /\ \A e \in Dev : e # d => \A q \in Ind : LinksIn(h, e, q) = LinksIn(f, e, q)
  <2>1. i \in Ind \ {ROOT_IND_NR}
    BY <1>7
  <2>2. Cardinality(Children(h.tree[d], p)) = Cardinality(Children(f.tree[d], p)) + 1
          /\ \A q \in Ind \ {p} : Children(h.tree[d], q) = Children(f.tree[d], q)
    BY <1>4, <1>7, <2>1, OneChild
  <2>3. Cardinality(Children(f.tree[d], p)) \in Nat
    BY ChildrenFinite
  <2>4. LinksIn(h, d, p) = LinksIn(f, d, p) + 1
    BY <2>2, <2>3 DEF LinksIn
  <2>5. LinksIn(h, d, i) = 2
    BY <1>7, NoChildren DEF LinksIn
  <2> QED
    BY <1>6, <2>2, <2>4, <2>5 DEF LinksIn
<1>9. /\ h.table[s].dirt /\ h.table[s].nlinks = f.table[s].nlinks + 1
      /\ h.table[s].cnt = f.table[s].cnt /\ h.table[s].dev = d /\ h.table[s].num = p
      /\ (h.table[s].mounted <=> f.table[s].mounted)
  <2>1. \A r \in Row : /\ Linked(r, 1).dirt /\ Linked(r, 1).nlinks = r.nlinks + 1
                       /\ Linked(r, 1).cnt = r.cnt /\ Linked(r, 1).dev = r.dev
                       /\ Linked(r, 1).num = r.num
    BY DEF Row, Linked
  <2>2. \A r \in Row : Linked(r, 1).mounted = r.mounted
    BY DEF Row, Linked
  <2> QED
    BY <1>4, <1>5, <2>1, <2>2 DEF d, p
<1>10. /\ h.table[v].dev = d /\ h.table[v].num = i /\ h.table[v].cnt = 1
       /\ h.table[v].nlinks = 2 /\ h.table[v].dirt /\ ~h.table[v].mounted
  BY <1>5 DEF Seated
<1>11. /\ \A t : Hosts(h, t) <=> Hosts(f, t)
       /\ \A e : Known(h, e) <=> Known(f, e)
       /\ SblksOK(h) /\ PinsOK(h)
  BY <1>1, <1>5, SameSblks
<1>12. ~Hosts(f, v) /\ ~Hosts(f, s)
  <2>1. ~Hosts(f, v)
    BY <1>1 DEF CountsOK, Held
  <2> QED
    BY <1>1, <2>1 DEF HostsOK
<1>13. \A t \in Slot : f.table[t].dev # None => f.table[t].num \in Ind /\ f.table[t].dev \in Dev
  BY <1>1, <1>2 DEF RowsOK, Row
<1>14. \A t \in Slot : ~(f.table[t].dev = d /\ f.table[t].num = i)
  BY <1>1, <1>4, Ranges DEF RowsOK, d
<1>15. CountsOK(h, s, v)
  <2> SUFFICES ASSUME NEW t \in Slot
               PROVE  h.table[t].cnt = (IF Hosts(h, t) THEN 1 ELSE 0) + Held(t, s, v)
    BY DEF CountsOK
  <2>1. f.table[t].cnt = (IF Hosts(f, t) THEN 1 ELSE 0) + Held(t, None, s)
    BY <1>1 DEF CountsOK
  <2>2. CASE t = v
    <3>1. Held(t, s, v) = 1 /\ ~Hosts(h, t)
      BY <2>2, <1>11, <1>12 DEF Held
    <3> QED
      BY <3>1, <2>2, <1>10
  <2>3. CASE t # v
    <3>1. Held(t, s, v) = Held(t, None, s)
      BY <2>3, Ranges DEF Held
    <3>2. h.table[t].cnt = f.table[t].cnt
      BY <2>3, <1>5, <1>9
    <3> QED
      BY <2>1, <3>1, <3>2, <1>11
  <2> QED
    BY <2>2, <2>3
<1>16. HostsOK(h)
  <2> SUFFICES ASSUME NEW t \in Slot
               PROVE  /\ h.table[t].mounted <=> Hosts(h, t)
                      /\ Hosts(h, t) => h.table[t].num # ROOT_IND_NR
    BY DEF HostsOK
  <2>1. CASE t = v
    BY <2>1, <1>10, <1>11, <1>12
  <2>2. CASE t = s
    BY <2>2, <1>9, <1>11, <1>12
  <2>3. CASE t # v /\ t # s
    BY <2>3, <1>1, <1>5, <1>11 DEF HostsOK
  <2> QED
    BY <2>1, <2>2, <2>3
<1>17. UsedOK(h)
  <2> SUFFICES ASSUME NEW t \in Slot
               PROVE  /\ h.table[t].cnt > 0 => h.table[t].dev \in Dev /\ Known(h, h.table[t].dev)
                      /\ h.table[t].dirt => h.table[t].cnt > 0
    BY DEF UsedOK
  <2>1. CASE t = v
    BY <2>1, <1>4, <1>10, <1>11
  <2>2. CASE t = s
    <3>1. h.table[s].cnt > 0
      BY <1>1, <1>4, <1>9, <1>12, Ranges DEF CountsOK, Held
    <3> QED
      BY <2>2, <3>1, <1>4, <1>9, <1>11
  <2>3. CASE t # v /\ t # s
    BY <2>3, <1>1, <1>5, <1>11 DEF UsedOK
  <2> QED
    BY <2>1, <2>2, <2>3
<1>18. ASSUME NEW e \in Dev, NEW j \in Ind, ~(e = d /\ j = i)
       PROVE  h.tree[e][j] = f.tree[e][j]
  BY <1>6, <1>7, <1>18 DEF Grown
<1>19. RowsOK(h)
  <2> SUFFICES ASSUME NEW t \in Slot, h.table[t].dev # None
               PROVE  /\ h.table[t].num # None /\ h.tree[h.table[t].dev][h.table[t].num] # None
                      /\ h.table[t].nlinks > 0
                      /\ h.table[t].num # ROOT_IND_NR =>
                           h.table[t].nlinks = LinksIn(h, h.table[t].dev, h.table[t].num)
    BY DEF RowsOK
  <2>1. CASE t = v
    <3>1. h.tree[d][i] # None
      BY <1>4, <1>7, Ranges DEF Grown
    <3> QED
      BY <2>1, <3>1, <1>8, <1>10, Ranges
  <2>2. CASE t = s
    <3>1. h.tree[d][p] # None
      BY <1>4, <1>7, <1>18
    <3>2. p # ROOT_IND_NR => f.table[s].nlinks = LinksIn(f, d, p)
      BY <1>1, <1>4, Ranges DEF RowsOK, d, p
    <3>3. f.table[s].nlinks + 1 > 0
      BY <1>4 DEF Row
    <3> QED
      BY <2>2, <3>1, <3>2, <3>3, <1>4, <1>8, <1>9, Ranges
  <2>3. CASE t # v /\ t # s
    <3>1. h.table[t] = f.table[t]
      BY <2>3, <1>5
    <3> DEFINE e == f.table[t].dev
               j == f.table[t].num
    <3>2. e \in Dev /\ j \in Ind /\ ~(e = d /\ j = i)
      BY <3>1, <1>13, <1>14
    <3>3. f.tree[e][j] # None /\ f.table[t].nlinks > 0
            /\ (j # ROOT_IND_NR => f.table[t].nlinks = LinksIn(f, e, j))
      BY <3>1, <1>1 DEF RowsOK
    <3>4. j # ROOT_IND_NR => ~(e = d /\ j = p)
      BY <2>3, <3>1, <1>1 DEF OnceOK, d, p
    <3> HIDE DEF e, j
    <3>5. h.tree[e][j] # None
      BY <3>2, <3>3, <1>18
    <3>6. j # ROOT_IND_NR => LinksIn(h, e, j) = LinksIn(f, e, j)
      BY <3>2, <3>4, <1>8
    <3> QED
      BY <3>1, <3>2, <3>3, <3>5, <3>6, Ranges DEF e, j
  <2> QED
    BY <2>1, <2>2, <2>3
<1>20. OnceOK(h)
  <2> SUFFICES ASSUME NEW t \in Slot, NEW z \in Slot, h.table[t].dev # None,
                      h.table[t].dev = h.table[z].dev, h.table[t].num = h.table[z].num,
                      h.table[t].num # ROOT_IND_NR
               PROVE  t = z
    BY DEF OnceOK
  <2>1. \A y \in Slot : y # v => h.table[y].dev = f.table[y].dev /\ h.table[y].num = f.table[y].num
    BY <1>5, <1>9 DEF d, p
  <2>2. CASE t = v \/ z = v
    BY <2>1, <2>2, <1>10, <1>14
  <2>3. CASE t # v /\ z # v
    BY <2>1, <2>3, <1>1 DEF OnceOK
  <2> QED
    BY <2>2, <2>3
<1>21. DiskOK(h, s, v)
  <2> SUFFICES ASSUME NEW e \in Dev
               PROVE  /\ IsTree(h.tree[e])
                      /\ \A j \in Ind :
                           /\ h.nlinks[e][j] > 0
                           /\ j # ROOT_IND_NR /\ h.tree[e][j] # None =>
                                \/ h.nlinks[e][j] = LinksIn(h, e, j)
                                \/ Changed(h, s, e, j) \/ Changed(h, v, e, j)
    BY DEF DiskOK
  <2>1. IsTree(h.tree[e])
    BY <1>1, <1>6, <1>7 DEF DiskOK
  <2>2. \A j \in Ind : h.nlinks[e][j] > 0
    BY <1>1, <1>5 DEF DiskOK
  <2>3. ASSUME NEW j \in Ind, j # ROOT_IND_NR, h.tree[e][j] # None
        PROVE  h.nlinks[e][j] = LinksIn(h, e, j) \/ Changed(h, s, e, j) \/ Changed(h, v, e, j)
    <3>1. CASE e = d /\ j = i
      <4>1. Changed(h, v, d, i)
        BY <1>10 DEF Changed
      <4> QED
        BY <4>1, <3>1
    <3>2. CASE e = d /\ j = p
      <4>1. Changed(h, s, d, p)
        BY <1>9 DEF Changed
      <4> QED
        BY <4>1, <3>2
    <3>3. CASE ~(e = d /\ j = i) /\ ~(e = d /\ j = p)
      <4>1. f.tree[e][j] # None /\ LinksIn(h, e, j) = LinksIn(f, e, j)
        BY <2>3, <3>3, <1>8, <1>18
      <4>2. ~Changed(f, None, e, j) /\ ~Changed(f, s, e, j)
        BY <3>3, Ranges DEF Changed, d, p
      <4> QED
        BY <4>1, <4>2, <2>3, <1>1, <1>5 DEF DiskOK
    <3> QED
      BY <3>1, <3>2, <3>3
  <2> QED
    BY <2>1, <2>2, <2>3
<1> QED
  BY <1>5, <1>11, <1>15, <1>16, <1>17, <1>19, <1>20, <1>21 DEF Base, Agree
LEMMA SameBase ==
  ASSUME NEW f, NEW a, NEW b, Base(f, a, b), NEW g \in Systems, g.sb = f.sb, g.pins = f.pins,
         \A s \in Slot : g.table[s].cnt = f.table[s].cnt
  PROVE  Base(g, a, b)
<1>1. CountsOK(g, a, b)
  BY SameSblks DEF Base, CountsOK
<1> QED
  BY <1>1, SameSblks DEF Base

MakeIn(f, s, v, i) ==
  [f EXCEPT !.tree[f.table[s].dev][i] = f.table[s].num, !.table[v].nlinks = 2,
            !.table[s] = Linked(@, 1)]

MakeInTo(f, s, v, i, new, h) ==
  /\ h \in Systems /\ h.sb = f.sb /\ h.nlinks = f.nlinks /\ h.pins = f.pins
  /\ h.halt = f.halt
  /\ h.tree = [f.tree EXCEPT ![f.table[s].dev] = [@ EXCEPT ![i] = f.table[s].num]]
  /\ h.table[s] = Linked(f.table[s], 1) /\ h.table[v] = new
  /\ \A t \in Slot \ {s, v} : h.table[t] = f.table[t]

LEMMA MakeInEffect ==
  ASSUME NEW f \in Systems, NEW s \in Slot, f.table[s].dev \in Dev, f.table[s].num \in Ind,
         NEW v \in Slot, v # s, NEW i \in Ind, NEW new \in Row,
         [f.table[v] EXCEPT !.nlinks = 2] = new
  PROVE  MakeInTo(f, s, v, i, new, MakeIn(f, s, v, i))
<1> DEFINE h == MakeIn(f, s, v, i)
           d == f.table[s].dev
           tree1 == [f.tree EXCEPT ![d] = [@ EXCEPT ![i] = f.table[s].num]]
           row == Linked(f.table[s], 1)
<1>1. f.table \in [Slot -> Row] /\ f.tree \in [Dev -> Tree]
  BY DEF Systems
<1>2. row \in Row
  <2>1. \A r \in Row : Linked(r, 1) \in Row
    <3> SUFFICES ASSUME NEW r \in Row PROVE Linked(r, 1) \in Row
      OBVIOUS
    <3>1. r.nlinks + 1 \in Nat
      BY DEF Row
    <3> QED
      BY <3>1, LinkedRow
  <2> QED
    BY <1>1, <2>1
<1>3. new \in Row
  OBVIOUS
<1>4. tree1 \in [Dev -> Tree]
  BY <1>1 DEF Tree
<1> DEFINE table1 == [f.table EXCEPT ![v] = new, ![s] = row]
<1>5. h = [f EXCEPT !.tree = tree1, !.table = table1]
  <2>1. [f.table EXCEPT ![v].nlinks = 2, ![s] = Linked(@, 1)] = table1
    BY <1>1
  <2>2. [f.tree EXCEPT ![d][i] = f.table[s].num] = tree1
    OBVIOUS
  <2>3. h = [f EXCEPT !.tree = [f.tree EXCEPT ![d][i] = f.table[s].num],
                      !.table = [f.table EXCEPT ![v].nlinks = 2, ![s] = Linked(@, 1)]]
    BY DEF MakeIn, Systems
  <2> QED
    BY <2>1, <2>2, <2>3
<1>6. table1 \in [Slot -> Row] /\ table1[s] = row /\ table1[v] = new
        /\ \A t \in Slot \ {s, v} : table1[t] = f.table[t]
  BY <1>1, <1>2, <1>3
<1> HIDE DEF h, d, tree1, row, table1
<1>7. /\ h.tree = tree1 /\ h.table = table1 /\ h.sb = f.sb /\ h.nlinks = f.nlinks
      /\ h.pins = f.pins /\ h.halt = f.halt
  BY <1>5 DEF Systems
<1>8. h \in Systems
  BY <1>4, <1>5, <1>6 DEF Systems
<1> QED
  BY <1>6, <1>7, <1>8 DEF h, d, tree1, row, MakeInTo
LEMMA SeatedLinks ==
  ASSUME NEW d, NEW i
  PROVE  [Seated(d, i, 1, TRUE) EXCEPT !.nlinks = 2] = Seated(d, i, 2, TRUE)
<1> DEFINE yes == TRUE
           no == FALSE
           row(n) == [dev |-> d, num |-> i, cnt |-> 1, dirt |-> yes, mounted |-> no, nlinks |-> n]
<1>1. Seated(d, i, 1, TRUE) = row(1) /\ Seated(d, i, 2, TRUE) = row(2)
  BY DEF Seated
<1> HIDE DEF yes, no
<1>2. [row(1) EXCEPT !.nlinks = 2] = row(2)
  OBVIOUS
<1> HIDE DEF row
<1> QED
  BY <1>1, <1>2

MadeTo(f, s, i, n) ==
  \/ n.s = None /\ ~Runs(n.f) /\ Base(n.f, s, None)
  \/ /\ n.s \in Slot /\ n.s # s /\ f.table[n.s].cnt = 0
     /\ MkdirTo(f, s, n.s, i, MakeIn(n.f, s, n.s, i))

LEMMA MkdirMakes ==
  ASSUME NEW f, NEW s \in Slot, Base(f, s, None), Agree(f, s, None),
         NEW i \in Ind, NEW dirt \in BOOLEAN,
         \A d, j : Seated(d, j, 1, dirt) = Seated(d, j, 1, TRUE)
  PROVE  MadeTo(f, s, i, Occupy([f EXCEPT !.tree[f.table[s].dev][i] = i],
                                f.table[s].dev, i, 1, dirt))
<1> DEFINE d == f.table[s].dev
           p == f.table[s].num
           g == [f EXCEPT !.tree[d][i] = i]
           n == Occupy(g, d, i, 1, dirt)
           v == n.s
<1> SUFFICES MadeTo(f, s, i, n)
  OBVIOUS
<1>1. f \in Systems /\ f.table \in [Slot -> Row] /\ f.tree \in [Dev -> Tree]
  BY DEF Base, Systems
<1>2. d \in Dev /\ p \in Ind
  BY HeldRow
<1>3. /\ g \in Systems /\ g.sb = f.sb /\ g.table = f.table /\ g.nlinks = f.nlinks
      /\ g.pins = f.pins /\ g.halt = f.halt
      /\ g.tree = [f.tree EXCEPT ![d] = [@ EXCEPT ![i] = i]]
  <2>1. [f.tree EXCEPT ![d] = [@ EXCEPT ![i] = i]] \in [Dev -> Tree]
    BY <1>1 DEF Tree
  <2> QED
    BY <2>1, <1>1 DEF Systems
<1>4. Base(g, s, None)
  BY <1>3, SameBase
<1>5. dirt \in BOOLEAN /\ 1 \in Nat
  OBVIOUS
<1>6. n = Occupy(g, d, i, 1, dirt)
  OBVIOUS
<1> HIDE DEF d, p, g, n
<1>7. CASE n = Halt(g, "hang")
  <2> DEFINE why == "hang"
  <2>1. why \in Stops /\ why # "no"
    BY DEF Stops
  <2>2. n = Halt(g, why)
    BY <1>7
  <2> HIDE DEF why
  <2>3. Base(n.f, s, None) /\ n.s = None /\ n.f.halt = why
    BY <1>4, <2>1, <2>2, HaltBase
  <2> QED
    BY <2>1, <2>3 DEF Runs, MadeTo
<1>8. CASE OccupyTo(g, d, i, 1, dirt, n.f, n.s)
  <2>1. v # s /\ n.f.table[v] = Seated(d, i, 1, dirt) /\ n.f.table[s] = g.table[s]
    BY <1>2, <1>4, <1>5, <1>8, OccupyBase
  <2>2. \A t \in Slot : t # v => n.f.table[t] = g.table[t]
    BY <1>2, <1>4, <1>5, <1>8, OccupyBase
  <2>3. /\ v \in Slot /\ g.table[v].cnt = 0 /\ n.f \in Systems /\ n.f.sb = g.sb
        /\ n.f.tree = g.tree /\ n.f.nlinks = g.nlinks /\ n.f.pins = g.pins /\ n.f.halt = g.halt
    BY <1>8 DEF OccupyTo
  <2> DEFINE new == Seated(d, i, 2, TRUE)
             h == MakeIn(n.f, s, v, i)
  <2>4. [n.f.table[v] EXCEPT !.nlinks = 2] = new
    <3>1. n.f.table[v] = Seated(d, i, 1, TRUE)
      BY <2>1
    <3> QED
      BY <3>1, SeatedLinks
  <2>5. n.f.table[s].dev = d /\ n.f.table[s].num = p
    BY <2>1, <1>3 DEF d, p
  <2>6. new \in Row
    BY <1>2 DEF Row, Seated
  <2> HIDE DEF new
  <2>7. /\ h \in Systems /\ h.sb = n.f.sb /\ h.nlinks = n.f.nlinks /\ h.pins = n.f.pins
        /\ h.halt = n.f.halt
        /\ h.tree = [n.f.tree EXCEPT ![d] = [@ EXCEPT ![i] = p]]
        /\ h.table[s] = Linked(n.f.table[s], 1) /\ h.table[v] = new
        /\ \A t \in Slot \ {s, v} : h.table[t] = n.f.table[t]
    <3> DEFINE e == n.f
    <3>1. e \in Systems /\ e.table[s].dev \in Dev /\ e.table[s].num \in Ind
      BY <2>3, <2>5, <1>2
    <3>2. v \in Slot /\ v # s /\ new \in Row
            /\ [e.table[v] EXCEPT !.nlinks = 2] = new
      BY <2>1, <2>3, <2>4, <2>6
    <3>3. h = MakeIn(e, s, v, i)
      OBVIOUS
    <3> HIDE DEF e, h, v
    <3>4. MakeInTo(e, s, v, i, new, h)
      BY <3>1, <3>2, <3>3, MakeInEffect
    <3> QED
      BY <3>4, <2>5 DEF e, MakeInTo
  <2> HIDE DEF h
  <2>8. h.tree = [f.tree EXCEPT ![d] = [@ EXCEPT ![i] = p]]
    <3>1. n.f.tree[d] = [f.tree[d] EXCEPT ![i] = i]
      BY <1>1, <1>2, <1>3, <2>3
    <3>2. [n.f.tree[d] EXCEPT ![i] = p] = [f.tree[d] EXCEPT ![i] = p]
      <4>1. f.tree[d] \in [Ind -> Ind \cup {None}]
        BY <1>1, <1>2 DEF Tree
      <4> QED
        BY <3>1, <4>1
    <3> QED
      BY <3>2, <1>1, <1>2, <1>3, <2>3, <2>7
  <2>9. MkdirTo(f, s, v, i, h)
    BY <1>3, <2>1, <2>2, <2>3, <2>7, <2>8, ZenonT(60) DEF MkdirTo, new, d, p
  <2> QED
    BY <2>1, <2>3, <2>9, <1>3 DEF h, MadeTo
<1> QED
  BY <1>2, <1>3, <1>5, <1>6, <1>7, <1>8, OccupyEffect

LEMMA MkdirEnds ==
  ASSUME NEW f, NEW x \in Places, Settled(f, x), NEW w, Taken(f, None, w)
  PROVE  Outcome(DoMkdir(w), x)
<1>1. Outcome(Iput(w.f, w.s), x)
  BY GivesBack
<1>2. CASE w.s = None
  <2>1. DoMkdir(w) = Iput(w.f, w.s)
    BY <1>2 DEF DoMkdir, Iput
  <2> QED
    BY <1>1, <2>1
<1>3. CASE w.s # None
  <2> DEFINE s == w.s
             d == w.f.table[s].dev
  <2>1. /\ s \in Slot /\ Runs(w.f) /\ Base(w.f, None, s) /\ Agree(w.f, None, s)
        /\ ~w.f.table[s].mounted /\ w.f.sb = f.sb /\ w.f.tree = f.tree
        /\ Base(w.f, s, None) /\ Agree(w.f, s, None)
    BY <1>3, Swap DEF Taken
  <2>2. CASE FreeInd(w.f, d) = {}
    <3>1. DoMkdir(w) = Iput(w.f, w.s)
      BY <1>3, <2>2 DEF DoMkdir
    <3> QED
      BY <1>1, <3>1
  <2>3. CASE FreeInd(w.f, d) # {}
    <3> DEFINE i == Min(FreeInd(w.f, d))
               g == [w.f EXCEPT !.tree[d][i] = i]
               dirt == TRUE
               n == Occupy(g, d, i, 1, dirt)
    <3>1. i \in Ind /\ w.f.tree[d][i] = None
      <4>1. i \in FreeInd(w.f, d)
        BY <2>3, MinInd DEF FreeInd
      <4> QED
        BY <4>1 DEF FreeInd
    <3>2. DoMkdir(w) = MakeDir(n, s, i)
      BY <1>3, <2>3 DEF DoMkdir
    <3>3. d \in Dev /\ Known(w.f, d)
      BY <2>1, HeldRow
    <3> DEFINE Fails == n.s = None /\ ~Runs(n.f) /\ Base(n.f, s, None)
               Makes == /\ n.s \in Slot /\ n.s # s /\ w.f.table[n.s].cnt = 0
                        /\ MkdirTo(w.f, s, n.s, i, MakeIn(n.f, s, n.s, i))
    <3>4. Fails \/ Makes
      <4>1. dirt \in BOOLEAN /\ \A e, j : Seated(e, j, 1, dirt) = Seated(e, j, 1, TRUE)
        OBVIOUS
      <4> HIDE DEF dirt, i, s
      <4>2. MadeTo(w.f, s, i, n)
        BY <2>1, <3>1, <4>1, MkdirMakes
      <4> HIDE DEF n
      <4> QED
        BY <4>2 DEF MadeTo
    <3> HIDE DEF n, i
    <3>5. CASE Fails
      <4>1. DoMkdir(w) = n.f
        BY <3>2, <3>5 DEF MakeDir
      <4> QED
        BY <2>1, <3>5, <4>1 DEF Outcome
    <3>6. CASE Makes
      <4> DEFINE v == n.s
                 h == MakeIn(n.f, s, v, i)
                 h1 == Iput(h, s)
                 h2 == Iput(h1, v)
      <4>1. v \in Slot /\ v # None /\ v # s /\ w.f.table[v].cnt = 0 /\ MkdirTo(w.f, s, v, i, h)
        BY <3>6, Ranges
      <4>2. DoMkdir(w) = h2
        BY <3>2, <4>1 DEF MakeDir, MakeIn
      <4> HIDE DEF h, v
      <4>3. Base(h, s, v) /\ Agree(h, s, v)
        BY <2>1, <3>1, <4>1, MkdirAgree
      <4>4. Base(h1, None, v) /\ Agree(h1, None, v) /\ Alike(h, h1)
        BY <2>1, <4>3, PutBack
      <4> HIDE DEF h1
      <4>5. Base(h1, v, None) /\ Agree(h1, v, None)
        BY <4>4, Swap
      <4>6. Base(h2, None, None) /\ Agree(h2, None, None) /\ Alike(h1, h2)
        BY <4>1, <4>5, PutBack
      <4> HIDE DEF h2
      <4>7. Runs(h2) /\ h2.tree = h.tree /\ h2.sb = h.sb
        BY <2>1, <4>1, <4>4, <4>6 DEF Alike, MkdirTo, Runs
      <4>8. h.sb = f.sb /\ h.tree = [f.tree EXCEPT ![d] = [@ EXCEPT ![i] = w.f.table[s].num]]
        BY <2>1, <4>1 DEF MkdirTo
      <4>9. ASSUME h2.tree[x.dev][x.num] # None PROVE Known(h2, x.dev)
        <5>1. x.dev = d \/ h2.tree[x.dev] = f.tree[x.dev]
          <6>1. f.tree \in [Dev -> Tree]
            BY <2>1 DEF Base, Systems
          <6> QED
            BY <6>1, <4>7, <4>8, PlaceIs
        <5>2. Known(f, x.dev)
          BY <2>1, <3>3, <4>9, <5>1, SameSblks DEF Settled
        <5> QED
          BY <5>2, <4>7, <4>8, SameSblks
      <4>10. Settled(h2, x)
        BY <4>6, <4>7, <4>9 DEF Settled, Clean
      <4> QED
        BY <4>2, <4>6, <4>10 DEF Outcome
    <3> QED
      BY <3>4, <3>5, <3>6
  <2> QED
    BY <2>2, <2>3
<1> QED
  BY <1>2, <1>3
-----------------------------------------------------------------------------
(***************************************************************************)
(* do_rmdir(): iput() of the last user of an inode without links.          *)
(***************************************************************************)
RowLast(r) == [r EXCEPT !.cnt = @ - 1]

FreedIn(f, s, z) ==
  /\ z \in Systems /\ z.table = [f.table EXCEPT ![s] = EmptySlot]
  /\ z.tree = [f.tree EXCEPT ![f.table[s].dev] = [@ EXCEPT ![f.table[s].num] = None]]
  /\ z.sb = f.sb /\ z.nlinks = f.nlinks /\ z.pins = f.pins /\ z.halt = f.halt

Rootless(f, s, z) ==
  /\ z \in Systems /\ z.table = [f.table EXCEPT ![s] = RowLast(f.table[s])] /\ ~Runs(z)
  /\ z.tree = f.tree /\ z.sb = f.sb /\ z.nlinks = f.nlinks /\ z.pins = f.pins

LEMMA LastIput ==
  ASSUME NEW f \in Systems, NEW s \in Slot, f.table[s].cnt = 1, f.table[s].nlinks = 0,
         f.table[s].dev \in Dev, f.table[s].num \in Ind
  PROVE  IF f.table[s].num = ROOT_IND_NR THEN Rootless(f, s, Iput(f, s))
         ELSE FreedIn(f, s, Iput(f, s))
<1> DEFINE z == Iput(f, s)
           h == [f EXCEPT !.table[s].cnt = @ - 1]
           row == RowLast(f.table[s])
           d == f.table[s].dev
           i == f.table[s].num
<1>1. f.table \in [Slot -> Row] /\ f.tree \in [Dev -> Tree] /\ f.table[s] \in Row
  BY DEF Systems
<1>2. row \in Row /\ row.cnt = 0 /\ row.nlinks = 0 /\ row.dev = d /\ row.num = i
  <2>1. \A r \in Row : r.cnt = 1 => RowLast(r) \in Row /\ RowLast(r).cnt = 0
                                    /\ RowLast(r).nlinks = r.nlinks
                                    /\ RowLast(r).dev = r.dev /\ RowLast(r).num = r.num
    BY DEF Row, RowLast
  <2> QED
    BY <1>1, <2>1
<1>3. h = [f EXCEPT !.table[s] = row]
  BY DEF RowLast
<1>4. z = Release(h, s)
  BY Ranges DEF Iput
<1> HIDE DEF h, row, z, d, i
<1>5. /\ h \in Systems /\ h.table = [f.table EXCEPT ![s] = row] /\ h.sb = f.sb
      /\ h.tree = f.tree /\ h.nlinks = f.nlinks /\ h.pins = f.pins /\ h.halt = f.halt
  BY <1>1, <1>2, <1>3 DEF Systems
<1>6. h.table[s] = row
  BY <1>1, <1>5
<1>7. z = FreeInode(h, s)
  BY <1>2, <1>4, <1>6 DEF Release
<1>8. CASE i = ROOT_IND_NR
  <2>1. z = [h EXCEPT !.halt = "root"]
    BY <1>2, <1>6, <1>7, <1>8 DEF FreeInode, Halt
  <2>2. z \in Systems /\ z.table = h.table /\ z.tree = h.tree /\ z.sb = h.sb
          /\ z.nlinks = h.nlinks /\ z.pins = h.pins /\ z.halt = "root"
    BY <1>5, <2>1 DEF Systems, Stops
  <2>3. Rootless(f, s, z)
    BY <1>5, <2>2 DEF Rootless, Runs, row
  <2> QED
    BY <1>8, <2>3 DEF i, z
<1>9. CASE i # ROOT_IND_NR
  <2> DEFINE tree1 == [f.tree EXCEPT ![d] = [@ EXCEPT ![i] = None]]
             none == EmptySlot
  <2>1. none \in Row
    BY DEF Row, EmptySlot
  <2>2. tree1 \in [Dev -> Tree]
    BY <1>1 DEF Tree
  <2>3. z = [h EXCEPT !.tree = tree1, !.table[s] = none]
    BY <1>2, <1>5, <1>6, <1>7, <1>9 DEF FreeInode
  <2> HIDE DEF tree1, none
  <2>4. /\ z.tree = tree1 /\ z.table = [h.table EXCEPT ![s] = none] /\ z.sb = h.sb
        /\ z.nlinks = h.nlinks /\ z.pins = h.pins /\ z.halt = h.halt
    BY <1>5, <2>3 DEF Systems
  <2>5. z \in Systems
    BY <1>5, <2>1, <2>2, <2>3 DEF Systems
  <2>6. z.table = [f.table EXCEPT ![s] = none]
    BY <1>1, <1>5, <2>4
  <2>7. FreedIn(f, s, z)
    BY <1>5, <2>4, <2>5, <2>6 DEF FreedIn, tree1, none, d, i
  <2> QED
    BY <1>9, <2>7 DEF i, z
<1> QED
  BY <1>8, <1>9
RowDead(r) == [r EXCEPT !.nlinks = 0, !.dirt = FALSE]

Unlinks(f, prev, s) ==
  [f EXCEPT !.table[s] = [@ EXCEPT !.nlinks = 0, !.dirt = FALSE],
            !.table[prev] = Linked(@, -1)]

Removable(f, prev, s) ==
  /\ f \in Systems /\ prev \in Slot /\ s \in Slot /\ prev # s
  /\ f.table[s].dev \in Dev /\ f.table[s].num \in Ind /\ f.table[s].num # ROOT_IND_NR
  /\ f.table[prev].dev = f.table[s].dev /\ f.table[prev].num \in Ind
  /\ f.table[s].cnt = 1 /\ f.table[prev].cnt = 1
  /\ f.table[prev].nlinks > 0 /\ (f.table[prev].num # ROOT_IND_NR => f.table[prev].nlinks > 1)

LEMMA UnlinkEffect ==
  ASSUME NEW f, NEW prev, NEW s, Removable(f, prev, s)
  PROVE  LET h == Unlinks(f, prev, s)
         IN  /\ h \in Systems /\ h.sb = f.sb /\ h.tree = f.tree /\ h.nlinks = f.nlinks
             /\ h.pins = f.pins /\ h.halt = f.halt
             /\ h.table[s] = RowDead(f.table[s]) /\ h.table[prev] = Linked(f.table[prev], -1)
             /\ \A t \in Slot \ {s, prev} : h.table[t] = f.table[t]
<1> DEFINE h == Unlinks(f, prev, s)
           dead == RowDead(f.table[s])
           row == Linked(f.table[prev], -1)
           table1 == [f.table EXCEPT ![s] = dead, ![prev] = row]
<1>1. /\ f \in Systems /\ f.table \in [Slot -> Row] /\ prev \in Slot /\ s \in Slot /\ prev # s
      /\ f.table[prev] \in Row /\ f.table[s] \in Row /\ f.table[prev].nlinks > 0
  BY DEF Removable, Systems
<1>2. dead \in Row
  <2>1. \A r \in Row : RowDead(r) \in Row
    BY DEF Row, RowDead
  <2> QED
    BY <1>1, <2>1
<1>3. row \in Row
  <2>1. \A r \in Row : r.nlinks > 0 => Linked(r, -1) \in Row
    <3> SUFFICES ASSUME NEW r \in Row, r.nlinks > 0 PROVE Linked(r, -1) \in Row
      OBVIOUS
    <3>1. r.nlinks + (-1) \in Nat /\ -1 \in Int
      BY DEF Row
    <3> QED
      BY <3>1, LinkedRow
  <2> QED
    BY <1>1, <2>1
<1>4. h = [f EXCEPT !.table = table1]
  <2>1. table1 = [f.table EXCEPT ![s] = [@ EXCEPT !.nlinks = 0, !.dirt = FALSE],
                                 ![prev] = Linked(@, -1)]
    BY <1>1 DEF RowDead
  <2>2. h = [f EXCEPT !.table = [f.table EXCEPT ![s] = [@ EXCEPT !.nlinks = 0, !.dirt = FALSE],
                                 ![prev] = Linked(@, -1)]]
    BY <1>1 DEF Unlinks, Systems
  <2> HIDE DEF h, table1
  <2> QED
    BY <2>1, <2>2
<1> HIDE DEF dead, row
<1>5. table1 \in [Slot -> Row] /\ table1[s] = dead /\ table1[prev] = row
        /\ \A t \in Slot \ {s, prev} : table1[t] = f.table[t]
  BY <1>1, <1>2, <1>3
<1> HIDE DEF h, table1
<1>6. /\ h \in Systems /\ h.table = table1 /\ h.sb = f.sb /\ h.tree = f.tree
      /\ h.nlinks = f.nlinks /\ h.pins = f.pins /\ h.halt = f.halt
  BY <1>1, <1>4, <1>5 DEF Systems
<1> QED
  BY <1>5, <1>6 DEF h, dead, row

RemovedTo(f, prev, s, z) ==
  LET d == f.table[s].dev
      p == f.table[prev].num
      left == f.table[prev].nlinks - 1
  IN  /\ z \in Systems /\ z.sb = f.sb /\ z.pins = f.pins
      /\ z.table[s] = EmptySlot /\ z.table[prev].cnt = 0
      /\ \A t \in Slot \ {s, prev} : z.table[t] = f.table[t]
      /\ Runs(z) =>
           /\ left > 0 /\ z.tree = [f.tree EXCEPT ![d] = [@ EXCEPT ![f.table[s].num] = None]]
           /\ z.nlinks = [f.nlinks EXCEPT ![d] = [@ EXCEPT ![p] = left]]
           /\ z.table[prev].dev = d /\ z.table[prev].num = p /\ z.table[prev].nlinks = left
           /\ ~z.table[prev].dirt /\ z.table[prev].mounted = f.table[prev].mounted

LEMMA RemoveEffect ==
  ASSUME NEW f, NEW prev, NEW s, Removable(f, prev, s)
  PROVE  RemovedTo(f, prev, s, Iput(Iput(Unlinks(f, prev, s), prev), s))
<1> DEFINE h == Unlinks(f, prev, s)
           g == Iput(h, prev)
           z == Iput(g, s)
           d == f.table[s].dev
           p == f.table[prev].num
           left == f.table[prev].nlinks - 1
<1>1. /\ f \in Systems /\ f.table \in [Slot -> Row] /\ prev \in Slot /\ s \in Slot /\ prev # s
      /\ d \in Dev /\ f.table[s].num \in Ind /\ f.table[s].num # ROOT_IND_NR
      /\ f.table[prev].dev = d /\ p \in Ind /\ f.table[s].cnt = 1 /\ f.table[prev].cnt = 1
      /\ f.table[prev] \in Row /\ f.table[s] \in Row /\ f.table[prev].nlinks > 0
      /\ p # ROOT_IND_NR => f.table[prev].nlinks > 1
  BY DEF Removable, Systems
<1>2. left \in Nat /\ (p # ROOT_IND_NR => left > 0)
  BY <1>1 DEF Row
<1>3. /\ h \in Systems /\ h.sb = f.sb /\ h.tree = f.tree /\ h.nlinks = f.nlinks
      /\ h.pins = f.pins /\ h.halt = f.halt
      /\ h.table[s] = RowDead(f.table[s]) /\ h.table[prev] = Linked(f.table[prev], -1)
      /\ \A t \in Slot \ {s, prev} : h.table[t] = f.table[t]
  BY UnlinkEffect
<1>4. /\ h.table[s].cnt = 1 /\ h.table[s].nlinks = 0 /\ h.table[s].dev = d
      /\ h.table[s].num = f.table[s].num
  <2>1. \A r \in Row : /\ RowDead(r).cnt = r.cnt /\ RowDead(r).nlinks = 0
                       /\ RowDead(r).dev = r.dev /\ RowDead(r).num = r.num
    BY DEF Row, RowDead
  <2> QED
    BY <1>1, <1>3, <2>1
<1>5. /\ h.table[prev].cnt = 1 /\ h.table[prev].nlinks = left /\ h.table[prev].dev = d
      /\ h.table[prev].num = p /\ h.table[prev].dirt
      /\ h.table[prev].mounted = f.table[prev].mounted
  <2>1. \A r \in Row : /\ Linked(r, -1).cnt = r.cnt /\ Linked(r, -1).nlinks = r.nlinks - 1
                       /\ Linked(r, -1).dev = r.dev /\ Linked(r, -1).num = r.num
                       /\ Linked(r, -1).dirt
    BY DEF Row, Linked
  <2>2. \A r \in Row : Linked(r, -1).mounted = r.mounted
    BY DEF Row, Linked
  <2> QED
    BY <1>1, <1>3, <2>1, <2>2
<1> HIDE DEF h, d, p, left
<1>6. h.table \in [Slot -> Row] /\ h.table[prev] \in Row
  BY <1>1, <1>3 DEF Systems
<1>7. CASE left # 0
  <2>1. IputTo(h, prev, g)
    BY <1>1, <1>3, <1>5, <1>7, IputMakes
  <2> HIDE DEF g
  <2>2. /\ g \in Systems /\ g.sb = h.sb /\ g.tree = h.tree /\ g.pins = h.pins
        /\ g.halt = h.halt /\ g.nlinks = Written(h, prev)
        /\ g.table[prev] = RowAfterIput(h.table[prev])
        /\ \A t \in Slot \ {prev} : g.table[t] = h.table[t]
    BY <1>1, <1>6, <2>1 DEF IputTo
  <2>3. /\ g.table[prev].cnt = 0 /\ g.table[prev].dev = d /\ g.table[prev].num = p
        /\ g.table[prev].nlinks = left /\ ~g.table[prev].dirt
        /\ g.table[prev].mounted = f.table[prev].mounted
    <3>1. \A r \in Row : /\ RowAfterIput(r).cnt = r.cnt - 1 /\ RowAfterIput(r).nlinks = r.nlinks
                         /\ RowAfterIput(r).dev = r.dev /\ RowAfterIput(r).num = r.num
      BY DEF Row, RowAfterIput
    <3>2. \A r \in Row : r.cnt = 1 => ~RowAfterIput(r).dirt
      <4> SUFFICES ASSUME NEW r \in Row, r.cnt = 1 PROVE ~RowAfterIput(r).dirt
        OBVIOUS
      <4> DEFINE b == r.cnt > 1 /\ r.dirt
      <4>1. ~b
        OBVIOUS
      <4>2. RowAfterIput(r) = [r EXCEPT !.cnt = @ - 1, !.dirt = b]
        BY DEF RowAfterIput
      <4> HIDE DEF b
      <4>3. RowAfterIput(r).dirt = b
        BY <4>2 DEF Row
      <4> QED
        BY <4>1, <4>3, Zenon
    <3>3. \A r \in Row : RowAfterIput(r).mounted = r.mounted
      BY DEF Row, RowAfterIput
    <3> QED
      BY <1>5, <1>6, <2>2, <3>1, <3>2, <3>3
  <2>4. g.nlinks = [f.nlinks EXCEPT ![d] = [@ EXCEPT ![p] = left]]
    BY <1>3, <1>5, <2>2 DEF Written
  <2>5. g.table[s] = h.table[s]
    BY <1>1, <2>2
  <2>6. FreedIn(g, s, z)
    BY <1>1, <1>4, <2>2, <2>5, LastIput
  <2> HIDE DEF z
  <2>7. z.table[s] = EmptySlot /\ \A t \in Slot \ {s} : z.table[t] = g.table[t]
    BY <1>1, <2>2, <2>6 DEF FreedIn, Systems
  <2>8. /\ z \in Systems /\ z.sb = f.sb /\ z.pins = f.pins /\ z.nlinks = g.nlinks
        /\ z.tree = [f.tree EXCEPT ![d] = [@ EXCEPT ![f.table[s].num] = None]]
    BY <1>3, <1>4, <2>2, <2>5, <2>6 DEF FreedIn
  <2>9. z.table[prev] = g.table[prev] /\ \A t \in Slot \ {s, prev} : z.table[t] = f.table[t]
    BY <1>1, <1>3, <2>2, <2>7
  <2>10. left > 0
    BY <1>2, <1>7
  <2> QED
    BY <2>3, <2>4, <2>7, <2>8, <2>9, <2>10 DEF RemovedTo, d, p, left, z, g, h
<1>8. CASE left = 0
  <2>1. p = ROOT_IND_NR
    BY <1>2, <1>8
  <2>2. Rootless(h, prev, g)
    BY <1>1, <1>3, <1>5, <1>8, <2>1, LastIput
  <2> HIDE DEF g
  <2>3. /\ g \in Systems /\ g.sb = h.sb /\ g.pins = h.pins /\ ~Runs(g)
        /\ g.table[prev] = RowLast(h.table[prev])
        /\ \A t \in Slot \ {prev} : g.table[t] = h.table[t]
    BY <1>1, <1>6, <2>2 DEF Rootless
  <2>4. g.table[prev].cnt = 0
    <3>1. \A r \in Row : RowLast(r).cnt = r.cnt - 1
      BY DEF Row, RowLast
    <3> QED
      BY <1>5, <1>6, <2>3, <3>1
  <2>5. g.table[s] = h.table[s]
    BY <1>1, <2>3
  <2>6. FreedIn(g, s, z)
    BY <1>1, <1>4, <2>3, <2>5, LastIput
  <2> HIDE DEF z
  <2>7. z.table[s] = EmptySlot /\ \A t \in Slot \ {s} : z.table[t] = g.table[t]
    BY <1>1, <2>3, <2>6 DEF FreedIn, Systems
  <2>8. z \in Systems /\ z.sb = f.sb /\ z.pins = f.pins /\ ~Runs(z)
    BY <1>3, <2>3, <2>6 DEF FreedIn, Runs
  <2>9. z.table[prev] = g.table[prev] /\ \A t \in Slot \ {s, prev} : z.table[t] = f.table[t]
    BY <1>1, <1>3, <2>3, <2>7
  <2> QED
    BY <2>4, <2>7, <2>8, <2>9 DEF RemovedTo, z, g, h
<1> QED
  BY <1>7, <1>8
LEMMA RemovedAgree ==
  ASSUME NEW f, NEW prev, NEW s, Base(f, prev, s), Agree(f, prev, s), Removable(f, prev, s),
         f.tree[f.table[s].dev][f.table[s].num] = f.table[prev].num,
         Children(f.tree[f.table[s].dev], f.table[s].num) = {},
         NEW z, RemovedTo(f, prev, s, z)
  PROVE  Base(z, None, None) /\ (Runs(z) => Agree(z, None, None))
<1> DEFINE d == f.table[s].dev
           i == f.table[s].num
           p == f.table[prev].num
           left == f.table[prev].nlinks - 1
<1>1. /\ f \in Systems /\ SblksOK(f) /\ PinsOK(f) /\ CountsOK(f, prev, s) /\ HostsOK(f)
      /\ RowsOK(f) /\ UsedOK(f) /\ OnceOK(f) /\ DiskOK(f, prev, s)
  BY DEF Base, Agree
<1>2. f.table \in [Slot -> Row] /\ f.tree \in [Dev -> Tree] /\ f.nlinks \in [Dev -> [Ind -> Nat]]
  BY <1>1 DEF Systems
<1>3. /\ prev \in Slot /\ s \in Slot /\ prev # s /\ d \in Dev /\ i \in Ind /\ i # ROOT_IND_NR
      /\ f.table[prev].dev = d /\ p \in Ind /\ f.table[s].cnt = 1 /\ f.table[prev].cnt = 1
      /\ f.table[prev] \in Row
  BY <1>2 DEF Removable
<1>4. f.tree[d][i] = p /\ Children(f.tree[d], i) = {}
  OBVIOUS
<1> HIDE DEF d, i, p, left
<1>5. ~Hosts(f, prev) /\ ~Hosts(f, s)
  <2>1. Held(prev, prev, s) > 0 /\ Held(s, prev, s) > 0
    BY DEF Held
  <2> QED
    BY <2>1, <1>1, <1>3 DEF CountsOK, Held
<1>6. /\ z \in Systems /\ z.sb = f.sb /\ z.pins = f.pins /\ z.table[s] = EmptySlot
      /\ z.table[prev].cnt = 0 /\ \A t \in Slot \ {s, prev} : z.table[t] = f.table[t]
  BY DEF RemovedTo
<1>7. EmptySlot.cnt = 0 /\ EmptySlot.dev = None /\ ~EmptySlot.dirt /\ ~EmptySlot.mounted
  BY DEF EmptySlot
<1>8. /\ \A t : Hosts(z, t) <=> Hosts(f, t)
      /\ \A e : Known(z, e) <=> Known(f, e)
      /\ SblksOK(z) /\ PinsOK(z)
  BY <1>1, <1>6, SameSblks
<1>9. CountsOK(z, None, None)
  <2> SUFFICES ASSUME NEW t \in Slot
               PROVE  z.table[t].cnt = (IF Hosts(z, t) THEN 1 ELSE 0) + Held(t, None, None)
    BY DEF CountsOK
  <2>1. f.table[t].cnt = (IF Hosts(f, t) THEN 1 ELSE 0) + Held(t, prev, s)
    BY <1>1 DEF CountsOK
  <2>2. Held(t, None, None) = 0
    BY Ranges DEF Held
  <2>3. CASE t = s \/ t = prev
    BY <2>2, <2>3, <1>5, <1>6, <1>7, <1>8, SMTT(60)
  <2>4. CASE t # s /\ t # prev
    <3>1. Held(t, prev, s) = 0
      BY <2>4 DEF Held
    <3> QED
      BY <2>1, <2>2, <2>4, <3>1, <1>6, <1>8
  <2> QED
    BY <2>3, <2>4
<1>10. Base(z, None, None)
  BY <1>6, <1>8, <1>9 DEF Base
<1>11. ASSUME Runs(z) PROVE Agree(z, None, None)
  <2>1. /\ left > 0 /\ z.tree = [f.tree EXCEPT ![d] = [@ EXCEPT ![i] = None]]
        /\ z.nlinks = [f.nlinks EXCEPT ![d] = [@ EXCEPT ![p] = left]]
        /\ z.table[prev].dev = d /\ z.table[prev].num = p /\ z.table[prev].nlinks = left
        /\ ~z.table[prev].dirt /\ z.table[prev].mounted = f.table[prev].mounted
    BY <1>11 DEF RemovedTo, d, i, p, left
  <2>2. /\ z.tree[d] = [f.tree[d] EXCEPT ![i] = None] /\ z.tree[d] \in Tree
        /\ \A e \in Dev : e # d => z.tree[e] = f.tree[e]
    <3>1. z.tree \in [Dev -> Tree]
      BY <1>6 DEF Systems
    <3> QED
      BY <3>1, <1>2, <1>3, <2>1
  <2>3. IsTree(f.tree[d])
    BY <1>1, <1>3 DEF DiskOK
  <2>4. \A j \in Ind : f.tree[d][j] # i
    BY <1>3, <1>4, <2>3, Ranges DEF Children, IsTree
  <2>5. p # i
    BY <1>3, <1>4, <2>4
  <2>6. z.tree[d][i] = None /\ \A j \in Ind \ {i} : z.tree[d][j] = f.tree[d][j]
    BY <1>2, <1>3, <2>2 DEF Tree
  <2>7. IsTree(z.tree[d])
    BY <1>3, <2>2, <2>3, <2>4, <2>6, Ranges, SMTT(60) DEF IsTree, Tree
  <2>8. /\ LinksIn(f, d, p) = LinksIn(z, d, p) + 1
        /\ \A q \in Ind \ {p} : LinksIn(z, d, q) = LinksIn(f, d, q)
        /\ \A e \in Dev : e # d => \A q \in Ind : LinksIn(z, e, q) = LinksIn(f, e, q)
    <3>1. Grown(z.tree[d], i, p, f.tree[d])
      BY <1>4, <2>6 DEF Grown
    <3>2. Cardinality(Children(f.tree[d], p)) = Cardinality(Children(z.tree[d], p)) + 1
            /\ \A q \in Ind \ {p} : Children(f.tree[d], q) = Children(z.tree[d], q)
      BY <1>3, <3>1, OneChild
    <3>3. Cardinality(Children(z.tree[d], p)) \in Nat
      BY ChildrenFinite
    <3>4. LinksIn(f, d, p) = LinksIn(z, d, p) + 1 /\ LinksIn(z, d, p) \in Nat
      BY <3>2, <3>3 DEF LinksIn
    <3> QED
      BY <2>2, <3>2, <3>4 DEF LinksIn
  <2>9. LinksIn(z, d, p) \in Nat
    <3>1. Cardinality(Children(z.tree[d], p)) \in Nat
      BY ChildrenFinite
    <3> QED
      BY <3>1 DEF LinksIn
  <2>10. p # ROOT_IND_NR => left = LinksIn(z, d, p)
    <3>1. p # ROOT_IND_NR => f.table[prev].nlinks = LinksIn(f, d, p)
      BY <1>1, <1>3, Ranges DEF RowsOK, p
    <3> QED
      BY <3>1, <2>8, <2>9, <1>3, SMTT(60) DEF left, Row
  <2>11. \A t \in Slot : f.table[t].dev # None => f.table[t].num \in Ind /\ f.table[t].dev \in Dev
    BY <1>1, <1>2 DEF RowsOK, Row
  <2>12. \A t \in Slot : t # s => ~(f.table[t].dev = d /\ f.table[t].num = i)
    BY <1>1, <1>3, Ranges DEF OnceOK, d, i
  <2>13. ASSUME NEW e \in Dev, NEW j \in Ind, ~(e = d /\ j = i)
         PROVE  z.tree[e][j] = f.tree[e][j]
    BY <2>2, <2>6, <2>13
  <2>14. HostsOK(z)
    <3> SUFFICES ASSUME NEW t \in Slot
                 PROVE  /\ z.table[t].mounted <=> Hosts(z, t)
                        /\ Hosts(z, t) => z.table[t].num # ROOT_IND_NR
      BY DEF HostsOK
    <3>1. CASE t = s
      BY <3>1, <1>5, <1>6, <1>7, <1>8
    <3>2. CASE t = prev
      <4>1. ~f.table[prev].mounted
        BY <1>1, <1>3, <1>5 DEF HostsOK
      <4> QED
        BY <3>2, <4>1, <1>5, <1>8, <2>1
    <3>3. CASE t # s /\ t # prev
      BY <3>3, <1>1, <1>6, <1>8 DEF HostsOK
    <3> QED
      BY <3>1, <3>2, <3>3
  <2>15. UsedOK(z)
    <3> SUFFICES ASSUME NEW t \in Slot
                 PROVE  /\ z.table[t].cnt > 0 => z.table[t].dev \in Dev /\ Known(z, z.table[t].dev)
                        /\ z.table[t].dirt => z.table[t].cnt > 0
      BY DEF UsedOK
    <3>1. CASE t = s
      BY <3>1, <1>6, <1>7, SMTT(60)
    <3>2. CASE t = prev
      BY <3>2, <1>6, <2>1, SMTT(60)
    <3>3. CASE t # s /\ t # prev
      BY <3>3, <1>1, <1>6, <1>8 DEF UsedOK
    <3> QED
      BY <3>1, <3>2, <3>3
  <2>16. RowsOK(z)
    <3> SUFFICES ASSUME NEW t \in Slot, z.table[t].dev # None
                 PROVE  /\ z.table[t].num # None /\ z.tree[z.table[t].dev][z.table[t].num] # None
                        /\ z.table[t].nlinks > 0
                        /\ z.table[t].num # ROOT_IND_NR =>
                             z.table[t].nlinks = LinksIn(z, z.table[t].dev, z.table[t].num)
      BY DEF RowsOK
    <3>1. t # s
      BY <1>6, <1>7
    <3>2. CASE t = prev
      <4>1. f.tree[d][p] # None
        BY <1>1, <1>3, Ranges DEF RowsOK, p
      <4> QED
        BY <3>2, <4>1, <1>3, <2>1, <2>5, <2>6, <2>10, Ranges, SMTT(60)
    <3>3. CASE t # prev
      <4>1. z.table[t] = f.table[t]
        BY <3>1, <3>3, <1>6
      <4> DEFINE e == f.table[t].dev
                 j == f.table[t].num
      <4>2. e \in Dev /\ j \in Ind /\ ~(e = d /\ j = i)
        BY <3>1, <4>1, <2>11, <2>12
      <4>3. f.tree[e][j] # None /\ f.table[t].nlinks > 0
              /\ (j # ROOT_IND_NR => f.table[t].nlinks = LinksIn(f, e, j))
        BY <4>1, <1>1 DEF RowsOK
      <4>4. j # ROOT_IND_NR => ~(e = d /\ j = p)
        BY <3>3, <4>1, <1>1, <1>3 DEF OnceOK, p
      <4> HIDE DEF e, j
      <4>5. z.tree[e][j] # None
        BY <4>2, <4>3, <2>13
      <4>6. j # ROOT_IND_NR => LinksIn(z, e, j) = LinksIn(f, e, j)
        BY <4>2, <4>4, <2>8
      <4> QED
        BY <4>1, <4>2, <4>3, <4>5, <4>6, Ranges DEF e, j
    <3> QED
      BY <3>2, <3>3
  <2>17. OnceOK(z)
    <3> SUFFICES ASSUME NEW t \in Slot, NEW y \in Slot, z.table[t].dev # None,
                        z.table[t].dev = z.table[y].dev, z.table[t].num = z.table[y].num,
                        z.table[t].num # ROOT_IND_NR
                 PROVE  t = y
      BY DEF OnceOK
    <3>1. t # s /\ y # s
      BY <1>6, <1>7
    <3>2. \A x \in Slot : x # s => z.table[x].dev = f.table[x].dev /\ z.table[x].num = f.table[x].num
      BY <1>3, <1>6, <2>1 DEF p
    <3> QED
      BY <3>1, <3>2, <1>1 DEF OnceOK
  <2>18. DiskOK(z, None, None)
    <3> SUFFICES ASSUME NEW e \in Dev
                 PROVE  /\ IsTree(z.tree[e])
                        /\ \A j \in Ind :
                             /\ z.nlinks[e][j] > 0
                             /\ j # ROOT_IND_NR /\ z.tree[e][j] # None =>
                                  z.nlinks[e][j] = LinksIn(z, e, j)
      BY DEF DiskOK
    <3>1. IsTree(z.tree[e])
      BY <1>1, <2>2, <2>7 DEF DiskOK
    <3>2. /\ z.nlinks[d][p] = left
          /\ \A c \in Dev, j \in Ind : ~(c = d /\ j = p) => z.nlinks[c][j] = f.nlinks[c][j]
      BY <1>2, <1>3, <2>1, SMTT(60)
    <3>3. \A j \in Ind : z.nlinks[e][j] > 0
      BY <1>1, <2>1, <3>2 DEF DiskOK
    <3>4. ASSUME NEW j \in Ind, j # ROOT_IND_NR, z.tree[e][j] # None
          PROVE  z.nlinks[e][j] = LinksIn(z, e, j)
      <4>1. ~(e = d /\ j = i)
        BY <3>4, <2>6
      <4>2. CASE e = d /\ j = p
        BY <4>2, <3>2, <3>4, <2>10
      <4>3. CASE ~(e = d /\ j = p)
        <5>1. f.tree[e][j] # None /\ LinksIn(z, e, j) = LinksIn(f, e, j)
          BY <3>4, <4>1, <4>3, <2>8, <2>13
        <5>2. ~Changed(f, prev, e, j) /\ ~Changed(f, s, e, j)
          BY <4>1, <4>3, <1>3 DEF Changed, d, i, p
        <5> QED
          BY <5>1, <5>2, <3>2, <3>4, <4>3, <1>1 DEF DiskOK
      <4> QED
        BY <4>2, <4>3
    <3> QED
      BY <3>1, <3>3, <3>4
  <2> QED
    BY <2>14, <2>15, <2>16, <2>17, <2>18 DEF Agree
<1> QED
  BY <1>10, <1>11
(***************************************************************************)
(* Only a directory that was found by its name is removed: ".." leads to   *)
(* one that is not empty, or to a root.                                    *)
(***************************************************************************)
LEMMA RemoveEnds ==
  ASSUME NEW f, NEW prev \in Slot, NEW s \in Slot, Base(f, prev, s), Agree(f, prev, s), Runs(f),
         MayRemove(f, prev, s) =>
           /\ f.table[s].num \in Children(f.tree[f.table[s].dev], f.table[prev].num)
           /\ ~f.table[prev].mounted,
         NEW x \in Places, f.tree[x.dev][x.num] # None => Known(f, x.dev)
  PROVE  Outcome(RemoveDir(f, prev, s), x)
<1>1. CASE ~MayRemove(f, prev, s)
  <2> DEFINE g == Iput(f, prev)
             z == Iput(g, s)
  <2>1. RemoveDir(f, prev, s) = z
    BY <1>1 DEF RemoveDir
  <2>2. Base(g, None, s) /\ Agree(g, None, s) /\ Alike(f, g)
    BY PutBack
  <2> HIDE DEF g
  <2>3. Base(g, s, None) /\ Agree(g, s, None)
    BY <2>2, Swap
  <2>4. Base(z, None, None) /\ Agree(z, None, None) /\ Alike(g, z)
    BY <2>3, PutBack
  <2> HIDE DEF z
  <2>5. Runs(z) /\ z.tree = f.tree /\ z.sb = f.sb
    BY <2>2, <2>4 DEF Alike, Runs
  <2>6. Settled(z, x)
    BY <2>4, <2>5, SameSblks DEF Settled, Clean
  <2> QED
    BY <2>1, <2>4, <2>6 DEF Outcome
<1>2. CASE MayRemove(f, prev, s)
  <2> DEFINE d == f.table[s].dev
             i == f.table[s].num
             p == f.table[prev].num
             z == Iput(Iput(Unlinks(f, prev, s), prev), s)
  <2>1. /\ prev # s /\ f.table[prev].dev = d /\ f.table[s].cnt = 1 /\ i # ROOT_IND_NR
        /\ Children(f.tree[d], i) = {} /\ i \in Children(f.tree[d], p) /\ ~f.table[prev].mounted
    BY <1>2 DEF MayRemove
  <2>2. Base(f, s, prev) /\ Agree(f, s, prev)
    BY Swap
  <2>3. /\ d \in Dev /\ i \in Ind /\ f.table[s].nlinks \in Nat
        /\ p \in Ind /\ f.table[prev].nlinks \in Nat /\ f.table[prev].nlinks > 0
    BY <2>2, HeldRow
  <2>4. f.table[s].nlinks = 2
    <3>1. f.table[s].nlinks = LinksIn(f, d, i)
      BY <2>1, <2>3, Ranges DEF Agree, RowsOK
    <3> QED
      BY <3>1, <2>1, NoChildren DEF LinksIn
  <2>5. RemoveDir(f, prev, s) = z
    BY <1>2, <2>4 DEF RemoveDir, Unlinks
  <2>6. f.table[prev].cnt = 1
    <3>1. ~Hosts(f, prev)
      BY <2>1 DEF Agree, HostsOK
    <3> QED
      BY <2>1, <3>1, HeldIsCounted
  <2>7. p # ROOT_IND_NR => f.table[prev].nlinks > 1
    <3>1. p # ROOT_IND_NR => f.table[prev].nlinks = LinksIn(f, d, p)
      BY <2>1, <2>3, Ranges DEF Agree, RowsOK
    <3>2. LinksIn(f, d, p) > 1
      <4>1. Cardinality(Children(f.tree[d], p)) \in Nat
        BY ChildrenFinite
      <4> QED
        BY <4>1 DEF LinksIn
    <3> QED
      BY <3>1, <3>2
  <2>8. Removable(f, prev, s)
    BY <2>1, <2>3, <2>6, <2>7 DEF Removable, Base
  <2>9. RemovedTo(f, prev, s, z)
    BY <2>8, RemoveEffect
  <2> HIDE DEF z
  <2>10. f.tree[d][i] = p
    BY <2>1 DEF Children
  <2>11. Base(z, None, None) /\ (Runs(z) => Agree(z, None, None))
    BY <2>1, <2>8, <2>9, <2>10, RemovedAgree
  <2>12. ASSUME Runs(z) PROVE Settled(z, x)
    <3>1. z.sb = f.sb /\ z.tree = [f.tree EXCEPT ![d] = [@ EXCEPT ![i] = None]]
      BY <2>9, <2>12 DEF RemovedTo
    <3>2. f.tree \in [Dev -> Tree] /\ x.dev \in Dev /\ x.num \in Ind
      BY PlaceIs DEF Base, Systems
    <3>3. z.tree[x.dev][x.num] # None => f.tree[x.dev][x.num] # None
      <4>1. f.tree[x.dev] \in [Ind -> Ind \cup {None}]
        BY <3>2 DEF Tree
      <4>2. CASE x.dev = d
        <5>1. z.tree[x.dev] = [f.tree[x.dev] EXCEPT ![i] = None]
          BY <3>1, <3>2, <4>2
        <5> QED
          BY <5>1, <4>1, <3>2
      <4>3. CASE x.dev # d
        BY <3>1, <3>2, <4>3
      <4> QED
        BY <4>2, <4>3
    <3> QED
      BY <2>11, <2>12, <3>1, <3>3, SameSblks DEF Settled, Clean
  <2> QED
    BY <2>5, <2>11, <2>12 DEF Outcome
<1> QED
  BY <1>1, <1>2
LEMMA NamedOnly ==
  ASSUME NEW f, NEW s, NEW n, NEW e, FoundTo(f, s, n, e), ~f.table[s].mounted,
         NEW r, IgetTo(e.f, e.s, [dev |-> f.table[e.s].dev, num |-> e.i], r),
         Runs(r.f), r.s \in Slot, e.i # None, MayRemove(r.f, e.s, r.s)
  PROVE  /\ r.f.table[r.s].num \in Children(r.f.tree[r.f.table[r.s].dev], r.f.table[e.s].num)
         /\ ~r.f.table[e.s].mounted
<1> DEFINE g == r.f
           d == f.table[e.s].dev
           num == f.table[e.s].num
           y == [dev |-> d, num |-> e.i]
<1>1. /\ Base(g, e.s, r.s) /\ Agree(g, e.s, r.s) /\ g.tree = e.f.tree /\ Kept(e.f, g)
  BY DEF IgetTo, Taken
<1>2. Base(e.f, e.s, None) /\ e.s \in Slot /\ Alike(f, e.f)
  BY DEF FoundTo
<1>3. e.f.table[e.s].cnt > 0
  BY <1>2, HeldIsCounted
<1>4. /\ g.table[e.s].dev = d /\ g.table[e.s].num = num /\ g.tree = f.tree
      /\ g.table[e.s].mounted = f.table[e.s].mounted
  BY <1>1, <1>2, <1>3 DEF Kept, Alike
<1>5. r.s # None
  BY Ranges
<1>6. Enters(e.f, y, At(g, r.s))
  BY <1>5 DEF IgetTo
<1>7. g.table[r.s].num = e.i /\ g.table[r.s].dev = d
  <2>1. g.table[r.s].num # ROOT_IND_NR
    BY DEF MayRemove
  <2>2. At(g, r.s) = y
    BY <1>6, <2>1 DEF Enters, At
  <2> QED
    BY <2>2 DEF At
<1>8. CASE n = Up
  <2>1. e.i = ROOT_IND_NR \/ e.i = num \/ num \in Children(f.tree[d], e.i)
    BY <1>8 DEF FoundTo
  <2>2. /\ e.s # r.s /\ g.table[r.s].num # ROOT_IND_NR /\ Children(g.tree[d], e.i) = {}
    BY <1>7 DEF MayRemove
  <2>3. e.i = num
    BY <2>1, <2>2, <1>4, <1>7
  <2>4. d # None /\ OnceOK(g)
    BY <1>1, <1>2, <1>4, HeldRow, Ranges DEF Agree
  <2>5. e.s = r.s
    BY <1>2, <1>4, <1>7, <2>2, <2>3, <2>4 DEF OnceOK
  <2> QED
    BY <2>2, <2>5
<1>9. CASE n # Up
  <2>1. e.s = s /\ e.i = IF n \in Children(f.tree[d], num) THEN n ELSE None
    BY <1>9 DEF FoundTo
  <2> QED
    BY <1>4, <1>7, <2>1
<1> QED
  BY <1>8, <1>9

LEMMA RmdirEnds ==
  ASSUME NEW f, NEW x \in Places, Settled(f, x), NEW w, Taken(f, None, w), NEW n
  PROVE  Outcome(DoRmdir(w, n), x)
<1>1. CASE w.s = None
  <2>1. DoRmdir(w, n) = Iput(w.f, w.s)
    BY <1>1 DEF DoRmdir, Iput
  <2> QED
    BY <2>1, GivesBack
<1>2. CASE w.s # None
  <2> DEFINE e == FindEntry(w.f, w.s, n)
             y == [dev |-> w.f.table[e.s].dev, num |-> e.i]
             r == Iget(e.f, y)
  <2>1. /\ w.s \in Slot /\ Runs(w.f) /\ Base(w.f, w.s, None) /\ Agree(w.f, w.s, None)
        /\ w.f.tree = f.tree /\ w.f.sb = f.sb /\ ~w.f.table[w.s].mounted
    BY <1>2, Swap DEF Taken
  <2>2. FoundTo(w.f, w.s, n, e)
    BY <2>1, FindGives
  <2>3. DoRmdir(w, n) = RmdirEntry(e)
    BY <1>2 DEF DoRmdir
  <2> HIDE DEF e
  <2>4. /\ Base(e.f, e.s, None) /\ Agree(e.f, e.s, None) /\ e.s \in Slot /\ Alike(w.f, e.f)
        /\ e.i \in Ind \cup {None}
    BY <2>2 DEF FoundTo
  <2>5. Runs(e.f) /\ e.f.tree = f.tree /\ e.f.sb = f.sb /\ e.f.table[e.s].dev = w.f.table[e.s].dev
    BY <2>1, <2>4 DEF Alike, Runs
  <2>6. RmdirEntry(e) = IF e.i = None THEN Iput(e.f, e.s)
                        ELSE IF r.s = None THEN Iput(r.f, e.s) ELSE RemoveDir(r.f, e.s, r.s)
    BY <2>5 DEF RmdirEntry, RmdirIn
  <2>7. f.tree[x.dev][x.num] # None => Known(f, x.dev)
    BY DEF Settled
  <2>8. ASSUME NEW g, Base(g, e.s, None), Agree(g, e.s, None), Runs(g),
               g.tree = f.tree, g.sb = f.sb
        PROVE  Outcome(Iput(g, e.s), x)
    <3> DEFINE z == Iput(g, e.s)
    <3>1. Base(z, None, None) /\ Agree(z, None, None) /\ Alike(g, z)
      BY <2>4, <2>8, PutBack
    <3> HIDE DEF z
    <3>2. Runs(z) /\ z.tree = f.tree /\ z.sb = f.sb
      BY <2>8, <3>1 DEF Alike, Runs
    <3>3. Settled(z, x)
      BY <2>7, <3>1, <3>2, SameSblks DEF Settled, Clean
    <3>4. Outcome(z, x)
      BY <3>1, <3>3 DEF Outcome
    <3> QED
      BY <3>4 DEF z
  <2>9. CASE e.i = None
    BY <2>3, <2>4, <2>5, <2>6, <2>8, <2>9
  <2>10. CASE e.i # None
    <3>1. e.f.table[e.s].dev \in Dev
      BY <2>4, HeldRow
    <3>2. y \in Places
      BY <2>4, <2>5, <2>10, <3>1 DEF Places
    <3>3. IgetTo(e.f, e.s, y, r)
      BY <2>4, <2>5, <3>2, IgetGives
    <3> HIDE DEF r
    <3>4. /\ Base(r.f, e.s, r.s) /\ r.s \in Slot \cup {None} /\ r.f.tree = f.tree
          /\ (~Runs(r.f) => r.s = None /\ r.f.table = e.f.table)
          /\ (Runs(r.f) => r.f.sb = f.sb /\ Agree(r.f, e.s, r.s))
      BY <2>5, <3>3 DEF IgetTo, Taken
    <3>5. CASE r.s = None /\ Runs(r.f)
      <4>1. Outcome(Iput(r.f, e.s), x)
        BY <2>8, <3>4, <3>5
      <4> QED
        BY <2>3, <2>6, <2>10, <3>5, <4>1
    <3>6. CASE r.s = None /\ ~Runs(r.f)
      <4> DEFINE z == Iput(r.f, e.s)
      <4>1. r.f.table[e.s].nlinks # 0
        BY <2>4, <3>4, <3>6, HeldRow
      <4>2. Base(z, None, None)
        BY <2>4, <3>4, <3>6, <4>1, IputBase
      <4>3. z.halt = r.f.halt
        BY <2>4, <3>4, <3>6, <4>1, IputEffect DEF IputTo, Base
      <4> HIDE DEF z
      <4>4. Outcome(z, x)
        BY <3>6, <4>2, <4>3 DEF Outcome, Runs
      <4> QED
        BY <2>3, <2>6, <2>10, <3>6, <4>4 DEF z
    <3>7. CASE r.s # None
      <4>1. r.s \in Slot /\ Runs(r.f)
        BY <3>4, <3>7
      <4>2. MayRemove(r.f, e.s, r.s) =>
              /\ r.f.table[r.s].num
                   \in Children(r.f.tree[r.f.table[r.s].dev], r.f.table[e.s].num)
              /\ ~r.f.table[e.s].mounted
        BY <2>1, <2>2, <2>10, <3>3, <4>1, NamedOnly
      <4>3. r.f.tree[x.dev][x.num] # None => Known(r.f, x.dev)
        BY <2>7, <3>4, <4>1, SameSblks
      <4>4. Outcome(RemoveDir(r.f, e.s, r.s), x)
        BY <2>4, <3>4, <4>1, <4>2, <4>3, RemoveEnds
      <4> QED
        BY <2>3, <2>6, <2>10, <3>7, <4>4
    <3> QED
      BY <3>4, <3>5, <3>6, <3>7
  <2> QED
    BY <2>9, <2>10
<1> QED
  BY <1>1, <1>2
-----------------------------------------------------------------------------
(***************************************************************************)
(* The commands.                                                           *)
(***************************************************************************)
LEMMA NowIs ==
  now = [table |-> inode_table, sb |-> super_blk, tree |-> device.tree,
         nlinks |-> device.nlinks, pins |-> pins, halt |-> halt]
BY DEF now, f0

LEMMA SystemIs ==
  ASSUME NEW g \in Systems
  PROVE  g = [table |-> g.table, sb |-> g.sb, tree |-> g.tree,
              nlinks |-> g.nlinks, pins |-> g.pins, halt |-> g.halt]
BY DEF Systems

LEMMA BeforeIs ==
  ASSUME IInv, halt = "no"
  PROVE  Settled(f0, cwd) /\ cwd \in Places /\ root \in Places /\ now = f0
<1>1. now = f0
  BY NowIs DEF f0
<1>2. Clean(f0)
  BY <1>1 DEF IInv, Clean, Runs, f0
<1>3. cwd \in Places /\ root \in Places
  BY DEF IInv, Places
<1>4. f0.tree[cwd.dev][cwd.num] # None => Known(f0, cwd.dev)
  BY <1>1 DEF IInv, InTree, f0
<1> QED
  BY <1>1, <1>2, <1>3, <1>4 DEF Settled

LEMMA AfterIs ==
  ASSUME NEW g, Becomes(g), Outcome(g, cwd'), cwd' \in Places, root' \in Places
  PROVE  IInv'
<1>1. g \in Systems
  BY DEF Outcome, Base
<1>2. now' = g
  <2>1. now' = [table |-> inode_table', sb |-> super_blk', tree |-> device'.tree,
                nlinks |-> device'.nlinks, pins |-> pins', halt |-> halt']
    BY DEF now, f0
  <2>2. now' = [table |-> g.table, sb |-> g.sb, tree |-> g.tree,
                nlinks |-> g.nlinks, pins |-> g.pins, halt |-> g.halt]
    BY <2>1 DEF Becomes
  <2> QED
    BY <2>2, <1>1, SystemIs
<1>3. \E a \in Slot \cup {None} : Base(now', a, None)
  BY <1>2 DEF Outcome
<1>4. ASSUME halt' = "no"
      PROVE  /\ Base(now', None, None) /\ Agree(now', None, None)
             /\ device'.tree[cwd'.dev][cwd'.num] # None => Known(now', cwd'.dev)
  <2>1. Runs(g)
    BY <1>4 DEF Becomes, Runs
  <2>2. device'.tree = g.tree
    BY DEF Becomes
  <2> QED
    BY <1>2, <2>1, <2>2 DEF Outcome, Settled, Clean
<1>5. DOMAIN device' = {"tree", "nlinks"}
  BY DEF Becomes
<1> QED
  BY <1>3, <1>4, <1>5 DEF IInv, Places, InTree
LEMMA CommandPaths ==
  \A c \in CommandName : \A p \in Given[c] : p \in Path
BY MountAssumption

LEMMA MountKeeps ==
  ASSUME IInv, NEW p \in Path, Mount(p)
  PROVE  IInv'
<1>1. /\ halt = "no" /\ cwd' = cwd /\ root' = root
  BY DEF Mount, Becomes
<1>2. Settled(f0, cwd) /\ cwd \in Places /\ root \in Places
  BY <1>1, BeforeIs
<1>3. ASSUME NEW d \in Dev \cup OtherDev, NEW f \in DeviceFile(f0),
             Becomes(DoMount(Namei(f, p), d))
      PROVE  IInv'
  <2> DEFINE w == Namei(f, p)
             g == DoMount(w, d)
  <2>1. Settled(f, cwd)
    BY <1>2, <1>3, FileSettled
  <2>2. Taken(f, None, w)
    BY <1>2, <2>1, NameiTakes DEF Settled
  <2> HIDE DEF w
  <2>3. Outcome(g, cwd)
    BY <1>2, <1>3, <2>1, <2>2, MountEnds
  <2>4. Becomes(g)
    BY <1>3 DEF w
  <2> HIDE DEF g
  <2> QED
    BY <1>1, <1>2, <2>3, <2>4, AfterIs
<1>4. CASE Becomes(Halt(f0, "hang").f)
  <2> DEFINE g == Halt(f0, "hang").f
  <2>1. Base(f0, None, None) /\ g.halt = "hang" /\ Base(g, None, None)
    BY <1>2, HaltBase DEF Settled, Clean, Stops
  <2>2. Outcome(g, cwd)
    BY <2>1 DEF Outcome, Runs
  <2> HIDE DEF g
  <2>3. Becomes(g)
    BY <1>4 DEF g
  <2> QED
    BY <1>1, <1>2, <2>2, <2>3, AfterIs
<1> QED
  BY <1>3, <1>4 DEF Mount

LEMMA UmountKeeps ==
  ASSUME IInv, NEW p \in Path, Umount(p)
  PROVE  IInv'
<1>1. /\ halt = "no" /\ cwd' = cwd /\ root' = root
  BY DEF Umount, Becomes
<1>2. Settled(f0, cwd) /\ cwd \in Places /\ root \in Places
  BY <1>1, BeforeIs
<1> DEFINE w == Namei(f0, p)
           g == DoUmount(w)
<1>3. Taken(f0, None, w)
  BY <1>2, NameiTakes DEF Settled
<1>4. Becomes(g)
  BY DEF Umount
<1> HIDE DEF w
<1>5. Outcome(g, cwd)
  BY <1>2, <1>3, UmountEnds
<1> HIDE DEF g
<1> QED
  BY <1>1, <1>2, <1>4, <1>5, AfterIs

LEMMA MkdirKeeps ==
  ASSUME IInv, NEW p \in Path, Mkdir(p)
  PROVE  IInv'
<1>1. /\ halt = "no" /\ cwd' = cwd /\ root' = root
  BY DEF Mkdir, Becomes
<1>2. Settled(f0, cwd) /\ cwd \in Places /\ root \in Places
  BY <1>1, BeforeIs
<1> DEFINE w == DirNamei(f0, p)
           g == DoMkdir(w)
<1>3. Taken(f0, None, w)
  BY <1>2, NameiTakes DEF Settled
<1>4. Becomes(g)
  BY DEF Mkdir
<1> HIDE DEF w
<1>5. Outcome(g, cwd)
  BY <1>2, <1>3, MkdirEnds
<1> HIDE DEF g
<1> QED
  BY <1>1, <1>2, <1>4, <1>5, AfterIs

LEMMA RmdirKeeps ==
  ASSUME IInv, NEW p \in Path, Rmdir(p)
  PROVE  IInv'
<1>1. /\ halt = "no" /\ cwd' = cwd /\ root' = root
  BY DEF Rmdir, Becomes
<1>2. Settled(f0, cwd) /\ cwd \in Places /\ root \in Places
  BY <1>1, BeforeIs
<1> DEFINE w == DirNamei(f0, p)
           g == DoRmdir(w, Last(p.steps))
<1>3. Taken(f0, None, w)
  BY <1>2, NameiTakes DEF Settled
<1>4. Becomes(g)
  BY DEF Rmdir
<1> HIDE DEF w
<1>5. Outcome(g, cwd)
  BY <1>2, <1>3, RmdirEnds
<1> HIDE DEF g
<1> QED
  BY <1>1, <1>2, <1>4, <1>5, AfterIs

(***************************************************************************)
(* The new current directory is on a device whose super block is there.    *)
(***************************************************************************)
LEMMA GiveBackKeeps ==
  ASSUME IInv, NEW p \in Path, GiveBack(Namei(f0, p)),
         cwd' \in {cwd, Place(Namei(f0, p), cwd)}, root' \in {root, Place(Namei(f0, p), root)}
  PROVE  IInv'
<1>1. halt = "no"
  BY DEF GiveBack, Becomes
<1>2. Settled(f0, cwd) /\ cwd \in Places /\ root \in Places
  BY <1>1, BeforeIs
<1> DEFINE w == Namei(f0, p)
           g == Iput(w.f, w.s)
<1>3. Taken(f0, None, w)
  BY <1>2, NameiTakes DEF Settled
<1>4. Becomes(g)
  BY DEF GiveBack
<1>5. cwd' \in {cwd, Place(w, cwd)} /\ root' \in {root, Place(w, root)}
  OBVIOUS
<1> HIDE DEF w
<1>6. Outcome(g, cwd) /\ (w.s # None => At(w.f, w.s) \in Places /\ Known(f0, At(w.f, w.s).dev))
  BY <1>2, <1>3, GivesBack
<1>7. cwd' \in Places /\ root' \in Places
  BY <1>2, <1>5, <1>6 DEF Place
<1>8. Runs(g) => g.sb = f0.sb
  <2>1. CASE Runs(w.f)
    BY <1>2, <1>3, <2>1, GivesBack
  <2>2. CASE ~Runs(w.f)
    <3>1. w.s = None
      BY <1>3, <2>2 DEF Taken
    <3>2. g = w.f
      BY <3>1 DEF Iput
    <3> QED
      BY <2>2, <3>2
  <2> QED
    BY <2>1, <2>2
<1> HIDE DEF g
<1>9. Outcome(g, cwd')
  <2>1. CASE cwd' = cwd
    BY <1>6, <2>1
  <2>2. CASE cwd' # cwd
    <3>1. Known(f0, cwd'.dev)
      BY <1>5, <1>6, <2>2 DEF Place
    <3>2. Runs(g) => Known(g, cwd'.dev)
      BY <1>8, <3>1, SameSblks
    <3> QED
      BY <1>6, <3>2 DEF Outcome, Settled
  <2> QED
    BY <2>1, <2>2
<1> QED
  BY <1>4, <1>7, <1>9, AfterIs

LEMMA NextKeeps ==
  ASSUME IInv, Next
  PROVE  IInv'
<1>1. ASSUME NEW p \in Given["mount"], Mount(p) PROVE IInv'
  BY <1>1, MountKeeps, CommandPaths DEF CommandName
<1>2. ASSUME NEW p \in Given["umount"], Umount(p) PROVE IInv'
  BY <1>2, UmountKeeps, CommandPaths DEF CommandName
<1>3. ASSUME NEW p \in Given["mkdir"], Mkdir(p) PROVE IInv'
  BY <1>3, MkdirKeeps, CommandPaths DEF CommandName
<1>4. ASSUME NEW p \in Given["rmdir"], Rmdir(p) PROVE IInv'
  BY <1>4, RmdirKeeps, CommandPaths DEF CommandName
<1>5. ASSUME NEW p \in Given["ls"], Ls(p) PROVE IInv'
  BY <1>5, GiveBackKeeps, CommandPaths DEF CommandName, Ls
<1>6. ASSUME NEW p \in Given["cd"], Chdir(p) PROVE IInv'
  BY <1>6, GiveBackKeeps, CommandPaths DEF CommandName, Chdir
<1>7. ASSUME NEW p \in Given["chroot"], Chroot(p) PROVE IInv'
  BY <1>7, GiveBackKeeps, CommandPaths DEF CommandName, Chroot
<1> QED
  BY <1>1, <1>2, <1>3, <1>4, <1>5, <1>6, <1>7 DEF Next
LEMMA FirstNow ==
  ASSUME Init
  PROVE  /\ now.table = [s \in Slot |-> EmptySlot] /\ now.tree = DevTree /\ now.halt = "no"
         /\ now.sb = [b \in Sblk |-> IF b = 0 THEN [SblkAfterRead(ROOT_DEV) EXCEPT !.maps = TRUE]
                                              ELSE EmptySblk]
         /\ now.nlinks = [d \in Dev |-> [i \in Ind |-> 2 + Cardinality(Children(DevTree[d], i))]]
         /\ now.pins = [d \in Dev |-> IF d = ROOT_DEV THEN 1 ELSE 0]
         /\ DOMAIN device = {"tree", "nlinks"} /\ halt = "no" /\ cwd = root
         /\ cwd = [dev |-> ROOT_DEV, num |-> ROOT_IND_NR]
<1>1. /\ inode_table = [s \in Slot |-> EmptySlot] /\ device.tree = DevTree /\ halt = "no"
      /\ super_blk = [b \in Sblk |-> IF b = 0 THEN [SblkAfterRead(ROOT_DEV) EXCEPT !.maps = TRUE]
                                              ELSE EmptySblk]
      /\ device.nlinks = [d \in Dev |-> [i \in Ind |-> 2 + Cardinality(Children(DevTree[d], i))]]
      /\ pins = [d \in Dev |-> IF d = ROOT_DEV THEN 1 ELSE 0]
      /\ DOMAIN device = {"tree", "nlinks"} /\ cwd = root
      /\ cwd = [dev |-> ROOT_DEV, num |-> ROOT_IND_NR]
  BY DEF Init
<1> QED
  BY <1>1, NowIs

LEMMA InitHolds ==
  ASSUME Init
  PROVE  IInv
<1> DEFINE f == now
<1> DEFINE first == [SblkAfterRead(ROOT_DEV) EXCEPT !.maps = TRUE]
<1>1. /\ ROOT_DEV \in Dev /\ None \notin Dev /\ ROOT_DEV # None /\ 0 \in Sblk /\ ROOT_IND_NR \in Ind
      /\ DevTree \in [Dev -> Tree] /\ \A d \in Dev : IsTree(DevTree[d])
  BY MountAssumption DEF Sblk, Ind, ROOT_IND_NR
<1>2. /\ f.table = [s \in Slot |-> EmptySlot] /\ f.tree = DevTree /\ f.halt = "no"
      /\ f.sb = [b \in Sblk |-> IF b = 0 THEN first ELSE EmptySblk]
      /\ f.nlinks = [d \in Dev |-> [i \in Ind |-> 2 + Cardinality(Children(DevTree[d], i))]]
      /\ f.pins = [d \in Dev |-> IF d = ROOT_DEV THEN 1 ELSE 0]
      /\ DOMAIN device = {"tree", "nlinks"} /\ halt = "no" /\ cwd = root
      /\ cwd = [dev |-> ROOT_DEV, num |-> ROOT_IND_NR]
  BY FirstNow
<1>3. first.dev = ROOT_DEV /\ first.host = None
  BY DEF SblkAfterRead
<1>4. first.maps /\ ~EmptySblk.maps
  BY DEF SblkAfterRead, EmptySblk
<1>5. EmptySblk.dev = None /\ EmptySblk.host = None
  BY DEF EmptySblk
<1>6. first \in SblkRow /\ EmptySblk \in SblkRow
  BY <1>1 DEF SblkRow, EmptySblk, SblkAfterRead
<1>7. EmptySlot \in Row
  BY DEF EmptySlot, Row
<1>8. EmptySlot.cnt = 0 /\ EmptySlot.dev = None
  BY DEF EmptySlot
<1>9. ~EmptySlot.dirt
  BY DEF EmptySlot
<1>10. ~EmptySlot.mounted
  BY DEF EmptySlot
<1>11. \A d \in Dev : \A i \in Ind : 2 + Cardinality(Children(DevTree[d], i)) \in Nat
                                   /\ 2 + Cardinality(Children(DevTree[d], i)) > 0
  BY ChildrenFinite
<1>12. f = [table |-> f.table, sb |-> f.sb, tree |-> f.tree, nlinks |-> f.nlinks,
            pins |-> f.pins, halt |-> f.halt]
  BY DEF now, f0
<1> HIDE DEF f, first
<1> DEFINE slot == EmptySlot
           blk == EmptySblk
<1>13. /\ slot \in Row /\ slot.cnt = 0 /\ slot.dev = None /\ ~slot.dirt /\ ~slot.mounted
       /\ \A s \in Slot : f.table[s] = slot
  BY <1>2, <1>7, <1>8, <1>9, <1>10
<1>14. /\ blk \in SblkRow /\ blk.dev = None /\ blk.host = None /\ ~blk.maps
       /\ f.sb[0] = first /\ \A b \in Sblk : b # 0 => f.sb[b] = blk
  BY <1>1, <1>2, <1>4, <1>5, <1>6
<1>15. f.table \in [Slot -> Row] /\ f.sb \in [Sblk -> SblkRow] /\ f.pins \in [Dev -> Nat]
  BY <1>2, <1>6, <1>7
<1>16. f.nlinks \in [Dev -> [Ind -> Nat]] /\ \A d \in Dev : \A i \in Ind : f.nlinks[d][i] > 0
  BY <1>2, <1>11
<1> HIDE DEF slot, blk
<1>17. f \in Systems
  BY <1>1, <1>2, <1>12, <1>15, <1>16 DEF Systems, Stops
<1>18. \A b \in Sblk : f.sb[b].host = None /\ (f.sb[b].dev # None => b = 0)
  BY <1>3, <1>14
<1>19. \A s \in Slot : ~Hosts(f, s)
  BY <1>18, Ranges DEF Hosts
<1>20. Known(f, ROOT_DEV) /\ \A d : ~HasMount(f, d)
  BY <1>1, <1>3, <1>4, <1>14, <1>18 DEF Known, HasMount
<1>21. SblksOK(f)
  BY <1>18, <1>20 DEF SblksOK
<1>22. PinsOK(f)
  BY <1>2, <1>20 DEF PinsOK
<1>23. CountsOK(f, None, None)
  BY <1>13, <1>19, Ranges DEF CountsOK, Held
<1>24. HostsOK(f) /\ UsedOK(f) /\ RowsOK(f) /\ OnceOK(f)
  BY <1>13, <1>19 DEF HostsOK, UsedOK, RowsOK, OnceOK
<1>25. DiskOK(f, None, None)
  BY <1>1, <1>2, <1>16 DEF DiskOK, LinksIn
<1>26. Base(f, None, None) /\ Agree(f, None, None)
  BY <1>17, <1>21, <1>22, <1>23, <1>24, <1>25 DEF Base, Agree
<1>27. cwd.dev = ROOT_DEV /\ cwd \in Places /\ root \in Places
  BY <1>1, <1>2 DEF Places
<1> QED
  BY <1>2, <1>20, <1>26, <1>27 DEF IInv, f, Places

LEMMA VarsSame ==
  ASSUME IInv, UNCHANGED vars
  PROVE  IInv'
BY DEF IInv, vars, now, f0, InTree

(***************************************************************************)
(* The invariant holds in every state, from any trees on the devices.      *)
(***************************************************************************)
THEOREM MountInvariant == Spec => []IInv
<1>1. Init => IInv
  BY InitHolds
<1>2. IInv /\ [Next]_vars => IInv'
  BY NextKeeps, VarsSame
<1> QED
  BY <1>1, <1>2, PTL DEF Spec
(***************************************************************************)
(* The types, and the counts that are never above 2.                       *)
(***************************************************************************)
THEOREM TypeCorrect == Spec => []TypeOK
<1>1. IInv => TypeOK
  <2> SUFFICES ASSUME IInv PROVE TypeOK
    OBVIOUS
  <2>1. PICK a \in Slot \cup {None} : Base(now, a, None)
    BY DEF IInv
  <2>2. /\ now.table = inode_table /\ now.sb = super_blk /\ now.tree = device.tree
        /\ now.nlinks = device.nlinks /\ now.pins = pins /\ now.halt = halt
    BY NowIs
  <2>3. /\ inode_table \in [Slot -> Row] /\ super_blk \in [Sblk -> SblkRow]
        /\ device.tree \in [Dev -> Tree] /\ device.nlinks \in [Dev -> [Ind -> Nat]]
        /\ pins \in [Dev -> Nat] /\ halt \in Stops
    BY <2>1, <2>2 DEF Base, Systems
  <2>4. ASSUME NEW s \in Slot
        PROVE  inode_table[s] \in [dev : Dev \cup {None}, num : Ind \cup {None}, cnt : 0..2,
                                   dirt : BOOLEAN, mounted : BOOLEAN, nlinks : Nat]
    <3>1. inode_table[s].cnt = (IF Hosts(now, s) THEN 1 ELSE 0) + Held(s, a, None)
      BY <2>1, <2>2 DEF Base, CountsOK
    <3>2. inode_table[s].cnt \in 0..2
      BY <3>1, Ranges DEF Held
    <3> QED
      BY <2>3, <3>2 DEF Row
  <2>5. ASSUME NEW d \in Dev PROVE pins[d] \in 0..2
    BY <2>1, <2>2 DEF Base, PinsOK
  <2>6. cwd \in [dev : Dev, num : Ind] /\ root \in [dev : Dev, num : Ind]
    BY DEF IInv
  <2> QED
    BY <2>3, <2>4, <2>5, <2>6 DEF TypeOK, SblkRow, Stops
<1> QED
  BY <1>1, MountInvariant, PTL

LEMMA UsesAre ==
  ASSUME NEW s \in Slot, SblksOK(f0)
  PROVE  Uses(s) = IF Hosts(f0, s) THEN 1 ELSE 0
<1>1. CASE Hosts(f0, s)
  <2>1. PICK b \in Sblk : f0.sb[b].host = s
    BY <1>1 DEF Hosts
  <2>2. MountedOn(f0, s) = {b}
    BY <2>1, Ranges DEF MountedOn, SblksOK
  <2> QED
    BY <1>1, <2>2, FS_Singleton DEF Uses
<1>2. CASE ~Hosts(f0, s)
  <2>1. MountedOn(f0, s) = {}
    BY <1>2 DEF MountedOn, Hosts
  <2> QED
    BY <1>2, <2>1, FS_EmptySet DEF Uses
<1> QED
  BY <1>1, <1>2

LEMMA MountsAre ==
  ASSUME NEW d \in Dev, SblksOK(f0)
  PROVE  Cardinality(MountsOf(d)) = IF HasMount(f0, d) THEN 1 ELSE 0
<1>1. \A b : b \in MountsOf(d) <=> b \in Sblk /\ f0.sb[b].dev = d /\ f0.sb[b].host # None
  BY DEF MountsOf, SblksOf, f0
<1>2. CASE HasMount(f0, d)
  <2>1. PICK b \in Sblk : f0.sb[b].dev = d /\ f0.sb[b].host # None
    BY <1>2 DEF HasMount
  <2>2. MountsOf(d) = {b}
    BY <1>1, <2>1, Ranges DEF SblksOK
  <2> QED
    BY <1>2, <2>2, FS_Singleton
<1>3. CASE ~HasMount(f0, d)
  <2>1. MountsOf(d) = {}
    BY <1>1, <1>3 DEF HasMount
  <2> QED
    BY <1>3, <2>1, FS_EmptySet
<1> QED
  BY <1>2, <1>3

LEMMA MountedIs ==
  ASSUME NEW d
  PROVE  Mounted(d) <=> Known(f0, d)
BY DEF Mounted, Known, SblksOf, f0

LEMMA InTreeIs ==
  ASSUME NEW x
  PROVE  InTree(x) <=> f0.tree[x.dev][x.num] # None
BY DEF InTree, f0

(***************************************************************************)
(* Between two commands the table agrees with the mounts and the devices.  *)
(***************************************************************************)
LEMMA AgreesNow ==
  ASSUME IInv, halt = "no"
  PROVE  HostsAreHeld /\ BitmapsArePinned /\ CwdStaysMounted /\ CopiesAgree
<1> DEFINE f == f0
<1>1. Settled(f, cwd)
  BY BeforeIs
<1>2. /\ f.table = inode_table /\ f.sb = super_blk /\ f.tree = device.tree
      /\ f.nlinks = device.nlinks /\ f.pins = pins
  BY DEF f0
<1>3. /\ f \in Systems /\ SblksOK(f) /\ PinsOK(f) /\ CountsOK(f, None, None)
      /\ HostsOK(f) /\ UsedOK(f) /\ RowsOK(f) /\ OnceOK(f) /\ DiskOK(f, None, None)
      /\ (f.tree[cwd.dev][cwd.num] # None => Known(f, cwd.dev))
  BY <1>1 DEF Settled, Clean, Base, Agree
<1>4. f.table \in [Slot -> Row]
  BY <1>3 DEF Systems
<1>5. HostsAreHeld
  <2> SUFFICES ASSUME NEW s \in Slot
               PROVE  /\ inode_table[s].cnt = Uses(s)
                      /\ inode_table[s].mounted <=> Uses(s) > 0
                      /\ Uses(s) > 0 => Mounted(inode_table[s].dev) /\ InTree(At(f0, s))
    BY DEF HostsAreHeld
  <2>1. Uses(s) = IF Hosts(f, s) THEN 1 ELSE 0
    BY <1>3, UsesAre
  <2>2. f.table[s].cnt = IF Hosts(f, s) THEN 1 ELSE 0
    BY <1>3, Ranges DEF CountsOK, Held
  <2>3. f.table[s].mounted <=> Hosts(f, s)
    BY <1>3 DEF HostsOK
  <2>4. ASSUME Hosts(f, s) PROVE Mounted(inode_table[s].dev) /\ InTree(At(f, s))
    <3>1. f.table[s].dev \in Dev /\ Known(f, f.table[s].dev)
      BY <1>3, <2>2, <2>4 DEF UsedOK
    <3>2. f.tree[f.table[s].dev][f.table[s].num] # None
      BY <1>3, <3>1, Ranges DEF RowsOK
    <3>3. At(f, s).dev = f.table[s].dev /\ At(f, s).num = f.table[s].num
      BY DEF At
    <3> QED
      BY <1>2, <3>1, <3>2, <3>3, MountedIs, InTreeIs
  <2> QED
    BY <1>2, <2>1, <2>2, <2>3, <2>4
<1>6. BitmapsArePinned
  BY <1>2, <1>3, MountsAre DEF BitmapsArePinned, PinsOK
<1>7. CwdStaysMounted
  BY <1>3, MountedIs, InTreeIs DEF CwdStaysMounted
<1>8. CopiesAgree
  <2>1. ASSUME NEW x \in [dev : Dev, num : Ind \ {ROOT_IND_NR}], InTree(x)
        PROVE  device.nlinks[x.dev][x.num] = Links(x)
    <3>1. x.dev \in Dev /\ x.num \in Ind /\ x.num # ROOT_IND_NR
      OBVIOUS
    <3>2. f.nlinks[x.dev][x.num] = LinksIn(f, x.dev, x.num)
      BY <1>3, <2>1, <3>1, InTreeIs, Ranges DEF DiskOK, Changed
    <3> QED
      BY <1>2, <3>2 DEF LinksIn, Links
  <2>2. ASSUME NEW s \in Slot, inode_table[s].dev # None
        PROVE  /\ InTree(At(f, s))
               /\ inode_table[s].num # ROOT_IND_NR =>
                    /\ inode_table[s].nlinks = Links(At(f, s))
                    /\ Cached(f, inode_table[s].dev, inode_table[s].num) = {s}
    <3>1. At(f, s).dev = f.table[s].dev /\ At(f, s).num = f.table[s].num
      BY DEF At
    <3>2. f.tree[f.table[s].dev][f.table[s].num] # None
      BY <1>2, <1>3, <2>2 DEF RowsOK
    <3>3. ASSUME inode_table[s].num # ROOT_IND_NR
          PROVE  /\ inode_table[s].nlinks = Links(At(f, s))
                 /\ Cached(f, inode_table[s].dev, inode_table[s].num) = {s}
      <4>1. f.table[s].nlinks = LinksIn(f, f.table[s].dev, f.table[s].num)
        BY <1>2, <1>3, <2>2, <3>3 DEF RowsOK
      <4>2. Cached(f, f.table[s].dev, f.table[s].num) = {s}
        BY <1>2, <1>3, <2>2, <3>3 DEF OnceOK, Cached
      <4> QED
        BY <1>2, <3>1, <4>1, <4>2 DEF LinksIn, Links
    <3> QED
      BY <3>1, <3>2, <3>3, InTreeIs
  <2> QED
    BY <2>1, <2>2 DEF CopiesAgree
<1> QED
  BY <1>5, <1>6, <1>7, <1>8

THEOREM TableAlwaysAgrees == Spec => []TableAgrees
<1>1. IInv => TableAgrees
  <2> SUFFICES ASSUME IInv PROVE TableAgrees
    OBVIOUS
  <2>1. halt # "links"
    <3>1. now.halt \in Stops
      BY DEF IInv, Base, Systems
    <3> QED
      BY <3>1, NowIs DEF Stops
  <2> QED
    BY <2>1, AgreesNow DEF TableAgrees
<1> QED
  BY <1>1, MountInvariant, PTL
-----------------------------------------------------------------------------
(***************************************************************************)
(* Paths.  At most one device is mounted on a directory, and a device on   *)
(* at most one directory: each step of namei() is one in the tree that the *)
(* mounts make of the devices.                                             *)
(***************************************************************************)
LEMMA HostOfIs ==
  ASSUME NEW d, NEW x
  PROVE  x \in HostOf(d) <=>
           \E b \in Sblk : f0.sb[b].dev = d /\ f0.sb[b].host # None /\ x = At(f0, f0.sb[b].host)
BY DEF HostOf, MountsOf, SblksOf, f0

LEMMA OneHost ==
  ASSUME Clean(f0), NEW b \in Sblk, f0.sb[b].host # None,
         NEW c \in Sblk, f0.sb[c].host # None,
         At(f0, f0.sb[b].host) = At(f0, f0.sb[c].host)
  PROVE  b = c
<1>1. /\ f0 \in Systems /\ SblksOK(f0) /\ CountsOK(f0, None, None)
      /\ HostsOK(f0) /\ UsedOK(f0) /\ OnceOK(f0)
  BY DEF Clean, Base, Agree
<1> DEFINE s == f0.sb[b].host
           t == f0.sb[c].host
<1>2. s \in Slot /\ t \in Slot /\ Hosts(f0, s)
  BY <1>1 DEF Systems, SblkRow, Hosts
<1>7. At(f0, s) = At(f0, t)
  OBVIOUS
<1> HIDE DEF s, t
<1>3. f0.table[s].cnt = 1
  BY <1>1, <1>2, Ranges DEF CountsOK, Held
<1>4. f0.table[s].dev # None /\ f0.table[s].num # ROOT_IND_NR
  BY <1>1, <1>2, <1>3, Ranges DEF UsedOK, HostsOK
<1>5. f0.table[s].dev = f0.table[t].dev /\ f0.table[s].num = f0.table[t].num
  BY <1>7 DEF At
<1>6. s = t
  BY <1>1, <1>2, <1>4, <1>5 DEF OnceOK
<1> QED
  BY <1>1, <1>6 DEF SblksOK, s, t

LEMMA EnteredIs ==
  ASSUME Clean(f0), NEW x, NEW y, Enters(f0, x, y)
  PROVE  y = Entered(x)
<1>1. f0.sb \in [Sblk -> SblkRow] /\ SblksOK(f0)
  BY DEF Clean, Base, Systems
<1>2. ASSUME NEW b \in Sblk, f0.sb[b].host # None, At(f0, f0.sb[b].host) = x,
             y = [dev |-> f0.sb[b].dev, num |-> ROOT_IND_NR]
      PROVE  y = Entered(x)
  <2> DEFINE d == f0.sb[b].dev
  <2>1. d \in Dev
    BY <1>1, <1>2 DEF SblksOK, SblkRow
  <2>2. d \in OnTop(x)
    BY <1>2, <2>1, HostOfIs DEF OnTop
  <2>3. ASSUME NEW e \in OnTop(x) PROVE e = d
    <3>1. PICK c \in Sblk : /\ f0.sb[c].dev = e /\ f0.sb[c].host # None
                            /\ x = At(f0, f0.sb[c].host)
      BY HostOfIs DEF OnTop
    <3>2. b = c
      BY <1>2, <3>1, OneHost
    <3> QED
      BY <3>1, <3>2
  <2> HIDE DEF d
  <2>4. OnTop(x) = {d}
    BY <2>2, <2>3
  <2> QED
    BY <1>2, <2>4 DEF Entered, d
<1>3. ASSUME \A b \in Sblk : f0.sb[b].host # None => At(f0, f0.sb[b].host) # x
      PROVE  Entered(x) = x
  <2>1. OnTop(x) = {}
    BY <1>3, HostOfIs DEF OnTop
  <2> QED
    BY <2>1 DEF Entered
<1> QED
  BY <1>2, <1>3 DEF Enters

LEMMA UpFromIs ==
  ASSUME Clean(f0), NEW x, NEW y, Leads(f0, x, y)
  PROVE  y = UpFrom(x)
<1>1. SblksOK(f0)
  BY DEF Clean, Base
<1>2. \A h : Above(h) = ParentOf(f0, h)
  BY DEF Above, ParentOf, f0
<1>3. ASSUME NEW b \in Sblk, x.num = ROOT_IND_NR, f0.sb[b].dev = x.dev, f0.sb[b].host # None,
             y = ParentOf(f0, At(f0, f0.sb[b].host))
      PROVE  y = UpFrom(x)
  <2> DEFINE h == At(f0, f0.sb[b].host)
  <2>1. h \in HostOf(x.dev)
    BY <1>3, HostOfIs
  <2>2. ASSUME NEW k \in HostOf(x.dev) PROVE k = h
    <3>1. PICK c \in Sblk : /\ f0.sb[c].dev = x.dev /\ f0.sb[c].host # None
                            /\ k = At(f0, f0.sb[c].host)
      BY HostOfIs
    <3>2. c = b
      <4>1. f0.sb[b].dev # None
        BY <1>1, <1>3 DEF SblksOK
      <4> QED
        BY <1>1, <1>3, <3>1, <4>1 DEF SblksOK
    <3> QED
      BY <3>1, <3>2
  <2> HIDE DEF h
  <2>3. HostOf(x.dev) = {h}
    BY <2>1, <2>2
  <2>4. (CHOOSE k \in HostOf(x.dev) : TRUE) = h
    BY <2>3
  <2> QED
    BY <1>2, <1>3, <2>1, <2>4 DEF UpFrom, h
<1>4. ASSUME x.num = ROOT_IND_NR, \A b \in Sblk : f0.sb[b].dev = x.dev => f0.sb[b].host = None,
             y = ParentOf(f0, x)
      PROVE  y = UpFrom(x)
  <2>1. HostOf(x.dev) = {}
    BY <1>4, HostOfIs
  <2> QED
    BY <1>2, <1>4, <2>1 DEF UpFrom
<1>5. ASSUME x.num # ROOT_IND_NR, y = IF x = root THEN x ELSE ParentOf(f0, x)
      PROVE  y = UpFrom(x)
  BY <1>2, <1>5 DEF UpFrom
<1> QED
  BY <1>3, <1>4, <1>5 DEF Leads

LEMMA NotNowhere ==
  ASSUME NEW x \in Places
  PROVE  x # Nowhere
BY Ranges DEF Places, Nowhere

LEMMA StepResolves ==
  ASSUME Clean(f0), NEW n, NEW w, Taken(f0, None, w), Runs(w.f), Runs(Step(w, n).f)
  PROVE  Place(Step(w, n), Nowhere) = To(Place(w, Nowhere), n)
<1>1. CASE w.s = None
  BY <1>1 DEF Step, Place, To
<1>2. CASE w.s # None
  <2> DEFINE v == Step(w, n)
             x == At(w.f, w.s)
  <2>1. w.s \in Slot /\ Base(f0, None, None) /\ Base(w.f, w.s, None) /\ Agree(w.f, w.s, None)
    BY <1>2, Swap DEF Taken, Clean
  <2>2. x \in Places
    BY <2>1, HeldRow
  <2>3. StepTo(f0, w, n, v)
    BY <2>1, StepGives
  <2>4. Place(w, Nowhere) = x /\ x # Nowhere
    BY <1>2, <2>2, NotNowhere DEF Place
  <2> HIDE DEF v, x
  <2>5. Moves(f0, x, n, v)
    BY <2>3 DEF StepTo, v, x
  <2>6. f0.tree = device.tree
    BY DEF f0
  <2>7. CASE v.s # None /\ n = Up
    <3>1. PICK y \in Places : Leads(f0, x, y) /\ Enters(f0, y, At(v.f, v.s))
      BY <2>5, <2>7 DEF Moves
    <3>2. At(v.f, v.s) = Entered(UpFrom(x))
      BY <3>1, UpFromIs, EnteredIs
    <3> QED
      BY <2>4, <2>7, <3>2 DEF To, Place, v
  <2>8. CASE v.s # None /\ n # Up
    <3>1. /\ n \in Children(f0.tree[x.dev], x.num)
          /\ Enters(f0, [dev |-> x.dev, num |-> n], At(v.f, v.s))
      BY <2>5, <2>8 DEF Moves
    <3>2. At(v.f, v.s) = Entered([dev |-> x.dev, num |-> n])
      BY <3>1, EnteredIs
    <3> QED
      BY <2>4, <2>6, <2>8, <3>1, <3>2 DEF To, Place, v
  <2>9. CASE v.s = None
    <3>1. n # Up /\ n \notin Children(f0.tree[x.dev], x.num)
      BY <2>5, <2>9 DEF Moves
    <3> QED
      BY <2>4, <2>6, <2>9, <3>1 DEF To, Place, v
  <2> QED
    BY <2>7, <2>8, <2>9
<1> QED
  BY <1>1, <1>2

LEMMA StartResolves ==
  ASSUME Clean(f0), NEW x, NEW w, IgetTo(f0, None, x, w), Runs(w.f)
  PROVE  Place(w, Nowhere) = From(x)
<1>1. w.s = None <=> ~InTree(x)
  BY InTreeIs DEF IgetTo
<1>2. w.s # None => At(w.f, w.s) = Entered(x)
  BY EnteredIs DEF IgetTo
<1> QED
  BY <1>1, <1>2 DEF Place, From
LEMMA WalkResolves ==
  ASSUME Clean(f0), NEW start, NEW steps \in Seq(Ind \cup {Up}), NEW x,
         Taken(f0, None, start), Runs(start.f) => Place(start, Nowhere) = x,
         Runs(NameiFrom(start, steps).f)
  PROVE  Place(NameiFrom(start, steps), Nowhere) = Along(x, steps)
<1> DEFINE N == Len(steps)
<1>1. N \in Nat
  OBVIOUS
<1>2. PICK W : WalkTo(f0, start, steps, W)
  BY WalkGives DEF Clean
<1>3. /\ W[0] = start /\ NameiFrom(start, steps) = W[N]
      /\ \A t \in 1..N : W[t] = Step(W[t - 1], steps[t])
      /\ \A t \in 0..N : Taken(f0, None, W[t])
  BY <1>2 DEF WalkTo
<1> HIDE DEF N
<1>4. ASSUME NEW k \in 0..N PROVE Runs(W[k].f)
  <2> SUFFICES ASSUME ~Runs(W[k].f) PROVE FALSE
    OBVIOUS
  <2> DEFINE P == [t \in 0..N |-> t >= k => ~Runs(W[t].f)]
  <2>1. 0 \in 0..N /\ N \in 0..N /\ k \in Nat /\ N >= k
    BY <1>1
  <2>2. P[0]
    <3>1. 0 >= k => k = 0
      BY <2>1
    <3> QED
      BY <2>1, <3>1
  <2>3. ASSUME NEW t \in 1..N, P[t - 1] PROVE P[t]
    <3>1. t \in 0..N /\ t - 1 \in 0..N /\ (t >= k => t = k \/ t - 1 >= k)
      BY <1>1, <2>1
    <3>2. ASSUME t - 1 >= k PROVE ~Runs(W[t].f)
      <4>1. ~Runs(W[t - 1].f)
        BY <2>3, <3>1, <3>2
      <4>2. W[t - 1].s = None
        BY <1>3, <3>1, <4>1 DEF Taken
      <4>3. W[t] = W[t - 1]
        BY <1>3, <4>2 DEF Step
      <4> QED
        BY <4>1, <4>3
    <3> QED
      BY <3>1, <3>2
  <2> HIDE DEF P
  <2>4. \A t \in 0..N : P[t]
    BY <1>1, <2>2, <2>3, TurnByTurn
  <2>5. ~Runs(W[N].f)
    BY <2>1, <2>4 DEF P
  <2> QED
    BY <1>3, <2>5
<1> DEFINE A == [t \in 0..N |-> Place(W[t], Nowhere)]
<1> DEFINE Goes(at) == at = [t \in 0..N |-> IF t = 0 THEN x ELSE To(at[t - 1], steps[t])]
<1>5. 0 \in 0..N /\ N \in 0..N
  BY <1>1
<1>6. A[0] = x
  BY <1>3, <1>4, <1>5
<1>7. ASSUME NEW t \in 1..N PROVE t \in 0..N /\ t - 1 \in 0..N /\ A[t] = To(A[t - 1], steps[t])
  <2>1. t \in 0..N /\ t - 1 \in 0..N
    BY <1>1
  <2> DEFINE w == W[t - 1]
  <2>2. Taken(f0, None, w) /\ Runs(w.f)
    BY <1>3, <1>4, <2>1
  <2>3. W[t] = Step(w, steps[t]) /\ Runs(W[t].f)
    BY <1>3, <1>4, <2>1
  <2> HIDE DEF w
  <2>4. Place(W[t], Nowhere) = To(Place(w, Nowhere), steps[t])
    BY <2>2, <2>3, StepResolves
  <2> QED
    BY <2>1, <2>4 DEF w
<1>8. Goes(A)
  <2>1. ASSUME NEW t \in 0..N PROVE A[t] = IF t = 0 THEN x ELSE To(A[t - 1], steps[t])
    <3>1. t # 0 => t \in 1..N
      BY <1>1
    <3> HIDE DEF A
    <3> QED
      BY <3>1, <1>6, <1>7
  <2>2. A = [t \in 0..N |-> A[t]]
    OBVIOUS
  <2> HIDE DEF A
  <2> QED
    BY <2>1, <2>2
<1> HIDE DEF A
<1>9. ASSUME NEW at, Goes(at) PROVE at[N] = A[N]
  <2> DEFINE P == [t \in 0..N |-> at[t] = A[t]]
  <2>1. P[0]
    BY <1>5, <1>6, <1>9
  <2>2. ASSUME NEW t \in 1..N, P[t - 1] PROVE P[t]
    <3>1. t \in 0..N /\ t # 0 /\ t - 1 \in 0..N
      BY <1>1
    <3>2. at[t] = To(at[t - 1], steps[t])
      BY <3>1, <1>9
    <3>3. at[t - 1] = A[t - 1]
      BY <3>1, <2>2
    <3> QED
      BY <3>1, <3>2, <3>3, <1>7
  <2> HIDE DEF P
  <2>3. \A t \in 0..N : P[t]
    BY <1>1, <2>1, <2>2, TurnByTurn
  <2> QED
    BY <1>5, <2>3 DEF P
<1>10. Along(x, steps) = (CHOOSE at : Goes(at))[N]
  BY DEF Along, N
<1> HIDE DEF Goes
<1>11. Along(x, steps) = A[N]
  BY <1>8, <1>9, <1>10
<1> QED
  BY <1>3, <1>5, <1>11 DEF A

(***************************************************************************)
(* Every path that namei() can follow to its end leads where it does in    *)
(* the tree that the mounts make of the devices.                           *)
(***************************************************************************)
THEOREM PathsAlwaysResolve == Spec => []PathsResolve
<1>1. IInv => PathsResolve
  <2> SUFFICES ASSUME IInv, halt = "no", NEW c \in CommandName, NEW p \in Given[c],
                      Namei(f0, p).f.halt = "no"
               PROVE  Place(Namei(f0, p), Nowhere)
                        = Along(From(IF p.abs THEN root ELSE cwd), p.steps)
    BY DEF PathsResolve
  <2>1. Clean(f0) /\ cwd \in Places /\ root \in Places
    BY BeforeIs DEF Settled
  <2>2. p \in Path /\ p.steps \in Seq(Ind \cup {Up})
    BY CommandPaths DEF Path
  <2> DEFINE start == Start(f0, p)
  <2>3. IgetTo(f0, None, CwdIn(p), start)
    BY <2>1, StartGives
  <2>4. Namei(f0, p) = NameiFrom(start, p.steps)
    BY DEF Namei
  <2> HIDE DEF start
  <2>5. Taken(f0, None, start) /\ (Runs(start.f) => Place(start, Nowhere) = From(CwdIn(p)))
    BY <2>1, <2>3, StartResolves DEF IgetTo
  <2>6. Runs(NameiFrom(start, p.steps).f)
    BY <2>4 DEF Runs
  <2>7. Place(NameiFrom(start, p.steps), Nowhere) = Along(From(CwdIn(p)), p.steps)
    BY <2>1, <2>2, <2>5, <2>6, WalkResolves
  <2> QED
    BY <2>4, <2>7 DEF CwdIn
<1> QED
  BY <1>1, MountInvariant, PTL
=============================================================================
