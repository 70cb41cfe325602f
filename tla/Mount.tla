-------------------------------- MODULE Mount ---------------------------------
(***************************************************************************)
(* Several devices in one tree of directories: the super blocks and mounts *)
(* of fs/super.c, the inode table that holds the mount points (fs/inode.c) *)
(* and the paths that cross them (fs/namei.c), by the commands of          *)
(* fs/main.c, one at a time.                                               *)
(*                                                                         *)
(* Only directories are modelled, of one zone each.  The name of a         *)
(* directory stands for its number: path steps are numbers and Up, "..".   *)
(* Blocks can be read; module Namei has what happens when room runs out.   *)
(***************************************************************************)
EXTENDS Integers, FiniteSets, Sequences, FiniteSetsExt, SequencesExt

CONSTANTS
  Dev,           \* the devices with a file system on them
  ROOT_DEV,      \* the one that is there from the start
  OtherDev,      \* numbers of device files without a file system
  LastInd,       \* a device has the inodes 0..LastInd
  NR_SBLKS, NR_INODE_BUF,
  DevTree,       \* DevTree[d]: the directories on d when the system starts
  Given          \* Given[c]: the paths that a user gives with command c

Ind == 0..LastInd
ROOT_IND_NR == 0
None == -1
Up == -2
Path == [abs : BOOLEAN, steps : Seq(Ind \cup {Up})]
CommandName == {"mount", "umount", "mkdir", "rmdir", "cd", "chroot", "ls"}

(***************************************************************************)
(* A tree gives each inode in use its parent; the root is its own.         *)
(***************************************************************************)
Tree == [Ind -> Ind \cup {None}]
IsTree(t) ==
  /\ t \in Tree /\ t[ROOT_IND_NR] = ROOT_IND_NR
  /\ \A i \in Ind : t[i] # None => t[t[i]] # None

ASSUME MountAssumption ==
  /\ ROOT_DEV \in Dev /\ Dev \cap OtherDev = {} /\ None \notin Dev \cup OtherDev
  /\ LastInd \in Nat /\ NR_SBLKS \in Nat \ {0} /\ NR_INODE_BUF \in Nat \ {0}
  /\ DevTree \in [Dev -> Tree] /\ \A d \in Dev : IsTree(DevTree[d])
  /\ DOMAIN Given = CommandName /\ \A c \in CommandName : Given[c] \subseteq Path

Slot == 0..(NR_INODE_BUF - 1)
Sblk == 0..(NR_SBLKS - 1)

VARIABLES
  inode_table,   \* i_dev, i_num, i_cnt, i_dirt, i_mounted, i_nlinks of each slot
  super_blk,     \* sb_dev, the slot that sb_i_mounted points to, and whether
                 \* the pointers to the bitmaps are those of pinned buffers
  device,        \* tree[d], the entries and the inode map; nlinks[d], the inodes
  pins,          \* pins[d]: how often the bitmaps of d are pinned
  cwd, root,     \* proc->cwd and proc->root
  halt           \* "no", or why the file system has stopped

vars == <<inode_table, super_blk, device, pins, cwd, root, halt>>

EmptySlot == [dev |-> None, num |-> None, cnt |-> 0, dirt |-> FALSE,
              mounted |-> FALSE, nlinks |-> 0]
EmptySblk == [dev |-> None, host |-> None, maps |-> FALSE]
SblkAfterRead(d) == [dev |-> d, host |-> None, maps |-> FALSE]

Children(t, i) == {j \in Ind \ {ROOT_IND_NR} : t[j] = i}

f0 == [table |-> inode_table, sb |-> super_blk, tree |-> device.tree,
       nlinks |-> device.nlinks, pins |-> pins, halt |-> "no"]

Halt(f, why) == [f |-> [f EXCEPT !.halt = why], s |-> None]
-----------------------------------------------------------------------------
(***************************************************************************)
(* get_sblk(): the super block of d, read when it is not there.  None when *)
(* d cannot be read or is no file system, or the table is full.            *)
(***************************************************************************)
SblksOf(f, d) == {b \in Sblk : f.sb[b].dev = d}

ReadSblk(f, d, free) ==
  IF free = {} \/ d \notin Dev THEN [f |-> f, b |-> None]
  ELSE [f |-> [f EXCEPT !.sb[Min(free)] = SblkAfterRead(d)], b |-> Min(free)]

GetSblk(f, d) ==
  IF SblksOf(f, d) # {} THEN [f |-> f, b |-> Min(SblksOf(f, d))]
  ELSE ReadSblk(f, d, SblksOf(f, None))

(***************************************************************************)
(* put_sblk() of a device other than the root.                             *)
(***************************************************************************)
PutSblk(f, d) ==
  [f EXCEPT !.pins[d] = @ - 1, !.sb[Min(SblksOf(f, d))] = EmptySblk]

-----------------------------------------------------------------------------
(***************************************************************************)
(* iput(): the last user frees an inode without links and writes a changed *)
(* one.  The slot keeps a copy of it.  Of a mounted root there may be more *)
(* copies, in which changes of its links are lost: when it loses all of    *)
(* them the device has no root, and the model stops.                       *)
(***************************************************************************)
WriteDevInode(f, s) ==
  [f EXCEPT !.nlinks[f.table[s].dev][f.table[s].num] = f.table[s].nlinks,
            !.table[s].dirt = FALSE]

FreeInode(f, s) ==
  IF f.table[s].num = ROOT_IND_NR THEN Halt(f, "root").f
  ELSE [f EXCEPT !.tree[f.table[s].dev][f.table[s].num] = None, !.table[s] = EmptySlot]

Release(f, s) ==
  IF f.table[s].cnt > 0 THEN f
  ELSE IF f.table[s].nlinks = 0 THEN FreeInode(f, s)
  ELSE IF f.table[s].dirt THEN WriteDevInode(f, s) ELSE f

Iput(f, s) ==
  IF s = None \/ f.table[s].cnt = 0 THEN f
  ELSE Release([f EXCEPT !.table[s].cnt = @ - 1], s)

(***************************************************************************)
(* get_empty_inode(), which searches for ever when every slot is in use:   *)
(* iput() leaves nothing that sync_dev_inodes() could write.               *)
(***************************************************************************)
Vacant(f) == {s \in Slot : f.table[s].cnt = 0 /\ ~f.table[s].dirt}

Occupy(f, d, i, nlinks, dirt) ==
  IF Vacant(f) = {} THEN Halt(f, "hang")
  ELSE [f |-> [f EXCEPT !.table[Min(Vacant(f))] =
                 [dev |-> d, num |-> i, cnt |-> 1, dirt |-> dirt, mounted |-> FALSE,
                  nlinks |-> nlinks]],
        s |-> Min(Vacant(f))]

ReadInode(f, d, i) == Occupy(f, d, i, f.nlinks[d][i], FALSE)

(***************************************************************************)
(* iget() of a mount point gives it back and reads the root of the mounted *)
(* device, which may be in the table already.  With a super block whose    *)
(* bitmaps were not read it looks into a buffer that is someone else's, or *)
(* crashes: the model stops.                                               *)
(***************************************************************************)
Cached(f, d, i) == {s \in Slot : f.table[s].dev = d /\ f.table[s].num = i}
MountedOn(f, s) == {b \in Sblk : f.sb[b].host = s}

\* Mutant: the number of the mount point is looked up on the mounted device.
CrossKeepsNumber(f, s) ==
  ReadInode(Iput(f, s), f.sb[Min(MountedOn(f, s))].dev, f.table[s].num)

Cross(f, s) == ReadInode(Iput(f, s), f.sb[Min(MountedOn(f, s))].dev, ROOT_IND_NR)

Hold(f, s) ==
  LET h == [f EXCEPT !.table[s].cnt = @ + 1]
  IN  IF h.table[s].mounted /\ MountedOn(h, s) # {} THEN Cross(h, s)
      ELSE [f |-> h, s |-> s]

IgetOn(g, d, i) ==
  IF g.b = None \/ ~g.f.sb[g.b].maps THEN Halt(g.f, "maps")
  ELSE IF g.f.tree[d][i] = None THEN [f |-> g.f, s |-> None]
  ELSE IF Cached(g.f, d, i) = {} THEN ReadInode(g.f, d, i)
  ELSE Hold(g.f, Min(Cached(g.f, d, i)))

Iget(f, x) == IgetOn(GetSblk(f, x.dev), x.dev, x.num)

-----------------------------------------------------------------------------
(***************************************************************************)
(* find_entry(): ".." in the root of a mounted device is that of the mount *)
(* point, and otherwise in the root of the process is ".".                 *)
(***************************************************************************)
At(f, s) == [dev |-> f.table[s].dev, num |-> f.table[s].num]

\* Mutant: the mount point is taken without counting its new user.
HoldHostNot(f, host) == f

HoldHost(f, host) == [f EXCEPT !.table[host].cnt = @ + 1]

Parent(f, s) == f.tree[f.table[s].dev][f.table[s].num]

FindUp(f, s) ==
  LET host == f.sb[Min(SblksOf(f, f.table[s].dev))].host
  IN  IF f.table[s].num = ROOT_IND_NR /\ host # None
      THEN [f |-> HoldHost(Iput(f, s), host), s |-> host, i |-> Parent(f, host)]
      ELSE [f |-> f, s |-> s,
            i |-> IF f.table[s].num # ROOT_IND_NR /\ At(f, s) = root
                  THEN root.num ELSE Parent(f, s)]

FindDown(f, s, n) ==
  [f |-> f, s |-> s,
   i |-> IF n \in Children(f.tree[f.table[s].dev], f.table[s].num) THEN n ELSE None]

FindEntry(f, s, n) == IF n = Up THEN FindUp(f, s) ELSE FindDown(f, s, n)

(***************************************************************************)
(* get_last_dir() and namei(): each directory is given back before the     *)
(* next one is taken.                                                      *)
(***************************************************************************)
Follow(e) ==
  IF e.i = None THEN [f |-> Iput(e.f, e.s), s |-> None]
  ELSE Iget(Iput(e.f, e.s), [dev |-> e.f.table[e.s].dev, num |-> e.i])

Step(w, n) == IF w.s = None THEN w ELSE Follow(FindEntry(w.f, w.s, n))

NameiFrom(start, steps) ==
  LET walk[t \in 0..Len(steps)] == IF t = 0 THEN start ELSE Step(walk[t - 1], steps[t])
  IN  walk[Len(steps)]

Start(f, p) == Iget(f, IF p.abs THEN root ELSE cwd)
Namei(f, p) == NameiFrom(Start(f, p), p.steps)
DirNamei(f, p) == NameiFrom(Start(f, p), Front(p.steps))

-----------------------------------------------------------------------------
(***************************************************************************)
(* do_mount() of device number d.  Its device file is found in the table   *)
(* or read into a slot, and given back; without a slot to read it into,    *)
(* get_empty_inode() searches for ever.  The directories of its path use   *)
(* the same slot before it.                                                *)
(***************************************************************************)
DeviceFile(f) ==
  {f} \cup {[f EXCEPT !.table[s] = EmptySlot] :
               s \in {x \in Vacant(f) : \A y \in Vacant(f) : x <= y}}

\* Mutant: a device is mounted a second time.
MayMountAgain(g) == g.b # None

MayMount(g) == g.b # None /\ g.f.sb[g.b].host = None

MountOn(g, s, d) ==
  IF ~MayMount(g) THEN Iput(g.f, s)
  ELSE [g.f EXCEPT !.pins[d] = @ + 1,
                   !.sb[g.b] = [@ EXCEPT !.host = s, !.maps = TRUE],
                   !.table[s] = [@ EXCEPT !.mounted = TRUE, !.dirt = TRUE]]

DoMount(w, d) ==
  IF w.s = None THEN w.f
  ELSE IF w.f.table[w.s].cnt # 1 \/ w.f.table[w.s].num = ROOT_IND_NR THEN Iput(w.f, w.s)
  ELSE MountOn(GetSblk(w.f, d), w.s, d)

(***************************************************************************)
(* do_umount(): the device of the directory, unless an inode of it is in   *)
(* use.  The current directory counts as in use, if it is still there.     *)
(***************************************************************************)
InUse(f, d) == \E s \in Slot : f.table[s].dev = d /\ f.table[s].cnt > 0

Unmount(f, b, d, s) ==
  LET host == f.sb[b].host
  IN  PutSblk(Iput(Iput([f EXCEPT !.table[host].mounted = FALSE], host), s), d)

UmountUnused(w, b, d) ==
  IF w.f.halt # "no" THEN w.f
  ELSE IF InUse(w.f, d) THEN Iput(w.f, w.s) ELSE Unmount(w.f, b, d, w.s)

UmountDev(g, d) ==
  IF d = ROOT_DEV \/ g.f.sb[g.b].host = None THEN g.f
  ELSE UmountUnused(Iget(g.f, cwd), g.b, d)

DoUmount(w) ==
  IF w.s = None THEN w.f
  ELSE UmountDev(GetSblk(Iput(w.f, w.s), w.f.table[w.s].dev), w.f.table[w.s].dev)

(***************************************************************************)
(* do_mkdir() with a new name, and do_rmdir().  A directory whose links    *)
(* are not 2 though it is empty is removed twice: the model stops.         *)
(***************************************************************************)
Linked(row, change) == [row EXCEPT !.nlinks = @ + change, !.dirt = TRUE]

MakeDir(n, s, i) ==
  IF n.s = None THEN n.f
  ELSE Iput(Iput([n.f EXCEPT !.tree[n.f.table[s].dev][i] = n.f.table[s].num,
                             !.table[n.s].nlinks = 2,
                             !.table[s] = Linked(@, 1)], s), n.s)

FreeInd(f, d) == {i \in Ind : f.tree[d][i] = None}

DoMkdir(w) ==
  IF w.s = None THEN w.f
  ELSE IF FreeInd(w.f, w.f.table[w.s].dev) = {} THEN Iput(w.f, w.s)
  ELSE LET d == w.f.table[w.s].dev
           i == Min(FreeInd(w.f, d))
       IN  MakeDir(Occupy([w.f EXCEPT !.tree[d][i] = i], d, i, 1, TRUE), w.s, i)

MayRemove(f, prev, s) ==
  /\ prev # s
  /\ f.table[s].dev = f.table[prev].dev /\ f.table[s].cnt = 1
  /\ f.table[s].num # ROOT_IND_NR
  /\ Children(f.tree[f.table[s].dev], f.table[s].num) = {}

RemoveDir(f, prev, s) ==
  IF ~MayRemove(f, prev, s) THEN Iput(Iput(f, prev), s)
  ELSE IF f.table[s].nlinks # 2 THEN Halt(f, "links").f
  ELSE Iput(Iput([f EXCEPT !.table[s] = [@ EXCEPT !.nlinks = 0, !.dirt = FALSE],
                           !.table[prev] = Linked(@, -1)], prev), s)

RmdirIn(r, prev) == IF r.s = None THEN Iput(r.f, prev) ELSE RemoveDir(r.f, prev, r.s)

RmdirEntry(e) ==
  IF e.i = None THEN Iput(e.f, e.s)
  ELSE RmdirIn(Iget(e.f, [dev |-> e.f.table[e.s].dev, num |-> e.i]), e.s)

DoRmdir(w, n) == IF w.s = None THEN w.f ELSE RmdirEntry(FindEntry(w.f, w.s, n))

-----------------------------------------------------------------------------
(***************************************************************************)
(* load_rootfs(), on devices from earlier runs.                            *)
(***************************************************************************)
Init ==
  /\ inode_table = [s \in Slot |-> EmptySlot]
  /\ super_blk = [b \in Sblk |-> IF b = 0 THEN [SblkAfterRead(ROOT_DEV) EXCEPT !.maps = TRUE]
                                          ELSE EmptySblk]
  /\ device = [tree |-> DevTree,
               nlinks |-> [d \in Dev |-> [i \in Ind |-> 2 + Cardinality(Children(DevTree[d], i))]]]
  /\ pins = [d \in Dev |-> IF d = ROOT_DEV THEN 1 ELSE 0]
  /\ cwd = [dev |-> ROOT_DEV, num |-> ROOT_IND_NR] /\ root = cwd
  /\ halt = "no"

Becomes(f) ==
  /\ halt = "no"
  /\ inode_table' = f.table /\ super_blk' = f.sb /\ pins' = f.pins /\ halt' = f.halt
  /\ device' = [tree |-> f.tree, nlinks |-> f.nlinks]

Mount(p) ==
  /\ \/ \E d \in Dev \cup OtherDev : \E f \in DeviceFile(f0) : Becomes(DoMount(Namei(f, p), d))
     \/ Vacant(f0) = {} /\ Becomes(Halt(f0, "hang").f)
  /\ UNCHANGED <<cwd, root>>

Umount(p) == Becomes(DoUmount(Namei(f0, p))) /\ UNCHANGED <<cwd, root>>
Mkdir(p) == Becomes(DoMkdir(DirNamei(f0, p))) /\ UNCHANGED <<cwd, root>>
Rmdir(p) == Becomes(DoRmdir(DirNamei(f0, p), Last(p.steps))) /\ UNCHANGED <<cwd, root>>

GiveBack(w) == Becomes(Iput(w.f, w.s))
Place(w, x) == IF w.s = None THEN x ELSE At(w.f, w.s)

Ls(p) == GiveBack(Namei(f0, p)) /\ UNCHANGED <<cwd, root>>
Chdir(p) == LET w == Namei(f0, p) IN GiveBack(w) /\ cwd' = Place(w, cwd) /\ UNCHANGED root
Chroot(p) == LET w == Namei(f0, p) IN GiveBack(w) /\ root' = Place(w, root) /\ UNCHANGED cwd

Next ==
  \/ \E p \in Given["mount"] : Mount(p)
  \/ \E p \in Given["umount"] : Umount(p)
  \/ \E p \in Given["mkdir"] : Mkdir(p)
  \/ \E p \in Given["rmdir"] : Rmdir(p)
  \/ \E p \in Given["ls"] : Ls(p)
  \/ \E p \in Given["cd"] : Chdir(p)
  \/ \E p \in Given["chroot"] : Chroot(p)

Spec == Init /\ [][Next]_vars

-----------------------------------------------------------------------------
TypeOK ==
  /\ inode_table \in [Slot ->
       [dev : Dev \cup {None}, num : Ind \cup {None}, cnt : 0..2, dirt : BOOLEAN,
        mounted : BOOLEAN, nlinks : Nat]]
  /\ super_blk \in [Sblk -> [dev : Dev \cup {None}, host : Slot \cup {None}, maps : BOOLEAN]]
  /\ device.tree \in [Dev -> Tree] /\ device.nlinks \in [Dev -> [Ind -> Nat]]
  /\ pins \in [Dev -> 0..2]
  /\ cwd \in [dev : Dev, num : Ind] /\ root \in [dev : Dev, num : Ind]
  /\ halt \in {"no", "hang", "maps", "links", "root"}

(***************************************************************************)
(* Between two commands the inode table agrees with the mounts and the     *)
(* devices (super.c:226-299, inode.c:140-154, namei.c:42-49,290,428):      *)
(*  - a slot is in use once for each super block that is mounted on it,    *)
(*    and its directory is still there, on a device mounted itself;        *)
(*  - the bitmaps of a device are pinned once for each of its mounts;      *)
(*  - the device of the current directory has not been taken away, unless  *)
(*    that directory had been removed before: "we can not umount cwd dir"  *)
(*    (super.c:276) is true of directories that are still there;           *)
(*  - a directory has the links that those in it make, on its device and   *)
(*    in the table, and one copy there.  Not so the root of a device: iget *)
(*    reads a mounted one again though it is in the table, and a change of *)
(*    one copy does not reach the others;                                  *)
(*  - so no directory is ever removed twice (namei.c:420-436).             *)
(***************************************************************************)
Uses(s) == Cardinality(MountedOn(f0, s))
MountsOf(d) == {b \in SblksOf(f0, d) : super_blk[b].host # None}
Mounted(d) == \E b \in SblksOf(f0, d) : super_blk[b].maps
InTree(x) == device.tree[x.dev][x.num] # None

HostsAreHeld ==
  \A s \in Slot :
    /\ inode_table[s].cnt = Uses(s)
    /\ inode_table[s].mounted <=> Uses(s) > 0
    /\ Uses(s) > 0 => Mounted(inode_table[s].dev) /\ InTree(At(f0, s))

BitmapsArePinned ==
  \A d \in Dev : pins[d] = Cardinality(MountsOf(d)) + (IF d = ROOT_DEV THEN 1 ELSE 0)

CwdStaysMounted == InTree(cwd) => Mounted(cwd.dev)

Links(x) == 2 + Cardinality(Children(device.tree[x.dev], x.num))

CopiesAgree ==
  /\ \A x \in [dev : Dev, num : Ind \ {ROOT_IND_NR}] :
       InTree(x) => device.nlinks[x.dev][x.num] = Links(x)
  /\ \A s \in Slot :
       inode_table[s].dev # None =>
         /\ InTree(At(f0, s))
         /\ inode_table[s].num # ROOT_IND_NR =>
              /\ inode_table[s].nlinks = Links(At(f0, s))
              /\ Cached(f0, inode_table[s].dev, inode_table[s].num) = {s}

TableAgrees ==
  /\ halt # "links"
  /\ halt = "no" => HostsAreHeld /\ BitmapsArePinned /\ CwdStaysMounted /\ CopiesAgree

(***************************************************************************)
(* The tree that the mounts make of the devices: a mount point is the root *)
(* of the device on it, whose parent is that of the mount point.           *)
(***************************************************************************)
HostOf(d) == {At(f0, super_blk[b].host) : b \in MountsOf(d)}
OnTop(x) == {d \in Dev : x \in HostOf(d)}
Entered(x) ==
  IF OnTop(x) = {} THEN x ELSE [dev |-> CHOOSE d \in OnTop(x) : TRUE, num |-> ROOT_IND_NR]

Above(x) == [dev |-> x.dev, num |-> device.tree[x.dev][x.num]]

UpFrom(x) ==
  IF x.num = ROOT_IND_NR /\ HostOf(x.dev) # {} THEN Above(CHOOSE h \in HostOf(x.dev) : TRUE)
  ELSE IF x.num # ROOT_IND_NR /\ x = root THEN x ELSE Above(x)

Nowhere == [dev |-> None, num |-> None]

To(x, n) ==
  IF x = Nowhere THEN x
  ELSE IF n = Up THEN Entered(UpFrom(x))
  ELSE IF n \in Children(device.tree[x.dev], x.num) THEN Entered([dev |-> x.dev, num |-> n])
  ELSE Nowhere

From(x) == IF InTree(x) THEN Entered(x) ELSE Nowhere

Along(x, steps) ==
  LET at[t \in 0..Len(steps)] == IF t = 0 THEN x ELSE To(at[t - 1], steps[t])
  IN  at[Len(steps)]

(***************************************************************************)
(* Every path leads where it does in that tree, whichever copies of inodes *)
(* are in the table, from the last users or from before a device was       *)
(* unmounted and mounted again (inode.c:136-164, namei.c:42-53).           *)
(***************************************************************************)
PathsResolve ==
  halt = "no" =>
    \A p \in UNION {Given[c] : c \in CommandName} :
      LET w == Namei(f0, p)
      IN  w.f.halt = "no" =>
            Place(w, Nowhere) = Along(From(IF p.abs THEN root ELSE cwd), p.steps)
=============================================================================
