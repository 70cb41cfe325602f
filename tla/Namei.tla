-------------------------------- MODULE Namei ---------------------------------
(***************************************************************************)
(* The names of the file system: paths and directories (fs/namei.c) and    *)
(* the commands that work on them (fs/main.c, fs/open.c, fs/rw.c), one at  *)
(* a time.  The root device alone is mounted, and its blocks can be read.  *)
(***************************************************************************)
EXTENDS Inode

CONSTANTS
  Given,     \* Given[c]: the paths that a user gives with command c
  MaxLeaks   \* bound: pins on one zone that are never given back

(***************************************************************************)
(* A path is absolute or not, names directories and ends with a base name, *)
(* which is NoName behind a slash or in an empty path.                     *)
(***************************************************************************)
EntryName == Name \cup {NoName, ".", ".."}
Path == [abs : BOOLEAN, dirs : Seq(Name \cup {".", ".."}), base : EntryName]

CommandName == {"mkdir", "rmdir", "mknod", "rm", "ls", "write", "cd", "chroot",
                "ln", "cp", "mv"}

ASSUME NameiAssumption ==
  /\ MaxLeaks \in Nat
  /\ DOMAIN Given = CommandName /\ \A c \in CommandName : Given[c] \subseteq Path

VARIABLES
  inode_table,
  device,      \* imap, zmap: the maps; dev_inode: the inodes; entries, objs: the
               \* contents of a zone as a directory's and as an indirect block's
  sb_pos,      \* where new_block() goes on
  leaks,       \* leaks[z]: pins on the buffer of a zone that nobody will give back
  cwd, root,   \* proc->cwd.inr and proc->root.inr
  halt,        \* "crash" or "hang" when the file system has stopped
  lost         \* history: the zones that were not freed with their inode

vars == <<inode_table, device, sb_pos, leaks, cwd, root, halt, lost>>

f0 == [table |-> inode_table, imap |-> device.imap, zmap |-> device.zmap,
       dev_inode |-> device.dev_inode, entries |-> device.entries,
       objs |-> device.objs, pos |-> sb_pos, leaks |-> leaks, lost |-> lost,
       halt |-> "no"]

Becomes(f) ==
  /\ inode_table' = f.table /\ sb_pos' = f.pos /\ leaks' = f.leaks /\ lost' = f.lost
  /\ device' = [imap |-> f.imap, zmap |-> f.zmap, dev_inode |-> f.dev_inode,
                entries |-> f.entries, objs |-> f.objs]
  /\ halt' = "no"

-----------------------------------------------------------------------------
(***************************************************************************)
(* Directories.  The zones of a directory are as many as its size says.    *)
(***************************************************************************)
IsDir(f, s) == f.table[s].node.mode = "dir"

BlockZone(f, s, n) == ZoneOf(f, f.table[s].node.zone, n)

FirstBlocks(f, s, count) ==
  {n \in FileBlock : /\ BlockZone(f, s, n) # NoZone
                     /\ Cardinality({m \in 0..n : BlockZone(f, s, m) # NoZone}) <= count}

\* Mutant: the first zone is taken for the directory.
DirBlocksOne(f, s) == FirstBlocks(f, s, 1)

DirBlocks(f, s) == FirstBlocks(f, s, f.table[s].node.size)

(***************************************************************************)
(* find_entry(): where the first entry with that name is.  ".." in the     *)
(* root of the process is ".".                                             *)
(***************************************************************************)
Sought(f, s, name) ==
  IF name = ".." /\ f.table[s].num # ROOT_IND_NR /\ f.table[s].num = root
  THEN "." ELSE name

NotFound == [z |-> NoZone, k |-> 0]

NamedAt(f, z, name) == {k \in DOMAIN NoEntries : f.entries[z][k].name = name}

FirstNamed(f, s, blocks, name) ==
  IF blocks = {} THEN NotFound
  ELSE [z |-> BlockZone(f, s, Min(blocks)),
        k |-> Min(NamedAt(f, BlockZone(f, s, Min(blocks)), name))]

FindSought(f, s, name) ==
  FirstNamed(f, s, {n \in DirBlocks(f, s) : NamedAt(f, BlockZone(f, s, n), name) # {}}, name)

FindEntry(f, s, name) ==
  IF name = NoName THEN NotFound ELSE FindSought(f, s, Sought(f, s, name))

EntryInode(f, e) == f.entries[e.z][e.k].inr

(***************************************************************************)
(* add_entry(): the name goes into the first empty entry, in a new zone    *)
(* when the directory is full.                                             *)
(***************************************************************************)
EmptyAt(f, z) == {k \in DOMAIN NoEntries : f.entries[z][k] = EmptyEntry}

Grown(b, s) ==
  IF b.new THEN [b EXCEPT !.f.table[s].node.size = @ + 1, !.f.table[s].dirt = TRUE] ELSE b

EntryInZone(b, s, name) ==
  IF b.z = NoZone THEN [f |-> b.f, e |-> NotFound]
  ELSE [f |-> [b.f EXCEPT !.entries[b.z][Min(EmptyAt(b.f, b.z))].name = name,
                          !.table[s].dirt = TRUE],
        e |-> [z |-> b.z, k |-> Min(EmptyAt(b.f, b.z))]]

NotFull(f, s) ==
  {n \in FileBlock : BlockZone(f, s, n) = NoZone \/ EmptyAt(f, BlockZone(f, s, n)) # {}}

AddEntry(f, s, name) ==
  IF NotFull(f, s) = {} THEN [f |-> f, e |-> NotFound]
  ELSE EntryInZone(Grown(Bmap(f, s, Min(NotFull(f, s))), s), s, name)

ClearEntry(f, e) == [f EXCEPT !.entries[e.z][e.k] = EmptyEntry]

(***************************************************************************)
(* is_dir_empty(): the first two entries of every zone are passed over.    *)
(* The zone with the first entry that is found stays pinned.               *)
(***************************************************************************)
InTheWay(f, s) ==
  {n \in DirBlocks(f, s) :
     \E k \in 2..(ENTRIES_PER_BLK - 1) : f.entries[BlockZone(f, s, n)][k].name # NoName}

IsDirEmpty(f, s) == InTheWay(f, s) = {}

LeakFrom(f, s) == [f EXCEPT !.leaks[BlockZone(f, s, Min(InTheWay(f, s)))] = @ + 1]

-----------------------------------------------------------------------------
(***************************************************************************)
(* Paths.  The results are the file system and the slot of the inode that  *)
(* was found, or None.                                                     *)
(***************************************************************************)
OnlyDir(a) ==
  IF a.s = None \/ IsDir(a.f, a.s) THEN a ELSE [f |-> Iput(a.f, a.s), s |-> None]

FollowTo(f, s, e) ==
  IF e = NotFound THEN [f |-> Iput(f, s), s |-> None] ELSE Iget(Iput(f, s), EntryInode(f, e))

Follow(d, name) ==
  IF d.s = None THEN d ELSE FollowTo(d.f, d.s, FindEntry(d.f, d.s, name))

Along(a, dirs) ==
  LET walk[n \in 0..Len(dirs)] == IF n = 0 THEN a ELSE Follow(OnlyDir(walk[n - 1]), dirs[n])
  IN  walk[Len(dirs)]

DirNamei(f, path) == OnlyDir(Along(Iget(f, IF path.abs THEN root ELSE cwd), path.dirs))

Namei(f, path) ==
  IF path.base = NoName THEN DirNamei(f, path) ELSE Follow(DirNamei(f, path), path.base)

(***************************************************************************)
(* One more, and one less, entry that names the inode in a slot.           *)
(***************************************************************************)
\* Mutant: the inode is not marked to be written.
LinkedClean(f, s) == [f EXCEPT !.table[s].node.nlinks = @ + 1]

Linked(f, s) == [f EXCEPT !.table[s].node.nlinks = @ + 1, !.table[s].dirt = TRUE]

\* Mutant: the count is left as it was.
UnlinkedNot(f, s) == [f EXCEPT !.table[s].dirt = TRUE]

Unlinked(f, s) == [f EXCEPT !.table[s].node.nlinks = @ - 1, !.table[s].dirt = TRUE]

\* A new inode that gets no name goes again.
Forget(f, s) == Iput([f EXCEPT !.table[s].node.nlinks = 0], s)

(***************************************************************************)
(* add_entry(), and the number of the inode in slot n into the entry.      *)
(***************************************************************************)
Numbered(a, n) ==
  IF a.e = NotFound THEN a
  ELSE [a EXCEPT !.f.entries[a.e.z][a.e.k].inr = a.f.table[n].num]

Enter(f, d, n, name) == Numbered(AddEntry(f, d, name), n)

-----------------------------------------------------------------------------
(***************************************************************************)
(* The commands.  Each gives back what it holds on every way out.          *)
(*                                                                         *)
(* Most begin with the directory and the base name that a path ends with:  *)
(* p = InDir(d, name) has the slot s of the directory and the entry e with *)
(* the name.                                                               *)
(***************************************************************************)
InDir(d, name) ==
  IF d.s = None THEN [f |-> d.f, s |-> None, e |-> NotFound]
  ELSE IF name = NoName THEN [f |-> Iput(d.f, d.s), s |-> None, e |-> NotFound]
  ELSE [f |-> d.f, s |-> d.s, e |-> FindEntry(d.f, d.s, name)]

NewDirEntries(inr, parent) ==
  [NoEntries EXCEPT ![0] = [name |-> ".", inr |-> inr],
                    ![1] = [name |-> "..", inr |-> parent]]

MadeDir(f, s, z, parent) ==
  [f EXCEPT !.entries[z] = NewDirEntries(f.table[s].num, parent),
            !.table[s].node = [ZeroInode EXCEPT !.mode = "dir", !.nlinks = 2, !.size = 1,
                                                !.zone[0] = z]]

EnterDir(a, d, n, z) ==
  IF a.e = NotFound THEN Forget(FreeBlock(Iput(a.f, d), z), n)
  ELSE Iput(Iput(Linked(a.f, d), d), n)

FillDir(b, d, n, name) ==
  IF b.z = NoZone THEN Forget(Iput(b.f, d), n)
  ELSE EnterDir(Enter(MadeDir(b.f, n, b.z, b.f.table[d].num), d, n, name), d, n, b.z)

NewDir(n, d, name) ==
  IF n.s = None THEN Iput(n.f, d) ELSE FillDir(NewBlock(n.f), d, n.s, name)

MkdirIn(p, name) ==
  IF p.s = None THEN p.f
  ELSE IF p.e # NotFound THEN Iput(p.f, p.s) ELSE NewDir(NewInode(p.f), p.s, name)

DoMkdir(f, path) == MkdirIn(InDir(DirNamei(f, path), path.base), path.base)

(***************************************************************************)
(* do_rmdir().  A directory with more links than "." and its name is given *)
(* back twice, like the block of its entry, which crashes unless that      *)
(* block has a pin to spare, and is removed all the same.                  *)
(***************************************************************************)
MayRemove(f, d, t) ==
  t # d /\ f.table[t].cnt = 1 /\ f.table[t].num # ROOT_IND_NR /\ IsDir(f, t)

RemoveDir(f, d, t, e) ==
  Unlinked([ClearEntry(f, e) EXCEPT !.table[t].node.nlinks = 0, !.table[t].dirt = FALSE], d)

RemoveTwice(f, d, t, e) ==
  IF f.leaks[e.z] = 0 THEN Crash(f)
  ELSE RemoveDir([Iput(Iput(f, d), t) EXCEPT !.leaks[e.z] = @ - 1], d, t, e)

RmdirInode(t, d, e) ==
  IF t.s = None THEN Iput(t.f, d)
  ELSE IF ~MayRemove(t.f, d, t.s) THEN Iput(Iput(t.f, d), t.s)
  ELSE IF ~IsDirEmpty(t.f, t.s) THEN Iput(Iput(LeakFrom(t.f, t.s), d), t.s)
  ELSE IF t.f.table[t.s].node.nlinks # 2
  THEN Iput(Iput(RemoveTwice(t.f, d, t.s, e), d), t.s)
  ELSE Iput(Iput(RemoveDir(t.f, d, t.s, e), d), t.s)

RmdirIn(p) ==
  IF p.s = None THEN p.f
  ELSE IF p.e = NotFound THEN Iput(p.f, p.s)
  ELSE RmdirInode(Iget(p.f, EntryInode(p.f, p.e)), p.s, p.e)

DoRmdir(f, path) == RmdirIn(InDir(DirNamei(f, path), path.base))

EnterNode(a, d, n) ==
  IF a.e = NotFound THEN Forget(Iput(a.f, d), n) ELSE Iput(Iput(a.f, d), n)

NewNode(n, d, name) ==
  IF n.s = None THEN Iput(n.f, d)
  ELSE EnterNode(Enter([n.f EXCEPT !.table[n.s].node.mode = "dev",
                                   !.table[n.s].node.zone[0] = DeviceNumber],
                       d, n.s, name), d, n.s)

MknodIn(p, name) ==
  IF p.s = None THEN p.f
  ELSE IF p.e # NotFound THEN Iput(p.f, p.s) ELSE NewNode(NewInode(p.f), p.s, name)

DoMknod(f, path) == MknodIn(InDir(DirNamei(f, path), path.base), path.base)

EnterLink(a, d, o) ==
  IF a.e = NotFound THEN Iput(Iput(a.f, o), d) ELSE Iput(Linked(Iput(a.f, d), o), o)

LinkIn(d, o, name) ==
  IF d.s = None THEN Iput(d.f, o)
  ELSE IF name = NoName \/ FindEntry(d.f, d.s, name) # NotFound THEN Iput(Iput(d.f, o), d.s)
  ELSE EnterLink(Enter(d.f, d.s, o, name), d.s, o)

LinkTo(o, new) ==
  IF o.s = None THEN o.f
  ELSE IF IsDir(o.f, o.s) THEN Iput(o.f, o.s)
  ELSE LinkIn(DirNamei(o.f, new), o.s, new.base)

DoHlink(f, old, new) == LinkTo(Namei(f, old), new)

\* A file that has a name has a link, whatever its count says.
Counted(f, s) ==
  IF f.table[s].node.nlinks > 0 THEN f ELSE [f EXCEPT !.table[s].node.nlinks = 1]

UnlinkInode(t, d, e) ==
  IF t.s = None THEN Iput(t.f, d)
  ELSE IF IsDir(t.f, t.s) THEN Iput(Iput(t.f, t.s), d)
  ELSE Iput(Iput(Unlinked(ClearEntry(Counted(t.f, t.s), e), t.s), t.s), d)

UnhlinkIn(p) ==
  IF p.s = None THEN p.f
  ELSE IF p.e = NotFound THEN Iput(p.f, p.s)
  ELSE UnlinkInode(Iget(p.f, EntryInode(p.f, p.e)), p.s, p.e)

DoUnhlink(f, path) == UnhlinkIn(InDir(DirNamei(f, path), path.base))

(***************************************************************************)
(* open_namei(), to read (no flags) or to write (O_CREAT | O_RDWR).        *)
(***************************************************************************)
OpenEntry(a, d, n) ==
  IF a.e = NotFound THEN [f |-> Iput(Forget(a.f, n), d), s |-> None]
  ELSE [f |-> Iput(a.f, d), s |-> n]

OpenNew(n, d, name) ==
  IF n.s = None THEN [f |-> Iput(n.f, d), s |-> None]
  ELSE OpenEntry(Enter([n.f EXCEPT !.table[n.s].node.mode = "reg"], d, n.s, name), d, n.s)

OpenOld(t, write) ==
  IF t.s # None /\ IsDir(t.f, t.s) /\ write THEN [f |-> Iput(t.f, t.s), s |-> None] ELSE t

OpenIn(d, e, name, write) ==
  IF e # NotFound THEN OpenOld(Iget(Iput(d.f, d.s), EntryInode(d.f, e)), write)
  ELSE IF write THEN OpenNew(NewInode(d.f), d.s, name)
  ELSE [f |-> Iput(d.f, d.s), s |-> None]

OpenDir(d, name, write) ==
  IF d.s = None THEN d
  ELSE IF name # NoName THEN OpenIn(d, FindEntry(d.f, d.s, name), name, write)
  ELSE IF write THEN [f |-> Iput(d.f, d.s), s |-> None] ELSE d

OpenNamei(f, path, write) == OpenDir(DirNamei(f, path), path.base, write)

(***************************************************************************)
(* do_write() of a buffer, which is shorter than a block, at the start of  *)
(* a regular file.  Nobody looks whether there was a zone for it.          *)
(***************************************************************************)
Written(b, s) ==
  IF b.z = NoZone \/ b.f.table[s].node.size > 0 THEN b.f
  ELSE [b.f EXCEPT !.table[s].node.size = 1, !.table[s].dirt = TRUE]

DoWrite(f, s) ==
  IF f.table[s].node.mode # "reg" THEN f ELSE Written(Bmap(f, s, 0), s)

WriteClose(w) == IF w.s = None THEN w.f ELSE Iput(DoWrite(w.f, w.s), w.s)

HasData(f, s) == f.table[s].node.mode = "reg" /\ f.table[s].node.size > 0

CopyTo(w, r) ==
  IF w.s = None THEN [f |-> Iput(w.f, r), ok |-> FALSE]
  ELSE [f |-> Iput(Iput(IF HasData(w.f, r) THEN DoWrite(w.f, w.s) ELSE w.f, w.s), r),
        ok |-> TRUE]

CopyFrom(r, to) ==
  IF r.s = None THEN [f |-> r.f, ok |-> FALSE] ELSE CopyTo(OpenNamei(r.f, to, TRUE), r.s)

DoCopy(f, from, to) == CopyFrom(OpenNamei(f, from, FALSE), to)

Moved(c, from) == IF c.ok THEN DoUnhlink(c.f, from) ELSE c.f

-----------------------------------------------------------------------------
(***************************************************************************)
(* The root device as creat_rooti() leaves it.                             *)
(***************************************************************************)
RootNode ==
  [ZeroInode EXCEPT !.mode = "dir", !.nlinks = 2, !.size = 1, !.zone[0] = 1]

Init ==
  /\ inode_table = [s \in Slot |->
       IF s > 0 THEN EmptySlot
       ELSE [EmptySlot EXCEPT !.num = ROOT_IND_NR, !.valid = TRUE, !.node = RootNode]]
  /\ device = [imap |-> {ROOT_IND_NR}, zmap |-> {1},
               dev_inode |-> [i \in Inode |-> IF i = ROOT_IND_NR THEN RootNode
                                              ELSE ZeroInode],
               entries |-> [z \in Zone |->
                 IF z = 1 THEN NewDirEntries(ROOT_IND_NR, ROOT_IND_NR) ELSE NoEntries],
               objs |-> [z \in Zone |-> NoObjs]]
  /\ sb_pos = 0
  /\ leaks = [z \in Zone |-> 0]
  /\ cwd = ROOT_IND_NR /\ root = ROOT_IND_NR
  /\ halt = "no" /\ lost = {}

Done(f) ==
  /\ halt = "no"
  /\ \A z \in Zone : f.leaks[z] <= MaxLeaks
  /\ IF f.halt = "no" THEN Becomes(f)
     ELSE halt' = f.halt /\ UNCHANGED <<inode_table, device, sb_pos, leaks, lost>>

Command(f) == Done(f) /\ UNCHANGED <<cwd, root>>

Close(l) == IF l.s = None THEN l.f ELSE Iput(l.f, l.s)

Mkdir(path) == Command(DoMkdir(f0, path))
Rmdir(path) == Command(DoRmdir(f0, path))
Mknod(path) == Command(DoMknod(f0, path))
Ln(old, new) == Command(DoHlink(f0, old, new))
Rm(path) == Command(DoUnhlink(f0, path))
Ls(path) == Command(Close(Namei(f0, path)))
Write(path) == Command(WriteClose(OpenNamei(f0, path, TRUE)))
Cp(from, to) == Command(DoCopy(f0, from, to).f)
Mv(from, to) == Command(Moved(DoCopy(f0, from, to), from))

(***************************************************************************)
(* The process keeps the number of its directory, and no hold on it.       *)
(***************************************************************************)
DirNumber(l, otherwise) ==
  IF l.s # None /\ IsDir(l.f, l.s) THEN l.f.table[l.s].num ELSE otherwise

ChangedDir(l) == Done(Close(l)) /\ cwd' = DirNumber(l, cwd) /\ UNCHANGED root
Chdir(path) == ChangedDir(Namei(f0, path))

ChangedRoot(l) == Done(Close(l)) /\ root' = DirNumber(l, root) /\ UNCHANGED cwd
Chroot(path) == ChangedRoot(Namei(f0, path))

(***************************************************************************)
(* The file system ends, and is started again.                             *)
(***************************************************************************)
Restart ==
  /\ Done([SyncDevInodes(f0) EXCEPT !.table = [s \in Slot |-> EmptySlot], !.pos = 0,
                                    !.leaks = [z \in Zone |-> 0]])
  /\ cwd' = ROOT_IND_NR /\ root' = ROOT_IND_NR

Next ==
  \/ \E path \in Given["mkdir"] : Mkdir(path)
  \/ \E path \in Given["rmdir"] : Rmdir(path)
  \/ \E path \in Given["mknod"] : Mknod(path)
  \/ \E path \in Given["rm"] : Rm(path)
  \/ \E path \in Given["ls"] : Ls(path)
  \/ \E path \in Given["write"] : Write(path)
  \/ \E path \in Given["cd"] : Chdir(path)
  \/ \E path \in Given["chroot"] : Chroot(path)
  \/ \E old, new \in Given["ln"] : Ln(old, new)
  \/ \E from, to \in Given["cp"] : Cp(from, to)
  \/ \E from, to \in Given["mv"] : Mv(from, to)
  \/ Restart

Spec == Init /\ [][Next]_vars

-----------------------------------------------------------------------------
TypeOK ==
  LET DevInode == [mode : InodeMode, nlinks : Int, size : Nat,
                   zone : [0..DIRECT -> Zone \cup {NoZone}]]
  IN  /\ inode_table \in [Slot -> [num : Inode, cnt : 0..NR_INODE_BUF, dirt : BOOLEAN,
                                   valid : BOOLEAN, node : DevInode]]
      /\ device.imap \subseteq Inode /\ device.zmap \subseteq Zone
      /\ device.dev_inode \in [Inode -> DevInode]
      /\ device.entries \in [Zone -> [DOMAIN NoEntries ->
                                 [name : EntryName, inr : Inode]]]
      /\ device.objs \in [Zone -> [DOMAIN NoObjs -> Zone \cup {NoZone}]]
      /\ sb_pos \in 0..(NrZones - 1) /\ leaks \in [Zone -> 0..MaxLeaks]
      /\ cwd \in Inode /\ root \in Inode /\ lost \subseteq Zone
      /\ halt \in {"no", "crash", "hang"}

Node(i) == NodeOf(f0, i)

Dirs == {i \in device.imap : Node(i).mode = "dir"}

DirZones(d) == {ZoneOf(f0, Node(d).zone, n) : n \in FileBlock} \ {NoZone}

EntriesOf(d) ==
  {e \in DirZones(d) \X DOMAIN NoEntries : device.entries[e[1]][e[2]].name # NoName}

Entries == UNION {{<<d, device.entries[e[1]][e[2]].name, device.entries[e[1]][e[2]].inr, e>> :
                   e \in EntriesOf(d)} : d \in Dirs}

(***************************************************************************)
(* The count of an inode is the number of entries that name it, "." and    *)
(* ".." with them, and an inode that none names is free: over all commands *)
(* and the ways they fail (namei.c:280-297, 418-436, 604-619, 656-665).    *)
(***************************************************************************)
LinkCounts ==
  \A i \in Inode :
    LET names == Cardinality({e \in Entries : e[3] = i})
    IN  /\ i \in device.imap => Node(i).nlinks = names
        /\ i \in device.imap <=> names > 0

(***************************************************************************)
(* The names of a directory are different, a directory has one name and    *)
(* its ".." is where that is, and all hang from the root (namei.c:258-293).*)
(***************************************************************************)
NamesOf(d) == {e \in Entries : e[3] = d /\ e[2] \notin {".", ".."}}

DirsAreTree ==
  /\ \A e1, e2 \in Entries : e1[1] = e2[1] /\ e1[2] = e2[2] => e1 = e2
  /\ \A d \in Dirs \ {ROOT_IND_NR} :
       /\ Cardinality(NamesOf(d)) = 1
       /\ \A e \in NamesOf(d) : \E up \in Entries : up[1] = d /\ up[2] = ".." /\ up[3] = e[1]
  /\ \A S \in SUBSET (Dirs \ {ROOT_IND_NR}) :
       S # {} => \E e \in UNION {NamesOf(d) : d \in S} : e[1] \notin S

(***************************************************************************)
(* A zone has one user, and is in the map while it has it.  What is in the *)
(* map besides are the zones of directories that were removed, which       *)
(* clear_iblks() leaves (inode.c:317-318, bmap.c:46-101).                  *)
(***************************************************************************)
Users(z) ==
  UNION {{<<i, p>> : p \in {q \in Uses(f0, Node(i)) : ZoneIn(f0, Node(i).zone, q) = z}} :
         i \in device.imap}

ZonesHaveOneUser ==
  \A z \in Zone :
    /\ \A u, v \in Users(z) : u = v
    /\ Users(z) # {} => z \notin lost
    /\ z \in device.zmap <=> Users(z) # {} \/ z \in lost

(***************************************************************************)
(* Between commands no inode is in use, none is in the table twice, and    *)
(* what is in the table is on the device (inode.c:92-109, 136-163): on any *)
(* way out of a command it has given back all that it took.                *)
(***************************************************************************)
NothingPending ==
  \A s \in Slot :
    inode_table[s].valid =>
      /\ inode_table[s].cnt = 0
      /\ inode_table[s].num \in device.imap
      /\ Cached(f0, inode_table[s].num) = {s}
      /\ inode_table[s].node = device.dev_inode[inode_table[s].num]

(***************************************************************************)
(* No command meets an assertion of the file system (inode.c, bmap.c), nor *)
(* searches the inode table for ever (inode.c:71-85).                      *)
(***************************************************************************)
NeverHalts == halt = "no"
=============================================================================
