-------------------------------- MODULE Inode ---------------------------------
(***************************************************************************)
(* Inodes and zones of the file system on the root device: the inode table *)
(* (fs/inode.c), the bitmaps of inodes and zones (fs/bmap.c) and the map   *)
(* from the blocks of a file to zones.  What is here are the functions     *)
(* that the commands of module Namei are made of; each maps file systems   *)
(* to file systems, and f is the file system as it is.                     *)
(*                                                                         *)
(* Blocks are read and written as module Store promises.  The zones behind *)
(* the double indirect block, which only a directory of thousands of pages *)
(* could have, are left out.                                               *)
(***************************************************************************)
EXTENDS Integers, FiniteSets, Sequences, FiniteSetsExt

CONSTANTS
  NR_INODE_BUF,          \* slots of the inode table
  NrInodes,              \* inodes of the device
  NrZones,               \* data zones of the device
  ZmapBlocks, ZoneBits,  \* blocks of the zone map, and the bits of one
  ByteBits,              \* bits of a byte of the map
  DIRECT,                \* direct zones of an inode
  NR_BLK_OBJS,           \* zones in an indirect block
  ENTRIES_PER_BLK,       \* entries of a directory in a zone
  Name                   \* names a user gives

NoName == ""  \* of an empty entry, and what is behind the last slash of a path

ASSUME InodeAssumption ==
  /\ {NR_INODE_BUF, NrInodes, NrZones, ByteBits, DIRECT, NR_BLK_OBJS} \subseteq Nat \ {0}
  /\ ZmapBlocks \in Nat \ {0} /\ ZoneBits \in Nat \ {0} /\ ZoneBits % ByteBits = 0
  /\ NrZones <= ZmapBlocks * ZoneBits
  /\ ENTRIES_PER_BLK \in Nat /\ ENTRIES_PER_BLK > 2
  /\ {NoName, ".", ".."} \cap Name = {}

None == -1
NoZone == 0
ROOT_IND_NR == 0
DeviceNumber == 1  \* of the device files that mknod makes; in i_zone[0]

Inode == 0..(NrInodes - 1)
Zone == 1..NrZones                   \* zone z has bit z - 1 in the map
Slot == 0..(NR_INODE_BUF - 1)
FileBlock == 0..(DIRECT + NR_BLK_OBJS - 1)
Position == 0..(DIRECT + NR_BLK_OBJS)
InodeMode == {"none", "dir", "reg", "dev"}

EmptyEntry == [name |-> NoName, inr |-> 0]
NoEntries == [k \in 0..(ENTRIES_PER_BLK - 1) |-> EmptyEntry]
NoObjs == [k \in 0..(NR_BLK_OBJS - 1) |-> NoZone]

(***************************************************************************)
(* The part of an inode that is on the device.  Zone DIRECT is that of the *)
(* indirect block; the size is in blocks, rounded up.  A zone has a        *)
(* position: 0..DIRECT in the inode, the others in the indirect block.     *)
(***************************************************************************)
ZeroInode ==
  [mode |-> "none", nlinks |-> 0, size |-> 0, zone |-> [k \in 0..DIRECT |-> NoZone]]

EmptySlot ==
  [num |-> 0, cnt |-> 0, dirt |-> FALSE, valid |-> FALSE, node |-> ZeroInode]

Crash(f) == [f EXCEPT !.halt = "crash"]

-----------------------------------------------------------------------------
(***************************************************************************)
(* find_first_zero(): bytes without a zero are skipped; the bits before    *)
(* from are skipped in the first byte that has one, whichever that is.     *)
(***************************************************************************)
First(S, otherwise) == IF S = {} THEN otherwise ELSE Min(S)

Seen(zeros, from) ==
  {l \in zeros : \/ l % ByteBits >= from % ByteBits
                 \/ \E k \in zeros : k \div ByteBits < l \div ByteBits}

FindFirstZero(zeros, from) ==
  First(Seen({l \in zeros : l \div ByteBits >= from \div ByteBits}, from), None)

(***************************************************************************)
(* new_block(): from the bit of the last zone that was given out, through  *)
(* the blocks of the map, but not back to the start of the first.          *)
(***************************************************************************)
ZmapBlock(f, i) == (f.pos \div ZoneBits + i) % ZmapBlocks

FreeBit(f, i) ==
  FindFirstZero({l \in 0..(ZoneBits - 1) : ZmapBlock(f, i) * ZoneBits + l + 1 \notin f.zmap},
                IF i = 0 THEN f.pos % ZoneBits ELSE 0)

ZoneAt(blk, bit) == IF bit = None THEN NoZone ELSE blk * ZoneBits + bit + 1

FreeIn(f, i) == ZoneAt(ZmapBlock(f, i), FreeBit(f, i))

FreeZone(f) ==
  LET turns == {i \in 0..(ZmapBlocks - 1) : FreeIn(f, i) \in Zone}
  IN  IF turns = {} THEN NoZone ELSE FreeIn(f, Min(turns))

\* Mutant: the bit that was found is not set in the map.
NewBlockUnmarked(f) == [f |-> f, z |-> FreeZone(f)]

Give(f, z) ==
  IF z = NoZone THEN [f |-> f, z |-> NoZone]
  ELSE [f |-> [f EXCEPT !.zmap = @ \cup {z}, !.pos = z - 1,
                        !.entries[z] = NoEntries, !.objs[z] = NoObjs],
        z |-> z]

NewBlock(f) == Give(f, FreeZone(f))

(***************************************************************************)
(* free_block() of a zone that is free, or of one with a pin on its        *)
(* buffer that was never given back, crashes.                              *)
(***************************************************************************)
FreeBlock(f, z) ==
  IF z \in f.zmap /\ f.leaks[z] = 0 THEN [f EXCEPT !.zmap = @ \ {z}] ELSE Crash(f)

-----------------------------------------------------------------------------
WriteDevInode(f, s) ==
  [f EXCEPT !.dev_inode[f.table[s].num] = f.table[s].node, !.table[s].dirt = FALSE]

(***************************************************************************)
(* sync_dev_inodes(): writes what nobody uses, slot after slot, and        *)
(* empties the slots.                                                      *)
(***************************************************************************)
ToWrite(f) == {s \in Slot : f.table[s].cnt = 0 /\ f.table[s].dirt /\ f.table[s].valid}

SyncDevInodes(f) ==
  [f EXCEPT
     !.table = [s \in Slot |-> IF s \in ToWrite(f) THEN EmptySlot ELSE f.table[s]],
     !.dev_inode = [i \in Inode |->
       LET copies == {s \in ToWrite(f) : f.table[s].num = i}
       IN  IF copies = {} THEN f.dev_inode[i] ELSE f.table[Max(copies)].node]]

Vacant(f) == {s \in Slot : f.table[s].cnt = 0 /\ ~(f.table[s].dirt /\ f.table[s].valid)}

(***************************************************************************)
(* get_empty_inode(): the first slot without user and with nothing to      *)
(* write.  With every slot in use it searches for ever.                    *)
(***************************************************************************)
TakeSlot(f, s) ==
  IF s = None THEN [f |-> [f EXCEPT !.halt = "hang"], s |-> 0]
  ELSE [f |-> [f EXCEPT !.table[s] = EmptySlot], s |-> s]

TakeVacant(f) == TakeSlot(f, First(Vacant(f), None))

GetEmptyInode(f) == TakeVacant(IF Vacant(f) # {} THEN f ELSE SyncDevInodes(f))

(***************************************************************************)
(* iget(): NULL for an inode that the map has as free.                     *)
(***************************************************************************)
Cached(f, i) == {s \in Slot : f.table[s].valid /\ f.table[s].num = i}

\* An inode as the file system has it, from the table or from the device.
NodeOf(f, i) ==
  IF Cached(f, i) = {} THEN f.dev_inode[i] ELSE f.table[Min(Cached(f, i))].node

Hold(e, i, dirt, node) ==
  [e EXCEPT !.f.table[e.s] =
     [num |-> i, cnt |-> 1, dirt |-> dirt, valid |-> TRUE, node |-> node]]

Iget(f, i) ==
  IF i \notin f.imap THEN [f |-> f, s |-> None]
  ELSE IF Cached(f, i) # {}
  THEN [f |-> [f EXCEPT !.table[Min(Cached(f, i))].cnt = @ + 1], s |-> Min(Cached(f, i))]
  ELSE Hold(GetEmptyInode(f), i, FALSE, f.dev_inode[i])

(***************************************************************************)
(* new_inode(): NULL when the map is full.                                 *)
(***************************************************************************)
MakeInode(f, i) ==
  IF i = None THEN [f |-> f, s |-> None]
  ELSE Hold(GetEmptyInode([f EXCEPT !.imap = @ \cup {i}]), i, TRUE,
            [ZeroInode EXCEPT !.nlinks = 1])

NewInode(f) == MakeInode(f, First(Inode \ f.imap, None))

(***************************************************************************)
(* The zone at a position of an inode, and the positions that have one.  A *)
(* device file has its device number there.                                *)
(***************************************************************************)
ZoneIn(f, zone, p) ==
  IF p <= DIRECT THEN zone[p]
  ELSE IF zone[DIRECT] = NoZone THEN NoZone ELSE f.objs[zone[DIRECT]][p - DIRECT - 1]

Filled(f, zone) == {p \in Position : ZoneIn(f, zone, p) # NoZone}

Uses(f, node) == IF node.mode = "dev" THEN {} ELSE Filled(f, node.zone)

ZonesOf(f, node) == {ZoneIn(f, node.zone, p) : p \in Uses(f, node)}

(***************************************************************************)
(* free_inode().  The history lost keeps the zones that are still in the   *)
(* map and will never be freed.                                            *)
(***************************************************************************)
FreeInode(f, s) ==
  IF f.table[s].num \notin f.imap THEN Crash(f)
  ELSE [f EXCEPT !.imap = @ \ {f.table[s].num}, !.table[s] = EmptySlot,
                 !.lost = @ \cup (ZonesOf(f, f.table[s].node) \cap f.zmap)]

(***************************************************************************)
(* clear_iblks(): the zones of a regular file, and of no other.  Each is   *)
(* freed as in free_block().                                               *)
(***************************************************************************)
CanClear(f, zone) ==
  /\ \A p \in Filled(f, zone) :
       ZoneIn(f, zone, p) \in f.zmap /\ f.leaks[ZoneIn(f, zone, p)] = 0
  /\ \A p, q \in Filled(f, zone) : ZoneIn(f, zone, p) = ZoneIn(f, zone, q) => p = q

ClearZones(f, zone) ==
  IF CanClear(f, zone)
  THEN [f EXCEPT !.zmap = @ \ {ZoneIn(f, zone, p) : p \in Filled(f, zone)}] ELSE Crash(f)

\* Mutant: device files and directories are not told apart from files.
ClearAnyBlks(f, s) == ClearZones(f, f.table[s].node.zone)

ClearIblks(f, s) ==
  IF f.table[s].node.mode # "reg" THEN f
  ELSE [ClearZones(f, f.table[s].node.zone) EXCEPT
          !.table[s].node.zone = ZeroInode.zone, !.table[s].node.size = 0]

\* Mutant: a user of an inode does not give it back.
IputKeeps(f, s) ==
  IF f.table[s].node.nlinks > 0 /\ f.table[s].dirt
  THEN WriteDevInode(f, s) ELSE f

(***************************************************************************)
(* iput(): the last user of an inode frees it when no entry names it, and  *)
(* writes it otherwise.  The slot keeps a copy.                            *)
(***************************************************************************)
Release(f, s) ==
  IF f.table[s].cnt > 0 THEN f
  ELSE IF f.table[s].node.nlinks = 0 THEN FreeInode(ClearIblks(f, s), s)
  ELSE IF f.table[s].dirt /\ f.table[s].valid THEN WriteDevInode(f, s) ELSE f

Iput(f, s) ==
  IF f.table[s].cnt = 0 THEN f ELSE Release([f EXCEPT !.table[s].cnt = @ - 1], s)

-----------------------------------------------------------------------------
(***************************************************************************)
(* _bmap(): the zone of block n of a file, NoZone when there is none.      *)
(***************************************************************************)
ZoneOf(f, zone, n) == ZoneIn(f, zone, IF n < DIRECT THEN n ELSE n + 1)

(***************************************************************************)
(* _bmap() that makes the zones that are missing, as far as there are      *)
(* some left; new tells that the zone of the block itself was made.        *)
(***************************************************************************)
SetInodeZone(b, s, k) ==
  IF b.z = NoZone THEN [f |-> b.f, z |-> NoZone, new |-> FALSE]
  ELSE [f |-> [b.f EXCEPT !.table[s].node.zone[k] = b.z, !.table[s].dirt = TRUE],
        z |-> b.z, new |-> TRUE]

InodeZone(f, s, k) ==
  IF f.table[s].node.zone[k] = NoZone THEN SetInodeZone(NewBlock(f), s, k)
  ELSE [f |-> f, z |-> f.table[s].node.zone[k], new |-> FALSE]

SetObj(b, ind, k) ==
  IF b.z = NoZone THEN [f |-> b.f, z |-> NoZone, new |-> FALSE]
  ELSE [f |-> [b.f EXCEPT !.objs[ind][k] = b.z], z |-> b.z, new |-> TRUE]

IndirectZone(b, k) ==
  IF b.z = NoZone THEN [b EXCEPT !.new = FALSE]
  ELSE IF b.f.objs[b.z][k] = NoZone THEN SetObj(NewBlock(b.f), b.z, k)
  ELSE [f |-> b.f, z |-> b.f.objs[b.z][k], new |-> FALSE]

Bmap(f, s, n) ==
  IF n < DIRECT THEN InodeZone(f, s, n) ELSE IndirectZone(InodeZone(f, s, DIRECT), n - DIRECT)
=============================================================================
