------------------------------- MODULE TlCache -------------------------------
(***************************************************************************)
(* The NAND driver of kernel/drv/blk/blk_drv.c: the table of good blocks   *)
(* and the cache of the translation layer, eight buffers of one erase      *)
(* block each, through which SYS_RW_NAND reads and writes single file      *)
(* blocks ("cells") and which SYS_SYNC_TL writes back.                     *)
(*                                                                         *)
(* A call runs with interrupts off.  Only a power failure interrupts it.   *)
(***************************************************************************)
EXTENDS Integers, FiniteSets, Sequences

CONSTANTS
  FirstBlk,     \* the blocks below are for boot loader, kernel and table (48)
  LastBlk,      \* the chip has the blocks 0..LastBlk (2047)
  CACHE_ST_NR,  \* number of cache slots
  LastReq,      \* callers ask for logical blocks 0..LastReq
  Cell, Data,   \* the file blocks of an erase block, and what is stored
  Junk,         \* the contents of a buffer or a cell nobody has written
  ReadErrors,   \* whether reading a block, or the table, may fail
  MaxBad        \* bound: the number of blocks that may wear out

None == -1
Phys == 0..LastBlk
Slot == 0..(CACHE_ST_NR - 1)

ASSUME TlCacheAssumption ==
  /\ FirstBlk \in Nat /\ LastBlk \in Nat /\ FirstBlk =< LastBlk
  /\ CACHE_ST_NR \in Nat \ {0} /\ LastReq \in Nat
  /\ ReadErrors \in BOOLEAN /\ MaxBad \in Nat
  /\ Junk \notin Data

VARIABLES
  flash,     \* flash[p]: the contents of physical block p
  bad,       \* the blocks marked bad on the chip
  good_blk,  \* map_tab: the physical block of each logical block
  listed,    \* get_map_tab() filled map_tab at this start
  oldest,    \* the slot with the least tl_cache[i].atime
  blkno,     \* tl_cache[i].blkno, None for a free slot
  buf,       \* tl_cache[i].buf
  dirt,      \* tl_cache[i].dirt
  wild,      \* the driver has used tl_cache[-1]
  answer     \* the block and the result of the last call

chipVars == <<flash, bad>>
bootVars == <<good_blk, listed, oldest>>
cacheVars == <<blkno, buf, dirt>>
vars == <<chipVars, bootVars, cacheVars, wild, answer>>

Reply(l, v) == [block |-> l, value |-> v]

Content == [Cell -> Data \cup {Junk}]
Lost == [c \in Cell |-> Junk]

-----------------------------------------------------------------------------
(***************************************************************************)
(* get_map_tab(): put_map_tab() is never called, so that a start that can  *)
(* read the table finds an invalid one and lists the good blocks again in  *)
(* order.                                                                  *)
(***************************************************************************)
MapTab(b) ==
  LET good == (FirstBlk..LastBlk) \ b
  IN  CHOOSE f \in [1..Cardinality(good) -> good] :
        \A i, j \in DOMAIN f : i < j => f[i] < f[j]

(***************************************************************************)
(* When a page of the table cannot be read, get_map_tab() returns before   *)
(* it looks at valid, nobody asks for its state, and the driver goes on    *)
(* with whatever is at MAP_TAB: the memory's contents, a half-read table,  *)
(* good_cnt included.  Such a table may send a block to any block of the   *)
(* chip, reserved ones and the table's own too, two blocks to the same, or *)
(* one to none.  (A later start that reads what was then written over the  *)
(* chip's table without an error is among these starts as well.)           *)
(***************************************************************************)
AnyTable == [1..(LastReq + 1) -> Phys \cup {None}]

GetMapTab ==
  \/ good_blk' = MapTab(bad) /\ listed' = TRUE
  \/ ReadErrors /\ good_blk' \in AnyTable /\ listed' = FALSE

l2pblkno(l) == IF l >= Len(good_blk) THEN None ELSE good_blk[l + 1]

(***************************************************************************)
(* blk_drv_init().  atime is neither set here nor anywhere else: it is what*)
(* the memory holds, so that the slot with the least one may be any, and   *)
(* stays the same until the next start.                                    *)
(***************************************************************************)
Init ==
  /\ flash \in [Phys -> Content]
  /\ bad = {}
  /\ \/ good_blk = MapTab(bad) /\ listed = TRUE
     \/ ReadErrors /\ good_blk \in AnyTable /\ listed = FALSE
  /\ oldest \in Slot
  /\ blkno = [i \in Slot |-> None]
  /\ buf = [i \in Slot |-> Lost]
  /\ dirt = [i \in Slot |-> FALSE]
  /\ wild = FALSE
  /\ answer = Reply(None, "none")

BlkDrvInit ==
  /\ GetMapTab
  /\ oldest' \in Slot
  /\ blkno' = [i \in Slot |-> None]
  /\ buf' = [i \in Slot |-> Lost]
  /\ dirt' = [i \in Slot |-> FALSE]
  /\ wild' = FALSE
  /\ answer' = Reply(None, "none")

-----------------------------------------------------------------------------
(***************************************************************************)
(* The copy at _BLK_CPY, out of or into slot i whose buffer holds content. *)
(***************************************************************************)
Request == [rw : {"READ"}, cell : Cell] \cup [rw : {"WRITE"}, cell : Cell, data : Data]

BlkCpy(i, content, l, r) ==
  IF r.rw = "READ"
  THEN /\ buf' = [buf EXCEPT ![i] = content]
       /\ answer' = Reply(l, content[r.cell])
       /\ UNCHANGED dirt
  ELSE /\ buf' = [buf EXCEPT ![i] = [content EXCEPT ![r.cell] = r.data]]
       /\ dirt' = [dirt EXCEPT ![i] = TRUE]
       /\ answer' = Reply(l, "done")

\* The slot a request for physical block p hits; a free slot is never hit.
Cached(p) == {i \in Slot : blkno[i] = p /\ blkno[i] # None}
Free == {i \in Slot : blkno[i] = None}

RwHit(l, r) ==
  /\ \E i \in Cached(l2pblkno(l)) : BlkCpy(i, buf[i], l, r)
  /\ UNCHANGED <<chipVars, bootVars, blkno, wild>>

(***************************************************************************)
(* read_blk(): for a request outside the device the number passed on is    *)
(* 0xFFFFFFFF (blkno is unsigned, the test for < 0 never holds); what is   *)
(* read there means nothing.                                               *)
(***************************************************************************)
ReadBlk(p, f) == IF p = None THEN Lost ELSE f[p]

Fill(i, content, l, r) ==
  \/ BlkCpy(i, content, l, r)
  \/ /\ ReadErrors
     /\ buf' = [buf EXCEPT ![i] = Lost]
     /\ answer' = Reply(l, "failed")
     /\ UNCHANGED dirt

\* Mutant: the slot is labelled with the number of the block after it.
ClaimNext(i, p) == blkno' = [blkno EXCEPT ![i] = p + 1]

\* Mutant: the slot is taken without noting which block it holds.
ClaimNothing(i, p) == blkno' = blkno

Claim(i, p) == blkno' = [blkno EXCEPT ![i] = p]

(***************************************************************************)
(* A miss with a free slot: the slot is claimed before the block is read,  *)
(* and stays claimed when the read fails.                                  *)
(***************************************************************************)
RwFill(l, r) ==
  LET p == l2pblkno(l)
      i == CHOOSE i \in Free : \A j \in Free : i =< j
  IN  /\ Cached(p) = {} /\ Free # {}
      /\ Claim(i, p)
      /\ Fill(i, ReadBlk(p, flash), l, r)
      /\ UNCHANGED <<chipVars, bootVars, wild>>

(***************************************************************************)
(* A miss without a free slot: sync_tl_cache() writes the oldest slot back *)
(* under its block number, and the slot is filled with the new block.  The *)
(* number and the mark of the slot stay those of the old block.  When the  *)
(* write fails the driver goes on with slot -1.                            *)
(***************************************************************************)
\* Mutant: the first slot is written back, whatever the access times.
SyncTlCacheFirst == 0

SyncTlCache == oldest

RwEvict(l, r) ==
  LET p == l2pblkno(l)
      min == SyncTlCache
      written == [flash EXCEPT ![blkno[min]] = buf[min]]
  IN  /\ Cached(p) = {} /\ Free = {}
      /\ \/ /\ blkno[min] \notin bad
            /\ flash' = written
            /\ Fill(min, ReadBlk(p, written), l, r)
            /\ UNCHANGED <<bad, wild>>
         \/ /\ blkno[min] \in bad \/ Cardinality(bad) < MaxBad
            /\ flash' = IF blkno[min] \in bad THEN flash
                        ELSE [flash EXCEPT ![blkno[min]] = Lost]
            /\ bad' = bad \cup {blkno[min]}
            /\ wild' = TRUE
            /\ UNCHANGED <<buf, dirt, answer>>
      /\ UNCHANGED <<bootVars, blkno>>

SysRwNand(l, r) ==
  ~wild /\ (RwHit(l, r) \/ RwFill(l, r) \/ RwEvict(l, r))

-----------------------------------------------------------------------------
(***************************************************************************)
(* write_blk() erases a block and then writes its pages.  A block marked   *)
(* bad is refused; one that fails is marked bad and its contents are lost. *)
(***************************************************************************)
Dirty == {i \in Slot : blkno[i] # None /\ dirt[i]}

WrittenBack(S) ==
  [p \in Phys |-> IF \E i \in S : blkno[i] = p
                  THEN buf[CHOOSE i \in S : blkno[i] = p] ELSE flash[p]]

(***************************************************************************)
(* sys_sync_tl(): the dirty slots are written in order until one fails.    *)
(***************************************************************************)
SyncUpTo(stop) == {i \in Dirty : i < stop}

SysSyncTl ==
  \/ /\ \A i \in Dirty : blkno[i] \notin bad
     /\ flash' = WrittenBack(Dirty)
     /\ dirt' = [i \in Slot |-> dirt[i] /\ i \notin Dirty]
     /\ answer' = Reply(None, "done")
     /\ UNCHANGED bad
  \/ \E stop \in Dirty :
       LET p == blkno[stop]
           back == WrittenBack(SyncUpTo(stop))
       IN  /\ \A i \in SyncUpTo(stop) : blkno[i] \notin bad
           /\ p \in bad \/ Cardinality(bad) < MaxBad
           /\ flash' = IF p \in bad THEN back ELSE [back EXCEPT ![p] = Lost]
           /\ bad' = bad \cup {p}
           /\ dirt' = [i \in Slot |-> dirt[i] /\ i \notin SyncUpTo(stop)]
           /\ answer' = Reply(None, "failed")

SyncTl ==
  /\ ~wild
  /\ SysSyncTl
  /\ UNCHANGED <<bootVars, blkno, buf, wild>>

(***************************************************************************)
(* The power fails between two calls; inside sys_sync_tl() with the slots  *)
(* below stop written and the block of stop erased; or inside the          *)
(* write_blk() of an eviction.                                             *)
(***************************************************************************)
PowerFails ==
  /\ \/ UNCHANGED flash
     \/ \E stop \in Dirty :
          /\ \A i \in SyncUpTo(stop) \cup {stop} : blkno[i] \notin bad
          /\ flash' = [WrittenBack(SyncUpTo(stop)) EXCEPT ![blkno[stop]] = Lost]
     \/ /\ ~wild /\ Free = {} /\ blkno[SyncTlCache] \notin bad
        /\ flash' = [flash EXCEPT ![blkno[SyncTlCache]] = Lost]
  /\ UNCHANGED bad
  /\ BlkDrvInit

Next ==
  \/ \E l \in 0..LastReq, r \in Request : SysRwNand(l, r)
  \/ SyncTl
  \/ PowerFails

Spec == Init /\ [][Next]_vars

-----------------------------------------------------------------------------
TypeOK ==
  /\ flash \in [Phys -> Content]
  /\ bad \subseteq Phys
  /\ good_blk \in Seq(Phys \cup {None})
  /\ listed \in BOOLEAN /\ oldest \in Slot
  /\ blkno \in [Slot -> Phys \cup {None}]
  /\ buf \in [Slot -> Content]
  /\ dirt \in [Slot -> BOOLEAN]
  /\ wild \in BOOLEAN

(***************************************************************************)
(* The driver is a block device, as long as it is asked for no more erase  *)
(* blocks than it has slots (blk_drv.c:413-464): a read returns what was   *)
(* written last, a successful sync makes it durable, a power failure loses *)
(* nothing that was.  All of this holds from a start that could read its   *)
(* table (blk_drv.c:285, 340, 385) until the power fails; a start that     *)
(* could not is Astray, and does no harm as long as nothing is synced.     *)
(* What is on the medium is then what a start that can read the table      *)
(* would find.                                                             *)
(***************************************************************************)
Blk == 0..(LastBlk - FirstBlk)

OnChip(l) == IF l2pblkno(l) = None THEN Lost ELSE flash[l2pblkno(l)]

View(l) == LET slots == Cached(l2pblkno(l))
           IN  IF slots = {} THEN OnChip(l) ELSE buf[CHOOSE i \in slots : TRUE]

Listing(table) ==
  [l \in Blk |-> IF l >= Len(table) THEN Lost ELSE flash[table[l + 1]]]

Medium == IF listed THEN [l \in Blk |-> OnChip(l)] ELSE Listing(MapTab(bad))

Device == INSTANCE BlockDev WITH
  Block <- Blk,
  disk <- [l \in Blk |-> View(l)],
  stable <- Medium,
  worn <- bad # {},
  mapped <- listed

DeviceSpec == Device!Spec

(***************************************************************************)
(* A slot holds the block it is labelled with (blk_drv.c:241 "physical blk *)
(* nr"): one nobody wrote to is a copy of what is on the chip.  An eviction*)
(* keeps the old label, so that this fails for one slot, the one with the  *)
(* least atime (blk_drv.c:401-411); the others keep holding their blocks.  *)
(***************************************************************************)
HoldsItsBlock(i) == blkno[i] # None /\ ~dirt[i] => buf[i] = flash[blkno[i]]

OthersHoldTheirBlocks == \A i \in Slot \ {oldest} : HoldsItsBlock(i)

-----------------------------------------------------------------------------
(***************************************************************************)
(* The inductive invariants.  No two slots have the same label, and every  *)
(* slot but the oldest is a copy of its block or could not be read.        *)
(***************************************************************************)
LabelsDiffer ==
  \A i, j \in Slot : blkno[i] # None /\ blkno[i] = blkno[j] => i = j

CopyOrUnread(i) ==
  blkno[i] # None /\ ~dirt[i] =>
    buf[i] = flash[blkno[i]] \/ (ReadErrors /\ buf[i] = Lost)

CacheInv ==
  /\ TypeOK /\ LabelsDiffer
  /\ \A i \in Slot \ {oldest} : CopyOrUnread(i)

(***************************************************************************)
(* With a slot for every block that is asked for there is no eviction: the *)
(* oldest slot is like the others.  A table that was read lists different  *)
(* blocks of the device, and all of them until the first one has worn out. *)
(* Labels come from the table, whatever is in it.                          *)
(***************************************************************************)
SlotForEveryBlock == LastReq < CACHE_ST_NR

TableOfGoodBlocks ==
  listed =>
    /\ \A i \in DOMAIN good_blk : good_blk[i] \in FirstBlk..LastBlk
    /\ \A i, j \in DOMAIN good_blk : good_blk[i] = good_blk[j] => i = j
    /\ Len(good_blk) =< LastBlk - FirstBlk + 1
    /\ bad = {} => good_blk = MapTab({}) /\ Len(good_blk) = LastBlk - FirstBlk + 1

LabelsAreAskedFor ==
  \A i \in Slot : blkno[i] # None =>
    \E l \in 0..LastReq : blkno[i] = l2pblkno(l)

DeviceInv ==
  /\ CacheInv /\ CopyOrUnread(oldest)
  /\ TableOfGoodBlocks /\ LabelsAreAskedFor /\ ~wild
=============================================================================
