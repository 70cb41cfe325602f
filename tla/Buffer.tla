-------------------------------- MODULE Buffer --------------------------------
(***************************************************************************)
(* The buffer cache of the file system, fs/buffer.c, with the two uses of  *)
(* it in fs/bmap.c that go past bread() and brelse().  The file system     *)
(* task is the only one to use it.  A buffer is cached while it is pinned  *)
(* or dirty; brelse() gives up a clean one at once.                        *)
(***************************************************************************)
EXTENDS Integers, FiniteSets, Sequences, SequencesExt

CONSTANTS
  Block,       \* the blocks of the devices, as numbers
  Dev,         \* Dev[b]: bh_dev of block b
  Row,         \* Row[b]: get_irow(), the hash row of block b
  NR_BUFFERS, OUT_BLKS,
  Data, Zero,  \* contents of blocks; Zero is that of a block just allocated
  Broken,      \* the blocks the device neither reads nor writes
  MaxPins      \* bound: how many pins the file system holds at once

None == -1
BufferHead == 0..(NR_BUFFERS - 1)

ASSUME BufferAssumption ==
  /\ Block \subseteq Nat
  /\ NR_BUFFERS \in Nat \ {0} /\ OUT_BLKS \in Nat /\ MaxPins \in Nat
  /\ Zero \in Data /\ Broken \subseteq Block

VARIABLES
  bh,         \* the buffer heads
  free_list,  \* the unused buffers, in order
  hash,       \* the hash rows, each a chain of buffers
  pos,        \* where sync_blks() goes on
  device,     \* what the devices have
  held,       \* held[i, b]: the pins of the file system on buffer i for block b
  halt        \* "stuck" or "crash" when the file system has stopped

cacheVars == <<bh, free_list, hash, pos, device>>
vars == <<cacheVars, held, halt>>

(***************************************************************************)
(* The functions below map caches to caches; c is the cache as it is.      *)
(***************************************************************************)
c0 == [bh |-> bh, free |-> free_list, hash |-> hash, pos |-> pos, device |-> device]

Becomes(c) ==
  /\ bh' = c.bh /\ free_list' = c.free /\ hash' = c.hash
  /\ pos' = c.pos /\ device' = c.device

-----------------------------------------------------------------------------
(***************************************************************************)
(* find_buffer() searches a chain from both ends at once and stops when    *)
(* the ends meet or are neighbours.                                        *)
(***************************************************************************)
Turns(n) ==
  CHOOSE t \in 1..n :
    /\ t = n + 1 - t \/ (t % n) + 1 = n + 1 - t
    /\ \A u \in 1..(t - 1) : u # n + 1 - u /\ (u % n) + 1 # n + 1 - u

Looked(chain) ==
  LET n == Len(chain)
  IN  IF n = 0 THEN {}
      ELSE {chain[t] : t \in 1..Turns(n)} \cup {chain[n + 1 - t] : t \in 1..Turns(n)}

\* Mutant: the search from the end of the chain is left out.
FindFromHead(c, b) ==
  LET chain == c.hash[Row[b]]
      hit == {i \in {chain[t] : t \in 1..Turns(Len(chain))} : c.bh[i].blk = b}
  IN  IF chain = <<>> \/ hit = {} THEN None ELSE CHOOSE i \in hit : TRUE

FindBuffer(c, b) ==
  LET hit == {i \in Looked(c.hash[Row[b]]) : c.bh[i].blk = b}
  IN  IF hit = {} THEN None ELSE CHOOSE i \in hit : TRUE

(***************************************************************************)
(* free_buffer(): out of its chain, to the end of the free list.           *)
(***************************************************************************)
FreeBuffer(c, i) ==
  [c EXCEPT !.hash[Row[c.bh[i].blk]] = RemoveAt(@, CHOOSE k \in DOMAIN @ : @[k] = i),
            !.free = Append(@, i),
            !.bh[i] = [blk |-> None, cnt |-> 0, valid |-> FALSE, dirt |-> FALSE,
                       data |-> Zero]]

(***************************************************************************)
(* The device is written without regard to the result.                     *)
(***************************************************************************)
WriteBack(c, i) ==
  IF ~c.bh[i].dirt \/ ~c.bh[i].valid THEN c
  ELSE [c EXCEPT !.bh[i].dirt = FALSE,
                 !.device[c.bh[i].blk] =
                   IF c.bh[i].blk \in Broken THEN @ ELSE c.bh[i].data]

\* Mutant: a buffer is freed without being written.
SyncTurnNoWrite(c, i) ==
  IF c.bh[i].cnt = 0 THEN FreeBuffer(c, i) ELSE c

SyncTurn(c, i) ==
  LET w == WriteBack(c, i) IN IF w.bh[i].cnt = 0 THEN FreeBuffer(w, i) ELSE w

\* Mutant: the loop stops with the buffer before.
SyncEndsEarly(cnt, out) == cnt >= out

(***************************************************************************)
(* sync_blks(out) goes once round the buffers, from the one behind pos on, *)
(* and stops behind the one that makes out + 1 freed buffers.              *)
(***************************************************************************)
SyncEnds(cnt, out) == cnt > out

SyncNext(s, out) ==
  LET i == (s.c.pos + 1) % NR_BUFFERS
      d == [s.c EXCEPT !.pos = i]
  IN  IF SyncEnds(s.cnt, out) THEN s
      ELSE IF d.bh[i].blk = None THEN [s EXCEPT !.c = d]
      ELSE [c |-> SyncTurn(d, i),
            cnt |-> IF d.bh[i].cnt = 0 THEN s.cnt + 1 ELSE s.cnt]

SyncRun(c, out) ==
  LET run[t \in 0..NR_BUFFERS] ==
        IF t = 0 THEN [c |-> c, cnt |-> 0] ELSE SyncNext(run[t - 1], out)
  IN  run

SyncBlks(c, out) == SyncRun(c, out)[NR_BUFFERS].c

-----------------------------------------------------------------------------
(***************************************************************************)
(* get_buffer(): with no free buffer left, sync_blks() is called until     *)
(* there is one: for ever when every buffer is pinned.                     *)
(***************************************************************************)
Room(c) == IF c.free # <<>> THEN c ELSE SyncBlks(c, OUT_BLKS)

Stuck(c, b) == FindBuffer(c, b) = None /\ Room(c).free = <<>>

(***************************************************************************)
(* get_blk(): the buffer that is pinned, and the cache with it.            *)
(***************************************************************************)
GetBlk(c, b) ==
  LET i == FindBuffer(c, b)
      r == Room(c)
      j == Head(r.free)
  IN  IF i # None THEN [i |-> i, c |-> [c EXCEPT !.bh[i].cnt = @ + 1]]
      ELSE [i |-> j,
            c |-> [r EXCEPT !.free = Tail(@), !.hash[Row[b]] = Append(@, j),
                            !.bh[j] = [@ EXCEPT !.blk = b, !.cnt = 1]]]

\* Mutant: a pin is given back twice.
BrelseTwice(c, i) == [c EXCEPT !.bh[i].cnt = @ - 2]

\* Mutant: a clean buffer is given up while others still hold it.
BrelseAll(c, i) ==
  IF ~c.bh[i].dirt THEN FreeBuffer(c, i) ELSE [c EXCEPT !.bh[i].cnt = @ - 1]

(***************************************************************************)
(* brelse(): the last pin of a buffer with nothing to write back frees it. *)
(***************************************************************************)
Release(c, i) ==
  LET d == [c EXCEPT !.bh[i].cnt = @ - 1]
  IN  IF d.bh[i].cnt = 0 /\ (~d.bh[i].dirt \/ ~d.bh[i].valid)
      THEN FreeBuffer(d, i) ELSE d

-----------------------------------------------------------------------------
Init ==
  /\ bh = [i \in BufferHead |-> [blk |-> None, cnt |-> 0, valid |-> FALSE,
                                 dirt |-> FALSE, data |-> Zero]]
  /\ free_list = [i \in 1..NR_BUFFERS |-> i - 1]
  /\ hash = [r \in {Row[b] : b \in Block} |-> <<>>]
  /\ pos = 0
  /\ device \in [Block -> Data]
  /\ held = [p \in BufferHead \X Block |-> 0]
  /\ halt = "no"

PinsBelow ==
  LET sum[n \in 0..NR_BUFFERS] == IF n = 0 THEN 0 ELSE sum[n - 1] + bh[n - 1].cnt
  IN  sum

Pins == PinsBelow[NR_BUFFERS]

Stop(why) == halt' = why /\ UNCHANGED <<cacheVars, held>>

(***************************************************************************)
(* bread(): when the read fails NULL is returned and the pin stays.        *)
(***************************************************************************)
Bread(b) ==
  /\ halt = "no" /\ Pins < MaxPins
  /\ IF Stuck(c0, b) THEN Stop("stuck")
     ELSE LET got == GetBlk(c0, b)
              c == got.c
              i == got.i
          IN  /\ IF c.bh[i].valid \/ b \in Broken THEN Becomes(c)
                 ELSE Becomes([c EXCEPT !.bh[i].valid = TRUE,
                                        !.bh[i].data = c.device[b]])
              /\ held' = IF c.bh[i].valid \/ b \notin Broken
                         THEN [held EXCEPT ![<<i, b>>] = @ + 1] ELSE held
              /\ UNCHANGED halt

\* The holder of a buffer changes its contents and sets bh_dirt.
Modify(i, b, d) ==
  /\ halt = "no" /\ held[i, b] > 0
  /\ bh' = [bh EXCEPT ![i].data = d, ![i].dirt = TRUE]
  /\ UNCHANGED <<free_list, hash, pos, device, held, halt>>

Brelse(i, b) ==
  /\ halt = "no" /\ held[i, b] > 0
  /\ Becomes(Release(c0, i))
  /\ held' = [held EXCEPT ![<<i, b>>] = @ - 1]
  /\ UNCHANGED halt

NotHeld(b) == \A i \in BufferHead : held[i, b] = 0

(***************************************************************************)
(* new_block() of a block nobody uses: a buffer is filled with zeros, and  *)
(* left to be written.                                                     *)
(***************************************************************************)
NewBlock(b) ==
  /\ halt = "no" /\ NotHeld(b) /\ Pins < MaxPins
  /\ IF Stuck(c0, b) THEN Stop("stuck")
     ELSE LET got == GetBlk(c0, b)
              c == got.c
              i == got.i
          IN  /\ Becomes(Release([c EXCEPT !.bh[i].data = Zero, !.bh[i].valid = TRUE,
                                           !.bh[i].dirt = TRUE], i))
              /\ UNCHANGED <<held, halt>>

(***************************************************************************)
(* free_block(): what is cached of the block is dropped; a pin that nobody *)
(* should have crashes the file system.                                    *)
(***************************************************************************)
FreeBlock(b) ==
  /\ halt = "no" /\ NotHeld(b) /\ Pins < MaxPins
  /\ IF Stuck(c0, b) THEN Stop("stuck")
     ELSE LET got == GetBlk(c0, b)
              c == got.c
              i == got.i
          IN  IF c.bh[i].cnt # 1 THEN Stop("crash")
              ELSE /\ Becomes(Release([c EXCEPT !.bh[i].valid = FALSE,
                                                !.bh[i].dirt = FALSE], i))
                   /\ UNCHANGED <<held, halt>>

(***************************************************************************)
(* sync_blks(-1), when the file system ends, and sync_dev_blks() of an     *)
(* unmounted device.                                                       *)
(***************************************************************************)
SyncAll ==
  /\ halt = "no"
  /\ Becomes(SyncBlks(c0, NR_BUFFERS - 1))
  /\ UNCHANGED <<held, halt>>

SyncDevTurn(c, i, dev) ==
  IF c.bh[i].blk = None \/ ~c.bh[i].dirt \/ ~c.bh[i].valid \/ Dev[c.bh[i].blk] # dev
  THEN c ELSE SyncTurn(c, i)

SyncDevRun(c, dev) ==
  LET run[t \in 0..NR_BUFFERS] == IF t = 0 THEN c ELSE SyncDevTurn(run[t - 1], t - 1, dev)
  IN  run

SyncDevBlks(dev) ==
  /\ halt = "no"
  /\ Becomes(SyncDevRun(c0, dev)[NR_BUFFERS])
  /\ UNCHANGED <<held, halt>>

Next ==
  \/ \E b \in Block : Bread(b) \/ NewBlock(b) \/ FreeBlock(b)
  \/ \E i \in BufferHead, b \in Block :
       Brelse(i, b) \/ \E d \in Data : Modify(i, b, d)
  \/ SyncAll
  \/ \E b \in Block : SyncDevBlks(Dev[b])

Spec == Init /\ [][Next]_vars

-----------------------------------------------------------------------------
TypeOK ==
  /\ bh \in [BufferHead -> [blk : Block \cup {None}, cnt : 0..MaxPins,
                            valid : BOOLEAN, dirt : BOOLEAN, data : Data]]
  /\ free_list \in Seq(BufferHead)
  /\ hash \in [{Row[b] : b \in Block} -> Seq(BufferHead)]
  /\ pos \in BufferHead /\ device \in [Block -> Data]
  /\ held \in [BufferHead \X Block -> 0..MaxPins]
  /\ halt \in {"no", "stuck", "crash"}

(***************************************************************************)
(* The cache is transparent (buffer.c:162-207, 243-265): a block reads as  *)
(* the file system left it, whichever buffers have been given up, written  *)
(* or read again in between.                                               *)
(***************************************************************************)
CachedIn(c, b) == {i \in BufferHead : c.bh[i].blk = b /\ c.bh[i].valid}

ViewIn(c, b) == IF CachedIn(c, b) = {} THEN c.device[b]
                ELSE c.bh[CHOOSE i \in CachedIn(c, b) : TRUE].data

View(b) == ViewIn(c0, b)

TheStore == INSTANCE Store WITH view <- [b \in Block |-> View(b)]

StoreSpec == TheStore!Spec

(***************************************************************************)
(* A block is in one buffer, which is found in its row and is not free; a  *)
(* buffer for no block is free (buffer.c:32-131).                          *)
(***************************************************************************)
CachedOnce ==
  /\ \A i, j \in BufferHead : bh[i].blk = bh[j].blk /\ bh[i].blk # None => i = j
  /\ \A b \in Block : Cardinality({i \in BufferHead : bh[i].blk = b}) =
                      (IF FindBuffer(c0, b) = None THEN 0 ELSE 1)
  /\ {free_list[k] : k \in DOMAIN free_list} = {i \in BufferHead : bh[i].blk = None}
  /\ Len(free_list) = Cardinality({i \in BufferHead : bh[i].blk = None})

(***************************************************************************)
(* The count of a buffer is the number of pins on it, and a pinned buffer  *)
(* stays with its block (buffer.c:162-192, 258).                           *)
(***************************************************************************)
PinsAreHeld ==
  \A i \in BufferHead :
    /\ \A b \in Block : held[i, b] > 0 => bh[i].blk = b /\ bh[i].valid
    /\ bh[i].cnt = IF bh[i].blk = None THEN 0 ELSE held[i, bh[i].blk]

(***************************************************************************)
(* A buffer is found as long as not all are pinned, and a block that       *)
(* nobody holds can be freed (buffer.c:55-72, bmap.c:55-60).               *)
(***************************************************************************)
NeverHalts == halt = "no"

(***************************************************************************)
(* After the last sync nothing is left to write (fs/main.c:164-167).       *)
(***************************************************************************)
SyncIsComplete == [][SyncAll => \A b \in Block : device'[b] = View(b)']_vars

-----------------------------------------------------------------------------
(***************************************************************************)
(* The inductive invariant.  Of the cache: the free list and the rows list *)
(* the buffers they should, once; a buffer stays cached for its pins or    *)
(* for what is to be written; a clean one is what the device has.          *)
(***************************************************************************)
NoRepeat(s) == \A k, l \in DOMAIN s : s[k] = s[l] => k = l

ListsOK(c) ==
  /\ \A i, j \in BufferHead : c.bh[i].blk = c.bh[j].blk /\ c.bh[i].blk # None => i = j
  /\ NoRepeat(c.free)
  /\ \A i \in BufferHead : i \in ToSet(c.free) <=> c.bh[i].blk = None
  /\ \A r \in {Row[b] : b \in Block} :
       /\ NoRepeat(c.hash[r])
       /\ \A i \in BufferHead :
            i \in ToSet(c.hash[r]) <=> c.bh[i].blk # None /\ Row[c.bh[i].blk] = r

BufferOK(c, i) ==
  /\ c.bh[i].blk = None => c.bh[i].cnt = 0 /\ ~c.bh[i].valid
  /\ c.bh[i].blk # None /\ c.bh[i].cnt = 0 => c.bh[i].dirt
  /\ c.bh[i].dirt => c.bh[i].valid
  /\ c.bh[i].valid /\ ~c.bh[i].dirt /\ c.bh[i].blk \notin Broken =>
       c.bh[i].data = c.device[c.bh[i].blk]

BuffersOK(c) == \A i \in BufferHead : BufferOK(c, i)

(***************************************************************************)
(* Of the pins: whoever holds a buffer has a pin on it; but a block that   *)
(* cannot be read keeps the pins of those who tried.                       *)
(***************************************************************************)
HoldersOK ==
  \A i \in BufferHead :
    /\ \A b \in Block : held[i, b] > 0 =>
         bh[i].blk = b /\ bh[i].valid /\ held[i, b] =< bh[i].cnt
    /\ bh[i].blk # None /\ bh[i].blk \notin Broken =>
         bh[i].valid /\ bh[i].cnt = held[i, bh[i].blk]

BufferInv == TypeOK /\ ListsOK(c0) /\ BuffersOK(c0) /\ HoldersOK
=============================================================================
