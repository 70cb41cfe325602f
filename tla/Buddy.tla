-------------------------------- MODULE Buddy --------------------------------
(***************************************************************************)
(* The page allocator of kernel/kmalloc.c.  A free list threads through    *)
(* every page of its blocks, one block after the other: a block of order k *)
(* is taken off and put on by relinking the pages at its two ends, which   *)
(* is right as long as the 2^k pages behind the first are its followers.   *)
(***************************************************************************)
EXTENDS Integers

CONSTANTS
  MAX_BUDDY_PAGE_NUM,  \* the orders are 0..MAX_BUDDY_PAGE_NUM - 1
  KERNEL_PAGE_NUM      \* the number of pages

ASSUME BuddyAssumption ==
  /\ MAX_BUDDY_PAGE_NUM \in Nat \ {0}
  /\ KERNEL_PAGE_NUM \in Nat \ {0}

Page == 0..(KERNEL_PAGE_NUM - 1)
Order == 0..(MAX_BUDDY_PAGE_NUM - 1)
TopOrder == MAX_BUDDY_PAGE_NUM - 1

(***************************************************************************)
(* 1 << k: the pages of a block of order k, and of two of the largest.     *)
(***************************************************************************)
Size[k \in 0..MAX_BUDDY_PAGE_NUM] == IF k = 0 THEN 1 ELSE 2 * Size[k - 1]

(***************************************************************************)
(* The nodes of the lists are the pages and the heads page_buddy[k].       *)
(***************************************************************************)
ListHead(k) == -1 - k
ListOf(head) == -1 - head
Heads == {ListHead(k) : k \in Order}
Node == Page \cup Heads

VARIABLES
  next, prev,  \* the links of the nodes
  order,       \* order[p]: the order of the block p is the first page of, or -1
  busy,        \* the pages with PAGE_BUDDY_BUSY set
  held,        \* the blocks [first, order] that callers have
  wild         \* a list outside page_buddy has been touched

vars == <<next, prev, order, busy, held, wild>>

BlockPages(b) == b.first..(b.first + Size[b.order] - 1)
Taken == UNION {BlockPages(b) : b \in held}

-----------------------------------------------------------------------------
(***************************************************************************)
(* init_page_map(): what does not fill twice the largest block goes to the *)
(* list of single pages.  Of two largest blocks only the first gets its    *)
(* order, and all their pages are in one list.                             *)
(***************************************************************************)
Twice == Size[MAX_BUDDY_PAGE_NUM]
Bulk == KERNEL_PAGE_NUM - (KERNEL_PAGE_NUM % Twice)

RingOf(p) == IF p < Bulk THEN TopOrder ELSE 0
First(k) == IF k = TopOrder THEN 0 ELSE Bulk
Last(k) == IF k = 0 THEN KERNEL_PAGE_NUM - 1 ELSE Bulk - 1
Filled(k) == First(k) <= Last(k)

FirstNext(n) ==
  IF n \in Page THEN IF n = Last(RingOf(n)) THEN ListHead(RingOf(n)) ELSE n + 1
  ELSE IF Filled(ListOf(n)) THEN First(ListOf(n)) ELSE n

FirstPrev(n) ==
  IF n \in Page THEN IF n = First(RingOf(n)) THEN ListHead(RingOf(n)) ELSE n - 1
  ELSE IF Filled(ListOf(n)) THEN Last(ListOf(n)) ELSE n

\* Mutant: the first page of a largest block gets an order with no list.
FirstOrderTooHigh(p) ==
  IF p >= Bulk THEN 0 ELSE IF p % Twice = 0 THEN MAX_BUDDY_PAGE_NUM ELSE -1

FirstOrder(p) ==
  IF p >= Bulk THEN 0 ELSE IF p % Twice = 0 THEN TopOrder ELSE -1

Init ==
  /\ next = [n \in Node |-> FirstNext(n)]
  /\ prev = [n \in Node |-> FirstPrev(n)]
  /\ order = [p \in Page |-> FirstOrder(p)]
  /\ busy = {}
  /\ held = {}
  /\ wild = FALSE

-----------------------------------------------------------------------------
(***************************************************************************)
(* The loops work on a record of the links, the orders and the block at    *)
(* hand.  BUDDY_END and list_add_chain_tail:                               *)
(***************************************************************************)
End(p, k) == p + Size[k] - 1

AddChainTail(next0, prev0, ch, ct, h) ==
  [next |-> [next0 EXCEPT ![prev0[h]] = ch, ![ct] = h],
   prev |-> [prev0 EXCEPT ![ch] = prev0[h], ![h] = ct]]

(***************************************************************************)
(* One turn of the cutting loop of get_pages_from_list(): the first half   *)
(* of the block goes to the list of order k, the second half is cut on.    *)
(***************************************************************************)
CutFirst(s, k) ==
  LET l == AddChainTail(s.next, s.prev, s.pg, End(s.pg, k), ListHead(k))
  IN  [pg |-> s.pg + Size[k], next |-> l.next, prev |-> l.prev,
       order |-> [s.order EXCEPT ![s.pg] = k]]

\* Mutant: the first half is put on no list.
CutNothing(s, k) == [CutFirst(s, k) EXCEPT !.next = s.next, !.prev = s.prev]

\* Mutant: the second half is taken to begin at the last page of the first.
CutAtEnd(s, k) == [CutFirst(s, k) EXCEPT !.pg = End(s.pg, k)]

\* Mutant: the first half is put on the list of the order above.
CutToWrongList(s, k) ==
  LET l == AddChainTail(s.next, s.prev, s.pg, End(s.pg, k), ListHead(k + 1))
  IN  [CutFirst(s, k) EXCEPT !.next = l.next, !.prev = l.prev]

Cut(s, k) == CutFirst(s, k)

(***************************************************************************)
(* The loop: the block at hand, of order k, is cut down to order ord.      *)
(***************************************************************************)
CutRun(off, k, ord) ==
  LET run[t \in 0..(k - ord)] == IF t = 0 THEN off ELSE Cut(run[t - 1], k - t)
  IN  run

CutDown(off, k, ord) == CutRun(off, k, ord)[k - ord]

\* Mutant: the search starts above the order asked for.
FitsAbove(ord) == {k \in Order : k > ord /\ next[ListHead(k)] # ListHead(k)}

Fits(ord) == {k \in Order : k >= ord /\ next[ListHead(k)] # ListHead(k)}

(***************************************************************************)
(* alloc_pages(): the first block of the smallest order that fits is taken *)
(* off its list and cut down; no block fits when there is none.            *)
(***************************************************************************)
FirstFit(ord) == CHOOSE k \in Fits(ord) : \A j \in Fits(ord) : k =< j

TakeOff(pg, k) ==
  [pg |-> pg, order |-> order,
   next |-> [next EXCEPT ![ListHead(k)] = next[End(pg, k)]],
   prev |-> [prev EXCEPT ![next[End(pg, k)]] = ListHead(k)]]

HandOut(cut, ord) ==
  /\ next' = cut.next /\ prev' = cut.prev
  /\ order' = [cut.order EXCEPT ![cut.pg] = ord]
  /\ busy' = busy \cup {cut.pg}
  /\ held' = held \cup {[first |-> cut.pg, order |-> ord]}
  /\ UNCHANGED wild

AllocFrom(pg, k, ord) ==
  IF End(pg, k) \in Page THEN HandOut(CutDown(TakeOff(pg, k), k, ord), ord)
  ELSE wild' = TRUE /\ UNCHANGED <<next, prev, order, busy, held>>

AllocPages(ord) ==
  /\ ~wild /\ Fits(ord) # {}
  /\ AllocFrom(next[ListHead(FirstFit(ord))], FirstFit(ord), ord)

-----------------------------------------------------------------------------
Next == \E k \in Order : AllocPages(k)

(***************************************************************************)
(* The kernel never frees a page: put_free_pages() is called only by       *)
(* find_free_page_dir(), for a block of four pages that is not aligned,    *)
(* and Aligned says that there is none.  Freeing is left out.              *)
(***************************************************************************)
Spec == Init /\ [][Next]_vars

-----------------------------------------------------------------------------
TypeOK ==
  /\ next \in [Node -> Node] /\ prev \in [Node -> Node]
  /\ order \in [Page -> Order \cup {-1}]
  /\ busy \subseteq Page
  /\ held \subseteq [first : Page, order : Order]
  /\ wild \in BOOLEAN

(***************************************************************************)
(* The free list of order k: the pages that are met on the way from its    *)
(* head, before or after it has come back to the head.                     *)
(***************************************************************************)
Way(k) ==
  LET node[i \in 0..KERNEL_PAGE_NUM] == IF i = 0 THEN ListHead(k) ELSE next[node[i - 1]]
  IN  node

Listed(k) == {Way(k)[i] : i \in 0..KERNEL_PAGE_NUM} \cap Page
Free == Page \ Taken

(***************************************************************************)
(* Every page is held by one caller or is in one free list, once, and the  *)
(* lists are linked both ways (kmalloc.c:248-276).                         *)
(***************************************************************************)
NoPageLost ==
  /\ \A b, c \in held : b # c => BlockPages(b) \cap BlockPages(c) = {}
  /\ UNION {Listed(k) : k \in Order} = Free
  /\ \A j, k \in Order : j # k => Listed(j) \cap Listed(k) = {}
  /\ \A n \in Heads \cup Free : next[prev[n]] = n /\ prev[next[n]] = n

(***************************************************************************)
(* A list consists of whole, aligned blocks, which BUDDY_END relies on     *)
(* (kmalloc.c:238-244, 258).                                               *)
(***************************************************************************)
WholeBlocks ==
  \A k \in Order : \A p \in Listed(k) :
    /\ p % Size[k] # 0 => prev[p] = p - 1
    /\ (p + 1) % Size[k] # 0 => next[p] = p + 1

(***************************************************************************)
(* find_free_page_dir() (kmalloc.c:359-366) gets an aligned block the first*)
(* time, and so never frees one and never loops.                           *)
(***************************************************************************)
Aligned == \A b \in held : b.first % Size[b.order] = 0

(***************************************************************************)
(* No block is refused while an aligned run of that many pages is free in  *)
(* the part of the memory that is managed in largest blocks                *)
(* (kmalloc.c:253-265).                                                    *)
(***************************************************************************)
RefusedOnlyWhenFull ==
  \A k \in Order : Fits(k) = {} =>
    \A p \in Page : p % Size[k] = 0 /\ p < Bulk =>
      p..(p + Size[k] - 1) \cap Taken # {}
=============================================================================
