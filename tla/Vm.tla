--------------------------------- MODULE Vm ---------------------------------
(***************************************************************************)
(* Virtual memory: the page tables that kmain.c and task.c build, the      *)
(* faults of page/abt.c and page/fault.c, and what a program sees through  *)
(* the MMU, the TLB and the data cache of the ARM920T, which know          *)
(* addresses of one address space only.                                    *)
(*                                                                         *)
(* An address space is a page directory with one entry for each megabyte.  *)
(* A page of RAM holds the tables of four megabytes in a row, so that the  *)
(* four entries are filled together.  Numbers of pages stand for           *)
(* addresses, and each page holds one value.                               *)
(***************************************************************************)
EXTENDS Integers, FiniteSets

CONSTANTS
  PPM,                 \* pages in a megabyte (256 in the code)
  LastMega,            \* the megabytes are 0..LastMega (4095 in the code)
  RAM_START,           \* the first page frame of RAM
  RAM_SIZE,            \* its megabytes
  BOOT_TABLES,         \* frames at its start for the tables of the boot (16)
  PAGES_START,         \* the first frame that the allocator gives out
  KERNEL_SPACE_START,  \* the first megabyte of the kernel
  PORTS_MAP_START, PORTS_SIZE,              \* megabytes of device registers
  USR_ENTRY, USR_SP, USR_SP_SIZE,           \* pages of a program
  FS_IMG_SIZE, SH_IMG_SIZE,                 \* pages of the two images
  SEND_BUF, RECV_BUF,                       \* pages for mail
  FS_BUFFER, USR_FS_BUFFER, FS_BUFFER_SIZE, \* frame, page, pages
  RAMDSK_BUFFER, USR_RAMDSK_BUFFER, RAMDSK_SIZE,
  HEAP_END,            \* the page behind the last of VMA_AREA
  LowWord,    \* LowWord[i]: word i of physical memory has a non-zero type
  Touched,    \* the pages that programs load, store and copy
  Val, ImageVal, Zero, \* contents of a page, of an image, of a fresh page
  MaxLines    \* the number of lines of the data cache

Mega == 0..LastMega
KernelMega == KERNEL_SPACE_START..LastMega
RamMega == KERNEL_SPACE_START..(KERNEL_SPACE_START + RAM_SIZE - 1)
PortsMega == PORTS_MAP_START..(PORTS_MAP_START + PORTS_SIZE - 1)
Frame == RAM_START..(RAM_START + RAM_SIZE * PPM - 1)
VMA_AREA == USR_ENTRY..(HEAP_END - 1)
Group(m) == m - (m % 4)

(***************************************************************************)
(* The first page of physical memory.  The code writes entries with this   *)
(* frame for pages that are not mapped.                                    *)
(***************************************************************************)
LowPage == 0

Idle == 0
Program == {1, 2}    \* "fs" and "sh", in the order of kmain.c
Task == {Idle} \cup Program

(***************************************************************************)
(* Four entries in a row are of one kind in the kernel's directory, as     *)
(* share_kernel_space() needs.                                             *)
(***************************************************************************)
ASSUME LayoutAssumption ==
  /\ PPM \in Nat \ {0} /\ LastMega \in Nat
  /\ {RAM_START, RAM_SIZE, BOOT_TABLES, KERNEL_SPACE_START,
      PORTS_MAP_START, PORTS_SIZE} \subseteq Nat
  /\ KERNEL_SPACE_START =< LastMega
  /\ RamMega \cup PortsMega \subseteq KernelMega
  /\ KERNEL_SPACE_START % 4 = 0 /\ RAM_SIZE % 4 = 0
  /\ PORTS_MAP_START % 4 = 0 /\ PORTS_SIZE % 4 = 0
  /\ RamMega \cap PortsMega = {}
  /\ Group(LastMega) \notin RamMega \cup PortsMega
  /\ LowPage \notin Frame
  /\ PAGES_START \in Frame
  /\ Touched \subseteq 0..(HEAP_END - 1)
  /\ {ImageVal, Zero} \subseteq Val /\ Val \subseteq Nat
  /\ LowWord \in [0..(PPM - 1) -> BOOLEAN]

(***************************************************************************)
(* The fixed frames of ports.h, a directory being four frames long.        *)
(***************************************************************************)
KERNEL_TTB == RAM_START + BOOT_TABLES
KERNEL_PAGE_TBL == KERNEL_TTB + 4
VECT_PAGE_TBL == KERNEL_PAGE_TBL + RAM_SIZE \div 4
VECT_PAGE == VECT_PAGE_TBL + 1

FsFrames == FS_BUFFER..(FS_BUFFER + FS_BUFFER_SIZE - 1)
RamdskFrames == RAMDSK_BUFFER..(RAMDSK_BUFFER + RAMDSK_SIZE - 1)

(***************************************************************************)
(* The frames with a fixed use are below those that are given out, and     *)
(* programs are below the kernel.                                          *)
(***************************************************************************)
UserPage == 0..(KERNEL_SPACE_START * PPM - 1)

ASSUME ProgramAssumption ==
  /\ FsFrames \cup RamdskFrames \subseteq (VECT_PAGE + 1)..(PAGES_START - 1)
  /\ FsFrames \cap RamdskFrames = {} /\ VECT_PAGE < PAGES_START
  /\ {FS_IMG_SIZE, SH_IMG_SIZE, USR_SP_SIZE} \subseteq 1..512
  /\ {FS_BUFFER, FS_BUFFER_SIZE, RAMDSK_BUFFER, RAMDSK_SIZE, HEAP_END,
      USR_ENTRY, USR_SP, USR_FS_BUFFER, USR_RAMDSK_BUFFER} \subseteq Nat
  /\ USR_ENTRY + FS_IMG_SIZE - 1 \in UserPage /\ USR_ENTRY + SH_IMG_SIZE - 1 \in UserPage
  /\ USR_SP + USR_SP_SIZE - 1 \in UserPage
  /\ {SEND_BUF, RECV_BUF} \subseteq UserPage
  /\ USR_FS_BUFFER + FS_BUFFER_SIZE - 1 \in UserPage
  /\ USR_RAMDSK_BUFFER + RAMDSK_SIZE - 1 \in UserPage
  /\ 0..(HEAP_END - 1) \subseteq UserPage

VARIABLES
  mmu,       \* the page tables and the allocator, see below
  task,      \* task[t]: the frames of the PCB and the directory of t
  current_p, \* the running task
  phys,      \* phys[f]: what frame f holds in RAM
  cache,     \* the lines of the data cache
  tlb,       \* the translations that the TLB holds: page to frame
  unsynced   \* directories with entries that RAM may not have yet

vars == <<mmu, task, current_p, phys, cache, tlb, unsynced>>

-----------------------------------------------------------------------------
(***************************************************************************)
(* mmu.l1[d] is the directory in the frames from d on: for each megabyte   *)
(* no entry (a zero word), an entry "fault" that points to a table at      *)
(* address 0 in a domain without access, a section or a table, which is    *)
(* named by its address in KB.  mmu.pte[a][i] is entry i of table a.       *)
(* mmu.next is the next frame the allocator gives (nothing is ever given   *)
(* back; module Buddy has its lists) and panic() sets mmu.halted.          *)
(***************************************************************************)
NoEntry == [kind |-> "none"]
FaultEntry == [kind |-> "fault"]
Section(f) == [kind |-> "section", frame |-> f]
Coarse(a) == [kind |-> "coarse", table |-> a]

Empty(e) == e.kind \in {"none", "fault"}
IsTable(e) == e.kind = "coarse"

TableOf(s, d, v) == s.l1[d][v \div PPM].table
Page(s, d, v) == s.pte[TableOf(s, d, v)][v % PPM]

Stop(s) == [s EXCEPT !.halted = TRUE]

Over(f, g) ==
  [x \in DOMAIN f \cup DOMAIN g |-> IF x \in DOMAIN f THEN f[x] ELSE g[x]]
With(f, k, x) == [y \in DOMAIN f \cup {k} |-> IF y = k THEN x ELSE f[y]]

(***************************************************************************)
(* A block of n frames at a multiple of its size.  An order is written as  *)
(* the number of its frames.  get_order() knows one order more than there  *)
(* are lists of blocks.                                                    *)
(***************************************************************************)
Orders == {1, 2, 4, 8, 16, 32, 64, 128, 256, 512}
LARGEST_BUDDY == 256

First(s, n) == n * ((s.next + n - 1) \div n)
\* Mutant: nobody looks whether there was a block.
TakeUnchecked(s, n) == [s EXCEPT !.next = First(s, n) + n]

Take(s, n) ==
  IF n =< LARGEST_BUDDY /\ First(s, n) + n - 1 \in Frame
  THEN [s EXCEPT !.next = First(s, n) + n] ELSE Stop(s)

\* Mutant: an order too small for sizes that are not a power of two.
OrderTooSmall(size) == CHOOSE n \in Orders : n =< size /\ 2 * n > size

get_order(size) ==
  CHOOSE n \in Orders : n >= size /\ \A k \in Orders : k < n => k < size

(***************************************************************************)
(* A page of tables for each group of G, all of whose entries point to     *)
(* physical page 0 with AP_FAULT_ALL.                                      *)
(***************************************************************************)
TableFrame(s, G, g) == s.next + Cardinality({h \in G : h < g})
Quarter(s, G, m) == 4 * TableFrame(s, G, Group(m)) + (m % 4)

NewTables(s, d, G) ==
  LET M == {m \in Mega : Group(m) \in G}
  IN  IF \/ \E m \in M : ~Empty(s.l1[d][m])
         \/ s.next + Cardinality(G) - 1 \notin Frame
      THEN Stop(s)
      ELSE [s EXCEPT !.next = @ + Cardinality(G),
                     !.l1[d] = [m \in Mega |->
                        IF m \in M THEN Coarse(Quarter(s, G, m)) ELSE @[m]],
                     !.pte = Over([a \in {Quarter(s, G, m) : m \in M} |->
                                     [i \in 0..(PPM - 1) |-> LowPage]], @)]

EmptyGroups(s, d, M) == {Group(m) : m \in {n \in M : Empty(s.l1[d][n])}}

PlacedAt(s, d, to, a, i) ==
  {v \in DOMAIN to : TableOf(s, d, v) = a /\ (v % PPM) = i}

SetPages(s, d, to) ==
  LET A == {TableOf(s, d, v) : v \in DOMAIN to}
      set(a) == [i \in 0..(PPM - 1) |->
                   LET V == PlacedAt(s, d, to, a, i)
                   IN  IF V = {} THEN s.pte[a][i] ELSE to[CHOOSE v \in V : TRUE]]
  IN  [s EXCEPT !.pte = [a \in DOMAIN @ |-> IF a \in A THEN set(a) ELSE @[a]]]

(***************************************************************************)
(* map_vaddr2paddr() for each page of the function to, from pages to       *)
(* frames.                                                                 *)
(***************************************************************************)
map_vaddr2paddr(s, d, to) ==
  LET t == NewTables(s, d, EmptyGroups(s, d, {v \div PPM : v \in DOMAIN to}))
  IN  IF s.halted \/ t.halted THEN Stop(s) ELSE SetPages(t, d, to)

Consecutive(v, n, f) == [p \in v..(v + n - 1) |-> f + p - v]

(***************************************************************************)
(* share_kernel_space(): sections are copied, and of a table the entries   *)
(* in use, into a table of the task's own.                                 *)
(***************************************************************************)
KernelTables(s) == {m \in KernelMega : IsTable(s.l1[KERNEL_TTB][m])}
KernelPages(s) ==
  {v \in KERNEL_SPACE_START * PPM .. (LastMega + 1) * PPM - 1 :
     v \div PPM \in KernelTables(s) /\ Page(s, KERNEL_TTB, v) # LowPage}

\* Mutant: only the first megabyte of each group is copied.
ShareFirstOfGroup(s, d) ==
  LET t == NewTables(s, d, EmptyGroups(s, d, KernelTables(s)))
      u == [t EXCEPT !.l1[d] = [m \in Mega |->
              IF m \in KernelMega /\ s.l1[KERNEL_TTB][m].kind = "section"
              THEN s.l1[KERNEL_TTB][m] ELSE @[m]]]
  IN  IF s.halted \/ t.halted THEN Stop(s)
      ELSE SetPages(u, d, [v \in {v \in KernelPages(s) : (v \div PPM) % 4 = 0}
                             |-> Page(s, KERNEL_TTB, v)])

share_kernel_space(s, d) ==
  LET t == NewTables(s, d, EmptyGroups(s, d, KernelTables(s)))
      u == [t EXCEPT !.l1[d] = [m \in Mega |->
              IF m \in KernelMega /\ s.l1[KERNEL_TTB][m].kind = "section"
              THEN s.l1[KERNEL_TTB][m] ELSE @[m]]]
  IN  IF s.halted \/ t.halted THEN Stop(s)
      ELSE SetPages(u, d, [v \in KernelPages(s) |-> Page(s, KERNEL_TTB, v)])

(***************************************************************************)
(* rebuild_mmu(): the kernel's directory, with RAM in pages, the device    *)
(* registers in sections and one page of vectors.  (The rest of that page  *)
(* of tables, which nothing clears, maps no address that anything uses.)   *)
(***************************************************************************)
Rebuilt ==
  [l1 |-> [d \in {KERNEL_TTB} |-> [m \in Mega |->
     CASE m \in RamMega ->
            Coarse(4 * KERNEL_PAGE_TBL + m - KERNEL_SPACE_START)
       [] m \in PortsMega -> Section(RAM_START + (RAM_SIZE + m) * PPM)
       [] m = LastMega -> Coarse(4 * VECT_PAGE_TBL)
       [] OTHER -> NoEntry]],
   pte |-> With([a \in 4 * KERNEL_PAGE_TBL .. 4 * KERNEL_PAGE_TBL + RAM_SIZE - 1 |->
                   [i \in 0..(PPM - 1) |->
                      RAM_START + (a - 4 * KERNEL_PAGE_TBL) * PPM + i]],
                4 * VECT_PAGE_TBL,
                [i \in 0..(PPM - 1) |->
                   IF i = (15 * PPM) \div 16 THEN VECT_PAGE ELSE LowPage]),
   next |-> PAGES_START,
   halted |-> FALSE]
-----------------------------------------------------------------------------
(***************************************************************************)
(* The MMU walks the tables in RAM.  The domain of every table is that of  *)
(* a manager (SYS_PL), so that the permissions of an entry are not looked  *)
(* at.  External.                                                          *)
(***************************************************************************)
Fault(type) == [fault |-> type, frame |-> LowPage]
Reach(f) == [fault |-> 0, frame |-> f]

EmptyFault(v) == Fault(IF LowWord[v % PPM] THEN 11 ELSE 7)

Walk(d, v) ==
  LET e == mmu.l1[d][v \div PPM]
  IN  CASE e.kind = "none"    -> Fault(5)
        [] e.kind = "fault"   -> EmptyFault(v)
        [] e.kind = "section" -> Reach(e.frame + (v % PPM))
        [] OTHER              -> Reach(Page(mmu, d, v))

(***************************************************************************)
(* What an access to page v by the running task can come to: entries that  *)
(* are only in the data cache may or may not be seen.                      *)
(***************************************************************************)
Directory == task[current_p].ttb_base

Translations(v) ==
  IF v \in DOMAIN tlb THEN {Reach(tlb[v])}
  ELSE {Walk(Directory, v)}
         \cup (IF Directory \in unsynced THEN {EmptyFault(v)} ELSE {})

(***************************************************************************)
(* The data cache has lines by virtual address: of the programs' pages,    *)
(* <<"user", v>>, and of the kernel's view of a frame, <<"kernel", f>>.    *)
(* A line is filled by a load, perhaps by a store, and can be written back *)
(* and replaced at any time.  ram is the pair of phys and cache.           *)
(***************************************************************************)
User(v) == <<"user", v>>
Kernel(f) == <<"kernel", f>>
Line(f, x, dirty) == [frame |-> f, val |-> x, dirty |-> dirty]

Peek(ram, k, f) ==
  IF k \in DOMAIN ram.cache THEN ram.cache[k].val ELSE ram.phys[f]

Full(ram) == Cardinality(DOMAIN ram.cache) = MaxLines

AfterLoad(ram, k, f) ==
  IF k \in DOMAIN ram.cache \/ Full(ram) THEN {ram}
  ELSE {ram, [ram EXCEPT !.cache = With(@, k, Line(f, ram.phys[f], FALSE))]}

AfterStore(ram, k, f, x) ==
  (IF Full(ram) /\ k \notin DOMAIN ram.cache THEN {}
   ELSE {[ram EXCEPT !.cache = With(@, k, Line(f, x, TRUE))]})
    \cup (IF k \in DOMAIN ram.cache THEN {} ELSE {[ram EXCEPT !.phys[f] = x]})

Dirty(ram) == {k \in DOMAIN ram.cache : ram.cache[k].dirty}

(***************************************************************************)
(* sync_dcaches() cleans and empties every line.                           *)
(***************************************************************************)
AfterSync(ram) ==
  LET F == {ram.cache[k].frame : k \in Dirty(ram)}
      Left(w) == \A f \in F : \E k \in Dirty(ram) :
                    ram.cache[k].frame = f /\ ram.cache[k].val = w[f]
  IN  {[phys |-> Over(w, ram.phys), cache |-> <<>>] : w \in {u \in [F -> Val] : Left(u)}}

\* Mutant: the cache is emptied and not cleaned.
Invalidated(ram) == {[ram EXCEPT !.cache = <<>>]}

Ram == [phys |-> phys, cache |-> cache]
Becomes(ram) == phys' = ram.phys /\ cache' = ram.cache

-----------------------------------------------------------------------------
(***************************************************************************)
(* init_task() and createp(): each returns the tables with the task's, and *)
(* the frames of the PCB and of the directory.  Only the first page of the *)
(* idle task's stack is mapped.  The memory is enough for the tasks that   *)
(* the kernel starts; createp() does not look whether the pages for the    *)
(* PCB and for mail were got.                                              *)
(***************************************************************************)
AfterInitTask(s) ==
  LET t == Take(s, 1) IN
    map_vaddr2paddr(Take(t, 1), KERNEL_TTB, Consecutive(USR_SP, 1, First(t, 1)))

Image(name) == IF name = "fs" THEN FS_IMG_SIZE ELSE SH_IMG_SIZE

NewDirectory(s) == First(Take(s, 1), 4)

WithDirectory(s) ==
  share_kernel_space(
    [Take(Take(s, 1), 4) EXCEPT
       !.l1 = With(@, NewDirectory(s), [m \in Mega |-> FaultEntry])],
    NewDirectory(s))

Block(s, d, v, size) ==
  LET n == get_order(size) IN
    map_vaddr2paddr(Take(s, n), d, Consecutive(v, size, First(s, n)))

Buffers(s, d) ==
  map_vaddr2paddr(
    map_vaddr2paddr(s, d, Consecutive(USR_FS_BUFFER, FS_BUFFER_SIZE, FS_BUFFER)),
    d, Consecutive(USR_RAMDSK_BUFFER, RAMDSK_SIZE, RAMDSK_BUFFER))

Created(s, d, name) ==
  LET t == Block(s, d, USR_ENTRY, Image(name))
      u == IF name = "fs" THEN Buffers(t, d) ELSE t
      w == Block(u, d, USR_SP, USR_SP_SIZE)
  IN  Block(Block(w, d, SEND_BUF, 1), d, RECV_BUF, 1)

Name(t) == IF t = 1 THEN "fs" ELSE "sh"
ImagePages(t) == Consecutive(USR_ENTRY, Image(Name(t)), 0)

(***************************************************************************)
(* kernel_start() as far as memory goes, one action for each task.  The    *)
(* idle task's stack is mapped in the directory in use and flushed.        *)
(***************************************************************************)
Boot(t) == t \notin DOMAIN task /\ \A u \in Task : u < t => u \in DOMAIN task
Started == DOMAIN task = Task /\ ~mmu.halted

Zeroed(first, last) == [f \in first..last |-> Zero]

InitTask ==
  /\ Boot(Idle)
  /\ mmu' = AfterInitTask(mmu)
  /\ task' = With(task, Idle, [pcb |-> First(mmu, 1), ttb_base |-> KERNEL_TTB])
  /\ phys' = Over(Zeroed(First(mmu, 1), mmu'.next - 1), phys)
  /\ UNCHANGED <<current_p, cache, tlb, unsynced>>

createp(t) ==
  /\ t \in Program /\ Boot(t)
  /\ LET d == NewDirectory(mmu)
         to == Created(WithDirectory(mmu), d, Name(t))
         image == {Page(to, d, v) : v \in DOMAIN ImagePages(t)}
     IN  /\ mmu' = to
         /\ task' = With(task, t, [pcb |-> First(mmu, 1), ttb_base |-> d])
         /\ phys' = Over([f \in image |-> ImageVal],
                         Over(Zeroed(First(mmu, 1), to.next - 1), phys))
         /\ unsynced' = unsynced \cup {d}
  /\ UNCHANGED <<current_p, cache, tlb>>

-----------------------------------------------------------------------------
Running(t) == Started /\ current_p = t

(***************************************************************************)
(* A load or a store by the running program, when the MMU lets it.  The    *)
(* idle task touches no memory.                                            *)
(***************************************************************************)
Load(t, v) ==
  /\ Running(t)
  /\ \E r \in Translations(v) :
       /\ r.fault = 0
       /\ \E ram \in AfterLoad(Ram, User(v), r.frame) : Becomes(ram)
       /\ tlb' = With(tlb, v, r.frame)
  /\ UNCHANGED <<mmu, task, current_p, unsynced>>

Store(t, v, x) ==
  /\ Running(t)
  /\ \E r \in Translations(v) :
       /\ r.fault = 0
       /\ \E ram \in AfterStore(Ram, User(v), r.frame, x) : Becomes(ram)
       /\ tlb' = With(tlb, v, r.frame)
  /\ UNCHANGED <<mmu, task, current_p, unsynced>>

(***************************************************************************)
(* do_page_fault(): only a domain fault under an empty entry gets pages.   *)
(* The last disjunct is for a permission fault, which do_data_abt() does   *)
(* not pass on.                                                            *)
(***************************************************************************)
do_page_fault(type, v) ==
  LET d == Directory
      empty == Empty(mmu.l1[d][v \div PPM])
      t == IF empty THEN NewTables(mmu, d, {Group(v \div PPM)}) ELSE mmu
  IN  IF /\ v \in VMA_AREA
         /\ (empty /\ type = 11) \/ (~empty /\ type = 15)
         /\ ~t.halted /\ ~Take(t, 1).halted
      THEN SetPages(Take(t, 1), d, Consecutive(v, 1, First(t, 1)))
      ELSE Stop(mmu)

(***************************************************************************)
(* The table fsr_st of do_data_abt(): translation and domain faults of     *)
(* pages are passed to do_page_fault(), everything else panics.            *)
(***************************************************************************)
AfterFault(type, v) ==
  IF type \in {7, 11} THEN do_page_fault(type, v) ELSE Stop(mmu)

(***************************************************************************)
(* The page is zeroed through the kernel's address, then the data cache is *)
(* cleaned and the translation of v dropped; the access is made again.     *)
(***************************************************************************)
\* Mutant: the cache is left alone.
NotSynced(ram) == {ram}

SyncAfterFault(ram) == AfterSync(ram)

DataAbort(t, v) ==
  /\ Running(t)
  /\ \E r \in Translations(v) :
       /\ r.fault # 0
       /\ mmu' = AfterFault(r.fault, v)
  /\ IF mmu'.halted THEN UNCHANGED <<phys, cache>>
     ELSE \E zeroed \in AfterStore(Ram, Kernel(mmu'.next - 1), mmu'.next - 1, Zero) :
            \E ram \in SyncAfterFault(zeroed) : Becomes(ram)
  /\ tlb' = [p \in DOMAIN tlb \ {v} |-> tlb[p]]
  /\ unsynced' = {}
  /\ UNCHANGED <<task, current_p>>

-----------------------------------------------------------------------------
(***************************************************************************)
(* change_ttb_base(), whenever switch_to() goes on with another task,      *)
(* which schedule() or the receiver of a mail decides.                     *)
(***************************************************************************)
\* Mutant: the translations of the last task stay.
OldTlb == tlb

KeptTlb == <<>>

SyncAtSwitch(ram) == AfterSync(ram)

Switch(t) ==
  /\ Started /\ t # current_p
  /\ current_p' = t
  /\ \E ram \in SyncAtSwitch(Ram) : Becomes(ram)
  /\ tlb' = KeptTlb
  /\ unsynced' = {}
  /\ UNCHANGED <<mmu, task>>

(***************************************************************************)
(* A call that goes on with another task before its result is known:       *)
(* sys_sendm() to a task, and a system message that blocks.  The result    *)
(* is stored through the caller's address of the message, on the page of   *)
(* its stack that every program has it on, in the other task's memory.     *)
(***************************************************************************)
MsgPage == USR_SP + USR_SP_SIZE - 1
Result == ImageVal   \* the 1 of sys_sendm()

Call(t, u) ==
  /\ Running(t) /\ u # t
  /\ current_p' = u
  /\ LET r == Walk(task[u].ttb_base, MsgPage) IN
     /\ r.fault = 0
     /\ \E ram \in AfterSync(Ram) :
          \E after \in AfterStore(ram, User(MsgPage), r.frame, Result) : Becomes(after)
     /\ tlb' = With(<<>>, MsgPage, r.frame)
  /\ unsynced' = {}
  /\ UNCHANGED <<mmu, task>>

(***************************************************************************)
(* physrw() for a text within one page: between page a of the running task *)
(* and page b of task u, whose tables are read by the program.  Nothing is *)
(* copied from or to a page that is not mapped.  A fault of the running    *)
(* task's own page inside the kernel ruins its saved registers: the model  *)
(* stops.  Module Physrw has texts of several pages.                       *)
(***************************************************************************)
Mapped(d, b) == ~Empty(mmu.l1[d][b \div PPM]) /\ Page(mmu, d, b) # LowPage

physrw(t, u, read, a, b) ==
  LET d == task[u].ttb_base
      f == Page(mmu, d, b)
  IN
  /\ Running(t) /\ u \in Program \ {t}
  /\ Mapped(d, b)
  /\ \E r \in Translations(a) :
       IF r.fault # 0
       THEN mmu' = Stop(mmu) /\ UNCHANGED <<phys, cache, tlb>>
       ELSE
       /\ LET from == IF read THEN Kernel(f) ELSE User(a)
              to   == IF read THEN User(a) ELSE Kernel(f)
              src  == IF read THEN f ELSE r.frame
              dst  == IF read THEN r.frame ELSE f
          IN  \E loaded \in AfterLoad(Ram, from, src) :
                \E ram \in AfterStore(loaded, to, dst, Peek(Ram, from, src)) :
                  Becomes(ram)
       /\ tlb' = With(tlb, a, r.frame)
       /\ UNCHANGED mmu
  /\ UNCHANGED <<task, current_p, unsynced>>

\* The hardware replaces a line of the cache or an entry of the TLB.  External.
Replace ==
  /\ \/ \E k \in DOMAIN cache :
          /\ cache' = [l \in DOMAIN cache \ {k} |-> cache[l]]
          /\ phys' = IF cache[k].dirty THEN [phys EXCEPT ![cache[k].frame] = cache[k].val]
                                       ELSE phys
          /\ UNCHANGED tlb
     \/ \E v \in DOMAIN tlb :
          /\ tlb' = [p \in DOMAIN tlb \ {v} |-> tlb[p]]
          /\ UNCHANGED <<phys, cache>>
  /\ UNCHANGED <<mmu, task, current_p, unsynced>>

Init ==
  /\ mmu = Rebuilt
  /\ task = <<>>
  /\ current_p = Idle
  /\ phys = [f \in Frame \cup {LowPage} |-> ImageVal]
  /\ cache = <<>> /\ tlb = <<>> /\ unsynced = {}

Next ==
  \/ InitTask
  \/ \E t \in Program : createp(t)
  \/ \E t \in Task : Switch(t)
  \/ \E t \in Program, u \in Task : Call(t, u)
  \/ \E t \in Program, v \in Touched :
       Load(t, v) \/ DataAbort(t, v) \/ \E x \in Val : Store(t, v, x)
  \/ \E t, u \in Program, read \in BOOLEAN, a, b \in Touched : physrw(t, u, read, a, b)
  \/ Replace

Spec == Init /\ [][Next]_vars
-----------------------------------------------------------------------------
TypeOK ==
  /\ mmu.l1 \in [DOMAIN mmu.l1 ->
       [Mega -> {NoEntry, FaultEntry} \cup [kind : {"section"}, frame : Nat]
                \cup [kind : {"coarse"}, table : DOMAIN mmu.pte]]]
  /\ \A a \in DOMAIN mmu.pte :
       /\ a \div 4 \in Frame
       /\ mmu.pte[a] \in [0..(PPM - 1) -> Frame \cup {LowPage}]
  /\ task \in [DOMAIN task -> [pcb : Frame, ttb_base : DOMAIN mmu.l1]]
  /\ current_p \in Task
  /\ phys \in [Frame \cup {LowPage} -> Val]
  /\ \A k \in DOMAIN cache :
       cache[k] \in [frame : Frame \cup {LowPage}, val : Val, dirty : BOOLEAN]
  /\ \A v \in DOMAIN tlb : tlb[v] \in Frame \cup {LowPage}
  /\ unsynced \subseteq DOMAIN mmu.l1

(***************************************************************************)
(* What page v of program t holds: the line of the running program or a    *)
(* line of the kernel that RAM does not have yet, or else RAM.  A page     *)
(* without an entry will be there when it is touched, unless the tables    *)
(* for it are there already: then nothing faults.                          *)
(***************************************************************************)
Fresh == -1    \* not in Val
Hole == -2

Contents(t, v) ==
  LET d == task[t].ttb_base
      f == Page(mmu, d, v)
      mine == IF t = current_p THEN {User(v)} ELSE {}
  IN  IF t \notin DOMAIN task \/ Empty(mmu.l1[d][v \div PPM]) THEN Fresh
      ELSE IF f = LowPage THEN Hole
      ELSE IF mine \cap DOMAIN cache # {} THEN cache[User(v)].val
      ELSE IF Kernel(f) \in Dirty(Ram) THEN cache[Kernel(f)].val
      ELSE phys[f]

(***************************************************************************)
(* The programs' memories are private and change by stores and copies of   *)
(* mail, and on the page of the message by the result of another's call    *)
(* (kmail.c:67): not by a fault, a switch of the address space, a line of  *)
(* the cache written back late or a page given out twice.                  *)
(***************************************************************************)
Memories == INSTANCE Space WITH
  run <- current_p,
  mem <- [t \in Program |-> [v \in Touched |-> Contents(t, v)]]

SpaceSpec == Memories!Spec

(***************************************************************************)
(* The running program loads what its memory holds, from each page that    *)
(* its tables map: no translation or line left over from another task, no  *)
(* entry that RAM does not have yet, no line that hides what was copied    *)
(* through the kernel's address.                                           *)
(***************************************************************************)
LoadsSeeMemory ==
  Started /\ current_p \in Program =>
    \A v \in Touched : Mapped(Directory, v) =>
      \A r \in Translations(v) :
        /\ r = Reach(Page(mmu, Directory, v))
        /\ Peek(Ram, User(v), r.frame) = Contents(current_p, v)

(***************************************************************************)
(* A page that the running program's tables do not map translates to no    *)
(* frame of RAM: at worst to physical page 0, as the entries of a fresh    *)
(* page of tables do (fault.c:70,153).  No task's frame is reached through *)
(* a translation that outlives a switch or through a table not filled.     *)
(***************************************************************************)
HolesReachNoFrame ==
  Started /\ current_p \in Program =>
    \A v \in Touched : ~Mapped(Directory, v) =>
      \A r \in Translations(v) : r.frame = LowPage

(***************************************************************************)
(* Each frame that was given out has one use: the PCB, the directory, a    *)
(* page of tables or one page of one task.  createp() takes blocks by      *)
(* their order and maps them page by page, and the tables are taken in     *)
(* between: an order too small or a frame mapped twice breaks it.          *)
(***************************************************************************)
UserPages(s, d) ==
  {v \in UserPage :
     IsTable(s.l1[d][v \div PPM]) /\ Page(s, d, v) # LowPage}

Tables(s, d) == {s.l1[d][m].table \div 4 : m \in {n \in Mega : IsTable(s.l1[d][n])}}

SpaceUses(s, t, d) ==
  {<<f, "directory", t>> : f \in d..(d + 3)}
    \cup {<<f, "tables", t>> : f \in Tables(s, d)}
    \cup {<<Page(s, d, v), "page", t, v>> : v \in UserPages(s, d)}

UsesOf(t) == {<<task[t].pcb, "pcb", t>>} \cup SpaceUses(mmu, t, task[t].ttb_base)

Uses == UNION {UsesOf(t) : t \in DOMAIN task}

FramesHaveOneUse == Cardinality(Uses) = Cardinality({u[1] : u \in Uses})

(***************************************************************************)
(* The kernel is at the same addresses in every address space, as the      *)
(* handlers need that run on the page tables of whichever task they        *)
(* interrupt and go on while change_ttb_base() changes them.               *)
(***************************************************************************)
SharesKernel(s, d) ==
  \A m \in KernelMega :
    LET k == s.l1[KERNEL_TTB][m]
        e == s.l1[d][m]
    IN  /\ k.kind = "section" => e = k
        /\ IsTable(k) => /\ IsTable(e)
                         /\ \A v \in m * PPM .. m * PPM + PPM - 1 :
                              Page(s, d, v) = Page(s, KERNEL_TTB, v)

KernelIsShared == \A t \in DOMAIN task : SharesKernel(mmu, task[t].ttb_base)

-----------------------------------------------------------------------------
(***************************************************************************)
(* The memory that the kernel has at its start is enough to start.         *)
(***************************************************************************)
Birth(s, t) ==
  IF t = Idle THEN AfterInitTask(s) ELSE Created(WithDirectory(s), NewDirectory(s), Name(t))

Births == [idle |-> Birth(Rebuilt, Idle), fs |-> Birth(Birth(Rebuilt, Idle), 1),
           sh |-> Birth(Birth(Birth(Rebuilt, Idle), 1), 2)]

KernelStarts == ~Births.sh.halted

ASSUME StartAssumption == KernelStarts

(***************************************************************************)
(* The inductive invariants.  Of the tables: each has one entry of one     *)
(* directory that names it, the user's half has no sections, and in the    *)
(* kernel's directory the four entries of a page of tables go together.    *)
(***************************************************************************)
Entries(s) ==
  {NoEntry, FaultEntry} \cup [kind : {"section"}, frame : Nat]
     \cup [kind : {"coarse"}, table : DOMAIN s.pte]

IsMmu(s) == s \in [l1 : {s.l1}, pte : {s.pte}, next : {s.next}, halted : {s.halted}]

TablesTyped(s) ==
  /\ IsMmu(s) /\ s.halted \in BOOLEAN /\ s.next \in Nat
  /\ s.l1 \in [DOMAIN s.l1 -> [Mega -> Entries(s)]]
  /\ s.pte \in [DOMAIN s.pte -> [0..(PPM - 1) -> Frame \cup {LowPage}]]
  /\ DOMAIN s.pte \subseteq Nat /\ DOMAIN s.l1 \subseteq Nat
  /\ \A a \in DOMAIN s.pte : a \div 4 \in Frame /\ a \div 4 < s.next
  /\ s.next - 1 \in Frame /\ PAGES_START =< s.next
  /\ KERNEL_TTB \in DOMAIN s.l1

OneEntryEach(s) ==
  \A d, e \in DOMAIN s.l1, m, n \in Mega :
    /\ IsTable(s.l1[d][m]) /\ IsTable(s.l1[e][n])
    /\ s.l1[d][m].table = s.l1[e][n].table
    => d = e /\ m = n

NoUserSections(s) ==
  \A d \in DOMAIN s.l1, m \in Mega \ KernelMega : s.l1[d][m].kind # "section"

KernelGroups(s) ==
  \A m, n \in KernelMega :
    Group(m) = Group(n) /\ IsTable(s.l1[KERNEL_TTB][m]) =>
      s.l1[KERNEL_TTB][n].kind # "section"

TablesOK(s) == TablesTyped(s) /\ OneEntryEach(s) /\ NoUserSections(s) /\ KernelGroups(s)

(***************************************************************************)
(* Of the frames: no two uses of one, all below the next free one, and the *)
(* fixed ones for "fs" only.                                               *)
(***************************************************************************)
OneUseEach(U) == \A u, w \in U : u[1] = w[1] => u = w

FixedForFs(t, U) == \A u \in U : u[1] \in FsFrames \cup RamdskFrames => t = 1

Booting ==
  /\ DOMAIN task \in {{}, {0}, {0, 1}, {0, 1, 2}}
  /\ DOMAIN task = {} => mmu = Rebuilt
  /\ DOMAIN task = {0} => mmu = Births.idle
  /\ DOMAIN task = {0, 1} => mmu = Births.fs

MmuInv ==
  /\ TablesOK(mmu) /\ Booting
  /\ task \in [DOMAIN task -> [pcb : Frame, ttb_base : DOMAIN mmu.l1]]
  /\ DOMAIN mmu.l1 = {KERNEL_TTB} \cup {task[t].ttb_base : t \in DOMAIN task}
  /\ \A t \in DOMAIN task : task[t].ttb_base = KERNEL_TTB <=> t = Idle
  /\ KernelIsShared
  /\ OneUseEach(Uses)
  /\ \A u \in Uses : u[1] < mmu.next
  /\ \A t \in DOMAIN task : FixedForFs(t, UsesOf(t))

(***************************************************************************)
(* Of the TLB and the data cache: translations and lines are those of the  *)
(* running program, or lines of pages of others that mail was copied from  *)
(* or to.  A clean line is what RAM holds, unless it is of physical page 0.*)
(***************************************************************************)
UserPagesSeen == Touched \cup {MsgPage}

HasTable(s, d, v) == IsTable(s.l1[d][v \div PPM])

Owners(s, k, p) ==
  {<<User(v), Page(s, k[p].ttb_base, v)>> :
     v \in {w \in UserPagesSeen : HasTable(s, k[p].ttb_base, w)}}
    \cup UNION {{<<Kernel(Page(s, k[u].ttb_base, v)), Page(s, k[u].ttb_base, v)>> :
                   v \in UserPages(s, k[u].ttb_base)} : u \in DOMAIN k \ {p, Idle}}

IsRam(ram) == ram \in [phys : {ram.phys}, cache : {ram.cache}]

Lines(ram, O) ==
  /\ IsRam(ram) /\ ram.phys \in [Frame \cup {LowPage} -> Val]
  /\ \A k \in DOMAIN ram.cache :
       LET c == ram.cache[k] IN
       /\ c \in [frame : Frame \cup {LowPage}, val : Val, dirty : BOOLEAN]
       /\ <<k, c.frame>> \in O
       /\ ~c.dirty /\ c.frame # LowPage => c.val = ram.phys[c.frame]

Memory(s, k, p, ram, t, waiting) ==
  /\ p \in Task /\ Lines(ram, Owners(s, k, p))
  /\ DOMAIN k # Task => p = Idle /\ DOMAIN ram.cache = {} /\ DOMAIN t = {}
  /\ waiting \subseteq DOMAIN s.l1 /\ (p \in Program => waiting = {})
  /\ \A v \in DOMAIN t : /\ v \in UserPagesSeen /\ HasTable(s, k[p].ttb_base, v)
                         /\ t[v] = Page(s, k[p].ttb_base, v)

MemInv == Memory(mmu, task, current_p, Ram, tlb, unsynced)
=============================================================================
