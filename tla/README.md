# A verification of the ecasey kernel and its file system

ecasey is a small microkernel for the S3C2440 (ARM920T) board: a kernel that
schedules tasks and passes mail between them, a file system that runs as a task,
and a NAND flash driver below it. This directory holds TLA+ models of the parts
that carry its logic, the TLC configurations that check them on small instances,
and theorems that hold for instances of any size, checked by TLAPS. Paths below
are relative to the repository.

## The system

| Component | Where | State | Operations |
|---|---|---|---|
| Scheduler and tasks | `kernel/sched.c`, `kernel/task.c`, `include/ecasey/pcb.h` | `current_p`, per task state, ticks, priority | `schedule`, `switch_to`, `sleep_task`, `wake_task`, `__do_timer0`, `createp` |
| Interrupts and calls | `kernel/start.S`, `vector.c`, `swi.c`, `timer.c`, `except.c` | saved registers of each task | save, restore, dispatch of IRQ and SWI |
| Mail | `kernel/ipc/kmail.c`, `lib/mail.c` | per task `head`, `tail`, `next`, `mail` | `sys_sendm`, `sys_recvm`, `sys_replym` |
| Console | `kernel/drv/chr/tty.c` | `chs_buf`, `chs_cnt`, `sleep_pid` | `uart_recv`, `sys_getchs` |
| Pages | `kernel/kmalloc.c` | free lists, order and flags of pages | `init_page_map`, `alloc_pages`, `free_pages` |
| Virtual memory | `kernel/page/*`, `kernel/task.c`, `lib/klib/mmu.c` | page tables; translations and lines that the TLB and the data cache hold | `do_page_fault`, `map_vaddr2paddr`, `share_kernel_space`, `change_ttb_base`, `physrw` |
| NAND and translation layer | `kernel/drv/blk/blk_drv.c` | map table, eight cached erase blocks | `sys_rw_nand`, `sync_tl_cache`, `sys_sync_tl`, `blk_drv_init` |
| Buffer cache | `fs/buffer.c`, `fs/blk_rw.c`, `fs/ramdisk.c` | buffer heads, hash chains, free list | `get_blk`, `bread`, `brelse`, `sync_blks`, `sync_dev_blks` |
| Inodes, zones | `fs/inode.c`, `fs/bmap.c` | inode table, bitmaps | `iget`, `iput`, `_bmap`, `new_block`, `free_block` |
| Super blocks, mounts | `fs/super.c` | `super_blk[]`, with the mount point and the pinned bitmaps of each device | `get_sblk`, `_put_sblk`, `do_mount`, `do_umount` |
| Names | `fs/namei.c`, `fs/stat.c` | directories | `do_mkdir`, `do_rmdir`, `do_hlink`, `do_unhlink`, ... |
| Files and the command loop | `fs/main.c`, `open.c`, `rw.c`, `frw.c`, `fcntl.c`, `exec.c` | `filp`, positions | `do_open`, `do_read`, `do_write`, ... |
| Boot, devices, library, tools | `boot/`, `kernel/drv/`, `lib/`, `sh/`, `net/`, `tools/` | chip registers | not modelled |

How they interact:

- A program enters the kernel only by `sendm()`, `recvm()` and `replym()`. Mail to
  task 0 is a system call (`do_sys_msg`), mail to another task queues the sender.
- An interrupt or a SWI runs with interrupts off to its end, where `restart` resumes
  `current_p`: a handler is one atomic step. A handler that blocks the caller marks
  it, picks another task and returns to that one. `sys_recvm` and `sys_getchs` step
  the saved pc back first, so that the call is made again after the wakeup.
- The file system task reads commands from the console (`getchs`), works on its
  buffers, which it fills and writes by `SYS_RW_NAND`, and ends with
  `put_rootfs`, `sync_dev_inodes`, `sync_blks(-1)`, `sync_tl`.
- Each program has page tables of its own, which grow by page faults. The kernel's half
  of them is shared, and the kernel copies mail (`physrw`) through its own addresses of
  the frames, past a cache that knows addresses of one address space only.
- `sh` only waits. Its mail to the file system is commented out; the mail system is
  modelled for the programs it is written for.

What is hard here: the order of calls and interrupts (queues, wakeups, the starving
of tasks); queues and lists threaded through structures that keep old links; caches
that are full; a read that fails half-way; a power failure between erase and write; a
page that two addresses name, in a cache that is written back late; mounts upon mounts; a
command on names that has changed a directory, an inode and a bitmap when it finds that
something is lacking.
`PROJECT.json` lists each of these hazards at its line, with the properties that are
about it.

## The modules

| Module | Models | Built from |
|---|---|---|
| `Sched` | task table, scheduler, timer tick, pause | |
| `Kmail` | mail queues in the PCBs | `Sched`; instance of `Rpc` |
| `Rpc` | what `sendm()` promises: a remote procedure call | |
| `Tty` | console buffer and its sleeper | `Sched` |
| `Kernel` | programs, calls and interrupts together; fairness; all kernel properties and the inductive invariants `CallInv` and `IInv` | `Kmail`, `Tty` |
| `KernelProofs` | theorems about `Kernel` and `Callers` | `Callers`, `TLAPS` |
| `Callers` | servers with any number of clients, with the order of arrival; the inductive invariant `OrderInv` | `Kernel` |
| `MCQueue` | three clients of one server | `Callers` |
| `MCKernel` | instances for liveness and for the finding | `Kernel` |
| `Physrw` | the loop of `physrw()`: which byte of a text goes where | |
| `PhysrwProofs` | theorems about `Physrw` | `Physrw`, `TLAPS` |
| `Vm` | page tables, faults, switches, copies of mail; what a program sees through TLB and data cache | instance of `Space` |
| `Space` | what virtual memory promises to the programs | |
| `VmProofs` | theorems about `Vm` | `Vm`, `TLAPS` |
| `MCVm` | a machine with four pages in a megabyte | `Vm` |
| `TlCache` | NAND driver: map table, cache, eviction, sync, power failure | instance of `BlockDev` |
| `BlockDev` | what the driver promises to the file system | |
| `TlCacheProofs` | theorems about `TlCache` | `TlCache`, `TLAPS` |
| `MCTlCache` | instances | `TlCache` |
| `Buffer` | buffer cache of the file system | instance of `Store` |
| `Store` | what the buffer cache promises to the rest of the file system | |
| `BufferProofs` | theorems about `Buffer`, and lemmas about loops and sequences | `Buffer`, `TLAPS` |
| `MCBuffer` | instances | `Buffer` |
| `Inode` | inode table, bitmaps and zones of the file system, as functions | |
| `Namei` | paths, directories and the commands on them | `Inode` |
| `NameiProofs` | theorems about `Namei` and `Inode` | `Namei`, `TLAPS` |
| `MCNamei` | instances | `Namei` |
| `Mount` | several devices in one tree: super blocks, mount points, paths across them | |
| `MountProofs` | theorems about `Mount` | `Mount`, `TLAPS` |
| `MCMount` | instances | `Mount` |
| `Buddy` | page allocator, as far as the kernel uses it | |
| `BuddyProofs` | theorems about `Buddy`, and lemmas about multiples | `Buddy`, `TLAPS` |

### Kernel core

The state of `Kernel` is that of the PCBs and of the console: `current_p`, `state`,
`tick`; `head`, `tail`, `next`, `mailto` (`mail.to`); `chs`, `sleep_pid`. The saved
context of a task appears as `swi[t]`, the call the task is inside of. A text is a
model value, and `text[t]` the send buffer in `t`'s memory, which the kernel reads
and writes through physical addresses. The actions are named after the code:
`SysSendm`, `SysRecvmWait` and `SysRecvmTake` (the two paths of `sys_recvm`),
`SysReplym`, `SysGetchsWait`, `SysGetchsTake`, `UartRecv`, `DoTimer0`, `SysPause`,
`WakeTask`. `Schedule` and `SwitchTo` take the state and ticks a handler has changed
before it calls them. `hung` is the endless walk of `try_to_send()`.

Programs are described by constants: whom a task sends mail to (`Dest`), who reads
the console, who pauses. A server replies to what it received last; it may receive
the same message again, since `sys_recvm` leaves it in the queue.

`Rpc` is the abstract specification: a call is asked, answered with the answer to
its own text, and returns. The phase of a call is read off `swi` and `state`.

### Virtual memory

`mmu` is the page directories (`l1`), the tables (`pte`) and the next free frame; `task`
the PCB and the directory of each task. `Rebuilt` is what `rebuild_mmu()` leaves,
`InitTask` and `createp` add a task each, `share_kernel_space` copies the kernel's entries
into a directory. `DataAbort` is the data abort, with `fsr_st` (`AfterFault`) and
`do_page_fault`; `Switch` is `change_ttb_base()`; `Call` a call that goes on with
another task before its result is stored; `physrw` a copy within a page. `phys` is RAM,
`cache` the lines of the data cache by their address (`User(v)` or `Kernel(f)`), with a
dirty bit, `tlb` the translations. The hardware is external: a load or a store may take a
line or pass by the cache, `Replace` may drop a line (writing it back) or a translation
at any time, and an entry that was written through the cache may or may not be in RAM when
the MMU looks (`unsynced`).

The code reads a page of physical memory as page tables in one case: an entry of the
kind "fault" names a table at address 0 (`EmptyFault`). What is in that page is the
constant `LowWord`.

`Space` is the promise: every program has a memory of its own, in which a page is fresh,
a hole, or holds what was stored or copied into it last. `Contents` maps the tables,
the cache and RAM to it. The exceptions in `Space` are those of the code, see below.

Three assumptions describe the layout: `LayoutAssumption` (the map of memory.h and ports.h: the
kernel's megabytes come in groups of four of one kind), `ProgramAssumption` (fixed frames are
below those given out, programs below the kernel) and `StartAssumption` (the memory is enough
to start the kernel and both programs, since `createp()` does not look).

`Physrw` is the loop of `physrw()` by itself, with texts that begin anywhere and cover
several pages, of which any may be missing. `moved` records which byte was copied where.

### NAND driver

`flash[p]` is the contents of an erase block, `blkno`, `buf` and `dirt` the cache
slots. `RwHit`, `RwFill` and `RwEvict` are the three ways through `sys_rw_nand`,
`SysSyncTl` is `sys_sync_tl` and stops at the first block that cannot be written.
`PowerFails` may come between calls, inside a sync or inside an eviction, with one
block erased and not written, and restarts with `BlkDrvInit`. `atime` is never
assigned, so that the "oldest" slot is whatever the memory held at the start, and
stays the same. In `BlockDev`, `disk` is what reads return and `stable` what survives
a power failure; the refinement maps them to the cache over the flash, and to the
flash, each behind the map table.

A start lists the map table again when it can read it, since `put_map_tab` is never called
(`MapTab`). When a page of the table cannot be read, `get_map_tab` returns before it looks
at the table (`blk_drv.c:285`), nobody asks whether it did (`blk_drv.c:340` and `385`),
and the driver works with what is in memory at that place: `GetMapTab` chooses
`AnyTable`, and `listed` is false until the next start. A table of that kind may name reserved blocks, a
block twice, or none. `BlockDev` has the same in `mapped`: a driver that does not
know its blocks is `Astray`. It answers anything, and a sync of it, or a power failure inside one, may
ruin the medium; its requests alone do not touch the medium, since nothing is evicted. The next start that
can read the table keeps the promise again, from what is then on the medium (`Medium`).

### Buffer cache

A buffer head is a record, a hash row and the free list are sequences. The functions
that the C code calls inside one another (`FreeBuffer`, `SyncBlks`, `GetBlk`,
`Release`) map caches to caches, and an action applies them. `held` is the pins of
the file system by buffer and block: what the pointers in its local variables are.
`Modify` is a change by a holder, who sets `bh_dirt` with it everywhere in the file
system. `Store` is the promise: a block reads as it was written last, whatever has
been written back and given up since.

### File system names

The file system is one task that does one command after another, so a command is an
action. What makes it hard is inside: `do_mkdir` has seven ways out, and each must give
back what was taken so far. Therefore the C functions are functions from file systems
to file systems (`f` is a record of the table, the maps and the device, `f0` the
current one), or to a file system and a slot or a zone, and are composed as the C code
composes them; an action applies one command to `f0` (`Done`).

| State | Code |
|---|---|
| `inode_table` | `inode_table[]`: `num`, `cnt`, `dirt`, `valid`, and the part that is on the device, `node` |
| `device` | imap and zmap; `dev_inode`, the inode blocks; `entries` and `objs`, the contents of a zone as a directory's and as an indirect block's |
| `sb_pos` | where `new_block()` goes on to search |
| `leaks` | pins on the buffer of a zone that nobody gives back |
| `cwd`, `root` | `proc->cwd.inr`, `proc->root.inr` |
| `halt` | the file system has met a `crash()` or searches without end |
| `lost` | history: the zones still in the map when their inode was freed, which nobody frees any more: those of removed directories |

`Inode` has `Iget`, `Iput`, `GetEmptyInode`, `NewInode`, `FreeInode`, `NewBlock`,
`FreeBlock`, `ClearIblks`, `Bmap` as in `fs/inode.c` and `fs/bmap.c`, with the order in which
slots, bits and zones are searched. `Namei` has `FindEntry`, `AddEntry`, `IsDirEmpty`,
`DirNamei` and the commands. A stage of a command that needs the result of the one
before is an operator of its own (`NewDir`, `FillDir`, `EnterDir` of `DoMkdir`).
`Restart` is the command `q` and a new start. `Ls` stands also for `cat`, `stat` and
`dpnod`, which take and give back an inode in the same way.

Blocks are read and written as `Store` promises and always can be. Sizes are in
blocks, and what is written is shorter than a block, like the buffer of `main.c`. The
double indirect block is left out, and only the root device is mounted (`Mount` has the rest). `Given` names
the paths that a user gives with each command. `MaxLeaks` bounds refused calls of `rmdir`.

### Mounts

`Mount` is written like `Namei`: the C functions map file systems to file systems, and an
action is a command. The state is the table of super blocks (`super_blk`: the device, the
slot of the mount point, and whether the bitmaps are pinned), the inode table, and per
device the tree of its directories and their link counts. Files, zones and entries are left
to `Namei`; the name of a directory stands for its number, so that a path is a sequence
of numbers and `Up` ("..").

`IgetOn` reads a fresh copy of the root of a mounted device at every crossing (`Cross`),
whether or not one is in the table, as `iget()` does. `FindUp` is the "fake dir cross" of
`find_entry()`: ".." in the root of a mounted device goes on in the mount point, whose slot
it takes without `iget()`. `HoldHost` counts that. `DoMount` finds the directory busy when
its count is not 1. `UmountUnused` takes the current directory for the time of the test, and
goes on with NULL when that was removed.

Three things stop the model (`halt`): a search for a free slot that never ends; a look into
the bitmaps of a device that were given up (`_put_sblk` leaves the pointers in place:
`memset (sblk,0,sizeof(sblk))` clears as many bytes as a pointer has); and a root that
has lost its links in one of its copies, which `iput()` would free. A fourth, a directory removed twice, never
comes (`TableAgrees`). Link counts are numbers without an upper end: those of a mounted root can
grow without bound, as below, and the 16 bits of `i_nlinks` are not modelled.

### Page allocator

`next` and `prev` are the `list` fields of the page structures and of the list heads
(negative numbers), `order` and `busy` the fields of a page, `Size[k]` is `1 << k`.
`AllocPages` takes the first block of the smallest order that fits (`FirstFit`) off its list
(`TakeOff`), cuts it (`CutRun`, the loop, one turn of which is `Cut`) and hands the rest out.
What is on a list is read off the links (`Way`, `Listed`). Freeing is left out, as the kernel never gets to it:
`put_free_pages` has one caller, which frees a block of four pages that is not aligned,
and `Aligned` shows that there is none.

## Runs

| Run | Instance | Shows |
|---|---|---|
| `kernel` | tasks 0..4: a server that pauses and reads the console, and three clients that call again and again; two texts; `ChsBufSize` 1, `MaxTyped` 2; the server has two ticks, the others one | types; no task waits for mail that is there (`NoSleepOnMail`); a reader asleep is the one to be woken and has no line waiting (`NoLostWakeup`); the links are the senders in the order of their calls (`QueueInOrder`); first come, first served; `sendm()` is a remote call (`RpcSpec`) |
| `kernel_live` | tasks 0..3: a server, a task that reads the console, pauses and serves mail in between, and a client of both | under `FairSpec`: calls to the server return, runnable tasks run, a completed line reaches its reader |
| `kernel_queue` | two clients of one server, calling again and again | **violation** of `QueueHoldsSenders`, see below |
| `vm` | two programs; 80 frames of RAM, of which the tasks use up all but a few; a cache of two lines; three pages that are touched: that of the message and two of the heap in one megabyte | types; no frame has two uses (`FramesHaveOneUse`); every directory has the kernel's entries (`KernelIsShared`); a page that is not mapped translates to no frame of RAM (`HolesReachNoFrame`); loads return what the memory holds (`LoadsSeeMemory`); memories are private and change by stores and copies only (`SpaceSpec`) |
| `physrw` | pages of three bytes, four pages, texts of up to eight bytes, any pages missing | byte `i` of a text is copied at its address (`MovesWhereMmuGoes`); the copy ends with the text or at the first missing page (`NothingSkipped`) |
| `tl` | a reserved block and two blocks of two cells, two slots, read errors of blocks and of the table, one block may wear out; the first slot is the oldest | types; the driver implements `BlockDev` |
| `tl_evict` | three blocks, two slots, one block may wear out | an eviction damages only the slot it evicts |
| `buffer` | four blocks of two devices in one hash row, two buffers, two pins | types; a block is cached once and found; counts are pins; the file system never stops; the cache implements `Store`; the last sync leaves nothing |
| `buddy` | 18 pages, three orders | no page is handed out twice or lost, lists hold whole aligned blocks, nothing is refused while there is room |
| `fs` | three inodes, three slots, five zones in a map of two blocks, three entries in a zone, one direct zone and one indirect; eleven commands and restarts | a link count is the number of entries with that inode; directories are a tree; a zone has one user and the map is right; every way out of a command gives back what it took; no assertion is met |
| `fs_rmdir` | four inodes, six zones; a directory that gets a second zone | **violation** of `LinkCounts` |
| `mount` | the root device and the RAM disk with three inodes each, five slots, two super blocks; seven commands, with paths in, under and through the mount points | types; the inode table agrees with the mounts and the devices (`TableAgrees`); every path leads where the mounts say (`PathsResolve`) |

Why the bounds are enough. In `kernel`, three senders give a queue with a head, a middle
and a tail, and a task that is neither the caller nor the one called. Slices of one and
two ticks are charged, spent and refilled. A line buffer of one character is full at once,
and the next is typed past its end. Clients call as often as they like; one that
has a link left from an earlier call does so when the queue is empty, where `sys_sendm`
does clear the link: what happens otherwise is run `kernel_queue`. In `tl`, two erase blocks and two slots fill the cache
without an eviction, so that it does not matter which slot is the oldest: `FirstIsOldest` looks at the states
where it is the first. One reserved block is enough for a table that was not read to lead out of
the device. Requests outside the device come when a block has worn out; on a
chip without worn blocks they are part of `DriverIsDevice`. In `tl_evict`, three blocks and two slots evict at once. Two buffers for four
blocks are full after two reads, and a chain of two is already searched from both
ends (chains of every length are covered by a theorem). 18 pages are two runs of
two largest blocks and two single pages, so that both ways of filling the lists occur.

In `fs` the root, a directory and a file or two use up three inodes, so that inodes run out
with room in the directory and entries run out with inodes left. A directory that grows
takes the indirect block and its zone together, one of which may be the last. The
zone map has a block of four bits and one of a single bit, in bytes of two, so that the
search for a free zone starts inside a byte, crosses bytes and blocks, and comes back to a
block whose start it does not look at. Three slots are what `cp` needs at once; an inode
that is read takes the first slot without user, so that copies of other inodes are
thrown out all the time. A path has one directory at most. In `fs` `rmdir` is given only
directories that have one zone; with a second zone the finding below makes the link
counts wrong.

In `vm` a page of tables serves four megabytes, as in the code, so that one fault fills
tables that another page's access then finds. RAM is large enough for the two programs
and few pages more: the last faults find it used up. With two lines
of the cache, a frame can be there under the program's address and the kernel's at once. The allocator gives ascending frames (`Buddy` has its lists).

In `physrw` a text of eight bytes covers up to four pages of three, with a first and a
last part of every length; the theorems are for every size.

In `mount` the root device has no inode left, so that `mkdir` fails there until something is
removed. The RAM disk is mounted on the root device, and the root device on a directory of the
RAM disk or of its own, one after the other in any order; removed directories are current and root directories; a path has at
most three steps. Five slots are two for the mount points and the three that `mkdir`
and `rmdir` need at once.

`MaxTyped`, `MaxBad`, `MaxPins`, `MaxLeaks`, `MaxLines` and `MaxSize` are the only bounds on
behaviour; each is a guard and is named where it is declared. `MaxPins` is also what keeps
the eight bits of `bh_cnt` from overflowing. Deadlock is checked except where memory runs
out for good (`buddy`, `vm`), where a copy ends (`physrw`), and where the file system
stops (`mount`).

Liveness rests on `Fairness`: the timer interrupts again and again (weak fairness of
`Timer`), and a task that has the processor infinitely often does what its program
does next (strong fairness of `GoOn`), because a slice is 10 ms of instructions. A
server is assumed to go on serving: a call returns unless its receiver pauses with the
call in its queue, or waits for the console. Nothing is assumed about typing, sending or
pausing. Mail hands over the processor without regard to ticks, and a task without
ticks is not charged, so that tasks exchanging mail without end starve the others:
`RunnableRuns` and `ReaderGetsLine` are about runs in which the mail stops.

Each property of a passing run has a mutant, a definition beside the real one that
makes a plausible mistake (`ChargedAlways`, `DequeueKeeps`, ...), which violates it.

## Where the code does not do what it says

- `kernel_queue`: a sender's `next` is not cleared when it queues up behind others, and
  `sys_replym` clears the link of the receiver instead of the sender's. A client
  that calls a second time brings an old link, and the queue names tasks that do
  not wait in it. With one client per server this cannot happen (proved).
- `fs_rmdir`: `is_dir_empty()` passes over the first two entries of each zone, but "."
  and ".." are in the first zone only. `rmdir` removes a directory whose last file is the
  first of its second zone; the file keeps its inode and its zone, and has no name.

Met on the way, and in the models, though nothing in the repository says otherwise and no
run is about them:

- Evicting a slot of the translation layer keeps its `blkno` and `dirt` (`RwEvict`). A ninth
  erase block gets the number of an older one, whose contents it replaces at the
  next write-back, even if nothing but reads was asked for.
- `bread()` returns NULL and keeps the pin when the read fails. `free_ind()` goes on to
  free that block, and `free_block()` crashes.
- `sys_sendm()` and the calls that block store the caller's result after `switch_to()`,
  through the caller's address in the other task's memory (`Call`, kmail.c:67). The
  other task finds it on the page of its stack where its own message may be. `Space`
  allows it (`Answered`).
- A fault fills the tables of four megabytes, and the entries that it does not set are zero,
  with no fault to follow: they translate to physical page 0. A page that has not been
  touched before its table exists never becomes memory (`Hole`); `HolesReachNoFrame`
  shows that no program's memory is reached in this way.
- `iget()` reads the root of a mounted device again at each crossing, though a copy is in the table
  (inode.c:148). `mkdir` and `rmdir` in that root change the links of one copy, and what is
  written back last wins: the link count of a root is not the number of its
  directories (`CopiesAgree` is about all others). Paths do not see it (`PathsResolve`).
- `init_task()` maps the first page of the idle task's stack and sets its stack pointer to
  the end of the last one (task.c:111, 124).
- `physrw()` counts a part before it finds that its page is not mapped (kmail.c:92).
- `do_umount()` tests for users of a device in the inode table only. A current directory that was
  removed does not count, nor does the root directory that `chroot` set: the device is taken
  away and the next command looks into its old bitmaps (`halt = "maps"`). "we can not umount cwd
  dir" (super.c:276) holds of directories that are still there, which `CwdStaysMounted` in
  `TableAgrees` checks.
- The root device may be mounted on a directory of its own or of the RAM disk, and never be
  unmounted (super.c:267). ".." leads out of a `chroot` when its directory is the root of a
  mounted device, as the test for that comes first (namei.c:43-50).

Also: `try_to_send()` compares the caller's own copy of its PCB with the table and does not
see a loop of senders, so that two tasks that send to each other hang the machine
(`hung`); the zones of a removed directory stay busy (`lost`); `new_block()` does not
come back to the start of the map block it began in; a refused `rmdir` keeps a pin
(`leaks`), which does no harm as long as that zone is never freed, and directories' zones
are not; `mv` of a file to its own name removes it.

## What is proved

The theorems are about every value of the constants; the proofs assume the named
assumptions on constants only, and what a theorem states as its own hypothesis. One step of an
induction is a lemma per action, since each action disturbs few conjuncts. TLC has checked
each inductive invariant on the instance of a run first.

### Kernel with one client each (`KernelProofs`)

For every number of tasks, priorities, texts and buffer sizes, under
`OneClientEach` (a server has at most one client, and servers send no mail) and, for the
console, `OneReader`:

- `Invariant`: `Spec => []IInv`. `IInv` is `CallInv`, which does not depend on the number
  of clients, and `CallersAlone`. In `CallInv` the running task
  is runnable, and so is the idle task (`RunnersRun`). A task with mail on its way
  is blocked in `sendm()`, with its text unchanged
  (`CallsWait`), and a task in state `TS_SEND` has such mail (`SendersCall`); the
  head of a queue is a sender to it (`QueuesAreCalls`), and the head and the tail
  are empty together (`QueueEnds`). What a server received is what the head of its
  queue holds (`Received`); without it `replym()` could answer another text. A console
  sleeper that may send mail is asleep (`SleeperSleeps`): without it `wake_task()`
  could wake a client out of `sendm()`. `CallersAlone` is that a caller is the head and the
  tail of the queue it waits in and has no link.
- From it: `TypeCorrect`, `NeverHangs` (a chain of `mail.to` ends after one step),
  `QueuesHoldSenders`, and `KmailImplementsRpc`, the refinement of `Rpc`: every step
  is a call, a reply, a return or a stutter.
- `ReceiversAwake` and `ReaderIsWoken` (`NoSleepOnMail`, `NoLostWakeup`), by further
  induction on top of `IInv`.

### Queues of any length (`KernelProofs`)

Under `ServersSendNoMail` alone, for any number of clients of any number of servers that call
again and again, as long as a client with an old link finds the queue empty (the finding
`kernel_queue` is what happens otherwise):

- `CallersInvariant`: `OrderInv`. On top of `CallInv`, the calls that arrived at a server and
  are not answered (`arrivals`) are from tasks with mail to it (`ArrivedCall`), hold every such
  task (`CallersArrived`) once (`ArrivedOnce`), and are the list from head to tail
  (`QueueInOrder`). The middle two are what makes it inductive: a sender that stood in two
  queues, or twice in one, would have its link overwritten by the second.
- From it: `CallersTypeCorrect`, `QueuesKeepOrder`, `QueuesHoldCallers`, `CallersNeverHang`,
  `ServedInOrder` (the sender that a reply lets go on is the first of `arrivals`),
  `CallersReceiversAwake`, `CallersReaderIsWoken` (with `OneReader`) and
  `CallersImplementRpc`.

### NAND driver (`TlCacheProofs`)

- `CacheInvariant`: two slots never have the same number (`LabelsDiffer`), and every slot but the
  oldest that nobody wrote to is a copy of its block, or holds what a failed read left
  (`CopyOrUnread`). `LabelsDiffer` is what makes it inductive: the write-back of one slot
  would make another one with the same number stale. From it `TypeCorrect` and, without read errors,
  `OthersHold`, for any number of slots and blocks, evictions included.
- `DeviceInvariant`, under `SlotForEveryBlock`, which says that fewer blocks are asked for than there
  are slots. Numbers of slots come from blocks that were asked for (`LabelsAreAskedFor`), and
  a map table that was read lists different blocks of the device (`TableOfGoodBlocks`, of which nothing
  is left where `listed` is false). A request for a block that has no slot
  finds a free one (`NoEviction`, a pigeonhole argument, which holds for any table) and the oldest slot is like the others.
- `DriverIsDevice`, under `SlotForEveryBlock`: `Spec => DeviceSpec`. A hit and a fill are reads or
  writes, a failed read shows nothing, a sync saves the slots before the one it
  stops at and loses at most that one, and a power failure saves some slots and loses the rest.
  These are steps of a driver that read its table. One that did not is `Astray`: `RequestIsAstray` is that its requests leave
  the flash alone, `SyncIsAstray` that a sync answers for no block. `MediumOfStart` is that a
  start that can read the table shows what the medium has, whatever the start before it did.

### Virtual memory (`VmProofs`)

For every layout of memory and any number of cache lines. The hard part is that
`share_kernel_space()` and `createp()` call `map_vaddr2paddr()` again and again, with tables taken
from the allocator in between:

- `TablesSafe`: `MmuInv`. Its parts are that each table has one entry of one directory that names it
  (`OneEntryEach`; otherwise filling one entry would map a page somewhere else too), that
  the user half has no sections (`NoUserSections`), that four entries of the kernel are of one kind
  (`KernelGroups`; a table that is filled for one of them must not overwrite a section), that
  frames have one use and all are below the next free one, and that only "fs" maps the fixed
  frames (`FixedForFs`). The lemmas say what an operator does to any tables:
  `Extended` and `Grown` are the effect of new tables and of mapping a set of pages, `Keeps` that the
  other directories and the kernel's entries are as before. `Keeps` is transitive, so that
  `CreatedEffect` and `BirthEffect` are chains of it. `Booting` says that until the last program
  is there, `mmu` is what the kernel computes in its start, where `StartAssumption` speaks of it.
- From it: `KernelShared` and `OneUse`.
- `MemorySafe`: `MemInv`. A line or a translation has an owner (`Owners`): a page of the running
  program under its own address, or a page of another task under the kernel's. As frames have one
  use, two lines never hold the same frame, except physical page 0 (`OwnersOneKey`), and a clean
  line equals RAM. A switch empties both, which is why no owner outlives it; no directory of a
  running program is `unsynced`.
- From it: `VmTyped`, `HolesSafe` and `LoadsSafe`.
- `MemoriesArePrivate`: the refinement of `Space`. `Holds(ram, f, x)` is that frame `f` holds `x`, in
  its line or in RAM; a page shows what its frame holds (`Shows`). Loads, write-backs and switches
  keep what every frame holds, a store changes one frame, a fault zeroes a frame that no page
  had (`FreshOwner`), and `createp()` fills frames that are new or fixed. Each action then
  is a step of `Space` or leaves the memories alone (`SpaceStep`).

### Page allocator (`BuddyProofs`)

For any number of pages and of orders:

- `ListsHold`: `IInv`. The lists are described from outside: `lst` is the list that each free
  page is on, `at` its place there (`Lists`). Both exist in every state, though no
  variable holds them: `order` cannot say it, as only the first of two largest blocks gets one.
  Neighbours are on the same list and point to each other (`Linked`), a page that is
  not the last of its block is followed by the next page (`InBlocks`), places count from the head
  (`InPlace`, `OneAPlace`). `OneAPlace` is what makes it inductive: the first pages of a list are then the
  first block and no other, so that relinking the pages at its two ends takes off the whole of it.
  `HaveParents` is that of the block that a smaller one was cut from some page is handed out.
- The cutting loop: `AtHand` is `IInv` with a block that is on no list; `CutStep` is one turn (the
  list that the first half goes to is empty, because the search passed it), and
  `CutKeepsHand` the induction over the turns.
- From it: `BuddyTyped`, `PagesKept` (the way along `next` from a head gets to each page of
  the list, in as many steps as its place says), `BlocksWhole`, `BlocksAligned`, and
  `RefusedWhenFull`: a free page of a run that is large enough would be in a smaller block, whose parent lies
  in the run and has a page handed out.

The lemmas about `%` and about `Size` come from the uniqueness of the rest of a division
and from the induction over numbers that the loop uses; the prover knows nothing of powers of two.

### Buffer cache (`BufferProofs`)

For any number of buffers, blocks, hash rows and users:

- `SearchIsComplete`: the search of `find_buffer()` from both ends looks at every buffer of a
  chain of any length.
- `BufferInvariant`: `BufferInv`. The free list and the chains hold each buffer once, in the
  row of its block, and no block has two buffers (`ListsOK`); a buffer keeps its block for its
  pins or its dirt, and what is clean and valid equals the device (`BuffersOK`); who holds a buffer
  has a pin on it (`HoldersOK`). `sync_blks()` and `sync_dev_blks()` are loops: their lemmas
  (`SyncBlksEffect`, `SyncDevEffect`) say what a turn keeps (`Synced`), and that a round of `NR_BUFFERS`
  turns meets every buffer; an induction over the turns that needs no operator as a parameter (`TurnByTurn`,
  `RunExists`, from the well-ordering of the numbers) joins the turns.
- From it: `TypeCorrect` and `BlocksCachedOnce`. With no bad block (`Broken = {}`; `bread()` keeps
  the pin when a read fails, so that the equality is false otherwise): `CountsArePins`; with no more users than
  buffers, `CacheNeverHalts`, because then a buffer that `sync_blks()` meets can be given up;
  `CacheIsStore`, the refinement of `Store`, in which a write-back is `CatchUp`; and
  `LastSyncIsComplete`, which rests on the round of `sync_blks(-1)` meeting every buffer.

### `physrw()` (`PhysrwProofs`)

`TypeCorrect`, `MovesSafe` and `NothingSkippedSafe`, for every size of a
page, address, length and set of missing pages: the loop of `physrw()` keeps its
variables in range, copies byte `i` of the text to address `addr + i` in a mapped page,
and ends with the text or before the first byte that has no page. The invariant says
where the loop stands: `addr + cnt` is the byte at `offset` of page `vpage`, and what
was moved are exactly the bytes before `cnt`.

### Mounts (`MountProofs`)

For any devices with trees of directories of any shape, any paths, and any sizes of the tables:

- `MountInvariant`: `IInv`. A command takes and gives back inodes all the way along a path, so
  that the invariant is about a file system in the middle of a command, with the slots `a`
  and `b` that the command holds. `Base` is also true when it has stopped: a super
  block has one device and one mount point (`SblksOK`), pins are mounts (`PinsOK`), a slot is
  counted once for its mount and once for each hold (`CountsOK`). `Agree` adds that the mount
  points are marked and no roots (`HostsOK`), that a slot in use is on a device whose
  bitmaps are there (`UsedOK`), that copies are of inodes in the tree and have
  their links (`RowsOK`), one copy each (`OnceOK`), and that the device has the links of
  its tree, except for an inode that the command has changed and holds (`DiskOK`). This exception is
  what makes it inductive. `OnceOK` and the links leave out the roots, where they are false.
- The lemmas say what an operator does to any file system with that invariant: `IgetGives`,
  `PutBack`, `FindGives` for a step; `Taken` is what a walk of any length leaves, and `WalkGives` the induction
  over its steps. `MountEnds`, `UmountEnds`, `MkdirEnds` and `RmdirEnds` are the commands.
  `NamedOnly` is that `rmdir` cannot remove by "..": a parent is not empty, or is a root.
- From it: `TypeCorrect`, `TableAlwaysAgrees` and `PathsAlwaysResolve`. For the last, a mount point
  is in use and is no root, so that it has one copy and one device (`OneHost`); `Enters` and `Leads` are then
  the functions `Entered` and `UpFrom` of the properties.

### Inodes, zones and names (`NameiProofs`)

For any numbers of inodes, slots and zones, any sizes of map blocks, directories and indirect
blocks, and any paths:

- `NameiInvariant`: `IInv`. The commands take and give back slots, bits and zones one after the other,
  so that the invariant is about a file system `f` in the middle of a command: `Holds(f, h)`, where
  `h[s]` is how often the command holds slot `s`. Between commands it is `Holds(f0, NoHolds)`. Its first part is the inode
  table (`TableOK`): what is in the table is in the map (`InMap`) and there once (`Once`), a copy
  that is not to be written has the mode and zones of the device (`OnDevice`), and the counts are the
  holds (`CountsOK`). The second is the zones (`Owned`): a zone is at one position of one
  inode, directly or through the indirect block, and the map is what inodes have and what is `lost`.
  Each needs the other: a second copy of an inode would give a position two zones, and an inode that
  is read again after its slot was given away must find the zones it had.
- The exception in `OnDevice` is an inode that the command is about to free (`Going`): `do_rmdir`
  clears its dirty bit, so that its copy is thrown away without being written.
- The lemmas say what an operator does to any file system with that invariant (`XHolds`), and, where
  more than the invariant is needed, to any other (`XGives`): `IgetHolds` and `IputHolds` add and take
  a hold, `LooseTo` is what `NewBlock` leaves, a zone in the map without a user, and `InodeZoneHolds`
  and `IndirectHolds` that the inode or the indirect block gets it. `OwnedIn(f, Z)` is `Owned` with `Z`
  for the map, so that a lemma can add a zone to it or take the zones of an inode from it. The walk
  along a path of any length is an induction over its steps (`RunExists`, `TurnByTurn`, `AlongHolds`), with one hold, or none after
  a step that failed. A command has a lemma for each of its stages.
- `do_rmdir` gives the two inodes back twice when the directory has more links than it should
  (`RemoveTwice`). `IputAgain` is that `iput()` does nothing to an inode that nobody holds, so that the table
  is right all the same, but for the links of the two.
- From it: `TypeCorrect`, `ZonesAlwaysOneUser`, and `TableAlwaysRests`, which is `NothingPending` as far as that holds
  in every instance.

### Only model-checked

Liveness (`CallReturns`, `RunnableRuns`, `ReaderGetsLine`): properties under fairness are outside the
reach of the prover. Of the invariants of `Namei`, those
about names are checked by TLC only, and are not true of every instance: `LinkCounts` and `DirsAreTree` need
that no directory with files is removed (`fs_rmdir`), `NothingPending` that none is given back twice
(the links of `RemoveTwice` stay in the table; the rest of it is `TableAlwaysRests`), and `NeverHalts` fails
when a path needs more slots than there are. The results of recursive definitions for all data
are out of reach where they need an induction that the library states for an operator.

## What is not modelled, and the plan

Left out for good: boot code and drivers that only set registers, the string library and
formatting, `sh`, `net` (empty) and the tools that build the image; the first page tables of
the boot loader, the instruction cache and access permissions (the manager domain turns them
off); reads and writes behind `tl_cache[-1]`; what the kernel does after a page fault of
its own has overwritten the saved registers of the user (`kernel/page/dabt.S:8`), and what
the file system finds on a device after it has given up its bitmaps; what lies behind `chs_buf`, where the
interrupt stores the characters typed past its end; the part of the vector page's table that `task_init` leaves uncleared
(nothing there is touched); and the slots of the directories on a path to a device
file, which take the vacant slot of the file itself one after the other (`DeviceFile`).

Assumed and not checked, because the system has it so: one reader of the console; servers
send no mail; the entries of a map table that was not read are blocks of the chip or none (what an
address that the chip does not have stands for is up to the chip); pages for the PCB and for mail are there when a program is created; the
blocks of file systems can be read.

To come, in this order:

1. `Dirs`, the abstract file system (a tree of names with files that have several), as
   the specification that `Namei` implements: a command succeeds or changes nothing.
2. `Files`: descriptor tables and positions, `do_lseek`, `do_dupfd` (which copies the
   empty descriptor over the open one), `O_APPEND`.
