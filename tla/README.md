# xv6 for ARM in TLA+

Specifications of the kernel in `src/src`, their TLC configurations and TLAPS
proofs. `PROJECT.json` lists components, runs, mutants, findings, hazards,
theorems, and for every definition the lines of code it models.

## 1. The system

| Part | Code | Model |
|---|---|---|
| processes, scheduler, sleep/wakeup, kill, clock | `proc.c`, `sysproc.c`, `device/timer.c` | `Proc` |
| write-ahead log | `log.c` | `Log`, abstract `LogAbs` |
| buffer cache and disk | `bio.c`, `memide.c` | `Bcache` |
| inode contents and disk blocks | `fs.c` (lower half), `file.c` filewrite | `Inode` |
| names, references, descriptors | `fs.c` (upper half), `file.c`, `sysfile.c`, fork/exit of `proc.c` | `FileSys` |
| pipes | `pipe.c` | `Pipe`, abstract `PipeAbs` |
| memory allocator | `buddy.c` | `Buddy` |
| address spaces, exec, sbrk | `vm.c`, `exec.c`, growproc, fork/exit/wait of `proc.c` | `Vm`, abstract `VmAbs` |
| locks, interrupt mask, traps, context switch | `spinlock.c`, `arm.c`, `trap_asm.S`, `swtch.S`, `trap.c`, scheduler | `Cpu` |
| console input | `console.c`, `device/uart.c` | `Console` on `Cpu`, abstract `ConsoleAbs` |
| shell and init | `usr/sh.c`, `usr/init.c`, `usr/cat.c` | `ShellParse`, `Shell` |
| system call entry, start-up, string library, other programs | `syscall.c`, `main.c`, `start.c`, `lib/`, `usr/` | section 5 |

System calls go through descriptors to files; a file is an inode or a pipe.
Inodes live in disk blocks, which are read through the buffer cache and written
through the log. Pipes, stacks and page tables come from the buddy allocator.
The shell is what uses all of it: fork, exec, pipe, wait and the console.

**Concurrency in this kernel.** There is one CPU. A system call is entered with
interrupts off and `yield()` has no caller, so a process runs until it sleeps,
exits or returns. Hence an action is one stretch of a system call between two
sleeps; timer interrupts happen in user mode and in the scheduler. The places
that do sleep are wait, sleep, pipes and the console. The sleeps in `bget`,
`ilock` and `begin_trans` cannot happen on the memory disk, because the holder
never gives up the CPU. `Bcache` and `Log` nevertheless let processes interleave
there, as the code is written for; they allow more behaviours than this build.
`FileSys` and `Inode` take a whole file system call as one step, `Vm` one turn of a
page loop, with other processes in between only where `exec` reads the file.
Interrupts are open in user mode, in `scheduler()` after its `sti()`, and from
`forkret` to the end of `trapret`; `Cpu` takes those stretches one instruction
at a time.

**Crashes.** `log.c` is written to survive a crash between any two block writes.
The memory disk of this build does not survive a power cut; `Log` models the
disk as the device the code is written for.

## 2. The modules

**Proc.** One variable per field of `struct proc`, plus `kpc` (where in the kernel
the process is), the scheduler's position `scan`, and the clock. `Fork` has every
failure path, including the panic of `kpt_alloc`. `ticks` is a counter modulo
`TickMod`. Kill may hit any pid, also stale ones.

**Log.** `begin_trans`, `log_write`, and a commit in single disk writes: log blocks,
header, installs, erase. `Crash` may come at any point, in recovery too. `LogAbs`
is the promise: a transaction's writes take effect all at once or not at all.
Crash and recovery are steps of that abstract machine.

**Bcache.** The buffers with sector, flags and contents, the LRU order of the list,
and the log's pin (`B_DIRTY`). The history variable `last` is the reference: what
was last written to each sector. Callers hold and pin as many buffers as they
like; `bget` panics when none is left.

**Inode.** Disk inodes, in-memory copies, the bitmap, and the indirect blocks. `Writei`
is one chunk of `filewrite()`, at any offset up to the size. A record is threaded
through `Bmap`, `Balloc` and `Itrunc` in the order of the code; `logged` is the set
of blocks the transaction writes. Every inode counts as a block of its own and
there is one bitmap block, as on the 1024-block disk.

**FileSys.** A record with type, nlink, entries, ref and valid is threaded through
`Iget`, `Ilock`, `Iput` and `Walk` (namex) as in the code, so that every early return
really gives back, or forgets, its references. Actions: open, mknod (with mkdir),
link, unlink, chdir, dup, close, fork and exit. Contents and offsets are left out.
Left out too is the limit NINODE of the inode cache.

**Pipe.** `nread`, `nwrite` modulo `CMOD`, the ring, and the processes inside. Reads
and writes run to their next sleep. `PipeAbs` is a bounded FIFO channel.

**Buddy.** Bitmaps, marks and lists per order, `Kmalloc` with its splits and `Kfree`
with its merges, from any legal sequence of calls.

**Vm.** Blocks are what the allocator hands out: page directories, page tables,
pages and kernel stacks. `pgd` and `pgt` are their contents as tables, `data` as
pages; `free` and `boot` are the allocator's pool and the pool of boot-time tables;
`ttbr` and `tlb` are the MMU. Each process has its place in a call (`pc`, `ret`,
local variables `k`), the directory under construction `nd`, and fork's child `kid`.
Every failure path of `exec`, `allocuvm`, `copyuvm` and `fork` is there, and the sum of
a program header wraps around at `WORD`. `exec` can go through a wild pointer in
three places, and then `wild` is set. The first two jumps to `bad` free an
uninitialised `pgdir`: the model frees any block as a directory, or none. A wrapped
sum makes `loaduvm` walk past the directory, or write to physical page 0 where a page
is missing. Arguments larger than the image wrap the stack pointer.
`VmAbs` is the promise: every process has a memory of its own.

**Cpu, Console.** `cpu` holds mode, mask, `ncli`, `intena` and the locks; `spsr` is the
banked register that `trapret` writes. `Console` adds the ring and its readers. An
interrupt handler runs as one step wherever the mask is open. The checks of
`acquire` and `release`, compiled out in the source, are recorded in `cpu.err`.
`ConsoleAbs` is a queue of lines, of which the last can still be edited. Left out is
the `initlog` that the first `forkret` calls: it runs before there is a second process
to schedule, and what it does to the disk is the recovery of `Log`.

**ShellParse, Shell.** The recursive-descent parser as operators on sequences of
tokens, next to a declarative grammar. `Shell` runs the parsed commands as processes
with descriptors: `runcmd`, the shell's main loop, and init. Forks, execs and opens may
fail. What kernel calls do here is what `Proc` and `Pipe` promise. A `cat` of the console
waits for a line or ^D, which nobody has to type.

## 3. The runs

| Run | Instance | Distinct states | Shows |
|---|---|---|---|
| `proc` | 4 slots, 4 pids, 2 ticks | 247,592 | no lost wakeup in wait or sleep, parents outlive children, slots own their resources, zombies final; the scheduler starves nobody, wait returns when there is a zombie |
| `log` | 3 blocks, 2 values, 2 processes, log of 3 | 218,896 | atomic transactions across crashes; reads see the transaction's writes |
| `pipe` | 2 processes, ring of 2, counters mod 4 | 263,600 | FIFO channel, no lost wakeup, freed once, closing releases the other end |
| `buddy` | 3 orders | 229,622 | blocks tile memory, lists match bitmaps, fails only when nothing fits |
| `bcache` | 2 processes, 4 sectors, 3 buffers | 279,257 | one buffer per sector, one holder per buffer, reads return the last write |
| `inode` | 2 inodes, 7 blocks, 1 direct and 2 indirect | 1,258,499 | bitmap exact, no holes, saved inodes, chunks fit the log |
| `filesys` | 2 processes, 3 inodes, 2 files, 2 names | 77,113 | reference counts exact, freed when unused, no dangling names |
| `vm` | 3 processes, 11 blocks, 12 programs | 1,111,451 | until a wild pointer is used: no block used twice or lost, sizes and tables agree, the MMU is never stale, memories are private |
| `console` | 2 processes, ring of 3, counters mod 6 | 1,590,202 | lock discipline, no reader left asleep, the ring is a queue of edited lines |
| `shell` | all lines of up to 3 tokens and 13 longer ones | 311,128 | parser agrees with the grammar, processes get the right descriptors, every command that does not wait for typing finishes |

Two more runs end in a counterexample, where the code departs from what it says
of itself:

- `filesys_trans`: exit and chdir drop the last reference to a removed directory
  outside of a transaction, and `log_write` panics.
- `console_trap`: an interrupt between `trapret`'s write of `spsr` and its last
  instruction, on the way out of `forkret`, replaces `spsr_svc`: the new process
  starts its program in supervisor mode.

Four configurations outside of the list of runs show further disagreements, each
with a counterexample:

- `ProcKill.cfg` (`BornAlive`, module `Proc`): a failed fork leaves its pid in the free
  slot; a kill of that pid marks it, and the next process in it is born killed.
- `InodeLayout.cfg` (`DataBeforeLog`, module `Inode`): `mkfs` leaves the log's blocks
  free in the bitmap and `balloc` hands them out when the disk is full.
- `FileSysLinks.cfg` (`LinkExact`, module `MCFileSys`): a file created in a removed
  current directory keeps a link count of one and no name.
- `VmExec.cfg` (`NeverFreedTwice`, module `MCVm`): `exec` of a file without an ELF header
  frees what is in its uninitialised `pgdir` (`exec.c:34`, `exec.c:38`); if that was a
  directory, `_kfree` can meet the same block again and panics with "double free".

The properties of `Vm` speak of the time until `wild` is set: what the kernel does with
a wild pointer can damage anything, and nothing holds after it. The good and bad
programs of the run that do not set it cover every other failure of `exec`.

`PrivateMemory`, `SizesAgree` and `MmuFresh` have one exception, named `Gutted`: a process
whose `sbrk` goes down to size 0 loses its pages while `growproc` reports failure and
keeps the old size, without a flush. A later fork of it panics in `copyuvm`.

**Bounds.** `MaxPid` bounds forks, `MaxLink` bounds links (needed, since links made in
a removed directory are never taken back), `MaxN` the length of a pipe call. The rings and counters are
small so that they wrap around within a run; the inode has a direct and an
indirect part; the file table is smaller than what two processes can ask for, so
all failure paths are taken. `FileSys` uses a `VIEW` (in `MCFileSys`) that merges
states which differ only in the numbering of file-table slots and descriptors:
the code's choice of number is visible to no property.
All states after a panic are merged too. `Vm` has too few blocks for three
processes, so that every allocation fails somewhere; its address space has two
tables of two pages, pages of two units, so that sizes within a page, at its end
and at a table's end all occur. Its `VIEW` (in `MCVm`) merges states that differ
only in the names of blocks, as long as every block has one holder, all states
after a wild pointer, and states after a panic that the invariants do not tell
apart. `MCBcache` declares processes, sectors and data symmetric: no definition
tells one from another. The console's
ring is smaller than what is typed and the counters wrap around. `Shell` types at
most two lines, fails one call (`MaxFaults`) and gives a program one piece of
input (`MaxChunks`); it does not check deadlock, since a shell at its prompt
waits for somebody to type. `Bcache` does not check
deadlock: a panic halts, and `bio.c` by itself does not keep two callers from
waiting for each other's buffers.

**Fairness.** `proc`: the scheduler and a process in the kernel keep going, and
a process in user mode eventually makes a call that gives up the CPU; nothing
preempts it, so without this the kernel promises nothing. Excluded are a panic and
a killed init, which keeps the CPU. `pipe`: a runnable process inside the pipe
runs, which is what `RunnableRuns` shows of the scheduler. `shell`: every process that
can go on does, for the same reason, except a process that reads the console:
nothing makes anybody type. `CommandsFinish` therefore speaks of the processes that
do not wait, directly or through a pipe or a child, for one that reads the console.

## 4. The proofs

Each `*Proofs` module has an inductive invariant `IInv`, its invariance, and the
properties as consequences.

- `ProcProofs`, any number of slots: type, no lost wakeup, no oversleeping, the
  family tree, sound slots, final zombies. The strengthening relates `proc`, state,
  `kpc` and `chan`, counts a sleeper's time as `sys_sleep` does, and says that pids in use are below `nextpid`, which gives
  that a parent is older than its child.
- `LogProofs`, any log size, blocks and processes: `Spec => AtomicTransactions`.
  The invariant says, per phase of the commit, what header, log and home blocks
  hold; the refinement maps the disk to what recovery would make of it. A second
  invariant `CacheInv` ties the cached blocks to the transaction; from it: reads see
  the transaction's writes (`ReadsSeeWrites`) and pins belong to log entries
  (`PinnedAreLogged`). Also that `begin_trans` is always woken.
- `PipeProofs`, any number of processes and any `PIPESIZE` dividing `CMOD`: type, no
  lost wakeup, freed exactly once, and `Spec => IsChannel`. The refinement maps the
  ring between `nread` and `nwrite` to a sequence; the lemmas say what a byte written
  or read does to it when the counters wrap around.
- `BcacheProofs`, any processes, buffers and sectors: exclusive buffers, transparent
  reads, no lost wakeup in `bget`.
- `InodeProofs`, any size of disk, inode, indirect block and log: copies saved, exact
  bitmap, no holes, transactions that fit. `IInv` is `Sound` (each address of each inode
  is a slot of one map; no block is in two slots, the marked blocks are those in the
  map, and the filled slots are those below the size), `Copies` and `Fits`. The loops of
  `writei` and `itrunc` are recursive functions; what they compute is proved by
  induction on the number of rounds, with the invariant of the round.
- `FileSysProofs`, any processes, inodes, files, descriptors, names and paths: exact
  `ip->ref` and `f->ref`, inodes freed when unused, no dangling names. `IInv` says, until
  a panic, that links are at most `nlink`, that an inode without links and references
  is free, and that both counts are the cardinalities of their users. Inside a call
  these hold up to one reference or one link under way, the parameters of `Good`;
  `namex` is an induction on the path. The facts about `Cardinality` are collected in
  `Laws`, which the lemmas assume and `LawsHold` proves from the library.
- `VmProofs`, any processes, blocks, programs, page and table sizes: no block is used
  twice (`NeverShared`) until `exec` goes through a wild pointer. That is not inductive:
  `IInv` is `Typed`, `Control` (where in a call a process has a directory under
  construction, a child, a file) and `Owned` (available blocks, stacks, directories,
  tables and pages are disjoint, and each has one user). First what mapping,
  unmapping and freeing do to it, then one step per action; a step that does not set
  `wild` keeps `IInv`, and no step clears `wild`, so `~wild => IInv` is invariant.
- `ConsoleProofs`, any processes and any ring: no check of the locks fails and locks
  are held with interrupts off (`LocksSound`), no reader sleeps on, and
  `Spec => LineQueue`. The invariant `LocksByControl` says which lock is held at which
  place of which context; for the queue, the ring between `r`, `w` and `e` is cut into
  the completed lines and the one being edited.

Assumptions are the named ASSUMEs of the component modules; TLC evaluates them in
the runs. Those of `FileSys` include that processes and names are finite sets, without
which a count says nothing. Induction over a number uses that a non-empty set of
numbers has a least element, from the library's well-founded relations.

Only model-checked: all liveness, which needs fairness; `Buddy`, whose bitmaps are
indexed by powers of two, which the provers do not compute with; `NeverLeaked`,
`SizesAgree`, `MmuFresh` and `PrivateMemory` of `Vm`; and the shell, whose parser is
recursive.

## 5. Not modelled

- The system call entry (`syscall.c`): a table look-up and address arithmetic on the
  caller's stack. The modules take decoded arguments, so nothing here speaks of the
  bound of the table or of the value left in `r0` by a failed exec.
- Start-up (`main.c`, `start.c`, `entry.S`): straight-line code before there is a second
  actor. What it leaves is the initial states.
- Device registers (`device/`) beyond the uart's and the timer's interrupts, and
  console output.
- The string library, and programs other than sh, init and cat: single processes of
  straight-line calls, covered in so far as the models allow any sequence of calls.
- `kalloc.c`, which is not compiled.
- Within modelled parts: file offsets and file contents, the limit NINODE, the lock
  `I_BUSY` (nothing sleeps while holding it), and the exit of a killed process on its
  way to user mode, which a comment promises and `trap.c` does not have.
- A composition of `Inode` with `Log` for whole create and mkdir transactions:
  `TransactionFits` checks the chunks of a write only, and nothing here says that
  `bget` never runs out of its NBUF buffers.
