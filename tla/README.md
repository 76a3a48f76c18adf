# A TLA+ development for S3K

S3K is a capability-based separation kernel for RISC-V: processes get time,
memory, IPC channels and power over other processes only through capabilities,
which they derive, pass on and revoke. The repository holds the kernel
(`src/kernel`), the user libraries in C and Rust (`src/common`), an encrypting
FAT32 file server in Rust that runs on the kernel (`src/projects/fs`), and
nine tutorials, an exercise and three small projects in C, of which those on
disks bring a virtio driver and a copy of FatFs (`src/projects/tutorial.09.fs`).

This directory models these parts, checks the models with TLC on small
instances, and proves with TLAPS, for every instance, what the runs show of the
capability table, the processes, the scheduler and the encrypted disk.
`PROJECT.json` lists components, runs, mutants, the correspondence between
definitions and source lines, findings, hazards and theorems.

## The system and its parts

### Kernel (`src/kernel/src`)

| Part | Source | State | Operations |
| --- | --- | --- | --- |
| Capability table | `cap_table.c` | slots with a descriptor and links of one ring | insert, delete, move |
| Capability operations | `cap_ops.c`, `cap_util.c` | marks and locks in the descriptors | move, delete, revoke, derive |
| PMP configuration | `cap_pmp.c`, `proc.c` | PMP table of a process; used/slot in the capability; registers of a hart | load, unload |
| Channels and sockets | `cap_ipc.c` | per channel: server, client, capability buffer | send, recv, sendrecv, clear |
| Processes | `proc.c` | registers, state word (BUSY, SUSPENDED, BLOCKED + channel), timeout | acquire, release, suspend, resume, ipc_wait, ipc_acquire |
| Monitors | `cap_monitor.c` | none of their own | suspend, resume, yield, state, registers, capabilities, PMP of another process |
| Traps and system calls | `trap.S`, `trap.c`, `interrupt.c`, `syscall.c` | registers | 25 system calls, timer interrupt |
| Exceptions | `exception.c` | six registers of the process | delegate, return |
| Scheduler | `sched.c` | table of slots: owner and remaining length, per hart | update, delete, fetch |
| Semaphore | `smp/semaphore.c` | tickets drawn and returned | acquire n, release n |
| Capability lock | `smp/taslock.c`, `cap_lock.c` | one word | acquire (may give up), release |

* Every hart runs the same loop: schedule a process, run it until it traps,
  handle the trap, go on with the same process, with another one, or with the
  scheduler. Interrupts are off in the kernel.
* Calls from `cap_move` on hold the *capability lock*, so the capability table,
  the channels and the PMP tables are changed by one hart at a time. Not under
  the lock: `sched_fetch` and its acquisition of a process, and the release of a
  process after the handler has returned and given the lock back. These meet
  the handlers of other harts in the state word of a process.
* `sched_update` and `sched_delete` are called from capability operations; they
  take all tickets of the semaphore, `sched_fetch` takes one.
* `cap_revoke` checks for a pending interrupt after each child and gives up;
  the caller has to call it again.
* IPC connects everything: a message moves a capability between processes,
  gives the sender's time to the receiver (yield mode), blocks and wakes
  processes; deleting or revoking a socket unregisters endpoints.

### Programs

| Part | Source | State | Operations |
| --- | --- | --- | --- |
| System calls of the libraries | `common/src/s3k/syscall.c`, `common/rust/src/syscall.rs` | none | one function per call, with a loop on ERR_PREEMPTED |
| Predicates and constructors of the C library | `common/src/s3k/s3k.c` | none | derivable, revokable, valid; descriptors, NAPOT encoding |
| Encrypted block device | `fsd/src/device/virtio_enc.rs` | mode, key, metadata sector and its copy in memory | read, write, enable, disable, unlock |
| TPM driver | `fsd/src/device/tpm/tpm.rs` | transient objects in the TPM | seal, unseal, random, flush |
| FAT32 | `fsd/src/fat32` | FAT, directories, inodes in memory | format, mount, create, grow, shrink, read, write, list |
| Requests | `fsd/src/main.rs`, `file.rs`, `inode.rs` | descriptor table | open, close, read, write, seek, ls, size, mkdir, encryption |
| FatFs | `tutorial.09.fs/app0/ff.c` | window, free count, file objects | mount, open, read, write, sync, close, lseek, truncate, unlink, mkdir, rename, stat, getfree, directory listing |
| Block driver | `tutorial.09.fs/app0/virtio_disk.c`, `diskio.c` | descriptors, available and used ring, used index | initialise, read, write, poll |
| Tutorials | `tutorial-commons/utils.h`, `main.c` of each | capability indices in locals; a file system object | set up a process, its time, a socket; serve; load a program |

A program enters the kernel only with `ecall` in a function of a library. The
file server receives requests on a socket and a page of shared memory; a client
waits for the answer before it writes again, so the server sees one request
at a time. Both file systems sit on a disk that writes a sector at a time; the
machine may lose power between two writes.

What is hard here: partial revocation interleaved with derivation; the
interplay of list order, ranges and marks, from which the code guesses who is
a child; copies of a capability's content in the schedule, the PMP tables and
the PMP registers; the state word, which is changed with atomic operations by
some and plain stores by others; timeouts and preemption that end a wait or a
call while an answer is on its way, and registers that are written while their
process is not looking; in the file systems the order of writes, a disk that
gets full, caches in memory that must agree with the disk, and failures half
way through switching the encryption.

What makes each part correct:

* table: one ring that holds exactly the capabilities in the table;
* operations: no resource held twice, revocation complete and precise, memory
  that is not shared is private;
* PMP and schedule: they say what the capabilities say, and the harts follow;
* sockets: one server per channel, a receiver has a buffer, a lost socket
  leaves nobody registered, messages and capabilities arrive;
* processes: on one hart at most; a suspended process is still; nobody who can
  run is forgotten; registers are as the calling convention says;
* system calls: done once or refused, also when preempted and repeated; they
  come to an end;
* scheduler: a process runs in its own slots and in all of them that it can use;
* semaphore: readers/writer exclusion without starvation;
* libraries: they foresee what the kernel does;
* encrypted disk: what was written is read, and the key survives a reset;
* block driver: a call returns when the device is done with its request;
* tutorials: no call that the set-up relies on is refused, no access faults, and
  a program is overwritten only while nobody runs it;
* file systems: chains are disjoint and end, files show their own data,
  finished requests survive a reset, memory agrees with the disk, clusters are
  not lost, listings are complete.

## Modules

| Module | What it is |
| --- | --- |
| `CapTypes` | descriptors, constructors, `cap_is_valid` |
| `CapOps` | the capability table and every operation on it, with schedule, PMP tables and channels |
| `CapSafety` | properties of `CapOps` |
| `CapTree` | the invariant of the list: how the derivation tree lies in it |
| `S3kLib` | the predicates of the C library, and what they say of `CapOps` |
| `CapProofs` | typing, buffer safety; PMP tables follow the capabilities |
| `TreeProofs` | the list, exclusive ownership, revocation, private memory; the schedule follows the time capabilities; lost sockets; the library foresees the kernel |
| `ProcIpc` | harts, processes, lock, monitor and socket calls at the grain of atomic accesses; with its properties |
| `ProcProofs` | one hart per process; waiting servers and clients |
| `S3kCalls`, `S3kRust` | the system calls as the C and the Rust library make them |
| `S3kCaps` | the constructors of the C library |
| `Abi` | what the kernel and the C library declare each on its own and have to agree on |
| `Syscalls` | composition: trap path, all system calls, monitor calls and exceptions, on top of `CapOps`, and the repetition of calls in the libraries |
| `Programs` | programs that call the libraries, on `Syscalls`; with its properties |
| `SysProofs` | the whole system implements `CapOps`; registers, answers and messages of any programs |
| `Virtio` | the block driver of the tutorials and its device; with its property |
| `Tutorials` | the tutorials, the exercise and the small projects as programs on `Syscalls` and `Virtio`; with their properties |
| `VirtioProofs` | a call of the block driver that returns was answered, and left nothing behind |
| `Sched` | slot table, choice of hart and process, end of slices; with its properties |
| `SchedProofs` | slices stay whole; processes run in their own slots |
| `SchedLock` | abstract readers/writer lock |
| `Semaphore` | the ticket semaphore, which implements `SchedLock` |
| `SemaphoreProofs` | its invariant, exclusion, and the refinement |
| `EncDisk` | encrypted block device, TPM, start-up and encryption requests of the file server; with its properties and their invariant |
| `EncDiskProofs` | what is stored is read back, the key is on the disk, no leak without a failure, no format of a disk in use |
| `Fat32` | FAT32 of the file server with inodes, descriptors and file requests |
| `FatFs` | FatFs of the tutorials |
| `MC*` | instances for TLC |

Operators that begin with the name of another one and are marked as mutants
change it the way a slip in the code would; no specification uses them.

### CapOps

The variables are the fields of the C data: `cap`, `next`, `prev` (the table;
a table slot is a pair of process and index, and a link is a table slot),
`slots` (schedule), `pmp` (PMP tables), `channels`. Four more variables are
history and no action depends on them: `after` (the entries behind an entry,
with the boot order as the start), `anc` (what a capability was derived from,
renamed by moves, with deleted ancestors removed), `root` (which boot
capability it goes back to) and `shrunk`.

An action is a system call's work on the table and has the name of the C
function. A refused call changes nothing. One iteration of the loop in
`cap_revoke` is one action; that covers every point at which it can be
preempted, and every other call can come in between. `revoke_done` says
whether the iteration would end the loop. Helpers (`cte_insert`, `cte_delete`,
`cte_move`, `sched_update`, `cap_ipc_move_hook`, ...) are the helpers of the
code.

Abstractions: a descriptor is a record and not 64 bits (the bit fields of the
variants that have `bgn`, `mrk` and `end` coincide, so `cap_is_valid` reading a
channel through `cap.mem` is reading the same fields); addresses count blocks
of 4 KiB and a NAPOT address is its decoded base and size; message data and
register contents are left out here (they are in `Syscalls`). Who may move or
map capabilities of another process is not a guard: the properties hold for
whoever does it. Whether `proc_ipc_acquire` gets the receiver is a choice.

`Platforms` is a set of boot tables INIT_CAPS, written as sequences: the unused
indices of a table (qemu_virt4 has 25 after 9) are closed up, the order is that
of the indices. `PlatformsAssumption` says what the four tables of the
repository have in common: capability 0 is a PMP region, all are valid and
within the configured slots and channels, and several for one resource are
ranges in increasing order (the memory of qemu_virt4 at `0x200b000` and, with
index 25, at `0x4000000`, is both under tag 0).

The list is a ring without a marked end: the code takes the head for a successor
of the tail. That does no harm as long as the two are capabilities to different
resources that go back to different boot capabilities (`Apart`). At boot the
head is the PMP region and the tail the main memory; an end goes to another boot
capability's tree only when all of the tree there is deleted. `shrunk` (history) is set when the
ends are no longer strangers, and most properties are about lists in which they
always were. What happens otherwise: on qemu_virt4 the two memory capabilities
under tag 0 can become the ends when those around them are deleted, and
revoking the one at the tail then deletes the other; and with a single
capability left, `cte_move` links it to the slot it has left.

### CapTree

The code keeps no tree. It inserts a new capability right behind its parent, and
a revocation deletes what follows as long as its range looks like that of a
child. `TreeInv` says why this works. It sees a capability as an interval of its
resource (`View`: time by slots, memory and PMP regions by address, a socket as
one channel), of which the part below the mark is passed on.
`after` is a linear order that the links close to a ring; the descendants of an
entry follow it without a gap, are of a kind that can be derived from it and lie
in what it has passed on (or, for a PMP region, in what it has locked); and
whatever follows an entry without being its descendant lies *below* it if it is
to the same thing: later derivations have higher ranges and come first.

### S3kLib

The predicates as they are written in `s3k.c`, evaluated on the descriptors of
`CapOps`. `LibraryForesees` has two parts. `RevokeForeseen`: what was derived
from a capability, and what its revocation deletes, is what the library names.
`DeriveForeseen`: what the kernel lets a process derive is what the library
calls derivable, for the kinds on which the two agree. Like the others it is
about lists whose ends are strangers: in a table of a single capability that has
been moved, the parent is not what `prev` says. The rules are not the same
everywhere.
The library ignores the lock of a memory capability, compares new time with the
beginning and not with the mark of its parent, passes the size of a PMP region
in the place of its end, asks for tag 0 of a socket that is derived from a
channel, and does not look at the type in the predicate for sockets. (Two more
slips that touch no property: `util.h` declares three functions that nobody
defines, and its `s3k_is_blocked` looks for the channel at bit 32, while the
kernel puts it at bit 48, `proc.c:88`.)

### ProcIpc

`state[p]` is the state word as a set of flags, BLOCKED being the channel. Each
hart has a program counter: in the scheduler, between load and exchange of
`proc_acquire`, in user mode, waiting for the lock, in a handler, between the
two writes of `proc_suspend`, and about to release its process. A handler is
one step except for `proc_suspend`: it runs under the lock, and the accesses of
others without the lock are single atomic operations on the state word. Time is
abstract: a timeout is past, the end of the slice of some hart, later, or
never. The actions `timer` and `expire` let it pass. `Builds` are the sets of
harts that a configuration starts; `Init` picks one.

Assertions are not modelled as stops: the file server's configuration is built
with NDEBUG. `ReleaseAsserted` states the one in `proc_release`. Which capabilities a
process holds is fixed. `Suspends` says who uses its monitor to suspend whom,
`Senders` which clients only send and never wait for a message.

### Syscalls and Programs

What `CapOps` and `ProcIpc` leave out of each other is put together: registers,
state, capabilities, channels, PMP registers and the lock of two harts and two
processes whose programs are sequences of library calls (`Programs`; those of
`Tutorials` are others). `lib[p]` is the
library function that p is in; at the `ecall` its words are in the registers,
and behind it the result decides whether the library calls again. Each of the 25
calls has its validator (`syscall_refused` answers with its error), the lock,
and its handler. `handlers` executes a call; `syscall_preempted` answers one
that could not get the lock in time; `cap_revoke` is one iteration under the
lock; `sock_late` is a socket call whose time is up in `do_send`;
`interrupt_handler`, `exception_delegate` and `exception_trap_return` are the
other ways into the kernel. One entry into the kernel is one step: how such
steps interleave inside is `ProcIpc`.

Of the 39 registers the model keeps PC, SP, t0, a0 to a4 and the six of the
exceptions. A message has one of its four data words. A program counter is
three times the number of the call, plus where in the library function it is,
so that `+= 4` is plus one. `eff` and `mail` are history.

The libraries differ from each other: in the Rust library `s3k_sync` and
`s3k_sync_mem` pass each other's argument, `s3k_get_hartid` asks for the time
and `s3k_get_time` for the end of the time slice, and `s3k_cap_read` returns a
local variable that nobody writes. `handle_sync` leaves the number of the call
in t0, which both libraries ignore. They are modelled as they are, and the
file server's way of waiting (`main.rs:617`, `main.rs:648`) uses the Rust
functions.

`AnsweredOnce` counts what a call does to capabilities and what it delivers. A
refused call may still have touched a channel: the reply of a server takes the
waiting client off it (`cap_ipc.c:43`) before the acquisition of the client fails
and the answer is NO_RECEIVER (`cap_ipc.c:53`).

`CapsArrive` is about two processes. With a third one, a server that receives
again before it has replied makes its own buffer that of the channel, and a
later reply to the first client would move the capability into it.

### Virtio and Tutorials

`Virtio` has the driver's `disk` (free descriptors, the available ring, the used
index it has reached) and the device's side of the rings; indices of rings wrap
around (`IDX`), those of descriptors are below `NUM`. A call allocates three
descriptors, offers them, and polls; the device takes a request, does it and
reports it at any time, or reports an error. `disk_read` and `disk_write` of
`diskio.c` loop over sectors.

In `Tutorials` a program is a sequence of statements: system calls of the
library, accesses to a device or to shared memory, which fault when no PMP
register of the hart allows them, and file accesses, which go to the driver. The
trap handlers, the loops on errors, and the choice of the next free index
(`find_free_cap`, one step: only the process itself fills its table meanwhile)
are in the model; what is printed and computed is not. A message whose fields
the program has not set holds anything. Capability indices are renumbered for
two harts instead of four, and PMP regions are at least one block.

Seen on the way:

* `disk_read` and `disk_write` advance the buffer (`diskio.c:78`, `111`) and not
  the sector, although `count` is the "Number of sectors to read"
  (`diskio.c:64`): every piece of a longer read is the first sector, and a longer
  write puts every piece into the first sector. FatFs asks for several sectors
  when a read covers whole sectors, as that of the exercise does with 1024 bytes
  (`exercise/app0/main.c:76`). The model has the loop as it is. `DiskAnswers`
  therefore says what was transferred only for calls for one sector; of longer
  ones it says that every request was answered and left nothing behind, not that
  the program got what it asked for, which is not so.
* A request that fails is never taken off the used ring: `virtio_disk_intr`
  returns early (`virtio_disk.c:329`) and the call never returns.
* A file call after a failed mount initialises the driver again without
  resetting `used_idx`; the next request is then never seen to be done.
* The exercise leaves process 1 suspended for ever when the file it asked for
  cannot be opened. Programs of the tutorials 05 to 07, ping-pong and the
  exercise send messages with fields they never set. Ping-pong gives its time
  away before it resumes the other process. The UART's memory of the platform
  qemu_virt is too small for `setup_uart_and_virtio`.

### Sched

The table as in `sched.c`; time is counted in slots modulo the period. Between
reading the time and fetching a process a hart may wait for the semaphore
(`late`). Arguments of `sched_update` and `sched_delete` are those that
`CapOps` passes: a slice begins at `from`, and ends at `end`, where the slots
between `to` and `end` are already of the same slice.

### Semaphore

`acquired` and `released`, and for every hart its ticket. The counters are
naturals (2^64 acquisitions do not happen).

### EncDisk

Sector 0 (`meta`), the data sectors, and what the server has in memory: its
mode, the key, its copy of the metadata, whether the file system is mounted. A
sector holds a value in the clear or a ciphertext with its key and tweak;
decryption with another key or tweak gives junk. Requests are steps, except
that formatting and disabling, which write many sectors, take a step for every
write or batch. A device write fails or not, a TPM command fails or not, and
the machine may be reset at any step.

Assumed: a write that fails leaves its sector unchanged; a reset also resets
the TPM. Seen on the way, and not part of a property: `new` writes the magic
number before it zeroes the boot sector; a file request before the unlock
panics (`main.rs:108`); formatting writes the boot sector first, so that a reset
in the middle leaves a disk that looks formatted (`mod.rs:172`).

### Fat32

`fat` and `data` are the disk, `mem` the inodes that are loaded, by path. A
*unit* is what the device writes at once: a slot of a directory or a chunk of a
file. A request is a function on a record with the disk, the inodes and an
error, in which `hist` collects the disk before every write; its action ends
either with the answer (`Answer`) or with a reset after any of the writes
(`Cut`). `shadow` (history) is what requests that succeeded made of a file.

Left out or excluded: errors of the device; `unlink` and `movein`, which no
request calls; the O_APPEND flag and access modes, which the code does not
check. The code's limits are in the model: the last two clusters are not used,
a file of size 0 keeps a cluster, a directory that exactly fills its clusters
makes the end marker panic (`mod.rs:394`), a negative offset makes a write
panic, a mkdir that is not recursive creates the first missing directory of the
path (`main.rs:449`, though its comment says otherwise), and opening a path with
a missing directory that has the name of the file creates it there. Long names
of 12 or 13 characters modulo 13 are not found after a mount
(`dir.rs:220`-`225`): names of the model are not of that length.

Two failures of the code are outside what the properties claim.

* `Durable` says nothing of a file from a write on that succeeds after the growth
  of the file has stopped on a full disk (`TornGrowth`). When the disk is full half
  way, memory keeps the clusters that were pushed so far, while the size stays.
  The next growth links its new cluster behind the cluster in which the size ends
  (`inode.rs:191`-`203`), so that the chain on the disk leaves the old extra ones,
  and pushes it in memory behind them. A write then goes where memory says, is
  answered with success, and its data is in a cluster that no mount finds. TLC
  shows it when the exclusion is taken out of `handle_write`, with nine clusters,
  three descriptors, paths of one name and six requests; the run has too few
  requests to come to it. `MemAgrees` leaves out the same files.
* `ListsAll` is about answers of `ls` that a client can tell from the end. The
  comment at `main.rs:365` says "0 if no more entries", while the answer is the
  inode's number (`main.rs:390`), which is 0 for the root. `handle_ls` of the model
  keeps that number. In a directory further down than those of the root the property is literal:
  with the first 0, every entry has been shown. In the root (`.` and `..` are the
  root) and in a top-level directory (`..` is), a client that stops at the first 0
  sees no entry at all; the property there is about a client that takes the first
  two answers for entries whatever they are (`MeansEnd`). No program of the
  repository calls `ls`.

### FatFs

The configuration of `ffconf.h`: short names, one volume, no locks. Mounting
looks for a volume in sector 0 and in the partitions, and checks its parameters
(`bpb_fits`: the checks of `ff.c:3542`-`3591`, except for the numbers of clusters
that tell the FAT types apart; the boot sectors of the run pass them);
reads and writes transfer whole sectors past the buffer of the file, several at
a time, by the loop of `diskio.c`. That loop is wrong for several sectors (see
Virtio and Tutorials), so `ReadBack` is about what is transferred one sector at a
time. A call works
on a record like those of `Fat32`; in it are the *window* (the one sector
through which all metadata passes), the free count, and the FIL or DIR. `want`
is what the program made of a file, `safe` the files that are synced.

What is open is not opened for writing, removed or renamed by the program
(FF_FS_LOCK is 0: the code does not check), a directory is not moved below
itself, and a program that lists a directory does not work on files at the same
time (a bound of the model). Three calls are not safe against a reset at every
point: truncation frees clusters before the entry is written, a rename writes
the new entry before the old one is removed, and a directory that grows is
linked to a cluster before that is cleared (`ff.c:1806`). The model marks a
volume as `torn` when a reset hits such a point, and claims nothing of it from
then on.

## Runs

All runs use small constants.

| Run | Instance | Distinct states | Checks |
| --- | --- | --- | --- |
| `semaphore` | 3 harts | | `ImplementsLock`, `NoStarvation` |
| `sched` | 3 harts, 2 processes, 3 slots, 2 updates | 349 139 | `SlicesWhole`, `RunsInOwnSlot`, `OwnersRun` |
| `cap_time` | 2 processes with 3 table slots, 2 time slots, monitors | 129 031 | `OneRing`, `Exclusive`, `RevokesTree`, `ScheduleMatches` |
| `cap_share` | 2 processes with 3 table slots; 2 blocks with overlapping PMP requests, or 2 channels | 76 963 | `TypeOK`, `RevokesTree`, `PmpMatches`, `MemoryPrivate`, `ReceiverHasBuffer`, `SocketLossUnregisters`, `LibraryForesees` |
| `proc` | 3 processes, 2 channels (one of each mode), 1 or 2 harts | 1 079 816 | `OneHart`, `WaitingServerReady`, `ClientNotForgotten` |
| `proc_race` | 2 harts, everybody may be suspended | | violation of `ReleaseAsserted` |
| `syscall` | 2 harts, 2 processes with 9 table slots, programs of 23 and 2 calls | 56 326 | `RegistersKept`, `AnsweredOnce`, `MessageIntact`, `CapsArrive`, `CallsReturn`, `RevokedGoes` |
| `enc_disk` | 3 sectors, batches of 2, 2 TPM slots, 2 PINs, 3 failures, 2 resets | 193 666 | `ReadBack`, `KeyIsOnDisk`, `LeakNeedsFailure`, `FormatsOnlyBlank` |
| `enc_disable` | 2 sectors, 1 PIN, 1 key, a formatted disk, no failures or resets | | violation of `DisableKeepsData` |
| `fat32` | 4 clusters of 3 units, 2 names, paths of up to 3 names, 2 descriptors, 5 changes, 1 reset | 241 793 | `VolumeSound`, `NoForeignData`, `Durable`, `ListsAll` |
| `fatfs` | 6 clusters of 2 sectors of 2 units, FAT16 and FAT32, 2 files, 3 calls on files, 2 on paths, 1 reset | 324 252 | `VolumeSound`, `ReadBack`, `Durable`, `ListsAll` |
| `tutorials` | 2 harts, tables of 15 slots, 4 descriptors, ring indices modulo 8, 3 sectors, all 13 projects | 626 978 | `RunsClean`, `DiskAnswers`, `SwapsSafely` |

`VolumeSound` of the file systems is a conjunction of named parts, the ones a
checker of volumes would look at (`ChainsSound`, `NoLeak`, for Fat32 also
`MemAgrees`, for FatFs `CountsRight` and `CursorInChain`) and the types of the variables. The invariant
`TicketInv` of the semaphore and `WriterAlone` are theorems; the run has the
refinement, which implies exclusion.

Deadlock checking is off where the system may stop: in `CapOps` when every
capability is deleted, in `ProcIpc` and `Syscalls` when all processes wait or
are suspended or their programs are at an end, in the file systems when the
number of requests is used up.

Why the bounds are enough.

* `cap_*`: five or six table slots hold a boot capability of another kind and a
  tree of three or four, which is what the order arguments need: parent, child,
  grandchild and sibling, with one free slot to move through. Two blocks or
  slots allow a derivation that leaves a rest and one that does not.
* `proc`: two harts and three processes are needed for a process to be acquired
  by one hart, while another hart suspends or answers it, and a third party
  runs; the harts have no way of telling three from two except the scheduler,
  whose theorem is for any number.
* `syscall`: the program sets a process up as the exercise does, gives it
  memory, time and a socket, serves it, suspends it and revokes what it gave;
  one of its steps is any of about 40 calls that are refused or only read, so
  that every validator answers with every error. Everything can be interrupted,
  preempted and repeated any number of times.
* `sched`: two updates of the schedule reach a tie, a longer and a shorter slice
  on any hart, and a table that changes under a running process. Three harts are
  needed: `sched_fetch` compares with the harts below it and, in a second loop
  (`sched.c:117`), with those above it except the last. With two harts the second
  loop is empty, only hart 1 ever defers, and no tie break could be wrong; with
  three, harts 0 and 1 can defer to each other (the mutant of `OwnersRun` lets them
  do it on a tie). In the run
  a hart comes at most a slot late to fetch (`FairSpec`); the theorem
  `TimeIsolation` is for any delay (`Spec`).
* `enc_disk`: three sectors make a full and a partial batch; two keys let a disk
  be enabled, disabled and enabled again; two resets and three failures let a
  recovery be interrupted too. The TPM is full after two failures.
* `fat32`: four clusters get full with a directory and a file of two clusters;
  the names take two and three slots, so that an entry crosses a cluster. The
  longer of the two buffers takes three clusters, so that growth can stop half
  way on the full disk; paths of three names reach directories whose whole
  listing is shown (see Fat32, `ListsAll`).
* `tutorials`: every project as it is. Four descriptors hold one request and
  the rest that a second would need; eight ring indices wrap around within the
  requests of a file access. The third sector lets the exercise read two that are
  neither the same nor the boot sector.
* `fatfs`: the root directory is full at the start, so that creating a file
  stretches it (FAT32) or fails (FAT16); offsets lie on, before and behind
  sector and cluster boundaries; the FAT has three sectors, so that the window
  moves within a chain.

The runs of `CapOps` use a `VIEW` that identifies states which differ by a
renaming of the table slots of a process, in links of empty slots (never read),
or after its ends have met (nothing is claimed there). Slots of one process are
interchangeable: every operation may name any of them, and nothing depends on
the index but slot 0 at boot. The boot slot is not special after `Init`. The two
file objects of `fatfs` are symmetric.

Fairness.

* `Semaphore`: a hart goes on spinning and leaves the section (both are loops
  with interrupts off).
* `Sched` (`FairSpec`): time passes, and a hart leaves its process and tries the
  next within a slot: a slice ends `S3K_SCHED_TIME` before its last slot does.
* `Syscalls`: time passes (`expire`, and the timer of a hart, which its
  interrupt or the end of a revocation's iteration answers: weak fairness). A
  process that is ready again and again when a hart looks for one is scheduled
  again and again, which `OwnersRun` of `Sched` justifies for a process that
  owns a slot (strong fairness of `sched`). And a process that is at an
  instruction again and again executes it: a slice is longer than a system
  call. For the return into the program that is strong fairness of
  `user_return`; for calls, which are many actions, it is written out as
  `[]<>Calling(p) => []<><<Called(p)>>_allVars`, `Calling` being the condition
  under which `handlers` is enabled for p. What processes call is their own
  choice, without fairness; `CallsReturn` is about calls that have begun.

## Findings

* `proc_race` (`proc.c:73`): suspending a process in the window between the end
  of its socket call and its release clears BUSY too early; the assertion in
  `proc_release` fails, and a build without assertions leaves the process busy
  for ever or lets it run on two harts. The run `proc` has two harts only with
  the processes that wait for messages not suspended (one that only sends is);
  on one hart the window does not exist.
* `enc_disable` (`virtio_enc.rs:352`): `disable_encryption` decrypts each sector
  with its number on the disk as the tweak, while `write_block` encrypts it with
  the block number, which does not count the metadata sector. After a complete
  run, without any failure, the disk is marked as not encrypted and its data is
  junk. Nor does the server mount the file system anew afterwards.

Disagreements that have no run of their own:

* `cap_ops.c:224`: revoking a memory capability without a PMP capability of its
  own can delete a PMP capability of another memory capability at a higher
  address. Within the tree of a boot capability the deletion is right
  (`RevokesTree`).
* `cap_ipc.c:136`: a server that replies to nobody with its own socket stays
  registered without a socket. `SocketLossUnregisters` allows that process, and
  nobody else, to stay.
* `sched.c:117`: the comparison with higher harts leaves out the last, although
  the comment at `sched.c:115` is about all of them. The process still runs on
  one hart only, by its state word (`OneHart`, which therefore does not notice),
  but maybe on the one with the shorter slice.
* On several harts `ClientNotForgotten` does not hold: a server that replies
  while its client has not been released yet takes the client off the channel
  (`cap_ipc.c:43`), fails to acquire it, and a client without a timeout
  (NOYIELD) then waits for ever. The repository does not speak of this case.
  The invariant is stated for one hart.

## Proofs

* `SemaphoreProofs`. `TicketInv` is inductive: tickets of harts are disjoint
  intervals, and `released` is the number of returned tickets plus the size of
  the pool. Exclusion needs the counting part: a hart inside has a ticket below
  `released`, so all but a pool's worth of tickets before it are returned.
  Theorems: `TicketInvariant`, `WriterExclusion`, `Refinement` (the safety part
  of implementing `SchedLock`).
* `SchedProofs`. `TypeOK`, `SlicesWhole` and `RunsInOwnSlot` together are
  inductive. `SlicesWhole` is stated for all distances within a slice and not
  for neighbours: a late fetch jumps several slots at once, and going from
  neighbours to distances would be an induction. Theorems: `SlicesStayWhole`,
  `TimeIsolation`. They assume `SchedAssumption`: at most 255 slots and 256
  processes, the widths in the table's entry.
* `CapProofs`. `TypeOK` is not inductive: a slot's remaining length and a
  channel index are in range only if capabilities stay within the configured
  slots and channels (`AllBounded`), and a send stays in the table only if the
  channel has a buffer (`ReceiverHasBuffer`). The conjunction `TypeInv` is.
  Theorems: `TypeCorrect`, `BufferSafety`. `PmpMatches` is inductive relative to `TypeInv`; it needs its
  third part, that two capabilities of a process never use the same PMP slot,
  which holds because a load needs a free slot and every loss of a capability in
  use frees its slot. Theorem: `PmpCorrect`.
* `TreeProofs`. `TreeInv` (see CapTree) is inductive relative to `TypeInv`. Why
  each part is needed: `Exclusive` follows from the last, that what follows and
  is no descendant lies below, together with descendants lying in what is passed
  on. For that to survive a derivation, the new capability has to be above
  everything behind it, which is so because its parent's mark is; for it to
  survive a revocation, what is absorbed must have been a descendant, which is
  where contiguity comes in. That a victim is a descendant needs `Apart` at the
  end of the list. The steps are proved for any list, order and views (`OrderInsert`,
  `RingInsert`, `TreeInsert`, `RingDelete`, `TreeEmbeds`, `RingRenamed`,
  `TreeMarked`, `TreeAbsorb`): an operation is an insertion, a deletion, a
  renaming or a change of one mark. Theorems: `TreeInvariant`, `OneRingHolds`,
  `ExclusiveHolds`, `RevokesTreeHolds`, `MemoryPrivateHolds`.
* `TreeProofs`, second part. `SocketLossHolds` needs `TypeInv` only. For the schedule,
  `ScheduleMatches` is taken apart by slots: `Given` (a slot that a capability is
  for is its holder's) and `Covered` (a slot that runs somebody is somebody's).
  They are inductive relative to `Exclusive` in the state before *and* after the
  step: slots that a revocation hands back, or a deletion clears, must not be
  those of a third capability. At the start the schedule gives everything to
  process 0; that agrees with the capabilities where INIT_CAPS lists all time of
  all harts, which is the hypothesis `WholeTime` of `ScheduleMatchesHolds`. All
  four platforms satisfy it, and TLC evaluates it for `cap_time`.
  `LibraryForeseesHolds`: what the library says of revocations follows from
  `TreeInv` (descendants lie within), what it says of derivations from the
  handlers; that only a derivation adds a capability needs a count.
* `ProcProofs`. `ProcInv` adds to `OneHart` and `WaitingServerReady` what a hart
  in each phase knows (`HartSound`: which process it has, that the state it read
  was not busy) and what waiting processes are (`WaitersSound`). Theorems:
  `OneHartHolds`, `ReleaseAssertedHolds`, `WaitingServerReadyHolds`, for any
  harts, processes and channels, under `SafeSuspends`: where several harts run,
  nobody suspends a process that waits for messages. Without that hypothesis
  they are false, as `proc_race` shows. `ClientNotForgottenHolds` (`ClientInv`)
  is for builds with one hart, and also assumes `SoleClients`: no channel has
  two clients that wait for replies, because a channel has room for one. The
  instance of the run `proc` satisfies both.
* `SysProofs`. `SysInv` is inductive relative to `TypeInv`, for any number of
  harts, processes, channels and capabilities and any programs. It has a part
  for each process (`ProcInv`), by where its program counter is: at the `ecall`
  its registers are those of the call and nothing has happened yet (`EcallInv`);
  behind it all but the outputs are kept, the answer says what was done, and a
  message that arrived is in the registers (`RetInv`); in the trap handler the
  saved program counter and stack are those of the interrupted program; a
  process that waits is behind its call, with the answer it has if nobody sends.
  Around it, `HartsInv` (a process is on one hart, and not while it waits) and
  `LockInv` (the lock is kept between steps only for a `cap_revoke`). A step is
  taken by a hart on behalf of its process, with at most one other process as a
  party that runs nowhere; `StepKeeps` reduces it to those two, and each of the
  25 calls, the interrupts, exceptions and library steps has its lemma. The same
  case analysis shows that every step is an operation of `CapOps` or leaves its
  variables alone, so `SysSpec` implements `Spec` (`SystemImplementsCaps`), and
  what is proved of the table holds of the whole system (`SystemKeepsCaps`). The
  other theorems, `SystemInvariant`, `RegistersKeptHolds`, `AnsweredOnceHolds`
  and `MessageIntactHolds`, follow from the invariant. They assume
  `ProgramAssumption`: arguments of a call have the types of the library's
  functions (`sys_args_typed`), a program writes its own registers with a call
  only where the library does not use them, and sets of another process where it
  starts or its virtual registers (`writes_virtual`). All programs of the
  repository do so. And `NoneAssumption`: `NULL` is no hart and no channel.
* `VirtioProofs`. The driver and the device count requests on their own.
  `DriverInv` says for each phase of a call where the counts are, relative to the
  driver's `used_idx`, and what the descriptors and rings hold: all settled;
  offered and not seen; taken; answered; collected. One more case is needed. When
  a mount fails after its read, the next one starts the rings anew while the
  device goes on counting (`Behind`): its read is at an index the device has dealt
  with, and its status never becomes 0, so the call does not return. That the
  device meanwhile does not take the empty ring for a full one needs an index
  wider than the queue, `IDX > NUM` (65536 and 8 in the code), which the first
  form of the assumption did not say: with `IDX = NUM` the property is false.
  Theorems: `DriverInvariant`, `DiskAnswersHolds`, for any queue length, any
  number of sectors and whatever the programs do.
* `EncDiskProofs`. `EncDiskInv`: the disk agrees with what was stored
  (`DiskAgrees`: what a block is encrypted with is what the metadata seal), the
  memory with the disk in every phase of a request (`MemoryAgrees`), and the
  objects in the TPM are no more than the failures. Theorems: `Invariant`,
  `ReadBackHolds`, `KeyIsOnDiskHolds`, `LeakNeedsFailureHolds`,
  `FormatsOnlyBlankHolds`, for any number of blocks, keys, PINs, failures and
  resets, and whatever is on the disk at the start (`DisksAssumption` only gives
  its type).

The other assumptions are those named in the modules: sizes are positive, boot
capabilities are as described under CapOps, and `NULL` is no process. `AbiAgrees`
is not used by a proof. It justifies that the modules name system calls,
registers, answers and fields of capabilities instead of numbering them twice:
the declarations of the kernel and of the C library give the same numbers and bit
fields. TLC evaluates it in the run `tutorials`.

Four proof attempts corrected the model or a statement. `DeriveForeseen` was
claimed of all lists; it fails for a list of one capability. `shrunk` was first
about the number of boot capabilities that are left; the proof showed that what
matters is whether the two ends are strangers. And the size of a PMP region had
to be positive, which the encoding guarantees. The fourth is the width of the
ring indices, above.

Only model-checked:

* liveness (`NoStarvation`, `OwnersRun`, `CallsReturn`, `RevokedGoes`) is out of
  the prover's reach;
* `RunsClean` and `SwapsSafely` are about the thirteen programs and not about
  parameters: a proof would be an execution of each program by hand;
* `CapsArrive` is not true of all programs. The kernel ignores the result of the
  move (`cap_ipc.c:63`), so a capability stays with its sender when the receiver's
  buffer has been filled meanwhile, by a monitor or because the receiver's socket
  may not receive capabilities and its buffer was not looked at; and the buffer of
  a channel is that of whoever waited last. The run shows it for programs that
  keep their buffers free;
* `Fat32` and `FatFs` (`VolumeSound`, `NoForeignData`, `ReadBack`, `Durable`,
  `ListsAll`) compute chains and directories by folds and recursive functions over
  the disk, and a request is a fold of device writes. What these compute for every
  input needs induction over data.

## Not modelled

* Drivers of the UART and the clock, allocators, printing and the C library:
  access to devices and memory, and formatting.
* Kernel start-up beyond the state it leaves behind and the harts that come up
  late (`hart_start` of `ProcIpc`).
* Marshalling of TPM commands; the shared buffer of client and file server;
  the client program; the request for a file's size, which reads one field.
* FatFs: parsing of names and drive numbers, FAT12, options that are switched
  off. The exercise has an identical copy of it.

## What is left

1. An induction principle for the folds of `Fat32`, as a basis for the parts of
   `VolumeSound` that do not follow chains (the free count, the types).
2. A statement on capability transfer that holds of all programs: a capability
   that was sent is with the sender or in the buffer of the channel.
3. `ProcIpc` as a refinement of the grain of `Syscalls`: each entry into the kernel
   appears to happen at once.
