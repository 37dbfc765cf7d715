# A TLA+ verification of client_server

The repository is a C code base around moving files over UDP: a file sender
(client), a receiver (server), and the libraries a storage server is being built
from. This directory holds TLA+ modules that model those libraries, TLC
configurations that check them on small instances, and TLAPS proofs of the
central results for instances of every size.

## 1. Inventory

### Parts, state and operations

| Part | Source | State | Operations |
|---|---|---|---|
| Buddy allocator | `BUDDY_ALLOCATOR/src/buddy_allocator.c` | array of block descriptors (`is_active`, `is_allocated`, `next`, `prev`), one free-list head per level | create, destroy, allocate, free, getters |
| Id pool | `INFRA/src/id_pool.c` | stack of free ids, `top`, a flag per id | create, destroy, allocate, free, used count |
| Client manager | `CLIENTS_MANAGER/src/client_mngr.c` | an id pool of clients; per client a flag, an id pool of files, a row of `file_data` cells | create, destroy, client allocate/free, file allocate/free, set/get context, get size |
| Storage manager | `STORAGE_MANAGER/src/store_mngr.c` | a buddy allocator and a file | create, destroy, block alloc/free/write/read |
| Ram file control | `CLIENT_SERVER/src/ram_file_ctrl.c` | an open `FILE`, its path and size limit | create, destroy, read, write, exist, size |
| UDP server | `CLIENT_SERVER/src/net_server.c` | socket, receive thread, atomic run flag, callback | create, start, stop, destroy; the receive loop |
| UDP client | `CLIENT_SERVER/src/net_client.c` | socket, server address | create, send, destroy |
| Receiver application | `APPS/FILE_SENDER_SERVER_APP/file_sender_server.c` | file, server, `stop_requested` | set-up, signal handler, callback, wait, tear-down |
| Sender application | `APPS/FILE_SENDER_CLIENT_APP/file_sender_client.c` | file, client, offset | the chunk loop |
| File creator, stack, logging | `APPS/FILE_CREATOR_APP`, `STACK`, `INFRA/src/infra_log.c` | none worth a model | I/O, push/pop, printing |

### How they interact

The storage manager calls the buddy allocator for a range and reads and writes
the file at the range's offset. The client manager calls id pools, one for
clients and one per client. The receiver application creates a file and a UDP
server and passes the server a callback, which the server's receive thread runs
and which writes each datagram's chunk at the offset it carries; the main thread
waits for a signal and tears down. Sender and receiver share only the datagram
format (`APPS/FILE_TRANSFER_INFRA/file_transfer_protocol.h`).

### Where it is hard, and what makes each part correct

* **Buddy allocator.** Sequential (no lock, no thread), but its state is a tree
  kept in flags and intrusive lists, edited by loops over several levels. What
  goes wrong shows many calls later. Correct: handles never overlap, no byte is
  lost, free buddies are always merged, the lists hold exactly the free blocks,
  an error changes nothing, and a request is refused only if there is no room.
  Its arithmetic (power-of-two rounding, levels, XOR buddies, slots) has edges
  at zero, at the smallest block and at the top of the word.
* **Id pool.** Correct: an id is never held twice, none is lost, and what is
  held can be given back, whatever is passed to free. Edge: the top of the word.
* **Client manager.** Several pieces of state per call, changed before the pool
  has accepted the id. Correct: flags, pools and contexts agree; no client
  inherits files from the former owner of its id; each call changes the client
  and file it names and answers an error only if it is true of them.
* **Storage manager.** Sequential, but what a caller sees depends on two parts
  that know nothing of each other: the allocator decides where a block lies, the
  file keeps what lay there before. A write may fail halfway, a creation after
  its first half, and a process that dies leaves `./storage.bin` behind for the
  next. The offsets callers give are bounded by the pool, not by the block, and
  only after a sum that wraps. Correct: what is read from a block is what its
  holder last wrote to it; nobody who stays inside another block interferes; no
  block is lost when a call fails.
* **UDP server and receiver application.** Threads: receive loop, caller of
  stop/destroy, signal handler. Correct: no use after free, a stop ends, a
  signal ends the process.
* **File transfer.** Datagrams are lost, duplicated and reordered, several
  senders and other programs use one port, the receiver stops and starts again
  and opens its file without truncating it, a sender's file changes between the
  query of its size and the reads. Sums of offset and size can wrap. Correct:
  each byte received was sent for that offset or was there before; a transfer
  of which everything arrived is complete; every sender ends.

`PROJECT.json` lists the hazards line by line, with the properties that cover
them or the reason none does yet.

## 2. Plan

1. *Done:* `BuddyAllocator` with its abstract specification `RegionAllocator`,
   `BuddyCreate`, `IdPoolData`/`IdPool`, `ClientManager`, `NetServer` and
   `ServerApp`; proofs in `BuddyProofs` and `ServerAppProofs`.
2. *Done:* `StoreManager`, composing the allocator with a model of the file
   (`RamFile`), its abstract specification `BlockStore` and the refinement,
   proved in `StoreProofs`.
3. *Done:* `FileTransfer`: sender loops, the network, the callback, with the
   theorems of `TransferProofs`.
4. *Done:* the theorems of the id pool and the client manager (`IdPoolDataProofs`,
   `IdPoolProofs`, `ClientManagerProofs`).
5. *Done:* the theorem that the allocator implements `RegionAllocator`, the free
   lists as sequences, the arithmetic of `BuddyCreate` for every width
   (`BuddyCreateProofs`), and `ClientRegistry`, the abstract specification of the
   client manager, with its refinement.
6. *Left:* the addresses of descriptors in `BuddyCreate`, whose product wraps from
   28 levels on; file operations for clients that nobody holds in `ClientManager`.

## 3. Modules

| Module | What it is |
|---|---|
| `BuddyAllocator` | The allocator's operations on flags and lists |
| `RegionAllocator` | What a caller is promised: disjoint aligned ranges |
| `MCBuddyAllocator` | Four levels, requests on both sides of each size |
| `BuddyCreate`, `MCBuddyCreate` | Configuration checks, the heap objects of `buddy_alloc_create`, bit arithmetic in words of `W` bits |
| `IdPoolData`, `IdPool` | `struct id_pool_t` and its operations; the pool as a specification |
| `ClientManager` | The client manager, using `IdPoolData` |
| `ClientRegistry` | What a caller of it is promised: clients and their files |
| `MCClientManager` | Two clients of two files, one client outside the region of cells |
| `NetServer` | The UDP server's object, flag and receive thread |
| `ServerApp` | The receiver application: main thread, `NetServer`'s thread, signal handler |
| `RamFile` | The backing file: the checks, seeks, reads and writes of `ram_file_ctrl.c` as operators |
| `StoreManager` | The storage manager: `BuddyAllocator` and a file, with deaths of the process |
| `BlockStore` | What a caller of the store is promised: a memory per block |
| `MCStoreManager` | A pool of four bytes in three levels |
| `FileTransfer` | Senders, network and the receiver's callback, on `RamFile` |
| `MCFileTransfer` | Two senders and datagrams of other programs |
| `BuddyProofs` | The geometry of the buddy tree, the allocator's inductive invariant and theorems, its refinement of `RegionAllocator` |
| `BuddyCreateProofs` | Powers of two, bits, and the theorems of `BuddyCreate` |
| `ServerAppProofs` | The same for the receiver application |
| `StoreProofs` | The store keeps what is written and implements `BlockStore` |
| `TransferProofs` | What arrives is what was sent |
| `IdPoolDataProofs` | Lemmas on the operations of a pool |
| `IdPoolProofs`, `ClientManagerProofs` | The id pool and the client manager |

### BuddyAllocator

A descriptor is named by `<<level, offset>>`; `SlotsOneToOne` of `BuddyCreate`
justifies that (the array index is a bijection). `is_active`, `is_allocated`,
`next`, `prev` and `head` are the C fields; `handles` is a history of what the
callers hold, and `call` of the last call and its argument, which the promise of
`RegionAllocator` speaks of. Since no call can be interrupted, each call is one
step, and each loop is written in closed form:

* `split_block_down` creates one block per level in `SplitLevels`, in order,
  stopping where `create_new_block` would refuse an active descriptor; what was
  done before stays done, as in the code.
* `buddy_alloc_free(b, level)` takes the level at which the merge loop stops:
  `MergesUpTo` says every buddy below it was free and the one there is not.
  `Enclosing(b, level)` is the block reached by keeping the smaller offset.
* A call touches the list of each level at most once, so its list surgery is a
  pair of functions, `out` (the block unlinked per level) and `in` (the block
  put at the head), from which `Relink` computes all links.

In `RegionAllocator` every call has its argument, and its answer follows from that
argument and the ranges held: `Allocate(size)` succeeds with one of the aligned
ranges of the rounded size that is apart from all held ones, answers `-ENFILE` only
if there is none and `-EINVAL` only if no level has the size, and `Free(r)` removes
`r`. The refinement maps `handles` to ranges and `call` to the same call on ranges.

Callers free only handles they hold; a second free is a caller error that the
code does not detect. NULL arguments, which every function refuses at once, are
left out. `CreateOutOfMemory` is any of the failed callocs of create, whose
detail is in `BuddyCreate`.

### BuddyCreate

One action per calloc and one for the `fail` label, so each failure point is a
behaviour. `double_free` records that an object already freed is read or freed.
The arithmetic is that of the C code on words of `W` bits with `% 2^W` where C
wraps. `Power[k]` is `1 << k`. A word is also the set of its bits (`Bits`), and
`&`, `|`, `^` and `>>` are what they do to such sets; `WordOf` is the word with
given bits. `next_pow2` spreads the bits in `Rounds` rounds whose shifts double
(five in the code: 1, 2, 4, 8, 16), and loops are recursive functions. `Request` is
the head of `buddy_alloc_allocate` up to the level.

### IdPoolData and IdPool

The pool is a record with the C fields. `M` is the number of values of a
`uint32_t`: sums and differences are taken `% M`, which puts the wrap-around
where TLC can reach it. `IdPool` offers any word to `id_pool_free`. The count of
`id_pool_get_used_id_count` is copied to an `int` (`AsInt`), and a negative one is
answered with `-EINVAL`; from half the word on there is no count, which
`client_mngr_free` takes for files that are left.

### ClientManager

`client_mngr_create` allocates `files_capacity` cells, but client `c`'s row
starts at `c * max_files` (see Findings). A read of a cell outside the region is
a choice among all contexts and NULL, a write there is not kept; damage to other
heap objects is not modelled. Callers use file operations for clients they hold
or for ids out of range, and set contexts on files they have; everything else
(freeing twice, freeing what was never allocated) is allowed.

`ClientRegistry` is what callers are promised: a set of clients, for each of them a
set of files, and for each file a size and a context. `call` and `out` are the last
call with its arguments and what it handed out, so that each answer is tied to the
client and the file named: `-EACCES` is answered only if that client has files,
`-EALREADY` only if nobody holds that id, `-EPERM` only if that file has a context.
`ClientManager` maps `clients` to the clients whose `in_use` is set, `files` to the
ids that each file pool has handed out, and sizes and contexts to the cells of the
clients in `Kept`, whose rows lie in the region. For the others the promise is as
weak as the code: what lies in a cell outside the region is anybody's guess, so any
context or size may be read there and `file_free` may answer `-EPERM` or not.

### NetServer and ServerApp

`NetServer` has the state of `net_server_t` (whether the object is allocated, its
socket open, the atomic flag set), the place of the receive thread, and the
operations as actions on them. `ServerApp` adds `main`, the program counter of
the main thread, with one step for each point at which another thread or a signal
can come between: in particular the test of `stop_requested` and the call of
`pause` are two steps, and `net_server_stop` is three (clear the flag, sleep,
join). Every step of the set-up can fail; `net_server` says that the
application's pointer is not NULL, which after a failure is not the same as
`allocated`. `misuse` records an access to a freed object; what a freed flag
reads as is a choice, and the second free of an object may abort the process.
`recvfrom` returns with bytes, without (nothing or time-out), or with an error;
what the datagram holds does not matter here. A signal is pending until a thread
in `Handlers` runs the handler, which makes `pause` and `sleep` return in main and
`recvfrom` return EINTR in the receive thread. Signals before the handlers are
registered kill the process and are left out.

### RamFile

A file is a record: whether it exists, its size, its bytes. `Checked` is the
order of the refusals in `ram_file_read` and `ram_file_write`: length zero,
`offset + data_size` (a sum of `size_t`, `AccessEnd`) above the limit, and
`fseek`, which takes a `long` and so refuses the upper half of the offsets.
`Written` with the number of bytes that got there stands for a whole write and
for one that failed in `fwrite` or `fflush`. `ram_file_create` leaves a file that
exists as it is ("rb+"), else makes an empty one ("wb+").

### StoreManager and BlockStore

`StoreManager` EXTENDS `BuddyAllocator`: the allocator's variables are the
store's, and its actions are conjuncts of the store's, so nothing of the allocator
is abstracted away or modelled twice. `store_mngr_create` is two steps, since the
file is opened after the allocator exists and `fail` then has to release it; it is
called with legal and illegal configurations. `Crash` is the death of the process
between calls; what a write of a dead process leaves in the file is covered by
writes that fail halfway. Reads and writes name any block held and any offset of a
`uint32_t`: inside the block, past its end, past the end of the pool, and so far
past it that `total_offset` wraps to another block. `contents` is a history
variable: per handle, what its holder wrote, `Any` where it wrote nothing, a write
failed, or a write that left its block has hit it (`Overrun`). Sums of `uint32_t`
and of `size_t` wrap at `Uint32` and `SizeT`.

`BlockStore` has no allocator, no place of a block and no file: each block is a
memory. `request` is the last call with its arguments. A read inside a block returns
that block's bytes from that offset on, a write changes them and no others, an
allocation returns a block that meets none that is held and is refused for want of
space only if there is none, and a free frees the block named. A write that leaves
its block is refused or may turn bytes into `Any`, and a read that leaves it may
find anything: that is all the code gives. The refinement maps `held` to `handles`
and leaves the other variables as they are; that it holds is the isolation of the
blocks.

### FileTransfer

Each sender is a program counter with the locals of `main`, one step per call
that can fail or sees the file: `stat`, open, `net_client_create`, and the loop
of read and send. The byte at offset `o` of sender `s` is `<<s, o>>`, so a byte
in the wrong place or of the wrong file is visible. `net` is the set of all
datagrams ever sent, from which the callback may take any at any time: loss,
duplication, reordering and any delay, across restarts of the receiver, are
behaviours. `Strays` are datagrams of other programs. Other programs may shorten
or remove a sender's file at any time; that `stdio` may have buffered bytes that
were cut off is the behaviour in which they were cut off later. The receiver
starts and stops (or dies) at any time and keeps its file; how it does either is
the matter of `ServerApp`, which leaves out the data. `written`, `torn` and
`initial` are history variables of what the receiver has written, of which
writes have failed, and of what its file held before.

## 4. Runs

All behaviours are unbounded in length; the bounds are the constants.

| Run | Checks | Instance |
|---|---|---|
| `buddy` | `NoOverlap`, `NoLeak`, `Coalesced`, `HandlesExact`, `FreeListsExact`, `WholeAgain`, `IndInv`, `FailureAtomic`, `ImplementsRegions` | 4 levels, 8 units, requests {0, 1, 2, 3, 5, 9} |
| `buddy_create` | `GeometryExact`, `SlotsOneToOne`, `BuddiesPair`, `LevelServes`, `NothingLeaked` | `W = 6`, three rounds; 16 configuration values in both places, every request |
| `id_pool` | `NeverHandedOutTwice`, `StackExact`, `FlagsExact`, `CountExact`, `HeldCanBeFreed` | `M = 8`, 5 ids from 2 on |
| `client_mngr` | `InUseExact`, `NoFilesWithoutClient`, `NoOrphanContext`, `ImplementsRegistry` | 2 clients, 2 files each, sizes {1, 3}, one context, `M = 4` |
| `store` | `ReadYourWrites`, `ImplementsBlockStore`, `PastPoolRefused` | 3 levels, 4 bytes, requests {0, 1, 2, 4}, lengths {0, 1, 2}, two values; 8 values of a `uint32_t`, 64 of a `size_t` |
| `transfer` | `FileExact`, `Transferred`, `SendersEnd` | two senders, files of {0, 3, 4} and of 1 byte, chunks of 2, limit 3, an old file of 4 bytes, 16 values of a `size_t`, three strays |
| `server_app` | `ReceiverSafe`, `CleanWhenStarted`, `NothingLeft`, `ShutdownCompletes` | up to 3 signals, either thread handling them |

Each also checks its module's `TypeOK`.

*Why the bounds suffice to be interesting.* Four levels is the geometry of the
repository's own test (4096 bytes, smallest block 512): splits of one, two and
three levels, merges that go on to the root and that stop at every level, lists
of up to four blocks with unlinking in the middle, a full and a fragmented pool.
The requests include zero, exact sizes, sizes rounded up and one above the pool.
The view of the run identifies states that differ only in links of descriptors
on no list and in `is_allocated` of inactive descriptors; the code overwrites
both before reading them, so no behaviour is lost. `W = 6` has the sizes 1 to 32,
all 21 legal configurations and the requests above 32, which wrap to zero; the
shifts 1, 2, 4 play the part of 1 to 16. `Offset + Capacity = M - 1` is the
largest legal pool that leaves the sum in range, one short of the failing case
of `id_pool_top_of_range`; with more than half of 8 ids in use their count is no
`int`, and so are two files of a client with `M = 4`. Two clients are the fewest of
which one lies outside the region, and two files the fewest of which one can be
freed while the other keeps its context.

The views of `buddy`, `client_mngr` and `store` also leave out the last call with
its arguments and what it handed out. No step reads these variables, and the action
properties, which TLC checks on every step whether or not it leads to a new state,
only speak of their new values.

Three signals are enough for one in the set-up or the wait, one that interrupts
the receive thread or the sleep of stop, and one left pending at the end; the
flag and the handler have no further memory.

For the store, three levels give splits, merges and blocks of every size next to
each other, and a pool whose bytes stay in the file over frees, destroys and
deaths; one of the two values is the one that fills holes. Eight values of a
`uint32_t` over a pool of four are offsets and ends inside a block, past it, past
the pool, and past the word from every block but the first. For the transfer, the first sender's file is a full and a short chunk, exactly at the
limit, or one byte beyond it; the second's chunk overlaps the first's; the old
file is longer than the limit. The strays are a datagram too short for a header,
one too long for the buffer, and one whose offset plus size wraps to a value
below the limit, which only the refusal of `fseek` keeps out.

*Fairness.* The libraries act only when called, and their properties are safety
properties without fairness. `ServerApp` assumes weak fairness of the main thread
and of the receive thread (both are runnable threads of one process, and
`recvfrom` returns within `SO_RCVTIMEO`, five seconds) and of the handling of a
pending signal. Nothing makes anybody send a signal or a datagram. `FileTransfer`
assumes weak fairness of each sender, none of whose calls waits for another
process; the network, the receiver and the programs that shorten files may do
anything or nothing. The deadlock
check is off for `ServerApp` only, since the process may end.

### Findings (runs that expect a violation)

| Run | What it shows |
|---|---|
| `buddy_create_failure` | If the block array cannot be allocated, `mem_pool_create` frees its pool and `buddy_alloc_create` destroys it again. |
| `id_pool_top_of_range` | With `capacity + id_start_offset` = 2^32 or more, every id handed out is refused by `id_pool_free`. |
| `server_signal` | A signal handled between `while (!stop_requested)` and `pause()` is lost, and main waits for ever. Linux's choice of the main thread as handler is enough for it. |
| `server_failed_setup` | After a failure in `net_server_create` or `net_server_start` the application's pointer still points to the freed server, and tear-down stops and frees it again. |
| `client_cells` | The region for `file_data` is sized for one client; the cells of the second lie outside it. |

Two more need no run of their own. The storage manager computes `total_offset` in
`uint32_t`: an access far enough past the end of the pool wraps, passes the file's
limit ("would exceed the allowed maximum file size") and is done in another block.
`PastPoolRefused` of the run `store` therefore excepts the sums that wrap, and the
theorem `WrappedAccepted` names the offset for every block but the first. And a pool
without room answers `-ENFILE`, while the
allocator's README, step 5 of the algorithm, says `-ENOMEM`. `RegionAllocator`
states the former, and `ImplementsRegions` of the run `buddy` shows it.

## 5. Proofs

`BuddyProofs` proves, for every number of levels, every doubling sequence of
block sizes and every set of requests (the assumptions `SizeAssumption`,
`RequestAssumption`, `NullAssumption` of `BuddyAllocator`; the first is what
`GeometryExact` shows of an accepted configuration):

| Theorem | Statement |
|---|---|
| `Invariance` | `Spec => []IndInv` |
| `TypeCorrect`, `HandlesNeverOverlap`, `PoolNeverLeaks`, `AlwaysCoalesced`, `FlagsTellHandles`, `PoolWholeAgain` | `[]` of `TypeOK`, `NoOverlap`, `NoLeak`, `Coalesced`, `HandlesExact`, `WholeAgain` |
| `FreeListsAlwaysExact` | `[]FreeListsExact` |
| `FailuresAreAtomic` | `Spec => FailureAtomic` |
| `RegionsImplemented` | `Spec => ImplementsRegions` |
| `FreeRangeMerged` | In a state of `IndInv`, a block-sized range without allocations meets a free block at least as large |

*The inductive invariant.* None of the properties is inductive alone. That a
merge creates a block where none is active needs that active blocks do not
overlap (`ActiveApart`) even when free; that it covers what it absorbed needs the
geometry. That the absorbed buddy can be unlinked without a trace needs `next`
and `prev` to be inverse among free blocks (`ListsLinked`), the heads to be free
and without predecessor (`HeadsFree`), and links never to lead to another level
(`LinksInLevel`), which is why the surgery of different levels does not
interfere. Linked in both directions, the free blocks of a level could still form
a cycle beside the list; `ListsOrdered` rules that out: they can be numbered so
that the head is the first and each block links to the next one. `HandlesExact`
ties the flags to the callers. `IndInv` is their conjunction with `NoLeak`, `Coalesced` and the state of a destroyed allocator;
the run `buddy` checks it too.

*The argument.* The lemmas on the geometry show that blocks are nested or disjoint
(`Nested`), that the buddies absorbed on the way to a level lie inside the
enclosing block (`AbsorbedInside`), that a block apart from all of them is apart
from it (`ApartFromMerged`), and the same for the halves of a split
(`SplitCovers`, `SplitApart`). `RelinkKeepsLists` proves once that list surgery
keeps the lists linked, and `RelinkKeepsOrder` that it keeps them ordered: a push
moves every position up by one, an unlink those behind the gap down by one. No list
is longer than the pool has smallest blocks (`ListLength`). `SplitEffect` and `FreeEffect` show that
`create_new_block` never meets an active descriptor, so the error branches are
dead and the steps have a simple form; `SplitInv` and `FreeInv` then go through
the conjuncts. `PoolWholeAgain` follows from `FreeRangeMerged`: the smallest
active block meeting an unallocated range, were it smaller than the range, would
have a buddy that is covered by free blocks, hence free, against `Coalesced`.

*The lists.* `Walk` is defined by recursion, but over a list in order it has a
solution that can be written down: the block at that position, then NULL
(`WalkInOrder`). `OrderedExact` reads `FreeListsExact` off it.

*The refinement.* Every call maps to the call of `RegionAllocator` with the same
argument (`CallIsPromised`). The level found for a request is the only one that
serves it (`OneLevel`), so the candidates are the blocks of that level
(`CandidateBlocks`). A block handed out is aligned (`RegionOfBlock`) and apart from the regions held, as
`ActiveApart` says and `HandOut` uses. For `-ENFILE`, were an aligned range of the
requested size available, `FreeRangeMerged` would give a free block at least as
large, and `FreeBlockListed` a list at its level or above that is not empty, which
the search had found empty (`NoSpaceIsTrue`).

`BuddyCreateProofs` proves, for every width of the words, every set of configured
sizes and every number of rounds that covers the width (`WidthAssumption`: the last
shift is half the width, and a word has no more bits than a pool may have levels,
32 against the `MAX_LEVELS` of 64):

| Theorem | Statement |
|---|---|
| `Invariance` | `Spec => []IndInv` |
| `TypeCorrect`, `GeometryAlwaysExact`, `SlotsAlwaysOneToOne`, `BuddiesAlwaysPair`, `LevelAlwaysServes`, `NothingEverLeaked` | `[]` of `TypeOK`, `GeometryExact`, `SlotsOneToOne`, `BuddiesPair`, `LevelServes`, `NothingLeaked` |

*The inductive invariant* says that the tree is one with a pool of `2^a` bytes and
smallest blocks of `2^b` (`Tree`, `Configured`), that only wrong configurations are
refused, what is on the heap at each point of create (`HeapInStep`), and
`LevelServes` for the last request.

*The argument.* A recursive definition only has the value it seems to have if a
function exists that satisfies it. For `Power` one is put together from its
beginnings (`DoublingExists`); for each loop of the code the closed form is shown
to satisfy the equations, and induction on the least counterexample
(`LeastElement`, `AllNaturals`) shows that nothing else does. A word is determined
by its bits (`BitsDetermine`), by halving until nothing is left.
`v & (v - 1)` is zero only for powers of two because below the highest bit of `v`
the two agree; rounds of doubling shifts fill every bit below the highest one
because after `n` rounds each bit has spread `2^n` places; and flipping one bit of
an offset adds or subtracts the block size (`FlipBit`). With that, levels, slots
and buddies are arithmetic of powers of two.

`ServerAppProofs` proves `Invariance`, `ReceiverAlwaysSafe`,
`AlwaysCleanWhenStarted` and `NothingEverLeft` (`[]` of `IndInv`, `ReceiverSafe`,
`CleanWhenStarted`, `NothingLeft` of `ServerApp`) for any number of signals and any
set of handling threads (`SignalAssumption`). `IndInv` there adds to the
properties what holds at each point of main: a failed set-up has left no server
and no thread (`FailedClean`), nothing runs before start (`NotStarted`), after a
successful set-up the flag is set until stop clears it, so stop does not return
early and the join is reached (`Serving`), and behind the join the thread is gone
(`TornDown`). `ServerTypeCorrect` is `[]TypeOK`.

`StoreProofs`, for every pool, every set of requests, lengths and values
(`StoreAssumption`, `SizeTAssumption` and the allocator's: the pool is below 2^32
and a `size_t` holds the sum of two offsets, which on the platforms of the code
it does):

| Theorem | Statement |
|---|---|
| `StoreTypeCorrect`, `WritesAreKept` | `[]` of `StoreTypeOK`, `ReadYourWrites` |
| `StoreRefines` | `StoreSpec => ImplementsBlockStore` |
| `PastPoolAlwaysRefused` | `StoreSpec => PastPoolRefused` |
| `WrappedAccepted` | Through every block but the first, an offset past the pool wraps to 0 and is accepted |
| `StoreHandsOutRegions` | `StoreSpec => ImplementsRegions` |

The lemma `AllocatorInStore` says that the store's steps are steps of the allocator
or leave it alone, which brings the allocator's `Invariance` and its refinement of
`RegionAllocator` into the store. The invariant is that `IndInv`, `StoreTypeOK` and
`ReadYourWrites`; `NoOverlap` is what makes a write inside one block invisible
through all others (`WriteInv`), a write outside it leaves nothing known of the
bytes it hits (`OverrunInv`), and that a free block is known to nobody (`Fresh`) is
what makes reallocation safe. The refinement then maps each call to the one with
the same arguments (`AllocStep`, `FreeStep`, `WriteStep`, `ReadStep`): inside its
block an access never wraps and never meets the limit of the file, a read returns
`contents` because `ReadYourWrites` says the file holds them, and an allocation that
finds no room rests on `NoSpaceIsTrue` of the allocator.

`TransferProofs`, for any senders, sources, sizes and strays
(`TransferAssumption`, `SizeTAssumption`):

| Theorem | Statement |
|---|---|
| `TransferTypeCorrect`, `ReceivedFileExact`, `FileTransferred` | `Spec =>` `[]` of `TypeOK`, `FileExact`, `Transferred` |

The invariant adds to them what a sender has sent by the time it reaches an
offset (`SendersInv`: every byte below it, in datagrams that carry the file's
bytes), that only accepted datagrams are in the histories (`OnlyAccepted`), and
that a file that is not there is empty (`AbsentEmpty`). `AcceptedEnd` is the
arithmetic core: an offset that `fseek` takes and a payload within the buffer
cannot wrap, so an accepted datagram ends within the limit, although the check of
the limit alone would let a wrapped sum pass.

`IdPoolProofs`, for every width of the word, capacity and first id
(`WordAssumption`, `ConfigAssumption`), ids that wrap around included:

| Theorem | Statement |
|---|---|
| `PoolTypeCorrect`, `FlagsAlwaysExact`, `CountAlwaysExact`, `StackAlwaysExact` | `[]` of `TypeOK`, `FlagsExact`, `CountExact`, `StackExact` |
| `IdsAreUnique` | `Spec => NeverHandedOutTwice` |
| `HeldIdsCanBeFreed` | `[]HeldCanBeFreed`, if `Offset + Capacity < M` |

The extra hypothesis of the last is exactly what `id_pool_top_of_range` shows to
be necessary. `PoolOK` of `IdPoolDataProofs` says what a pool in order is: the
entries below `top` are ids of free indices, all different, every free index is
among them, and `top` and the number of used indices add up to the capacity,
which is why a free never overruns the stack. `CountOf` is what the count answers:
that number if it is less than half the word, else `-EINVAL`. `NewPoolOK`, `AllocatedOK` and
`FreedOK` are stated for a pool, not for a specification, so both users cite
them.

`ClientManagerProofs` proves `ManagerTypeCorrect`, `FlagsAgree`,
`ClientsStartEmpty` and `FilesStartBare` (`[]` of `TypeOK`, `InUseExact`,
`NoFilesWithoutClient`, `NoOrphanContext`) for any number of clients and files,
from `PoolOK` of all pools. `Legal` shows that a pool whose ids start at 0 refuses
an id in range only if it is free: that is why a flag cleared too early was clear
already. `CountZero` turns the count that `client_mngr_free` looks at into the
absence of files, and `CellOwner` shows that a cell in the region belongs to one
file. The invariant has one more conjunct, `NoOrphanSize`: the size that
`client_mngr_file_free` clears before the pool refuses the id is zero already.
`RegistryImplemented` is `Spec => ImplementsRegistry`, one lemma for each call:
`-ENOENT` is answered only if all ids are taken because a free id is always on the
stack (`ExhaustedFull`), `-EACCES` only if there is a file (`CountNotZero`), and a
cell that is written shows on its file and no other (`StoreSeen`, from `KeptCells`
and `CellOwner`).

### Only model-checked

`ShutdownCompletes` and `SendersEnd`: liveness under fairness is out of the prover's
reach. Every other property of a passing run is proved for all values of the
constants that satisfy the named assumptions (`HeldCanBeFreed` under the hypothesis
of its theorem).

## 6. Not modelled

File creator (pure I/O), stack (unused by the rest, one assignment per operation)
and logging (no state that is read back) are left out for good. In the modelled
parts: NULL-argument checks, log output, byte counts of the allocations (two of
them can wrap, at sizes of gigabytes; see the hazards), double frees of buddy
handles, the exit of the receiver when no handler can be registered, the store's
own structs on the heap, and the paths of files: `ram_file_destroy` does not free
its copy of the path when `delete_files` is false (`ram_file_ctrl.c:94`), which both
applications set, and no module follows that string. The
receiver's life is in two modules: `ServerApp` has its threads, signals and
failures without the data, `FileTransfer` the data with starts and stops as
single steps.
