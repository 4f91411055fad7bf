# soOS in TLA+

A verification development for the soOS kernel: TLA+ modules translated from
its C source, TLC configurations that check them on small instances, and
proofs, checked by TLAPS, of what holds for every instance. Paths of source
files are relative to `src/`.

soOS is a small 32-bit kernel. After the boot sector has loaded it and switched
to protected mode, `main.c` initialises the console, segments, heap, file
system, disk, interrupts and paging in this order, opens `0:/hello.txt`, reads
seven bytes of it, prints them and stops. There is one thread. The only
concurrency is that of the interrupt handlers, which do not allocate and do not
use files, of the drive, which answers in its own time, and of the processor's
translation cache, which fills and empties as it likes. Everything on the path
from `fopen` to the disk therefore runs to completion once it is called, and what
is hard about it is not interleaving but long sequences of calls, memory that
runs out anywhere, and data on the disk that may be anything.

## 1. Inventory

| component | files | state | operations |
| --- | --- | --- | --- |
| heap | `mm/heap.c` | a table with a byte per 4096-byte block | `kmalloc`, `kfree` |
| file layer | `fs/vfs.c` | `file_descriptors`, `filesystems` | `fopen`, `fread`, `fstat`, `fclose` |
| path parser | `fs/path.c` | the linked parts of a path, on the heap | `parse`, `free_path` (unused) |
| FAT16 open and close | `fs/fat16/fat16.c` | items and FAT16 descriptors, on the heap | `fat16_open_file`, `fat16_close` |
| FAT16 directories | `fs/fat16/fat16.c` | the loaded root directory, loaded subdirectories | `resolve_fat16`, `get_total_entries`, `load_fat16_directory`, `find_item_in_root_directory` |
| FAT16 reading | `fs/fat16/fat16.c` | the file's offset; the allocation table, on the disk | `fat16_read_file` |
| disk | `disk/disk.c` | the position of each stream | `read_disk_sector`, `seek_disk_stream`, `read_disk_stream` |
| console | `lib/print.c` | video memory, the cursor in the VGA controller | `put_char`, `print`, `put_int` |
| interrupts | `int/`, `include/desc.h`, `head.S` | the IDT, two interrupt controllers | `int21h`, `ignore_int` |
| paging | `mm/page.c`, `mm/paging.S` | page directory and tables | `create_page_directory`, `set_paging` |
| segments, TSS | `gdt/`, `task/` | the GDT, the task register | `encode_gdt_entry`, `load_gdt`, `load_tss` |
| boot, main | `boot/`, `main.c` | none of their own | the order of initialisation |
| strings | `lib/string.c` | none | pure functions |

How they interact: the file layer calls the path parser, then FAT16 through the
table of function pointers of `struct filesystem`; FAT16 calls the disk streams,
of which it keeps three per disk, and all of them call the heap. Whatever a
caller gets from `kmalloc` it must test itself, and most callers do not. The
page tables come from the heap too. `put_char` is called by the kernel and by
the keyboard handler.

What makes each component correct, and what is hard about it:

* **heap** - no block in two hands, no block lost, first fit. `kfree` knows only
  the pointer; how far it goes depends on flags written by every allocation
  that was ever made around that block.
* **file layer** - a descriptor number stands for one open file from `fopen` to
  `fclose`, whatever happens in between; each failure inside `fopen`, which may
  allocate at eight or more places, leaves the tables and the heap consistent;
  no call hangs the kernel.
* **FAT16 directories** - a name that is on the disk is found and no other.
  Deleted entries, full directories, names that resemble each other, recycled
  memory.
* **FAT16 reading and disk** - the caller gets the bytes of its file, in order,
  no more than its buffer holds; every read ends, on a damaged table too.
  Mounting decides rightly whether a disk has a file system, and leaves what the
  other calls rely on; a drive that reports an error is never waited for.
* **console, interrupts** - output of the keyboard handler in the middle of
  output of the kernel; handlers that nest, although each means not to;
  acknowledgements that name no interrupt, so that one handler may give
  another's.
* **paging** - the tables say what was asked, also when there was no memory for
  some of them; what the processor remembers of them is another matter.
* **segments** - limits change their unit at 65536, and are packed in pieces.

The hazards, each at its line, with the properties that are about it, are in
`PROJECT.json`.

## 2. Modules

| module | models | is used by |
| --- | --- | --- |
| `BlockAllocator` | what the heap promises: an abstract allocator of runs of blocks | `Heap` |
| `Heap` | `mm/heap.c` | `MCHeap`, `HeapProofs` |
| `Vfs` | `fs/vfs.c`, `fs/path.c`, opening and closing in `fat16.c` | `MCVfs`, `VfsProofs` |
| `Fat16Dir` | directories in `fat16.c`, the comparison of `lib/string.c` | `MCFat16Dir`, `Fat16DirProofs` |
| `Fat16Read` | reading in `fat16.c`, `disk/disk.c` | `MCFat16Read`, `Fat16ReadProofs` |
| `Mount` | `resolve_fat16` in `fat16.c`, the drive of `disk/disk.c` | `MCMount`, `MountProofs` |
| `Console` | `lib/print.c`, the keyboard handler of `int/` | `MCConsole`, `ConsoleProofs` |
| `Interrupts` | `int/`, the interrupt controllers of `head.S` | `MCInterrupts`, `InterruptsProofs` |
| `AddressSpace` | what paging promises: pages, their translations, accesses | `Paging` |
| `Paging` | `mm/page.c`, `mm/paging.S`, the processor's translations | `MCPaging`, `TranslationProofs` |
| `Gdt` | `gdt/gdt_c.c`, and the processor's decoding of descriptors | `MCGdt`, `TranslationProofs` |
| `Measure` | nothing: the order of the measures that show a call to end | `Fat16Read`, `Mount` |
| `HeapProofs`, `VfsProofs`, `Fat16DirProofs`, `Fat16ReadProofs`, `MountProofs`, `ConsoleProofs`, `InterruptsProofs` | theorems about the modules they are named for | |
| `TranslationProofs` | theorems about the two modules of address translation, `Paging` and `Gdt` | |

An `MC` module gives the constants of its module values for TLC; the `.cfg`
files beside it name what is checked. Operators that bear the comment *mutant*
state a bug the code might have had; nothing uses them, and exchanging one for
the definition it precedes shows that a property notices.

### Heap

`entries` is the heap table, `pc` the function that runs, `i`, `bc` and `bs` are
the variables of the loops of the same names. `live` is not in the code: it
records, for each pointer a caller holds, how many blocks were marked for it.
Each loop iteration of `get_free_entry` and `set_blocks_free` is a step
(`SkipTaken`, `CountFree`, `EndOfTable`; `ReleaseBlock`, `ReleaseEnd`), so the
loops are checked and not assumed. `num_blocks` reads the condition of
`heap_malloc` as C does: `!size % HEAP_BLOCK_SIZE` is `(!size) % HEAP_BLOCK_SIZE`.
A request for 0 bytes therefore asks for 0 blocks, never meets the loop's break,
and is given the start of the run of free blocks at the end of the table; for it
`set_blocks_taken` also writes the entry before that start.

*Environment.* Callers free only what they were given, and once; a pointer below
the heap, as null is, makes the kernel hang (`BadFree`). Sizes are non-negative
ints. Writes outside the table go to memory the heap never reads.

*Checked.* `NoOverlap`, `ChainAgrees` (the flags delimit exactly each held
pointer's blocks), `NoLostBlock`, `FirstFit`; `ImplementsAllocator`, the
refinement of `BlockAllocator!Spec`, whose state is `live`; `OneBlockRequests`
(for requests of one block the heap is a set of free blocks, as which `Vfs` knows
it); `CallsReturn`. Run
`heap`: five blocks of two bytes, sizes for 0 to 4 blocks and for 6. Five blocks
are enough for free runs of every length between held ones and for runs at
either end of the table; the proofs make the bound immaterial.

What the refinement allows, on purpose: the loop may end at the end of the table
in a run that is too short, and the request is granted all the same, with blocks
behind the heap (`mm/heap.c:77`). No property suffers: blocks behind the table
are reachable only through the run at its end, which the marks then occupy. That
every whole multiple of the block size costs one block more than it needs,
although the comment at `mm/heap.c:116` means it not to, is in the definition of
`num_blocks`.

### Vfs

`fopen` is one step per allocation or path component, and each `kmalloc` may
fail once `free`, the number of free heap blocks, is exhausted. The heap is only
a number here because all requests of this layer fit one block: by theorem
`OneBlocks` of `HeapProofs` such a request takes exactly one free block, if
there is any, and freeing it gives exactly that one back. `path`, `rest` and
`parts` are the path given, still to be parsed, and linked so far; `item` and
`data` are what the walk and `open_file` have returned. `handles` is not in the
code: the descriptors handed out and not closed. `pc = "halted"` is the endless
loop of `heap_free` on a bad pointer, `pc = "waiting"` a read that never ends:
the driver polls for a sector that is not there, or a cluster size of 0 is
divided by. Any read of an open descriptor may end there (`fread_waits`), as
`Fat16Read` shows of a file whose chain ends with 0xFFFF, and so may the way
through a directory in `Damaged` (`directory_waits`), which may also turn out to
be unreadable. `pc = "wild"` is code that runs on a structure it reads through
address 0, or calls through a null pointer: the model stops there. A write
through address 0 changes nothing the model reads, except the index that `fopen`
reads back, which is modelled.

An empty part, at the end of a path or between two slashes in a row
(`AtEmptyPart`, `EMPTY`), is where `create_path_part` gives up and `parse` believes
the path to end: `0:/f//m` opens `f`, with memory to spare, and `0://f` names the
root.

*Environment.* Directories fit a cluster and a block. Names are distinguishable
to the lookup and directories have no deleted entries, where `Fat16Dir` shows
the lookup to be exact. Callers may pass any descriptor number; `-1` and
numbers behind the table are among those tried. Descriptor 0 reads the word
before the table, which is zero in the build. Files and directories form a tree
(`TreeAssumption`, `DisjointAssumption`).

*Checked.* While memory lasts: `HandlesOwnSlots` (slots in use and descriptors in
hand are the same), and `FopenReturns`, unless the path leads through a damaged
directory. Always: `OpenReflectsDisk`: the file behind a descriptor is one its
path passes, however the path was cut short - by a `kmalloc` that fails, or by two
slashes in a row, which is as the code spells paths and hardly as anybody means
them - and while memory lasts it is the file the path names up to its end or to
two slashes, with its entry, and none if that names no file. `SlotsAreStable`
(only `fclose` empties a slot, with both blocks of its descriptor; nothing
overwrites one), and `NothingFreedTwice` (blocks free or yet to be freed never grow
in number). Run `vfs`: three slots, twenty blocks, fourteen paths over
files at depth one and two, some with two slashes in a row, one through a damaged
directory. An `fopen` leaks five blocks for a file in the root,
nine for one in a directory, and three for a name that is not there; a
descriptor keeps two, or one without a file. That the blocks of a path are lost
is a defect - `free_path` (`fs/path.c:106`) is there to free them, and nobody calls
it - which the model has and no property asserts. Twenty blocks thus allow all slots
to be filled, a file between two other descriptors to be closed and its slot
taken again, and memory to run out at every allocation of the last `fopen`.

Run `vfs_data` refutes what a comment says of descriptors; see *Findings*. When
memory is out, `fopen` also returns the number of a descriptor it had no memory
for (`fs/vfs.c:75`): that is in `get_new_file_descriptor`, and the reason why
`HandlesOwnSlots` has its premise. That the descriptor of the last slot is
handed out but refused by every call (`fs/vfs.c:88` tests from 0, the numbers
count from 1) is in `get_file_descriptor`.

### Fat16Dir

`disk` holds the raw entries from the directory's first sector on, its own and
what lies behind them. `count_entry`, `skip_deleted` and `end_of_entries` are the
loop of `get_total_entries`; `get_root_dir` loads all raw entries, and
`load_fat16_directory` loads as many as were counted, along the chain of clusters.
The lookup is a step per entry. Its comparison is modelled byte by byte up to
`n + 1` bytes, `n` being `sizeof(name)`, that is, four: behind a shorter part it
sees what the block held before (`stale`, any bytes), behind a shorter name
zeros. Names are sequences of lower-cased characters of `base.ext`, which is what
`get_full_filename` builds in the compared bytes.

*Checked.* For directories with an empty entry behind the last, and parts that
are long enough and differ from other names within the compared bytes:
`FoundIsTheOne` and `MissedOnlyBehindDeleted`, which together say the lookup is
exact without deleted entries, and with `d` of them blind to at most the last
`d`. Always: `SearchIsInside`. Run `fat16_dir`: directories of
three entries with two more behind them, every content over three names, a
deleted and an empty entry; `n = 1`, so that names are shorter than, as long as
and longer than what is compared; what is behind a part may be NUL or the
continuation of another name. That names
with the same five characters are taken for each other, and that the count runs
on behind a full root directory (`~Terminated`), are the reasons for the
premises of the invariants.

### Fat16Read

A byte is the disk address it was copied from, so that a property can say the
right bytes arrive. `get_cluster_for_offset` is a step per cluster of the chain,
`read_disk_stream` a step per sector. The table `fat` is any function from the
clusters to clusters and marks; a cluster number outside the table makes
`get_entry` read any value of the same kind. Not among the values are numbers that
are neither a cluster of the disk, nor free, nor compared with, nor 0xFFFF, such as
1 and the bad mark 0xFFF7; nor does a file begin at cluster 0, as an empty one
does. Bytes copied from behind the sector buffer are
`Garbage`. A sector the disk does not have leaves the driver polling
(`pc = "waiting"`).

*Checked.* `BufferIsEnough`, `ReadAdvances` (each step of a read leaves less to
do: bytes, then what comes before the next byte is looked for, then clusters to
walk) and `FreadReturns` on every table, cyclic ones included; `ReadIsExact` and
`FailsOnlyPastEnd` for records that do not run over the end of a sector or
cluster they do not start at (`AllAligned`). Run `fat16_read`: three clusters of
two sectors of two bytes, all 7^3 tables, records of less than a sector up to
two clusters, up to three of them: every split a record can undergo occurs, over
chains that go forth, back and round. Two more runs refute comments. That the
descriptor's offset is never moved, and that a read that fails in a later record
returns 0, are in `read_done` and `chain_ends`.

### Console

`video` is the screen; `index`, `low` and `high` are the VGA controller's index
register and the two bytes of the cursor. Each context that prints, the kernel
and the keyboard handler, has its own `pc` and locals of `put_char`; a step is
one `inb` or `outb`, one row of `roll_up`, or the work of `put_char` between its
two uses of the ports, with which only the screen is shared. `before`, `whole`,
`torn` and `stray` are not in the code: where a call began, whether the handler
has entered since, whether it entered between two accesses that belong together,
and whether anything was written further behind the screen than the one cell
that `roll_up` clears there instead of the first of the last row.

*Environment.* The kernel prints any characters, and the handler enters at any
moment but once: `int21h_handler` never reads port 0x60, and without that the
keyboard controller raises no further interrupt. `ignore_int_handler` does not
print. Memory behind the screen is never read by the console. The cursor is two
bytes, and the screen with one row or one tab more is no larger than they count
to (`ByteAssumption`; the code has 2000 cells, and 65536 values).

*Checked.* `PutIsWhole`: a `put_char` that nothing interrupted does what `Put`,
its specification in one step, says, but for one cell, also inside the handler,
and also after the handler has torn a cursor update, as soon as the cursor is on
the screen again; `CursorReturns`: which takes one such call. `Put` is what the
characters are for, not what the code makes of them: its `Rolled` clears the row
that comes up. The first cell of that row, which the code leaves as it was
(`print.c:59` counts before it writes, although `print.c:52` means the screen to
move up one row), is the one `PutIsWhole` excepts (`Matches`): of that cell no
property says anything, since what should be said of it is false. `StraysOnlyWhenTorn`: a key
pressed during `roll_up`, or after the cursor was read and before it is set,
garbles the text but writes nowhere else, the cell behind the screen that every
`roll_up` clears apart; a key between the accesses to the two bytes can make the
kernel write outside the screen. `PutReturns`. Run `console`: two rows of three
cells, every control character and a printable one, `BYTE = 4` so that the
cursor needs both bytes and a torn one reaches values behind the screen; the
handler prints a character and a new line, as its message ends, so that it can
roll the screen up in the middle of the kernel's roll.

### Mount

`search_and_init_disk` down to the drive. A step is one command to the drive, its
answer, or the work of the kernel between two answers; `drive` is idle, busy,
ready or in error. Positions are counted in directory entries of 32 bytes, and an
entry in memory is the position it was read from, so that a property can say that
the root directory is what was loaded. `ports` splits a sector's number into the
four registers `read_disk_sector` writes, and `addressed` is what the drive makes
of them; `int` is the wrap-around of the int in `sector_to_address`. `live` is
what has been allocated and not freed.

*Environment.* The heap is the empty 100 MB of `main`, so no allocation fails.
The disk, of any size the registers can name, is the only drive (`Makefile:39`
gives one to the machine). It answers every command, but with an error if it has
no such sector, and so does it for the second drive, which a negative sector number
selects since `disk.c:26` does not mask its bits; `read_disk_sector`, polling only
for data, never sees an error. The volume's sectors
are of 512 bytes; the code does not look at the header's `bytes_per_sector`.

*Checked.* `MountedIsReadable`: there is a file system exactly if the disk is
signed as one; then its data, its streams, all of its root directory and no more
than the disk has, the count of its entries and, for a root directory of whole
sectors, the place of its clusters are what the other calls need. (Between,
`disk->filesystem` is set on a disk that is then refused, and its `data` is
freed: `resolve_fs` overwrites the one, nobody looks at the other. The header's
stream is not freed on a refused disk either.) `NeverWaits`, `MountEnds`: the
kernel waits for ever only if the root directory, or an empty entry to end the
count, does not lie on the disk where an int can address it (`Reach`, `Ends`).
That is a premise on what is on the disk, and the code does not test it: on a
disk whose root directory and everything behind it is full, the count runs into
the disk's end and the kernel waits. `MountAdvances`: whatever is on the disk,
and however large it is, each step leaves less to do. Run `mount`: sectors of
two entries, ints that reach eight sectors, disks of four, eight and twelve,
bytes of two values, so that sector numbers use all registers; root directories
at the second sector, near where the disk or ints end, and behind; with one to
four entries, filled or not, and any entries behind them. The volume that
`boot/boot.S` describes has its root directory at sector 712, and its 2^22
sectors of 512 bytes are exactly what an int can address; the image the
`Makefile` builds has 32768 of them. Both are among the disks, as is one with
more sectors than an int of bytes can address.

### Interrupts

`requested`, `master` and `slave` are the request and in-service registers of the
two controllers; `stack` the handlers entered and not left, each with the step it
is at. `head.S` gives the vectors, `idt_init` the gates, all of them trap gates:
entering one leaves the interrupt flag as it is, and the handler's `cli` is its
first step, before which a line of higher priority may interrupt it. After
`cli` come the printing of the keyboard handler, the two end-of-interrupt
commands in the order of `interrupt.c`, and `sti` with `iret`, one step because
the processor accepts no interrupt right after `sti`. An end-of-interrupt command
clears whichever line in service is highest (`Ended`).

*Environment.* A device raises its line at most once per instruction of `main`:
devices are slower than handlers. The keyboard raises it once, since no handler
reads port 0x60. A request may vanish before its vector is asked for, and the
controller then answers with that of its last line, at the master
(`accept_spurious`) or at the slave, whose own line the master then has in
service all the same (`accept_spurious_slave`), at most `MaxSpurious` times.
`main` may divide by zero - a volume with no sectors per cluster makes it - and
the handler returns to the same instruction for ever. Exceptions that push an
error code are left out: their handlers' `iret` would take that for an address.

*Checked.* `HandlersExclude`, `NestsByPriority` (nothing interrupts itself, so
the stack is bounded), `AllAcknowledged`, `EndsWhatIsHandled` and
`RequestsServed`. `EndsWhatIsHandled`, as long as no request vanishes: the
command to the master, which names no line, still ends that of its handler, and
an exception's handler ends none there. At the slave that is not so: a handler
for another line, entered before the `cli` of a slave's handler, ends the
slave's line for it (`interrupt.c` sends both commands for every interrupt). The
property says that this is the only case, and that a line without handler is
never ended. Run `interrupts`: two lines of the slave with two above and one
below them at the master, one vanishing request, one key, a division by zero at
any moment; nesting gets as deep as there are priorities.

### Paging and AddressSpace

`mem` is memory as page tables, `tlb` what the processor remembers, filled
(`tlb_fill`) and emptied (`tlb_evict`) whenever it likes and forgotten when the
directory is loaded. `create_table` is a turn of the loop of
`create_page_directory`; each `kmalloc` may find the heap empty, and the table is
then filled at address 0 and the directory refers to it there, as in the code.
`offset` wraps like the int it is. `asked` and `past` are not in the code: what
the callers have asked each page to be, and what it was since the directory was
loaded.

*Environment.* Callers do not remap the pages the tables are in (`IsTable`), nor
call `set_paging` where the kernel no longer reaches them at their own address
(`InReach`). They call `enable_paging` when a directory is loaded, as
`include/page.h` asks. `set_paging` refuses an address that is not of a page's
start, and changes nothing.

*Checked.* `TablesAreAsAsked`; and `ImplementsAddressSpace`, the refinement of
`AddressSpace!Spec`: `switch_page` and `enable_paging` map to `Load`, `set_paging`
to `Remap` of one page, an access to `Access`, all else to stuttering. The
specification lets an access go to an older frame of its page: that is what
`mm/page.c:82`, which does not invalidate the translation, promises and no more.
Run `paging`: nine pages in tables of three, any subset of five frames in the
heap, so that memory is enough or runs out at each of the allocations; two pages
remapped to a frame that is accessed at its own address too, one of them
accessed, so that a remembered translation can be stale, fresh or absent.

### Gdt

The module's specification is `GdtSpec`: its names are apart from those of
`Paging`, beside which its proofs are. `encode` is a turn of
`gdt_structure_to_gdt_entry`'s loop; bytes are two digits of base `N`, 16 in the
code. The processor's side is `Limit` and `Base`. `DecodesAsAsked`: what it
finds is what was asked for, around 65536 as anywhere, and only a limit that is
not whole pages stops the kernel. Run `gdt`: base 2, so that every limit there
is (0 to 255) is tried in every pair of segments. `load_gdt` is given the
table's size where the processor expects one less, and the TSS's limit is
likewise its size; nothing refers to the byte either adds.

### Fairness

Each fair specification adds weak fairness of the steps inside a call, and nothing
about callers: once the processor is in a function it goes on executing it, and no
other thread can take it away for ever. In `Console` a key comes at most once, so
the handler cannot keep the kernel from running either. In `Interrupts` the fair
action is `ProcessorStep`: the processor executes, and accepts an interrupt when
it may; no device has to raise anything. `Mount` adds fairness of the drive, which
answers every command, an error counting as an answer. `Vfs` has fairness of the
steps of `fopen`; its other calls are one step. `Paging` and `Gdt` have no liveness
property. Calls that hang do so as states of the model (`halted`,
`waiting`, `bad_free`, `failed`), and the properties name them.

## 3. Proofs

Each theorem holds for every value of its module's constants that satisfies the
assumptions named in that module: tables, memories, directories, records, sets of
lines of every size.

| module | theorem | property |
| --- | --- | --- |
| `HeapProofs` | `Invariance` | `IInv`, the inductive invariant |
| | `TypeCorrect` | `TypeOK` |
| | `Exclusion` | `NoOverlap` |
| | `ChainsAgree` | `ChainAgrees` |
| | `NoneLost` | `NoLostBlock` |
| | `FirstFitHolds` | `FirstFit` |
| | `Refinement` | `ImplementsAllocator` |
| | `OneBlocks` | `OneBlockRequests` |
| `VfsProofs` | `Invariance` | `IInv` |
| | `TypeCorrect` | `TypeOK` |
| | `HandlesOwn` | `HandlesOwnSlots` |
| | `ReflectsDisk` | `OpenReflectsDisk` |
| | `Stability` | `SlotsAreStable` |
| | `FreedOnce` | `NothingFreedTwice` |
| | `FopenGoesOn` | the step behind `FopenReturns` |
| `Fat16DirProofs` | `Invariance` | `IInv` |
| | `TypeCorrect` | `TypeOK` |
| | `FoundBearsTheName` | `FoundIsTheOne` |
| | `MissedBehindDeleted` | `MissedOnlyBehindDeleted` |
| | `SearchStaysInside` | `SearchIsInside` |
| `Fat16ReadProofs` | `Invariance` | `IInv` |
| | `TypeCorrect` | `TypeOK` |
| | `BufferHolds` | `BufferIsEnough` |
| | `ReadsExactly` | `ReadIsExact` |
| | `RefusesOnlyPastEnd` | `FailsOnlyPastEnd` |
| | `ReadsAdvance` | `ReadAdvances` |
| `MountProofs` | `Mounted` | `MountedIsReadable` |
| | `Waits` | `NeverWaits` |
| | `Advances` | `MountAdvances` |
| `ConsoleProofs` | `TypeCorrect` | `TypeOK` |
| | `Strays` | `StraysOnlyWhenTorn` |
| | `ReturnsCursor` | `CursorReturns` |
| | `PutsWhole` | `PutIsWhole` |
| `InterruptsProofs` | `Invariance` | `IInv` |
| | `TypeCorrect` | `TypeOK` |
| | `Exclusion` | `HandlersExclude` |
| | `Acknowledged` | `AllAcknowledged` |
| | `Nesting` | `NestsByPriority` |
| | `EndsHandled` | `EndsWhatIsHandled` |
| `TranslationProofs` | `Invariance` | `IInv` |
| | `TypeCorrect` | `TypeOK` |
| | `AsAsked` | `TablesAreAsAsked` |
| | `Refinement` | `ImplementsAddressSpace` |
| | `Decoding` | `DecodesAsAsked` |

In each module there is a lemma per action or per conjunct, and the step of the
invariant puts them together; action properties and refinements then need one
more look at the actions that do not stutter.

**Heap.** Block size above 1, sizes in `0 .. 2^31-1` (`TotalAssumption`,
`BlockSizeAssumption`, `SizesAssumption`). The five invariants are not inductive
together: they say nothing between two iterations of a loop. `IInv` adds
`ScanInv` (the current run is free, ends just before `i`, begins behind a taken
entry and is still too short, and nothing fits before it), `FoundInv` (what was
found is free as far as the table goes, and the entry before it is taken) and
`ReleaseInv` (`kfree`'s loop is inside the allocation it was called for). That
the run begins behind a taken entry is what keeps a request for 0 bytes harmless:
the entry it writes in front of its block is the last of another allocation, and
already holds what is written. The rest of the argument is that an allocation that
runs over the end of the table leaves no free entry behind its start, so no later
one can share its blocks. The refinement maps the step that marks a run to
`Allocate`, the one that releases the last block to `Release`, and all others to
stuttering; `Allocate`'s guard, that no caller holds a block of the run, follows
from `NoLostBlock` and `ChainAgrees`. For `OneBlockRequests`: a search for one
block that found nothing has passed no free entry and is at the end of the table,
and what it found is inside the table (`FoundOne`); so one entry is marked
(`TakenOne`) or released (`ReleaseOne`), although the code of both is a loop.

**File layer.** Any number of slots and blocks, any tree of files
(`TreeAssumption`, `DisjointAssumption`), any paths (`PathsAssumption`).
`OpenReflectsDisk` speaks of finished calls only, so `IInv` follows the walk
(`WalkInv`: it is at part `k`, and at the end has found a file or directory) and
says that while memory lasts nothing was truncated on the way (`WholeInv`: the
parts linked are all of the path's up to its end or to two slashes, an item is
complete, what was opened is what the path names). Without memory, what is left
is that the parts linked are a beginning of the path's, and that a file is found
at one of them. That a complete walk finds a file only if the whole path names
it rests on nothing lying below a file. For `NothingFreedTwice`, `Recoverable`
counts the blocks free, or that open descriptors, the file being opened and the
directory being searched will give back; each action gives back no more than it
takes out of this count, because a slot that is closed is one of those counted
(`FS_RemoveElement`) and `free_fat16_item` frees what `Freed` says of its item.
`FopenGoesOn` goes through the steps of `fopen` that could lead out of it: null
pointers are freed only where memory ran out, and an incomplete directory is one
that is damaged or for which memory ran out.

**Directories.** `IInv` says that the count is that of the entries passed by which
are not deleted, that none of these is empty and the one it ended at is, that what
was loaded of the first cluster is what the disk holds, and that nothing the
search has passed by is the part's. In a terminated directory the entries passed
by are all that are in use and all counted ones are loaded; for a part that
differs from other names within the `n + 1` characters compared, and is as long,
`same_name` holds of the entries of that name and no others (`FoundBears`).

**Reading.** `BufferIsEnough` alone is not inductive. `WrittenInv` says that the
bytes written and those still to come of the current record (`ToCome`) are those
of the records started; `PartInv` that a part is of its record and what is left of
it of the part. For `ReadIsExact`, `PlaceInv` ties the offsets in each function to
the next byte of the caller's buffer, and `WalkInv` says that in a call for aligned
records the chain reaches to, the walk is at the cluster of the file that is
`ahead` before the next byte's, and the stream is at that byte. `Chain`, the file's
clusters, is defined by recursion on their number. That this defines a function is
proved (`ChainDef`) from an induction over the natural numbers, itself proved from
least elements (`Least`, `Induction`); that a chain which reaches a cluster
reaches those before it is another induction (`ChainBefore`). From there, a split
into parts, sectors and records never leaves the cluster it computed.
`RefusesOnlyPastEnd` has a premise besides the assumptions: no cluster's number is
one of those the walk takes for marks (`Unmarked`), the least of which is 0xFF0.
The image the `Makefile` builds has 16 MB and 64 sectors to a cluster
(`boot/boot.S:16`), and so room for about 512 clusters, though its header
claims 2 GB. On a volume with 4080 clusters or
more, which the premise excludes, a file that runs through one of those numbers
is cut off there (`fat16.c:457`).

**Mounting.** The position of the root directory is a wrapped int, so what
`IInv` must say of a position is that it is either the disk's, or negative and
so far below 0 that its sector is one the drive does not have (`PositionInv`):
of a negative sector number the registers keep the remainder by the number of
sectors two drives can name (`addressed(ports(s)) = s % (2 * HEAD * BYTE3)`,
lemma `Addressed`), which is the second drive's, so the answer is an error, and
nothing is ever counted or loaded from there; nor from behind the disk's end. Of
positions of the disk, `CountInv` says that no entry passed by is empty and the
count is of those not deleted, and `RootInv` that what is loaded is the
beginning of the root directory; `HeaderInv` keeps what is allocated, and that
the header in use is the disk's. The theorem's premise `Unwrapped`, a condition
on the volume, is that its root directory does not begin at 4 GB or more
(`fat16.c:224`): with a header that says so, the position wraps to a positive
one again, and the kernel would mount what lies there. FAT16's tables have at
most 256 sectors each, with which that cannot be. `Waits` and `Advances` need no
such premise. They rest on the part of the invariant that holds for every
volume, `PlaceInv`: a position is in the range of an int, and if it is negative
it is so by at least a sector (`WrappedSectors`), since what wraps is a whole
number of sectors. A command for a negative one, or one behind the disk's end,
is answered with an error, and each other one brings the position nearer to
where ints end, or leaves fewer entries to load. The disk's size enters only
into `Waits`: when `Ends` holds, the count meets its empty entry before the
disk's last position and before an int wraps, whichever comes first (`Reach`),
so that the drive is never asked for a sector it does not have (`WaitInv`).

**Console.** The index port is shared, so what a context finds at the data port is
its own only while nobody has come in between. `PortsInv` says for each access of
the running context what the ports hold, unless it was torn; `SteadyInv` that
without tearing the cursor, and what was read of it, is on the screen; `LocalInv`
that `set_cursor` bounds what it writes even when it was. Together they are
inductive with `StraysOnlyWhenTorn`. For `PutIsWhole` a second invariant,
`WholeInv`, says of each step of a `put_char` that was not entered how far it has
come (`Progress`): what was there when it began is still there until `switch`, each
row of `roll_up` extends `RolledTo` by one, and what the two writes will make of
the cursor is what `Put` asks for. `CursorReturns` then follows from the two ways a
call returns: by the write of the high byte, with both bytes its own, or by a
backspace at 0.

**Interrupts.** Handlers end interrupts blindly, and a handler may be entered
for no line at all. What makes the controllers empty in the end is a balance:
each handler on the stack still owes each controller one command until it has
given it, and no controller has more lines in service than it is owed commands
(`Balanced`). A command takes the highest line away, if any (`EndedIsSmaller`);
an accepted line comes with a handler. Which line a command ends needs more
(`NestInv`): the lines of the stack rise in priority, only the outermost may be
an exception's (`Ordered`), and, while no request vanishes, the master has in
service exactly the lines of handlers that still owe it their command
(`Matched`), while a line the slave has in service is that of some handler that
still owes the slave its command (`SlaveHandled`). So the highest line in
service is the innermost handler's, and a line that is accepted is higher than
all of them. `Covered` counts how many more commands are owed than lines are in
service, and bounds the stack (`Shallow`).

**Paging.** `FramesInv`: the directory and its tables are in frames of their own,
no longer in the heap, except tables there was no memory for, in frame 0. With
that, filling a table or remapping a page disturbs no other's entries, and the
tables say what was asked, also between two turns of the loop. `TlbInv`: what the
processor remembers is, or was since the directory was loaded, in the tables. That
a page is determined by its two indices, and the loop's offset is that of its
table, is arithmetic on `ENTRIES` (`Division`, `Product`).

**Segments.** Any base of at least 2, any number of segments
(`BaseAssumption`, `SegmentsAssumption`, `TotalAssumption`). Dividing twice is
dividing by the product, and a quotient of a number below `u * b` by `u` is below `b`
(`TwoDivisions`, `Below`); so the bytes of a number give it back (`LowBytes`,
`FourBytes`): that is the base. A limit of at most 65536 has at most one digit
above its two low bytes; one counted in pages loses its three lowest digits, and the
processor sets them all to ones, which is what they were in a limit that was not
refused. `SegmentsInv` adds the types of the variables to `DecodesAsAsked`, and that
a refused segment is one of the table's.

**Ends of calls.** That a call ends is liveness, which is out of the prover's
reach, but what each step does towards it is not. `ReadAdvances` and
`MountAdvances` say that a measure gets less with every step, and never goes below
zero in the part that got less (`Less`), so that there is no infinite run of such
steps; `NeverWaits` that the kernel does not meet the one wait that has no answer;
`FopenGoesOn` that `fopen` leaves its steps only by returning. What is left
to TLC is that fairness makes the steps happen.

Only model-checked is therefore all liveness: `CallsReturn`, `FopenReturns`,
`FreadReturns`, `PutReturns`, `RequestsServed`, `MountEnds`. Every invariant and
every action property of a run that passes, and both refinements, are proved.
The type invariants of `Heap`, `Vfs`, `Fat16Read` and `Paging` are proved and no
run checks them: they are part of the inductive invariants above.

## 4. Findings

Runs marked *violation* each check one statement of a comment that the code does
not keep:

| run | property | where | what the code does |
| --- | --- | --- | --- |
| `vfs_data` | `DescriptorHasData` | `fs/vfs.c:163` | opens files that do not exist |
| `fat16_read_end` | `StopsAtLastEntry` | `fat16.c:451` | does not know FAT16's end mark |
| `fat16_read_sector` | `ReadsFromDisk` | `disk/disk.c:143` | copies from behind the sector buffer |

## 5. Not modelled, and the plan

Left out for good: the boot sector (BIOS calls and mode switches without state
that could go wrong later); the order of calls in `main`, which is sequential and
whose results are the `Init` of each module; `load_gdt` and `load_tss` (one
register each; nothing leaves ring 0, so the TSS is never read); the digits of
`put_int` and `put_uint`; the pure functions of `lib/string.c` whose results
decide nothing; and `free_path` and `fat16_stat`, which nothing calls.

Abstracted, and where it shows: volumes whose sectors are not of 512 bytes
(`Mount`); exceptions with an error code (`Interrupts`); the structure of memory
behind address 0 once code runs on it (`Vfs` stops there, in `wild`);
subdirectories of more than two clusters (`Fat16Dir`).

What could come next:

1. `Vfs` over `BlockAllocator` in place of a number of blocks, so that the leaked
   blocks have identities.
2. `Mount` with a heap that runs out: the error paths of `create_disk_stream`
   and `get_root_dir`, which `main` cannot reach.
