# A verification project for shitos

shitos is a hobby operating system for 32-bit x86: a two-stage BIOS boot loader, a
monolithic kernel with one user process, and a C library. This directory holds TLA+
modules that model the kernel's core logic, the TLC configurations that check them on
small instances, and TLAPS proofs of the properties that matter most.

Paths below are relative to the repository root; the code lives in `src/kernel`
(10 800 lines), `src/libc` (5 200), `src/boot` (2 900) and `src/apps` (150).

## 1. Inventory

### How the system runs

`kmain` (`src/kernel/shitos.c`) sets up the timer, the VFS, the process table, the
console, the IDE driver, the partition mappers, ext2 and the PS/2 keyboard, mounts
`/dev/ada2` as ext2 on `/` and the boot partition on `/boot`, starts the frame buffer
terminal and jumps into `/bin/init`, a small shell. There is one user process and no
scheduler. System calls enter through `int 0x30`, interrupts through gates `0x20..0x2f`;
all of them are interrupt gates, so kernel code entered this way runs with interrupts off
and is never preempted by another handler. The concurrency that is left:

* the keyboard interrupt writes a pipe that the user process polls with system calls;
* the timer interrupt counts ticks that system call 6/4 reads;
* the IDE drive moves its data and raises its interrupt while the driver polls; `kmain`
  itself runs with interrupts on (`entry.asm:101`), so there the interrupt can be taken
  between any two steps of the driver;
* a power cut can fall between any two sector writes of an ext2 operation;
* in the boot loader, where interrupts are on, the menu's keyboard and timer handlers run
  between any two instructions of `bmain`.

The rest of what is hard is sequential: long sequences of legal calls on linked data
structures (heap segments, descriptor table, block lists, terminal state) that reach a
state nobody tested.

### Components

| Component | State it keeps | Operations | Must hold |
|---|---|---|---|
| Pipe, `fs/pipe.c` | ring buffer, two indices | create, read, write, size, avail | bounded FIFO; indices in bounds |
| Keyboard, `arch/i386/ps2hid.c`, `input/keyboard.c` | modifier, break flag, send flag | interrupt handler, key map, pipe write, echo | bytes come from presses only; no stuck modifier; nothing lost in the pipe |
| VFS, `fs/fs.c` | mount tree, reference counted nodes | mount, kopen with symlinks, open/close, mknod, unlink, link, symlink | no node used after it is freed, none leaked, static nodes never freed, names unique |
| System calls and descriptors, `sys/syscall.c`, `sys/process.c` | descriptor table, offsets, modes, cwd | open, close, read, write, seek, chdir, readdir, mknod, unlink, ioctl, sysfunc | lowest free descriptor, access modes enforced, a descriptor owns its node |
| Heap, `mem/heap.c`, `mem/kmem.c`, `misc/ordered_array.c` | boundary-tagged segments, index of holes | create, expand, alloc, realloc, free | segments tile the heap, index lists exactly the holes in order, allocations are disjoint and survive |
| Paging, `arch/i386/vmem.c`, `paging_init.c` | frame bitmap, page tables, mapping window | map, unmap, get page, clone directory, validate pointers | a frame has one owner, the window slot is not reused while mapped |
| ext2, `fs/ext2fs.c` | bitmaps, group and super block counts, inodes, indirect blocks, directory entries | read, write, truncate, mknod, link, symlink, unlink, chmod, mount | counts agree with bitmaps, a block has one owner, the block map is injective, a file reads back what was written |
| IDE, `fs/ide.c` | channel registers, DMA buffer | detect, read and write of sectors and ranges | a transfer returns the sectors asked for; the poll ends |
| Partition and small drivers, `fs/dospart.c`, `bootpart.c`, `zero.c`, `random.c`, `console.c` | partition table, static nodes, boot-time console buffer | read, write, readdir, finddir | accesses stay inside the partition |
| Terminal, `tty/ansi.c`, `tm.c`, `fbterm.c`, `psf.c`, `video/fb.c` | cursor, attributes, escape parser | put a character, CSI and SGR sequences, scroll | cursor inside the screen after every byte |
| Interrupts and time, `arch/i386/irq.c`, `pit.c`, `isr.c`, `idt.c`, `gdt.c` | handler table, tick count | install, dispatch, end of interrupt | every interrupt is acknowledged once |
| Data structures, `misc/list.c`, `tree.c`, `hashmap.c`, `bitset.c` | links, buckets | insert, delete, merge, pop | links consistent in both directions |
| Boot loader, `src/boot/i386` | menu state, tick count, page tables | read partition, load kernel, menu | menu starts exactly one entry; a key press stops the countdown |
| C library, `src/libc` | FILE buffers, heap through system call | stdio, string, stdlib, math | no byte lost or repeated between FILE and descriptor |

### What is hard

The hazards are listed one by one, at their lines, in `PROJECT.json`. The themes are:
interrupt-time decoding whose state spans interrupts (keyboard); reference counts whose
increments and decrements sit in different functions (VFS); in-place changes of sorted or
doubly-described structures (heap, ext2); operations that can fail in the middle and
leave the first half done (ext2, VFS); disk writes whose order matters when the machine
stops (ext2); and small fixed-width counters (terminal).

## 2. Plan

The order follows the weight of what can go wrong: first the components whose state is
shared between actors or described twice, then the ones whose arithmetic is delicate,
then the leaves.

Done:

1. `Pipe`, `PipeCalls`, `BoundedFifo`, `PipeProofs`; then `KbdInput`, which composes the
   interrupt handler, the pipe and the shell.
2. `VfsTree` and `Vfs`: mounting, name resolution, nodes with reference counts, descriptors.
3. `Heap`: the allocator with its index of holes.
4. `Ext2Map`, `Ext2Growth`, `Ext2Blocks` over the abstract `FileStore`: the block map, the
   allocation of blocks, writing and truncating.
5. `Ansi`, `AnsiProofs`: the escape parser and the cursor.
6. `Ext2Dir` over the abstract `DirMap`: directory records, allocation of inodes, and the
   calls that make and remove names, with a power failure between any two writes.
7. `Vmem` and `HashMap`: frames, page tables, the mapping window.
8. `Ide`, `Stdio` over the abstract `StreamFile`: from the library's buffer through the
   partition and the driver down to the drive's registers.
9. `BootMenu`: `bmain`, the menus and the loading of the kernel under its interrupts.

10. Proofs about the modules of 1 to 5, 7 and 9: `KbdProofs`, `VfsProofs`, `HeapProofs`,
   `Ext2Proofs`, `VmemProofs`, `BootProofs` beside `PipeProofs` and `AnsiProofs`.

Left: proofs about `Ext2Dir` (`BlocksTile`, `NamesAreAllocated`, `WalksEnd`), and `OutsideUntouched` of `Stdio`,
by way of what `Ide` writes. The modules have no RECURSIVE operator, so that all of them
can be reasoned about with tlapm.

There is one run per question. Configurations beside them, which show where a restriction
of a run is needed or which comment of the code does not hold, are named with their module
below and are run by hand; where such a configuration differs from that of the run in one
line only, the line is given instead.

## 3. Modules

In most modules an action is one call of the code: system calls and interrupts run with
interrupts off, so a handler is atomic with respect to every other one. Where something
else can happen in the middle of a call, the call is cut there: in `Ide` at every access
to a register, in `Ext2Dir` at every write of the disk, in `BootMenu` at every step of
`bmain` that a handler could notice. Definitions keep
the names of the functions they model; `PROJECT.json` gives the lines of each under
`map`. A definition called `Name_Something` with a comment "Mutant:" is a changed form of
`Name`, used to show that a property notices the change.

### Pipe: `Pipe`, `PipeCalls`, `BoundedFifo`, `MCPipe`, `PipeProofs`

`buf`, `read_ptr` and `write_ptr` are the fields of `pipe_device_t`; `pipe_read` and
`pipe_write` stand for the byte loops of `pipe.c`, in closed form. `PipeCalls` adds
arbitrary callers and the result of the last call (`last`). `BoundedFifo` is what a pipe
promises: a queue of `Sz - 1` bytes, a write storing the longest prefix that fits.
`PipeCalls` implements it with the refinement mapping `queue <- Oldest(pipe_size)`.

Run `pipe`: a ring of 4, two byte values, requests of up to 4 bytes (one more than ever
fits), reads of 0 to 4. Every pair of indices occurs, so every way of wrapping does.

### Keyboard: `KbdInput`, `MCKbdInput`, `KbdProofs`

The wire from the keyboard (external), the interrupt handler's `mod`, `not_released` and
`send`, the pipe behind `/dev/kbd`, and the shell's `fgets` loop with its polling read.
`overrun` is the byte `sc3_to_usb[0xF0]` reads behind the end of its table: fixed by the
build, so chosen once, and of a key that is not a modifier. `held` and the annotation of
wire entries tell what the user did; no action of the kernel reads them. `echoed`, `accepted` and
`consumed` are history. `argv2` says whether `argv2[0]` of `init.c` may be read: a line
with a word in it sets it, a line without one leaves it alone, and nothing initialises it,
so what it is at first is a choice. When it may not, `strcmp` faults and `page_fault`
(`vmem.c:486`) loops for ever.

Run `kbd_input`: four keys (one that types two bytes, and the space bar), both modifiers that the code
knows, three presses with repeats and releases in any order, a pipe that holds two bytes, a line
buffer of two. Three presses are enough to hold a modifier, type, and release in the wrong order;
two bytes are enough to fill the pipe, cut a key's bytes in two and wrap.

* `NothingLostInPipe`: accepted bytes are the consumed ones followed by what is stored.
* `TypedAsPressed`, `NoStuckModifier`: the state kept between two interrupts never slips.
* `AllBytesReachShell`: every accepted byte reaches the shell, unless it faulted on a line
  without a word before it had seen any. Under weak fairness of the handler (an interrupt that is pending
  is taken when the process runs, which is with interrupts on) and of the shell's steps
  (there is one process and it only polls). The user is under no obligation.

### Files: `VfsTree`, `Vfs`, `MCVfs`, `VfsProofs`

`VfsTree` has the directories and inode types (`dirs`, `type`), mounting and name
resolution. The mount tree is the fold of the calls `kmain` makes over an empty one
(`vfs_install`, `vfs_map_directory`, `vfs_mount`, `vfs_mount_type`); drivers and file
systems are constants. `canonicalize_path` and `get_mount_point` are functions of a
path. `kopen_recur` is a recursive function of the links it may still follow; one call of
it is `Resolve`, which walks the names of a path and hands what is left behind a link to
`Follow`, with the depth limit and `O_NOFOLLOW` where the code has them. The result says
which file was reached, how often its node was opened and which static nodes were freed
on the way. `Vfs` starts from a disk image without a fault (`DiskIsSound`) and adds `nodes` (the heap blocks of `fs_node_t` with their
reference counts), the descriptor table (`fds`, `max_sz`), the working directory and the
system calls. File contents are left out; sizes are kept.

* Run `vfs`: paths through a directory, through a link to it and relative to the working
  directory; two descriptors with a table that starts at one, so that it doubles; two
  inodes to give out. Properties: `NoUseAfterFree`, `LowestDescriptor`,
  `ExclusiveOpenIsFresh`.
* Run `vfs_files`: no links (the paths that leak nodes would hide other leaks), a path
  that is a directory, is removed and comes back as a file, and a device under `/dev`;
  reads, writes and seeks with sizes up to 1 and flags `O_APPEND` and `O_TRUNC`.
  Properties: `NoLeak`, `NamesUnique`, `WritersKeepTheirFile`.

What the code says and does not do is in configurations of the same module:
`MCVfsLeak` (`NoLeak` fails: a node reached through a final link is opened twice and stays
on the heap after it is closed, against `fs.c:81`), `MCVfsNoFollow`
(`FinalLinkNotFollowed` fails: `O_NOFOLLOW` tests the depth of the last directory and not
of the last name, against the comment in `kopen_recur`), `MCVfsNames` (`NamesUnique` fails:
through a dangling link `open` with `O_CREAT` adds a second entry of the link's name) and
`MCVfsRelative` (`RelativeToLink` fails: a relative target is looked up from the root).
`MCVfsPlain` passes; it has the static nodes of `/boot`.

### Heap: `Heap`, `MCHeap`, `HeapProofs`

`heap.mem` is the memory itself, one cell per header, footer or data word, so that a stray
write hits what lies there; `heap.index` is the ordered array of holes; `heap.end` is
where the heap ends and `heap.state` says how the kernel stopped, if it did. `live` is
what each client holds. Alloc, Resize (realloc, with its five cases) and Free are the
actions; addresses and differences wrap at `W`, as `size_t` does.

Run `heap`: a heap of 8 cells that may grow to 16 in pages of 4, three clients, requests
of 1 and 3 cells. That gives up to five segments, holes too small to split, splits,
joins on both sides and expansion. An expansion beyond the limit fails the assertion of
`heap.c:57` and stops the kernel (`heap.state` is then "out of memory"); clients reach it.
`StopsOnlyWhenFull` says that this is the only way to stop, and that the expansion asked
for really did not fit. It, `SegmentsIntact`, `IndexIsHoles` and `PayloadsIntact` hold for
clients that avoid four things the code gets wrong:

* `Shrinking = FALSE`: realloc is not called for less than the segment has. `MCHeapShrink`
  calls it and fails an assertion of the code (`AssertionsHold`).
* `Aligns = {0}`: requests are not aligned. With `Aligns = {0, 1}` `AssertionsHold` fails.
* `Careful` excludes an expansion while the last segment is in use and there are holes below
  it, and a free of a segment that ends at `heap->end`, where line 380 reads a header on a
  page that is not mapped. With `Careful = FALSE` `AssertionsHold` fails.

`HeapProofs` proves these four for heaps of any size under the same restrictions,
which it calls `Contract`.

### ext2: `Ext2Map`, `Ext2Growth`, `FileStore`, `Ext2Blocks`, `MCExt2Blocks`, `Ext2Proofs`

`Ext2Map` is the arithmetic: `get_block_count`, `get_content_blocks`, where a content
block is found (`RealPath`) and what `free_inode_block` frees (`FreePath`); a block of an
inode is the path of indices leading to it. `Ext2Growth` lets a file grow and shrink and
compares `i_blocks` with the tree of blocks that is really there. Run `ext2_growth`: two
direct blocks and five numbers per block put all boundaries (direct, singly, doubly,
triply indirect) below 157 blocks, with a triply indirect tree that has complete and
incomplete branches. Shrinking is bounded to 15 blocks, one block of pointers under the
doubly indirect one: beyond that the divisor `p*p+p` of line 597 is wrong, and
with `Shrinkable = 40` `CountIsTree` fails.

`Ext2Blocks` has the disk: bitmaps, the counts of each group and of the super block, inodes
and the words on each block, stale ones included. Actions: Write, Truncate, AddBlock (a
directory grows in `create_dirent2`), FreeLastBlock (`fs_unlink` took the last name from
a directory's last block) and RemoveDir. FreeLastBlock is `ext2fs.c:1520-1522` as it is:
it hands the number of a content block to `free_inode_block`, which counts indirect blocks
too, and leaves `i_blocks` and `i_size`, so that it may free an indirect block with what
hangs below it. `free_inode_block` returns E_BADBLOCK where an indirect block is missing, and
`free_inode_blocks` stops there, with `i_blocks` as far as it got. `FileStore` is what a
file system promises of contents. It and `NoBlockLeaks` are promised until `spoilt`: until an
allocation failed, or unlink freed a block of a directory. `CountsAgree` and `OneOwner`
are promised always.

Run `ext2_blocks` (134 510 states): one direct block and two words per block, so that a file of eight words
needs the doubly indirect block; a regular file and a directory which together ask for
more than the seven free blocks in two groups, so that allocation fails at every point it
can, and freed blocks are taken by the other file. `OnlySound` keeps to truncations the code carries out: longer, or shorter by at least a block with an end
inside a block. What it excludes is in the list of hazards, and `MCExt2Trunc` shows one: a
truncation to nothing takes every free block (`ShorterTakesNoBlocks` fails, against the
comment at `ext2fs.c:512-514`).

`Ext2Proofs` proves the four properties of `ext2_blocks` for disks, blocks and sets of files
of any size, within the limits of the run: writes of a word at least, truncations that are
`Sound`, and no file larger than `free_inode_blocks` can free. The only system
call that truncates is `open`, to 0, so the theorems are about `ext2fs_truncate` where it
works and not about that call. The two of `ext2_growth` are proved for every block size and every file up to
the last block the triply indirect block leads to, if it shrinks only while it has at most
one block of pointers under the doubly indirect one.

### Directories on the disk: `Ext2Dir`, `DirMap`, `MCExt2Dir`

`disk` holds the inode bitmap, the block bitmap, the inodes and the directory blocks as
sequences of entries with their `rec_len`. A call (`fs_mknod`, `fs_symlink`, `fs_link`,
`fs_unlink`) computes the disks it goes through, one per write, and leaves them in `todo`;
`Write` makes the next one real and `Crash` drops the rest. `hung` stands for a walk that
does not end: a block of zeros has `rec_len` 0. `power` says, from the start of a behaviour,
whether the power may fail in it. `DirMap` is the promise: a name is unbound or bound to one inode, and a
step binds or unbinds one name.

Run `ext2_dir`: blocks of 5 units, of which "." and ".." take one each; in the root, which
also holds the kernel's name, there is room for one short name and not for a long one, so that entries are split, merged and moved to a new block; four inodes,
three blocks, so that both run out in the middle of a call; directories of up to three
blocks, two links, one power failure. Names are removed only in behaviours without a power failure
(`Unlinks = FALSE`): unlink frees the inode before it removes the name, and with
`Unlinks = TRUE`, which has both, `NamesAreAllocated` fails.

* `ImplementsDirMap`: whatever is split, merged or freed, at each write one name at most
  changes, also when the power fails.
* `BlocksTile`: the entries of a block cover it and have room for their names.
* `NamesAreAllocated`: no name leads to an inode the bitmap says is free.
* `WalksEnd`: walks end unless a block was missing for an entry or the power failed. That
  `count_dirent` may not end behind a directory's first block (`ext2fs.c:1137`) is not in
  the run, whose subdirectories have one.

Three more restrictions of the run have configurations: `MCExt2DirDangling` (links that lead
nowhere: a name is made twice), `MCExt2DirLong` (a subdirectory of two blocks:
`count_dirent` looks outside its buffer, takes it for empty and its names vanish), and
`InodesAreNamed` in the module, which does not hold: unlink compares `i_links_count`
before it decrements it.

### Terminal: `Ansi`, `AnsiProofs`

One step is one byte given to `ansi_handle`: `esc_level`, `args`, `arg_buf_i` and `arg`
(the value of the digits) are the parser, `cur_x .. scur_y` the cursor and the saved one,
then the attributes, and `scrolled`, the lines the callback was told to scroll. Run `ansi`: a
screen of three columns and two lines, 24 kinds of bytes (control characters, two
digits, a separator, twelve final bytes), two arguments of two digits. Values up to 44
are far beyond a screen of this size, and wrap-around at column, line and both is reached.
`Careful` excludes positions 0: with it off, `ScrollsAtBottom` fails, as `CSI H` without
arguments asks for line 65535.

### Disk and streams: `Ide`, `Stdio`, `StreamFile`, `MCDiskIo`

`Ide` has both sides of the cable: the driver (`pc`, the request and what is left of it)
and the drive (`regs`, where each register keeps its last two values as LBA48 needs,
`drive`, `bm`, `dma`, `platter`, `pending`). `ata_read` and `ata_write` cut a request into
a first partial block, whole blocks and a last one; `Load`, `SetUp`, `Command`, `Start`,
the two polls and `Finish` are the transfer, register by register; `Move` is the drive's
own step. What `ata_device_detect` finds is a choice. `Stdio` extends it with the partition
(`dospart_map`, `dospart_read`, `dospart_write`), the descriptor and one `FILE` of the
library: fopen, setvbuf, fwrite, fread, fseek, ftell, fflush, fclose and exit, each a
sequence of system calls that become requests of the driver. `StreamFile` is what a
program is promised: a file of fixed size with a position.

Sums have the width of the code's: `InPart` is the 32-bit sum of `dospart.c:36`, which a
size near 2^32 wraps, and `ata_max_offset` and `Clipped` go through the signed `off_t` of
`ide.c:478`. The kernel's own reading of the partition table, when it mounts, is one
transfer in the model.

Run `disk_io` (529 176 states): 32 sectors of two bytes, two sectors to a block, registers
of three values, so that sectors 27 and up need the fourth; the partition is sectors 25 to 28,
on an odd sector, so that partial blocks occur at both ends; a buffer of four bytes, texts
of one, three and six bytes, one with a newline, five calls of the library.

* `ImplementsStream`: buffering, offsets, clipping and cutting do not show, until the first
  careless call.
* `OutsideUntouched`: no byte outside the partition changes, whatever calls of the library a
  program makes, careless ones included. The library hands on sizes of texts and buffers,
  far below the `Width` at which the sum of `InPart` wraps. A system call made directly
  could name such a size; its buffer would have to wrap the address space
  (`vmem_validate_user_ptr` below).
* `CallsReturn`, under weak fairness of the driver (it polls and nothing preempts it), of
  `Move` (a drive with a command started can always finish it) and of the library's
  steps (one process, which runs on once it called). The program need not call anything.

`careful` is history: the program has flushed before it changed direction, and handed a buffer
only what the descriptor takes. Careless calls are in the run; after one the stream may show
anything and `BufferInBounds` does not hold. Restrictions: `Junk` is empty memory
for a new `FILE` (with `Junk <- MCJunk` `ImplementsStream` fails, as `fopen` leaves `buf_i`
as malloc found it); `EarlyData = FALSE` keeps a drive from showing DRQ instead of BSY while it
moves data (with `TRUE` the driver's second poll ends too early and `ImplementsStream` fails).

### Paging: `Vmem`, `HashMap`, `VmemProofs`

`m` holds the frame bitmap, what the frames contain as far as they are tables, the pages
of the mapping window and the hash map that finds them (`HashMap` is `misc/hashmap.c`),
and the heap's end; `dirs` the directories, `current` the one in use. Actions are the
callers the kernel has: the heap grows, the drive gets its DMA pages, the frame buffer is
mapped, a directory is cloned, a program is started and given pages, a pointer is checked.
Each goes through `vmem_get_page`, `vmem_map_vaddr` and `TakePage` (`vmem_frame_alloc`).

`IOCTL_VID_MAP` is as unguarded as the code: `fb.c` discards what `ptr_validate` says
(lines 27, 71 and 109), so `MapFrameBuffer` maps over any page, also of the kernel, marks
it as the program's and makes the tables that are missing. When that replaced a page the
kernel had mapped, the machine ends ("kernel overwritten"): what a kernel does that lost a
page of its own is not modelled. `vmem_validate_user_ptr` has its end computed modulo the address
space, so that a range that passes the end is accepted without a look (`vmem.c:463`).

Run `paging` (72 400 states): tables of three entries, two pages the heap can grow by, ten
pages of window, two frames of device memory, and ten frames, one fewer than all callers together
need: a second directory with its tables competes with the heap and the window for frames,
and in some orders the last one finds none and the machine stops.

* `OneOwner`: a frame is a directory, a table, a page or the drive's, never two, and is marked.
* `MappingsAreKept`: a page that is mapped stays, in every directory; only `IOCTL_VID_MAP`
  moves pages, those it was asked for, to device memory, and in another directory only
  pages of the kernel's half; what else appears was asked for or is the heap's.
* `ValidatedIsAccessible`: an accepted range that lies in the program's half is one the program
  itself could follow, also where a frame buffer was mapped. Of ranges that pass the end of
  the address space, or that lie on a page of the kernel marked by `MapFrameBuffer`,
  it says nothing: the code accepts those, and the program could not follow them.

Not so: `HeapGrowthEnds`, with the constants of this run (the heap needs a table, mapping
it needs an entry of the hash map, that needs the heap), `MCVmemTables` (`KernelLinked` fails once the
heap needs a second table: directories cloned before do not get it), and, in the module,
`BitmapInBounds` (device frames are marked behind the bitmap) and `NoFrameLost`.

### Boot loader: `BootMenu`, `BootProofs`

`pc` is where `bmain` is. The part of the screen it and the handlers share is
`tm_cursor` (of which part of the screen the next character is, and its column),
`tm_line_reset` (the column of new lines), `tm_color`, and `box` (what the two lines of the menu
show); `shape` is the part of the frame `draw_menu_skeleton` prints, each of two lines with
the keyboard's handler between them. `woken` is the pending end of a `hlt`, and `size`, `i`,
`image` are the reading of the kernel's file by `ext2_read_file` with its byte-wide counter.
`bmain`, `timer_handler`, `kb_handler` and `OtherInterrupt` are the actions; `reboot` is a
key. From `boot` on, messages are printed on the last line, and each scrolls the whole
screen and the box with it (`Message`). `endless` is the walk over the root directory that
found no end (`partition.c:90`).

Run `boot` (72 282 states): a timeout of two ticks and three keys, two partitions, files
of direct, singly and more indirect blocks (two direct, four pointers, a counter of four
values, so that a file of six blocks is read for ever). `MaxTicks` keeps the tick count finite
without stopping the timer.

* `ScreenShowsState`: from the drawn menu to boot's first message the box is that of the
  current menu and options, unless a handler drew while `bmain` drew.
* `LinesInPlace`: the handler gives the cursor back and not `tm_line_reset` and `tm_color`
  (`stage2.c:151`, `164`, `253`). That displaces lines of the part of the frame `bmain`
  is just printing, and no others: not the next parts, the menu's or boot's.
* `KernelAsChosen`: the kernel starts whole and with the options last chosen.
* `CountdownEnds`, under weak fairness of `bmain` and of the timer: both are hardware that
  runs on. No key has to be pressed. It has two exceptions, both reached: the walk without end
  and a kernel of more indirect blocks than the byte counts (`Endless`).

`MCBootKey` (`KeyStopsCountdown` fails: a key between the loop's test of `autoboot` and the
comparison of the time does not stop the countdown, against the comment at
`stage2.c:190`) shows a limit.

## 4. What is proved

All theorems are checked for every value of the constants, under the assumptions named
in the modules.

| Theorem | States | Argument |
|---|---|---|
| `PipeProofs!TypeCorrect` | `Spec => []TypeOK` | `TypeOK` is inductive; `Advance` stays below `Sz` |
| `PipeProofs!CountsAlwaysAgree` | `Spec => []CountsAgree` | follows from `TypeOK` by the cases of the two indices |
| `PipeProofs!PipeImplementsFifo` | `Spec => Fifo!Spec` | a read moves `Oldest` to its tail, a write appends to it: lemmas on `Advance` and `Offset` |
| `AnsiProofs!TypeCorrect` | `Spec => []TypeOK` | part of `Inv` |
| `AnsiProofs!CursorStaysInside` | `Spec => []CursorInside` | `Inv == TypeOK /\ CursorInside`; `CursorInside` alone is not inductive, as the moves depend on the arguments being numbers of 16 bits |
| `AnsiProofs!ScrollsOnlyAtBottom` | `Careful = TRUE` implies `Spec => ScrollsAtBottom` | from `Inv`: without a position 0, only a line feed or a wrap at the last line scrolls |
| `KbdProofs!NothingIsLost` | `Spec => []NothingLostInPipe` | `PipeInv`: the ring's type and the three sequences; lemmas that a read takes the first and a write appends to what is stored |
| `KbdProofs!NoModifierSticks` | `BuildIsBenign /\ Spec => []NoStuckModifier` | `ModifierInv`: how many scan codes of which kind the wire holds says what `not_released` is, and the modifier in `mod` is held or its release is on the wire |
| `KbdProofs!TypingFollowsPresses` | `BuildIsBenign /\ Spec => TypedAsPressed` | `ModifierInv` again: at a press `mod` is one of the modifiers that were down with it |
| `VfsProofs!NodesOutliveUse` | `Spec => []NoUseAfterFree` | `VfsInv`: the count of a node is at least the number of descriptors and working directories that have it |
| `VfsProofs!NodesAreFreed` | `NoLinks /\ Spec => []NoLeak` | without links the count of a live node is one and somebody has it |
| `VfsProofs!WritersAreSafe` | `Spec => []WritersKeepTheirFile` | `VfsInv`: who may write has an allocated file that is no directory |
| `VfsProofs!DescriptorsAreLowest` | `Spec => LowestDescriptor` | what the search of `process_add_fd` finds, as a lemma about the table |
| `VfsProofs!NamesStayUnique` | `NoLinks /\ NoSockets /\ Spec => []NamesUnique` | `PlainInv`: where `mknod` and `O_CREAT` add a name, the walk to it found none |
| `VfsProofs!ExclusiveIsFresh` | `NoLinks /\ NoSockets /\ Spec => ExclusiveOpenIsFresh` | the same lemma, for the case of `O_EXCL` |
| `HeapProofs!HeapStopsOnlyWhenFull` | `Contract` implies `Spec => []StopsOnlyWhenFull` | `HeapInv \/ Full`: either the heap has stopped at its limit, or some set of addresses tiles the heap, and headers, footers, index and clients agree with it |
| `HeapProofs!SegmentsStayIntact` | `Contract` implies `Spec => []SegmentsIntact` | `HeapInv`; the walk from header to header visits exactly that set |
| `HeapProofs!IndexHasHoles` | `Contract` implies `Spec => []IndexIsHoles` | `HeapInv`; a list without repetitions is as long as its set |
| `HeapProofs!PayloadsStayIntact` | `Contract` implies `Spec => []PayloadsIntact` | `HeapInv`: no cell outside the segments a call works on is written |
| `Ext2Proofs!CountsCorrect` | `Contract` implies `Spec => []CountsAgree` | `Rest`: which blocks are whose, with `i_blocks` and the sizes that say so |
| `Ext2Proofs!OwnersCorrect` | `Contract` implies `Spec => []OneOwner` | `Rest`; a pointer is stored where none was, and to a block that was free |
| `Ext2Proofs!LeaksCorrect` | `Contract` implies `Spec => []NoBlockLeaks` | `Rest`: until `spoilt`, the blocks of a file are the first `i_blocks` ones in the order of `FreePath` |
| `Ext2Proofs!BlocksImplementStore` | `Contract` implies `Spec => ImplementsFiles` | `Rest`, of which, until `spoilt`, `NothingBehind` says that words behind the end are zero; every write of a block changes the words it should and no other |
| `Ext2Proofs!GrowthCounts` | `GrowthContract` implies `GrowthSpec => []CountIsTree` | `GrowthInv`: the blocks that are there are those on the way to the first n content blocks, for some n, and `i_blocks` is `get_block_count(n)` |
| `Ext2Proofs!GrowthContent` | `GrowthContract` implies `GrowthSpec => []ContentIsPrefix` | `GrowthInv`, and that the first index of a path tells how long it is |
| `VmemProofs!FramesHaveOneOwner` | `Spec => []OneOwner` | `PagingInv`: some function gives every frame its one owner (a directory, a table, a page, the drive), and all that memory says of frames agrees with it |
| `VmemProofs!ValidatedPointersAreUsable` | `Spec => []ValidatedIsAccessible` | `PagingInv`: a table under an entry of the user's half was made with user flags, also those `MapFrameBuffer` adds |
| `VmemProofs!PagesStayMapped` | `Spec => MappingsAreKept` | every function's result is related to the machine it was given by `Moves` |
| `BootProofs!KernelIsAsChosen` | `Spec => []KernelAsChosen` | `LoadInv` and `ArgsInv`: blocks before the counter are in place, and the handler is out before the options are read |
| `BootProofs!ScreenIsCurrent` | `Spec => []ScreenShowsState` | `ScreenInv`: while `bmain` draws and no key came, the box is as far as it has got |
| `BootProofs!LinesAreInPlace` | `Spec => []LinesInPlace` | `LinesInv`: at which steps the column and the colour are again those of what is printed, whatever a handler left |

### The arguments

*Keyboard.* The byte that `sc3_to_usb[0xF0]` reads lies behind the table, so the build
decides it. `BuildIsBenign` says it is not the code of a modifier; if it were, every
release would set `mod`. The two theorems about modifiers have it as a hypothesis,
`NothingIsLost` does not.

*Files.* `NoUseAfterFree` is not inductive: a count that is too small frees a node only
later. `HeldOK` compares the count of each node with the number of its owners, the
descriptors that have it and the working directory, for every call that hands a node on
(`kopen` to a descriptor, `chdir`) or drops one. With links a count may exceed the
number of owners, since the code opens some nodes twice (`MCVfsLeak`); so that part is an
inequality, and `NodesAreFreed` assumes an image without links (`NoLinks`), as `vfs_files`
has. Owners must not find a freed inode either, which needs `DiskInv`: an entry names an
allocated inode, and a directory has one entry. What `kopen_recur` opens and frees for a
path of any length through links of any depth is `KopenEnds`, by induction on the links
left and, within one call, on the names left. The library's induction takes an operator;
`Induction` is for sets of numbers instead and follows from the fact that the strict subset
order of finite sets is well founded. `NoSockets` excludes `mknod` of a socket,
which `fs_finddir` does not find and a second `mknod` therefore doubles.

*Heap.* What the run checks says nothing of which cells are headers before one has walked
the heap, so it cannot be shown step by step. `HeapInv` says there is a set `S` of
addresses (as with the owner of a frame, it is no variable of the model) such that the
segments at `S` tile the heap (`Sound`): each has a header and a footer that agree and the
next begins where it ends; no two holes are neighbours; the index lists each hole once;
what lies in front of `Start` is no footer, so that `free` joins nothing there. `Owned`
adds that the segments in use belong one each to the clients, have room for what was asked
and hold it. The lemmas go from the inside out:
`Rebuilt` shows that replacing the segments of one region by others leaves the rest sound;
cutting a hole, joining left and right, growing the last hole and splitting behind a
segment are each shown to be such a replacement, and `Changed` composes two of them. `realloc`
is the longest: it may claim the hole behind it and call itself again, and that ends with
the second call because there is no third hole to claim. As that call adds the overhead
once more to a size that has it already, there must be room for twice the overhead
(`Asked`); the part of `Careful` about realloc provides it. A segment may thus be larger
than what was asked for, and is shown to be at least as large. `WalkIs` then leads back to what the run
checks: following headers from `Start` reaches all of `S` and the end, by induction on the
steps (`Induction`, as for the files).

`Contract` is `Careful /\ ~ Shrinking /\ Aligns \subseteq {0}`, which the constants of the
run `heap` satisfy. It is what the code needs: for each of its parts section 3 names a
configuration without it where an assertion of the code fails.

*Blocks of ext2.* `Rest` is the invariant, and `Resting` proves it of all reachable disks.
`Fine` says what holds whatever failed: the counts are those of the bitmaps, the pointers
of the inodes and of the indirect blocks make a tree in which no block occurs twice
(`Whole`), and `i_blocks` of a file is `get_block_count` of the blocks of content it
has (`Nodes`). Until `spoilt` also `Tidy` holds: the blocks of a
file are exactly those `free_inode_block` frees for the numbers below `i_blocks`.
This has to be known because a file shrinks by numbers: `free_inode_blocks` frees the last
number, and only because nothing hangs below that block (`UnderLater`) is no block lost. Once unlink has freed a wrong block of a directory only
`Whole` and `Nodes` are left, and they are enough for `CountsAgree` and `OneOwner`: what is freed
is a block of the file (`FreeOneIs`), whatever hung below it is lost and stays marked,
and freeing stops where an indirect block is missing (`LeftStopped`). Files are
written past their end and grow by `get_content_blocks`; `ContentIs` shows that it inverts
`get_block_count`, and `RealIsFree` that `get_real_block` and `free_inode_block`, which
divide in different ways, mean the same place. For contents, `Sized` and `Fitting` relate `i_size` to the blocks,
and `NothingBehind` says that the words behind the end of a file are zero: a write that
leaves a hole exposes them. TLC checked `Rest` and `Contract` as invariants under the
bounds of the run before it was proved.

`Contract` is `OnlySound` and a bound on files, `NDIR + P + P` blocks: one block of
pointers under the doubly indirect block, or 8 MB with blocks of 4 KB (12 direct blocks,
1024 numbers in a block). Line 597 divides by `p*p+p` beyond it and the theorems would not
hold. The constants of the run satisfy it.

*Growth of a file.* Neither `CountIsTree` nor `ContentIsPrefix` is inductive: that a count
is right says nothing of the block the next allocation adds. `GrowthInv` says which blocks
there are. One lemma for each level (`DirectIs`, `SingleIs`, `DoubleIs`, `TripleIs`) writes
the number of a content block by its digits to the base `P` and computes from them its
path, the count of blocks up to it, and that `get_content_blocks` leads back; `AddsExists`
finds which of the blocks on the way were not there before (one to four, by the digits that
are zero) and that `get_block_count` grows by as many. Shrinking goes by numbers as above,
under `GrowthContract`: `Shrinkable` is at most `NDIR + P + P + 3`, 15 in the run; a file may
grow beyond it.

*Paging.* `OneOwner` says no two users share a frame; what keeps it is that all who refer
to a frame (entries of directories and of tables, the window's index, the drive's list)
agree on what it is. The owner function is that agreement. It is not a variable of the
model: the invariant says there is one, a step that takes a frame extends it. Since
`kmalloc`, the window and `vmem_get_page` call each other, each is shown to turn a sound
machine into a sound machine with no mapping changed but those asked for (`Moves`), from
the innermost out. `MapFrameBuffer` is the one that moves pages: a frame of device memory has
no owner, and the frame it replaces keeps its own, which is lost and stays marked; the
table it adds under an entry of the user's half has user flags, so `ValidatedIsAccessible`
survives it, and of the kernel's half only pages that were not mapped are changed before
the machine ends.

*Boot loader.* The byte-wide counter of `ext2_read_file` goes round at `ByteMod`; the blocks
that were read stay, so a load that ends is complete however often it went round.
For the lines (`LinesInv`), each part of the frame, the menu and boot's messages place
column and colour themselves before they print, so that what a handler left is only seen by
the part it interrupted; the sides of the box take their colour from the brand, which is
the menu's too.

### The assumptions

| Assumption | Says | Because |
|---|---|---|
| `SzAssumption`, `KeysAssumption` | a ring and a line of at least one byte; the key map gives byte strings; the break code is no key | `pipe_create(128)` in `ps2hid.c:217`; `keyboard.c` and `ps2hid.c` |
| `CallsAssumption` | callers write byte strings | they pass pointers to bytes |
| `AnsiAssumption` | a screen of 1 to 65535 columns and lines, at least one argument and one digit, default colors of the palette | `ansi_init` takes `uint16_t`; the arrays of `ansi_ctx_t` |
| `BootAssumption` | counts are numbers; a direct block at least; `ByteMod <= Ptrs` | 12 direct blocks, 256 values of a byte, and 1024 pointers in a block of `mke2fs -b4096` |
| `HeapAssumption` | the heap starts behind address 0 on a page and has room for a header and a footer at first; its end and its limit are below `W`, so that no address in it wraps | `vmem_heap_create` asserts the pages (`heap.c:23`); kernel and user heaps end below `0xd0000000` and are created with a page at least |
| `MapAssumption`, `BlocksAssumption` | a direct block and a number per block at least; a group and a block per group at least; block 0 and the blocks of the file system itself are on the disk; inode numbers, offsets and sizes are numbers | `EXT2_NDIR_BLOCKS` is 12, `mke2fs` makes the super block |
| `GrowthAssumption` | the bound on content blocks is at most what a path of four indices reaches | the code has no more levels; a larger file has no place |
| `VmemAssumption` | the first free frame is a multiple of a word of the bitmap; the window's bitmap has more bits than the window has pages; tables below the window are numbered from 0 and are user's or kernel's, and their pages are in the address space; the heap lies in the kernel's; device memory is in one piece behind the frames | frame `0x100` and 32 bits; 262144 bits and 65536 pages (`vmem.c:46`); the window starts at `0xf0000000` and ends the address space, and `entry.asm` has removed the identity mapping; the heap ends at `0xcffff000` at most (`vmem.c:80`); a frame buffer is an address and a size |
| `TreeAssumption` | ext2 is mounted once, on `/`; static nodes are no inodes; no driver mounts a link | `kmain`'s mounts and the drivers' nodes |
| `VfsAssumption` | the image is sound: a name is given once and to an allocated inode, a directory has one name, links have targets; no node on the heap has the address of a static one; the table has an entry at first | `mke2fs` makes the image; `max_sz` is 4 at first (`process.c:60`) |

TLC evaluates each of them with the constants of its run.

### What is only model-checked

* Liveness (`AllBytesReachShell`, `CallsReturn`, `CountdownEnds`): out of the prover's reach.
* `Heap` outside `Contract`: there the code fails its own assertions.
* `Ext2Blocks` outside its `Contract`: larger files are freed wrongly, and the truncations
  that `OnlySound` excludes, that of `open` to 0 among them, take or leave blocks they should
  not; nor is a write of 0 words in the model, which goes over the whole disk.
* `Stdio`, `Ide` and `Ext2Dir`: not proved, see section 2.
* `NoLeak`, `NamesUnique` and `ExclusiveOpenIsFresh` on images with links: the first two fail
  there, the third holds on the paths the run `vfs` enumerates.

## 5. What is not modelled

* set-up code that runs once before anything else (descriptor tables, the jump to the
  higher half, the order of `kmain`; its mounts and the pages it maps are in `VfsTree` and
  `Vmem`), real-mode assembly, BIOS calls and the switches of processor mode;
* port protocols of device detection (IDE identify, PCI scan, `ps2hid_install`): their
  outcome is a choice;
* glyphs, the frame buffer, font parsing, the layout of what is printed;
* pure functions of the C library (strings, conversions, formatted output, mathematics),
  and of its streams the list of open ones and pushed-back characters;
* the parsing of the ext2 metadata in the boot loader and the copying of ELF segments;
* the lists and the tree of `misc`, straight-line code over a few pointers with one caller
  at a time; the mount tree they hold is in `VfsTree`;
* the shell's commands: sequences of system calls, which `Vfs` makes in every order;
* in the modelled components: error returns that change nothing, `sysfunc`, `ioctl`, `getcwd` and
  `readdir`, which change none of the modelled state, and what nothing calls:
  `vmem_heap_contract`, `pipe_destroy`, `vmem_frame_free`, `fs_chmod` and `fs_chown`;
* owners, modes and times of inodes; the byte layout of ext2 tables. That the inode table
  of a second group is indexed with the wrong number (`ext2fs.c:270`) is therefore only a hazard
  on the list.
