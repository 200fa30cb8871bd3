-------------------------------- MODULE Vmem --------------------------------
(***************************************************************************)
(* Paging (arch/i386/vmem.c) with the callers that shape it: the kernel    *)
(* heap growing (mem/heap.c), the DMA pages of the IDE driver, the frame   *)
(* buffer, and the start of the program (misc/binfmt.c, misc/elf.c).       *)
(*                                                                         *)
(* Page tables are only reached through the window, a region of kernel     *)
(* pages that vmem_map_vaddr hands out and a hash map indexes by frame.    *)
(* Making an entry of that map allocates on the kernel heap, and growing   *)
(* the heap needs a page table.                                            *)
(*                                                                         *)
(* Addresses are page numbers, a page of the window is MapBase + its bit.  *)
(***************************************************************************)
EXTENDS Naturals, FiniteSetsExt, SequencesExt

CONSTANTS
  FrameCount,    \* frame_count; frames from here on are devices
  FirstFrame,    \* 0x100: the first megabyte is never handed out
  WordBits,      \* bits of a word of the bitmaps, 32
  WindowPages,   \* pages that map_pages_pt describes
  MapBits,       \* map_pages_count
  T,             \* entries of a table, 1024
  UserTables,    \* directory entries below 0xc0000000
  KernelTables,  \* and above, without the window's
  AddressPages,  \* pages of the address space, 2^20
  HeapPage,      \* the first page of the kernel heap that paging_init leaves out
  HeapMax,       \* heap->max
  PageRoom,      \* small allocations that fit into a page
  Devices,       \* frames of device memory, some callers map them
  MaxDma         \* bound: pages for DMA

VARIABLES
  m,             \* bitmaps, memory, window and its index, heap: see Init
  dirs,          \* directory -> paddr and pts, the kernel's is static
  current,       \* this_core->current_pd
  asked          \* the page a caller asked to map in the last step

vars == <<m, dirs, current, asked>>

MapBase == 1
H == INSTANCE HashMap WITH Sz <- 2, Hash <- LAMBDA frame : frame * WordBits, Null <- 0

KernelPd == FirstFrame            \* kernel_pts, part of the kernel's image
Tables == UserTables \union KernelTables
Pages == {t * T + i : t \in Tables, i \in 0 .. T - 1}
\* pdi and pti: the entry of the directory and that of the table for page v.
TableOf(v) == v \div T
SlotOf(v) == v % T
UserPages == {v \in Pages : TableOf(v) \in UserTables}

Empty == [frame |-> 0, user |-> FALSE]
Blank == [i \in 0 .. T - 1 |-> Empty]
BlankDir == [i \in Tables |-> Empty]
Entry(frame, user) == [frame |-> frame, user |-> user]

\* map with c at x, where it may have had nothing.
Put(map, x, c) == [y \in DOMAIN map \union {x} |-> IF y = x THEN c ELSE map[y]]

ASSUME VmemAssumption ==
  /\ {FrameCount, FirstFrame, WordBits, WindowPages, MapBits, T, PageRoom} \subseteq Nat \ {0}
  /\ FirstFrame % WordBits = 0
  \* More bits than pages: the window is overrun before its bitmap is full.
  /\ WindowPages < (MapBits \div WordBits) * WordBits
  \* The tables are those of the addresses below the window.
  /\ UserTables \intersect KernelTables = {}
  /\ Tables \subseteq Nat /\ \A t \in Tables : 0 .. t \subseteq Tables
  /\ AddressPages \in Nat \ {0} /\ Pages \subseteq 0 .. AddressPages - 1
  /\ {HeapPage, HeapMax} \subseteq Nat /\ HeapPage < HeapMax
  /\ \A v \in HeapPage .. HeapMax - 1 : TableOf(v) \in KernelTables
  \* A frame buffer is in one piece.
  /\ \A d \in Devices : d \in Nat /\ d >= FrameCount
  /\ Devices # {} => \E from, to \in Devices : Devices = from .. to

\* paging_init: the kernel's first table maps what is there up to the heap.
Init ==
  LET table == KernelPd + 1
      heapTable == TableOf(HeapPage)
      there == {v \in Pages : TableOf(v) = heapTable /\ v < HeapPage}
      frameOf(v) == table + 1 + SlotOf(v)
  IN /\ \E room \in 0 .. PageRoom :
          m = [frames   |-> {KernelPd, table} \union {frameOf(v) : v \in there},
               mem      |-> [x \in {KernelPd, table} |->
                               IF x = KernelPd
                               THEN [BlankDir EXCEPT ![heapTable] = Entry(table, FALSE)]
                               ELSE [i \in 0 .. T - 1 |->
                                       IF heapTable * T + i \in there
                                       THEN Entry(frameOf(heapTable * T + i), FALSE) ELSE Empty]],
               mapUsed  |-> {}, window |-> [w \in 0 .. WindowPages - 1 |-> 0],
               index    |-> H!hashmap_create,
               dma      |-> {},
               room     |-> room,           \* small allocations the holes can serve
               heapEnd  |-> HeapPage,
               state    |-> "runs"]
     /\ dirs = [d \in {"kernel"} |-> [paddr |-> KernelPd, pts |-> 0]]
     /\ current = "kernel"
     /\ asked = {}

-----------------------------------------------------------------------------
(* The bitmaps and the window. *)

\* vmem_frame_find_first_internal: whole words only.
FindFirst(bits, from, to) ==
  LET clear == ((from \div WordBits) * WordBits .. (to \div WordBits) * WordBits - 1) \ bits
  IN IF clear = {} THEN 0 ELSE Min(clear)
HasFree(bits, from, to) ==
  ~ ((from \div WordBits) * WordBits .. (to \div WordBits) * WordBits - 1) \subseteq bits

Stop(s, why) == [s EXCEPT !.state = IF @ = "runs" THEN why ELSE @]

\* vmem_frame_find_first: no frame is the end.
FreeFrame(s) == FindFirst(s.frames, FirstFrame, FrameCount)
Mark(s, f) ==
  IF HasFree(s.frames, FirstFrame, FrameCount) THEN [s EXCEPT !.frames = @ \union {f}]
  ELSE Stop(s, "out of memory")

\* The frame a page of the window shows.
Shown(s, frame) == s.window[H!hashmap_get(s.index, frame) - MapBase]
\* A directory or a table as the kernel reaches it.
DirFrame(s, ds, d) ==
  IF d = "kernel" THEN KernelPd ELSE s.window[ds[d].pts - MapBase]
TableFrame(s, pd, v) == Shown(s, s.mem[pd][TableOf(v)].frame)

\* Mutant: a page's frame is not marked.
TakePage_Unmarked(s, table, i, user) ==
  [s EXCEPT !.mem[table][i] = Entry(IF @.frame = 0 THEN FreeFrame(s) ELSE @.frame, user)]
\* Mutant: a page gets a new frame every time.
TakePage_Always(s, table, i, user) ==
  [Mark(s, FreeFrame(s)) EXCEPT !.mem[table][i] = Entry(FreeFrame(s), user)]

\* vmem_frame_alloc: a page that has a frame keeps it, the flags are set anew.
TakePage(s, table, i, user) ==
  IF s.mem[table][i].frame # 0
  THEN [s EXCEPT !.mem[table][i].user = user]
  ELSE [Mark(s, FreeFrame(s)) EXCEPT !.mem[table][i] = Entry(FreeFrame(s), user)]

\* vmem_heap_expand by a page, once the page's table can be reached.
HeapPageTaken(s, pd) ==
  [TakePage(s, TableFrame(s, pd, s.heapEnd), SlotOf(s.heapEnd), FALSE)
     EXCEPT !.heapEnd = @ + 1]

\* kmalloc of something small.  If no hole is left the heap grows, and if its
\* table is not in the window's index yet, mapping it calls kmalloc again,
\* with the same heap, for ever.
kmalloc(s, pd) ==
  IF s.room > 0 THEN [s EXCEPT !.room = @ - 1]
  ELSE IF s.heapEnd = HeapMax THEN Stop(s, "heap full")
  ELSE IF H!hashmap_has(s.index, s.mem[pd][TableOf(s.heapEnd)].frame)
  THEN [HeapPageTaken(s, pd) EXCEPT !.room = PageRoom - 1]
  ELSE Stop(s, "recursion")

\* Page w of the window shows frame; the index learns it after the allocation.
MapWindow(s, pd, w, frame) ==
  IF w >= WindowPages THEN Stop(s, "window overrun")
  ELSE LET s1 == [s EXCEPT !.frames = @ \union {frame}, !.window[w] = frame]
           s2 == IF H!hashmap_has(s.index, frame) THEN s1 ELSE kmalloc(s1, pd)
       IN [s2 EXCEPT !.index = H!hashmap_set(@, frame, MapBase + w)]

\* vmem_map_vaddr; the address it returns is the index's answer afterwards.
vmem_map_vaddr(s, pd, frame) ==
  IF H!hashmap_has(s.index, frame) THEN s
  ELSE LET w == FindFirst(s.mapUsed, 0, MapBits)
       IN MapWindow([s EXCEPT !.mapUsed = @ \union {w}], pd, w, frame)

-----------------------------------------------------------------------------
(* Tables. *)

\* Mutant: a new table is for the kernel whatever the flags say.
NewTable_KernelOnly(s, pd, t, user) ==
  LET f == FreeFrame(s)
      s1 == vmem_map_vaddr(Mark(s, f), pd, f)
  IN IF s1.state # "runs" THEN s1
     ELSE [s1 EXCEPT !.mem = [Put(@, Shown(s1, f), Blank) EXCEPT ![pd][t] = Entry(f, FALSE)]]

\* The directory entry is written after the table was mapped and cleared.
NewTable(s, pd, t, user) ==
  LET f == FreeFrame(s)
      s1 == vmem_map_vaddr(Mark(s, f), pd, f)
  IN IF s1.state # "runs" THEN s1
     ELSE [s1 EXCEPT !.mem = [Put(@, Shown(s1, f), Blank) EXCEPT ![pd][t] = Entry(f, user)]]

\* vmem_get_page with VMEM_GET_CREATE: the table exists and can be reached.
vmem_get_page(s, pd, v, user) ==
  LET t == TableOf(v)
      s1 == IF s.mem[pd][t].frame = 0 THEN NewTable(s, pd, t, user) ELSE s
  IN IF s1.state # "runs" THEN s1 ELSE vmem_map_vaddr(s1, pd, s1.mem[pd][t].frame)

\* What is left of a call that stopped the machine is its reason.
After(s) == m' = IF s.state = "runs" THEN s ELSE [m EXCEPT !.state = s.state]
Running == m.state = "runs"
CurrentPd == DirFrame(m, dirs, current)
OnPage(s, pd, v, Op(_, _, _)) == IF s.state # "runs" THEN s ELSE Op(s, TableFrame(s, pd, v), SlotOf(v))

\* A request the holes cannot serve; what is left of the new page serves others.
HeapGrows ==
  /\ Running
  /\ m.heapEnd < HeapMax
  /\ LET s == vmem_get_page(m, CurrentPd, m.heapEnd, FALSE)
     IN \E room \in 0 .. PageRoom :
          After(IF s.state # "runs" THEN s
                ELSE [HeapPageTaken(s, CurrentPd) EXCEPT !.room = room])
  /\ asked' = {}
  /\ UNCHANGED <<dirs, current>>

SmallAllocation ==
  /\ Running
  /\ After(kmalloc(m, CurrentPd))
  /\ asked' = {}
  /\ UNCHANGED <<dirs, current>>

\* ata_device_init: a page for the drive, mapped for the driver.
DmaPage ==
  /\ Running
  /\ Cardinality(m.dma) < MaxDma
  /\ LET f == FreeFrame(m)
     IN After([vmem_map_vaddr(Mark(m, f), CurrentPd, f) EXCEPT !.dma = @ \union {f}])
  /\ asked' = {}
  /\ UNCHANGED <<dirs, current>>

\* vmem_map_page_find_first_n
FindFirst_n(s, n) ==
  Min({w \in 0 .. MapBits - 1 : (w .. w + n - 1) \intersect s.mapUsed = {}})

\* vmem_map_vaddr_n, used for the frame buffer of Bochs: adjacent pages of the
\* window, all marked before any is mapped.
vmem_map_vaddr_n ==
  /\ Running /\ current = "kernel" /\ Devices # {}
  /\ \A d \in Devices : ~ H!hashmap_has(m.index, d)
  /\ LET n == Cardinality(Devices)
         w0 == FindFirst_n(m, n)
         mapped[i \in 0 .. n] ==
           IF i = 0 THEN [m EXCEPT !.mapUsed = @ \union (w0 .. w0 + n - 1)]
           ELSE MapWindow(mapped[i - 1], CurrentPd, w0 + i - 1, Min(Devices) + i - 1)
     IN After(mapped[n])
  /\ asked' = {}
  /\ UNCHANGED <<dirs, current>>

\* vmem_clone_dir: the program's half is empty in the kernel's directory, whose
\* other half is linked.  Only mapping it marks the new directory's frame.
vmem_clone_dir(d) ==
  /\ Running /\ d \notin DOMAIN dirs
  /\ LET s0 == kmalloc(m, CurrentPd)
         f == FreeFrame(s0)
         s1 == vmem_map_vaddr(s0, CurrentPd, f)
         linked == [t \in DOMAIN BlankDir |->
                      IF t \in KernelTables THEN s1.mem[KernelPd][t] ELSE Empty]
     IN /\ After(IF ~ HasFree(s0.frames, FirstFrame, FrameCount) THEN Stop(s0, "out of memory")
                 ELSE IF s1.state # "runs" THEN s1
                 ELSE [s1 EXCEPT !.mem = Put(@, Shown(s1, f), linked)])
        /\ dirs' = IF m'.state # "runs" THEN dirs
                   ELSE Put(dirs, d, [paddr |-> f, pts |-> H!hashmap_get(s1.index, f)])
  /\ asked' = {}

\* process_init makes a directory for the idle process.
SpawnIdle ==
  /\ current = "kernel"
  /\ vmem_clone_dir("idle")
  /\ UNCHANGED current

\* binfmt_system: a directory for the program, which becomes the current one.
StartProgram ==
  /\ current = "kernel"
  /\ vmem_clone_dir("program")
  /\ current' = IF m'.state = "runs" THEN "program" ELSE current

\* elf_exec: a page of a segment, of the heap or of the stack.
UserPage ==
  /\ Running /\ current # "kernel"
  /\ \E v \in UserPages :
       /\ After(OnPage(vmem_get_page(m, CurrentPd, v, TRUE), CurrentPd, v,
                       LAMBDA s, table, i : TakePage(s, table, i, TRUE)))
       /\ asked' = {v}
  /\ UNCHANGED <<dirs, current>>

\* vmem_validate_user_ptr for k pages from v on.  The end is computed modulo the
\* size of an address: behind the last page it wraps and nothing is looked at.
vmem_validate_user_ptr(v, k) ==
  \A p \in v .. (v + k - 1) % AddressPages :
    LET e == m.mem[CurrentPd][TableOf(p)]
    IN /\ p \in Pages            \* those of the window are not the program's
       /\ e.frame # 0
       /\ m.mem[e.frame][SlotOf(p)].frame # 0
       /\ m.mem[e.frame][SlotOf(p)].user

\* A system call looks at a pointer: a table no one asked for gets mapped.
CheckPointer ==
  /\ Running /\ current # "kernel"
  /\ \E v \in Pages :
       /\ m.mem[CurrentPd][TableOf(v)].frame # 0
       /\ After(vmem_map_vaddr(m, CurrentPd, m.mem[CurrentPd][TableOf(v)].frame))
  /\ asked' = {}
  /\ UNCHANGED <<dirs, current>>

\* vmem_frame_map_addr for a page, which shows frame from here on.
MapDevice(s, pd, v, frame) ==
  OnPage(vmem_get_page(s, pd, v, TRUE), pd, v,
         LAMBDA s1, table, i : [s1 EXCEPT !.frames = @ \union {frame},
                                          !.mem[table][i] = Entry(frame, TRUE)])

\* A kernel that loses a page of its own has come to an end.
KernelPageIn(range) ==
  \E p \in range \ UserPages :
    LET e == m.mem[CurrentPd][TableOf(p)] IN e.frame # 0 /\ m.mem[e.frame][SlotOf(p)].frame # 0

\* IOCTL_VID_MAP: vmem_frame_map_addr, page by page from v on.  What ptr_validate
\* says of v is not used (what it looks at is in CheckPointer), so v is any page, also of the
\* kernel; the pages of the window, which would be its end too, are left out.
MapFrameBuffer ==
  /\ Running /\ current # "kernel" /\ Devices # {}
  /\ \E v \in Pages :
       LET n == Cardinality(Devices)
           mapped[i \in 0 .. n] ==
             IF i = 0 THEN m
             ELSE MapDevice(mapped[i - 1], CurrentPd, v + i - 1, Min(Devices) + i - 1)
       IN /\ v .. v + n - 1 \subseteq Pages
          /\ IF mapped[n].state = "runs" /\ KernelPageIn(v .. v + n - 1)
             THEN m' = [mapped[n] EXCEPT !.state = "kernel overwritten"]
             ELSE After(mapped[n])
          /\ asked' = v .. v + n - 1
  /\ UNCHANGED <<dirs, current>>

Next == \/ HeapGrows \/ SmallAllocation \/ DmaPage \/ vmem_map_vaddr_n
        \/ SpawnIdle \/ StartProgram \/ UserPage \/ CheckPointer \/ MapFrameBuffer

Spec == Init /\ [][Next]_vars

-----------------------------------------------------------------------------
(* Properties. *)

\* What the processor finds for page v in directory d: 0 is a page fault.
Walk(d, v) ==
  LET e == m.mem[dirs[d].paddr][TableOf(v)]
  IN IF e.frame = 0 THEN 0 ELSE m.mem[e.frame][SlotOf(v)].frame

\* The kernel's tables and pages are linked into every directory: one use.
Owner(d, v) == IF v \in UserPages THEN d ELSE "kernel"
Uses(f) ==
  {<<"directory", d>> : d \in {d \in DOMAIN dirs : dirs[d].paddr = f}}
  \union {<<"table", Owner(x[1], x[2]), TableOf(x[2])>> :
            x \in {x \in (DOMAIN dirs) \X Pages : m.mem[dirs[x[1]].paddr][TableOf(x[2])].frame = f}}
  \union {<<"page", Owner(x[1], x[2]), x[2]>> :
            x \in {x \in (DOMAIN dirs) \X Pages : Walk(x[1], x[2]) = f}}
  \union {<<"dma", f>> : x \in m.dma \intersect {f}}

\* A frame of memory is a directory, or a table, or a page, or the drive's, never
\* two of them, and as long as it is any the bitmap says so.  (A directory's frame
\* is never marked by vmem_clone_dir itself.)
OneOwner ==
  \A f \in FirstFrame .. FrameCount - 1 :
    /\ Cardinality(Uses(f)) <= 1
    /\ Uses(f) # {} => f \in m.frames

\* Whatever is allocated, cloned, created or looked at, a page that is mapped stays
\* where it is, in every directory: only IOCTL_VID_MAP moves pages, those it was asked
\* for and to device memory, and of another directory only in the kernel's half, where
\* the tables are shared.  Nothing else appears but pages asked for and the heap's.
MappingsAreKept ==
  [][\A d \in DOMAIN dirs, v \in Pages :
       Walk(d, v)' # Walk(d, v) =>
         \/ Walk(d, v) = 0 /\ v \in m.heapEnd .. m'.heapEnd - 1
         \/ /\ v \in asked' /\ (d = current \/ v \notin UserPages)
            /\ Walk(d, v) = 0 \/ Walk(d, v)' \in Devices]_vars

\* What vmem_validate_user_ptr accepts of the program's half the program itself could
\* touch, also what a frame buffer was mapped on: the function reads the pages'
\* entries only, the processor the directory's flags too.
ValidatedIsAccessible ==
  Running /\ current # "kernel" =>
    \A v \in UserPages, k \in 1 .. AddressPages :
      v .. v + k - 1 \subseteq UserPages /\ vmem_validate_user_ptr(v, k) =>
        \A p \in v .. v + k - 1 : /\ m.mem[dirs[current].paddr][TableOf(p)].user
                                 /\ Walk(current, p) # 0

\* The heap grows whenever it has to: mapping its table ends.
HeapGrowthEnds == m.state # "recursion"

\* A full window is noticed before the pages behind it are handed out.
WindowInBounds == m.state # "window overrun"

\* The frame bitmap is only written where it is.
BitmapInBounds == m.frames \subseteq 0 .. FrameCount - 1

\* The kernel's half is the same in every directory.
KernelLinked ==
  \A d \in DOMAIN dirs, v \in Pages \ UserPages : Walk(d, v) = Walk("kernel", v)

\* A marked frame is used by someone: nothing is lost.
NoFrameLost == \A f \in m.frames \intersect (FirstFrame .. FrameCount - 1) : Uses(f) # {}
=============================================================================
