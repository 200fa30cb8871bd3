-------------------------------- MODULE Ide --------------------------------
(***************************************************************************)
(* The IDE driver (fs/ide.c) and the drive it talks to.  ata_read and      *)
(* ata_write cut a request into transfers of whole blocks; a transfer sets *)
(* up the task file and the bus master, starts the command and polls until *)
(* the drive is done.  The drive runs on its own: it moves the data        *)
(* through the DMA buffer at any moment after the bus master was started.  *)
(* System calls run with interrupts off: the drive's interrupt is taken    *)
(* between two of them, if the controller still holds it then, or, while   *)
(* the kernel starts, between any two steps of the driver.                 *)
(***************************************************************************)
EXTENDS Integers, Sequences

CONSTANTS
  SectorSz,      \* bytes of a sector, 512
  SPB,           \* ATA_SECTORS_PER_BLOCK, 8
  RegSz,         \* values of a task-file register, 256
  Sectors,       \* the size of the drive
  Width,         \* values of size_t, and of the signed off_t
  Zero,          \* the byte 0
  Image,         \* what is on the drive at first: a byte per address
  Signatures,    \* what may answer on the channel: "error", "pata", "atapi", "other"
  EarlyData      \* whether the drive may show DRQ instead of BSY while data moves

BlockSz == SectorSz * SPB

ASSUME IdeAssumption ==
  /\ {SectorSz, SPB, RegSz, Sectors, Width} \subseteq Nat \ {0}
  /\ SPB < RegSz
  /\ EarlyData \in BOOLEAN

VARIABLES
  channel,        \* what is on the channel, external
  mounted,       \* whether /dev/ada exists
  platter,       \* the bytes on the drive
  regs,          \* task file: what each register got last, and before that
  drive,         \* phase ("ready", "busy", "data"), command, first sector, INTRQ
  bm,            \* bus master: start bit, direction bit, IRQ bit
  dma,           \* the DMA buffer, dma_start
  pending,       \* the interrupt controller holds IRQ 14
  \* the request being served
  pc,            \* where the driver is
  seen,          \* the IRQ bit as the poll loop read it
  req,           \* kind, caller's data, bytes to return, transfers to do
  dir            \* what the transfer at the head of req.plan does now

wires == <<channel, platter, regs, drive, bm, dma, pending>>
ideVars == <<wires, mounted, pc, seen, req, dir>>

\* memcpy of n bytes; memory behind the end is hit too.
Copied(dst, at, src, from, n) ==
  [i \in DOMAIN dst \union (at .. at + n - 1) |->
     IF i \in at .. at + n - 1 THEN src[from + i - at] ELSE dst[i]]

Register == {"count", "lba0", "lba1", "lba2"}
NoRequest == [kind |-> "none", data |-> << >>, ret |-> 0, plan |-> << >>]

Init ==
  /\ channel \in Signatures
  /\ mounted = FALSE
  /\ platter = Image
  /\ regs = [r \in Register |-> [last |-> 0, before |-> 0]]
  /\ drive = [phase |-> "ready", cmd |-> "none", lba |-> 0, count |-> 0]
  /\ bm = [start |-> FALSE, toMemory |-> FALSE, irq |-> FALSE]
  /\ dma = [i \in 0 .. BlockSz - 1 |-> Zero]
  /\ pending = FALSE
  /\ pc = "detect"
  /\ seen = FALSE
  /\ req = NoRequest
  /\ dir = "read"

-----------------------------------------------------------------------------
(* Cutting a request.  A transfer moves n bytes between offset `at' of a block *)
(* and offset `from' of the caller's buffer.                                   *)

\* The value of x as an off_t.
Signed(x) == IF x % Width < Width \div 2 THEN x % Width ELSE (x % Width) - Width

\* Of a large drive the product does not fit: the limit may even be negative.
ata_max_offset == Signed(Sectors * SectorSz)

Least(a, b) == IF a < b THEN a ELSE b

\* The size that is left of a request at the end of the drive.  The sum is that of
\* off_t, taken to wrap.
Clipped(off, sz) ==
  IF off > ata_max_offset THEN 0
  ELSE IF Signed(off + Signed(sz)) > ata_max_offset THEN (ata_max_offset - off) % Width
  ELSE sz

Transfer(block, at, from, n) == [block |-> block, at |-> at, from |-> from, n |-> n]

\* end_block is computed from the size asked for, not the one that is left.
Plan(off, asked) ==
  LET sz == Clipped(off, asked)
      last == ((off + asked - 1) % Width) \div BlockSz
      prefix == Least(BlockSz - (off % BlockSz), sz)
      unaligned == off % BlockSz # 0 \/ sz < BlockSz
      head == IF unaligned THEN <<Transfer(off \div BlockSz, off % BlockSz, 0, prefix)>>
              ELSE << >>
      first == off \div BlockSz + Len(head)
      postfix == (off + sz) % BlockSz
      tail == IF postfix # 0 /\ first <= last
              THEN <<Transfer(last, 0, sz - postfix, postfix)>> ELSE << >>
      done == IF unaligned THEN prefix ELSE 0
  IN IF off > ata_max_offset THEN << >>
     ELSE head \o tail \o
          [k \in 1 .. last - Len(tail) - first + 1 |->
             Transfer(first + k - 1, 0, done + (k - 1) * BlockSz, BlockSz)]

\* Mutant: only the start of a request is read before it is written.
FirstDir_PrefixOnly(kind, plan) ==
  IF kind = "read" \/ (plan # << >> /\ Head(plan).at # 0) THEN "read" ELSE "write"

\* A part of a block is written by reading the block first.
FirstDir(kind, plan) ==
  IF kind = "read" \/ (plan # << >> /\ Head(plan).n < BlockSz) THEN "read" ELSE "write"

\* Where a transfer begins: data to write is copied to the DMA buffer first.
Entry(plan, d) ==
  IF plan = << >> THEN "done" ELSE IF d = "write" THEN "load" ELSE "program"

\* ata_read and ata_write up to the first transfer.
Begin(kind, off, sz, data) ==
  LET plan == Plan(off, sz)
      d == FirstDir(kind, plan)
  IN /\ req' = [kind |-> kind, data |-> data, ret |-> Clipped(off, sz), plan |-> plan]
     /\ dir' = d
     /\ pc' = Entry(plan, d)
     /\ UNCHANGED <<wires, mounted, seen>>

\* ide_init: reset, status and signature; IDENTIFY gives the size, and a
\* drive of size 0 is dropped again.
ata_device_detect ==
  /\ pc = "detect"
  /\ mounted' = (channel = "pata" /\ ata_max_offset # 0)
  /\ pc' = "idle"
  /\ UNCHANGED <<wires, seen, req, dir>>

-----------------------------------------------------------------------------
(* One transfer. *)

BSY == drive.phase = "busy"
t == Head(req.plan)

\* ata_device_write_block: the copy to the DMA buffer waits for nothing.
Load ==
  /\ pc = "load"
  /\ dma' = Copied(dma, t.at, req.data, t.from, t.n)
  /\ pc' = "program"
  /\ UNCHANGED <<channel, mounted, platter, regs, drive, bm, pending, seen, req, dir>>

\* What outportb leaves in a register that remembers the value before.
Put(r, v) == [last |-> v, before |-> r.last]
\* Byte k of a sector number.
ByteOf(lba, k) == (lba \div RegSz ^ k) % RegSz

\* The task file after the high and then the low half of the address.
TaskFile(lba) ==
  [r \in Register |->
     CASE r = "count" -> Put(Put(regs[r], 0), SPB)
       [] r = "lba0"  -> Put(Put(regs[r], ByteOf(lba, 3)), ByteOf(lba, 0))
       [] r = "lba1"  -> Put(Put(regs[r], ByteOf(lba, 4)), ByteOf(lba, 1))
       [] r = "lba2"  -> Put(Put(regs[r], ByteOf(lba, 5)), ByteOf(lba, 2))]

\* Up to the command: wait for the drive, reset the bus master, set the address.
SetUp ==
  /\ pc = "program"
  /\ ~ BSY
  /\ bm' = [start |-> FALSE, toMemory |-> dir = "read", irq |-> FALSE]
  /\ regs' = TaskFile(t.block * SPB)
  /\ pc' = "command"
  /\ UNCHANGED <<channel, mounted, platter, drive, dma, pending, seen, req, dir>>

\* The address the drive takes from the task file.
AddressOf(f) ==
  f["lba0"].last + RegSz * f["lba1"].last + RegSz^2 * f["lba2"].last
  + RegSz^3 * f["lba0"].before + RegSz^4 * f["lba1"].before + RegSz^5 * f["lba2"].before

\* The drive is busy until the data has moved; one that lets BSY go and shows
\* DRQ while it moves is possible with EarlyData.
Command ==
  /\ pc = "command"
  /\ ~ BSY
  /\ \E phase \in IF EarlyData THEN {"busy", "data"} ELSE {"busy"} :
       drive' = [phase |-> phase, cmd |-> dir, lba |-> AddressOf(regs),
                 count |-> regs["count"].last + RegSz * regs["count"].before]
  /\ pc' = "start"
  /\ UNCHANGED <<channel, mounted, platter, regs, bm, dma, pending, seen, req, dir>>

\* Mutant: the direction bit is set only when the bus master is reset.
Start_NoDirection ==
  /\ pc = "start"
  /\ bm' = [bm EXCEPT !.start = TRUE, !.toMemory = FALSE]
  /\ pc' = IF dir = "read" THEN "pollIrq" ELSE "wait"
  /\ UNCHANGED <<channel, mounted, platter, regs, drive, dma, pending, seen, req, dir>>

\* A read is polled by interrupt bit and status, a write by status alone.
Start ==
  /\ pc = "start"
  /\ bm' = [bm EXCEPT !.start = TRUE, !.toMemory = (dir = "read")]
  /\ pc' = IF dir = "read" THEN "pollIrq" ELSE "wait"
  /\ UNCHANGED <<channel, mounted, platter, regs, drive, dma, pending, seen, req, dir>>

\* Reading the status takes the drive's interrupt back; the interrupt
\* controller may have latched it.
Acknowledge == pending' \in {pending, FALSE}

PollIrq ==
  /\ pc = "pollIrq"
  /\ seen' = bm.irq
  /\ pc' = "pollDrive"
  /\ UNCHANGED <<wires, mounted, req, dir>>

PollDrive ==
  /\ pc = "pollDrive"
  /\ pc' = IF seen /\ ~ BSY THEN "finish" ELSE "pollIrq"
  /\ Acknowledge
  /\ UNCHANGED <<channel, mounted, platter, regs, drive, bm, dma, seen, req, dir>>

WaitDrive ==
  /\ pc = "wait"
  /\ ~ BSY
  /\ pc' = "finish"
  /\ Acknowledge
  /\ UNCHANGED <<channel, mounted, platter, regs, drive, bm, dma, seen, req, dir>>

\* The next transfer of the plan.
Advance ==
  LET rest == Tail(req.plan)
      d == FirstDir(req.kind, rest)
  IN /\ dir' = d
     /\ pc' = Entry(rest, d)
     /\ req' = [req EXCEPT !.plan = rest,
                           !.data = IF req.kind = "read"
                                    THEN Copied(@, t.from, dma, t.at, t.n) ELSE @]

\* The IRQ bit is cleared; a block that was read for a partial write is
\* written next, over the copy in the DMA buffer.
Finish ==
  /\ pc = "finish"
  /\ bm' = [bm EXCEPT !.irq = FALSE]
  /\ IF req.kind = "write" /\ dir = "read"
     THEN dir' = "write" /\ pc' = "load" /\ UNCHANGED req
     ELSE Advance
  /\ UNCHANGED <<channel, mounted, platter, regs, drive, dma, pending, seen>>

-----------------------------------------------------------------------------
(* The drive and its interrupt. *)

\* The bytes of the command that lie on the drive.
Addressed ==
  {i \in 0 .. Least(drive.count * SectorSz, BlockSz) - 1 :
     drive.lba * SectorSz + i < ata_max_offset}

\* Data moves when the bus master is started in the direction of the command.
Move ==
  /\ drive.phase # "ready"
  /\ bm.start
  /\ bm.toMemory = (drive.cmd = "read")
  /\ IF drive.cmd = "read"
     THEN /\ dma' = [i \in DOMAIN dma |->
                       IF i \in Addressed THEN platter[drive.lba * SectorSz + i] ELSE dma[i]]
          /\ UNCHANGED platter
     ELSE /\ platter' = [b \in DOMAIN platter |->
                           IF b - drive.lba * SectorSz \in Addressed
                           THEN dma[b - drive.lba * SectorSz] ELSE platter[b]]
          /\ UNCHANGED dma
  /\ drive' = [drive EXCEPT !.phase = "ready"]
  /\ bm' = [bm EXCEPT !.irq = TRUE]
  /\ pending' = TRUE
  /\ UNCHANGED <<channel, mounted, regs, pc, seen, req, dir>>

\* The caller's module says when interrupts are on.
ata_irq_handler ==
  /\ pending
  /\ pending' = FALSE
  /\ bm' = [bm EXCEPT !.start = FALSE, !.toMemory = FALSE]
  /\ UNCHANGED <<channel, mounted, platter, regs, drive, dma, pc, seen, req, dir>>

Driver == Load \/ SetUp \/ Command \/ Start \/ PollIrq \/ PollDrive \/ WaitDrive \/ Finish

IdeStep == ata_device_detect \/ Driver \/ Move

\* The driver is polled code, the drive is never stuck once it can move data.
IdeFairness == WF_ideVars(Driver) /\ WF_ideVars(Move)
=============================================================================
