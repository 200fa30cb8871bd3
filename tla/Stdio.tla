------------------------------- MODULE Stdio -------------------------------
(***************************************************************************)
(* A stream of the C library (libc/stdio) on a partition (fs/dospart.c) of *)
(* an IDE drive (Ide): one program opens /dev/ada1 with fopen and uses     *)
(* fwrite, fread, fseek, ftell, fflush, setvbuf and fclose, or exits with  *)
(* the stream open.  Writes collect in the stream's buffer; a system call  *)
(* moves the descriptor's offset and becomes one request of the driver.    *)
(***************************************************************************)
EXTENDS Ide

CONSTANTS
  BUFSIZ,        \* the size of a stream's buffer, 1024
  Newline,       \* the byte "\n"
  Texts,         \* what the program writes
  ReadSizes,     \* how much it reads
  SeekOffsets, SeekTargets,   \* by how much it seeks, and where that may lead
  Modes,         \* how it opens the stream: "r", "r+", "w", "a"
  Junk,          \* what the buffer of a new FILE may seem to hold already
  MaxCalls       \* bound: calls of the library

VARIABLES
  part,          \* the partition, once the kernel has mapped it
  file,          \* the FILE: buffer, its size and contents, mode, end-of-file flag
  fd,            \* the descriptor: access and offset
  call,          \* the library call in progress
  answer,      \* what the last call returned to the program
  calls,         \* how many calls were made
  was,           \* history: contents and position when the call began
  careful        \* history: whether the program has flushed before it changed
                 \* direction, and handed a buffer only what the descriptor takes

stdioVars == <<part, file, fd, call, answer, calls, was, careful>>
vars == <<ideVars, stdioVars>>

EACCES == 13
NoPart == [start_lba |-> 0, num_sectors |-> 0]
NoFile == [open |-> FALSE, buf |-> FALSE, buf_sz |-> 0, data |-> << >>,
           mode |-> "full", eof |-> FALSE]
NoFd == [read |-> FALSE, write |-> FALSE, off |-> 0]
NoCall == [op |-> "none", left |-> << >>, n |-> 0, flush |-> FALSE]

Answer(op, ret, data) == [op |-> op, ret |-> ret, data |-> data]

StdioInit ==
  /\ Init
  /\ part = NoPart
  /\ file = NoFile
  /\ fd = NoFd
  /\ call = NoCall
  /\ answer = Answer("none", 0, << >>)
  /\ calls = 0
  /\ was = [content |-> << >>, pos |-> 0]
  /\ careful = TRUE

-----------------------------------------------------------------------------
(* The partition. *)

PartSize == (part.num_sectors * SectorSz) % Width

\* dospart_map: the kernel reads the first sector and takes its entries.  One
\* active entry is modelled, its two fields are the first bytes of the
\* sector; a sector without the magic number, or an entry that is not
\* active, has no start.
MapStart ==
  /\ pc = "idle" /\ mounted /\ part = NoPart /\ call = NoCall
  /\ call' = [NoCall EXCEPT !.op = "map"]
  /\ Begin("read", 0, SectorSz, [i \in 0 .. SectorSz - 1 |-> Zero])
  /\ UNCHANGED <<mounted, part, file, fd, answer, calls, was, careful>>

MapDone ==
  /\ pc = "done" /\ call.op = "map"
  /\ part' = [start_lba |-> req.data[0], num_sectors |-> req.data[1]]
  /\ call' = IF part'.start_lba = 0 THEN [NoCall EXCEPT !.op = "nopart"] ELSE NoCall
  /\ pc' = "idle" /\ req' = NoRequest
  /\ UNCHANGED <<wires, mounted, seen, dir, file, fd, answer, calls, was, careful>>

\* Mutant: the size is clipped as if off were 0.
InPart_NoOffset(off, sz) == IF sz > PartSize THEN PartSize ELSE sz

\* dospart_read, dospart_write: what is left of a request at the partition's end.
\* A sum that wraps is not noticed to be behind it.
InPart(off, sz) == IF (off + sz) % Width > PartSize THEN PartSize - off ELSE sz

\* sys_read and sys_write up to the driver; without access they return at once.
Request(kind, allowed, sz, data) ==
  IF ~ allowed
  THEN /\ req' = [NoRequest EXCEPT !.kind = kind, !.ret = - EACCES]
       /\ pc' = "done"
       /\ UNCHANGED <<wires, seen, dir>>
  ELSE IF fd.off % Width > PartSize
  THEN /\ req' = [NoRequest EXCEPT !.kind = kind]
       /\ pc' = "done"
       /\ UNCHANGED <<wires, seen, dir>>
  ELSE Begin(kind, Signed(fd.off + part.start_lba * SectorSz), InPart(fd.off, sz), data)

Bytes(seq) == [i \in 0 .. Len(seq) - 1 |-> seq[i + 1]]
Zeros(n) == [i \in 0 .. n - 1 |-> Zero]

sys_write(seq) == Request("write", fd.write, Len(seq), Bytes(seq))
sys_read(n) == Request("read", fd.read, n, Zeros(InPart(fd.off, n)))

\* The offset moves by what was transferred.
Returned == [fd EXCEPT !.off = @ + (IF req.ret > 0 THEN req.ret ELSE 0)]

-----------------------------------------------------------------------------
(* What a program sees: the partition's bytes under the buffered ones. *)

OnDisk == [i \in 0 .. PartSize - 1 |-> platter[part.start_lba * SectorSz + i]]
Seen == [i \in 0 .. PartSize - 1 |->
           IF i \in fd.off .. fd.off + Len(file.data) - 1
           THEN file.data[i - fd.off + 1] ELSE OnDisk[i]]
Position == fd.off + Len(file.data)

-----------------------------------------------------------------------------
(* Calls that need no system call, or one that returns at once. *)

Ready == pc = "idle" /\ call = NoCall /\ part # NoPart /\ calls < MaxCalls
         /\ answer.op # "exit"
         /\ ~ pending   \* the interrupt is taken before the program runs on

\* ok: whether a careful program makes the call now.
Immediate(result, ok) ==
  /\ Ready
  /\ answer' = result
  /\ calls' = calls + 1
  /\ careful' = (careful /\ ok)
  /\ UNCHANGED <<ideVars, part, call, was>>

\* __fmodeflags, as sys_open then sees it.
Access(mode) == [read |-> mode \in {"r", "r+"}, write |-> mode # "r",
                 off |-> IF mode = "a" THEN PartSize ELSE 0]

\* The index of the buffer is left as malloc found it.
fopen(mode) ==
  /\ ~ file.open
  /\ \E junk \in Junk :
       file' = [open |-> TRUE, buf |-> TRUE, buf_sz |-> BUFSIZ, data |-> junk,
                mode |-> "full", eof |-> FALSE]
  /\ fd' = Access(mode)
  /\ Immediate(Answer("fopen", 0, << >>), TRUE)

\* __stdio_seek moves the descriptor and leaves the buffer alone.
fseek(off, whence) ==
  LET target == CASE whence = "set" -> off
                  [] whence = "cur" -> fd.off + off
                  [] whence = "end" -> PartSize + off
  IN /\ file.open
     /\ target \in SeekTargets
     /\ fd' = [fd EXCEPT !.off = target]
     /\ Immediate(Answer("fseek", target, << >>), file.data = << >>)
     /\ UNCHANGED file

ftell ==
  /\ file.open
  /\ Immediate(Answer("ftell", fd.off + Len(file.data), << >>), TRUE)
  /\ UNCHANGED <<file, fd>>

setvbuf(type, sz) ==
  /\ file.open
  /\ file' = [file EXCEPT !.buf = type # "none", !.mode = type,
                          !.buf_sz = IF type = "none" THEN 0 ELSE sz]
  /\ Immediate(Answer("setvbuf", 0, << >>), file.data = << >>)
  /\ UNCHANGED fd

-----------------------------------------------------------------------------
(* Calls that reach the drive. *)

Enter(c, ok) ==
  /\ Ready
  /\ call' = c
  /\ calls' = calls + 1
  /\ was' = [content |-> Seen, pos |-> Position]
  /\ careful' = (careful /\ ok)
  /\ UNCHANGED <<ideVars, part, file, fd, answer>>

\* fwrite, fputs and fputc hand their bytes to __stdio_write.
fwrite(text) ==
  /\ file.open
  /\ Enter([NoCall EXCEPT !.op = "fwrite", !.left = text, !.n = Len(text)],
           fd.write /\ (file.buf => Position + Len(text) <= PartSize))

fread(n) ==
  /\ file.open
  /\ Enter([NoCall EXCEPT !.op = "fread", !.n = n], file.data = << >>)

fflush == file.open /\ Enter([NoCall EXCEPT !.op = "fflush", !.flush = TRUE], TRUE)
fclose == file.open /\ Enter([NoCall EXCEPT !.op = "fclose", !.flush = TRUE], TRUE)
\* exit closes what is open, __stdio_fini.
exit == Enter([NoCall EXCEPT !.op = "exit", !.flush = file.open], TRUE)

Return(result) ==
  /\ answer' = result
  /\ call' = NoCall
  /\ was' = [content |-> << >>, pos |-> 0]
  /\ UNCHANGED careful

\* __stdio_write with a buffer: bytes are stored until it is full, or until
\* the end of a line.
FillBuffer ==
  /\ call.op = "fwrite" /\ pc = "idle" /\ ~ call.flush /\ file.buf /\ call.left # << >>
  /\ LET stops == {k \in 1 .. Len(call.left) :
                     \/ Len(file.data) + k = file.buf_sz
                     \/ file.mode = "line" /\ call.left[k] = Newline}
         k == IF stops = {} THEN Len(call.left)
              ELSE CHOOSE i \in stops : \A j \in stops : i <= j
     IN /\ file' = [file EXCEPT !.data = @ \o SubSeq(call.left, 1, k)]
        /\ call' = [call EXCEPT !.left = SubSeq(@, k + 1, Len(@)), !.flush = stops # {}]
  /\ UNCHANGED <<ideVars, part, fd, answer, calls, was, careful>>

\* fflush: one system call for all that is stored.
FlushStart ==
  /\ call.flush /\ pc = "idle"
  /\ IF file.buf /\ file.data # << >>
     THEN sys_write(file.data) /\ UNCHANGED <<mounted, call>>
     ELSE call' = [call EXCEPT !.flush = FALSE] /\ UNCHANGED ideVars
  /\ UNCHANGED <<part, file, fd, answer, calls, was, careful>>

\* The buffer is empty again unless the call failed; how much of it was
\* written is not looked at.
FlushDone ==
  /\ call.flush /\ pc = "done"
  /\ file' = [file EXCEPT !.data = IF req.ret < 0 THEN @ ELSE << >>]
  /\ fd' = Returned
  /\ call' = [call EXCEPT !.flush = FALSE]
  /\ pc' = "idle" /\ req' = NoRequest
  /\ UNCHANGED <<wires, mounted, seen, dir, part, answer, calls, was, careful>>

WriteReturn ==
  /\ call.op = "fwrite" /\ pc = "idle" /\ ~ call.flush /\ file.buf /\ call.left = << >>
  /\ Return(Answer("fwrite", call.n, << >>))
  /\ UNCHANGED <<ideVars, part, file, fd, calls>>

\* __stdio_write without a buffer, and __stdio_read: one system call.
Direct ==
  /\ pc = "idle"
  /\ \/ call.op = "fwrite" /\ ~ file.buf /\ sys_write(call.left)
     \/ call.op = "fread" /\ sys_read(call.n)
  /\ UNCHANGED <<mounted, stdioVars>>

DirectDone ==
  /\ pc = "done" /\ ~ call.flush /\ call.op \in {"fwrite", "fread"}
  /\ fd' = Returned
  /\ file' = [file EXCEPT !.eof = @ \/ (call.op = "fread" /\ req.ret <= 0)]
  /\ Return(Answer(call.op, req.ret, IF call.op = "fread" THEN req.data ELSE << >>))
  /\ pc' = "idle" /\ req' = NoRequest
  /\ UNCHANGED <<wires, mounted, seen, dir, part, calls>>

\* The end of fflush, fclose and exit.
CloseReturn ==
  /\ call.op \in {"fflush", "fclose", "exit"} /\ pc = "idle" /\ ~ call.flush
  /\ IF call.op = "fflush" THEN UNCHANGED <<file, fd>>
     ELSE file' = NoFile /\ fd' = NoFd
  /\ Return(Answer(call.op, 0, << >>))
  /\ UNCHANGED <<ideVars, part, calls>>

Library == FillBuffer \/ FlushStart \/ FlushDone \/ WriteReturn \/ Direct
           \/ DirectDone \/ CloseReturn

Program ==
  \/ \E mode \in Modes : fopen(mode)
  \/ \E off \in SeekOffsets, whence \in {"set", "cur", "end"} :
       fseek(IF whence = "end" THEN - off ELSE off, whence)
  \/ ftell
  \/ \E type \in {"none", "line"} : setvbuf(type, BUFSIZ)
  \/ \E text \in Texts : fwrite(text)
  \/ \E n \in ReadSizes : fread(n)
  \/ fflush \/ fclose \/ exit

\* Interrupts are on between system calls, and while the kernel starts.
Interrupt ==
  /\ pc = "idle" \/ call.op = "map"
  /\ ata_irq_handler
  /\ UNCHANGED stdioVars

Next == \/ (IdeStep /\ UNCHANGED stdioVars)
        \/ Interrupt
        \/ MapStart \/ MapDone
        \/ Program \/ Library

\* The kernel and the library run on once called; the program need not.
Spec == StdioInit /\ [][Next]_vars /\ IdeFairness /\ WF_vars(MapDone \/ Library)

-----------------------------------------------------------------------------
(* Properties. *)

\* The part of the drive that holds the partition, and what was there.
Home == LET m == Image IN (m[0] * SectorSz) .. ((m[0] + m[1]) * SectorSz - 1)

Stream == INSTANCE StreamFile WITH
  Size <- Image[1] * SectorSz,
  Initial <- [i \in 0 .. Image[1] * SectorSz - 1 |-> Image[Image[0] * SectorSz + i]],
  content <- IF part = NoPart
             THEN [i \in 0 .. Image[1] * SectorSz - 1 |-> Image[Image[0] * SectorSz + i]]
             ELSE IF call = NoCall THEN Seen ELSE was.content,
  pos <- IF call = NoCall THEN Position ELSE was.pos,
  answer <- answer

\* To a careful program a stream on the partition is a file with a position, up to
\* its first careless call: the buffer, the descriptor's offset, the clipping at the
\* partition's end and the driver's cutting into blocks do not show.
ImplementsStream == Stream!Init /\ [][careful' => [Stream!Next]_(Stream!streamVars)]_vars

\* Whatever calls of the library a program makes, careful or not, no byte outside
\* the partition changes.  (A text is shorter than the sum that InPart takes for
\* granted: Len(text) + PartSize < Width.)
OutsideUntouched == \A b \in DOMAIN platter : b \notin Home => platter[b] = Image[b]

\* Every call, and the kernel's own reading of the partition table, returns:
\* the polls of the driver end.
CallsReturn == call.op \notin {"none", "nopart"} ~> call.op \in {"none", "nopart"}

\* A stream's buffer never holds more than it has room for: not so after a text too
\* long for what is left of the partition, or one for a stream that only reads.
BufferInBounds == file.buf => Len(file.data) <= file.buf_sz
=============================================================================
