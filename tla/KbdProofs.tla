----------------------------- MODULE KbdProofs ------------------------------
(***************************************************************************)
(* Proofs about KbdInput, for every key map, pipe size, line buffer and    *)
(* number of presses: the bytes the shell gets are those the pipe took, in *)
(* their order, no modifier gets stuck, and every byte typed comes from a  *)
(* press and a modifier that was down with it.                             *)
(*                                                                         *)
(* The facts about the ring come first.  They are those of PipeProofs for  *)
(* the pipe kbd_pipe, whose contents NothingLostInPipe follows through     *)
(* each interrupt and each poll.                                           *)
(***************************************************************************)
EXTENDS KbdInput, SequenceTheorems, TLAPS

\* The bytes the pipe holds, oldest first.
Stored == kbd_pipe!Oldest(kbd_pipe!pipe_size)

-----------------------------------------------------------------------------
\* The ring has at least one slot.
LEMMA RingSize == Sz \in Nat \ {0}
BY KeysAssumption

\* Advancing by fewer than sz steps wraps at most once.
LEMMA AdvanceWraps ==
  ASSUME NEW p \in kbd_pipe!Index, NEW n \in 0 .. Sz - 1
  PROVE  /\ kbd_pipe!Advance(p, n) = IF p + n < Sz THEN p + n ELSE p + n - Sz
         /\ kbd_pipe!Advance(p, n) \in kbd_pipe!Index
BY RingSize, SMTT(30) DEF kbd_pipe!Advance, kbd_pipe!Index

\* The two counts share out the sz - 1 usable slots.
LEMMA CountsShareSlots ==
  ASSUME kbd_pipe!TypeOK
  PROVE  /\ kbd_pipe!pipe_size \in 0 .. Sz - 1
         /\ kbd_pipe!pipe_avail \in 0 .. Sz - 1
         /\ kbd_pipe!pipe_size + kbd_pipe!pipe_avail = Sz - 1
BY RingSize
   DEF kbd_pipe!TypeOK, kbd_pipe!pipe_size, kbd_pipe!pipe_avail, kbd_pipe!Index

\* What is stored is a sequence of bytes as long as pipe_size says.
LEMMA StoredIsSeq ==
  ASSUME kbd_pipe!TypeOK
  PROVE  /\ Stored \in Seq(Byte)
         /\ Len(Stored) = kbd_pipe!pipe_size
         /\ \A i \in 1 .. kbd_pipe!pipe_size :
              Stored[i] = buf[kbd_pipe!Advance(read_ptr, i - 1)]
<1>1. kbd_pipe!pipe_size \in Nat /\ kbd_pipe!pipe_size <= Sz - 1
  BY CountsShareSlots, RingSize
<1>2. \A i \in 1 .. kbd_pipe!pipe_size : buf[kbd_pipe!Advance(read_ptr, i - 1)] \in Byte
  BY <1>1, AdvanceWraps, RingSize DEF kbd_pipe!TypeOK
<1>3. Stored \in [1 .. kbd_pipe!pipe_size -> Byte]
  BY <1>2 DEF Stored, kbd_pipe!Oldest
<1> QED BY <1>1, <1>3, LenProperties DEF Stored, kbd_pipe!Oldest

\* The same of the next state.
LEMMA StoredIsSeqNext ==
  ASSUME kbd_pipe!TypeOK', kbd_pipe!pipe_size' \in 0 .. Sz - 1
  PROVE  /\ Stored' \in Seq(Byte)
         /\ Len(Stored') = kbd_pipe!pipe_size'
         /\ \A i \in 1 .. kbd_pipe!pipe_size' :
              Stored'[i] = buf'[kbd_pipe!Advance(read_ptr', i - 1)]
<1>1. kbd_pipe!pipe_size' \in Nat /\ kbd_pipe!pipe_size' <= Sz - 1
  BY RingSize
<1>2. \A i \in 1 .. kbd_pipe!pipe_size' :
        buf'[kbd_pipe!Advance(read_ptr', i - 1)] \in Byte
  BY <1>1, AdvanceWraps, RingSize DEF kbd_pipe!TypeOK
<1>3. Stored' \in [1 .. kbd_pipe!pipe_size' -> Byte]
  BY <1>2 DEF Stored, kbd_pipe!Oldest, kbd_pipe!Advance
<1> QED BY <1>1, <1>3, LenProperties DEF Stored, kbd_pipe!Oldest, kbd_pipe!Advance

\* A read of one byte takes the oldest one.
LEMMA ReadTakesHead ==
  ASSUME kbd_pipe!TypeOK, kbd_pipe!pipe_read(1, 1)
  PROVE  /\ kbd_pipe!TypeOK'
         /\ Head(kbd_pipe!Oldest(1)) \in Byte
         /\ Stored = <<Head(kbd_pipe!Oldest(1))>> \o Stored'
         /\ Stored' \in Seq(Byte)
<1>1. /\ kbd_pipe!pipe_size \in 1 .. Sz - 1
      /\ read_ptr' = IF read_ptr + 1 < Sz THEN read_ptr + 1 ELSE read_ptr + 1 - Sz
      /\ UNCHANGED <<buf, write_ptr>>
      /\ kbd_pipe!TypeOK'
  <2>1. kbd_pipe!pipe_size \in 1 .. Sz - 1
    BY CountsShareSlots, RingSize DEF kbd_pipe!pipe_read, kbd_pipe!SmallerOf
  <2>2. 1 \in 0 .. Sz - 1
    BY <2>1, RingSize
  <2> QED BY <2>1, <2>2, AdvanceWraps DEF kbd_pipe!pipe_read, kbd_pipe!TypeOK
<1>2. kbd_pipe!pipe_size' = kbd_pipe!pipe_size - 1 /\ kbd_pipe!pipe_size' \in 0 .. Sz - 1
  <2>1. kbd_pipe!pipe_size' = kbd_pipe!pipe_size - 1
    BY <1>1, RingSize DEF kbd_pipe!TypeOK, kbd_pipe!pipe_size, kbd_pipe!Index
  <2> QED BY <1>1, <2>1, RingSize
<1> DEFINE c == buf[read_ptr]
<1>3. c \in Byte /\ Head(kbd_pipe!Oldest(1)) = c
  <2>1. kbd_pipe!Advance(read_ptr, 1 - 1) = read_ptr
    BY <1>1, AdvanceWraps, RingSize DEF kbd_pipe!TypeOK, kbd_pipe!Index
  <2> QED BY <2>1 DEF kbd_pipe!TypeOK, kbd_pipe!Oldest
<1>4. ASSUME NEW i \in 2 .. kbd_pipe!pipe_size
      PROVE  Stored[i] = Stored'[i - 1]
  <2>1. /\ i - 1 \in 0 .. Sz - 1
        /\ i - 1 - 1 \in 0 .. Sz - 1
        /\ i - 1 \in 1 .. kbd_pipe!pipe_size'
    BY <1>1, <1>2, RingSize
  <2>2. kbd_pipe!Advance(read_ptr', i - 1 - 1) = kbd_pipe!Advance(read_ptr, i - 1)
    <3>1. read_ptr \in kbd_pipe!Index /\ read_ptr' \in kbd_pipe!Index
      BY <1>1 DEF kbd_pipe!TypeOK
    <3>2. /\ kbd_pipe!Advance(read_ptr', i - 1 - 1) =
               IF read_ptr' + (i - 1 - 1) < Sz THEN read_ptr' + (i - 1 - 1)
                                               ELSE read_ptr' + (i - 1 - 1) - Sz
          /\ kbd_pipe!Advance(read_ptr, i - 1) =
               IF read_ptr + (i - 1) < Sz THEN read_ptr + (i - 1)
                                          ELSE read_ptr + (i - 1) - Sz
      BY <2>1, <3>1, AdvanceWraps
    <3> QED BY <1>1, <2>1, <3>1, <3>2, RingSize DEF kbd_pipe!Index
  <2>3. Stored[i] = buf[kbd_pipe!Advance(read_ptr, i - 1)]
    BY <1>1, StoredIsSeq
  <2>4. Stored'[i - 1] = buf'[kbd_pipe!Advance(read_ptr', i - 1 - 1)]
    BY <1>1, <1>2, <2>1, StoredIsSeqNext
  <2> QED BY <1>1, <2>2, <2>3, <2>4
<1>5. Stored[1] = c
  <2>1. kbd_pipe!Advance(read_ptr, 1 - 1) = read_ptr
    BY <1>1, AdvanceWraps, RingSize DEF kbd_pipe!TypeOK, kbd_pipe!Index
  <2> QED BY <1>1, <2>1, StoredIsSeq
<1>6. Stored = <<c>> \o Stored'
  <2> DEFINE new == Stored'
             sum == <<c>> \o new
             k == kbd_pipe!pipe_size
  <2>1. /\ Stored \in Seq(Byte) /\ Len(Stored) = k /\ k \in Nat
        /\ new \in Seq(Byte) /\ Len(new) = k - 1
    BY <1>1, <1>2, StoredIsSeq, StoredIsSeqNext
  <2>2. \A i \in 2 .. k : Stored[i] = new[i - 1]
    BY <1>4
  <2> HIDE DEF new, c, k
  <2>3. /\ sum \in Seq(Byte)
        /\ Len(sum) = k
        /\ sum[1] = c
        /\ \A i \in 2 .. k : sum[i] = new[i - 1]
    BY <1>3, <2>1
  <2>4. \A i \in 1 .. k : Stored[i] = sum[i]
    BY <1>5, <2>1, <2>2, <2>3
  <2> HIDE DEF sum
  <2>5. Stored = sum
    BY <2>1, <2>3, <2>4, SeqEqual
  <2> QED BY <2>5 DEF sum, new
<1> QED BY <1>1, <1>2, <1>3, <1>6, StoredIsSeqNext

\* A write appends the bytes it reports.
LEMMA WriteAppends ==
  ASSUME kbd_pipe!TypeOK, NEW s \in Seq(Byte), NEW n \in 0 .. Sz - 1,
         kbd_pipe!pipe_write(s, n)
  PROVE  /\ kbd_pipe!TypeOK'
         /\ Stored' = Stored \o SubSeq(s, 1, n)
         /\ SubSeq(s, 1, n) \in Seq(Byte)
<1> DEFINE k == kbd_pipe!pipe_size
           t == SubSeq(s, 1, n)
           sum == Stored \o t
<1>1. /\ k \in 0 .. Sz - 1
      /\ kbd_pipe!pipe_avail = Sz - 1 - k
      /\ n <= Sz - 1 - k
      /\ n <= Len(s)
      /\ Len(s) \in Nat
  BY CountsShareSlots, RingSize DEF kbd_pipe!pipe_write, kbd_pipe!SmallerOf
<1>2. /\ write_ptr' = IF write_ptr + n < Sz THEN write_ptr + n ELSE write_ptr + n - Sz
      /\ write_ptr' \in kbd_pipe!Index
      /\ read_ptr' = read_ptr
  BY AdvanceWraps DEF kbd_pipe!pipe_write, kbd_pipe!TypeOK
<1>3. kbd_pipe!TypeOK'
  <2>1. ASSUME NEW i \in kbd_pipe!Index, kbd_pipe!Offset(i, write_ptr) < n
        PROVE  s[kbd_pipe!Offset(i, write_ptr) + 1] \in Byte
    <3>1. kbd_pipe!Offset(i, write_ptr) + 1 \in 1 .. Len(s)
      BY <1>1, <2>1, RingSize DEF kbd_pipe!Offset, kbd_pipe!TypeOK, kbd_pipe!Index
    <3> QED BY <3>1, ElementOfSeq
  <2>2. \A i \in kbd_pipe!Index : buf[i] \in Byte
    BY DEF kbd_pipe!TypeOK
  <2>3. buf' \in [kbd_pipe!Index -> Byte]
    BY <2>1, <2>2 DEF kbd_pipe!pipe_write
  <2> QED BY <1>2, <2>3 DEF kbd_pipe!TypeOK
<1>4. kbd_pipe!pipe_size' = k + n /\ k + n \in 0 .. Sz - 1
  BY <1>1, <1>2, RingSize
     DEF kbd_pipe!TypeOK, kbd_pipe!pipe_size, kbd_pipe!pipe_avail, kbd_pipe!Index
<1>5. /\ t \in Seq(Byte)
      /\ Len(t) = n
      /\ \A i \in 1 .. n : t[i] = s[i]
  BY <1>1, SubSeqProperties
<1>6. /\ Stored \in Seq(Byte)
      /\ Len(Stored) = k
      /\ \A i \in 1 .. k : Stored[i] = buf[kbd_pipe!Advance(read_ptr, i - 1)]
  BY StoredIsSeq
<1>7. /\ Stored' \in Seq(Byte)
      /\ Len(Stored') = k + n
      /\ \A i \in 1 .. k + n : Stored'[i] = buf'[kbd_pipe!Advance(read_ptr, i - 1)]
  BY <1>2, <1>3, <1>4, StoredIsSeqNext
<1>8. /\ sum \in Seq(Byte)
      /\ Len(sum) = k + n
      /\ \A i \in 1 .. k + n : sum[i] = IF i <= k THEN Stored[i] ELSE t[i - k]
  <2> HIDE DEF k, t
  <2> QED BY <1>5, <1>6, ConcatProperties, Zenon
<1>9. ASSUME NEW i \in 1 .. k + n
      PROVE  Stored'[i] = sum[i]
  <2> DEFINE slot == kbd_pipe!Advance(read_ptr, i - 1)
             off == kbd_pipe!Offset(slot, write_ptr)
  <2>1. /\ slot = IF read_ptr + (i - 1) < Sz THEN read_ptr + (i - 1)
                                              ELSE read_ptr + (i - 1) - Sz
        /\ slot \in kbd_pipe!Index
    BY <1>1, <1>4, AdvanceWraps, RingSize DEF kbd_pipe!TypeOK
  <2>2. Stored'[i] = IF off < n THEN s[off + 1] ELSE buf[slot]
    BY <1>7, <2>1 DEF kbd_pipe!pipe_write
  <2>3. CASE i <= k
    <3>1. ~(off < n)
      BY <1>1, <2>1, <2>3, RingSize
         DEF kbd_pipe!Offset, kbd_pipe!pipe_size, kbd_pipe!TypeOK, kbd_pipe!Index
    <3> QED BY <1>1, <1>6, <1>8, <2>2, <2>3, <3>1
  <2>4. CASE i > k
    <3>1. off = i - k - 1
      BY <1>1, <2>1, <2>4, RingSize
         DEF kbd_pipe!Offset, kbd_pipe!pipe_size, kbd_pipe!TypeOK, kbd_pipe!Index
    <3>2. i - k \in 1 .. n
      BY <1>1, <2>4
    <3>3. Stored'[i] = s[i - k]
      BY <1>1, <2>2, <3>1, <3>2
    <3> QED BY <1>1, <1>5, <1>8, <2>4, <3>2, <3>3
  <2>5. i <= k \/ i > k
    BY <1>1
  <2> QED BY <2>3, <2>4, <2>5
<1>10. Stored' = sum
  <2> DEFINE new == Stored'
  <2>1. new \in Seq(Byte) /\ sum \in Seq(Byte) /\ Len(new) = Len(sum)
    BY <1>7, <1>8
  <2>2. \A i \in 1 .. Len(new) : new[i] = sum[i]
    BY <1>7, <1>9
  <2> HIDE DEF new, sum
  <2>3. new = sum
    BY <2>1, <2>2, SeqEqual
  <2> QED BY <2>3 DEF new
<1> QED BY <1>3, <1>5, <1>10

-----------------------------------------------------------------------------
\* What the decoder and the history rely on besides TypeOK: the scan codes on
\* the wire are those of keys or 0xF0, and the byte strings are of bytes.
Entry == [code : Keys \cup {BreakCode}, release : BOOLEAN, down : SUBSET Modifiers]

PipeInv ==
  /\ kbd_pipe!TypeOK
  /\ wire \in Seq(Entry)
  /\ mod \in Modifiers \cup {NoMod}
  /\ not_released \in BOOLEAN
  /\ accepted \in Seq(Byte)
  /\ consumed \in Seq(Byte)
  /\ NothingLostInPipe

\* What each step does to the wire, entry by entry.
LEMMA PressSends ==
  ASSUME NEW k \in Keys, Press(k)
  PROVE  /\ wire' \in Seq(Entry)
         /\ Len(wire') = 1
         /\ wire'[1] = [code |-> k, release |-> FALSE, down |-> held' \cap Modifiers]
<1>1. wire' = <<[code |-> k, release |-> FALSE, down |-> held' \cap Modifiers]>>
  BY DEF Press, Code
<1>2. [code |-> k, release |-> FALSE, down |-> held' \cap Modifiers] \in Entry
  BY DEF Entry
<1> QED BY <1>1, <1>2

LEMMA ReleaseSends ==
  ASSUME wire \in Seq(Entry), NEW k \in Keys, Release(k)
  PROVE  /\ wire' \in Seq(Entry)
         /\ Len(wire') = Len(wire) + 2
         /\ \A i \in 1 .. Len(wire) : wire'[i] = wire[i]
         /\ wire'[Len(wire) + 1].code = BreakCode
         /\ wire'[Len(wire) + 1].release = FALSE
         /\ wire'[Len(wire) + 2].code = k
         /\ wire'[Len(wire) + 2].release = TRUE
<1> DEFINE brk == Code(BreakCode, FALSE, held)
           rel == Code(k, TRUE, held)
<1>1. brk \in Entry /\ rel \in Entry
  BY DEF Entry, Code
<1>2. /\ brk.code = BreakCode /\ brk.release = FALSE
      /\ rel.code = k /\ rel.release = TRUE
  BY DEF Code
<1>3. wire' = wire \o <<brk, rel>>
  BY DEF Release
<1> HIDE DEF brk, rel
<1> QED BY <1>1, <1>2, <1>3

LEMMA HandlerTakes ==
  ASSUME wire \in Seq(Entry), kbd_handler
  PROVE  /\ wire' \in Seq(Entry)
         /\ Len(wire) \in Nat \ {0}
         /\ Len(wire') = Len(wire) - 1
         /\ \A i \in 1 .. Len(wire') : wire'[i] = wire[i + 1]
         /\ Head(wire) = wire[1]
         /\ wire[1].code \in Keys \cup {BreakCode}
         /\ wire[1].release \in BOOLEAN
<1>1. wire # << >> /\ wire' = Tail(wire)
  BY DEF kbd_handler
<1>2. wire[1] \in Entry /\ Head(wire) = wire[1]
  BY <1>1
<1> QED BY <1>1, <1>2 DEF Entry

LEMMA BytesAssociate ==
  \A a, b, c \in Seq(Byte) : (a \o b) \o c = a \o (b \o c)
BY ConcatAssociative

\* What handle_kb_input writes is a byte string of the key map, and the pipe
\* and accepted take the same part of it.
LEMMA InputKeepsPipeInv ==
  ASSUME PipeInv, NEW k \in PlainKeys, NEW m \in Modifiers \cup {NoMod},
         NEW flag \in BOOLEAN, handle_kb_input(k, m, flag), UNCHANGED consumed
  PROVE  /\ kbd_pipe!TypeOK'
         /\ accepted' \in Seq(Byte)
         /\ NothingLostInPipe'
<1>1. CASE flag
  <2> DEFINE s == Keymap[m][k]
  <2>1. s \in Seq(Byte)
    BY KeysAssumption
  <2>2. PICK n \in 0 .. Sz - 1 :
          kbd_pipe!pipe_write(s, n) /\ accepted' = accepted \o SubSeq(s, 1, n)
    BY <1>1 DEF handle_kb_input
  <2> HIDE DEF s
  <2>3. /\ kbd_pipe!TypeOK'
        /\ Stored' = Stored \o SubSeq(s, 1, n)
        /\ SubSeq(s, 1, n) \in Seq(Byte)
    BY <2>1, <2>2, WriteAppends DEF PipeInv
  <2>4. accepted = consumed \o Stored /\ Stored \in Seq(Byte)
    BY StoredIsSeq DEF PipeInv, NothingLostInPipe, Stored
  <2>5. accepted' = consumed' \o Stored'
    <3> DEFINE t == SubSeq(s, 1, n)
    <3>1. t \in Seq(Byte) /\ Stored \in Seq(Byte) /\ consumed \in Seq(Byte)
      BY <2>3, <2>4 DEF PipeInv
    <3> HIDE DEF t
    <3>2. (consumed \o Stored) \o t = consumed \o (Stored \o t)
      BY <3>1, BytesAssociate
    <3> QED BY <2>2, <2>3, <2>4, <3>2 DEF t
  <2>6. accepted' \in Seq(Byte)
    BY <2>2, <2>3, ConcatProperties DEF PipeInv
  <2> QED BY <2>3, <2>5, <2>6 DEF NothingLostInPipe, Stored
<1>2. CASE ~ flag
  <2>1. UNCHANGED <<buf, read_ptr, write_ptr, accepted, consumed>>
    BY <1>2 DEF handle_kb_input, pipe
  <2> QED BY <2>1 DEF PipeInv, NothingLostInPipe, kbd_pipe!TypeOK, kbd_pipe!Oldest,
                      kbd_pipe!pipe_size, kbd_pipe!Advance
<1> QED BY <1>1, <1>2

\* A step that touches neither the pipe nor the two histories.
LEMMA IdleKeepsPipe ==
  ASSUME PipeInv, UNCHANGED <<buf, read_ptr, write_ptr, accepted, consumed>>
  PROVE  /\ kbd_pipe!TypeOK'
         /\ accepted' \in Seq(Byte)
         /\ consumed' \in Seq(Byte)
         /\ NothingLostInPipe'
BY DEF PipeInv, NothingLostInPipe, kbd_pipe!TypeOK, kbd_pipe!Oldest,
       kbd_pipe!pipe_size, kbd_pipe!Advance

\* No interrupt and no poll lets the pipe and the histories drift apart.
LEMMA PipeInvStep == PipeInv /\ [Next]_vars => PipeInv'
<1> SUFFICES ASSUME PipeInv, [Next]_vars PROVE PipeInv'
  OBVIOUS
<1> USE DEF pipe, history, decoder, device, shell
<1>1. ASSUME NEW k \in Keys, Press(k) \/ Release(k)
      PROVE  PipeInv'
  <2>1. wire' \in Seq(Entry)
    BY <1>1, PressSends, ReleaseSends DEF PipeInv
  <2>2. UNCHANGED <<buf, read_ptr, write_ptr, accepted, consumed, mod, not_released>>
    BY <1>1 DEF Press, Release
  <2> QED BY <2>1, <2>2, IdleKeepsPipe DEF PipeInv
<1>2. CASE kbd_handler
  <2>1. /\ wire' \in Seq(Entry)
        /\ Head(wire).code \in Keys \cup {BreakCode}
    BY <1>2, HandlerTakes DEF PipeInv
  <2>2. mod' \in Modifiers \cup {NoMod} /\ not_released' \in BOOLEAN
    BY <1>2 DEF kbd_handler, PipeInv, change_mod
  <2>3. consumed' = consumed
    BY <1>2 DEF kbd_handler
  <2>4. CASE UNCHANGED <<pipe, echoed, accepted>>
    BY <2>1, <2>2, <2>3, <2>4, IdleKeepsPipe DEF PipeInv
  <2>5. CASE ~ UNCHANGED <<pipe, echoed, accepted>>
    <3>1. /\ Head(wire).code \in PlainKeys
          /\ handle_kb_input(Head(wire).code, mod', not_released)
      BY <1>2, <2>1, <2>5 DEF kbd_handler, sc3_to_usb, Keys
    <3>2. kbd_pipe!TypeOK' /\ accepted' \in Seq(Byte) /\ NothingLostInPipe'
      BY <2>2, <2>3, <3>1, InputKeepsPipeInv DEF PipeInv
    <3> QED BY <2>1, <2>2, <2>3, <3>2 DEF PipeInv
  <2> QED BY <2>4, <2>5
<1>3. CASE PollEmpty
  <2>1. UNCHANGED <<buf, read_ptr, write_ptr>>
    <3>1. kbd_pipe!Advance(read_ptr, 0) = read_ptr
      BY RingSize, AdvanceWraps DEF PipeInv, kbd_pipe!TypeOK, kbd_pipe!Index
    <3> QED BY <1>3, <3>1 DEF PollEmpty, kbd_pipe!pipe_read
  <2>2. UNCHANGED <<wire, mod, not_released, accepted, consumed>>
    BY <1>3 DEF PollEmpty
  <2> QED BY <2>1, <2>2, IdleKeepsPipe DEF PipeInv
<1>4. CASE fgetc
  <2> DEFINE c == Head(kbd_pipe!Oldest(1))
  <2>1. /\ kbd_pipe!TypeOK'
        /\ c \in Byte
        /\ Stored = <<c>> \o Stored'
        /\ Stored' \in Seq(Byte)
    BY <1>4, ReadTakesHead DEF fgetc, PipeInv
  <2>2. /\ consumed' = Append(consumed, c)
        /\ UNCHANGED <<wire, mod, not_released, accepted>>
    BY <1>4 DEF fgetc
  <2> HIDE DEF c
  <2>4. accepted' = consumed' \o Stored'
    <3>1. consumed' = consumed \o <<c>> /\ <<c>> \in Seq(Byte)
      BY <2>1, <2>2, AppendIsConcat DEF PipeInv
    <3>2. accepted = consumed \o Stored
      BY DEF PipeInv, NothingLostInPipe, Stored
    <3> QED BY <2>1, <2>2, <3>1, <3>2, ConcatAssociative DEF PipeInv
  <2>5. consumed' \in Seq(Byte)
    BY <2>1, <2>2, AppendProperties DEF PipeInv
  <2> QED BY <2>1, <2>2, <2>4, <2>5 DEF PipeInv, NothingLostInPipe, Stored
<1>5. CASE RunCommand
  BY <1>5, IdleKeepsPipe DEF RunCommand, PipeInv
<1>6. CASE UNCHANGED vars
  BY <1>6, IdleKeepsPipe DEF vars, PipeInv
<1> QED BY <1>1, <1>2, <1>3, <1>4, <1>5, <1>6 DEF Next, User, Shell, page_fault

LEMMA PipeInvHolds == Spec => []PipeInv
<1>1. Init => PipeInv
  <2> SUFFICES ASSUME Init PROVE PipeInv
    OBVIOUS
  <2>1. kbd_pipe!TypeOK /\ kbd_pipe!pipe_size = 0
    BY RingSize DEF Init, kbd_pipe!pipe_create, kbd_pipe!TypeOK, kbd_pipe!pipe_size,
                    kbd_pipe!Index
  <2>2. Stored = << >>
    BY <2>1, StoredIsSeq, EmptySeq
  <2>3. NothingLostInPipe
    BY <2>2 DEF Init, NothingLostInPipe, Stored
  <2> QED BY <2>1, <2>3 DEF Init, PipeInv
<1> QED BY <1>1, PipeInvStep, PTL DEF Spec

\* The pipe behind /dev/kbd hands the shell what the interrupt handler stored:
\* for every key map, ring size and line length, what it took is what the shell
\* got followed by what it holds.
THEOREM NothingIsLost == Spec => []NothingLostInPipe
<1>1. PipeInv => NothingLostInPipe
  BY DEF PipeInv
<1> QED BY <1>1, PipeInvHolds, PTL

-----------------------------------------------------------------------------
\* The decoder in step with the keyboard.  sc3_to_usb[0xF0] lies past the end
\* of the table; if the byte found there were a modifier's key code, the break
\* code would itself set mod and stop the next scan code.  The two theorems
\* below assume of the build that it is not.
BuildIsBenign == OverrunKeys \cap Modifiers = {}

IsPress(e) == e.code \in Keys /\ ~ e.release

IsBreak(e) == e.code = BreakCode /\ ~ e.release

IsRelease(e) == e.code \in Keys /\ e.release

\* not_released tells which of the two bytes of a release comes next.
WireShape ==
  /\ not_released =>
       \/ Len(wire) = 0
       \/ Len(wire) = 1 /\ IsPress(wire[1])
       \/ Len(wire) = 2 /\ IsBreak(wire[1]) /\ IsRelease(wire[2])
       \/ Len(wire) = 3 /\ IsPress(wire[1]) /\ IsBreak(wire[2]) /\ IsRelease(wire[3])
  /\ ~ not_released =>
       \/ Len(wire) = 1 /\ IsRelease(wire[1])
       \/ Len(wire) = 3 /\ IsRelease(wire[1]) /\ IsBreak(wire[2]) /\ IsRelease(wire[3])

\* A key that is down, or whose release is still on the wire.
ReleaseToCome(k) ==
  k \in held \/ \E i \in 1 .. Len(wire) : IsRelease(wire[i]) /\ wire[i].code = k

\* mod holds a modifier only while a release that will clear it is to come, and
\* a press not yet handled was made under the modifier that mod holds.
ModifierInv ==
  /\ WireShape
  /\ send
  /\ overrun \notin Modifiers
  /\ mod # NoMod => ReleaseToCome(mod)
  /\ Len(wire) > 0 /\ IsPress(wire[1]) =>
       /\ ReleaseToCome(wire[1].code)
       /\ mod \in wire[1].down \cup {NoMod}

LEMMA PressKeepsModifierInv ==
  ASSUME PipeInv, ModifierInv, NEW k \in Keys, Press(k)
  PROVE  ModifierInv'
<1>1. /\ Len(wire) = 0
      /\ held' = held \cup {k}
      /\ UNCHANGED <<mod, not_released, send, overrun>>
  BY DEF Press, decoder
<1>2. /\ Len(wire') = 1
      /\ wire'[1] = [code |-> k, release |-> FALSE, down |-> held' \cap Modifiers]
  BY PressSends
<1>3. IsPress(wire[1])' /\ (wire[1].code)' = k /\ (wire[1].down)' = held' \cap Modifiers
  BY <1>2 DEF IsPress
<1>4. WireShape'
  BY <1>1, <1>2, <1>3 DEF WireShape, ModifierInv
<1>5. mod # NoMod => mod \in held /\ mod \in Modifiers
  BY <1>1 DEF ModifierInv, ReleaseToCome, PipeInv
<1> QED BY <1>1, <1>2, <1>3, <1>4, <1>5 DEF ModifierInv, ReleaseToCome

LEMMA ReleaseKeepsModifierInv ==
  ASSUME PipeInv, ModifierInv, NEW k \in Keys, Release(k)
  PROVE  ModifierInv'
<1>1. /\ Len(wire) = 0 \/ Len(wire) = 1
      /\ held' = held \ {k}
      /\ UNCHANGED <<mod, not_released, send, overrun>>
  <2>1. Len(wire) \in Nat /\ Len(wire) <= 1
    BY LenProperties DEF Release, PipeInv
  <2> QED BY <2>1 DEF Release, decoder
<1> DEFINE n == Len(wire)
<1>2. /\ Len(wire') = n + 2
      /\ \A i \in 1 .. n : wire'[i] = wire[i]
      /\ IsBreak(wire'[n + 1])
      /\ IsRelease(wire'[n + 2])
      /\ wire'[n + 2].code = k
  BY ReleaseSends DEF PipeInv, IsBreak, IsRelease
<1>3. WireShape'
  BY <1>1, <1>2 DEF WireShape, ModifierInv
<1>4. ASSUME NEW m, ReleaseToCome(m)
      PROVE  ReleaseToCome(m)'
  BY <1>1, <1>2, <1>4 DEF ReleaseToCome
<1>5. (Len(wire) > 0 /\ IsPress(wire[1]))' =>
        /\ Len(wire) > 0
        /\ IsPress(wire[1])
        /\ wire'[1] = wire[1]
  BY <1>1, <1>2, KeysAssumption DEF IsPress, IsBreak
<1> QED BY <1>1, <1>3, <1>4, <1>5 DEF ModifierInv

LEMMA HandlerKeepsModifierInv ==
  ASSUME PipeInv, ModifierInv, kbd_handler
  PROVE  ModifierInv'
<1> DEFINE k == wire[1].code
<1>1. /\ Len(wire) \in Nat \ {0}
      /\ Len(wire') = Len(wire) - 1
      /\ \A i \in 1 .. Len(wire') : wire'[i] = wire[i + 1]
      /\ Head(wire) = wire[1]
      /\ k \in Keys \cup {BreakCode}
      /\ wire[1].release \in BOOLEAN
  BY HandlerTakes DEF PipeInv
<1>2. /\ UNCHANGED <<held, overrun>>
      /\ mod' = IF sc3_to_usb(k) \in Modifiers THEN change_mod(sc3_to_usb(k)) ELSE mod
      /\ not_released' = (k # BreakCode)
      /\ send'
  BY <1>1 DEF kbd_handler, ModifierInv, sc3_to_usb
<1>3. k = BreakCode => /\ not_released
                       /\ Len(wire) = 2
                       /\ IsBreak(wire[1])
                       /\ IsRelease(wire[2])
  BY <1>1, KeysAssumption DEF ModifierInv, WireShape, IsPress, IsBreak, IsRelease
<1>4. k # BreakCode =>
        /\ Len(wire) = 1 \/ (Len(wire) = 3 /\ IsBreak(wire[2]) /\ IsRelease(wire[3]))
        /\ not_released => IsPress(wire[1])
        /\ ~ not_released => IsRelease(wire[1])
  BY <1>1 DEF ModifierInv, WireShape, IsBreak
<1>5. /\ Len(wire) = 2 => Len(wire') = 1 /\ wire'[1] = wire[2]
      /\ Len(wire) = 3 => Len(wire') = 2 /\ wire'[1] = wire[2] /\ wire'[2] = wire[3]
      /\ Len(wire) = 1 => Len(wire') = 0
  BY <1>1
<1>6. WireShape'
  BY <1>2, <1>3, <1>4, <1>5 DEF WireShape
<1>7. ~ (Len(wire') > 0 /\ IsPress(wire'[1]))
  BY <1>3, <1>4, <1>5, KeysAssumption DEF IsPress, IsBreak, IsRelease
<1>8. ASSUME NEW m, ReleaseToCome(m), m # k \/ ~ IsRelease(wire[1])
      PROVE  ReleaseToCome(m)'
  <2>1. CASE m \in held
    BY <1>2, <2>1 DEF ReleaseToCome
  <2>2. CASE m \notin held
    <3>1. PICK i \in 1 .. Len(wire) : IsRelease(wire[i]) /\ wire[i].code = m
      BY <1>8, <2>2 DEF ReleaseToCome
    <3>2. i # 1
      BY <1>8, <3>1
    <3>3. i - 1 \in 1 .. Len(wire') /\ wire'[i - 1] = wire[i]
      BY <1>1, <3>1, <3>2
    <3>4. IsRelease(wire'[i - 1]) /\ wire'[i - 1].code = m
      BY <3>1, <3>3
    <3> QED BY <3>3, <3>4 DEF ReleaseToCome
  <2> QED BY <2>1, <2>2
<1>9. mod' # NoMod => ReleaseToCome(mod')
  <2>1. CASE k = BreakCode
    <3>1. mod' = mod
      BY <1>2, <2>1 DEF sc3_to_usb, ModifierInv
    <3> QED BY <3>1 DEF ModifierInv
  <2>2. CASE k # BreakCode /\ not_released
    <3>1. mod' \in {k, mod} /\ ReleaseToCome(k)
      BY <1>1, <1>2, <1>4, <2>2 DEF sc3_to_usb, change_mod, ModifierInv
    <3> QED BY <3>1 DEF ModifierInv
  <2>3. CASE k # BreakCode /\ ~ not_released
    <3>1. mod' \in {NoMod, mod}
      BY <1>2, <2>3 DEF sc3_to_usb, change_mod
    <3> QED BY <3>1 DEF ModifierInv
  <2> QED BY <2>1, <2>2, <2>3
<1>10. mod' # NoMod => mod' # k \/ ~ IsRelease(wire[1])
  <2>1. CASE k = BreakCode
    BY <2>1, <1>3 DEF IsBreak, IsRelease
  <2>2. CASE k # BreakCode /\ not_released
    BY <1>4, <2>2 DEF IsPress, IsRelease
  <2>3. CASE k # BreakCode /\ ~ not_released
    BY <1>2, <2>3 DEF sc3_to_usb, change_mod, PipeInv
  <2> QED BY <2>1, <2>2, <2>3
<1>11. (mod # NoMod => ReleaseToCome(mod))'
  <2>1. ASSUME NEW m, m = mod', m # NoMod
        PROVE  m \in held' \/ \E i \in 1 .. Len(wire') : IsRelease(wire'[i]) /\ wire'[i].code = m
    BY <1>8, <1>9, <1>10, <2>1 DEF ReleaseToCome
  <2> QED BY <2>1 DEF ReleaseToCome
<1> QED BY <1>2, <1>6, <1>7, <1>11 DEF ModifierInv

LEMMA ModifierInvStep == PipeInv /\ ModifierInv /\ [Next]_vars => ModifierInv'
<1> SUFFICES ASSUME PipeInv, ModifierInv, [Next]_vars PROVE ModifierInv'
  OBVIOUS
<1>1. CASE \E k \in Keys : Press(k) \/ Release(k)
  BY <1>1, PressKeepsModifierInv, ReleaseKeepsModifierInv
<1>2. CASE kbd_handler
  BY <1>2, HandlerKeepsModifierInv
<1>3. CASE UNCHANGED <<held, wire, mod, not_released, send, overrun>>
  BY <1>3 DEF ModifierInv, WireShape, ReleaseToCome, IsPress, IsBreak, IsRelease
<1>4. Shell \/ UNCHANGED vars => UNCHANGED <<held, wire, mod, not_released, send, overrun>>
  BY DEF Shell, PollEmpty, fgetc, RunCommand, page_fault, vars, device, decoder
<1> QED BY <1>1, <1>2, <1>3, <1>4 DEF Next, User

LEMMA ModifierInvHolds == BuildIsBenign /\ Spec => []ModifierInv
<1>1. BuildIsBenign /\ Init => ModifierInv
  BY DEF BuildIsBenign, Init, ModifierInv, WireShape
<1> QED BY <1>1, PipeInvHolds, ModifierInvStep, PTL DEF Spec

\* No order of presses, repeats and releases leaves a modifier in force after
\* its key is up and the wire is quiet.
THEOREM NoModifierSticks == BuildIsBenign /\ Spec => []NoStuckModifier
<1>1. PipeInv /\ ModifierInv => NoStuckModifier
  BY DEF PipeInv, ModifierInv, NoStuckModifier, ReleaseToCome
<1> QED BY <1>1, PipeInvHolds, ModifierInvHolds, PTL

\* Every byte echoed comes from a press and a modifier that was down with it:
\* the flags of the handler never slip by one scan code.
THEOREM TypingFollowsPresses == BuildIsBenign /\ Spec => TypedAsPressed
<1> DEFINE Follows == echoed' # echoed =>
                        /\ ~ Head(wire).release
                        /\ mod' \in Head(wire).down \cup {NoMod}
<1>1. PipeInv /\ ModifierInv /\ [Next]_vars => [Follows]_vars
  <2> SUFFICES ASSUME PipeInv, ModifierInv, Next, echoed' # echoed
               PROVE  /\ ~ Head(wire).release
                      /\ mod' \in Head(wire).down \cup {NoMod}
    BY DEF vars, history
  <2>1. kbd_handler
    BY DEF Next, User, Press, Release, Shell, PollEmpty, fgetc, RunCommand, page_fault, vars, history
  <2>2. /\ Len(wire) > 0
        /\ Head(wire) = wire[1]
        /\ wire[1].code \in Keys
        /\ wire[1].code \notin Modifiers
        /\ not_released
        /\ mod' = mod
    <3>1. /\ Head(wire) = wire[1]
          /\ Len(wire) > 0
          /\ wire[1].code \in Keys \cup {BreakCode}
      BY <2>1, HandlerTakes DEF PipeInv
    <3>2. /\ wire[1].code # BreakCode
          /\ send /\ wire[1].code \notin Modifiers
          /\ handle_kb_input(wire[1].code, mod', not_released)
          /\ mod' = mod
      BY <2>1, <3>1 DEF kbd_handler, sc3_to_usb
    <3>3. not_released
      BY <3>2 DEF handle_kb_input
    <3> QED BY <3>1, <3>2, <3>3
  <2>3. IsPress(wire[1])
    BY <2>2, KeysAssumption DEF ModifierInv, WireShape, IsBreak, IsPress
  <2> QED BY <2>2, <2>3 DEF ModifierInv, IsPress
<1> QED BY <1>1, PipeInvHolds, ModifierInvHolds, PTL DEF Spec, TypedAsPressed

=============================================================================
