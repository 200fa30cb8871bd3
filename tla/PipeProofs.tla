----------------------------- MODULE PipeProofs -----------------------------
(***************************************************************************)
(* Proofs about Pipe, for every ring size, byte set and set of requests:   *)
(* its indices stay in the buffer, its two counts agree, and it implements *)
(* the bounded queue of BoundedFifo.                                       *)
(***************************************************************************)
EXTENDS PipeCalls, SequenceTheorems, TLAPS

-----------------------------------------------------------------------------
\* Advancing by fewer than sz steps wraps at most once.
LEMMA AdvanceWraps ==
  ASSUME NEW p \in Index, NEW n \in 0 .. Sz - 1
  PROVE  /\ Advance(p, n) = IF p + n < Sz THEN p + n ELSE p + n - Sz
         /\ Advance(p, n) \in Index
BY SzAssumption, SMTT(30) DEF Advance, Index

\* The two counts agree in every state of the right type.
LEMMA TypeGivesCounts == TypeOK => CountsAgree
BY SzAssumption DEF TypeOK, CountsAgree, pipe_size, pipe_avail, Index

\* A read of the pipe keeps the indices inside the buffer and takes what it
\* returns off the count of stored bytes.
LEMMA ReadStep ==
  ASSUME TypeOK, NEW sz \in Nat, NEW n \in 0 .. Sz - 1, pipe_read(sz, n)
  PROVE  TypeOK' /\ n <= pipe_size /\ pipe_size' = pipe_size - n
<1>1. n <= pipe_size /\ pipe_size \in 0 .. Sz - 1
  BY TypeGivesCounts, SzAssumption DEF CountsAgree, pipe_read, SmallerOf
<1>2. /\ read_ptr' = IF read_ptr + n < Sz THEN read_ptr + n ELSE read_ptr + n - Sz
      /\ read_ptr' \in Index
      /\ UNCHANGED <<buf, write_ptr>>
  BY AdvanceWraps DEF pipe_read, TypeOK
<1>3. TypeOK'
  BY <1>2 DEF TypeOK
<1>4. pipe_size' = pipe_size - n
  BY <1>1, <1>2, SzAssumption DEF TypeOK, pipe_size, Index
<1> QED BY <1>1, <1>3, <1>4

\* A write keeps the indices inside the buffer and adds what it stored to
\* the count of stored bytes.
LEMMA WriteStep ==
  ASSUME TypeOK, NEW s \in Seq(Byte), NEW n \in 0 .. Sz - 1, pipe_write(s, n)
  PROVE  /\ TypeOK'
         /\ n <= pipe_avail
         /\ n <= Len(s)
         /\ pipe_size' = pipe_size + n
<1>1. /\ n <= pipe_avail
      /\ n <= Len(s)
      /\ pipe_size \in 0 .. Sz - 1
      /\ pipe_size + pipe_avail = Sz - 1
  <2>1. pipe_size \in 0 .. Sz - 1 /\ pipe_size + pipe_avail = Sz - 1
    BY TypeGivesCounts DEF CountsAgree
  <2>2. pipe_avail \in Int /\ Len(s) \in Nat
    BY SzAssumption DEF pipe_avail, TypeOK, Index
  <2> QED BY <2>1, <2>2 DEF pipe_write, SmallerOf
<1>2. /\ write_ptr' = IF write_ptr + n < Sz THEN write_ptr + n ELSE write_ptr + n - Sz
      /\ write_ptr' \in Index
      /\ read_ptr' = read_ptr
  BY AdvanceWraps DEF pipe_write, TypeOK
<1>3. buf' \in [Index -> Byte]
  <2>1. ASSUME NEW i \in Index, Offset(i, write_ptr) < n
        PROVE  s[Offset(i, write_ptr) + 1] \in Byte
    <3>1. Offset(i, write_ptr) + 1 \in 1 .. Len(s)
      BY <1>1, <2>1, SzAssumption DEF Offset, TypeOK, Index
    <3> QED BY <3>1, ElementOfSeq
  <2>2. \A i \in Index : buf[i] \in Byte
    BY DEF TypeOK
  <2> QED BY <2>1, <2>2 DEF pipe_write
<1>4. pipe_size' = pipe_size + n
  BY <1>1, <1>2, SzAssumption DEF TypeOK, pipe_size, pipe_avail, Index
<1> QED BY <1>1, <1>2, <1>3, <1>4 DEF TypeOK

-----------------------------------------------------------------------------
\* No call of pipe.c moves an index out of the buffer.
THEOREM TypeCorrect == Spec => []TypeOK
<1>1. Init => TypeOK
  BY SzAssumption DEF Init, pipe_create, TypeOK, Index
<1>2. TypeOK /\ [Next]_vars => TypeOK'
  <2> SUFFICES ASSUME TypeOK, [Next]_vars PROVE TypeOK'
    OBVIOUS
  <2>1. CASE \E sz \in ReadSizes : Read(sz)
    BY <2>1, ReadStep, CallsAssumption DEF Read
  <2>2. CASE \E s \in Requests : Write(s)
    BY <2>2, WriteStep, CallsAssumption DEF Write
  <2>3. CASE UNCHANGED vars
    BY <2>3 DEF vars, TypeOK
  <2> QED BY <2>1, <2>2, <2>3 DEF Next
<1> QED BY <1>1, <1>2, PTL DEF Spec

\* pipe_size_p and pipe_avail_p never disagree about a slot.
THEOREM CountsAlwaysAgree == Spec => []CountsAgree
BY TypeCorrect, TypeGivesCounts, PTL

-----------------------------------------------------------------------------
\* The bytes stored are a sequence of bytes as long as pipe_size says.
LEMMA OldestIsSeq ==
  ASSUME TypeOK, NEW n \in 0 .. pipe_size
  PROVE  /\ Oldest(n) \in Seq(Byte)
         /\ Len(Oldest(n)) = n
         /\ \A i \in 1 .. n : Oldest(n)[i] = buf[Advance(read_ptr, i - 1)]
<1>1. n \in Nat /\ n <= Sz - 1
  BY TypeGivesCounts, SzAssumption DEF CountsAgree
<1>2. \A i \in 1 .. n : buf[Advance(read_ptr, i - 1)] \in Byte
  BY <1>1, AdvanceWraps, SzAssumption DEF TypeOK
<1>3. Oldest(n) \in [1 .. n -> Byte]
  BY <1>2 DEF Oldest
<1> QED BY <1>1, <1>3, LenProperties DEF Oldest

\* Two sequences of the same length with the same elements are equal.
LEMMA SeqsEqual ==
  ASSUME NEW S, NEW a \in Seq(S), NEW b \in Seq(S), Len(a) = Len(b),
         \A i \in 1 .. Len(a) : a[i] = b[i]
  PROVE  a = b
BY SeqEqual

\* A function on 1 .. n is a sequence of length n.
LEMMA FunctionIsSeq ==
  ASSUME NEW S, NEW n \in Nat, NEW f \in [1 .. n -> S]
  PROVE  f \in Seq(S) /\ Len(f) = n
OBVIOUS

\* A read maps to a read of the queue.
LEMMA ReadImplements ==
  ASSUME TypeOK, NEW sz \in ReadSizes, Read(sz)
  PROVE  Fifo!Read(sz)
<1>1. PICK n \in 0 .. Sz - 1 :
        /\ pipe_read(sz, n)
        /\ last' = [call |-> "read", count |-> n, bytes |-> Oldest(n)]
  BY DEF Read
<1>2. sz \in Nat /\ pipe_size \in 0 .. Sz - 1
  BY CallsAssumption, TypeGivesCounts DEF CountsAgree
<1>3. TypeOK' /\ n <= pipe_size /\ pipe_size' = pipe_size - n
  BY <1>1, <1>2, ReadStep
<1> DEFINE old == Oldest(pipe_size)
           new == Oldest(pipe_size)'
<1>4. /\ old \in Seq(Byte)
      /\ Len(old) = pipe_size
      /\ \A i \in 1 .. pipe_size : old[i] = buf[Advance(read_ptr, i - 1)]
  BY <1>2, OldestIsSeq
<1>5. /\ new \in Seq(Byte)
      /\ Len(new) = pipe_size - n
      /\ \A i \in 1 .. pipe_size - n : new[i] = buf[Advance(read_ptr', i - 1)]
  <2>1. pipe_size' \in 0 .. pipe_size'
    BY <1>2, <1>3
  <2>2. ASSUME NEW k, k = pipe_size'
        PROVE  /\ Oldest(k)' \in Seq(Byte)
               /\ Len(Oldest(k)') = k
               /\ \A i \in 1 .. k : Oldest(k)'[i] = buf'[Advance(read_ptr', i - 1)]
    <3>1. \A i \in 1 .. k : buf'[Advance(read_ptr', i - 1)] \in Byte
      BY <1>2, <1>3, <2>2, AdvanceWraps, SzAssumption DEF TypeOK
    <3>2. Oldest(k)' \in [1 .. k -> Byte]
      BY <3>1 DEF Oldest, Advance
    <3> QED BY <1>2, <1>3, <2>2, <3>2, LenProperties DEF Oldest, Advance
  <2> QED BY <1>1, <1>3, <2>2 DEF pipe_read
<1>6. n = Fifo!SmallerOf(Len(old), sz)
  BY <1>1, <1>4 DEF pipe_read, SmallerOf, Fifo!SmallerOf
<1>7. new = SubSeq(old, n + 1, Len(old))
  <2>1. /\ SubSeq(old, n + 1, Len(old)) \in Seq(Byte)
        /\ Len(SubSeq(old, n + 1, Len(old))) = pipe_size - n
        /\ \A i \in 1 .. pipe_size - n : SubSeq(old, n + 1, Len(old))[i] = old[n + i]
    BY <1>2, <1>3, <1>4, SubSeqProperties
  <2>2. ASSUME NEW i \in 1 .. pipe_size - n
        PROVE  Advance(read_ptr', i - 1) = Advance(read_ptr, n + i - 1)
    <3>1. /\ read_ptr' = IF read_ptr + n < Sz THEN read_ptr + n ELSE read_ptr + n - Sz
          /\ read_ptr' \in Index
      BY <1>1, AdvanceWraps DEF pipe_read, TypeOK
    <3>2. i - 1 \in 0 .. Sz - 1 /\ n + i - 1 \in 0 .. Sz - 1
      BY <1>2, <1>3, SzAssumption
    <3>3. /\ Advance(read_ptr', i - 1) = IF read_ptr' + (i - 1) < Sz
                                         THEN read_ptr' + (i - 1)
                                         ELSE read_ptr' + (i - 1) - Sz
          /\ Advance(read_ptr, n + i - 1) = IF read_ptr + (n + i - 1) < Sz
                                            THEN read_ptr + (n + i - 1)
                                            ELSE read_ptr + (n + i - 1) - Sz
      BY <3>1, <3>2, AdvanceWraps DEF TypeOK
    <3> QED BY <3>1, <3>2, <3>3, SzAssumption DEF TypeOK, Index
  <2>3. ASSUME NEW i \in 1 .. pipe_size - n
        PROVE  new[i] = old[n + i]
    <3>1. new[i] = buf[Advance(read_ptr, n + i - 1)]
      BY <1>5, <2>2
    <3>2. n + i \in 1 .. pipe_size
      BY <1>2, <1>3
    <3>3. old[n + i] = buf[Advance(read_ptr, (n + i) - 1)]
      BY <1>4, <3>2
    <3> QED BY <3>1, <3>3
  <2> QED BY <1>5, <2>1, <2>3, SeqsEqual
<1>8. Oldest(n) = SubSeq(old, 1, n)
  <2>1. /\ Oldest(n) \in Seq(Byte)
        /\ Len(Oldest(n)) = n
        /\ \A i \in 1 .. n : Oldest(n)[i] = buf[Advance(read_ptr, i - 1)]
    BY <1>2, <1>3, OldestIsSeq
  <2>2. /\ SubSeq(old, 1, n) \in Seq(Byte)
        /\ Len(SubSeq(old, 1, n)) = n
        /\ \A i \in 1 .. n : SubSeq(old, 1, n)[i] = old[i]
    BY <1>2, <1>3, <1>4, SubSeqProperties
  <2> QED BY <1>2, <1>3, <1>4, <2>1, <2>2, SeqsEqual
<1> QED BY <1>1, <1>6, <1>7, <1>8 DEF Fifo!Read

\* A write maps to a write of the queue.
LEMMA WriteImplements ==
  ASSUME TypeOK, NEW s \in Requests, Write(s)
  PROVE  Fifo!Write(s)
<1>1. PICK n \in 0 .. Sz - 1 :
        /\ pipe_write(s, n)
        /\ last' = [call |-> "write", count |-> n, bytes |-> << >>]
  BY DEF Write
<1>2. s \in Seq(Byte) /\ pipe_size \in 0 .. Sz - 1 /\ pipe_size + pipe_avail = Sz - 1
  BY CallsAssumption, TypeGivesCounts DEF CountsAgree
<1>3. TypeOK' /\ n <= pipe_avail /\ n <= Len(s) /\ pipe_size' = pipe_size + n
  BY <1>1, <1>2, WriteStep
<1>4. pipe_size + n \in 0 .. Sz - 1 /\ pipe_avail \in Nat /\ Len(s) \in Nat
  <2>1. pipe_avail \in Nat
    BY <1>2, SzAssumption DEF pipe_avail, TypeOK, Index
  <2> QED BY <1>2, <1>3, <2>1, SzAssumption
<1> DEFINE old == Oldest(pipe_size)
           new == Oldest(pipe_size)'
           sum == old \o SubSeq(s, 1, n)
<1>5. /\ old \in Seq(Byte)
      /\ Len(old) = pipe_size
      /\ \A i \in 1 .. pipe_size : old[i] = buf[Advance(read_ptr, i - 1)]
  BY <1>2, OldestIsSeq
<1>6. /\ new \in Seq(Byte)
      /\ Len(new) = pipe_size + n
      /\ \A i \in 1 .. pipe_size + n : new[i] = buf'[Advance(read_ptr, i - 1)]
  <2>1. ASSUME NEW k, k = pipe_size'
        PROVE  /\ Oldest(k)' \in Seq(Byte)
               /\ Len(Oldest(k)') = k
               /\ \A i \in 1 .. k : Oldest(k)'[i] = buf'[Advance(read_ptr', i - 1)]
    <3>1. \A i \in 1 .. k : buf'[Advance(read_ptr', i - 1)] \in Byte
      BY <1>3, <1>4, <2>1, AdvanceWraps, SzAssumption DEF TypeOK
    <3>2. Oldest(k)' \in [1 .. k -> Byte]
      BY <3>1 DEF Oldest, Advance
    <3>3. k \in Nat
      BY <1>3, <1>4, <2>1
    <3>4. Oldest(k)' \in Seq(Byte) /\ Len(Oldest(k)') = k
      BY <3>2, <3>3, FunctionIsSeq
    <3>5. \A i \in 1 .. k : Oldest(k)'[i] = buf'[Advance(read_ptr', i - 1)]
      BY DEF Oldest, Advance
    <3> QED BY <3>4, <3>5
  <2> QED BY <1>1, <1>3, <2>1 DEF pipe_write
<1>7. n = Fifo!SmallerOf((Sz - 1) - Len(old), Len(s))
  <2>1. (Sz - 1) - Len(old) = pipe_avail
    BY <1>2, <1>4, <1>5, SzAssumption
  <2> QED BY <1>1, <2>1 DEF pipe_write, SmallerOf, Fifo!SmallerOf
<1>8. /\ SubSeq(s, 1, n) \in Seq(Byte)
      /\ Len(SubSeq(s, 1, n)) = n
      /\ \A i \in 1 .. n : SubSeq(s, 1, n)[i] = s[i]
  BY <1>2, <1>3, <1>4, SubSeqProperties
<1>9. /\ sum \in Seq(Byte)
      /\ Len(sum) = pipe_size + n
      /\ \A i \in 1 .. pipe_size + n :
           sum[i] = IF i <= pipe_size THEN old[i] ELSE SubSeq(s, 1, n)[i - pipe_size]
  <2> DEFINE t == SubSeq(s, 1, n)
  <2>1. old \in Seq(Byte) /\ Len(old) = pipe_size /\ t \in Seq(Byte) /\ Len(t) = n
    BY <1>5, <1>8
  <2> HIDE DEF old, t
  <2>2. /\ old \o t \in Seq(Byte)
        /\ Len(old \o t) = Len(old) + Len(t)
        /\ \A i \in 1 .. Len(old) + Len(t) :
             (old \o t)[i] = IF i <= Len(old) THEN old[i] ELSE t[i - Len(old)]
    BY <2>1, ConcatProperties, Zenon
  <2>3. /\ old \o t \in Seq(Byte)
        /\ Len(old \o t) = pipe_size + n
        /\ \A i \in 1 .. pipe_size + n :
             (old \o t)[i] = IF i <= pipe_size THEN old[i] ELSE t[i - pipe_size]
    BY <2>1, <2>2, Zenon
  <2> QED BY <2>3, Zenon DEF old, t
<1>10. ASSUME NEW i \in 1 .. pipe_size + n
       PROVE  new[i] = sum[i]
  <2> DEFINE slot == Advance(read_ptr, i - 1)
  <2>1. /\ slot = IF read_ptr + (i - 1) < Sz THEN read_ptr + (i - 1)
                                              ELSE read_ptr + (i - 1) - Sz
        /\ slot \in Index
    BY <1>4, AdvanceWraps, SzAssumption DEF TypeOK
  <2>2. new[i] = IF Offset(slot, write_ptr) < n
                 THEN s[Offset(slot, write_ptr) + 1] ELSE buf[slot]
    BY <1>1, <1>6, <2>1 DEF pipe_write
  <2>3. CASE i <= pipe_size
    <3>1. ~(Offset(slot, write_ptr) < n)
      BY <1>3, <1>4, <2>1, <2>3, SzAssumption
         DEF Offset, pipe_avail, pipe_size, TypeOK, Index
    <3> QED BY <1>4, <1>5, <1>9, <2>2, <2>3, <3>1
  <2>4. CASE i > pipe_size
    <3>1. Offset(slot, write_ptr) = i - pipe_size - 1
      BY <1>3, <1>4, <2>1, <2>4, SzAssumption
         DEF Offset, pipe_avail, pipe_size, TypeOK, Index
    <3>2. i - pipe_size \in 1 .. n
      BY <1>2, <1>3, <1>4, <2>4
    <3>3. new[i] = s[i - pipe_size]
      BY <1>2, <1>4, <2>2, <3>1, <3>2
    <3> QED BY <1>8, <1>9, <2>4, <3>2, <3>3, <1>2
  <2>5. i <= pipe_size \/ i > pipe_size
    BY <1>2, <1>4
  <2> QED BY <2>3, <2>4, <2>5
<1>11. new = sum
  BY <1>6, <1>9, <1>10, SeqsEqual
<1> QED BY <1>1, <1>5, <1>7, <1>11 DEF Fifo!Write

\* pipe.c implements the bounded queue: for every ring size, byte set and set
\* of requests each call is a read or a write of a queue of sz - 1 bytes.
THEOREM PipeImplementsFifo == Spec => ImplementsFifo
<1>1. Init => Fifo!Init
  <2> SUFFICES ASSUME Init PROVE Fifo!Init
    OBVIOUS
  <2>1. TypeOK /\ pipe_size = 0
    BY SzAssumption DEF Init, pipe_create, TypeOK, pipe_size, Index
  <2>2. Oldest(pipe_size) = << >>
    BY <2>1, OldestIsSeq, EmptySeq
  <2> QED BY <2>2 DEF Init, Fifo!Init
<1>2. TypeOK /\ [Next]_vars => [Fifo!Next]_<<Oldest(pipe_size), last>>
  <2> SUFFICES ASSUME TypeOK, [Next]_vars
               PROVE  [Fifo!Next]_<<Oldest(pipe_size), last>>
    OBVIOUS
  <2>1. CASE \E sz \in ReadSizes : Read(sz)
    BY <2>1, ReadImplements DEF Fifo!Next
  <2>2. CASE \E s \in Requests : Write(s)
    BY <2>2, WriteImplements DEF Fifo!Next
  <2>3. CASE UNCHANGED vars
    BY <2>3 DEF vars, Oldest, pipe_size, Advance
  <2> QED BY <2>1, <2>2, <2>3 DEF Next
<1> QED BY <1>1, <1>2, TypeCorrect, PTL DEF Spec, ImplementsFifo, Fifo!Spec

=============================================================================
