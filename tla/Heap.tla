-------------------------------- MODULE Heap --------------------------------
(***************************************************************************)
(* The kernel's allocator, src/kernel/mem/heap.c, with the index of holes  *)
(* it keeps in an ordered array (src/kernel/misc/ordered_array.c).         *)
(*                                                                         *)
(* A heap is a run of segments, each with a header in front and a footer   *)
(* at the end that points back to the header.  The model has the memory    *)
(* itself, so that a stray write lands on whatever lies there: a cell      *)
(* holds a header, a footer, a byte of some client's data or junk.  Header *)
(* and footer are one cell each; addresses wrap at W like a uintptr_t.     *)
(***************************************************************************)
EXTENDS Integers, Sequences, FiniteSets, SequencesExt

CONSTANTS Start,     \* heap->start
          FirstEnd,  \* heap->end after vmem_heap_create
          Limit,     \* heap->max
          PageSize,  \* PAGE_SIZE
          W,         \* size of the address space
          Clients,   \* who may hold an allocation
          Sizes,     \* what they ask for
          Aligns,    \* alignments asked for, as powers of two; 0 for none
          Shrinking, \* whether realloc is called for less than the segment has
          Careful    \* whether clients avoid the cases of UnsafeAtTop

ASSUME HeapAssumption ==
  /\ {Start, FirstEnd, Limit, PageSize, W} \subseteq Nat
  /\ PageSize > 0 /\ Start % PageSize = 0 /\ FirstEnd % PageSize = 0
  /\ 0 < Start /\ Start + 2 <= FirstEnd /\ FirstEnd <= Limit /\ Limit < W
  /\ Sizes \subseteq Nat /\ Aligns \subseteq Nat
  /\ {Shrinking, Careful} \subseteq BOOLEAN

VARIABLES heap, \* [mem, index, end, state]: memory, hole index, heap->end, and
                \* "ok" or how the kernel stopped: "out of memory" is the
                \* assertion that the heap stays below its limit, "bound" none
                \* of the code's ends but MaxExpansions
          live  \* what each client holds: [p, n], or NULL

vars == <<heap, live>>

Addr == 0 .. W - 1
NULL == [p |-> 0, n |-> 0]
HDR == 1
FTR == 1
Overhead == HDR + FTR

Add(a, b) == (a + b) % W
Sub(a, b) == (a - b) % W

Header(size, hole, align) == [k |-> "header", size |-> size, hole |-> hole, align |-> align]
Footer(a) == [k |-> "footer", hdr |-> a]
Data(c) == [k |-> "data", of |-> c]
Junk == [k |-> "junk"]

\* Headers and footers carry the same magic number.
Magic(h, a) == h.mem[a].k \in {"header", "footer"}
SizeAt(h, a) == IF h.mem[a].k = "header" THEN h.mem[a].size ELSE 0
HoleAt(h, a) == h.mem[a].k = "header" /\ h.mem[a].hole
AlignAt(h, a) == IF h.mem[a].k = "header" THEN h.mem[a].align ELSE 0
FooterOf(h, a) == Sub(Add(a, SizeAt(h, a)), FTR)

PutFooter(h, at, a) == [h EXCEPT !.mem[at] = Footer(a)]
Segment(h, a, size, hole, align) ==
  PutFooter([h EXCEPT !.mem[a] = Header(size, hole, align)],
            Sub(Add(a, size), FTR), a)
Enlarge(h, a, by) ==
  [h EXCEPT !.mem[a] = Header(Add(SizeAt(h, a), by), HoleAt(h, a), AlignAt(h, a))]

Stop(h, why) == [h EXCEPT !.state = why]

-----------------------------------------------------------------------------
(* The index of holes, smallest first. *)

ord_arr_insert(h, a) ==
  LET i == SelectInSeq(h.index, LAMBDA b : SizeAt(h, b) >= SizeAt(h, a))
  IN  [h EXCEPT !.index = InsertAt(@, IF i = 0 THEN Len(@) + 1 ELSE i, a)]

ord_arr_index(h, a) == SelectInSeq(h.index, LAMBDA b : b = a)

\* Mutant: the entry in front of the one asked for goes.
ord_arr_remove_Before(h, i) == [h EXCEPT !.index = RemoveAt(@, IF i = 1 THEN i ELSE i - 1)]

ord_arr_remove(h, i) == [h EXCEPT !.index = RemoveAt(@, i)]

AlignUp(n, unit) == ((n + unit - 1) \div unit) * unit

\* The cells skipped to align the payload of a segment put into the hole a.
Skip(a, align) ==
  LET unit == 2 ^ align
      off == (unit - ((a + HDR) % unit)) % unit
  IN  IF off < HDR THEN off + unit ELSE off

vmem_heap_hole_find(h, size, align) ==
  SelectInSeq(h.index, LAMBDA a :
    IF align = 0 THEN SizeAt(h, a) >= size
    ELSE Skip(a, align) <= SizeAt(h, a) /\ SizeAt(h, a) - Skip(a, align) >= size)

-----------------------------------------------------------------------------
(* vmem_heap_expand, and what vmem_heap_alloc does with the new pages.      *)

vmem_heap_expand(h, new_sz) ==
  LET end == Start + AlignUp(new_sz, PageSize)
  IN  CASE end <= h.end -> Stop(h, "assertion")
        [] end > Limit  -> Stop(h, "out of memory")
        [] OTHER        -> [h EXCEPT !.end = end]

\* The hole at the highest address takes the new pages, or they become a hole.
Grown(h, real) ==
  LET g == vmem_heap_expand(h, h.end - Start + real)
      more == g.end - h.end
      last == CHOOSE a \in ToSet(g.index) : \A b \in ToSet(g.index) : b <= a
  IN  IF g.state # "ok" THEN g
      ELSE IF g.index = <<>>
           THEN ord_arr_insert(Segment(g, h.end, more, TRUE, 0), h.end)
           ELSE LET e == Enlarge(g, last, more)
                IN  PutFooter(e, FooterOf(e, last), last)

\* The tail call of vmem_heap_alloc: it expands until a hole is found.  Without
\* alignment one expansion is enough; MaxExpansions bounds the model.
MaxExpansions == 3
WithRoom(h, real, align) ==
  LET w[k \in 0 .. MaxExpansions] ==
        IF k = 0 THEN h
        ELSE LET g == w[k - 1]
             IN  IF g.state # "ok" \/ vmem_heap_hole_find(g, real, align) # 0
                 THEN g ELSE Grown(g, real)
  IN  w[MaxExpansions]

\* The cells in front of a header that aligns the payload, in the hole at o.
Padding(o, align) ==
  LET unit == 2 ^ align
      off == unit - (o % unit)
  IN  (IF off < HDR THEN off + unit ELSE off) - HDR

\* An allocation of `want` cells is cut from entry i of the index.
Carve(h, i, want, align) ==
  LET o == h.index[i]
      hole_size == SizeAt(h, o)
      real == IF Sub(hole_size, want) < Overhead THEN hole_size ELSE want
      left == Padding(o, align)
      a == IF align = 0 THEN o ELSE Add(o, left)
      rest == Sub(Sub(hole_size, IF align = 0 THEN 0 ELSE left), real)
      before == IF align = 0 THEN ord_arr_remove(h, i)
                ELSE Segment(h, o, left, TRUE, 0)
      taken == Segment(before, a, real, FALSE, align)
      r == Add(a, real)
      tail == [taken EXCEPT !.mem[r] = Header(rest, TRUE, 0)]
      f == Sub(Add(r, rest), FTR)
      closed == IF f < h.end THEN PutFooter(tail, f, r) ELSE tail
  IN  [h |-> IF rest > 0 THEN ord_arr_insert(closed, r) ELSE taken,
       p |-> Add(a, HDR)]

vmem_heap_alloc(h, size, align) ==
  LET g == WithRoom(h, size + Overhead, align)
      i == vmem_heap_hole_find(g, size + Overhead, align)
  IN  IF g.state # "ok" THEN [h |-> g, p |-> 0]
      ELSE IF i = 0 THEN [h |-> Stop(g, "bound"), p |-> 0]
      ELSE Carve(g, i, size + Overhead, align)

-----------------------------------------------------------------------------
(* vmem_heap_free: a freed segment joins the holes on both sides.           *)

JoinsLeft(h, a) ==
  LET l == Sub(a, FTR)
  IN  h.mem[l].k = "footer" /\ HoleAt(h, h.mem[l].hdr)

\* Mutant: the footer still names the freed segment.
UnifyLeft_OldFooter(h, a) ==
  IF JoinsLeft(h, a)
  THEN LET hole == h.mem[Sub(a, FTR)].hdr
       IN  [h |-> Enlarge(h, hole, SizeAt(h, a)), hole |-> hole]
  ELSE [h |-> h, hole |-> a]

\* The segment a, a hole by now, is joined to the hole in front of it; the
\* address of the result is `hole`.
UnifyLeft(h, a) ==
  IF JoinsLeft(h, a)
  THEN LET hole == h.mem[Sub(a, FTR)].hdr
       IN  [h |-> PutFooter(Enlarge(h, hole, SizeAt(h, a)), FooterOf(h, a), hole),
            hole |-> hole]
  ELSE [h |-> h, hole |-> a]

\* The hole a, whose footer is at f, takes in the one behind it, which leaves
\* the index.
UnifyRight(h, a, f) ==
  LET r == Add(f, FTR)
      e == Enlarge(h, a, SizeAt(h, r))
      i == ord_arr_index(h, r)
  IN  IF r >= h.end THEN Stop(h, "page fault")
      ELSE IF ~ HoleAt(h, r) THEN h
      ELSE IF i = 0 THEN Stop(h, "assertion")
      ELSE ord_arr_remove(PutFooter(e, FooterOf(h, r), a), i)

vmem_heap_free(h, p) ==
  LET a == Sub(p, HDR)
      f == FooterOf(h, a)
      freed == [h EXCEPT !.mem[a] = Header(SizeAt(h, a), TRUE, 0)]
      left == UnifyLeft(freed, a)
      both == UnifyRight(left.h, left.hole, f)
  IN  IF h.state # "ok" THEN h
      ELSE IF ~ Magic(h, a) \/ ~ Magic(h, f) \/ HoleAt(h, a) THEN Stop(h, "assertion")
      ELSE IF both.state # "ok" \/ JoinsLeft(freed, a) THEN both
      ELSE ord_arr_insert(both, a)

-----------------------------------------------------------------------------
(* vmem_heap_realloc.  `want` counts header and footer from here on.        *)

\* Lines 236-277: the new size is smaller.  The differences are computed as
\* `want - size`, which is negative and wraps.
Shrunk(h, a, want) ==
  LET size == SizeAt(h, a)
      r == Add(a, size)
      n == Add(a, want)
      i == ord_arr_index(h, r)
      moved == PutFooter([ord_arr_remove(h, i) EXCEPT
                            !.mem[n] = Header(Add(SizeAt(h, r), Sub(want, size)), TRUE, 0)],
                         FooterOf(h, r), n)
      hole == Segment(h, n, Sub(want, size), TRUE, 0)
  IN  IF r + HDR <= h.end /\ HoleAt(h, r)
      THEN IF i = 0 THEN Stop(h, "assertion")
           ELSE Segment(ord_arr_insert(moved, n), a, want, FALSE, AlignAt(h, a))
      ELSE IF Sub(want, size) >= Overhead
           THEN Segment(ord_arr_insert(hole, n), a, want, FALSE, AlignAt(h, a))
           ELSE h

\* Lines 280-304: the segment is the last one, so the heap grows behind it.
ExtendedAtEnd(h, a, want) ==
  LET g == vmem_heap_expand(h, h.end - Start + want)
      n == Add(a, want)
  IN  IF g.state # "ok" THEN g
      ELSE ord_arr_insert(Segment(Segment(g, a, want, FALSE, AlignAt(h, a)),
                                  n, Sub(g.end, n), TRUE, 0), n)

\* Mutant: the claimed hole stays in the index.
Claimed_KeepsEntry(h, a) ==
  LET r == Add(a, SizeAt(h, a))
  IN  PutFooter(Enlarge(h, a, SizeAt(h, r)), FooterOf(h, r), a)

\* Lines 306-343: cells come from the hole behind the segment, all of them
\* when no hole would be left over.
Claimed(h, a) ==
  LET r == Add(a, SizeAt(h, a))
  IN  ord_arr_remove(PutFooter(Enlarge(h, a, SizeAt(h, r)), FooterOf(h, r), a),
                     ord_arr_index(h, r))
SplitBehind(h, a, want) ==
  LET r == Add(a, SizeAt(h, a))
      n == Add(a, want)
      cut == ord_arr_remove(h, ord_arr_index(h, r))
      size == Sub(SizeAt(h, a) + SizeAt(h, r), want)
  IN  ord_arr_insert(Segment(Segment(cut, a, want, FALSE, AlignAt(h, a)),
                             n, size, TRUE, 0), n)

\* Mutant: one byte too few is copied.
Moved_CopiesLess(h, a, want) ==
  LET new == vmem_heap_alloc(h, want - Overhead, AlignAt(h, a))
      p == Add(a, HDR)
      copied == [new.h EXCEPT !.mem =
                   [x \in Addr |->
                      IF x \in new.p .. new.p + SizeAt(h, a) - Overhead - 2
                      THEN @[p + (x - new.p)] ELSE @[x]]]
  IN  IF new.h.state # "ok" THEN new
      ELSE [h |-> vmem_heap_free(copied, p), p |-> new.p]

\* Lines 346-352: a new allocation, the old payload copied, the old one freed.
Moved(h, a, want) ==
  LET new == vmem_heap_alloc(h, want - Overhead, AlignAt(h, a))
      p == Add(a, HDR)
      copied == [new.h EXCEPT !.mem =
                   [x \in Addr |->
                      IF x \in new.p .. new.p + SizeAt(h, a) - Overhead - 1
                      THEN @[p + (x - new.p)] ELSE @[x]]]
  IN  IF new.h.state # "ok" THEN new
      ELSE [h |-> vmem_heap_free(copied, p), p |-> new.p]

\* `Again` is the recursive call after a hole too small was claimed: it gets
\* `want`, which counts the overhead already, as the new size.
Realloc(h, p, want, Again(_)) ==
  LET a == Sub(p, HDR)
      size == SizeAt(h, a)
      f == FooterOf(h, a)
      r == Add(f, FTR)
      missing == want - size
      Kept(g) == [h |-> g, p |-> p]
  IN  CASE ~ Magic(h, a) \/ ~ Magic(h, f) \/ HoleAt(h, a) -> Kept(Stop(h, "assertion"))
        [] size = want                                    -> Kept(h)
        [] size > want                                    -> Kept(Shrunk(h, a, want))
        [] size < want /\ r + HDR > h.end                 -> Kept(ExtendedAtEnd(h, a, want))
        [] size < want /\ r + HDR <= h.end /\ HoleAt(h, r) ->
             IF ord_arr_index(h, r) = 0       THEN Kept(Stop(h, "assertion"))
             ELSE IF SizeAt(h, r) < missing   THEN Again(Claimed(h, a))
             ELSE IF SizeAt(h, r) - missing >= Overhead THEN Kept(SplitBehind(h, a, want))
             ELSE Kept(Claimed(h, a))
        [] OTHER                                          -> Moved(h, a, want)

\* No two holes are neighbours, so one recursive call is all there can be.
vmem_heap_realloc(h, p, size) ==
  LET want == size + Overhead
      Never(g) == [h |-> Stop(g, "bound"), p |-> p]
      Again(g) == Realloc(g, p, want + Overhead, Never)
  IN  IF p = NULL.p THEN vmem_heap_alloc(h, size, 0)
      ELSE IF size = 0 THEN [h |-> vmem_heap_free(h, p), p |-> NULL.p]
      ELSE Realloc(h, p, want, Again)

-----------------------------------------------------------------------------
(* The clients.  One fills what it got with its own bytes; the bytes it had *)
(* before a realloc it leaves alone, as it relies on them.                  *)

Filled(h, p, from, n, c) ==
  [h EXCEPT !.mem = [x \in Addr |-> IF x \in p + from .. p + n - 1 THEN Data(c) ELSE @[x]]]

Holds(c) == live[c] # NULL
LastIsHole == /\ heap.mem[heap.end - FTR].k = "footer"
              /\ HoleAt(heap, heap.mem[heap.end - FTR].hdr)
EndsHeap(c) == Holds(c) /\ FooterOf(heap, Sub(live[c].p, HDR)) + FTR = heap.end

\* Two cases the code gets wrong once a segment in use touches heap->end: a
\* free of that segment, and an expansion while there are holes below it.
UnsafeToFree(c) == EndsHeap(c)
UnsafeToAlloc(size, align) ==
  /\ ~ LastIsHole /\ heap.index # <<>>
  /\ vmem_heap_hole_find(heap, size + Overhead, align) = 0

Init ==
  /\ live = [c \in Clients |-> NULL]
  /\ LET empty == [mem |-> [a \in Addr |-> Junk], index |-> <<>>, end |-> FirstEnd,
                   state |-> "ok"]
     IN  heap = ord_arr_insert(Segment(empty, Start, FirstEnd - Start, TRUE, 0), Start)

\* The state after a call that returned `res` to client c for n cells, of which
\* the client wrote the first `from` before the call.  A NULL result is no
\* allocation; when the call stopped the kernel, nothing is returned.
Returned(c, res, from, n) ==
  IF res.h.state = "ok" /\ res.p # NULL.p
  THEN /\ heap' = Filled(res.h, res.p, from, n, c)
       /\ live' = [live EXCEPT ![c] = [p |-> res.p, n |-> n]]
  ELSE /\ heap' = res.h
       /\ live' = [live EXCEPT ![c] = IF res.h.state = "ok" THEN NULL ELSE @]

Alloc(c) ==
  /\ heap.state = "ok" /\ ~ Holds(c)
  /\ \E n \in Sizes, align \in Aligns :
       /\ Careful => ~ UnsafeToAlloc(n, align)
       /\ \E res \in {vmem_heap_alloc(heap, n, align)} : Returned(c, res, 0, n)

SegmentSize(c) == SizeAt(heap, Sub(live[c].p, HDR))
Least(m, n) == IF m < n THEN m ELSE n

\* Without an allocation to resize this allocates; a size of 0 frees.
Resize(c) ==
  /\ heap.state = "ok"
  /\ \E n \in IF Holds(c) THEN Sizes \union {0} ELSE Sizes :
       /\ Holds(c) /\ n # 0 => Shrinking \/ n + Overhead >= SegmentSize(c)
       /\ Careful => \/ EndsHeap(c) /\ n # 0
                     \/ ~ EndsHeap(c) /\ ~ UnsafeToAlloc(n + Overhead, 0)
       /\ \E res \in {vmem_heap_realloc(heap, live[c].p, n)} :
            Returned(c, res, Least(n, live[c].n), n)

Free(c) ==
  /\ heap.state = "ok" /\ Holds(c)
  /\ Careful => ~ UnsafeToFree(c)
  /\ heap' = vmem_heap_free(heap, live[c].p)
  /\ live' = [live EXCEPT ![c] = NULL]

Next == \E c \in Clients : Alloc(c) \/ Resize(c) \/ Free(c)

Spec == Init /\ [][Next]_vars

-----------------------------------------------------------------------------
(* Properties. *)

\* Type correctness: the stored addresses and sizes stay inside the address
\* space, whatever the arithmetic on headers and footers does.
TypeOK ==
  /\ heap.end \in Start .. Limit /\ heap.index \in Seq(Addr)
  /\ heap.state \in {"ok", "out of memory", "assertion", "page fault"}
  /\ \A a \in Addr : \/ heap.mem[a] = Junk
                     \/ heap.mem[a] \in {Data(c) : c \in Clients}
                     \/ heap.mem[a].k = "header" /\ heap.mem[a].size \in Addr
                     \/ heap.mem[a].k = "footer" /\ heap.mem[a].hdr \in Addr
  /\ \A c \in Clients : live[c].p \in Addr /\ live[c].n \in Nat

\* No assertion of the allocator fails but the one that the heap stays below its
\* limit: the ones of heap.c lines 56, 229-231 ("realloc on freed segment"), 240
\* ("Hole not in index"), 361-363 ("Double free") and 390 ("make sure it
\* actually exists").
AssertionsHold == heap.state # "assertion"

\* Careful clients bring the kernel to a stop in one way: an expansion, for what
\* one of them asks and the header and footer that realloc's recursive call
\* counts twice, would pass heap->max (line 57).  No other assertion fails, and
\* vmem_heap_free reads no header behind the end of the heap (line 380).
StopsOnlyWhenFull ==
  heap.state # "ok" =>
    /\ heap.state = "out of memory"
    /\ \E n \in Sizes, over \in {Overhead, 2 * Overhead} :
         Start + AlignUp(heap.end - Start + (n + over), PageSize) > Limit

\* The addresses of the segments, found as vmem_heap_dump finds them (400-417).
Walk ==
  LET next(a) == IF a >= heap.end THEN a ELSE a + SizeAt(heap, a)
      w[k \in 0 .. W] == IF k = 0 THEN {Start}
                         ELSE LET seen == w[k - 1] IN seen \union {next(a) : a \in seen}
  IN  w[(heap.end - Start) \div Overhead]
Segments == Walk \ {heap.end}

\* Headers and footers tile the heap from start to end and agree with each
\* other, as vmem_heap_dump expects ("Segment at %p not intact!").
SegmentsIntact ==
  heap.state = "ok" =>
    /\ heap.end \in Walk
    /\ \A a \in Segments :
         /\ heap.mem[a].k = "header" /\ SizeAt(heap, a) >= Overhead
         /\ heap.mem[FooterOf(heap, a)] = Footer(a)

\* The index lists every hole once and nothing else, and each segment in use
\* belongs to one client: no hole is lost and none is handed out twice.
IndexIsHoles ==
  heap.state = "ok" =>
    /\ ToSet(heap.index) = {a \in Segments : HoleAt(heap, a)}
    /\ Len(heap.index) = Cardinality(ToSet(heap.index))
    /\ {a \in Segments : ~ HoleAt(heap, a)} = {Sub(live[c].p, HDR) : c \in {d \in Clients : Holds(d)}}

\* What a client wrote it finds again, through every call of the others and
\* through its own reallocs that extend, merge, claim or move the segment.
PayloadsIntact ==
  heap.state = "ok" =>
    \A c \in Clients : \A x \in live[c].p .. live[c].p + live[c].n - 1 :
      heap.mem[x] = Data(c)
=============================================================================
