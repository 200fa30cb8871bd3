----------------------------- MODULE HeapProofs -----------------------------
(***************************************************************************)
(* The allocator, for every size of heap and page, every set of clients    *)
(* and every set of sizes they ask for, as long as they keep to what the   *)
(* code can do (Contract).                                                 *)
(***************************************************************************)
EXTENDS Heap, WellFoundedInduction, FiniteSetTheorems, TLAPS

-----------------------------------------------------------------------------
(* Numbers.                                                                *)

\* A set of numbers that is not empty has a least element.
LEMMA LeastElement ==
  ASSUME NEW S, S \subseteq Nat, S # {}
  PROVE  \E n \in S : \A k \in S : n <= k
<1> DEFINE Below == {0 .. n : n \in S}
<1>1. Below \subseteq FiniteSubsetsOf(Nat) /\ Below # {}
  <2>1. \A n \in S : IsFiniteSet(0 .. n) /\ 0 .. n \subseteq Nat
    BY FS_Interval
  <2> QED BY <2>1 DEF FiniteSubsetsOf
<1>2. PICK x \in Below : \A y \in Below : ~ (<<y, x>> \in StrictSubsetOrdering(Nat))
  <2> HIDE DEF Below
  <2> QED BY <1>1, FS_StrictSubsetOrderingWellFounded, WFMin, Zenon
<1>3. PICK n \in S : x = 0 .. n
  OBVIOUS
<1>4. ASSUME NEW k \in S, k < n
      PROVE  FALSE
  <2>1. 0 .. k \in Below
    OBVIOUS
  <2>2. 0 .. k \subseteq 0 .. n /\ n \in 0 .. n /\ n \notin 0 .. k /\ 0 .. n \subseteq Nat
    BY <1>4
  <2>3. 0 .. k # 0 .. n
    BY <2>2
  <2>4. 0 .. k \in SUBSET Nat /\ 0 .. n \in SUBSET Nat
    BY <2>2
  <2>5. <<0 .. k, 0 .. n>> \in StrictSubsetOrdering(Nat)
    BY <1>1, <1>3, <2>1, <2>2, <2>3, <2>4 DEF StrictSubsetOrdering, FiniteSubsetsOf
  <2> QED BY <1>2, <1>3, <2>1, <2>5
<1> QED BY <1>3, <1>4

\* Induction, for a set of numbers.
LEMMA Induction ==
  ASSUME NEW Good, 0 \in Good, \A n \in Nat : n \in Good => n + 1 \in Good
  PROVE  Nat \subseteq Good
<1> SUFFICES ASSUME Nat \ Good # {} PROVE FALSE
  OBVIOUS
<1>1. PICK n \in Nat \ Good : \A k \in Nat \ Good : n <= k
  BY LeastElement
<1>2. n - 1 \in Nat /\ n - 1 \in Good
  BY <1>1
<1> QED BY <1>1, <1>2

LEMMA Bounds ==
  /\ Start \in Nat /\ FirstEnd \in Nat /\ Limit \in Nat /\ PageSize \in Nat /\ W \in Nat
  /\ PageSize > 0 /\ 0 < Start /\ Start + 2 <= FirstEnd /\ FirstEnd <= Limit /\ Limit < W
  /\ Sizes \subseteq Nat
  /\ HDR = 1 /\ FTR = 1 /\ Overhead = 2
BY HeapAssumption DEF HDR, FTR, Overhead

\* Below W nothing wraps.
LEMMA ModIs ==
  ASSUME NEW x \in 0 .. W - 1
  PROVE  x % W = x
BY Bounds

LEMMA AddIs ==
  ASSUME NEW x \in Int, NEW y \in Int, x + y \in 0 .. W - 1
  PROVE  Add(x, y) = x + y
BY ModIs DEF Add

LEMMA SubIs ==
  ASSUME NEW x \in Int, NEW y \in Int, x - y \in 0 .. W - 1
  PROVE  Sub(x, y) = x - y
BY ModIs DEF Sub

\* Rounding up to whole pages never gives less.
LEMMA RoundedUp ==
  ASSUME NEW n \in Nat
  PROVE  AlignUp(n, PageSize) \in Nat /\ AlignUp(n, PageSize) >= n
<1>1. PageSize \in Nat /\ PageSize > 0
  BY Bounds
<1> DEFINE x == n + PageSize - 1
           q == x \div PageSize
<1>2. x \in Nat
  BY <1>1
<1>3. q \in Nat /\ x = q * PageSize + (x % PageSize) /\ x % PageSize \in 0 .. PageSize - 1
  <2> HIDE DEF x
  <2> QED BY <1>1, <1>2, SMTT(30)
<1>4. q * PageSize >= n /\ q * PageSize \in Nat
  <2>1. q * PageSize \in Int
    BY <1>1, <1>3
  <2>2. PICK y \in Int : y = q * PageSize
    BY <2>1
  <2>3. x = y + (x % PageSize)
    BY <1>3, <2>2
  <2> QED BY <1>1, <1>3, <2>2, <2>3
<1> QED BY <1>4 DEF AlignUp

-----------------------------------------------------------------------------
(* Writing to memory.                                                      *)

\* A heap as Init makes it and the operations leave it.
IsHeap(h) ==
  /\ h = [mem |-> h.mem, index |-> h.index, end |-> h.end, state |-> h.state]
  /\ DOMAIN h.mem = Addr

\* r is h but for the cells of D.
Wrote(h, r, D) ==
  /\ IsHeap(r) /\ r.index = h.index /\ r.end = h.end /\ r.state = h.state
  /\ \A x \in Addr : x \notin D => r.mem[x] = h.mem[x]

\* A cell with a header.
HeadAt(h, a, size, hole, align) == h.mem[a] = Header(size, hole, align)

LEMMA CellKinds ==
  /\ \A size, hole, align : /\ Header(size, hole, align).k = "header"
                            /\ Header(size, hole, align).size = size
                            /\ Header(size, hole, align).hole = hole
                            /\ Header(size, hole, align).align = align
  /\ \A a : Footer(a).k = "footer" /\ Footer(a).hdr = a
  /\ \A c : Data(c).k = "data"
  /\ Junk.k = "junk"
BY DEF Header, Footer, Data, Junk

LEMMA HeadIs ==
  ASSUME NEW h, NEW a, NEW size, NEW hole \in BOOLEAN, NEW align, HeadAt(h, a, size, hole, align)
  PROVE  /\ h.mem[a].k = "header" /\ SizeAt(h, a) = size /\ HoleAt(h, a) = hole
         /\ AlignAt(h, a) = align
BY CellKinds DEF HeadAt, SizeAt, HoleAt, AlignAt

LEMMA FooterPut ==
  ASSUME NEW h, IsHeap(h), NEW at \in Addr, NEW a
  PROVE  Wrote(h, PutFooter(h, at, a), {at}) /\ PutFooter(h, at, a).mem[at] = Footer(a)
BY DEF PutFooter, IsHeap, Wrote

LEMMA HeaderPut ==
  ASSUME NEW h, IsHeap(h), NEW a \in Addr, NEW size, NEW hole, NEW align,
         NEW r, r = [h EXCEPT !.mem[a] = Header(size, hole, align)]
  PROVE  Wrote(h, r, {a}) /\ HeadAt(r, a, size, hole, align)
BY DEF HeadAt, IsHeap, Wrote

\* One write after another.
LEMMA WroteBoth ==
  ASSUME NEW h, NEW r, NEW s, NEW D, NEW E, Wrote(h, r, D), Wrote(r, s, E)
  PROVE  Wrote(h, s, D \cup E)
BY DEF Wrote

LEMMA WroteMore ==
  ASSUME NEW h, NEW r, NEW D, NEW E, Wrote(h, r, D), D \subseteq E
  PROVE  Wrote(h, r, E)
BY DEF Wrote

\* A segment does not wrap around.
Fits(a, size) == a \in Nat /\ size \in Nat /\ size >= 2 /\ a + size < W

LEMMA SegmentPut ==
  ASSUME NEW h, IsHeap(h), NEW a, NEW size, Fits(a, size), NEW hole, NEW align
  PROVE  /\ Wrote(h, Segment(h, a, size, hole, align), {a, a + size - 1})
         /\ HeadAt(Segment(h, a, size, hole, align), a, size, hole, align)
         /\ Segment(h, a, size, hole, align).mem[a + size - 1] = Footer(a)
<1>1. /\ a \in Addr /\ a + size - 1 \in Addr /\ a + size \in 0 .. W - 1 /\ W \in Nat
      /\ a \in Nat /\ size \in Nat /\ size >= 2
  BY Bounds DEF Addr, Fits
<1>2. Sub(Add(a, size), FTR) = a + size - 1
  <2>1. Add(a, size) = a + size
    BY <1>1, AddIs
  <2>2. PICK f : f = a + size
    OBVIOUS
  <2>3. f - 1 \in 0 .. W - 1 /\ f \in Int
    BY <1>1, <2>2
  <2> QED BY <1>1, <2>1, <2>2, <2>3, SubIs, Bounds
<1>3. PICK g : g = [h EXCEPT !.mem[a] = Header(size, hole, align)]
  OBVIOUS
<1>4. Wrote(h, g, {a}) /\ HeadAt(g, a, size, hole, align)
  BY <1>1, <1>3, HeaderPut
<1>5. PICK r : r = PutFooter(g, a + size - 1, a)
  OBVIOUS
<1>6. Wrote(g, r, {a + size - 1}) /\ r.mem[a + size - 1] = Footer(a)
  <2>1. IsHeap(g)
    BY <1>4 DEF Wrote
  <2> QED BY <1>1, <1>5, <2>1, FooterPut
<1>7. Segment(h, a, size, hole, align) = r
  BY <1>2, <1>3, <1>5 DEF Segment
<1>8. HeadAt(r, a, size, hole, align)
  BY <1>1, <1>4, <1>6 DEF Wrote, HeadAt
<1>9. Wrote(h, r, {a, a + size - 1})
  <2>1. Wrote(h, r, {a} \cup {a + size - 1})
    BY <1>4, <1>6, WroteBoth
  <2> QED BY <2>1, WroteMore
<1> QED BY <1>6, <1>7, <1>8, <1>9

\* A header's size goes up, the rest of it stays.
LEMMA Enlarged ==
  ASSUME NEW h, IsHeap(h), NEW a \in Addr, NEW by \in Int, SizeAt(h, a) \in Int,
         SizeAt(h, a) + by \in 0 .. W - 1
  PROVE  /\ Wrote(h, Enlarge(h, a, by), {a})
         /\ HeadAt(Enlarge(h, a, by), a, SizeAt(h, a) + by, HoleAt(h, a), AlignAt(h, a))
<1>1. PICK size : size = SizeAt(h, a) + by
  OBVIOUS
<1>2. Add(SizeAt(h, a), by) = size
  BY <1>1, AddIs
<1>3. PICK hole, align : hole = HoleAt(h, a) /\ align = AlignAt(h, a)
  OBVIOUS
<1>4. Enlarge(h, a, by) = [h EXCEPT !.mem[a] = Header(size, hole, align)]
  BY <1>2, <1>3 DEF Enlarge
<1> QED BY <1>1, <1>3, <1>4, HeaderPut

-----------------------------------------------------------------------------
(* Segments, one behind the other.                                         *)

\* A segment with its header and footer.
TileAt(h, a) ==
  /\ h.mem[a].k = "header" /\ h.mem[a].hole \in BOOLEAN /\ AlignAt(h, a) = 0
  /\ SizeAt(h, a) \in Nat /\ SizeAt(h, a) >= 2
  /\ h.mem[a + SizeAt(h, a) - 1] = Footer(a)

\* The segments of N lie one behind the other from lo to hi.
Tiles(h, N, lo, hi) ==
  /\ lo \in N /\ N \subseteq lo .. hi - 1
  /\ \A a \in N : TileAt(h, a) /\ a + SizeAt(h, a) \in N \cup {hi}
  /\ \A a \in N \cup {hi} : a # lo => \E b \in N : b + SizeAt(h, b) = a
  /\ \A a, b \in N : a < b => a + SizeAt(h, a) <= b

\* The segment at a is in r what it was in h, with all that is in it.
Kept(h, r, a) == \A x \in a .. a + SizeAt(h, a) - 1 : r.mem[x] = h.mem[x]

LEMMA KeptTile ==
  ASSUME NEW h, NEW r, NEW a \in Nat, TileAt(h, a), Kept(h, r, a)
  PROVE  /\ TileAt(r, a) /\ SizeAt(r, a) = SizeAt(h, a) /\ HoleAt(r, a) = HoleAt(h, a)
<1>1. /\ a \in a .. a + SizeAt(h, a) - 1
      /\ a + SizeAt(h, a) - 1 \in a .. a + SizeAt(h, a) - 1
  BY DEF TileAt
<1>2. r.mem[a] = h.mem[a] /\ r.mem[a + SizeAt(h, a) - 1] = h.mem[a + SizeAt(h, a) - 1]
  BY <1>1 DEF Kept
<1>3. SizeAt(r, a) = SizeAt(h, a) /\ AlignAt(r, a) = AlignAt(h, a) /\ HoleAt(r, a) = HoleAt(h, a)
  BY <1>2 DEF SizeAt, AlignAt, HoleAt
<1> QED BY <1>2, <1>3 DEF TileAt

LEMMA TileMade ==
  ASSUME NEW h, NEW a \in Nat, NEW size \in Nat, size >= 2, NEW hole \in BOOLEAN,
         HeadAt(h, a, size, hole, 0), h.mem[a + size - 1] = Footer(a)
  PROVE  TileAt(h, a) /\ SizeAt(h, a) = size /\ HoleAt(h, a) = hole
BY HeadIs, CellKinds DEF TileAt, HeadAt

LEMMA OneTile ==
  ASSUME NEW h, NEW a \in Nat, NEW hi, TileAt(h, a), a + SizeAt(h, a) = hi
  PROVE  Tiles(h, {a}, a, hi)
BY DEF Tiles, TileAt

LEMMA TwoTiles ==
  ASSUME NEW h, NEW a \in Nat, NEW b, NEW hi, TileAt(h, a), TileAt(h, b),
         a + SizeAt(h, a) = b, b + SizeAt(h, b) = hi
  PROVE  Tiles(h, {a, b}, a, hi)
<1>1. /\ b \in Nat /\ hi \in Nat /\ a < b /\ b < hi
      /\ SizeAt(h, a) \in Nat /\ SizeAt(h, b) \in Nat
  BY DEF TileAt
<1>2. {a, b} \subseteq a .. hi - 1
  BY <1>1
<1>3. \A x \in {a, b} \cup {hi} : x # a => \E y \in {a, b} : y + SizeAt(h, y) = x
  OBVIOUS
<1>4. \A x, y \in {a, b} : x < y => x + SizeAt(h, x) <= y
  BY <1>1
<1> QED BY <1>2, <1>3, <1>4 DEF Tiles

\* The end of the region lo .. hi of a heap up to e, after it became lo .. hi2 of
\* one up to e2.
Stretched(e, hi, e2, hi2) ==
  \/ hi2 = hi /\ e2 = e
  \/ hi = e /\ hi2 = e2 /\ e2 >= e

\* Where segments are replaced by others that take the same room, or more at the
\* end of the heap, the rest stays as it is.
LEMMA Retiled ==
  ASSUME NEW h, NEW r, NEW S, NEW N, NEW first \in Nat, NEW lo \in Nat, NEW hi \in Nat,
         NEW hi2 \in Nat, NEW e \in Nat, NEW e2 \in Nat,
         Tiles(h, S, first, e), lo \in S \cup {e}, hi \in S \cup {e}, lo <= hi,
         Tiles(r, N, lo, hi2), Stretched(e, hi, e2, hi2),
         \A x \in first .. e - 1 : x \notin lo .. hi2 - 1 => r.mem[x] = h.mem[x]
  PROVE  /\ Tiles(r, (S \ (lo .. hi - 1)) \cup N, first, e2)
         /\ \A a \in S \ (lo .. hi - 1) : Kept(h, r, a)
<1> DEFINE Out == S \ (lo .. hi - 1)
           S2 == Out \cup N
<1>1. /\ S \subseteq first .. e - 1 /\ first \in S /\ first < e
      /\ \A a \in S : TileAt(h, a) /\ a \in Nat /\ SizeAt(h, a) \in Nat /\ SizeAt(h, a) >= 2
      /\ \A a \in S : a + SizeAt(h, a) \in S \cup {e}
      /\ \A a \in S \cup {e} : a # first => \E b \in S : b + SizeAt(h, b) = a
      /\ \A a, b \in S : a < b => a + SizeAt(h, a) <= b
  <2>1. \A a \in S : a \in Nat
    BY DEF Tiles
  <2> QED BY <2>1 DEF Tiles, TileAt
<1>2. /\ N \subseteq lo .. hi2 - 1 /\ lo \in N /\ lo < hi2
      /\ \A a \in N : TileAt(r, a) /\ a \in Nat /\ SizeAt(r, a) \in Nat /\ SizeAt(r, a) >= 2
      /\ \A a \in N : a + SizeAt(r, a) \in N \cup {hi2}
      /\ \A a \in N \cup {hi2} : a # lo => \E b \in N : b + SizeAt(r, b) = a
      /\ \A a, b \in N : a < b => a + SizeAt(r, a) <= b
  <2>1. \A a \in N : a \in Nat
    BY DEF Tiles
  <2> QED BY <2>1 DEF Tiles, TileAt
<1>3. \A a \in Out : a + SizeAt(h, a) <= lo \/ a >= hi
  <2> SUFFICES ASSUME NEW a \in Out, a < lo PROVE a + SizeAt(h, a) <= lo
    BY <1>1
  <2> QED BY <1>1
<1>4. \A a \in S : a + SizeAt(h, a) <= e /\ (a < hi => a + SizeAt(h, a) <= hi)
  <2> SUFFICES ASSUME NEW a \in S
               PROVE  a + SizeAt(h, a) <= e /\ (a < hi => a + SizeAt(h, a) <= hi)
    OBVIOUS
  <2>1. PICK z \in S \cup {e} : z = a + SizeAt(h, a)
    BY <1>1
  <2>2. z <= e
    BY <1>1, <2>1
  <2>3. CASE hi \in S
    BY <1>1, <2>1, <2>2, <2>3
  <2>4. CASE hi = e
    BY <2>1, <2>2, <2>4
  <2> QED BY <2>1, <2>2, <2>3, <2>4
<1>5. ASSUME NEW a \in Out, a >= hi PROVE hi2 = hi /\ e2 = e
  BY <1>1, <1>5 DEF Stretched
<1>6. ASSUME NEW a \in Out PROVE Kept(h, r, a)
  <2> SUFFICES ASSUME NEW x \in a .. a + SizeAt(h, a) - 1 PROVE r.mem[x] = h.mem[x]
    BY DEF Kept
  <2>1. x \in first .. e - 1
    BY <1>1, <1>4
  <2>2. x \notin lo .. hi2 - 1
    BY <1>1, <1>3, <1>5
  <2> QED BY <2>1, <2>2
<1>7. \A a \in Out : TileAt(r, a) /\ SizeAt(r, a) = SizeAt(h, a)
  BY <1>1, <1>6, KeptTile
<1>8. \A a \in N : a >= lo /\ a < hi2 /\ a + SizeAt(r, a) <= hi2
  <2> SUFFICES ASSUME NEW a \in N PROVE a >= lo /\ a < hi2 /\ a + SizeAt(r, a) <= hi2
    OBVIOUS
  <2>1. PICK z \in N \cup {hi2} : z = a + SizeAt(r, a)
    BY <1>2
  <2>2. z <= hi2
    BY <1>2, <2>1
  <2> QED BY <1>2, <2>1, <2>2
<1> HIDE DEF Out
<1>9. /\ Out \subseteq S
      /\ \A a \in S : a < lo \/ a >= hi => a \in Out
      /\ \A a \in S : a \notin Out => a >= lo /\ a < hi
  BY <1>1 DEF Out
<1>10. first \in S2
  BY <1>1, <1>2, <1>9
<1>11. S2 \subseteq first .. e2 - 1
  <2>1. ASSUME NEW a \in Out PROVE a \in first .. e2 - 1
    BY <1>1, <1>9 DEF Stretched
  <2>2. ASSUME NEW a \in N PROVE a \in first .. e2 - 1
    <3>1. first <= lo /\ hi2 <= e2
      BY <1>1 DEF Stretched
    <3> QED BY <1>1, <1>2, <1>8, <3>1
  <2> QED BY <2>1, <2>2
<1>12. ASSUME NEW a \in S2 PROVE TileAt(r, a) /\ a + SizeAt(r, a) \in S2 \cup {e2}
  <2>1. CASE a \in Out /\ a + SizeAt(h, a) <= lo
    <3>1. a + SizeAt(h, a) \in Out \cup {lo}
      <4>1. PICK z \in S \cup {e} : z = a + SizeAt(h, a)
        BY <1>1, <1>9, <2>1
      <4>2. z = lo \/ z < lo
        <5>1. z \in Nat /\ z <= lo
          BY <1>1, <2>1, <4>1
        <5> QED BY <5>1
      <4>3. lo <= e
        BY <1>1
      <4> QED BY <1>1, <1>9, <4>1, <4>2, <4>3
    <3> QED BY <1>2, <1>7, <2>1, <3>1
  <2>2. CASE a \in Out /\ a >= hi
    <3>1. e2 = e /\ a + SizeAt(h, a) > hi
      <4>1. e2 = e
        BY <1>5, <2>2
      <4>2. a \in Nat /\ SizeAt(h, a) \in Nat /\ SizeAt(h, a) >= 2
        BY <1>1, <1>9, <2>2
      <4> QED BY <2>2, <4>1, <4>2
    <3>2. a + SizeAt(h, a) \in Out \cup {e}
      BY <1>1, <1>9, <2>2, <3>1
    <3> QED BY <1>7, <2>2, <3>1, <3>2
  <2>3. CASE a \in N
    <3>1. TileAt(r, a) /\ a + SizeAt(r, a) \in N \cup {hi2}
      BY <1>2, <2>3
    <3>2. hi2 \in Out \cup {e2}
      BY <1>1, <1>9 DEF Stretched
    <3> QED BY <3>1, <3>2
  <2> QED BY <1>3, <2>1, <2>2, <2>3
<1>13. ASSUME NEW a \in S2 \cup {e2}, a # first PROVE \E b \in S2 : b + SizeAt(r, b) = a
  <2>1. CASE a \in N /\ a # lo
    BY <1>2, <2>1
  <2>2. CASE a = lo
    <3>1. PICK b \in S : b + SizeAt(h, b) = lo
      BY <1>1, <1>13, <2>2
    <3>2. b \in Out
      BY <1>1, <1>9, <3>1
    <3> QED BY <1>7, <2>2, <3>1, <3>2
  <2>3. CASE a \in Out \cup {e} /\ (a = e => e2 = e /\ hi2 = hi)
    <3>1. PICK b \in S : b + SizeAt(h, b) = a
      BY <1>1, <1>9, <1>13, <2>3
    <3>2. CASE b \in Out
      BY <1>7, <3>1, <3>2
    <3>3. CASE b \notin Out
      <4>1. b >= lo /\ b < hi /\ a <= hi /\ a > lo
        BY <1>1, <1>4, <1>9, <3>1, <3>3
      <4>2. a = hi
        BY <1>1, <1>9, <2>3, <4>1 DEF Out
      <4>3. hi2 = hi
        BY <1>1, <1>5, <1>9, <2>3, <4>2
      <4>4. hi2 # lo
        BY <1>2
      <4> QED BY <1>2, <4>2, <4>3, <4>4
    <3> QED BY <3>2, <3>3
  <2>4. CASE a = hi2
    BY <1>2, <2>4
  <2>5. a \in N \/ a \in Out \/ a = e2
    OBVIOUS
  <2>6. e2 = hi2 \/ (e2 = e /\ hi2 = hi)
    BY DEF Stretched
  <2>7. ASSUME a \in Out PROVE a # e
    BY <1>1, <1>9, <2>7
  <2> QED BY <2>1, <2>2, <2>3, <2>4, <2>5, <2>6, <2>7
<1>14. ASSUME NEW a \in S2, NEW b \in S2, a < b PROVE a + SizeAt(r, a) <= b
  <2>1. CASE a \in Out /\ b \in Out
    BY <1>1, <1>7, <1>9, <1>14, <2>1
  <2>2. CASE a \in Out /\ b \in N
    <3>1. a + SizeAt(h, a) <= lo \/ (a >= hi /\ hi2 = hi)
      BY <1>3, <1>5, <2>2
    <3>2. b \in Nat /\ b >= lo /\ b < hi2 /\ a \in Nat /\ SizeAt(h, a) \in Nat
      BY <1>1, <1>2, <1>8, <1>9, <2>2
    <3>3. a + SizeAt(h, a) <= lo
      BY <1>14, <3>1, <3>2
    <3> QED BY <1>7, <2>2, <3>2, <3>3
  <2>3. CASE a \in N /\ b \in Out
    <3>1. b \in Nat /\ SizeAt(h, b) \in Nat /\ a \in Nat /\ SizeAt(r, a) \in Nat
      BY <1>1, <1>2, <1>9, <2>3
    <3>2. b >= hi
      BY <1>3, <1>8, <1>14, <2>3, <3>1
    <3>3. hi2 = hi
      BY <1>5, <2>3, <3>2
    <3> QED BY <1>8, <2>3, <3>1, <3>2, <3>3
  <2>4. CASE a \in N /\ b \in N
    BY <1>2, <1>14, <2>4
  <2> QED BY <2>1, <2>2, <2>3, <2>4
<1>15. Tiles(r, S2, first, e2)
  <2> HIDE DEF S2
  <2> QED BY <1>10, <1>11, <1>12, <1>13, <1>14 DEF Tiles
<1> QED BY <1>6, <1>15 DEF Out

-----------------------------------------------------------------------------
(* The index.                                                              *)

\* The sequence x lists each element of H once, and nothing else.
Lists(x, H) ==
  /\ x \in Seq(Addr)
  /\ \A i \in 1 .. Len(x) : x[i] \in H
  /\ \A a \in H : \E i \in 1 .. Len(x) : x[i] = a
  /\ \A i, j \in 1 .. Len(x) : x[i] = x[j] => i = j

LEMMA InsertLists ==
  ASSUME NEW x, NEW H, Lists(x, H), NEW a \in Addr, a \notin H, NEW i \in 1 .. Len(x) + 1
  PROVE  Lists(InsertAt(x, i, a), H \cup {a})
<1>1. x \in Seq(Addr) /\ Len(x) \in Nat
  BY DEF Lists
<1>2. PICK n \in Nat : n = Len(x)
  BY <1>1
<1>3. PICK y : y = InsertAt(x, i, a)
  OBVIOUS
<1>4. /\ y \in Seq(Addr) /\ Len(y) = n + 1
      /\ \A k \in 1 .. n + 1 : y[k] = IF k < i THEN x[k] ELSE IF k = i THEN a ELSE x[k - 1]
  <2>1. PICK p : p = SubSeq(x, 1, i - 1)
    OBVIOUS
  <2>2. p \in Seq(Addr) /\ Len(p) = i - 1 /\ \A k \in 1 .. i - 1 : p[k] = x[k]
    BY <1>1, <1>2, <2>1
  <2>3. PICK q : q = SubSeq(x, i, n)
    OBVIOUS
  <2>4. q \in Seq(Addr) /\ Len(q) = n - i + 1 /\ \A k \in 1 .. n - i + 1 : q[k] = x[i + k - 1]
    BY <1>1, <1>2, <2>3
  <2>5. PICK l : l = p \o <<a>>
    OBVIOUS
  <2>6. l \in Seq(Addr) /\ Len(l) = i /\ \A k \in 1 .. i : l[k] = IF k < i THEN x[k] ELSE a
    BY <2>2, <2>5
  <2>7. y = l \o q
    BY <1>2, <1>3, <2>1, <2>3, <2>5 DEF InsertAt
  <2>8. y \in Seq(Addr) /\ Len(y) = n + 1
    <3>1. y \in Seq(Addr)
      BY <2>4, <2>6, <2>7
    <3>2. Len(y) = Len(l) + Len(q)
      BY <2>4, <2>6, <2>7
    <3>3. i \in Int
      BY <1>2
    <3> QED BY <1>2, <2>4, <2>6, <3>1, <3>2, <3>3
  <2>9. ASSUME NEW k \in 1 .. n + 1
        PROVE  y[k] = IF k < i THEN x[k] ELSE IF k = i THEN a ELSE x[k - 1]
    <3>1. y[k] = IF k <= i THEN l[k] ELSE q[k - i]
      BY <1>2, <2>4, <2>6, <2>7
    <3>2. CASE k <= i
      BY <2>6, <3>1, <3>2
    <3>3. CASE k > i
      <4>1. k - i \in 1 .. n - i + 1 /\ i + (k - i) - 1 = k - 1
        BY <1>2, <3>3
      <4> QED BY <1>2, <2>4, <3>1, <3>3, <4>1
    <3> QED BY <1>2, <3>2, <3>3
  <2> QED BY <2>8, <2>9
<1>5. \A k \in 1 .. n + 1 : y[k] \in H \cup {a}
  <2> SUFFICES ASSUME NEW k \in 1 .. n + 1 PROVE y[k] \in H \cup {a}
    OBVIOUS
  <2>1. CASE k < i
    BY <1>2, <1>4, <2>1 DEF Lists
  <2>2. CASE k > i
    BY <1>2, <1>4, <2>2 DEF Lists
  <2>3. CASE k = i
    BY <1>4, <2>3
  <2> QED BY <2>1, <2>2, <2>3
<1>6. ASSUME NEW b \in H \cup {a} PROVE \E k \in 1 .. n + 1 : y[k] = b
  <2>1. CASE b = a
    BY <1>2, <1>4, <2>1
  <2>2. CASE b \in H
    <3>1. PICK j \in 1 .. n : x[j] = b
      BY <1>2, <2>2 DEF Lists
    <3>2. CASE j < i
      BY <1>2, <1>4, <3>1, <3>2
    <3>3. CASE j >= i
      <4>1. j + 1 \in 1 .. n + 1 /\ y[j + 1] = x[j]
        BY <1>2, <1>4, <3>3
      <4> QED BY <3>1, <4>1
    <3> QED BY <1>2, <3>2, <3>3
  <2> QED BY <2>1, <2>2
<1>7. ASSUME NEW j \in 1 .. n + 1, NEW k \in 1 .. n + 1, y[j] = y[k] PROVE j = k
  <2>1. \A l \in 1 .. n : x[l] # a
    BY <1>2 DEF Lists
  <2>2. \A l, m \in 1 .. n : x[l] = x[m] => l = m
    BY <1>2 DEF Lists
  <2> QED BY <1>2, <1>4, <1>7, <2>1, <2>2
<1> QED BY <1>3, <1>4, <1>5, <1>6, <1>7 DEF Lists

LEMMA RemoveLists ==
  ASSUME NEW x, NEW H, Lists(x, H), NEW i \in 1 .. Len(x)
  PROVE  Lists(RemoveAt(x, i), H \ {x[i]})
<1>1. x \in Seq(Addr) /\ Len(x) \in Nat
  BY DEF Lists
<1>2. PICK n \in Nat : n = Len(x)
  BY <1>1
<1>3. PICK y : y = RemoveAt(x, i)
  OBVIOUS
<1>4. /\ y \in Seq(Addr) /\ Len(y) = n - 1
      /\ \A k \in 1 .. n - 1 : y[k] = IF k < i THEN x[k] ELSE x[k + 1]
  <2>1. PICK p : p = SubSeq(x, 1, i - 1)
    OBVIOUS
  <2>2. p \in Seq(Addr) /\ Len(p) = i - 1 /\ \A k \in 1 .. i - 1 : p[k] = x[k]
    BY <1>1, <1>2, <2>1
  <2>3. PICK q : q = SubSeq(x, i + 1, n)
    OBVIOUS
  <2>4. q \in Seq(Addr) /\ Len(q) = n - i /\ \A k \in 1 .. n - i : q[k] = x[i + k]
    BY <1>1, <1>2, <2>3
  <2>5. y = p \o q
    BY <1>2, <1>3, <2>1, <2>3 DEF RemoveAt
  <2>6. y \in Seq(Addr) /\ Len(y) = n - 1
    BY <1>2, <2>2, <2>4, <2>5
  <2>7. ASSUME NEW k \in 1 .. n - 1
        PROVE  y[k] = IF k < i THEN x[k] ELSE x[k + 1]
    <3>1. y[k] = IF k <= i - 1 THEN p[k] ELSE q[k - (i - 1)]
      BY <1>2, <2>2, <2>4, <2>5
    <3>2. CASE k < i
      BY <1>2, <2>2, <3>1, <3>2
    <3>3. CASE k >= i
      <4>1. k - (i - 1) \in 1 .. n - i /\ i + (k - (i - 1)) = k + 1
        BY <1>2, <3>3
      <4> QED BY <1>2, <2>4, <3>1, <3>3, <4>1
    <3> QED BY <1>2, <3>2, <3>3
  <2> QED BY <2>6, <2>7
<1>5. \A l, m \in 1 .. n : x[l] = x[m] => l = m
  BY <1>2 DEF Lists
<1>6. ASSUME NEW k \in 1 .. n - 1 PROVE y[k] \in H \ {x[i]}
  <2>1. PICK l \in 1 .. n : l # i /\ y[k] = x[l]
    <3>1. CASE k < i
      BY <1>2, <1>4, <3>1
    <3>2. CASE k >= i
      BY <1>2, <1>4, <3>2
    <3> QED BY <1>2, <3>1, <3>2
  <2> QED BY <1>2, <1>5, <2>1 DEF Lists
<1>7. ASSUME NEW b \in H \ {x[i]} PROVE \E k \in 1 .. n - 1 : y[k] = b
  <2>1. PICK j \in 1 .. n : x[j] = b
    BY <1>2 DEF Lists
  <2>2. CASE j < i
    BY <1>2, <1>4, <2>1, <2>2
  <2>3. CASE j > i
    <3>1. j - 1 \in 1 .. n - 1 /\ y[j - 1] = x[j]
      BY <1>2, <1>4, <2>3
    <3> QED BY <2>1, <3>1
  <2> QED BY <1>2, <2>1, <2>2, <2>3
<1>8. ASSUME NEW j \in 1 .. n - 1, NEW k \in 1 .. n - 1, y[j] = y[k] PROVE j = k
  BY <1>2, <1>4, <1>5, <1>8
<1> QED BY <1>3, <1>4, <1>6, <1>7, <1>8 DEF Lists

LEMMA MinIs ==
  ASSUME NEW I, I \subseteq Nat, I # {}
  PROVE  Min(I) \in I /\ \A k \in I : Min(I) <= k
BY LeastElement DEF Min

\* The new hole goes somewhere.
LEMMA Inserted ==
  ASSUME NEW h, IsHeap(h), NEW H, Lists(h.index, H), NEW a \in Addr, a \notin H
  PROVE  /\ IsHeap(ord_arr_insert(h, a)) /\ ord_arr_insert(h, a).mem = h.mem
         /\ ord_arr_insert(h, a).end = h.end /\ ord_arr_insert(h, a).state = h.state
         /\ Lists(ord_arr_insert(h, a).index, H \cup {a})
<1> DEFINE I == {j \in 1 .. Len(h.index) : SizeAt(h, h.index[j]) >= SizeAt(h, a)}
<1>1. Len(h.index) \in Nat
  BY DEF Lists
<1>2. PICK i : i = SelectInSeq(h.index, LAMBDA b : SizeAt(h, b) >= SizeAt(h, a))
  OBVIOUS
<1>3. i = IF I # {} THEN Min(I) ELSE 0
  BY <1>2 DEF SelectInSeq
<1>4. i \in 0 .. Len(h.index)
  <2>1. I \subseteq 1 .. Len(h.index)
    OBVIOUS
  <2>2. I \subseteq Nat
    OBVIOUS
  <2> HIDE DEF I
  <2>3. I # {} => Min(I) \in 1 .. Len(h.index)
    BY <2>1, <2>2, MinIs
  <2> QED BY <1>1, <1>3, <2>3
<1>5. PICK k \in 1 .. Len(h.index) + 1 : k = IF i = 0 THEN Len(h.index) + 1 ELSE i
  BY <1>1, <1>4
<1>6. PICK y : y = InsertAt(h.index, k, a)
  OBVIOUS
<1>7. ord_arr_insert(h, a) = [h EXCEPT !.index = y]
  BY <1>2, <1>5, <1>6 DEF ord_arr_insert
<1>8. Lists(y, H \cup {a})
  BY <1>5, <1>6, InsertLists
<1> QED BY <1>7, <1>8 DEF IsHeap

LEMMA Removed ==
  ASSUME NEW h, IsHeap(h), NEW H, Lists(h.index, H), NEW i \in 1 .. Len(h.index)
  PROVE  /\ IsHeap(ord_arr_remove(h, i)) /\ ord_arr_remove(h, i).mem = h.mem
         /\ ord_arr_remove(h, i).end = h.end /\ ord_arr_remove(h, i).state = h.state
         /\ Lists(ord_arr_remove(h, i).index, H \ {h.index[i]})
<1>1. PICK y : y = RemoveAt(h.index, i)
  OBVIOUS
<1>2. ord_arr_remove(h, i) = [h EXCEPT !.index = y]
  BY <1>1 DEF ord_arr_remove
<1>3. Lists(y, H \ {h.index[i]})
  BY <1>1, RemoveLists
<1> QED BY <1>2, <1>3 DEF IsHeap

LEMMA IndexOf ==
  ASSUME NEW h, NEW H, Lists(h.index, H), NEW a
  PROVE  /\ a \in H => /\ ord_arr_index(h, a) \in 1 .. Len(h.index)
                       /\ h.index[ord_arr_index(h, a)] = a
         /\ a \notin H => ord_arr_index(h, a) = 0
<1> DEFINE I == {j \in 1 .. Len(h.index) : h.index[j] = a}
<1>1. PICK i : i = ord_arr_index(h, a)
  OBVIOUS
<1>2. i = IF I # {} THEN Min(I) ELSE 0
  BY <1>1 DEF ord_arr_index, SelectInSeq
<1>3. I \subseteq Nat
  OBVIOUS
<1>4. a \in H => I # {}
  BY DEF Lists
<1>5. a \notin H => I = {}
  BY DEF Lists
<1>6. I # {} => Min(I) \in I
  <2> HIDE DEF I
  <2> QED BY <1>3, MinIs
<1> QED BY <1>1, <1>2, <1>4, <1>5, <1>6

\* The first hole that is large enough.
Finds(h, size, i) == size \in Int /\ i = vmem_heap_hole_find(h, size, 0)

LEMMA HoleFound ==
  ASSUME NEW h, NEW H, Lists(h.index, H), NEW size, NEW i, Finds(h, size, i)
  PROVE  /\ i # 0 => i \in 1 .. Len(h.index) /\ SizeAt(h, h.index[i]) >= size
         /\ i = 0 => \A j \in 1 .. Len(h.index) : ~ (SizeAt(h, h.index[j]) >= size)
<1> DEFINE I == {j \in 1 .. Len(h.index) : SizeAt(h, h.index[j]) >= size}
<1>1. vmem_heap_hole_find(h, size, 0) = IF I # {} THEN Min(I) ELSE 0
  BY DEF vmem_heap_hole_find, SelectInSeq
<1>2. I \subseteq Nat
  OBVIOUS
<1>3. I # {} => Min(I) \in I
  <2> HIDE DEF I
  <2> QED BY <1>2, MinIs
<1>4. 0 \notin I
  OBVIOUS
<1>5. i = 0 => I = {}
  BY <1>1, <1>3, <1>4 DEF Finds
<1>6. i # 0 => i \in I
  BY <1>1, <1>3 DEF Finds
<1> QED BY <1>5, <1>6

-----------------------------------------------------------------------------
(* A sound heap.                                                           *)

HolesIn(h, S) == {a \in S : HoleAt(h, a)}
UsedIn(h, S) == {a \in S : ~ HoleAt(h, a)}

\* No hole has a hole behind it.
Apart(h, S) ==
  \A a \in S : HoleAt(h, a) /\ a + SizeAt(h, a) \in S => ~ HoleAt(h, a + SizeAt(h, a))

\* The segments of S are those of the heap, and its index lists their holes.
Sound(h, S) ==
  /\ IsHeap(h) /\ h.state = "ok" /\ h.end \in Nat /\ h.end <= Limit
  /\ Tiles(h, S, Start, h.end)
  /\ Apart(h, S)
  /\ Lists(h.index, HolesIn(h, S))
  /\ h.mem[Start - 1].k # "footer"

\* Where a segment lies.
LEMMA InHeap ==
  ASSUME NEW h, NEW S, Sound(h, S), NEW a \in S
  PROVE  /\ a \in Nat /\ Start <= a /\ a \in Addr
         /\ SizeAt(h, a) \in Nat /\ SizeAt(h, a) >= 2 /\ a + SizeAt(h, a) <= h.end
         /\ h.end <= Limit /\ Limit < W /\ h.end \in Nat
         /\ TileAt(h, a) /\ a + SizeAt(h, a) \in S \cup {h.end}
<1>1. TileAt(h, a) /\ a + SizeAt(h, a) \in S \cup {h.end} /\ S \subseteq Start .. h.end - 1
  BY DEF Sound, Tiles
<1>2. h.end \in Nat /\ h.end <= Limit /\ Limit < W /\ Start \in Nat /\ Limit \in Nat /\ W \in Nat
  BY Bounds DEF Sound
<1>3. a \in Nat /\ Start <= a /\ a < h.end
  BY <1>1, <1>2
<1>4. a + SizeAt(h, a) <= h.end
  <2>1. PICK z \in S \cup {h.end} : z = a + SizeAt(h, a)
    BY <1>1
  <2>2. z <= h.end
    BY <1>1, <1>2
  <2> QED BY <2>1, <2>2
<1> QED BY <1>1, <1>2, <1>3, <1>4 DEF TileAt, Addr

\* Its footer.
LEMMA FooterIs ==
  ASSUME NEW h, NEW a \in Nat, SizeAt(h, a) \in Nat, SizeAt(h, a) >= 1, a + SizeAt(h, a) < W
  PROVE  FooterOf(h, a) = a + SizeAt(h, a) - 1
<1>1. PICK s \in Nat : s = SizeAt(h, a)
  OBVIOUS
<1>2. Add(a, s) = a + s
  BY <1>1, AddIs, Bounds
<1>3. Sub(a + s, 1) = a + s - 1
  <2>1. PICK f \in Nat : f = a + s
    OBVIOUS
  <2>2. f - 1 \in 0 .. W - 1
    BY <1>1, <2>1, Bounds
  <2> QED BY <2>1, <2>2, SubIs
<1> QED BY <1>1, <1>2, <1>3, Bounds DEF FooterOf

\* The segments of a region.
LEMMA RegionOne ==
  ASSUME NEW h, NEW S, Sound(h, S), NEW a \in S
  PROVE  S \cap (a .. a + SizeAt(h, a) - 1) = {a}
<1>1. \A b \in S : b \in Nat /\ SizeAt(h, b) \in Nat /\ SizeAt(h, b) >= 2
  BY InHeap
<1>2. \A b \in S : a < b => a + SizeAt(h, a) <= b
  BY DEF Sound, Tiles
<1> QED BY <1>1, <1>2

LEMMA RegionTwo ==
  ASSUME NEW h, NEW S, Sound(h, S), NEW a \in S, NEW b \in S, b = a + SizeAt(h, a)
  PROVE  S \cap (a .. b + SizeAt(h, b) - 1) = {a, b}
<1>1. \A c \in S : c \in Nat /\ SizeAt(h, c) \in Nat /\ SizeAt(h, c) >= 2
  BY InHeap
<1>2. \A c \in S : (a < c => a + SizeAt(h, a) <= c) /\ (b < c => b + SizeAt(h, b) <= c)
  BY DEF Sound, Tiles
<1> QED BY <1>1, <1>2

LEMMA RegionThree ==
  ASSUME NEW h, NEW S, Sound(h, S), NEW a \in S, NEW b \in S, NEW c \in S,
         b = a + SizeAt(h, a), c = b + SizeAt(h, b)
  PROVE  S \cap (a .. c + SizeAt(h, c) - 1) = {a, b, c}
<1>1. \A d \in S : d \in Nat /\ SizeAt(h, d) \in Nat /\ SizeAt(h, d) >= 2
  BY InHeap
<1>2. \A d \in S : /\ a < d => a + SizeAt(h, a) <= d
                   /\ b < d => b + SizeAt(h, b) <= d
                   /\ c < d => c + SizeAt(h, c) <= d
  BY DEF Sound, Tiles
<1> QED BY <1>1, <1>2

\* The heap r is h with the segments of N in the place of those from lo to hi.
Replaced(h, S, r, N, lo, hi) ==
  LET S2 == (S \ (lo .. hi - 1)) \cup N
  IN  /\ Sound(r, S2)
      /\ UsedIn(r, S2) = (UsedIn(h, S) \ (lo .. hi - 1)) \cup UsedIn(r, N)
      /\ \A a \in S \ (lo .. hi - 1) : Kept(h, r, a)

LEMMA Rebuilt ==
  ASSUME NEW h, NEW S, Sound(h, S), NEW r, NEW N, NEW lo, NEW hi, NEW hi2 \in Nat,
         lo \in S \cup {h.end}, hi \in S \cup {h.end}, lo <= hi,
         IsHeap(r), r.state = "ok", r.end \in Nat, r.end <= Limit,
         Tiles(r, N, lo, hi2), Stretched(h.end, hi, r.end, hi2),
         \A x \in Addr : x \notin lo .. hi2 - 1 => r.mem[x] = h.mem[x],
         Apart(r, N),
         \A a \in S : a + SizeAt(h, a) = lo /\ HoleAt(h, a) => ~ HoleAt(r, lo),
         hi \in S /\ HoleAt(h, hi) => \A b \in N : b + SizeAt(r, b) = hi => ~ HoleAt(r, b),
         Lists(r.index, (HolesIn(h, S) \ (lo .. hi - 1)) \cup HolesIn(r, N))
  PROVE  Replaced(h, S, r, N, lo, hi)
<1> DEFINE Out == S \ (lo .. hi - 1)
           S2 == Out \cup N
<1>1. /\ h.end \in Nat /\ Start \in Nat /\ W \in Nat /\ Limit \in Nat /\ Start > 0
      /\ h.end <= Limit /\ Limit < W
      /\ S \subseteq Start .. h.end - 1 /\ Tiles(h, S, Start, h.end)
  BY Bounds DEF Sound, Tiles
<1>2. lo \in Nat /\ hi \in Nat /\ lo >= Start
  <2>1. Start \in S
    BY DEF Sound, Tiles
  <2>2. Start <= h.end
    BY <1>1, <2>1
  <2> QED BY <1>1, <2>2
<1>3. \A x \in Start .. h.end - 1 : x \notin lo .. hi2 - 1 => r.mem[x] = h.mem[x]
  BY <1>1 DEF Addr
<1>4. Tiles(r, S2, Start, r.end) /\ \A a \in Out : Kept(h, r, a)
  BY <1>1, <1>2, <1>3, Retiled
<1>5. \A a \in Out : SizeAt(r, a) = SizeAt(h, a) /\ (HoleAt(r, a) <=> HoleAt(h, a))
  <2>1. \A a \in S : TileAt(h, a) /\ a \in Nat
    BY InHeap
  <2> QED BY <1>4, <2>1, KeptTile
<1>6. HolesIn(r, S2) = (HolesIn(h, S) \ (lo .. hi - 1)) \cup HolesIn(r, N)
  BY <1>5 DEF HolesIn
<1>7. UsedIn(r, S2) = (UsedIn(h, S) \ (lo .. hi - 1)) \cup UsedIn(r, N)
  BY <1>5 DEF UsedIn
<1>8. r.mem[Start - 1].k # "footer"
  <2>1. Start - 1 \in Addr /\ Start - 1 \notin lo .. hi2 - 1
    BY <1>1, <1>2 DEF Addr
  <2> QED BY <2>1 DEF Sound
<1>9. /\ N \subseteq lo .. hi2 - 1
      /\ \A a \in N : a \in Nat /\ SizeAt(r, a) \in Nat /\ SizeAt(r, a) >= 2 /\ a + SizeAt(r, a) <= hi2
  <2>1. /\ N \subseteq lo .. hi2 - 1
        /\ \A a \in N : TileAt(r, a) /\ a + SizeAt(r, a) \in N \cup {hi2}
    BY DEF Tiles
  <2> QED BY <1>2, <2>1 DEF TileAt
<1>10. ASSUME NEW a \in S2, HoleAt(r, a), a + SizeAt(r, a) \in S2
       PROVE  ~ HoleAt(r, a + SizeAt(r, a))
  <2>1. PICK b \in S2 : b = a + SizeAt(r, a)
    BY <1>10
  <2>2. CASE a \in N /\ b \in N
    BY <1>10, <2>1, <2>2 DEF Apart
  <2>3. CASE a \in Out /\ b \in Out
    <3>1. HoleAt(h, a) /\ b = a + SizeAt(h, a) /\ a \in S /\ b \in S
      BY <1>5, <1>10, <2>1, <2>3
    <3>2. ~ HoleAt(h, b)
      BY <3>1 DEF Sound, Apart
    <3> QED BY <1>5, <2>1, <2>3, <3>2
  <2>4. CASE a \in Out /\ b \in N
    <3>1. HoleAt(h, a) /\ b = a + SizeAt(h, a) /\ a \in S
      BY <1>5, <1>10, <2>1, <2>4
    <3>2. CASE b = lo
      BY <2>1, <3>1, <3>2
    <3>3. CASE b # lo
      <4>1. PICK c \in N : c + SizeAt(r, c) = b
        BY <2>4, <3>3 DEF Tiles
      <4>2. c = a
        <5>1. /\ a \in S2 /\ c \in S2 /\ \A d, f \in S2 : d < f => d + SizeAt(r, d) <= f
              /\ \A d \in S2 : d \in Nat /\ SizeAt(r, d) \in Nat /\ SizeAt(r, d) >= 2
          <6>1. \A d \in S : d \in Nat /\ SizeAt(h, d) \in Nat /\ SizeAt(h, d) >= 2
            BY InHeap
          <6> QED BY <1>4, <1>5, <1>9, <2>4, <4>1, <6>1 DEF Tiles
        <5> HIDE DEF S2, Out
        <5> QED BY <2>1, <4>1, <5>1
      <4>3. a >= lo /\ a < hi2 /\ a \notin lo .. hi - 1 /\ a \in S
        BY <1>2, <1>9, <2>4, <4>2
      <4>4. a < h.end /\ a \in Nat /\ a >= hi
        BY <1>1, <1>2, <4>3
      <4>5. hi2 = hi
        BY <1>1, <1>2, <4>4 DEF Stretched
      <4> QED BY <1>2, <4>3, <4>4, <4>5
    <3> QED BY <3>2, <3>3
  <2>5. CASE a \in N /\ b \in Out
    <3>1. b \in Nat /\ b \in S /\ b <= hi2 /\ b > lo /\ b < h.end
      BY <1>1, <1>2, <1>9, <2>1, <2>5
    <3>2. b >= hi
      BY <1>2, <2>5, <3>1
    <3>3. hi2 = hi /\ b = hi
      BY <1>1, <1>2, <3>1, <3>2 DEF Stretched
    <3>4. ~ HoleAt(h, hi)
      BY <1>10, <2>1, <2>5, <3>1, <3>3
    <3> QED BY <1>5, <2>1, <2>5, <3>3, <3>4
  <2> QED BY <2>1, <2>2, <2>3, <2>4, <2>5
<1>11. Apart(r, S2)
  BY <1>10 DEF Apart
<1>12. Lists(r.index, HolesIn(r, S2))
  BY <1>6
<1>13. Sound(r, S2)
  BY <1>4, <1>8, <1>11, <1>12 DEF Sound
<1> QED BY <1>4, <1>7, <1>13 DEF Replaced

-----------------------------------------------------------------------------
(* Two segments made, and a segment enlarged.                              *)

\* r is g with a segment written at a, which ends in front of b.
Made(g, r, a, size, hole) == r = Segment(g, a, size, hole, 0)
Behind(b, a, size) == b = a + size
\* A segment of that size.
Tile(h, a, size, hole) == TileAt(h, a) /\ SizeAt(h, a) = size /\ (HoleAt(h, a) <=> hole)

LEMMA SplitMem ==
  ASSUME NEW g, IsHeap(g), NEW a, NEW s1, Fits(a, s1), NEW s2, NEW hole1 \in BOOLEAN, NEW hole2 \in BOOLEAN,
         NEW n, Behind(n, a, s1), Fits(n, s2), NEW f, Made(g, f, a, s1, hole1), NEW r, Made(f, r, n, s2, hole2)
  PROVE  /\ Wrote(g, r, {a, n - 1, n, n + s2 - 1})
         /\ Tile(r, a, s1, hole1) /\ Tile(r, n, s2, hole2)
<1>1. n = a + s1 /\ a \in Nat /\ s1 \in Nat /\ s1 >= 2 /\ s2 \in Nat /\ s2 >= 2
  BY DEF Behind, Fits
<1>2. a + s1 < W /\ n \in Nat /\ n + s2 < W /\ W \in Nat
  BY <1>1, Bounds DEF Fits
<1>3. /\ Wrote(g, f, {a, a + s1 - 1}) /\ HeadAt(f, a, s1, hole1, 0)
      /\ f.mem[a + s1 - 1] = Footer(a)
  BY SegmentPut DEF Made
<1>4. IsHeap(f)
  BY <1>3 DEF Wrote
<1>5. /\ Wrote(f, r, {n, n + s2 - 1}) /\ HeadAt(r, n, s2, hole2, 0)
      /\ r.mem[n + s2 - 1] = Footer(n)
  BY <1>4, SegmentPut DEF Made
<1>6. r.mem[a] = f.mem[a] /\ r.mem[a + s1 - 1] = f.mem[a + s1 - 1]
  <2>1. /\ a \in Addr /\ a + s1 - 1 \in Addr /\ a \notin {n, n + s2 - 1}
        /\ a + s1 - 1 \notin {n, n + s2 - 1}
    BY <1>1, <1>2 DEF Addr
  <2> QED BY <1>5, <2>1 DEF Wrote
<1>7. HeadAt(r, a, s1, hole1, 0) /\ r.mem[a + s1 - 1] = Footer(a)
  BY <1>3, <1>6 DEF HeadAt
<1>8. TileAt(r, a) /\ SizeAt(r, a) = s1 /\ HoleAt(r, a) = hole1
  BY <1>1, <1>7, TileMade
<1>9. TileAt(r, n) /\ SizeAt(r, n) = s2 /\ HoleAt(r, n) = hole2
  BY <1>1, <1>2, <1>5, TileMade
<1>10. Wrote(g, r, {a, n - 1, n, n + s2 - 1})
  <2>1. Wrote(g, r, {a, a + s1 - 1} \cup {n, n + s2 - 1})
    BY <1>3, <1>5, WroteBoth
  <2> QED BY <1>1, <2>1, WroteMore
<1> QED BY <1>8, <1>9, <1>10 DEF Tile

\* The segment a takes in the cells behind it.
LEMMA JoinMem ==
  ASSUME NEW g, IsHeap(g), NEW a \in Nat, NEW by \in Nat, g.mem[a].k = "header",
         g.mem[a].hole \in BOOLEAN, AlignAt(g, a) = 0, SizeAt(g, a) \in Nat,
         NEW size, size = SizeAt(g, a) + by, size >= 2, a + size < W,
         NEW f, f = a + size - 1, NEW r, r = PutFooter(Enlarge(g, a, by), f, a)
  PROVE  /\ Wrote(g, r, {a, f})
         /\ Tile(r, a, size, HoleAt(g, a))
<1>1. PICK e : e = Enlarge(g, a, by)
  OBVIOUS
<1>2. /\ a \in Addr /\ f \in Addr /\ a # f /\ size \in Nat /\ W \in Nat
      /\ size \in 0 .. W - 1
  BY Bounds DEF Addr
<1>3. PICK hole \in BOOLEAN : hole = HoleAt(g, a)
  BY DEF HoleAt
<1>4. Wrote(g, e, {a}) /\ HeadAt(e, a, size, hole, 0)
  BY <1>1, <1>2, <1>3, Enlarged
<1>5. IsHeap(e)
  BY <1>4 DEF Wrote
<1>6. Wrote(e, r, {f}) /\ r.mem[f] = Footer(a)
  BY <1>1, <1>2, <1>5, FooterPut
<1>7. HeadAt(r, a, size, hole, 0)
  BY <1>2, <1>4, <1>6 DEF Wrote, HeadAt
<1>8. TileAt(r, a) /\ SizeAt(r, a) = size /\ HoleAt(r, a) = hole
  BY <1>2, <1>6, <1>7, TileMade
<1>9. Wrote(g, r, {a, f})
  <2>1. Wrote(g, r, {a} \cup {f})
    BY <1>4, <1>6, WroteBoth
  <2> QED BY <2>1, WroteMore
<1> QED BY <1>3, <1>8, <1>9 DEF Tile

-----------------------------------------------------------------------------
(* vmem_heap_alloc.                                                        *)

\* res is an allocation of `want` cells, header and footer among them; whoever
\* had one before still has it.
Gained(h, S, want, res) ==
  \E S2 :
    /\ Sound(res.h, S2) /\ res.h.end = h.end
    /\ res.p - 1 \in Nat /\ res.p - 1 \notin UsedIn(h, S) /\ res.p \in Nat
    /\ UsedIn(res.h, S2) = UsedIn(h, S) \cup {res.p - 1}
    /\ SizeAt(res.h, res.p - 1) >= want
    /\ \A a \in UsedIn(h, S) : Kept(h, res.h, a)

\* A segment is cut from a hole that is large enough.
LEMMA CarveEnds ==
  ASSUME NEW h, NEW S, Sound(h, S), NEW i \in 1 .. Len(h.index), NEW want \in Nat, want >= 2,
         SizeAt(h, h.index[i]) >= want
  PROVE  Gained(h, S, want, Carve(h, i, want, 0))
<1>1. PICK o : o = h.index[i]
  OBVIOUS
<1>2. o \in S /\ HoleAt(h, o) /\ Lists(h.index, HolesIn(h, S)) /\ IsHeap(h)
  BY <1>1 DEF Sound, Lists, HolesIn
<1>3. PICK size : size = SizeAt(h, o)
  OBVIOUS
<1>4. /\ o \in Nat /\ o \in Addr /\ size \in Nat /\ size >= want /\ o + size <= h.end /\ h.end \in Nat
      /\ h.end < W /\ W \in Nat /\ o + size \in S \cup {h.end} /\ Start <= o /\ Start \in Nat /\ Start > 0
  BY <1>1, <1>2, <1>3, InHeap, Bounds
<1>5. PICK c : c = ord_arr_remove(h, i)
  OBVIOUS
<1>6. /\ IsHeap(c) /\ c.mem = h.mem /\ c.end = h.end /\ c.state = h.state
      /\ Lists(c.index, HolesIn(h, S) \ {o})
  BY <1>1, <1>2, <1>5, Removed
<1>7. Sub(size, want) = size - want
  <2>1. PICK d : d = size - want
    OBVIOUS
  <2>2. d \in 0 .. W - 1
    BY <1>4, <2>1
  <2> QED BY <1>4, <2>1, <2>2, SubIs
<1>8. PICK real : real = IF size - want < 2 THEN size ELSE want
  OBVIOUS
<1>9. real \in Nat /\ real >= want /\ real <= size /\ (real = size \/ size - real >= 2)
  BY <1>4, <1>8
<1>10. Sub(Sub(size, 0), real) = size - real
  <2>1. Sub(size, 0) = size
    BY <1>4, SubIs
  <2>2. PICK d : d = size - real
    OBVIOUS
  <2>3. d \in 0 .. W - 1
    BY <1>4, <1>9, <2>2
  <2> QED BY <1>4, <1>9, <2>1, <2>2, <2>3, SubIs
<1>11. Add(o, real) = o + real
  <2>1. o + real \in 0 .. W - 1
    BY <1>4, <1>9
  <2> QED BY <1>4, <1>9, <2>1, AddIs
<1>12. Add(o, 1) = o + 1
  <2>1. o + 1 \in 0 .. W - 1
    BY <1>4
  <2> QED BY <1>4, <2>1, AddIs
<1>13. PICK res : res = Carve(h, i, want, 0)
  OBVIOUS
<1>14. PICK t : t = Segment(c, o, real, FALSE, 0)
  OBVIOUS
<1>15. PICK n \in Nat : n = o + real
  BY <1>4, <1>9
<1>16. PICK rest \in Nat : rest = size - real
  <2>1. size - real \in Nat
    BY <1>4, <1>9
  <2> QED BY <2>1
<1>17. PICK fin : fin = [t EXCEPT !.mem[n] = Header(rest, TRUE, 0)]
  OBVIOUS
<1>18. PICK f : f = Sub(Add(n, rest), 1)
  OBVIOUS
<1>19. /\ res.p = o + 1
       /\ res.h = IF rest > 0
                  THEN ord_arr_insert(IF f < h.end THEN PutFooter(fin, f, n) ELSE fin, n)
                  ELSE t
  BY <1>1, <1>3, <1>5, <1>7, <1>8, <1>10, <1>11, <1>12, <1>13, <1>14, <1>15, <1>16, <1>17, <1>18, Bounds
     DEF Carve
<1>20. PICK hi \in Nat : hi = o + size
  BY <1>4
<1>21. S \cap (o .. hi - 1) = {o}
  <2>1. S \cap (o .. o + SizeAt(h, o) - 1) = {o}
    BY <1>2, RegionOne
  <2> QED BY <1>3, <1>4, <1>20, <2>1
<1>22. /\ o \in Nat /\ size \in Nat /\ W \in Nat /\ size >= want /\ hi = o + size /\ hi < W
       /\ real \in Nat /\ real >= 2 /\ n = o + real /\ rest = size - real /\ (rest = 0 \/ rest >= 2) /\ real <= size
  <2>1. PICK e \in Nat : e = h.end
    BY <1>4
  <2>2. hi <= e /\ e < W
    BY <1>4, <1>20, <2>1
  <2> QED BY <1>4, <1>9, <1>15, <1>16, <1>20, <2>2
<1>23. hi \in S \cup {h.end} /\ o <= hi /\ hi > o
  BY <1>4, <1>20
<1>24. ASSUME NEW r, NEW N, IsHeap(r), r.state = h.state, r.end = h.end, Tiles(r, N, o, hi),
              \A x \in Addr : x \notin o .. hi - 1 => r.mem[x] = h.mem[x],
              ~ HoleAt(r, o), Apart(r, N),
              Lists(r.index, (HolesIn(h, S) \ {o}) \cup HolesIn(r, N)),
              UsedIn(r, N) = {o}, SizeAt(r, o) >= want, res.h = r
       PROVE  Gained(h, S, want, res)
  <2>1. HolesIn(h, S) \ {o} = HolesIn(h, S) \ (o .. hi - 1)
    BY <1>21 DEF HolesIn
  <2>2. Lists(r.index, (HolesIn(h, S) \ (o .. hi - 1)) \cup HolesIn(r, N))
    BY <1>24, <2>1
  <2>3. hi \in S => ~ HoleAt(h, hi)
    BY <1>2, <1>3, <1>20 DEF Sound, Apart
  <2>4. Stretched(h.end, hi, r.end, hi)
    BY <1>4, <1>24 DEF Stretched
  <2>5. r.state = "ok" /\ r.end \in Nat /\ r.end <= Limit /\ hi \in Nat
    BY <1>24 DEF Sound
  <2>6. Replaced(h, S, r, N, o, hi)
    <3> QED BY <1>2, <1>23, <1>24, <2>2, <2>3, <2>4, <2>5, Rebuilt
  <2>7. PICK S2 : S2 = (S \ (o .. hi - 1)) \cup N
    OBVIOUS
  <2>8. /\ Sound(r, S2) /\ UsedIn(r, S2) = (UsedIn(h, S) \ (o .. hi - 1)) \cup {o}
        /\ \A a \in S \ (o .. hi - 1) : Kept(h, r, a)
    BY <1>24, <2>6, <2>7 DEF Replaced
  <2>9. UsedIn(h, S) \ (o .. hi - 1) = UsedIn(h, S)
    BY <1>2, <1>21 DEF UsedIn
  <2>10. \A a \in UsedIn(h, S) : a \in S \ (o .. hi - 1)
    BY <2>9 DEF UsedIn
  <2>11. o \notin UsedIn(h, S)
    BY <1>2 DEF UsedIn
  <2>12. res.p - 1 = o /\ res.p \in Nat
    BY <1>4, <1>19
  <2> QED BY <1>4, <1>24, <2>8, <2>9, <2>10, <2>11, <2>12 DEF Gained
<1>25. o + real < W
  BY <1>4, <1>9
<1>26. CASE rest = 0
  <2>1. real = size /\ res.h = t
    BY <1>9, <1>16, <1>19, <1>26
  <2>2. Wrote(c, t, {o, o + size - 1}) /\ HeadAt(t, o, size, FALSE, 0) /\ t.mem[o + size - 1] = Footer(o)
    <3>1. PICK no : no = FALSE
      OBVIOUS
    <3>2. Fits(o, size) /\ t = Segment(c, o, size, no, 0)
      BY <1>14, <1>22, <2>1, <3>1 DEF Fits
    <3>3. Wrote(c, t, {o, o + size - 1}) /\ HeadAt(t, o, size, no, 0) /\ t.mem[o + size - 1] = Footer(o)
      BY <1>6, <3>2, SegmentPut
    <3> QED BY <3>1, <3>3
  <2>3. TileAt(t, o) /\ SizeAt(t, o) = size /\ ~ HoleAt(t, o)
    <3>1. PICK no \in BOOLEAN : no = FALSE
      OBVIOUS
    <3>2. HeadAt(t, o, size, no, 0) /\ size >= 2
      BY <1>22, <2>1, <2>2, <3>1
    <3> QED BY <1>22, <2>2, <3>1, <3>2, TileMade
  <2>4. Tiles(t, {o}, o, hi)
    BY <1>4, <1>20, <2>3, OneTile
  <2>5. /\ IsHeap(t) /\ t.state = h.state /\ t.end = h.end /\ t.index = c.index
        /\ \A x \in Addr : x \notin o .. hi - 1 => t.mem[x] = h.mem[x]
    BY <1>4, <1>6, <1>20, <2>2 DEF Wrote
  <2>6. Apart(t, {o}) /\ HolesIn(t, {o}) = {} /\ UsedIn(t, {o}) = {o}
    BY <2>3 DEF Apart, HolesIn, UsedIn
  <2>7. Lists(t.index, (HolesIn(h, S) \ {o}) \cup HolesIn(t, {o}))
    BY <1>6, <2>5, <2>6
  <2> QED BY <1>4, <1>13, <1>24, <2>1, <2>3, <2>4, <2>5, <2>6, <2>7
<1>27. CASE rest # 0
  <2>1. rest \in Nat /\ rest >= 2 /\ rest > 0 /\ real = size - rest
    BY <1>16, <1>27, <1>22
  <2>2. n + rest = hi /\ o + real + rest = hi
    BY <1>22, <2>1
  <2>3. hi <= h.end /\ n + rest <= h.end
    <3>1. hi <= h.end
      BY <1>4, <1>20
    <3> QED BY <2>2, <3>1
  <2>4. n - 1 >= o /\ n + 1 < hi /\ n + rest < W
    BY <1>22, <2>1, <2>2
  <2>5. /\ rest >= 2 /\ rest > 0 /\ real = size - rest /\ n + rest = hi /\ n + rest < W
        /\ o + real + rest = hi /\ n - 1 >= o /\ n + 1 < hi /\ n + rest <= h.end
    BY <2>1, <2>2, <2>3, <2>4
  <2>6. f = hi - 1 /\ f < h.end
    <3>1. Add(n, rest) = hi
      <4>1. PICK y : y = n + rest
        OBVIOUS
      <4>2. y \in 0 .. W - 1 /\ y = hi
        <5>1. n + rest = hi /\ hi \in Nat /\ hi < W /\ W \in Nat
          BY <1>20, <1>22, <2>2
        <5> QED BY <4>1, <5>1
      <4>3. Add(n, rest) = n + rest
        <5>1. n + rest \in 0 .. W - 1
          BY <4>1, <4>2
        <5> QED BY <5>1, AddIs
      <4> QED BY <4>1, <4>2, <4>3
    <3>2. PICK z \in Int : z = hi
      BY <1>4
    <3>3. z - 1 \in 0 .. W - 1
      BY <1>4, <2>5, <3>2
    <3>4. Sub(z, 1) = z - 1
      BY <3>3, SubIs
    <3> QED BY <1>4, <1>18, <2>5, <3>1, <3>2, <3>4
  <2>7. PICK two : two = Segment(t, n, rest, TRUE, 0)
    OBVIOUS
  <2>8. two = PutFooter(fin, f, n)
    BY <1>17, <1>18, <2>7, Bounds DEF Segment
  <2>9. PICK r : r = ord_arr_insert(two, n)
    OBVIOUS
  <2>10. res.h = r
    BY <1>19, <2>5, <2>6, <2>8, <2>9
  <2>11. /\ Wrote(c, two, {o, n - 1, n, n + rest - 1})
        /\ TileAt(two, o) /\ SizeAt(two, o) = real /\ ~ HoleAt(two, o)
        /\ TileAt(two, n) /\ SizeAt(two, n) = rest /\ HoleAt(two, n)
    <3>1. PICK no \in BOOLEAN, yes \in BOOLEAN : no = FALSE /\ yes = TRUE
      OBVIOUS
    <3>2. Made(c, t, o, real, no) /\ Made(t, two, n, rest, yes) /\ Behind(n, o, real)
      BY <1>14, <1>15, <2>7, <3>1 DEF Made, Behind
    <3>3. real >= 2 /\ o + real + rest < W /\ real \in Nat /\ o \in Nat /\ n = o + real /\ rest >= 2
      BY <1>9, <1>22, <2>5
    <3>4. /\ Wrote(c, two, {o, n - 1, n, n + rest - 1})
          /\ Tile(two, o, real, no) /\ Tile(two, n, rest, yes)
      <4>1. o + real < W
        BY <1>22, <3>3
      <4>2. Fits(o, real) /\ Fits(n, rest) 
        BY <2>5, <3>3, <4>1 DEF Fits
      <4>3. no \in BOOLEAN /\ yes \in BOOLEAN
        BY <3>1
      <4> QED BY <1>6, <3>2, <4>2, <4>3, SplitMem
    <3> QED BY <3>1, <3>4 DEF Tile
  <2>12. n \in Addr /\ n # o /\ n \in o .. hi - 1
    BY <1>4, <1>9, <1>15, <1>20, <2>5 DEF Addr
  <2>13. n \notin HolesIn(h, S) \ {o}
    BY <1>21, <2>12 DEF HolesIn
  <2>14. /\ IsHeap(two) /\ two.index = c.index /\ two.end = h.end /\ two.state = h.state
         /\ \A x \in Addr : x \notin o .. hi - 1 => two.mem[x] = h.mem[x]
    <3>1. {o, n - 1, n, n + rest - 1} \subseteq o .. hi - 1
      <4>1. n \in o .. hi - 1 /\ o \in o .. hi - 1 /\ n - 1 \in o .. hi - 1
        BY <1>22, <2>5
      <4>2. PICK z \in Nat : z = n + rest
        OBVIOUS
      <4>3. z - 1 \in o .. hi - 1
        BY <1>22, <2>5, <4>2
      <4> QED BY <4>1, <4>2, <4>3
    <3> QED BY <1>6, <2>11, <3>1 DEF Wrote
  <2>15. /\ IsHeap(r) /\ r.mem = two.mem /\ r.end = h.end /\ r.state = h.state
         /\ Lists(r.index, (HolesIn(h, S) \ {o}) \cup {n})
    BY <1>6, <2>9, <2>12, <2>13, <2>14, Inserted
  <2>16. /\ TileAt(r, o) /\ SizeAt(r, o) = real /\ ~ HoleAt(r, o)
         /\ TileAt(r, n) /\ SizeAt(r, n) = rest /\ HoleAt(r, n)
    BY <2>11, <2>15 DEF TileAt, SizeAt, HoleAt, AlignAt
  <2>17. Tiles(r, {o, n}, o, hi)
    BY <1>4, <1>15, <2>5, <2>16, TwoTiles
  <2>18. HolesIn(r, {o, n}) = {n} /\ UsedIn(r, {o, n}) = {o}
    BY <2>16 DEF HolesIn, UsedIn
  <2>19. Apart(r, {o, n})
    <3>1. n + SizeAt(r, n) \notin {o, n}
      <4>1. n + rest # o /\ n + rest # n
        BY <1>22, <2>5
      <4> QED BY <2>16, <4>1
    <3> QED BY <2>16, <3>1 DEF Apart
  <2>20. \A x \in Addr : x \notin o .. hi - 1 => r.mem[x] = h.mem[x]
    BY <2>14, <2>15
  <2>21. Lists(r.index, (HolesIn(h, S) \ {o}) \cup HolesIn(r, {o, n}))
    BY <2>15, <2>18
  <2>22. SizeAt(r, o) >= want
    BY <1>9, <2>16
  <2> QED BY <1>13, <1>24, <2>10, <2>15, <2>16, <2>17, <2>18, <2>19, <2>20, <2>21, <2>22
<1> QED BY <1>13, <1>26, <1>27

-----------------------------------------------------------------------------
(* A region of a sound heap that becomes one segment, or two.              *)

\* r is h with the cells from lo to hi rewritten; hi moves to hi2 when the heap
\* grows.
Patch(h, S, r, lo, hi, hi2) ==
  /\ lo \in S \cup {h.end} /\ hi \in S \cup {h.end} /\ lo <= hi /\ hi2 \in Nat
  /\ IsHeap(r) /\ r.state = "ok" /\ r.end \in Nat /\ r.end <= Limit
  /\ Stretched(h.end, hi, r.end, hi2)
  /\ \A x \in Addr : x \notin lo .. hi2 - 1 => r.mem[x] = h.mem[x]

\* No hole lies next to the region, in front of it or behind it.
NoneInFront(h, S, lo) == \A a \in S : a + SizeAt(h, a) = lo => ~ HoleAt(h, a)
NoneBehind(h, S, hi) == hi \in S => ~ HoleAt(h, hi)

HoleOf(a, hole) == {x \in {a} : hole}
UsedOf(a, hole) == {x \in {a} : ~ hole}

\* The index of r lists the holes of h outside the region, and those of `new`.
Listed(h, S, r, lo, hi, new) == Lists(r.index, (HolesIn(h, S) \ (lo .. hi - 1)) \cup new)

LEMMA PatchedOne ==
  ASSUME NEW h, NEW S, Sound(h, S), NEW r, NEW lo, NEW hi, NEW hi2, Patch(h, S, r, lo, hi, hi2),
         NEW size, NEW hole \in BOOLEAN, Tile(r, lo, size, hole), Behind(hi2, lo, size),
         hole => NoneInFront(h, S, lo) /\ NoneBehind(h, S, hi),
         Listed(h, S, r, lo, hi, HoleOf(lo, hole))
  PROVE  Replaced(h, S, r, {lo}, lo, hi) /\ UsedIn(r, {lo}) = UsedOf(lo, hole)
<1>1. TileAt(r, lo) /\ SizeAt(r, lo) = size /\ (HoleAt(r, lo) <=> hole) /\ lo + SizeAt(r, lo) = hi2
  BY DEF Tile, Behind
<1>2. lo \in Nat
  <2>1. \A a \in S \cup {h.end} : a \in Nat
    BY InHeap DEF Sound
  <2> QED BY <2>1 DEF Patch
<1>3. Tiles(r, {lo}, lo, hi2)
  BY <1>1, <1>2, OneTile
<1>4. Apart(r, {lo})
  <2>1. lo + SizeAt(r, lo) # lo
    BY <1>1, <1>2 DEF TileAt
  <2> QED BY <2>1 DEF Apart
<1>5. HolesIn(r, {lo}) = HoleOf(lo, hole) /\ UsedIn(r, {lo}) = UsedOf(lo, hole)
  BY <1>1 DEF HolesIn, UsedIn, HoleOf, UsedOf
<1>6. Lists(r.index, (HolesIn(h, S) \ (lo .. hi - 1)) \cup HolesIn(r, {lo}))
  BY <1>5 DEF Listed
<1>7. \A a \in S : a + SizeAt(h, a) = lo /\ HoleAt(h, a) => ~ HoleAt(r, lo)
  BY <1>1 DEF NoneInFront
<1>8. hi \in S /\ HoleAt(h, hi) => \A b \in {lo} : b + SizeAt(r, b) = hi => ~ HoleAt(r, b)
  BY <1>1 DEF NoneBehind
<1>9. Replaced(h, S, r, {lo}, lo, hi)
  BY <1>3, <1>4, <1>6, <1>7, <1>8, Rebuilt DEF Patch
<1> QED BY <1>5, <1>9

UsedTile(h, a, size) == Tile(h, a, size, FALSE)
HoleTile(h, a, size) == Tile(h, a, size, TRUE)

LEMMA PatchedTwo ==
  ASSUME NEW h, NEW S, Sound(h, S), NEW r, NEW lo, NEW hi, NEW hi2, Patch(h, S, r, lo, hi, hi2),
         NEW s1, NEW n, NEW s2, UsedTile(r, lo, s1), Behind(n, lo, s1), HoleTile(r, n, s2),
         Behind(hi2, n, s2),
         NoneBehind(h, S, hi),
         Listed(h, S, r, lo, hi, {n})
  PROVE  Replaced(h, S, r, {lo, n}, lo, hi) /\ UsedIn(r, {lo, n}) = {lo}
<1>1. /\ TileAt(r, lo) /\ SizeAt(r, lo) = s1 /\ ~ HoleAt(r, lo) /\ lo + SizeAt(r, lo) = n
      /\ TileAt(r, n) /\ SizeAt(r, n) = s2 /\ HoleAt(r, n) /\ n + SizeAt(r, n) = hi2
  BY DEF Tile, Behind, UsedTile, HoleTile
<1>2. lo \in Nat
  <2>1. \A a \in S \cup {h.end} : a \in Nat
    BY InHeap DEF Sound
  <2> QED BY <2>1 DEF Patch
<1>3. Tiles(r, {lo, n}, lo, hi2)
  BY <1>1, <1>2, TwoTiles
<1>4. Apart(r, {lo, n})
  <2>1. PICK k \in Nat : k = n
    BY <1>1, <1>2 DEF TileAt
  <2>2. SizeAt(r, n) \in Nat /\ SizeAt(r, n) >= 2 /\ SizeAt(r, lo) \in Nat /\ SizeAt(r, lo) >= 2
    BY <1>1 DEF TileAt
  <2>3. k + SizeAt(r, n) # k /\ k + SizeAt(r, n) # lo
    BY <1>1, <1>2, <2>1, <2>2
  <2> QED BY <1>1, <2>1, <2>3 DEF Apart
<1>5. HolesIn(r, {lo, n}) = {n} /\ UsedIn(r, {lo, n}) = {lo}
  BY <1>1 DEF HolesIn, UsedIn
<1>6. Lists(r.index, (HolesIn(h, S) \ (lo .. hi - 1)) \cup HolesIn(r, {lo, n}))
  BY <1>5 DEF Listed
<1>7. \A a \in S : a + SizeAt(h, a) = lo /\ HoleAt(h, a) => ~ HoleAt(r, lo)
  BY <1>1
<1>8. hi \in S /\ HoleAt(h, hi) => \A b \in {lo, n} : b + SizeAt(r, b) = hi => ~ HoleAt(r, b)
  BY DEF NoneBehind
<1>9. Replaced(h, S, r, {lo, n}, lo, hi)
  BY <1>3, <1>4, <1>6, <1>7, <1>8, Rebuilt DEF Patch
<1> QED BY <1>5, <1>9

\* From h to r the segments of `old` were given back and those of `new` handed out;
\* nobody else's changed.
Changed(h, S, r, S2, old, new) ==
  /\ Sound(r, S2) /\ r.end >= h.end
  /\ UsedIn(r, S2) = (UsedIn(h, S) \ old) \cup new
  /\ \A a \in UsedIn(h, S) \ old : Kept(h, r, a)

LEMMA ReplacedIs ==
  ASSUME NEW h, NEW S, NEW r, NEW N, NEW lo, NEW hi, Replaced(h, S, r, N, lo, hi),
         NEW new, UsedIn(r, N) = new, NEW old, UsedIn(h, S) \cap (lo .. hi - 1) = old,
         r.end >= h.end
  PROVE  Changed(h, S, r, (S \ (lo .. hi - 1)) \cup N, old, new)
<1>1. UsedIn(h, S) \ old = UsedIn(h, S) \ (lo .. hi - 1)
  OBVIOUS
<1>2. UsedIn(h, S) \ (lo .. hi - 1) \subseteq S \ (lo .. hi - 1)
  BY DEF UsedIn
<1> QED BY <1>1, <1>2 DEF Changed, Replaced

\* A hole has segments in use on both sides.
LEMMA AloneIs ==
  ASSUME NEW h, NEW S, Sound(h, S), NEW a \in HolesIn(h, S)
  PROVE  NoneInFront(h, S, a) /\ NoneBehind(h, S, a + SizeAt(h, a))
<1>1. a \in S /\ HoleAt(h, a)
  BY DEF HolesIn
<1>2. \A b \in S : HoleAt(h, b) /\ b + SizeAt(h, b) \in S => ~ HoleAt(h, b + SizeAt(h, b))
  BY DEF Sound, Apart
<1>3. NoneInFront(h, S, a)
  BY <1>1, <1>2 DEF NoneInFront
<1>4. NoneBehind(h, S, a + SizeAt(h, a))
  BY <1>1, <1>2 DEF NoneBehind
<1> QED BY <1>3, <1>4

\* A heap with the same memory has the same segments.
LEMMA SameTile ==
  ASSUME NEW h, NEW g, g.mem = h.mem, NEW a
  PROVE  /\ SizeAt(g, a) = SizeAt(h, a) /\ (HoleAt(g, a) <=> HoleAt(h, a))
         /\ AlignAt(g, a) = AlignAt(h, a) /\ (TileAt(g, a) <=> TileAt(h, a))
<1>1. SizeAt(g, a) = SizeAt(h, a) /\ (HoleAt(g, a) <=> HoleAt(h, a)) /\ AlignAt(g, a) = AlignAt(h, a)
  BY DEF SizeAt, HoleAt, AlignAt
<1> QED BY <1>1 DEF TileAt

LEMMA TopIs ==
  ASSUME NEW h, NEW S, Sound(h, S)
  PROVE  /\ h.end \notin S /\ h.end \in Nat /\ h.end \in Addr /\ h.end < W /\ Start <= h.end
         /\ \A a \in S : a \in Nat /\ a < h.end
<1>1. S \subseteq Start .. h.end - 1 /\ Start \in S /\ h.end \in Nat /\ h.end <= Limit
  BY DEF Sound, Tiles
<1>2. Start \in Nat /\ Limit \in Nat /\ Limit < W /\ W \in Nat
  BY Bounds
<1> QED BY <1>1, <1>2 DEF Addr

LEMMA KeptBoth ==
  ASSUME NEW h, NEW g, NEW r, NEW a \in Nat, TileAt(h, a), Kept(h, g, a), Kept(g, r, a)
  PROVE  Kept(h, r, a)
<1>1. SizeAt(g, a) = SizeAt(h, a)
  BY KeptTile
<1> QED BY <1>1 DEF Kept

\* One change after another.
LEMMA ChangedBoth ==
  ASSUME NEW h, NEW S, Sound(h, S), NEW g, NEW S1, NEW old1, NEW new1,
         Changed(h, S, g, S1, old1, new1),
         NEW r, NEW S2, NEW old2, NEW new2, Changed(g, S1, r, S2, old2, new2),
         NEW old, NEW new, old1 \subseteq old, (UsedIn(h, S) \ old) \cap old2 = {},
         UsedIn(r, S2) = (UsedIn(h, S) \ old) \cup new
  PROVE  Changed(h, S, r, S2, old, new)
<1>1. Sound(r, S2) /\ r.end >= h.end
  <2>1. Sound(g, S1) /\ Sound(r, S2) /\ g.end >= h.end /\ r.end >= g.end
    BY DEF Changed
  <2>2. g.end \in Nat /\ r.end \in Nat /\ h.end \in Nat
    BY <2>1, TopIs
  <2> QED BY <2>1, <2>2
<1>2. ASSUME NEW a \in UsedIn(h, S) \ old PROVE Kept(h, r, a)
  <2>1. Kept(h, g, a) /\ a \in UsedIn(g, S1) /\ a \notin old2
    BY <1>2 DEF Changed
  <2>2. Kept(g, r, a)
    BY <2>1 DEF Changed
  <2>3. a \in Nat /\ TileAt(h, a)
    BY <1>2, InHeap DEF UsedIn
  <2> QED BY <2>1, <2>2, <2>3, KeptBoth
<1> QED BY <1>1, <1>2 DEF Changed

\* Where a segment's footer is.
LEMMA TileEnd ==
  ASSUME NEW h, NEW a, NEW size, NEW hole, Tile(h, a, size, hole), Fits(a, size), NEW e,
         Behind(e, a, size)
  PROVE  FooterOf(h, a) = e - 1 /\ h.mem[e - 1] = Footer(a) /\ e \in Nat /\ e > a + 1 /\ e < W
<1>1. /\ a \in Nat /\ size \in Nat /\ size >= 2 /\ a + size < W /\ e = a + size
      /\ SizeAt(h, a) = size
  BY DEF Tile, Fits, Behind
<1>2. FooterOf(h, a) = e - 1
  BY <1>1, FooterIs
<1>3. h.mem[e - 1] = Footer(a)
  BY <1>1 DEF Tile, TileAt
<1> QED BY <1>1, <1>2, <1>3

\* The segment at a takes in the cells behind it, up to e.
Joins(g, r, a, by, f) == r = PutFooter(Enlarge(g, a, by), f, a)
Total(size, s, by) == size = s + by /\ by \in Nat

LEMMA Joined ==
  ASSUME NEW g, IsHeap(g), NEW a, NEW s, NEW hole \in BOOLEAN, Tile(g, a, s, hole),
         NEW by, NEW size, Total(size, s, by), Fits(a, size), NEW e, Behind(e, a, size),
         NEW f, f = e - 1, NEW r, Joins(g, r, a, by, f)
  PROVE  Wrote(g, r, a .. e - 1) /\ Tile(r, a, size, hole)
<1>1. /\ a \in Nat /\ size \in Nat /\ size >= 2 /\ a + size < W /\ e = a + size /\ by \in Nat
      /\ f = a + size - 1 /\ SizeAt(g, a) = s /\ size = SizeAt(g, a) + by
  BY DEF Tile, Fits, Behind, Total
<1>2. /\ g.mem[a].k = "header" /\ g.mem[a].hole \in BOOLEAN /\ AlignAt(g, a) = 0
      /\ SizeAt(g, a) \in Nat /\ (HoleAt(g, a) <=> hole)
  BY DEF Tile, TileAt
<1>3. Wrote(g, r, {a, f}) /\ Tile(r, a, size, HoleAt(g, a))
  BY <1>1, <1>2, JoinMem DEF Joins
<1>4. Tile(r, a, size, hole)
  BY <1>2, <1>3 DEF Tile
<1>5. {a, f} \subseteq a .. e - 1
  BY <1>1
<1> QED BY <1>3, <1>5, <1>4, WroteMore

LEMMA EnlargedSize ==
  ASSUME NEW g, IsHeap(g), NEW a, NEW s, NEW hole \in BOOLEAN, Tile(g, a, s, hole),
         NEW by, NEW size, Total(size, s, by), Fits(a, size), NEW e, e = Enlarge(g, a, by)
  PROVE  SizeAt(e, a) = size
<1>1. /\ a \in Addr /\ size \in 0 .. W - 1 /\ by \in Int /\ SizeAt(g, a) \in Int
      /\ SizeAt(g, a) + by = size /\ AlignAt(g, a) = 0
  BY Bounds DEF Tile, TileAt, Fits, Total, Addr
<1>2. PICK there \in BOOLEAN : there = HoleAt(g, a)
  BY DEF HoleAt
<1>3. HeadAt(e, a, size, there, 0)
  BY <1>1, <1>2, Enlarged
<1> QED BY <1>2, <1>3, HeadIs

-----------------------------------------------------------------------------
(* vmem_heap_expand, and the retry of vmem_heap_alloc.                     *)

\* The kernel stopped, as the heap cannot grow by `real` cells.
NoRoom(g, real) ==
  /\ g.state = "out of memory"
  /\ Start + AlignUp(g.end - Start + real, PageSize) > Limit

Expanded(h, g, new) ==
  \/ /\ g.state = "out of memory" /\ g.end = h.end
     /\ Start + AlignUp(new, PageSize) > Limit
  \/ /\ IsHeap(g) /\ g.mem = h.mem /\ g.index = h.index /\ g.state = h.state
     /\ g.end \in Nat /\ g.end <= Limit /\ g.end >= Start + new /\ g.end < W

LEMMA Expands ==
  ASSUME NEW h, IsHeap(h), h.end \in Nat, NEW new \in Nat, Start + new > h.end,
         NEW g, g = vmem_heap_expand(h, new)
  PROVE  Expanded(h, g, new)
<1>1. PICK up \in Nat : up = AlignUp(new, PageSize) /\ up >= new
  BY RoundedUp
<1>2. PICK end : end = Start + up
  OBVIOUS
<1>3. end \in Nat /\ end > h.end /\ end >= Start + new /\ Limit \in Nat /\ W \in Nat /\ Limit < W
  BY <1>1, <1>2, Bounds
<1>4. g = IF end > Limit THEN Stop(h, "out of memory") ELSE [h EXCEPT !.end = end]
  <2>1. ~ (end <= h.end)
    BY <1>3
  <2>2. g = CASE end <= h.end -> Stop(h, "assertion")
              [] end > Limit  -> Stop(h, "out of memory")
              [] OTHER        -> [h EXCEPT !.end = end]
    BY <1>1, <1>2 DEF vmem_heap_expand
  <2>3. CASE end > Limit
    BY <2>1, <2>2, <2>3
  <2>4. CASE ~ (end > Limit)
    BY <2>1, <2>2, <2>4
  <2> QED BY <2>3, <2>4
<1>5. CASE end > Limit
  <2>1. g = Stop(h, "out of memory")
    BY <1>4, <1>5
  <2>2. g.state = "out of memory" /\ g.end = h.end
    BY <2>1 DEF Stop, IsHeap
  <2>3. Start + AlignUp(new, PageSize) > Limit
    BY <1>1, <1>2, <1>5
  <2> QED BY <2>2, <2>3 DEF Expanded
<1>6. CASE ~ (end > Limit)
  <2>1. end <= Limit /\ end < W
    BY <1>3, <1>6
  <2>2. g = [h EXCEPT !.end = end]
    BY <1>4, <1>6
  <2>3. /\ IsHeap(g) /\ g.mem = h.mem /\ g.index = h.index /\ g.state = h.state
        /\ g.end = end
    BY <2>2 DEF IsHeap
  <2> QED BY <1>3, <2>1, <2>3 DEF Expanded
<1> QED BY <1>5, <1>6

\* What the index lists, as a set.
LEMMA ListedSet ==
  ASSUME NEW x, NEW H, Lists(x, H)
  PROVE  /\ ToSet(x) = H
         /\ x = <<>> => H = {}
         /\ H = {} => x = <<>>
<1>1. x \in Seq(Addr) /\ DOMAIN x = 1 .. Len(x)
  BY DEF Lists
<1>2. ToSet(x) = H
  BY <1>1 DEF Lists, ToSet
<1>3. x = <<>> => H = {}
  BY <1>2 DEF Lists
<1>4. H = {} => x = <<>>
  <2>1. ASSUME x # <<>> PROVE 1 \in 1 .. Len(x)
    BY <1>1, <2>1
  <2> QED BY <2>1 DEF Lists
<1> QED BY <1>2, <1>3, <1>4

\* A hole at the top, or no hole at all: what an expansion relies on.
TopIsHole(h, S) == \E a \in HolesIn(h, S) : a + SizeAt(h, a) = h.end

LEMMA TopHole ==
  ASSUME NEW h, NEW S, Sound(h, S), NEW t \in HolesIn(h, S), t + SizeAt(h, t) = h.end
  PROVE  t = CHOOSE a \in ToSet(h.index) : \A b \in ToSet(h.index) : b <= a
<1>1. ToSet(h.index) = HolesIn(h, S)
  BY ListedSet DEF Sound
<1>2. \A a \in HolesIn(h, S) : a \in S /\ a \in Nat /\ SizeAt(h, a) \in Nat /\ SizeAt(h, a) >= 2 /\ a < h.end
  <2>1. \A a \in HolesIn(h, S) : a \in S
    BY DEF HolesIn
  <2>2. \A a \in S : a \in Nat /\ SizeAt(h, a) \in Nat /\ SizeAt(h, a) >= 2 /\ a + SizeAt(h, a) <= h.end /\ h.end \in Nat
    BY InHeap
  <2> QED BY <2>1, <2>2
<1>3. \A a \in HolesIn(h, S) : a <= t
  <2> SUFFICES ASSUME NEW a \in HolesIn(h, S), t < a PROVE FALSE
    BY <1>2
  <2>1. t + SizeAt(h, t) <= a
    BY <1>2 DEF Sound, Tiles
  <2> QED BY <1>2, <2>1
<1>4. \A a \in HolesIn(h, S) : (\A b \in HolesIn(h, S) : b <= a) => a = t
  BY <1>2, <1>3
<1> QED BY <1>1, <1>3, <1>4

LEMMA GrowEnds ==
  ASSUME NEW h, NEW S, Sound(h, S), HolesIn(h, S) = {} \/ TopIsHole(h, S),
         NEW real \in Nat, real >= 2, NEW r, r = Grown(h, real)
  PROVE  \/ NoRoom(r, real)
         \/ \E S2 : /\ Changed(h, S, r, S2, {}, {})
                    /\ \E a \in HolesIn(r, S2) : SizeAt(r, a) >= real
<1>1. /\ IsHeap(h) /\ h.state = "ok" /\ Lists(h.index, HolesIn(h, S))
      /\ h.end \in Nat /\ h.end < W /\ Start \in Nat /\ Start <= h.end /\ W \in Nat
  BY TopIs, Bounds DEF Sound
<1>2. PICK new \in Nat : new = h.end - Start + real
  <2>1. h.end - Start + real \in Nat
    BY <1>1
  <2> QED BY <2>1
<1>3. PICK g : g = vmem_heap_expand(h, new)
  OBVIOUS
<1>4. Expanded(h, g, new)
  <2>1. Start + new > h.end
    BY <1>1, <1>2
  <2> QED BY <1>1, <1>3, <2>1, Expands
<1>5. CASE g.state # "ok"
  <2>1. r = g
    BY <1>2, <1>3, <1>5 DEF Grown
  <2>2. g.state = "out of memory" /\ g.end = h.end /\ Start + AlignUp(new, PageSize) > Limit
    BY <1>1, <1>4, <1>5 DEF Expanded
  <2> QED BY <1>2, <2>1, <2>2 DEF NoRoom
<1>6. CASE g.state = "ok"
  <2>1. /\ IsHeap(g) /\ g.mem = h.mem /\ g.index = h.index /\ g.end \in Nat /\ g.end <= Limit
        /\ g.end >= Start + new /\ g.end < W
    BY <1>4, <1>6 DEF Expanded
  <2>2. PICK more \in Nat : more = g.end - h.end /\ more >= real
    <3>1. g.end - h.end \in Nat /\ g.end - h.end >= real
      BY <1>1, <1>2, <2>1
    <3> QED BY <3>1
  <2>3. PICK yes \in BOOLEAN : yes = TRUE
    OBVIOUS
  <2>4. yes \in BOOLEAN
    BY <2>3
  <2>5. g.end >= h.end
    BY <1>1, <1>2, <2>1
  <2>6. CASE h.index = <<>>
    <3>1. PICK o : o = h.end /\ o \in Nat
      BY <1>1
    <3>2. PICK top : top = Segment(g, o, more, yes, 0)
      OBVIOUS
    <3>3. r = ord_arr_insert(top, o)
      BY <1>2, <1>3, <1>6, <2>1, <2>2, <2>3, <2>6, <3>1, <3>2 DEF Grown
    <3>4. HolesIn(h, S) = {}
      BY <1>1, <2>6, ListedSet
    <3>5. Fits(o, more) /\ Behind(g.end, o, more)
      BY <1>1, <2>1, <2>2, <3>1 DEF Fits, Behind
    <3>6. /\ Wrote(g, top, {o, o + more - 1}) /\ HeadAt(top, o, more, yes, 0)
          /\ top.mem[o + more - 1] = Footer(o)
      BY <2>1, <3>2, <3>5, SegmentPut
    <3>7. TileAt(top, o) /\ SizeAt(top, o) = more /\ HoleAt(top, o) = yes
      BY <2>2, <2>3, <3>5, <3>6, TileMade DEF Fits
    <3>8. o \in Addr /\ o \notin S
      BY <3>1, TopIs
    <3>9. /\ IsHeap(r) /\ r.mem = top.mem /\ r.end = g.end /\ r.state = "ok"
          /\ Lists(r.index, {o})
      <4>1. IsHeap(top) /\ Lists(top.index, {}) /\ top.end = g.end /\ top.state = "ok"
        BY <1>1, <1>6, <2>1, <3>4, <3>6 DEF Wrote
      <4>2. /\ IsHeap(r) /\ r.mem = top.mem /\ r.end = top.end /\ r.state = top.state
            /\ Lists(r.index, {} \cup {o})
        BY <3>3, <3>8, <4>1, Inserted
      <4> QED BY <4>1, <4>2
    <3>10. Tile(r, o, more, yes)
      BY <3>7, <3>9, SameTile DEF Tile
    <3>11. Patch(h, S, r, o, o, g.end)
      <4>1. \A x \in Addr : x \notin o .. g.end - 1 => r.mem[x] = h.mem[x]
        <5>1. {o, o + more - 1} \subseteq o .. g.end - 1
          BY <2>1, <2>2, <3>1, <3>5 DEF Behind
        <5> QED BY <2>1, <3>6, <3>9, <5>1 DEF Wrote
      <4> QED BY <2>1, <2>5, <3>1, <3>9, <4>1 DEF Patch, Stretched
    <3>12. NoneInFront(h, S, o) /\ NoneBehind(h, S, o)
      BY <3>4, <3>8 DEF NoneInFront, NoneBehind, HolesIn
    <3>13. Listed(h, S, r, o, o, HoleOf(o, yes))
      <4>1. (HolesIn(h, S) \ (o .. o - 1)) \cup HoleOf(o, yes) = {o}
        BY <2>3, <3>4 DEF HoleOf, UsedOf
      <4> QED BY <3>9, <4>1 DEF Listed
    <3>14. Replaced(h, S, r, {o}, o, o) /\ UsedIn(r, {o}) = UsedOf(o, yes)
      <4>1. Replaced(h, S, r, {o}, o, o)
        BY <2>4, <3>5, <3>10, <3>11, <3>12, <3>13, PatchedOne
      <4>2. UsedIn(r, {o}) = UsedOf(o, yes)
        BY <2>4, <3>5, <3>10, <3>11, <3>12, <3>13, PatchedOne
      <4> QED BY <4>1, <4>2
    <3>15. UsedIn(r, {o}) = {} /\ UsedIn(h, S) \cap (o .. o - 1) = {}
      <4>1. o .. o - 1 = {}
        BY <3>1
      <4> QED BY <2>3, <3>14, <4>1 DEF HoleOf, UsedOf
    <3>16. PICK S2 : S2 = (S \ (o .. o - 1)) \cup {o}
      OBVIOUS
    <3>17. Changed(h, S, r, S2, {}, {})
      BY <2>5, <3>9, <3>14, <3>15, <3>16, ReplacedIs
    <3>18. o \in HolesIn(r, S2) /\ SizeAt(r, o) >= real
      BY <2>2, <2>3, <3>10, <3>16 DEF HolesIn, Tile
    <3> QED BY <3>17, <3>18
  <2>7. CASE h.index # <<>>
    <3>1. PICK t \in HolesIn(h, S) : t + SizeAt(h, t) = h.end
      BY <1>1, <2>7, ListedSet DEF TopIsHole
    <3>2. t = CHOOSE a \in ToSet(g.index) : \A b \in ToSet(g.index) : b <= a
      BY <2>1, <3>1, TopHole
    <3>3. t \in S /\ HoleAt(h, t)
      BY DEF HolesIn
    <3>4. PICK s \in Nat : s = SizeAt(h, t) /\ s >= 2
      BY <3>3, InHeap
    <3>5. TileAt(h, t) /\ t \in Nat /\ t \in Addr /\ t < h.end /\ t + s = h.end
      BY <3>1, <3>3, <3>4, InHeap, TopIs
    <3>6. Tile(g, t, s, yes)
      BY <2>1, <2>3, <3>3, <3>4, <3>5, SameTile DEF Tile
    <3>7. PICK size \in Nat : size = s + more
      OBVIOUS
    <3>8. /\ Total(size, s, more) /\ Fits(t, size) /\ Behind(g.end, t, size)
      <4>1. t + size = g.end /\ size >= 2 /\ t + size < W
        BY <1>1, <2>1, <2>2, <3>4, <3>5, <3>7
      <4> QED BY <3>5, <3>7, <4>1 DEF Total, Fits, Behind
    <3>9. PICK e : e = Enlarge(g, t, more)
      OBVIOUS
    <3>10. SizeAt(e, t) = size
      BY <2>1, <2>4, <3>6, <3>8, <3>9, EnlargedSize
    <3>11. FooterOf(e, t) = g.end - 1
      BY <2>1, <3>5, <3>8, <3>10, FooterIs DEF Fits, Behind
    <3>12. Joins(g, r, t, more, g.end - 1)
      <4>1. r = PutFooter(e, FooterOf(e, t), t)
        BY <1>2, <1>3, <1>6, <2>1, <2>2, <2>7, <3>2, <3>9 DEF Grown
      <4> QED BY <3>9, <3>11, <4>1 DEF Joins
    <3>13. Wrote(g, r, t .. g.end - 1) /\ Tile(r, t, size, yes)
      BY <2>1, <3>6, <3>8, <3>12, Joined
    <3>14. IsHeap(r) /\ r.index = h.index /\ r.end = g.end /\ r.state = "ok"
      BY <1>6, <2>1, <3>13 DEF Wrote
    <3>15. Patch(h, S, r, t, h.end, g.end)
      <4>1. \A x \in Addr : x \notin t .. g.end - 1 => r.mem[x] = h.mem[x]
        BY <2>1, <3>13 DEF Wrote
      <4>2. t <= h.end
        BY <1>1, <3>5
      <4> QED BY <2>1, <2>5, <3>3, <3>14, <4>1, <4>2 DEF Patch, Stretched
    <3>16. NoneInFront(h, S, t) /\ NoneBehind(h, S, h.end)
      BY AloneIs, TopIs DEF NoneBehind
    <3>17. S \cap (t .. h.end - 1) = {t}
      <4>1. S \cap (t .. t + SizeAt(h, t) - 1) = {t}
        BY <3>3, RegionOne
      <4>2. t .. t + SizeAt(h, t) - 1 = t .. h.end - 1
        BY <3>1, <3>4, <3>5
      <4> QED BY <4>1, <4>2
    <3>18. Listed(h, S, r, t, h.end, HoleOf(t, yes))
      <4>1. (HolesIn(h, S) \ (t .. h.end - 1)) \cup HoleOf(t, yes) = HolesIn(h, S)
        BY <2>3, <3>3, <3>17 DEF HolesIn, HoleOf, UsedOf
      <4> QED BY <1>1, <3>14, <4>1 DEF Listed
    <3>19. Replaced(h, S, r, {t}, t, h.end) /\ UsedIn(r, {t}) = UsedOf(t, yes)
      BY <2>4, <3>8, <3>13, <3>15, <3>16, <3>18, PatchedOne
    <3>20. UsedIn(r, {t}) = {} /\ UsedIn(h, S) \cap (t .. h.end - 1) = {}
      BY <2>3, <3>3, <3>17, <3>19 DEF UsedIn, HoleOf, UsedOf
    <3>21. PICK S2 : S2 = (S \ (t .. h.end - 1)) \cup {t}
      OBVIOUS
    <3>22. Changed(h, S, r, S2, {}, {})
      BY <2>5, <3>14, <3>19, <3>20, <3>21, ReplacedIs
    <3>23. t \in HolesIn(r, S2) /\ SizeAt(r, t) >= real
      <4>1. size >= real
        BY <2>2, <3>4, <3>7
      <4> QED BY <2>3, <3>13, <3>21, <4>1 DEF HolesIn, Tile
    <3> QED BY <3>22, <3>23
  <2> QED BY <2>6, <2>7
<1> QED BY <1>5, <1>6

\* One call of vmem_heap_alloc that finds no hole.
Tried(g, real, align) ==
  IF g.state # "ok" \/ vmem_heap_hole_find(g, real, align) # 0 THEN g ELSE Grown(g, real)

LEMMA TriedThrice ==
  ASSUME NEW h, NEW real, NEW align,
         NEW g1, g1 = Tried(h, real, align), NEW g2, g2 = Tried(g1, real, align),
         NEW g3, g3 = Tried(g2, real, align)
  PROVE  WithRoom(h, real, align) = g3
<1> DEFINE Is(w) == w = [k \in 0 .. 3 |-> IF k = 0 THEN h ELSE Tried(w[k - 1], real, align)]
           f == [k \in 0 .. 3 |-> IF k = 0 THEN h ELSE IF k = 1 THEN g1 ELSE IF k = 2 THEN g2 ELSE g3]
<1>1. f[0] = h /\ f[1] = g1 /\ f[2] = g2 /\ f[3] = g3
  OBVIOUS
<1>2. ASSUME NEW k \in 0 .. 3
      PROVE  f[k] = IF k = 0 THEN h ELSE Tried(f[k - 1], real, align)
  <2>1. k = 0 \/ k = 1 \/ k = 2 \/ k = 3
    OBVIOUS
  <2>2. CASE k = 0
    BY <1>1, <2>2
  <2>3. CASE k = 1
    BY <1>1, <2>3
  <2>4. CASE k = 2
    BY <1>1, <2>4
  <2>5. CASE k = 3
    BY <1>1, <2>5
  <2> QED BY <2>1, <2>2, <2>3, <2>4, <2>5
<1>3. f = [k \in 0 .. 3 |-> f[k]]
  OBVIOUS
<1> HIDE DEF f
<1>4. Is(f)
  BY <1>2, <1>3
<1>5. PICK w : w = CHOOSE v : Is(v)
  OBVIOUS
<1>6. Is(w)
  BY <1>4, <1>5
<1>7. w[0] = h /\ w[1] = Tried(w[0], real, align) /\ w[2] = Tried(w[1], real, align)
      /\ w[3] = Tried(w[2], real, align)
  BY <1>6
<1>8. WithRoom(h, real, align) = w[3]
  BY <1>5 DEF WithRoom, MaxExpansions, Tried
<1> QED BY <1>7, <1>8

\* There is a hole of that size.
HasHole(h, S, real) == \E a \in HolesIn(h, S) : SizeAt(h, a) >= real

\* What the caller sees to: an expansion, if it comes to one, gives a hole.
HasRoom(h, S, real) == HolesIn(h, S) = {} \/ TopIsHole(h, S) \/ HasHole(h, S, real)

LEMMA FindsHole ==
  ASSUME NEW h, NEW S, Sound(h, S), NEW real \in Nat
  PROVE  vmem_heap_hole_find(h, real, 0) # 0 <=> HasHole(h, S, real)
<1>1. Lists(h.index, HolesIn(h, S))
  BY DEF Sound
<1>2. PICK i : i = vmem_heap_hole_find(h, real, 0)
  OBVIOUS
<1>3. /\ i # 0 => i \in 1 .. Len(h.index) /\ SizeAt(h, h.index[i]) >= real
      /\ i = 0 => \A j \in 1 .. Len(h.index) : ~ (SizeAt(h, h.index[j]) >= real)
  <2>1. Finds(h, real, i)
    BY <1>2 DEF Finds
  <2> QED BY <1>1, <2>1, HoleFound
<1>4. CASE i # 0
  BY <1>1, <1>2, <1>3, <1>4 DEF Lists, HasHole
<1>5. CASE i = 0
  BY <1>1, <1>2, <1>3, <1>5 DEF Lists, HasHole
<1> QED BY <1>4, <1>5

LEMMA Unchanged ==
  ASSUME NEW h, NEW S, Sound(h, S)
  PROVE  Changed(h, S, h, S, {}, {})
BY TopIs DEF Changed, Kept

LEMMA RoomEnds ==
  ASSUME NEW h, NEW S, Sound(h, S), NEW real \in Nat, real >= 2, HasRoom(h, S, real),
         NEW r, r = WithRoom(h, real, 0)
  PROVE  \/ NoRoom(r, real)
         \/ \E S2 : Changed(h, S, r, S2, {}, {}) /\ HasHole(r, S2, real)
<1>1. PICK g1 : g1 = Tried(h, real, 0)
  OBVIOUS
<1>2. PICK g2 : g2 = Tried(g1, real, 0)
  OBVIOUS
<1>3. PICK g3 : g3 = Tried(g2, real, 0)
  OBVIOUS
<1>4. r = g3
  BY <1>1, <1>2, <1>3, TriedThrice
<1>5. h.state = "ok"
  BY DEF Sound
<1>6. CASE HasHole(h, S, real)
  <2>1. g1 = h /\ g2 = h /\ g3 = h
    <3>1. vmem_heap_hole_find(h, real, 0) # 0
      BY <1>6, FindsHole
    <3> QED BY <1>1, <1>2, <1>3, <3>1 DEF Tried
  <2> QED BY <1>4, <1>6, <2>1, Unchanged
<1>7. CASE ~ HasHole(h, S, real)
  <2>1. g1 = Grown(h, real)
    <3>1. vmem_heap_hole_find(h, real, 0) = 0
      BY <1>7, FindsHole
    <3> QED BY <1>1, <1>5, <3>1 DEF Tried
  <2>2. \/ NoRoom(g1, real)
        \/ \E S2 : Changed(h, S, g1, S2, {}, {}) /\ HasHole(g1, S2, real)
    BY <1>7, <2>1, GrowEnds DEF HasRoom, HasHole
  <2>3. CASE NoRoom(g1, real)
    <3>1. g1.state # "ok"
      BY <2>3 DEF NoRoom
    <3>2. r = g1
      BY <1>2, <1>3, <1>4, <3>1 DEF Tried
    <3> QED BY <2>3, <3>2
  <2>4. CASE \E S2 : Changed(h, S, g1, S2, {}, {}) /\ HasHole(g1, S2, real)
    <3>1. PICK S2 : Changed(h, S, g1, S2, {}, {}) /\ HasHole(g1, S2, real)
      BY <2>4
    <3>2. vmem_heap_hole_find(g1, real, 0) # 0
      BY <3>1, FindsHole DEF Changed
    <3>3. g3 = g1
      BY <1>2, <1>3, <3>2 DEF Tried
    <3> QED BY <1>4, <3>1, <3>3
  <2> QED BY <2>2, <2>3, <2>4
<1> QED BY <1>6, <1>7

\* res is an allocation of `want` cells, header and footer among them.
AllocatedIn(h, S, want, res, S2) ==
  /\ res.p \in Nat /\ res.p - 1 \in Nat /\ res.p - 1 \notin UsedIn(h, S)
  /\ Changed(h, S, res.h, S2, {}, {res.p - 1})
  /\ SizeAt(res.h, res.p - 1) >= want

LEMMA AllocEnds ==
  ASSUME NEW h, NEW S, Sound(h, S), NEW size \in Nat, HasRoom(h, S, size + 2),
         NEW res, res = vmem_heap_alloc(h, size, 0)
  PROVE  \/ NoRoom(res.h, size + 2)
         \/ \E S2 : AllocatedIn(h, S, size + 2, res, S2)
<1>1. PICK real \in Nat : real = size + 2 /\ real >= 2
  OBVIOUS
<1>2. PICK g : g = WithRoom(h, real, 0)
  OBVIOUS
<1>3. PICK i : i = vmem_heap_hole_find(g, real, 0)
  OBVIOUS
<1>4. res = IF g.state # "ok" THEN [h |-> g, p |-> 0]
            ELSE IF i = 0 THEN [h |-> Stop(g, "bound"), p |-> 0]
            ELSE Carve(g, i, real, 0)
  BY <1>1, <1>2, <1>3, Bounds DEF vmem_heap_alloc
<1>5. \/ NoRoom(g, real)
      \/ \E S1 : Changed(h, S, g, S1, {}, {}) /\ HasHole(g, S1, real)
  BY <1>1, <1>2, RoomEnds
<1>6. CASE NoRoom(g, real)
  <2>1. g.state # "ok"
    BY <1>6 DEF NoRoom
  <2>2. res = [h |-> g, p |-> 0]
    BY <1>4, <2>1
  <2>3. res.h = g
    BY <2>2
  <2> QED BY <1>1, <1>6, <2>3
<1>7. ASSUME NEW S1, Changed(h, S, g, S1, {}, {}), HasHole(g, S1, real)
      PROVE  \E S2 : AllocatedIn(h, S, size + 2, res, S2)
  <2>1. Sound(g, S1) /\ Lists(g.index, HolesIn(g, S1)) /\ g.state = "ok"
    BY <1>7 DEF Changed, Sound
  <2>2. i # 0
    BY <1>3, <1>7, <2>1, FindsHole
  <2>3. i \in 1 .. Len(g.index) /\ SizeAt(g, g.index[i]) >= real
    <3>1. Finds(g, real, i)
      BY <1>3 DEF Finds
    <3> QED BY <2>1, <2>2, <3>1, HoleFound
  <2>4. res = Carve(g, i, real, 0)
    BY <1>4, <2>1, <2>2
  <2>5. Gained(g, S1, real, res)
    BY <1>1, <2>1, <2>3, <2>4, CarveEnds
  <2>6. PICK a : a = res.p - 1
    OBVIOUS
  <2>7. PICK S2 : /\ Sound(res.h, S2) /\ res.h.end = g.end
                  /\ a \in Nat /\ a \notin UsedIn(g, S1) /\ res.p \in Nat
                  /\ UsedIn(res.h, S2) = UsedIn(g, S1) \cup {a}
                  /\ SizeAt(res.h, a) >= real
                  /\ \A b \in UsedIn(g, S1) : Kept(g, res.h, b)
    BY <2>5, <2>6 DEF Gained
  <2>8. UsedIn(g, S1) = UsedIn(h, S)
    BY <1>7 DEF Changed
  <2>9. Changed(g, S1, res.h, S2, {}, {a})
    <3>1. res.h.end >= g.end
      BY <2>1, <2>7, TopIs
    <3> QED BY <2>7, <3>1 DEF Changed
  <2>10. Changed(h, S, res.h, S2, {}, {a})
    <3>1. UsedIn(res.h, S2) = (UsedIn(h, S) \ {}) \cup {a}
      BY <2>7, <2>8
    <3>2. {} \subseteq {} /\ (UsedIn(h, S) \ {}) \cap {} = {}
      OBVIOUS
    <3> QED BY <1>7, <2>9, <3>1, <3>2, ChangedBoth
  <2> QED BY <1>1, <2>6, <2>7, <2>8, <2>10 DEF AllocatedIn
<1> QED BY <1>5, <1>6, <1>7

-----------------------------------------------------------------------------
(* vmem_heap_free.                                                         *)

\* One hole, from lo to hi.
Spans(g, lo, hi) ==
  \E size : Tile(g, lo, size, TRUE) /\ Fits(lo, size) /\ Behind(hi, lo, size)

LEMMA SpansIs ==
  ASSUME NEW g, NEW lo, NEW hi, Spans(g, lo, hi), NEW yes, yes = TRUE
  PROVE  \E size : Tile(g, lo, size, yes) /\ Fits(lo, size) /\ Behind(hi, lo, size)
BY DEF Spans

LEMMA SpansMade ==
  ASSUME NEW g, NEW lo, NEW hi, NEW size, NEW yes, yes = TRUE, Tile(g, lo, size, yes),
         Fits(lo, size), Behind(hi, lo, size)
  PROVE  Spans(g, lo, hi)
BY DEF Spans

\* A segment as a tile.
LEMMA SegmentIs ==
  ASSUME NEW h, NEW S, Sound(h, S), NEW a \in S, NEW hole, hole \in BOOLEAN, HoleAt(h, a) <=> hole
  PROVE  /\ Tile(h, a, SizeAt(h, a), hole) /\ Fits(a, SizeAt(h, a))
         /\ Behind(a + SizeAt(h, a), a, SizeAt(h, a))
         /\ a + SizeAt(h, a) \in Nat /\ a + SizeAt(h, a) < W
<1>1. /\ a \in Nat /\ TileAt(h, a) /\ SizeAt(h, a) \in Nat /\ SizeAt(h, a) >= 2
      /\ a + SizeAt(h, a) <= h.end /\ h.end <= Limit /\ Limit < W /\ h.end \in Nat
  BY InHeap
<1>2. Limit \in Nat /\ W \in Nat
  BY Bounds
<1>3. a + SizeAt(h, a) \in Nat /\ a + SizeAt(h, a) < W
  BY <1>1, <1>2
<1> QED BY <1>1, <1>3 DEF Tile, Fits, Behind

\* It is a tile still where it was not written to.
LEMMA StillTile ==
  ASSUME NEW h, NEW r, NEW D, Wrote(h, r, D), NEW a, NEW size, NEW hole, Tile(h, a, size, hole),
         Fits(a, size), a \notin D, NEW f, f = a + size - 1, f \notin D
  PROVE  Tile(r, a, size, hole)
<1>1. a \in Addr /\ f \in Addr
  BY Bounds DEF Fits, Addr
<1>2. r.mem[a] = h.mem[a] /\ r.mem[f] = h.mem[f]
  BY <1>1 DEF Wrote
<1>3. SizeAt(r, a) = SizeAt(h, a) /\ AlignAt(r, a) = AlignAt(h, a) /\ (HoleAt(r, a) <=> HoleAt(h, a))
  BY <1>2 DEF SizeAt, AlignAt, HoleAt
<1> QED BY <1>2, <1>3 DEF Tile, TileAt

\* The segment in front of a.
LEMMA InFront ==
  ASSUME NEW h, NEW S, Sound(h, S), NEW a \in S
  PROVE  \/ a = Start /\ NoneInFront(h, S, a)
         \/ \E b \in S : /\ b + SizeAt(h, b) = a
                         /\ \A c \in S : c + SizeAt(h, c) = a => c = b
<1>1. \A b \in S : b \in Nat /\ Start <= b /\ SizeAt(h, b) \in Nat /\ SizeAt(h, b) >= 2
  BY InHeap
<1>2. \A b, c \in S : b < c => b + SizeAt(h, b) <= c
  BY DEF Sound, Tiles
<1>3. CASE a = Start
  BY <1>1, <1>3, Bounds DEF NoneInFront
<1>4. CASE a # Start
  <2>1. PICK b \in S : b + SizeAt(h, b) = a
    BY <1>4 DEF Sound, Tiles
  <2>2. ASSUME NEW c \in S, c + SizeAt(h, c) = a PROVE c = b
    BY <1>1, <1>2, <2>1, <2>2
  <2> QED BY <2>1, <2>2
<1> QED BY <1>3, <1>4

\* The segment a is marked as a hole.
Marked(h, a, freed) == freed = [h EXCEPT !.mem[a] = Header(SizeAt(h, a), TRUE, 0)]

\* After unify left the hole spans from lo to e, where a ended.
LeftIs(h, S, a, e, left, lo) ==
  /\ left.hole = lo /\ lo \in S /\ lo <= a /\ S \cap (lo .. e - 1) = {lo, a}
  /\ Wrote(h, left.h, lo .. e - 1) /\ Spans(left.h, lo, e)
  /\ NoneInFront(h, S, lo) /\ (lo # a => HoleAt(h, lo))

LEMMA LeftJoined ==
  ASSUME NEW h, NEW S, Sound(h, S), NEW a, a \in UsedIn(h, S), NEW e, e = a + SizeAt(h, a),
         NEW freed, Marked(h, a, freed), NEW left, left = UnifyLeft(freed, a)
  PROVE  \E lo : LeftIs(h, S, a, e, left, lo) /\ (JoinsLeft(freed, a) <=> lo # a)
<1>1. PICK size : size = SizeAt(h, a)
  OBVIOUS
<1>2. PICK yes \in BOOLEAN, no \in BOOLEAN : yes = TRUE /\ no = FALSE
  OBVIOUS
<1>3. yes \in BOOLEAN /\ no \in BOOLEAN
  BY <1>2
<1>4. a \in S /\ ~ HoleAt(h, a) /\ IsHeap(h)
  BY DEF UsedIn, Sound
<1>5. Tile(h, a, size, no) /\ Fits(a, size) /\ Behind(e, a, size) /\ e \in Nat
  BY <1>1, <1>2, <1>4, SegmentIs
<1>6. /\ a \in Nat /\ a \in Addr /\ Start <= a /\ Start \in Nat /\ Start > 0 /\ size \in Nat
      /\ size >= 2 /\ e = a + size /\ W \in Nat /\ a + size < W
  BY <1>4, <1>5, InHeap, Bounds DEF Fits, Behind
<1>7. Wrote(h, freed, {a}) /\ HeadAt(freed, a, size, yes, 0)
  BY <1>1, <1>2, <1>4, <1>6, HeaderPut DEF Marked
<1>8. Tile(freed, a, size, yes)
  <2>1. freed.mem[a + size - 1] = Footer(a)
    <3>1. PICK f : f = a + size - 1
      OBVIOUS
    <3>2. f \in Addr /\ f # a
      BY <1>6, <3>1 DEF Addr
    <3>3. h.mem[f] = Footer(a)
      BY <1>5, <3>1 DEF Tile, TileAt
    <3> QED BY <1>7, <3>1, <3>2, <3>3 DEF Wrote
  <2>2. TileAt(freed, a) /\ SizeAt(freed, a) = size /\ HoleAt(freed, a) = yes
    BY <1>3, <1>6, <1>7, <2>1, TileMade
  <2> QED BY <2>2 DEF Tile
<1>9. Sub(a, FTR) = a - 1
  <2>1. a - 1 \in 0 .. W - 1
    BY <1>6
  <2> QED BY <1>6, <2>1, SubIs, Bounds
<1>10. PICK l : l = a - 1
  OBVIOUS
<1>11. l \in Addr /\ freed.mem[l] = h.mem[l] /\ IsHeap(freed)
  <2>1. l \in Addr /\ l # a
    BY <1>6, <1>10 DEF Addr
  <2> QED BY <1>7, <2>1 DEF Wrote
<1>12. JoinsLeft(freed, a) <=> h.mem[l].k = "footer" /\ HoleAt(freed, h.mem[l].hdr)
  BY <1>9, <1>10, <1>11 DEF JoinsLeft
<1>13. ASSUME ~ JoinsLeft(freed, a), NoneInFront(h, S, a)
       PROVE  LeftIs(h, S, a, e, left, a)
  <2>1. left.h = freed /\ left.hole = a
    BY <1>13 DEF UnifyLeft
  <2>2. S \cap (a .. e - 1) = {a, a}
    <3>1. S \cap (a .. a + SizeAt(h, a) - 1) = {a}
      BY <1>4, RegionOne
    <3>2. a + SizeAt(h, a) - 1 = e - 1
      BY <1>1, <1>6
    <3> QED BY <3>1, <3>2
  <2>3. Wrote(h, freed, a .. e - 1)
    <3>1. {a} \subseteq a .. e - 1
      BY <1>6
    <3> QED BY <1>7, <3>1, WroteMore
  <2>4. Spans(freed, a, e)
    BY <1>2, <1>5, <1>8, SpansMade
  <2> QED BY <1>4, <1>6, <1>13, <2>1, <2>2, <2>3, <2>4 DEF LeftIs
<1>14. CASE a = Start /\ NoneInFront(h, S, a)
  <2>1. h.mem[l].k # "footer"
    BY <1>10, <1>14 DEF Sound
  <2> QED BY <1>12, <1>13, <1>14, <2>1
<1>15. ASSUME NEW b \in S, b + SizeAt(h, b) = a, \A c \in S : c + SizeAt(h, c) = a => c = b
       PROVE  \E lo : LeftIs(h, S, a, e, left, lo) /\ (JoinsLeft(freed, a) <=> lo # a)
  <2>1. PICK sb : sb = SizeAt(h, b)
    OBVIOUS
  <2>2. /\ b \in Nat /\ b \in Addr /\ sb \in Nat /\ sb >= 2 /\ b + sb = a /\ TileAt(h, b)
    BY <1>15, <2>1, InHeap
  <2>3. h.mem[l] = Footer(b)
    BY <1>10, <2>1, <2>2 DEF TileAt
  <2>4. b # a /\ b < a
    BY <1>6, <2>2
  <2>5. freed.mem[b] = h.mem[b]
    BY <1>7, <2>2, <2>4 DEF Wrote
  <2>6. HoleAt(freed, b) <=> HoleAt(h, b)
    BY <2>5 DEF HoleAt
  <2>7. JoinsLeft(freed, a) <=> HoleAt(h, b)
    BY <1>12, <2>3, <2>6, CellKinds
  <2>8. CASE ~ HoleAt(h, b)
    <3>1. NoneInFront(h, S, a)
      BY <1>15, <2>8 DEF NoneInFront
    <3> QED BY <1>13, <2>7, <2>8, <3>1
  <2>9. CASE HoleAt(h, b)
    <3>1. PICK new \in Nat : new = sb + size
      BY <1>6, <2>2
    <3>2. Total(new, sb, size) /\ Fits(b, new) /\ Behind(e, b, new)
      BY <1>6, <2>2, <3>1 DEF Total, Fits, Behind
    <3>3. Tile(freed, b, sb, yes)
      <4>1. Tile(h, b, sb, yes)
        BY <1>2, <2>1, <2>9, SegmentIs
      <4>2. Fits(b, sb)
        BY <2>1, <1>3, <2>9, SegmentIs
      <4>3. PICK f : f = b + sb - 1
        OBVIOUS
      <4>4. f # a
        BY <1>6, <2>2, <4>3
      <4> QED BY <1>7, <2>4, <4>1, <4>2, <4>3, <4>4, StillTile
    <3>4. FooterOf(freed, a) = e - 1
      BY <1>5, <1>8, TileEnd
    <3>5. left.hole = b /\ SizeAt(freed, a) = size
          /\ left.h = PutFooter(Enlarge(freed, b, SizeAt(freed, a)), FooterOf(freed, a), b)
      <4>1. freed.mem[Sub(a, FTR)].hdr = b
        BY <1>9, <1>10, <1>11, <2>3, CellKinds
      <4> QED BY <1>8, <2>7, <2>9, <4>1 DEF UnifyLeft, Tile
    <3>6. PICK g : g = left.h
      OBVIOUS
    <3>7. PICK f : f = e - 1
      OBVIOUS
    <3>8. Joins(freed, g, b, size, f)
      BY <3>4, <3>5, <3>6, <3>7 DEF Joins
    <3>9. Wrote(freed, g, b .. e - 1) /\ Tile(g, b, new, yes)
      BY <1>3, <1>11, <3>2, <3>3, <3>7, <3>8, Joined
    <3>10. Wrote(h, g, b .. e - 1)
      <4>1. Wrote(h, g, {a} \cup (b .. e - 1))
        BY <1>7, <3>9, WroteBoth
      <4>2. a \in b .. e - 1
        BY <1>6, <2>2
      <4>3. {a} \cup (b .. e - 1) \subseteq b .. e - 1
        BY <4>2
      <4> QED BY <4>1, <4>3, WroteMore
    <3>11. Spans(g, b, e)
      BY <1>2, <3>2, <3>9, SpansMade
    <3>12. S \cap (b .. e - 1) = {b, a}
      <4>1. S \cap (b .. a + SizeAt(h, a) - 1) = {b, a}
        BY <1>4, <1>15, RegionTwo
      <4>2. a + SizeAt(h, a) - 1 = e - 1
        BY <1>1, <1>6
      <4> QED BY <4>1, <4>2
    <3>13. NoneInFront(h, S, b)
      BY <2>9, AloneIs DEF HolesIn
    <3>14. LeftIs(h, S, a, e, left, b)
      BY <2>2, <2>4, <1>6, <2>9, <3>5, <3>6, <3>10, <3>11, <3>12, <3>13 DEF LeftIs
    <3> QED BY <2>4, <2>7, <2>9, <3>14
  <2> QED BY <2>8, <2>9
<1> QED BY <1>4, <1>14, <1>15, InFront

\* After unify right the hole spans from lo to hi, and the hole it took in is not in
\* the index any more.
RightIs(h, S, g, lo, e, both, hi) ==
  /\ hi \in S \cup {h.end} /\ e <= hi /\ UsedIn(h, S) \cap (e .. hi - 1) = {}
  /\ IsHeap(both) /\ both.end = g.end /\ both.state = g.state
  /\ \A x \in Addr : x \notin lo .. hi - 1 => both.mem[x] = g.mem[x]
  /\ Spans(both, lo, hi) /\ NoneBehind(h, S, hi)
  /\ Lists(both.index, HolesIn(h, S) \ (e .. hi - 1))

LEMMA RightJoined ==
  ASSUME NEW h, NEW S, Sound(h, S), NEW lo \in S, NEW e \in S, lo < e,
         NEW g, Wrote(h, g, lo .. e - 1), Spans(g, lo, e), NEW f, f = e - 1,
         NEW both, both = UnifyRight(g, lo, f)
  PROVE  \E hi : RightIs(h, S, g, lo, e, both, hi)
<1>1. PICK yes \in BOOLEAN : yes = TRUE
  OBVIOUS
<1>2. yes \in BOOLEAN
  BY <1>1
<1>3. /\ IsHeap(g) /\ g.end = h.end /\ g.state = h.state /\ g.index = h.index
      /\ Lists(h.index, HolesIn(h, S))
  BY DEF Wrote, Sound
<1>4. /\ e \in Nat /\ lo \in Nat /\ e < h.end /\ h.end \in Nat /\ h.end < W /\ W \in Nat /\ e \in Addr
  BY TopIs, InHeap, Bounds
<1>5. Add(f, FTR) = e
  <2>1. f + 1 = e /\ f + 1 \in 0 .. W - 1 /\ f \in Int
    BY <1>4
  <2> QED BY <2>1, AddIs, Bounds
<1>6. g.mem[e] = h.mem[e]
  <2>1. e \notin lo .. e - 1
    BY <1>4
  <2> QED BY <1>4, <2>1 DEF Wrote
<1>7. (HoleAt(g, e) <=> HoleAt(h, e)) /\ SizeAt(g, e) = SizeAt(h, e)
  BY <1>6 DEF HoleAt, SizeAt
<1>8. ~ (e >= g.end)
  BY <1>3, <1>4
<1>9. CASE ~ HoleAt(h, e)
  <2>1. both = g
    BY <1>5, <1>7, <1>8, <1>9 DEF UnifyRight
  <2>2. e .. e - 1 = {}
    BY <1>4
  <2>3. NoneBehind(h, S, e)
    BY <1>9 DEF NoneBehind
  <2>4. HolesIn(h, S) \ (e .. e - 1) = HolesIn(h, S)
    BY <2>2
  <2>5. RightIs(h, S, g, lo, e, both, e)
    <3>1. e \in S \cup {h.end} /\ e <= e /\ UsedIn(h, S) \cap (e .. e - 1) = {}
      BY <1>4, <2>2
    <3>2. Lists(both.index, HolesIn(h, S) \ (e .. e - 1))
      BY <1>3, <2>1, <2>4
    <3>3. IsHeap(both) /\ both.end = g.end /\ both.state = g.state /\ Spans(both, lo, e)
      BY <1>3, <2>1
    <3>4. \A x \in Addr : x \notin lo .. e - 1 => both.mem[x] = g.mem[x]
      BY <2>1
    <3> QED BY <2>3, <3>1, <3>2, <3>3, <3>4 DEF RightIs
  <2> QED BY <2>5
<1>10. CASE HoleAt(h, e)
  <2>1. PICK by : by = SizeAt(h, e)
    OBVIOUS
  <2>2. PICK hi : hi = e + by
    OBVIOUS
  <2>3. /\ Tile(h, e, by, yes) /\ Fits(e, by) /\ Behind(hi, e, by) /\ hi \in Nat /\ hi < W
    BY <1>1, <1>10, <2>1, <2>2, SegmentIs
  <2>4. by \in Nat /\ by >= 2 /\ hi > e + 1
    BY <1>4, <2>2, <2>3 DEF Fits
  <2>5. Tile(g, e, by, yes)
    <3>1. PICK d : d = e + by - 1
      OBVIOUS
    <3>2. d \notin lo .. e - 1 /\ e \notin lo .. e - 1
      BY <1>4, <2>4, <3>1
    <3> QED BY <2>3, <3>1, <3>2, StillTile
  <2>6. FooterOf(g, e) = hi - 1
    BY <2>3, <2>5, TileEnd
  <2>7. PICK s : Tile(g, lo, s, yes) /\ Fits(lo, s) /\ Behind(e, lo, s)
    BY <1>1, SpansIs
  <2>8. PICK new \in Nat : new = s + by /\ s \in Nat /\ s >= 2 /\ lo + s = e
    <3>1. s \in Nat /\ s >= 2 /\ lo + s = e
      BY <2>7 DEF Fits, Behind
    <3> QED BY <2>4, <3>1
  <2>9. Total(new, s, by) /\ Fits(lo, new) /\ Behind(hi, lo, new)
    <3>1. lo + new = hi /\ new >= 2
      BY <1>4, <2>2, <2>4, <2>8
    <3> QED BY <1>4, <2>3, <2>4, <2>8, <3>1 DEF Total, Fits, Behind
  <2>10. PICK d : d = hi - 1
    OBVIOUS
  <2>11. PICK joined : joined = PutFooter(Enlarge(g, lo, by), d, lo)
    OBVIOUS
  <2>12. Joins(g, joined, lo, by, d)
    BY <2>11 DEF Joins
  <2>13. Wrote(g, joined, lo .. hi - 1) /\ Tile(joined, lo, new, yes)
    BY <1>2, <1>3, <2>7, <2>9, <2>10, <2>12, Joined
  <2>14. e \in HolesIn(h, S)
    BY <1>10 DEF HolesIn
  <2>15. PICK i : i = ord_arr_index(g, e)
    OBVIOUS
  <2>16. i \in 1 .. Len(h.index) /\ h.index[i] = e
    <3>1. Lists(g.index, HolesIn(h, S))
      BY <1>3
    <3>2. i \in 1 .. Len(g.index) /\ g.index[i] = e
      BY <2>14, <2>15, <3>1, IndexOf
    <3> QED BY <1>3, <3>2
  <2>17. both = ord_arr_remove(joined, i)
    <3>1. i # 0
      BY <2>16
    <3>2. SizeAt(g, e) = by
      BY <1>7, <2>1
    <3> QED BY <1>5, <1>7, <1>8, <1>10, <2>6, <2>10, <2>11, <2>15, <3>1, <3>2 DEF UnifyRight
  <2>18. /\ IsHeap(both) /\ both.mem = joined.mem /\ both.end = g.end /\ both.state = g.state
         /\ Lists(both.index, HolesIn(h, S) \ {e})
    <3>1. IsHeap(joined) /\ joined.index = h.index /\ joined.end = g.end /\ joined.state = g.state
      BY <1>3, <2>13 DEF Wrote
    <3>2. Lists(joined.index, HolesIn(h, S)) /\ i \in 1 .. Len(joined.index) /\ joined.index[i] = e
      BY <1>3, <2>16, <3>1
    <3> QED BY <2>17, <3>1, <3>2, Removed
  <2>19. S \cap (e .. hi - 1) = {e}
    <3>1. S \cap (e .. e + SizeAt(h, e) - 1) = {e}
      BY RegionOne
    <3>2. e + SizeAt(h, e) - 1 = hi - 1
      BY <2>1, <2>2, <2>3, <1>4, <2>4
    <3> QED BY <3>1, <3>2
  <2>20. HolesIn(h, S) \ {e} = HolesIn(h, S) \ (e .. hi - 1)
    BY <2>14, <2>19 DEF HolesIn
  <2>21. UsedIn(h, S) \cap (e .. hi - 1) = {}
    BY <1>10, <2>19 DEF UsedIn
  <2>22. hi \in S \cup {h.end} /\ e <= hi
    <3>1. e + SizeAt(h, e) \in S \cup {h.end}
      BY InHeap
    <3> QED BY <1>4, <2>1, <2>2, <2>4, <3>1
  <2>23. NoneBehind(h, S, hi)
    BY <2>1, <2>2, <2>14, AloneIs
  <2>24. Spans(both, lo, hi)
    <3>1. Tile(both, lo, new, yes)
      BY <2>13, <2>18, SameTile DEF Tile
    <3> QED BY <1>1, <2>9, <3>1, SpansMade
  <2>25. \A x \in Addr : x \notin lo .. hi - 1 => both.mem[x] = g.mem[x]
    BY <2>13, <2>18 DEF Wrote
  <2>26. RightIs(h, S, g, lo, e, both, hi)
    BY <2>18, <2>20, <2>21, <2>22, <2>23, <2>24, <2>25 DEF RightIs
  <2> QED BY <2>26
<1> QED BY <1>9, <1>10

\* A segment in use that is not the last one is given back.
LEMMA FreeEnds ==
  ASSUME NEW h, NEW S, Sound(h, S), NEW a, a \in UsedIn(h, S), NEW e, e = a + SizeAt(h, a),
         e \in S, NEW p, p = a + 1, NEW r, r = vmem_heap_free(h, p)
  PROVE  \E S2 : Changed(h, S, r, S2, {a}, {})
<1>1. PICK yes \in BOOLEAN, no \in BOOLEAN : yes = TRUE /\ no = FALSE
  OBVIOUS
<1>2. yes \in BOOLEAN
  BY <1>1
<1>3. /\ a \in S /\ ~ HoleAt(h, a) /\ IsHeap(h) /\ h.state = "ok"
      /\ Lists(h.index, HolesIn(h, S))
  BY DEF UsedIn, Sound
<1>4. PICK size : size = SizeAt(h, a)
  OBVIOUS
<1>5. /\ Tile(h, a, size, no) /\ Fits(a, size) /\ Behind(e, a, size) /\ e \in Nat /\ e < W
  BY <1>1, <1>3, <1>4, SegmentIs
<1>6. /\ a \in Nat /\ a \in Addr /\ size \in Nat /\ size >= 2 /\ e = a + size /\ a < e
  BY <1>3, <1>4, <1>5, InHeap DEF Fits
<1>7. Sub(p, HDR) = a
  <2>1. p - 1 = a /\ p - 1 \in 0 .. W - 1 /\ p \in Int
    BY <1>6 DEF Addr
  <2> QED BY <2>1, SubIs, Bounds
<1>8. PICK f : f = e - 1
  OBVIOUS
<1>9. FooterOf(h, a) = f /\ h.mem[f] = Footer(a)
  BY <1>5, <1>8, TileEnd
<1>10. Magic(h, a) /\ Magic(h, f)
  BY <1>5, <1>9, CellKinds DEF Magic, Tile, TileAt
<1>11. PICK freed : Marked(h, a, freed)
  BY DEF Marked
<1>12. PICK left : left = UnifyLeft(freed, a)
  OBVIOUS
<1>13. PICK both : both = UnifyRight(left.h, left.hole, f)
  OBVIOUS
<1>14. r = IF both.state # "ok" \/ JoinsLeft(freed, a) THEN both ELSE ord_arr_insert(both, a)
  BY <1>3, <1>7, <1>9, <1>10, <1>11, <1>12, <1>13 DEF vmem_heap_free, Marked
<1>15. PICK lo : LeftIs(h, S, a, e, left, lo) /\ (JoinsLeft(freed, a) <=> lo # a)
  BY <1>11, <1>12, LeftJoined
<1>16. PICK g : g = left.h
  OBVIOUS
<1>17. /\ left.hole = lo /\ lo \in S /\ lo <= a /\ S \cap (lo .. e - 1) = {lo, a}
       /\ Wrote(h, g, lo .. e - 1) /\ Spans(g, lo, e)
       /\ NoneInFront(h, S, lo) /\ (lo # a => HoleAt(h, lo))
  BY <1>15, <1>16 DEF LeftIs
<1>18. lo \in Nat /\ lo < e
  <2>1. lo \in Nat
    BY <1>17, InHeap
  <2> QED BY <1>5, <1>6, <1>17, <2>1
<1>19. both = UnifyRight(g, lo, f)
  BY <1>13, <1>16, <1>17
<1>20. PICK hi : RightIs(h, S, g, lo, e, both, hi)
  BY <1>8, <1>17, <1>18, <1>19, RightJoined
<1>21. /\ hi \in S \cup {h.end} /\ e <= hi /\ UsedIn(h, S) \cap (e .. hi - 1) = {}
       /\ IsHeap(both) /\ both.end = g.end /\ both.state = g.state
       /\ \A x \in Addr : x \notin lo .. hi - 1 => both.mem[x] = g.mem[x]
       /\ Spans(both, lo, hi) /\ NoneBehind(h, S, hi)
       /\ Lists(both.index, HolesIn(h, S) \ (e .. hi - 1))
  BY <1>20 DEF RightIs
<1>22. hi \in Nat /\ h.end \in Nat /\ h.end <= Limit
  BY <1>21, TopIs DEF Sound
<1>23. /\ both.end = h.end /\ both.state = "ok"
       /\ \A x \in Addr : x \notin lo .. hi - 1 => both.mem[x] = h.mem[x]
  <2>1. lo .. e - 1 \subseteq lo .. hi - 1
    BY <1>6, <1>18, <1>21, <1>22
  <2> QED BY <1>3, <1>17, <1>21, <2>1 DEF Wrote
<1>24. S \cap (lo .. hi - 1) \subseteq {lo, a} \cup (e .. hi - 1)
  <2>1. lo .. hi - 1 \subseteq (lo .. e - 1) \cup (e .. hi - 1)
    BY <1>5, <1>18, <1>22
  <2> QED BY <1>17, <2>1
<1>25. lo \in lo .. hi - 1 /\ a \in lo .. hi - 1 /\ e .. hi - 1 \subseteq lo .. hi - 1
       /\ lo \notin e .. hi - 1
  BY <1>5, <1>6, <1>17, <1>18, <1>21, <1>22
<1>26. /\ IsHeap(r) /\ r.mem = both.mem /\ r.end = h.end /\ r.state = "ok"
       /\ Listed(h, S, r, lo, hi, {lo})
  <2>1. CASE lo # a
    <3>1. r = both
      BY <1>14, <1>15, <2>1
    <3>2. HolesIn(h, S) \ (e .. hi - 1) = (HolesIn(h, S) \ (lo .. hi - 1)) \cup {lo}
      BY <1>3, <1>17, <1>24, <1>25, <2>1 DEF HolesIn
    <3> QED BY <1>21, <1>23, <3>1, <3>2 DEF Listed
  <2>2. CASE lo = a
    <3>1. r = ord_arr_insert(both, a)
      BY <1>14, <1>15, <1>23, <2>2
    <3>2. HolesIn(h, S) \ (e .. hi - 1) = HolesIn(h, S) \ (lo .. hi - 1)
      BY <1>3, <1>24, <1>25, <2>2 DEF HolesIn
    <3>3. Lists(both.index, HolesIn(h, S) \ (lo .. hi - 1)) /\ a \notin HolesIn(h, S) \ (lo .. hi - 1)
      BY <1>21, <1>25, <3>2
    <3>4. /\ IsHeap(r) /\ r.mem = both.mem /\ r.end = both.end /\ r.state = both.state
          /\ Lists(r.index, (HolesIn(h, S) \ (lo .. hi - 1)) \cup {a})
      BY <1>6, <1>21, <3>1, <3>3, Inserted
    <3> QED BY <1>23, <2>2, <3>4 DEF Listed
  <2> QED BY <2>1, <2>2
<1>27. Listed(h, S, r, lo, hi, HoleOf(lo, yes))
  <2>1. HoleOf(lo, yes) = {lo}
    BY <1>1 DEF HoleOf
  <2> QED BY <1>26, <2>1
<1>28. Patch(h, S, r, lo, hi, hi)
  <2>1. lo <= hi
    BY <1>5, <1>18, <1>21, <1>22
  <2>2. \A x \in Addr : x \notin lo .. hi - 1 => r.mem[x] = h.mem[x]
    BY <1>23, <1>26
  <2> QED BY <1>17, <1>21, <1>22, <1>26, <2>1, <2>2 DEF Patch, Stretched
<1>29. PICK new : Tile(both, lo, new, yes) /\ Fits(lo, new) /\ Behind(hi, lo, new)
  BY <1>1, <1>21, SpansIs
<1>30. Tile(r, lo, new, yes)
  BY <1>26, <1>29, SameTile DEF Tile
<1>31. Replaced(h, S, r, {lo}, lo, hi)
  BY <1>2, <1>17, <1>21, <1>27, <1>28, <1>29, <1>30, PatchedOne
<1>32. UsedIn(r, {lo}) = {}
  <2>1. UsedIn(r, {lo}) = UsedOf(lo, yes)
    BY <1>2, <1>17, <1>21, <1>27, <1>28, <1>29, <1>30, PatchedOne
  <2> QED BY <1>1, <2>1 DEF UsedOf
<1>33. UsedIn(h, S) \cap (lo .. hi - 1) = {a}
  <2>1. UsedIn(h, S) \cap (lo .. hi - 1) \subseteq {a}
    BY <1>17, <1>21, <1>24 DEF UsedIn
  <2> QED BY <1>25, <2>1
<1>34. r.end >= h.end
  BY <1>22, <1>26
<1>35. PICK S2 : S2 = (S \ (lo .. hi - 1)) \cup {lo}
  OBVIOUS
<1>36. Changed(h, S, r, S2, {a}, {})
  BY <1>31, <1>32, <1>33, <1>34, <1>35, ReplacedIs
<1> QED BY <1>36

-----------------------------------------------------------------------------
(* vmem_heap_realloc.                                                      *)

\* What segment a of h holds is in segment b of r.
Held(h, r, a, b) ==
  \A k \in Int : 1 <= k /\ k <= SizeAt(h, a) - 2 => r.mem[b + k] = h.mem[a + k]

\* The client of a segment writes to it: everything stays where it is.
LEMMA WrittenInside ==
  ASSUME NEW h, NEW S, Sound(h, S), NEW a, a \in UsedIn(h, S), NEW r,
         Wrote(h, r, a + 1 .. a + SizeAt(h, a) - 2)
  PROVE  Changed(h, S, r, S, {a}, {a}) /\ SizeAt(r, a) = SizeAt(h, a)
<1>1. PICK no \in BOOLEAN : no = FALSE
  OBVIOUS
<1>2. no \in BOOLEAN
  BY <1>1
<1>3. /\ a \in S /\ ~ HoleAt(h, a) /\ h.state = "ok" /\ Lists(h.index, HolesIn(h, S))
  BY DEF UsedIn, Sound
<1>4. PICK size : size = SizeAt(h, a)
  OBVIOUS
<1>5. PICK e : e = a + size
  OBVIOUS
<1>6. Tile(h, a, size, no) /\ Fits(a, size) /\ Behind(e, a, size) /\ e \in Nat /\ e < W
  BY <1>1, <1>3, <1>4, <1>5, SegmentIs
<1>7. a \in Nat /\ size \in Nat /\ size >= 2 /\ e = a + size /\ h.end \in Nat /\ h.end <= Limit
  BY <1>3, <1>6, InHeap, TopIs DEF Fits, Behind
<1>8. IsHeap(r) /\ r.index = h.index /\ r.end = h.end /\ r.state = "ok"
  BY <1>3 DEF Wrote
<1>9. PICK D : D = a + 1 .. a + SizeAt(h, a) - 2
  OBVIOUS
<1>10. a \notin D /\ e - 1 \notin D /\ D \subseteq a .. e - 1
  BY <1>4, <1>7, <1>9
<1>11. Tile(r, a, size, no)
  <2>1. PICK f : f = a + size - 1
    OBVIOUS
  <2>2. f \notin D
    BY <1>7, <1>10, <2>1
  <2> QED BY <1>6, <1>9, <1>10, <2>1, <2>2, StillTile
<1>12. S \cap (a .. e - 1) = {a}
  <2>1. S \cap (a .. a + SizeAt(h, a) - 1) = {a}
    BY <1>3, RegionOne
  <2>2. a + SizeAt(h, a) - 1 = e - 1
    BY <1>4, <1>7
  <2> QED BY <2>1, <2>2
<1>13. Listed(h, S, r, a, e, HoleOf(a, no))
  <2>1. (HolesIn(h, S) \ (a .. e - 1)) \cup HoleOf(a, no) = HolesIn(h, S)
    BY <1>1, <1>3, <1>12 DEF HolesIn, HoleOf
  <2> QED BY <1>3, <1>8, <2>1 DEF Listed
<1>14. Patch(h, S, r, a, e, e)
  <2>1. e \in S \cup {h.end} /\ a <= e
    BY <1>3, <1>4, <1>5, <1>7, InHeap
  <2>2. \A x \in Addr : x \notin a .. e - 1 => r.mem[x] = h.mem[x]
    BY <1>9, <1>10 DEF Wrote
  <2> QED BY <1>3, <1>6, <1>7, <1>8, <2>1, <2>2 DEF Patch, Stretched
<1>15. no => NoneInFront(h, S, a) /\ NoneBehind(h, S, e)
  BY <1>1
<1>16. Replaced(h, S, r, {a}, a, e)
  BY <1>2, <1>6, <1>11, <1>13, <1>14, <1>15, PatchedOne
<1>17. UsedIn(r, {a}) = {a}
  BY <1>1, <1>11 DEF UsedIn, Tile
<1>18. UsedIn(h, S) \cap (a .. e - 1) = {a}
  BY <1>3, <1>12 DEF UsedIn
<1>19. r.end >= h.end
  BY <1>7, <1>8
<1>20. Changed(h, S, r, (S \ (a .. e - 1)) \cup {a}, {a}, {a})
  BY <1>16, <1>17, <1>18, <1>19, ReplacedIs
<1>21. (S \ (a .. e - 1)) \cup {a} = S
  BY <1>3, <1>12
<1> QED BY <1>4, <1>11, <1>20, <1>21 DEF Tile

\* The result of a realloc that did not fail.
Reallocated(h, S, r, S2, a, b, want) ==
  /\ Changed(h, S, r, S2, {a}, {b}) /\ SizeAt(r, b) >= want /\ Held(h, r, a, b)
  /\ b \in Nat /\ (b = a \/ b \notin UsedIn(h, S))

\* What the segment a becomes when it takes more of the region up to hi, behind
\* which no hole lies, and leaves the rest as a hole.  c is h without the holes of
\* the region in the index.
Bare(h, S, c, lo, hi, hi2) ==
  /\ IsHeap(c) /\ c.mem = h.mem /\ c.state = "ok" /\ c.end \in Nat /\ c.end <= Limit
  /\ c.end >= h.end /\ Stretched(h.end, hi, c.end, hi2) /\ hi2 \in Nat /\ hi2 < W
  /\ Listed(h, S, c, lo, hi, {})

LEMMA SplitEnds ==
  ASSUME NEW h, NEW S, Sound(h, S), NEW a, a \in UsedIn(h, S),
         NEW hi, hi \in S \cup {h.end}, a < hi, UsedIn(h, S) \cap (a .. hi - 1) = {a},
         NoneBehind(h, S, hi), NEW hi2, NEW c, Bare(h, S, c, a, hi, hi2),
         NEW want, want \in Nat, want >= SizeAt(h, a), NEW n, Behind(n, a, want),
         n \notin HolesIn(h, S) \ (a .. hi - 1),
         NEW s2, s2 \in Nat, s2 >= 2, Behind(hi2, n, s2),
         NEW no, no = FALSE, NEW yes, yes = TRUE,
         NEW f, Made(c, f, a, want, no), NEW two, Made(f, two, n, s2, yes),
         NEW r, r = ord_arr_insert(two, n)
  PROVE  \E S2 : Reallocated(h, S, r, S2, a, a, want)
<1>1. no \in BOOLEAN /\ yes \in BOOLEAN
  OBVIOUS
<1>2. /\ IsHeap(c) /\ c.mem = h.mem /\ c.state = "ok" /\ c.end \in Nat /\ c.end <= Limit
      /\ c.end >= h.end /\ Stretched(h.end, hi, c.end, hi2) /\ hi2 \in Nat /\ hi2 < W
      /\ Listed(h, S, c, a, hi, {})
  BY DEF Bare
<1>3. /\ a \in S /\ a \in Nat /\ SizeAt(h, a) \in Nat /\ SizeAt(h, a) >= 2 /\ W \in Nat
      /\ h.end \in Nat
  BY InHeap, Bounds DEF UsedIn
<1>4. n = a + want /\ hi2 = n + s2 /\ n \in Nat /\ want >= 2
  BY <1>3 DEF Behind
<1>5. Fits(a, want) /\ Fits(n, s2)
  BY <1>2, <1>3, <1>4 DEF Fits
<1>6. /\ Wrote(c, two, {a, n - 1, n, n + s2 - 1})
      /\ Tile(two, a, want, no) /\ Tile(two, n, s2, yes)
  <2>1. no \in BOOLEAN /\ yes \in BOOLEAN /\ IsHeap(c)
    BY <1>1, <1>2
  <2> QED BY <1>5, <2>1, SplitMem
<1>7. /\ IsHeap(two) /\ two.end = c.end /\ two.state = "ok" /\ two.index = c.index
  BY <1>2, <1>6 DEF Wrote
<1>8. PICK H : H = HolesIn(h, S) \ (a .. hi - 1)
  OBVIOUS
<1>9. /\ IsHeap(r) /\ r.mem = two.mem /\ r.end = c.end /\ r.state = "ok"
      /\ Lists(r.index, H \cup {n})
  <2>1. n \in Addr
    BY <1>2, <1>3, <1>4 DEF Addr
  <2>2. Lists(two.index, H)
    BY <1>2, <1>7, <1>8 DEF Listed
  <2>3. n \notin H
    BY <1>8
  <2> QED BY <1>7, <2>1, <2>2, <2>3, Inserted
<1>10. Tile(r, a, want, no) /\ Tile(r, n, s2, yes)
  BY <1>6, <1>9, SameTile DEF Tile
<1>11. \A x \in Addr : x \notin a .. hi2 - 1 => r.mem[x] = h.mem[x]
  <2>1. {a, n - 1, n, n + s2 - 1} \subseteq a .. hi2 - 1
    <3>1. n - 1 \in a .. hi2 - 1 /\ a \in a .. hi2 - 1 /\ n \in a .. hi2 - 1
      BY <1>2, <1>3, <1>4
    <3>2. n + s2 - 1 \in a .. hi2 - 1
      <4>1. hi2 - 1 \in a .. hi2 - 1
        BY <1>2, <1>3, <1>4
      <4>2. n + s2 - 1 = hi2 - 1
        BY <1>4
      <4> QED BY <4>1, <4>2
    <3> QED BY <3>1, <3>2
  <2> QED BY <1>2, <1>6, <1>9, <2>1 DEF Wrote
<1>12. Patch(h, S, r, a, hi, hi2)
  <2>1. a <= hi
    <3>1. hi \in Nat
      BY <1>3, InHeap
    <3> QED BY <1>3, <3>1
  <2> QED BY <1>2, <1>3, <1>9, <1>11, <2>1 DEF Patch
<1>13. Listed(h, S, r, a, hi, {n})
  BY <1>8, <1>9 DEF Listed
<1>14. Replaced(h, S, r, {a, n}, a, hi) /\ UsedIn(r, {a, n}) = {a}
  <2>1. UsedTile(r, a, want) /\ HoleTile(r, n, s2)
    BY <1>10 DEF UsedTile, HoleTile
  <2> QED BY <1>12, <1>13, <2>1, PatchedTwo
<1>15. r.end >= h.end
  BY <1>2, <1>9
<1>16. PICK S2 : S2 = (S \ (a .. hi - 1)) \cup {a, n}
  OBVIOUS
<1>17. Changed(h, S, r, S2, {a}, {a})
  BY <1>14, <1>15, <1>16, ReplacedIs
<1>18. Held(h, r, a, a)
  <2> SUFFICES ASSUME NEW k \in Int, 1 <= k, k <= SizeAt(h, a) - 2 PROVE r.mem[a + k] = h.mem[a + k]
    BY DEF Held
  <2>1. PICK x : x = a + k
    OBVIOUS
  <2>2. x \in Addr /\ x # a /\ x # n - 1 /\ x # n /\ x < n
    BY <1>2, <1>3, <1>4, <2>1 DEF Addr
  <2>3. x # n + s2 - 1
    BY <1>3, <1>4, <2>1, <2>2
  <2> QED BY <1>2, <1>6, <1>9, <2>1, <2>2, <2>3 DEF Wrote
<1>19. SizeAt(r, a) >= want
  BY <1>4, <1>10 DEF Tile
<1> QED BY <1>3, <1>17, <1>18, <1>19 DEF Reallocated

\* The heap grows behind the last segment.
LEMMA ExtendEnds ==
  ASSUME NEW h, NEW S, Sound(h, S), NEW a, a \in UsedIn(h, S), a + SizeAt(h, a) = h.end,
         NEW want, want \in Nat, want >= SizeAt(h, a), NEW r, r = ExtendedAtEnd(h, a, want)
  PROVE  \/ NoRoom(r, want)
         \/ \E S2 : Reallocated(h, S, r, S2, a, a, want)
<1>1. PICK yes \in BOOLEAN, no \in BOOLEAN : yes = TRUE /\ no = FALSE
  OBVIOUS
<1>2. PICK size : size = SizeAt(h, a)
  OBVIOUS
<1>3. /\ a \in S /\ ~ HoleAt(h, a) /\ IsHeap(h) /\ h.state = "ok" /\ AlignAt(h, a) = 0
      /\ Lists(h.index, HolesIn(h, S))
  BY InHeap DEF UsedIn, Sound, TileAt
<1>4. /\ a \in Nat /\ size \in Nat /\ size >= 2 /\ h.end \in Nat /\ h.end < W /\ W \in Nat
      /\ Start \in Nat /\ Start <= h.end /\ a + size = h.end /\ want >= size
  BY <1>2, <1>3, InHeap, TopIs, Bounds
<1>5. PICK new \in Nat : new = h.end - Start + want
  <2>1. h.end - Start + want \in Nat
    BY <1>4
  <2> QED BY <2>1
<1>6. PICK g : g = vmem_heap_expand(h, new)
  OBVIOUS
<1>7. Expanded(h, g, new)
  <2>1. Start + new > h.end
    BY <1>4, <1>5
  <2> QED BY <1>3, <1>4, <1>6, <2>1, Expands
<1>8. PICK n \in Nat : n = a + want
  BY <1>4
<1>9. CASE g.state = "out of memory"
  <2>1. r = g
    BY <1>5, <1>6, <1>9 DEF ExtendedAtEnd
  <2>2. g.end = h.end /\ Start + AlignUp(new, PageSize) > Limit
    BY <1>3, <1>7, <1>9 DEF Expanded
  <2> QED BY <1>5, <1>9, <2>1, <2>2 DEF NoRoom
<1>10. CASE g.state # "out of memory"
  <2>1. /\ IsHeap(g) /\ g.mem = h.mem /\ g.index = h.index /\ g.state = "ok"
        /\ g.end \in Nat /\ g.end <= Limit /\ g.end >= Start + new /\ g.end < W
    BY <1>3, <1>7, <1>10 DEF Expanded
  <2>2. /\ g.end >= h.end + want /\ n < g.end /\ n >= h.end /\ n < W /\ g.end >= h.end
    BY <1>4, <1>5, <1>8, <2>1
  <2>3. PICK s2 \in Nat : s2 = g.end - n /\ s2 >= 2 /\ g.end = n + s2
    <3>1. g.end - n \in Nat /\ g.end - n >= 2 /\ g.end = n + (g.end - n)
      BY <1>4, <1>8, <2>1, <2>2
    <3> QED BY <3>1
  <2>4. Add(a, want) = n /\ Sub(g.end, n) = s2
    <3>1. a + want = n /\ n \in 0 .. W - 1
      BY <1>4, <1>8, <2>2
    <3>2. Add(a, want) = n
      BY <1>4, <3>1, AddIs
    <3>3. g.end - n = s2 /\ s2 \in 0 .. W - 1
      BY <1>4, <2>1, <2>2, <2>3
    <3>4. Sub(g.end, n) = s2
      BY <2>1, <3>3, SubIs
    <3> QED BY <3>2, <3>4
  <2>5. PICK f : f = Segment(g, a, want, no, 0)
    OBVIOUS
  <2>6. PICK two : two = Segment(f, n, s2, yes, 0)
    OBVIOUS
  <2>7. Made(g, f, a, want, no) /\ Made(f, two, n, s2, yes)
    BY <2>5, <2>6 DEF Made
  <2>8. r = ord_arr_insert(two, n)
    BY <1>1, <1>3, <1>5, <1>6, <2>1, <2>4, <2>5, <2>6 DEF ExtendedAtEnd
  <2>9. S \cap (a .. h.end - 1) = {a}
    <3>1. S \cap (a .. a + SizeAt(h, a) - 1) = {a}
      BY <1>3, RegionOne
    <3>2. a + SizeAt(h, a) - 1 = h.end - 1
      BY <1>2, <1>4
    <3> QED BY <3>1, <3>2
  <2>10. UsedIn(h, S) \cap (a .. h.end - 1) = {a}
    BY <1>3, <2>9 DEF UsedIn
  <2>11. HolesIn(h, S) \ (a .. h.end - 1) = HolesIn(h, S)
    BY <1>3, <2>9 DEF HolesIn
  <2>12. Bare(h, S, g, a, h.end, g.end)
    <3>1. Listed(h, S, g, a, h.end, {})
      BY <1>3, <2>1, <2>11 DEF Listed
    <3> QED BY <2>1, <2>2, <3>1 DEF Bare, Stretched
  <2>13. n \notin HolesIn(h, S) \ (a .. h.end - 1)
    BY <1>4, <2>2, TopIs DEF HolesIn
  <2>14. NoneBehind(h, S, h.end)
    BY TopIs DEF NoneBehind
  <2>15. a < h.end
    BY <1>4
  <2>16. Behind(n, a, want) /\ Behind(g.end, n, s2)
    BY <1>8, <2>3 DEF Behind
  <2>17. want \in Nat /\ want >= SizeAt(h, a)
    OBVIOUS
  <2> QED BY <1>1, <2>3, <2>7, <2>8, <2>10, <2>12, <2>13, <2>14, <2>15, <2>16, <2>17, SplitEnds
<1> QED BY <1>9, <1>10

\* The segment takes the whole hole behind it.
Took(h, S, r, S2, a, e) ==
  /\ Reallocated(h, S, r, S2, a, a, SizeAt(h, a) + SizeAt(h, e))
  /\ SizeAt(r, a) = SizeAt(h, a) + SizeAt(h, e) /\ r.end = h.end
  /\ HolesIn(r, S2) = HolesIn(h, S) \ {e}
  /\ \A b \in HolesIn(r, S2) : SizeAt(r, b) = SizeAt(h, b)
  /\ \A b \in S2 : b = a + SizeAt(r, a) => ~ HoleAt(r, b)

LEMMA ClaimEnds ==
  ASSUME NEW h, NEW S, Sound(h, S), NEW a, a \in UsedIn(h, S), NEW e, e = a + SizeAt(h, a),
         e \in HolesIn(h, S), NEW r, r = Claimed(h, a)
  PROVE  \E S2 : Took(h, S, r, S2, a, e)
<1>1. PICK yes \in BOOLEAN, no \in BOOLEAN : yes = TRUE /\ no = FALSE
  OBVIOUS
<1>2. no \in BOOLEAN
  BY <1>1
<1>3. PICK size : size = SizeAt(h, a)
  OBVIOUS
<1>4. PICK by : by = SizeAt(h, e)
  OBVIOUS
<1>5. PICK hi : hi = e + by
  OBVIOUS
<1>6. /\ a \in S /\ ~ HoleAt(h, a) /\ IsHeap(h) /\ h.state = "ok" /\ Lists(h.index, HolesIn(h, S))
      /\ e \in S /\ HoleAt(h, e)
  BY DEF UsedIn, HolesIn, Sound
<1>7. Tile(h, a, size, no) /\ Fits(a, size) /\ Behind(e, a, size) /\ e \in Nat /\ e < W
  BY <1>1, <1>3, <1>6, SegmentIs
<1>8. Tile(h, e, by, yes) /\ Fits(e, by) /\ Behind(hi, e, by) /\ hi \in Nat /\ hi < W
  BY <1>1, <1>4, <1>5, <1>6, SegmentIs
<1>9. /\ a \in Nat /\ size \in Nat /\ size >= 2 /\ e = a + size /\ W \in Nat
      /\ by \in Nat /\ by >= 2 /\ hi = e + by /\ h.end \in Nat /\ h.end <= Limit
  BY <1>7, <1>8, TopIs, Bounds DEF Fits, Behind, Sound
<1>10. PICK new \in Nat : new = size + by
  BY <1>9
<1>11. Total(new, size, by) /\ Fits(a, new) /\ Behind(hi, a, new)
  <2>1. a + new = hi /\ new >= 2
    BY <1>9, <1>10
  <2> QED BY <1>8, <1>9, <1>10, <2>1 DEF Total, Fits, Behind
<1>12. Add(a, size) = e
  <2>1. a + size = e /\ e \in 0 .. W - 1
    BY <1>7, <1>9
  <2> QED BY <1>9, <2>1, AddIs
<1>13. FooterOf(h, e) = hi - 1
  BY <1>8, TileEnd
<1>14. PICK d : d = hi - 1
  OBVIOUS
<1>15. PICK joined : joined = PutFooter(Enlarge(h, a, by), d, a)
  OBVIOUS
<1>16. Joins(h, joined, a, by, d)
  BY <1>15 DEF Joins
<1>17. Wrote(h, joined, a .. hi - 1) /\ Tile(joined, a, new, no)
  BY <1>2, <1>6, <1>7, <1>11, <1>14, <1>16, Joined
<1>18. PICK i : i = ord_arr_index(h, e)
  OBVIOUS
<1>19. i \in 1 .. Len(h.index) /\ h.index[i] = e
  BY <1>6, <1>18, IndexOf
<1>20. r = ord_arr_remove(joined, i)
  BY <1>3, <1>4, <1>12, <1>13, <1>14, <1>15, <1>18 DEF Claimed
<1>21. /\ IsHeap(r) /\ r.mem = joined.mem /\ r.end = h.end /\ r.state = "ok"
       /\ Lists(r.index, HolesIn(h, S) \ {e})
  <2>1. IsHeap(joined) /\ joined.index = h.index /\ joined.end = h.end /\ joined.state = h.state
    BY <1>17 DEF Wrote
  <2>2. Lists(joined.index, HolesIn(h, S)) /\ i \in 1 .. Len(joined.index) /\ joined.index[i] = e
    BY <1>6, <1>19, <2>1
  <2>3. /\ IsHeap(r) /\ r.mem = joined.mem /\ r.end = joined.end /\ r.state = joined.state
        /\ Lists(r.index, HolesIn(h, S) \ {joined.index[i]})
    BY <1>20, <2>1, <2>2, Removed
  <2> QED BY <1>6, <2>1, <2>2, <2>3
<1>22. S \cap (a .. hi - 1) = {a, e}
  <2>1. S \cap (a .. e + SizeAt(h, e) - 1) = {a, e}
    BY <1>6, RegionTwo
  <2>2. e + SizeAt(h, e) - 1 = hi - 1
    BY <1>4, <1>9
  <2> QED BY <2>1, <2>2
<1>23. HolesIn(h, S) \ (a .. hi - 1) = HolesIn(h, S) \ {e}
  BY <1>6, <1>22 DEF HolesIn
<1>24. Listed(h, S, r, a, hi, HoleOf(a, no))
  BY <1>1, <1>21, <1>23 DEF Listed, HoleOf
<1>25. Tile(r, a, new, no)
  BY <1>17, <1>21, SameTile DEF Tile
<1>26. Patch(h, S, r, a, hi, hi)
  <2>1. hi \in S \cup {h.end} /\ a <= hi
    BY <1>4, <1>5, <1>6, <1>9, InHeap
  <2>2. \A x \in Addr : x \notin a .. hi - 1 => r.mem[x] = h.mem[x]
    BY <1>17, <1>21 DEF Wrote
  <2> QED BY <1>6, <1>8, <1>9, <1>21, <2>1, <2>2 DEF Patch, Stretched
<1>27. no => NoneInFront(h, S, a) /\ NoneBehind(h, S, hi)
  BY <1>1
<1>28. Replaced(h, S, r, {a}, a, hi)
  BY <1>2, <1>11, <1>24, <1>25, <1>26, <1>27, PatchedOne
<1>29. UsedIn(r, {a}) = {a} /\ HolesIn(r, {a}) = {}
  BY <1>1, <1>25 DEF UsedIn, HolesIn, Tile
<1>30. UsedIn(h, S) \cap (a .. hi - 1) = {a}
  BY <1>6, <1>22 DEF UsedIn
<1>31. r.end >= h.end
  BY <1>9, <1>21
<1>32. PICK S2 : S2 = (S \ (a .. hi - 1)) \cup {a}
  OBVIOUS
<1>33. Changed(h, S, r, S2, {a}, {a})
  BY <1>28, <1>29, <1>30, <1>31, <1>32, ReplacedIs
<1>34. \A b \in S \ (a .. hi - 1) : SizeAt(r, b) = SizeAt(h, b) /\ (HoleAt(r, b) <=> HoleAt(h, b))
  <2>1. \A b \in S : TileAt(h, b) /\ b \in Nat
    BY InHeap
  <2>2. \A b \in S \ (a .. hi - 1) : Kept(h, r, b)
    BY <1>28 DEF Replaced
  <2> QED BY <2>1, <2>2, KeptTile
<1>35. SizeAt(r, a) = SizeAt(h, a) + SizeAt(h, e)
  BY <1>3, <1>4, <1>10, <1>25 DEF Tile
<1>36. HolesIn(r, S2) = HolesIn(h, S) \ {e}
  BY <1>1, <1>6, <1>22, <1>25, <1>32, <1>34 DEF HolesIn, Tile
<1>37. \A b \in HolesIn(r, S2) : SizeAt(r, b) = SizeAt(h, b)
  <2>1. \A b \in HolesIn(r, S2) : b \in S \ (a .. hi - 1)
    BY <1>1, <1>25, <1>32 DEF HolesIn, Tile
  <2> QED BY <1>34, <2>1
<1>38. \A b \in S2 : b = a + SizeAt(r, a) => ~ HoleAt(r, b)
  <2> SUFFICES ASSUME NEW b \in S2, b = hi PROVE ~ HoleAt(r, b)
    BY <1>11, <1>25 DEF Tile, Behind
  <2>1. b \in S \ (a .. hi - 1)
    BY <1>9, <1>32
  <2>2. ~ HoleAt(h, b)
    BY <1>4, <1>5, <1>6, <2>1 DEF Sound, Apart
  <2> QED BY <1>34, <2>1, <2>2
<1>39. Held(h, r, a, a)
  <2> SUFFICES ASSUME NEW k \in Int, 1 <= k, k <= SizeAt(h, a) - 2 PROVE r.mem[a + k] = h.mem[a + k]
    BY DEF Held
  <2>1. Wrote(h, joined, {a, d})
    <3>1. /\ h.mem[a].k = "header" /\ h.mem[a].hole \in BOOLEAN /\ AlignAt(h, a) = 0
          /\ SizeAt(h, a) = size /\ a + new < W /\ new >= 2 /\ d = a + new - 1 /\ new = SizeAt(h, a) + by
      BY <1>7, <1>9, <1>10, <1>11, <1>14 DEF Tile, TileAt, Fits, Behind
    <3> QED BY <1>6, <1>9, <1>15, <3>1, JoinMem
  <2>2. PICK x : x = a + k
    OBVIOUS
  <2>3. x \in Addr /\ x # a /\ x # d
    BY <1>3, <1>7, <1>9, <1>14, <2>2 DEF Addr
  <2> QED BY <1>21, <2>1, <2>2, <2>3 DEF Wrote
<1>40. SizeAt(r, a) >= SizeAt(h, a) + SizeAt(h, e)
  BY <1>3, <1>4, <1>9, <1>35
<1>41. Reallocated(h, S, r, S2, a, a, SizeAt(h, a) + SizeAt(h, e))
  BY <1>9, <1>33, <1>39, <1>40 DEF Reallocated
<1> QED BY <1>21, <1>35, <1>36, <1>37, <1>38, <1>41 DEF Took

\* The segment takes the front of the hole behind it.
LEMMA SplitBehindEnds ==
  ASSUME NEW h, NEW S, Sound(h, S), NEW a, a \in UsedIn(h, S), NEW e, e = a + SizeAt(h, a),
         e \in HolesIn(h, S), NEW want \in Nat, want > SizeAt(h, a),
         SizeAt(h, e) - (want - SizeAt(h, a)) >= 2, NEW r, r = SplitBehind(h, a, want)
  PROVE  \E S2 : Reallocated(h, S, r, S2, a, a, want)
<1>1. PICK yes \in BOOLEAN, no \in BOOLEAN : yes = TRUE /\ no = FALSE
  OBVIOUS
<1>2. PICK size : size = SizeAt(h, a)
  OBVIOUS
<1>3. PICK by : by = SizeAt(h, e)
  OBVIOUS
<1>4. PICK hi : hi = e + by
  OBVIOUS
<1>5. /\ a \in S /\ ~ HoleAt(h, a) /\ IsHeap(h) /\ h.state = "ok" /\ Lists(h.index, HolesIn(h, S))
      /\ e \in S /\ HoleAt(h, e) /\ AlignAt(h, a) = 0
  BY InHeap DEF UsedIn, HolesIn, Sound, TileAt
<1>6. Tile(h, a, size, no) /\ Fits(a, size) /\ Behind(e, a, size) /\ e \in Nat /\ e < W
  BY <1>1, <1>2, <1>5, SegmentIs
<1>7. Tile(h, e, by, yes) /\ Fits(e, by) /\ Behind(hi, e, by) /\ hi \in Nat /\ hi < W
  BY <1>1, <1>3, <1>4, <1>5, SegmentIs
<1>8. /\ a \in Nat /\ size \in Nat /\ size >= 2 /\ e = a + size /\ W \in Nat
      /\ by \in Nat /\ by >= 2 /\ hi = e + by /\ h.end \in Nat /\ h.end <= Limit
  BY <1>6, <1>7, TopIs, Bounds DEF Fits, Behind, Sound
<1>9. PICK n \in Nat : n = a + want
  BY <1>8
<1>10. PICK s2 \in Nat : s2 = size + by - want /\ s2 >= 2
  <2>1. size + by - want \in Nat /\ size + by - want >= 2
    BY <1>2, <1>3, <1>8
  <2> QED BY <2>1
<1>11. /\ hi = n + s2 /\ n < hi /\ e < n /\ n \in a .. hi - 1 /\ a < hi
  BY <1>2, <1>8, <1>9, <1>10
<1>12. Add(a, size) = e
  <2>1. a + size = e /\ e \in 0 .. W - 1
    BY <1>6, <1>8
  <2> QED BY <1>8, <2>1, AddIs
<1>13. Add(a, want) = n
  <2>1. a + want = n /\ n \in 0 .. W - 1
    BY <1>7, <1>8, <1>9, <1>11
  <2> QED BY <1>8, <2>1, AddIs
<1>14. Sub(size + by, want) = s2
  <2>1. PICK t \in Nat : t = size + by
    BY <1>8
  <2>2. t - want = s2 /\ s2 \in 0 .. W - 1
    BY <1>7, <1>8, <1>10, <1>11, <2>1
  <2> QED BY <2>1, <2>2, SubIs
<1>15. PICK c : c = ord_arr_remove(h, ord_arr_index(h, e))
  OBVIOUS
<1>16. PICK f : f = Segment(c, a, want, no, 0)
  OBVIOUS
<1>17. PICK two : two = Segment(f, n, s2, yes, 0)
  OBVIOUS
<1>18. Made(c, f, a, want, no) /\ Made(f, two, n, s2, yes)
  BY <1>16, <1>17 DEF Made
<1>19. r = ord_arr_insert(two, n)
  BY <1>1, <1>2, <1>3, <1>5, <1>12, <1>13, <1>14, <1>15, <1>16, <1>17 DEF SplitBehind
<1>20. /\ IsHeap(c) /\ c.mem = h.mem /\ c.end = h.end /\ c.state = h.state
       /\ Lists(c.index, HolesIn(h, S) \ {e})
  <2>1. PICK i : i = ord_arr_index(h, e)
    OBVIOUS
  <2>2. i \in 1 .. Len(h.index) /\ h.index[i] = e
    BY <1>5, <2>1, IndexOf
  <2>3. c = ord_arr_remove(h, i)
    BY <1>15, <2>1
  <2>4. /\ IsHeap(c) /\ c.mem = h.mem /\ c.end = h.end /\ c.state = h.state
        /\ Lists(c.index, HolesIn(h, S) \ {h.index[i]})
    BY <1>5, <2>2, <2>3, Removed
  <2> QED BY <2>2, <2>4
<1>21. S \cap (a .. hi - 1) = {a, e}
  <2>1. S \cap (a .. e + SizeAt(h, e) - 1) = {a, e}
    BY <1>5, RegionTwo
  <2>2. e + SizeAt(h, e) - 1 = hi - 1
    BY <1>3, <1>8
  <2> QED BY <2>1, <2>2
<1>22. HolesIn(h, S) \ (a .. hi - 1) = HolesIn(h, S) \ {e}
  BY <1>5, <1>21 DEF HolesIn
<1>23. UsedIn(h, S) \cap (a .. hi - 1) = {a}
  BY <1>5, <1>21 DEF UsedIn
<1>24. Bare(h, S, c, a, hi, hi)
  <2>1. Listed(h, S, c, a, hi, {})
    BY <1>20, <1>22 DEF Listed
  <2> QED BY <1>5, <1>7, <1>8, <1>20, <2>1 DEF Bare, Stretched
<1>25. n \notin HolesIn(h, S) \ (a .. hi - 1)
  BY <1>11
<1>26. NoneBehind(h, S, hi)
  BY <1>3, <1>4, AloneIs
<1>27. hi \in S \cup {h.end}
  BY <1>3, <1>4, <1>5, InHeap
<1>28. Behind(n, a, want) /\ Behind(hi, n, s2)
  BY <1>9, <1>11 DEF Behind
<1>29. want \in Nat /\ want >= SizeAt(h, a)
  BY <1>2, <1>8
<1> QED BY <1>1, <1>10, <1>11, <1>18, <1>19, <1>23, <1>24, <1>25, <1>26, <1>27, <1>28, <1>29, SplitEnds

\* What a realloc returns: the kernel stopped, or there is such a segment.
Ends(h, S, r, a, want) ==
  \/ NoRoom(r.h, want) \/ NoRoom(r.h, want + 2)
  \/ \E S2, b : Reallocated(h, S, r.h, S2, a, b, want) /\ r.p = b + 1

\* More is asked for than the segment has, and another one lies behind it.
Outgrows(h, S, a, want) ==
  a + SizeAt(h, a) \in S /\ want \in Nat /\ want >= SizeAt(h, a)

\* A new segment, the payload copied, the old segment given back.
LEMMA MovedEnds ==
  ASSUME NEW h, NEW S, Sound(h, S), NEW a, a \in UsedIn(h, S), NEW want,
         Outgrows(h, S, a, want), HasRoom(h, S, want), NEW r, r = Moved(h, a, want)
  PROVE  \/ NoRoom(r.h, want)
         \/ \E S2, b : Reallocated(h, S, r.h, S2, a, b, want) /\ r.p = b + 1
<1>1. a + SizeAt(h, a) \in S /\ want \in Nat /\ want >= SizeAt(h, a)
  BY DEF Outgrows
<1>2. PICK size : size = SizeAt(h, a)
  OBVIOUS
<1>3. PICK e : e = a + size
  OBVIOUS
<1>4. /\ a \in S /\ a \in Nat /\ size \in Nat /\ size >= 2 /\ h.end \in Nat /\ W \in Nat
      /\ AlignAt(h, a) = 0 /\ e \in S /\ e \in Nat /\ e < h.end /\ h.end < W /\ TileAt(h, a)
  BY <1>1, <1>2, <1>3, InHeap, TopIs, Bounds DEF UsedIn, TileAt
<1>5. PICK cells \in Nat : cells = want - 2 /\ cells + 2 = want
  <2>1. want - 2 \in Nat /\ (want - 2) + 2 = want
    BY <1>1, <1>2, <1>4
  <2> QED BY <2>1
<1>6. PICK new : new = vmem_heap_alloc(h, cells, 0)
  OBVIOUS
<1>7. Add(a, HDR) = a + 1
  <2>1. a + 1 \in 0 .. W - 1
    BY <1>3, <1>4
  <2> QED BY <1>4, <2>1, AddIs, Bounds
<1>8. PICK p : p = a + 1
  OBVIOUS
<1>9. PICK D : D = new.p .. new.p + size - 2 - 1
  OBVIOUS
<1>10. PICK copied : copied = [new.h EXCEPT !.mem =
                                [x \in Addr |-> IF x \in D THEN @[p + (x - new.p)] ELSE @[x]]]
  OBVIOUS
<1>11. r = IF new.h.state # "ok" THEN new ELSE [h |-> vmem_heap_free(copied, p), p |-> new.p]
  BY <1>2, <1>4, <1>5, <1>6, <1>7, <1>8, <1>9, <1>10, Bounds DEF Moved
<1>12. \/ NoRoom(new.h, cells + 2)
       \/ \E S1 : AllocatedIn(h, S, cells + 2, new, S1)
  BY <1>5, <1>6, AllocEnds
<1>13. CASE NoRoom(new.h, cells + 2)
  <2>1. new.h.state # "ok"
    BY <1>13 DEF NoRoom
  <2>2. r = new
    BY <1>11, <2>1
  <2> QED BY <1>5, <1>13, <2>2
<1>14. ASSUME NEW S1, AllocatedIn(h, S, cells + 2, new, S1)
       PROVE  \E S2, b : Reallocated(h, S, r.h, S2, a, b, want) /\ r.p = b + 1
  <2>1. PICK g : g = new.h
    OBVIOUS
  <2>2. PICK b : b = new.p - 1
    OBVIOUS
  <2>3. /\ b \in Nat /\ new.p \in Nat /\ new.p = b + 1 /\ b \notin UsedIn(h, S)
        /\ Changed(h, S, g, S1, {}, {b}) /\ SizeAt(g, b) >= want
    BY <1>5, <1>14, <2>1, <2>2 DEF AllocatedIn
  <2>4. /\ Sound(g, S1) /\ g.state = "ok" /\ IsHeap(g) /\ g.end >= h.end
        /\ UsedIn(g, S1) = UsedIn(h, S) \cup {b} /\ Kept(h, g, a)
    BY <2>3 DEF Changed, Sound
  <2>5. b \in UsedIn(g, S1) /\ b \in S1 /\ a # b
    BY <2>3, <2>4 DEF UsedIn
  <2>6. PICK top : top = SizeAt(g, b)
    OBVIOUS
  <2>7. /\ top \in Nat /\ top >= want /\ b + top < W /\ top >= size
    <3>1. SizeAt(g, b) \in Nat /\ b + SizeAt(g, b) <= g.end
      BY <2>4, <2>5, InHeap
    <3>2. g.end < W /\ g.end \in Nat
      BY <2>4, TopIs
    <3> QED BY <1>1, <1>2, <1>4, <2>3, <2>6, <3>1, <3>2
  <2>8. D \subseteq b + 1 .. b + top - 2
    BY <1>4, <1>9, <2>3, <2>7
  <2>9. /\ IsHeap(copied) /\ copied.index = g.index /\ copied.end = g.end /\ copied.state = g.state
        /\ \A x \in Addr : copied.mem[x] = IF x \in D THEN g.mem[p + (x - new.p)] ELSE g.mem[x]
    BY <1>10, <2>1, <2>4 DEF IsHeap
  <2>10. Wrote(g, copied, b + 1 .. b + SizeAt(g, b) - 2)
    BY <2>6, <2>8, <2>9 DEF Wrote
  <2>11. Changed(g, S1, copied, S1, {b}, {b}) /\ SizeAt(copied, b) = top
    BY <2>4, <2>5, <2>6, <2>10, WrittenInside
  <2>12. UsedIn(copied, S1) = UsedIn(h, S) \cup {b}
    BY <2>4, <2>11 DEF Changed
  <2>13. Changed(h, S, copied, S1, {}, {b})
    <3>1. (UsedIn(h, S) \ {}) \cap {b} = {} /\ {} \subseteq {}
      BY <2>3
    <3>2. UsedIn(copied, S1) = (UsedIn(h, S) \ {}) \cup {b}
      BY <2>12
    <3> QED BY <2>3, <2>11, <3>1, <3>2, ChangedBoth
  <2>14. a \in UsedIn(copied, S1) /\ Kept(h, copied, a) /\ Sound(copied, S1)
    BY <2>12, <2>13 DEF Changed
  <2>15. SizeAt(copied, a) = size
    BY <1>2, <1>4, <2>14, KeptTile
  <2>16. e \in S1
    <3>1. a + SizeAt(copied, a) \in S1 \cup {copied.end}
      BY <2>14, InHeap DEF UsedIn
    <3>2. copied.end \in Nat /\ copied.end >= h.end
      BY <2>13, <2>14, TopIs DEF Changed
    <3> QED BY <1>3, <1>4, <2>15, <3>1, <3>2
  <2>17. PICK last : last = vmem_heap_free(copied, p)
    OBVIOUS
  <2>18. r.h = last /\ r.p = b + 1
    BY <1>11, <2>1, <2>3, <2>4, <2>17
  <2>19. PICK S2 : Changed(copied, S1, last, S2, {a}, {})
    <3>1. e = a + SizeAt(copied, a)
      BY <1>3, <2>15
    <3> QED BY <1>8, <2>14, <2>16, <2>17, <3>1, FreeEnds
  <2>20. UsedIn(last, S2) = (UsedIn(h, S) \ {a}) \cup {b}
    <3>1. UsedIn(last, S2) = (UsedIn(copied, S1) \ {a}) \cup {}
      BY <2>19 DEF Changed
    <3> QED BY <2>5, <2>12, <3>1
  <2>21. Changed(h, S, last, S2, {a}, {b})
    <3>1. (UsedIn(h, S) \ {a}) \cap {a} = {} /\ {} \subseteq {a}
      OBVIOUS
    <3> QED BY <2>13, <2>19, <2>20, <3>1, ChangedBoth
  <2>22. Kept(copied, last, b) /\ TileAt(copied, b)
    <3>1. b \in UsedIn(copied, S1) \ {a} /\ b \in S1
      BY <2>5, <2>12
    <3> QED BY <2>14, <2>19, <3>1, InHeap DEF Changed
  <2>23. SizeAt(last, b) >= want
    BY <1>1, <2>3, <2>7, <2>11, <2>22, KeptTile
  <2>24. Held(h, last, a, b)
    <3> SUFFICES ASSUME NEW k \in Int, 1 <= k, k <= SizeAt(h, a) - 2 PROVE last.mem[b + k] = h.mem[a + k]
      BY DEF Held
    <3>1. PICK x \in Int : x = b + k
      BY <2>3
    <3>2. x \in b .. b + top - 1 /\ x \in D /\ x \in Addr
      BY <1>2, <1>4, <1>9, <2>3, <2>7, <3>1 DEF Addr
    <3>3. last.mem[x] = copied.mem[x]
      BY <2>11, <2>22, <3>2 DEF Kept
    <3>4. p + (x - new.p) = a + k
      BY <1>4, <1>8, <2>3, <3>1
    <3>5. copied.mem[x] = g.mem[a + k]
      BY <2>9, <3>2, <3>4
    <3>6. a + k \in a .. a + SizeAt(h, a) - 1
      BY <1>2, <1>4
    <3> QED BY <2>4, <3>1, <3>3, <3>5, <3>6 DEF Kept
  <2>25. Reallocated(h, S, last, S2, a, b, want)
    BY <2>3, <2>21, <2>23, <2>24 DEF Reallocated
  <2> QED BY <2>18, <2>25
<1> QED BY <1>12, <1>13, <1>14

\* The recursive call, and what both calls look at first: the segment a of the
\* pointer p is in use and ends in front of e.
Second(g, p, want) ==
  LET Never(x) == [h |-> Stop(x, "bound"), p |-> p] IN Realloc(g, p, want, Never)
Opens(h, p, a, e) ==
  /\ a = Sub(p, HDR) /\ Magic(h, a) /\ Magic(h, FooterOf(h, a)) /\ ~ HoleAt(h, a)
  /\ e = Add(FooterOf(h, a), FTR)
Asks(p, size, want) == p # 0 /\ size # 0 /\ want = size + Overhead

LEMMA ReallocKeeps ==
  ASSUME NEW h, NEW p, NEW a, NEW e, Opens(h, p, a, e), NEW size, NEW want, Asks(p, size, want),
         SizeAt(h, a) = want, ~ (SizeAt(h, a) < want), ~ (SizeAt(h, a) > want)
  PROVE  vmem_heap_realloc(h, p, size) = [h |-> h, p |-> p]
BY Zenon DEF vmem_heap_realloc, Realloc, NULL, Opens, Asks

\* The segment is too small, at the end of the heap or in front of another one.
AtEnd(h, a, e, want) ==
  /\ SizeAt(h, a) < want /\ SizeAt(h, a) # want /\ ~ (SizeAt(h, a) > want)
  /\ e + HDR > h.end /\ ~ (e + HDR <= h.end)
InFrontOf(h, a, e, want) ==
  /\ SizeAt(h, a) < want /\ SizeAt(h, a) # want /\ ~ (SizeAt(h, a) > want)
  /\ e + HDR <= h.end /\ ~ (e + HDR > h.end)

LEMMA ReallocExtends ==
  ASSUME NEW h, NEW p, NEW a, NEW e, Opens(h, p, a, e), NEW size, NEW want, Asks(p, size, want),
         AtEnd(h, a, e, want)
  PROVE  vmem_heap_realloc(h, p, size) = [h |-> ExtendedAtEnd(h, a, want), p |-> p]
BY Zenon DEF vmem_heap_realloc, Realloc, NULL, Opens, Asks, AtEnd

LEMMA ReallocMoves ==
  ASSUME NEW h, NEW p, NEW a, NEW e, Opens(h, p, a, e), NEW size, NEW want, Asks(p, size, want),
         InFrontOf(h, a, e, want), ~ HoleAt(h, e)
  PROVE  vmem_heap_realloc(h, p, size) = Moved(h, a, want)
BY Zenon DEF vmem_heap_realloc, Realloc, NULL, Opens, Asks, InFrontOf

LEMMA ReallocSplits ==
  ASSUME NEW h, NEW p, NEW a, NEW e, Opens(h, p, a, e), NEW size, NEW want, Asks(p, size, want),
         InFrontOf(h, a, e, want), HoleAt(h, e), ord_arr_index(h, e) # 0,
         ~ (SizeAt(h, e) < want - SizeAt(h, a)), SizeAt(h, e) - (want - SizeAt(h, a)) >= Overhead
  PROVE  vmem_heap_realloc(h, p, size) = [h |-> SplitBehind(h, a, want), p |-> p]
BY Zenon DEF vmem_heap_realloc, Realloc, NULL, Opens, Asks, InFrontOf

LEMMA ReallocClaims ==
  ASSUME NEW h, NEW p, NEW a, NEW e, Opens(h, p, a, e), NEW size, NEW want, Asks(p, size, want),
         InFrontOf(h, a, e, want), HoleAt(h, e), ord_arr_index(h, e) # 0,
         ~ (SizeAt(h, e) < want - SizeAt(h, a)), ~ (SizeAt(h, e) - (want - SizeAt(h, a)) >= Overhead)
  PROVE  vmem_heap_realloc(h, p, size) = [h |-> Claimed(h, a), p |-> p]
BY Zenon DEF vmem_heap_realloc, Realloc, NULL, Opens, Asks, InFrontOf

LEMMA ReallocRecurs ==
  ASSUME NEW h, NEW p, NEW a, NEW e, Opens(h, p, a, e), NEW size, NEW want, Asks(p, size, want),
         InFrontOf(h, a, e, want), HoleAt(h, e), ord_arr_index(h, e) # 0,
         SizeAt(h, e) < want - SizeAt(h, a)
  PROVE  vmem_heap_realloc(h, p, size) = Second(Claimed(h, a), p, want + Overhead)
BY Zenon DEF vmem_heap_realloc, Realloc, NULL, Second, Opens, Asks, InFrontOf

LEMMA SecondExtends ==
  ASSUME NEW h, NEW p, NEW a, NEW e, Opens(h, p, a, e), NEW want, AtEnd(h, a, e, want)
  PROVE  Second(h, p, want) = [h |-> ExtendedAtEnd(h, a, want), p |-> p]
BY Zenon DEF Second, Realloc, Opens, AtEnd

LEMMA SecondMoves ==
  ASSUME NEW h, NEW p, NEW a, NEW e, Opens(h, p, a, e), NEW want, InFrontOf(h, a, e, want),
         ~ HoleAt(h, e)
  PROVE  Second(h, p, want) = Moved(h, a, want)
BY Zenon DEF Second, Realloc, Opens, InFrontOf

LEMMA SegmentOpens ==
  ASSUME NEW h, NEW S, Sound(h, S), NEW a, a \in UsedIn(h, S), NEW p, p = a + 1,
         NEW e, e = a + SizeAt(h, a)
  PROVE  Opens(h, p, a, e)
<1>1. PICK no \in BOOLEAN : no = FALSE
  OBVIOUS
<1>2. a \in S /\ ~ HoleAt(h, a)
  BY DEF UsedIn
<1>3. PICK size : size = SizeAt(h, a)
  OBVIOUS
<1>4. Tile(h, a, size, no) /\ Fits(a, size) /\ Behind(e, a, size) /\ e \in Nat /\ e < W
  BY <1>1, <1>2, <1>3, SegmentIs
<1>5. a \in Nat /\ W \in Nat /\ e > a + 1
  BY <1>4, TileEnd, Bounds DEF Fits
<1>6. Sub(p, HDR) = a
  <2>1. p - 1 = a /\ p - 1 \in 0 .. W - 1 /\ p \in Int
    BY <1>4, <1>5
  <2> QED BY <2>1, SubIs, Bounds
<1>7. FooterOf(h, a) = e - 1 /\ h.mem[e - 1] = Footer(a)
  BY <1>4, TileEnd
<1>8. Magic(h, a) /\ Magic(h, e - 1)
  BY <1>4, <1>7, CellKinds DEF Magic, Tile, TileAt
<1>9. Add(e - 1, FTR) = e
  <2>1. PICK f \in Nat : f = e - 1
    BY <1>4, <1>5
  <2>2. f + 1 = e /\ f + 1 \in 0 .. W - 1
    BY <1>4, <1>5, <2>1
  <2>3. Add(f, 1) = e
    BY <2>1, <2>2, AddIs
  <2> QED BY <2>1, <2>3, Bounds
<1> QED BY <1>2, <1>6, <1>7, <1>8, <1>9 DEF Opens

\* One call after another.
LEMMA ReallocatedBoth ==
  ASSUME NEW h, NEW S, Sound(h, S), NEW a, a \in UsedIn(h, S), NEW g, NEW S1, NEW few,
         Reallocated(h, S, g, S1, a, a, few), SizeAt(g, a) >= SizeAt(h, a),
         NEW r, NEW S2, NEW b, NEW want, Reallocated(g, S1, r, S2, a, b, want)
  PROVE  Reallocated(h, S, r, S2, a, b, want)
<1>1. /\ Changed(h, S, g, S1, {a}, {a}) /\ Held(h, g, a, a)
      /\ Changed(g, S1, r, S2, {a}, {b}) /\ Held(g, r, a, b)
      /\ SizeAt(r, b) >= want /\ b \in Nat /\ (b = a \/ b \notin UsedIn(g, S1))
  BY DEF Reallocated
<1>2. UsedIn(g, S1) = UsedIn(h, S) /\ Sound(g, S1)
  BY <1>1 DEF Changed
<1>3. Changed(h, S, r, S2, {a}, {b})
  <2>1. UsedIn(r, S2) = (UsedIn(h, S) \ {a}) \cup {b}
    BY <1>1, <1>2 DEF Changed
  <2>2. {a} \subseteq {a} /\ (UsedIn(h, S) \ {a}) \cap {a} = {}
    OBVIOUS
  <2> QED BY <1>1, <2>1, <2>2, ChangedBoth
<1>4. SizeAt(h, a) \in Nat /\ SizeAt(g, a) \in Nat
  BY <1>2, InHeap DEF UsedIn
<1>5. Held(h, r, a, b)
  <2> SUFFICES ASSUME NEW k \in Int, 1 <= k, k <= SizeAt(h, a) - 2 PROVE r.mem[b + k] = h.mem[a + k]
    BY DEF Held
  <2>1. g.mem[a + k] = h.mem[a + k]
    BY <1>1 DEF Held
  <2>2. k <= SizeAt(g, a) - 2
    BY <1>4
  <2>3. r.mem[b + k] = g.mem[a + k]
    BY <1>1, <2>2 DEF Held
  <2> QED BY <2>1, <2>3
<1> QED BY <1>1, <1>2, <1>3, <1>5 DEF Reallocated

\* A hole large enough for more is large enough for less.
LEMMA RoomForLess ==
  ASSUME NEW h, NEW S, Sound(h, S), NEW more \in Nat, NEW less \in Nat, less <= more,
         HasRoom(h, S, more)
  PROVE  HasRoom(h, S, less)
<1>1. ASSUME NEW x \in HolesIn(h, S), SizeAt(h, x) >= more PROVE SizeAt(h, x) >= less
  <2>1. SizeAt(h, x) \in Nat
    BY InHeap DEF HolesIn
  <2> QED BY <1>1, <2>1
<1> QED BY <1>1 DEF HasRoom, HasHole

\* Once the hole behind the segment is taken there is as much room as before.
LEMMA RoomLeft ==
  ASSUME NEW h, NEW S, Sound(h, S), NEW a, a \in UsedIn(h, S), NEW e, e = a + SizeAt(h, a),
         e \in HolesIn(h, S), NEW g, NEW S1, Took(h, S, g, S1, a, e),
         a + SizeAt(g, a) # g.end, NEW real \in Nat, SizeAt(h, e) < real, HasRoom(h, S, real)
  PROVE  HasRoom(g, S1, real)
<1>1. /\ SizeAt(g, a) = SizeAt(h, a) + SizeAt(h, e) /\ g.end = h.end
      /\ HolesIn(g, S1) = HolesIn(h, S) \ {e}
      /\ \A b \in HolesIn(g, S1) : SizeAt(g, b) = SizeAt(h, b)
  BY DEF Took
<1>2. a \in Nat /\ SizeAt(h, a) \in Nat /\ SizeAt(h, e) \in Nat
  BY InHeap DEF UsedIn, HolesIn
<1>3. a + SizeAt(g, a) = e + SizeAt(h, e)
  BY <1>1, <1>2
<1>4. CASE TopIsHole(h, S)
  <2>1. PICK t \in S : HoleAt(h, t) /\ t + SizeAt(h, t) = h.end
    BY <1>4 DEF TopIsHole, HolesIn
  <2>2. t # e
    BY <1>1, <1>3, <2>1
  <2>3. t \in HolesIn(g, S1)
    BY <1>1, <2>1, <2>2 DEF HolesIn
  <2> QED BY <1>1, <2>1, <2>3 DEF HasRoom, TopIsHole, HolesIn
<1>5. CASE HasHole(h, S, real)
  <2>1. PICK x \in HolesIn(h, S) : SizeAt(h, x) >= real
    BY <1>5 DEF HasHole
  <2>2. x # e
    BY <1>2, <2>1
  <2> QED BY <1>1, <2>1, <2>2 DEF HasRoom, HasHole
<1> QED BY <1>4, <1>5 DEF HasRoom

\* What the caller of a realloc sees to.
Asked(h, S, a, p, size) ==
  /\ p = a + 1 /\ size \in Nat /\ size # 0 /\ size + 2 >= SizeAt(h, a)
  /\ a + SizeAt(h, a) = h.end \/ HasRoom(h, S, size + 4)

\* A segment in use gets what is asked for.
LEMMA ReallocEnds ==
  ASSUME NEW h, NEW S, Sound(h, S), NEW a, a \in UsedIn(h, S), NEW p, NEW size,
         Asked(h, S, a, p, size), NEW res, res = vmem_heap_realloc(h, p, size)
  PROVE  Ends(h, S, res, a, size + 2)
<1> SUFFICES \/ NoRoom(res.h, size + 2)
             \/ NoRoom(res.h, size + 4)
             \/ \E S2, b : Reallocated(h, S, res.h, S2, a, b, size + 2) /\ res.p = b + 1
  <2>1. (size + 2) + 2 = size + 4
    BY DEF Asked
  <2> QED BY <2>1 DEF Ends
<1>1. /\ p = a + 1 /\ size \in Nat /\ size # 0 /\ size + 2 >= SizeAt(h, a)
      /\ a + SizeAt(h, a) = h.end \/ HasRoom(h, S, size + 4)
  BY DEF Asked
<1>2. PICK e : e = a + SizeAt(h, a)
  OBVIOUS
<1>3. /\ a \in S /\ ~ HoleAt(h, a) /\ a \in Nat /\ SizeAt(h, a) \in Nat /\ SizeAt(h, a) >= 2
      /\ e \in S \cup {h.end} /\ h.end \in Nat /\ h.state = "ok" /\ Lists(h.index, HolesIn(h, S))
  BY <1>2, InHeap DEF UsedIn, Sound
<1>4. PICK want \in Nat : want = size + 2 /\ want + 2 = size + 4
  BY <1>1
<1>5. Opens(h, p, a, e)
  BY <1>1, <1>2, SegmentOpens
<1>6. Asks(p, size, want)
  BY <1>1, <1>3, <1>4, Bounds DEF Asks
<1>7. CASE SizeAt(h, a) = want
  <2>1. res = [h |-> h, p |-> p]
    <3>1. ~ (SizeAt(h, a) < want) /\ ~ (SizeAt(h, a) > want)
      BY <1>3, <1>7
    <3> QED BY <1>5, <1>6, <1>7, <3>1, ReallocKeeps
  <2>2. Reallocated(h, S, h, S, a, a, want)
    <3>1. Changed(h, S, h, S, {a}, {a})
      BY <1>3 DEF Changed, Kept
    <3>2. Held(h, h, a, a)
      BY DEF Held
    <3> QED BY <1>3, <1>7, <3>1, <3>2 DEF Reallocated
  <2>3. res.h = h /\ res.p = a + 1
    BY <1>1, <2>1
  <2> QED BY <1>4, <2>2, <2>3
<1>8. CASE SizeAt(h, a) # want
  <2>1. SizeAt(h, a) < want /\ ~ (SizeAt(h, a) > want) /\ want >= SizeAt(h, a)
    BY <1>1, <1>3, <1>4, <1>8
  <2>2. CASE e = h.end
    <3>1. AtEnd(h, a, e, want)
      <4>1. e + HDR > h.end /\ ~ (e + HDR <= h.end)
        BY <1>3, <2>2, Bounds
      <4> QED BY <1>8, <2>1, <4>1 DEF AtEnd
    <3>2. PICK r : r = ExtendedAtEnd(h, a, want)
      OBVIOUS
    <3>3. res = [h |-> r, p |-> p]
      BY <1>5, <1>6, <3>1, <3>2, ReallocExtends
    <3>4. \/ NoRoom(r, want)
          \/ \E S2 : Reallocated(h, S, r, S2, a, a, want)
      BY <1>2, <2>1, <2>2, <3>2, ExtendEnds
    <3>5. res.h = r /\ res.p = a + 1
      BY <1>1, <3>3
    <3> QED BY <1>4, <3>4, <3>5
  <2>3. CASE e # h.end
    <3>1. e \in S /\ e \in Nat /\ e < h.end /\ SizeAt(h, e) \in Nat
      BY <1>3, <2>3, InHeap, TopIs
    <3>2. InFrontOf(h, a, e, want)
      <4>1. e + HDR <= h.end /\ ~ (e + HDR > h.end)
        BY <1>3, <3>1, Bounds
      <4> QED BY <1>8, <2>1, <4>1 DEF InFrontOf
    <3>3. HasRoom(h, S, want + 2)
      BY <1>1, <1>2, <1>4, <2>3
    <3>4. CASE ~ HoleAt(h, e)
      <4>1. res = Moved(h, a, want)
        BY <1>5, <1>6, <3>2, <3>4, ReallocMoves
      <4>2. HasRoom(h, S, want)
        <5>1. want + 2 \in Nat /\ want <= want + 2
          OBVIOUS
        <5> QED BY <3>3, <5>1, RoomForLess
      <4>3. Outgrows(h, S, a, want)
        BY <1>2, <1>4, <2>1, <3>1 DEF Outgrows
      <4>4. \/ NoRoom(res.h, want)
            \/ \E S2, b : Reallocated(h, S, res.h, S2, a, b, want) /\ res.p = b + 1
        BY <4>1, <4>2, <4>3, MovedEnds
      <4> QED BY <1>4, <4>4
    <3>5. CASE HoleAt(h, e)
      <4>1. e \in HolesIn(h, S)
        BY <3>1, <3>5 DEF HolesIn
      <4>2. ord_arr_index(h, e) # 0
        BY <1>3, <4>1, IndexOf
      <4>3. PICK g : g = Claimed(h, a)
        OBVIOUS
      <4>4. PICK S1 : Took(h, S, g, S1, a, e)
        BY <1>2, <4>1, <4>3, ClaimEnds
      <4>5. PICK all : all = SizeAt(h, a) + SizeAt(h, e)
        OBVIOUS
      <4>6. /\ Reallocated(h, S, g, S1, a, a, all) /\ SizeAt(g, a) = all /\ g.end = h.end
            /\ \A b \in S1 : b = a + SizeAt(g, a) => ~ HoleAt(g, b)
        BY <4>4, <4>5 DEF Took
      <4>7. CASE SizeAt(h, e) < want - SizeAt(h, a)
        <5>1. res = Second(g, p, want + 2)
          BY <1>5, <1>6, <3>2, <3>5, <4>2, <4>3, <4>7, ReallocRecurs, Bounds
        <5>2. Sound(g, S1) /\ a \in UsedIn(g, S1)
          BY <4>6 DEF Reallocated, Changed
        <5>3. PICK d : d = a + SizeAt(g, a)
          OBVIOUS
        <5>4. d \in S1 \cup {g.end} /\ g.end \in Nat /\ d \in Nat /\ a \in S1
          BY <5>2, <5>3, InHeap DEF UsedIn
        <5>5. Opens(g, p, a, d)
          BY <1>1, <5>2, <5>3, SegmentOpens
        <5>6. PICK more \in Nat : more = want + 2
          OBVIOUS
        <5>7. /\ SizeAt(g, a) < more /\ SizeAt(g, a) # more /\ ~ (SizeAt(g, a) > more)
              /\ more >= SizeAt(g, a) /\ SizeAt(g, a) >= SizeAt(h, a) /\ more >= want
          BY <1>3, <3>1, <4>5, <4>6, <4>7, <5>6
        <5>8. ASSUME NEW r, NEW S2, NEW b, Reallocated(g, S1, r, S2, a, b, more)
              PROVE  Reallocated(h, S, r, S2, a, b, want)
          <6>1. Reallocated(h, S, r, S2, a, b, more)
            BY <4>6, <5>7, <5>8, ReallocatedBoth
          <6>2. SizeAt(r, b) >= want
            <7>1. SizeAt(r, b) \in Nat
              <8>1. b \in S2 /\ Sound(r, S2)
                BY <6>1 DEF Reallocated, Changed, UsedIn
              <8> QED BY <8>1, InHeap
            <7> QED BY <5>7, <6>1, <7>1 DEF Reallocated
          <6> QED BY <6>1, <6>2 DEF Reallocated
        <5>9. CASE d = g.end
          <6>1. AtEnd(g, a, d, more)
            <7>1. d + HDR > g.end /\ ~ (d + HDR <= g.end)
              BY <5>4, <5>9, Bounds
            <7> QED BY <5>7, <7>1 DEF AtEnd
          <6>2. PICK r : r = ExtendedAtEnd(g, a, more)
            OBVIOUS
          <6>3. res = [h |-> r, p |-> p]
            BY <5>1, <5>5, <5>6, <6>1, <6>2, SecondExtends
          <6>4. \/ NoRoom(r, more)
                \/ \E S2 : Reallocated(g, S1, r, S2, a, a, more)
            BY <5>2, <5>3, <5>7, <5>9, <6>2, ExtendEnds
          <6>5. res.h = r /\ res.p = a + 1
            BY <1>1, <6>3
          <6> QED BY <1>4, <5>6, <5>8, <6>4, <6>5
        <5>10. CASE d # g.end
          <6>1. d \in S1 /\ d < g.end /\ ~ HoleAt(g, d)
            BY <4>6, <5>2, <5>3, <5>4, <5>10, TopIs
          <6>2. InFrontOf(g, a, d, more)
            <7>1. d + HDR <= g.end /\ ~ (d + HDR > g.end)
              BY <5>4, <6>1, Bounds
            <7> QED BY <5>7, <7>1 DEF InFrontOf
          <6>3. res = Moved(g, a, more)
            BY <5>1, <5>5, <5>6, <6>1, <6>2, SecondMoves
          <6>4. HasRoom(g, S1, more)
            <7>1. SizeAt(h, e) < more /\ a + SizeAt(g, a) # g.end /\ HasRoom(h, S, more)
              BY <1>3, <3>1, <3>3, <4>7, <5>3, <5>6, <5>10
            <7> QED BY <1>2, <4>1, <4>4, <7>1, RoomLeft
          <6>5. \/ NoRoom(res.h, more)
                \/ \E S2, b : Reallocated(g, S1, res.h, S2, a, b, more) /\ res.p = b + 1
            <7>1. Outgrows(g, S1, a, more)
              BY <5>3, <5>6, <5>7, <6>1 DEF Outgrows
            <7> QED BY <5>2, <6>3, <6>4, <7>1, MovedEnds
          <6>6. ASSUME NEW S2, NEW b, Reallocated(g, S1, res.h, S2, a, b, more), res.p = b + 1
                PROVE  \E S3, c : Reallocated(h, S, res.h, S3, a, c, size + 2) /\ res.p = c + 1
            <7>1. PICK r : r = res.h
              OBVIOUS
            <7>2. Reallocated(h, S, r, S2, a, b, want)
              BY <5>8, <6>6, <7>1
            <7> QED BY <1>4, <6>6, <7>1, <7>2
          <6> QED BY <1>4, <5>6, <6>5, <6>6
        <5> QED BY <5>9, <5>10
      <4>8. CASE ~ (SizeAt(h, e) < want - SizeAt(h, a)) /\ SizeAt(h, e) - (want - SizeAt(h, a)) >= 2
        <5>1. PICK r : r = SplitBehind(h, a, want)
          OBVIOUS
        <5>2. res = [h |-> r, p |-> p]
          BY <1>5, <1>6, <3>2, <3>5, <4>2, <4>8, <5>1, ReallocSplits, Bounds
        <5>3. \E S2 : Reallocated(h, S, r, S2, a, a, want)
          <6>1. want > SizeAt(h, a)
            BY <1>3, <2>1
          <6> QED BY <1>2, <4>1, <4>8, <5>1, <6>1, SplitBehindEnds
        <5>4. res.h = r /\ res.p = a + 1
          BY <1>1, <5>2
        <5> QED BY <1>4, <5>3, <5>4
      <4>9. CASE /\ ~ (SizeAt(h, e) < want - SizeAt(h, a))
                 /\ ~ (SizeAt(h, e) - (want - SizeAt(h, a)) >= 2)
        <5>1. res = [h |-> g, p |-> p]
          BY <1>5, <1>6, <3>2, <3>5, <4>2, <4>3, <4>9, ReallocClaims, Bounds
        <5>2. Reallocated(h, S, g, S1, a, a, want)
          <6>1. SizeAt(g, a) >= want
            BY <1>3, <3>1, <4>5, <4>6, <4>9
          <6> QED BY <4>6, <6>1 DEF Reallocated
        <5>3. res.h = g /\ res.p = a + 1
          BY <1>1, <5>1
        <5> QED BY <1>4, <5>2, <5>3
      <4> QED BY <4>7, <4>8, <4>9
    <3> QED BY <3>4, <3>5
  <2> QED BY <2>2, <2>3
<1> QED BY <1>7, <1>8

-----------------------------------------------------------------------------
(* The clients.                                                            *)

\* The first n cells behind the header a are c's.
Written(h, a, n, c) == n \in Nat /\ \A k \in Int : 1 <= k /\ k <= n => h.mem[a + k] = Data(c)
\* They fit between header and footer.
Room(h, a, n) == n \in Nat /\ SizeAt(h, a) >= n + 2

\* The clients have the segments in use between them, one each.
Mine(l, c) == {a \in Nat : l[c] # NULL /\ l[c].p = a + 1}
Owned(h, S, l) ==
  /\ l = [c \in Clients |-> l[c]]
  /\ \A c \in Clients : l[c] # NULL => l[c].p - 1 \in Mine(l, c)
  /\ \A c \in Clients : \A a \in Mine(l, c) :
       a \in UsedIn(h, S) /\ Room(h, a, l[c].n) /\ Written(h, a, l[c].n, c)
  /\ \A c, d \in Clients : c # d => Mine(l, c) \cap Mine(l, d) = {}
  /\ \A a \in UsedIn(h, S) : \E c \in Clients : a \in Mine(l, c)

\* The segment of a client who does not take part stays its own.
LEMMA StillOwned ==
  ASSUME NEW h, NEW S, Sound(h, S), NEW r, NEW S2, NEW old, NEW new, Changed(h, S, r, S2, old, new),
         NEW a, a \in UsedIn(h, S) \ old, NEW n, NEW c, Room(h, a, n), Written(h, a, n, c)
  PROVE  a \in UsedIn(r, S2) /\ Room(r, a, n) /\ Written(r, a, n, c)
<1>1. Kept(h, r, a) /\ a \in UsedIn(r, S2)
  BY DEF Changed
<1>2. a \in Nat /\ TileAt(h, a) /\ SizeAt(h, a) \in Nat
  BY InHeap DEF UsedIn
<1>3. SizeAt(r, a) = SizeAt(h, a)
  BY <1>1, <1>2, KeptTile
<1>4. n \in Nat /\ SizeAt(h, a) >= n + 2
  BY DEF Room
<1>5. Written(r, a, n, c)
  <2> SUFFICES ASSUME NEW k \in Int, 1 <= k, k <= n PROVE r.mem[a + k] = Data(c)
    BY <1>4 DEF Written
  <2>1. a + k \in a .. a + SizeAt(h, a) - 1
    BY <1>2, <1>4
  <2>2. h.mem[a + k] = Data(c)
    BY DEF Written
  <2> QED BY <1>1, <2>1, <2>2 DEF Kept
<1> QED BY <1>1, <1>3, <1>4, <1>5 DEF Room

\* Client c has the segment b, of which it wrote the first cells, and writes the rest.
LEMMA FilledIs ==
  ASSUME NEW r, NEW S, Sound(r, S), NEW b, b \in UsedIn(r, S), NEW n, Room(r, b, n),
         NEW from, from <= n, NEW c, Written(r, b, from, c), NEW p, p = b + 1,
         NEW g, g = Filled(r, p, from, n, c)
  PROVE  Changed(r, S, g, S, {b}, {b}) /\ Room(g, b, n) /\ Written(g, b, n, c)
<1>1. /\ n \in Nat /\ from \in Nat /\ SizeAt(r, b) >= n + 2
  BY DEF Room, Written
<1>2. b \in Nat /\ SizeAt(r, b) \in Nat /\ b + SizeAt(r, b) <= r.end /\ r.end \in Nat /\ r.end < W
      /\ W \in Nat /\ IsHeap(r)
  BY InHeap, TopIs, Bounds DEF UsedIn, Sound
<1>3. PICK D : D = p + from .. p + n - 1
  OBVIOUS
<1>4. /\ IsHeap(g) /\ g.index = r.index /\ g.end = r.end /\ g.state = r.state
      /\ \A x \in Addr : g.mem[x] = IF x \in D THEN Data(c) ELSE r.mem[x]
  BY <1>2, <1>3 DEF Filled, IsHeap
<1>5. D \subseteq b + 1 .. b + SizeAt(r, b) - 2
  BY <1>1, <1>2, <1>3
<1>6. Wrote(r, g, b + 1 .. b + SizeAt(r, b) - 2)
  BY <1>4, <1>5 DEF Wrote
<1>7. Changed(r, S, g, S, {b}, {b}) /\ SizeAt(g, b) = SizeAt(r, b)
  BY <1>6, WrittenInside
<1>8. Written(g, b, n, c)
  <2> SUFFICES ASSUME NEW k \in Int, 1 <= k, k <= n PROVE g.mem[b + k] = Data(c)
    BY <1>1 DEF Written
  <2>1. PICK x : x = b + k
    OBVIOUS
  <2>2. x \in Addr
    BY <1>1, <1>2, <2>1 DEF Addr
  <2>3. CASE k <= from
    BY <1>4, <2>1, <2>2, <2>3 DEF Written
  <2>4. CASE ~ (k <= from)
    <3>1. x \in D
      BY <1>1, <1>2, <1>3, <2>1, <2>4
    <3> QED BY <1>4, <2>1, <2>2, <3>1
  <2> QED BY <2>3, <2>4
<1>9. Room(g, b, n)
  BY <1>7 DEF Room
<1> QED BY <1>7, <1>8, <1>9

\* Client c gets the segment b in the place of what it had.
LEMMA OwnedHanded ==
  ASSUME NEW h, NEW S, Sound(h, S), NEW l, Owned(h, S, l), NEW c \in Clients,
         NEW r, NEW S2, NEW b, Changed(h, S, r, S2, Mine(l, c), {b}),
         b \in Nat, b \notin UsedIn(h, S) \ Mine(l, c),
         NEW n, Room(r, b, n), NEW from, from <= n, Written(r, b, from, c),
         NEW p, p = b + 1, NEW g, g = Filled(r, p, from, n, c),
         NEW l2, l2 = [l EXCEPT ![c] = [p |-> p, n |-> n]]
  PROVE  Sound(g, S2) /\ Owned(g, S2, l2)
<1>1. Sound(r, S2) /\ b \in UsedIn(r, S2) /\ UsedIn(r, S2) = (UsedIn(h, S) \ Mine(l, c)) \cup {b}
  BY DEF Changed
<1>2. Changed(r, S2, g, S2, {b}, {b}) /\ Room(g, b, n) /\ Written(g, b, n, c)
  BY <1>1, FilledIs
<1>3. Sound(g, S2) /\ UsedIn(g, S2) = UsedIn(r, S2)
  BY <1>1, <1>2 DEF Changed
<1>4. /\ l2 = [d \in Clients |-> l2[d]] /\ l2[c] = [p |-> p, n |-> n]
      /\ \A d \in Clients : d # c => l2[d] = l[d]
  BY DEF Owned
<1>5. l2[c] # NULL /\ l2[c].p = b + 1 /\ l2[c].n = n /\ p # 0 /\ p - 1 = b
  BY <1>4 DEF NULL
<1>6. Mine(l2, c) = {b}
  BY <1>5 DEF Mine
<1>7. \A d \in Clients : d # c => Mine(l2, d) = Mine(l, d)
  BY <1>4 DEF Mine
<1>8. ASSUME NEW d \in Clients, d # c, NEW a \in Mine(l, d)
      PROVE  /\ a \in UsedIn(h, S) \ Mine(l, c) /\ a # b
             /\ a \in UsedIn(g, S2) /\ Room(g, a, l[d].n) /\ Written(g, a, l[d].n, d)
  <2>1. a \in UsedIn(h, S) /\ Room(h, a, l[d].n) /\ Written(h, a, l[d].n, d)
    BY DEF Owned
  <2>2. a \in UsedIn(h, S) \ Mine(l, c)
    BY <1>8, <2>1 DEF Owned
  <2>3. a \in UsedIn(r, S2) /\ Room(r, a, l[d].n) /\ Written(r, a, l[d].n, d)
    BY <2>1, <2>2, StillOwned
  <2>4. a # b
    BY <2>2
  <2>5. a \in UsedIn(g, S2) /\ Room(g, a, l[d].n) /\ Written(g, a, l[d].n, d)
    <3>1. a \in UsedIn(r, S2) \ {b}
      BY <2>3, <2>4
    <3> QED BY <1>1, <1>2, <2>3, <3>1, StillOwned
  <2> QED BY <2>2, <2>4, <2>5
<1>9. \A d \in Clients : l2[d] # NULL => l2[d].p - 1 \in Mine(l2, d)
  <2>1. l2[c].p - 1 \in Mine(l2, c)
    BY <1>4, <1>5, <1>6
  <2> QED BY <1>4, <1>7, <2>1 DEF Owned
<1>10. \A d \in Clients : \A a \in Mine(l2, d) :
         a \in UsedIn(g, S2) /\ Room(g, a, l2[d].n) /\ Written(g, a, l2[d].n, d)
  <2>1. \A a \in Mine(l2, c) :
          a \in UsedIn(g, S2) /\ Room(g, a, l2[c].n) /\ Written(g, a, l2[c].n, c)
    BY <1>1, <1>2, <1>3, <1>5, <1>6
  <2> QED BY <1>4, <1>7, <1>8, <2>1
<1>11. \A d, f \in Clients : d # f => Mine(l2, d) \cap Mine(l2, f) = {}
  <2>1. \A d \in Clients : d # c => b \notin Mine(l2, d)
    BY <1>7, <1>8
  <2> QED BY <1>6, <1>7, <2>1 DEF Owned
<1>12. \A a \in UsedIn(g, S2) : \E d \in Clients : a \in Mine(l2, d)
  <2> SUFFICES ASSUME NEW a \in UsedIn(h, S) \ Mine(l, c) PROVE \E d \in Clients : a \in Mine(l2, d)
    BY <1>1, <1>3, <1>6
  <2>1. PICK d \in Clients : a \in Mine(l, d)
    BY DEF Owned
  <2> QED BY <1>7, <2>1
<1> QED BY <1>3, <1>4, <1>9, <1>10, <1>11, <1>12 DEF Owned

\* Client c gives its segment back.
LEMMA OwnedGiven ==
  ASSUME NEW h, NEW S, Sound(h, S), NEW l, Owned(h, S, l), NEW c \in Clients,
         NEW r, NEW S2, Changed(h, S, r, S2, Mine(l, c), {}),
         NEW l2, l2 = [l EXCEPT ![c] = NULL]
  PROVE  Sound(r, S2) /\ Owned(r, S2, l2)
<1>1. Sound(r, S2) /\ UsedIn(r, S2) = UsedIn(h, S) \ Mine(l, c)
  BY DEF Changed
<1>2. /\ l2 = [d \in Clients |-> l2[d]] /\ l2[c] = NULL
      /\ \A d \in Clients : d # c => l2[d] = l[d]
  BY DEF Owned
<1>3. Mine(l2, c) = {}
  BY <1>2 DEF Mine
<1>4. \A d \in Clients : d # c => Mine(l2, d) = Mine(l, d)
  BY <1>2 DEF Mine
<1>5. ASSUME NEW d \in Clients, d # c, NEW a \in Mine(l, d)
      PROVE  a \in UsedIn(r, S2) /\ Room(r, a, l[d].n) /\ Written(r, a, l[d].n, d)
  <2>1. a \in UsedIn(h, S) /\ Room(h, a, l[d].n) /\ Written(h, a, l[d].n, d)
    BY DEF Owned
  <2>2. a \in UsedIn(h, S) \ Mine(l, c)
    BY <1>5, <2>1 DEF Owned
  <2> QED BY <2>1, <2>2, StillOwned
<1>6. \A d \in Clients : l2[d] # NULL => l2[d].p - 1 \in Mine(l2, d)
  BY <1>2, <1>4 DEF Owned
<1>7. \A d \in Clients : \A a \in Mine(l2, d) :
        a \in UsedIn(r, S2) /\ Room(r, a, l2[d].n) /\ Written(r, a, l2[d].n, d)
  BY <1>2, <1>3, <1>4, <1>5
<1>8. \A d, f \in Clients : d # f => Mine(l2, d) \cap Mine(l2, f) = {}
  BY <1>3, <1>4 DEF Owned
<1>9. \A a \in UsedIn(r, S2) : \E d \in Clients : a \in Mine(l2, d)
  <2> SUFFICES ASSUME NEW a \in UsedIn(h, S) \ Mine(l, c) PROVE \E d \in Clients : a \in Mine(l2, d)
    BY <1>1
  <2>1. PICK d \in Clients : a \in Mine(l, d)
    BY DEF Owned
  <2> QED BY <1>4, <2>1
<1> QED BY <1>1, <1>2, <1>6, <1>7, <1>8, <1>9 DEF Owned

\* What the clients keep to: no allocation, free or realloc of UnsafeToAlloc and
\* UnsafeToFree, no realloc for less, no alignment.
Contract == Careful /\ ~ Shrinking /\ Aligns \subseteq {0}

HeapInv == \E S : Sound(heap, S) /\ Owned(heap, S, live)

\* The allocator met its limit and stopped the kernel.
Full ==
  \E n \in Sizes, over \in {Overhead, 2 * Overhead} : NoRoom(heap, n + over)

LEMMA FullHeap ==
  ASSUME NEW n \in Sizes, NEW h, NoRoom(h, n + 2) \/ NoRoom(h, n + 4), heap' = h
  PROVE  Full'
<1>1. PICK over \in {Overhead, 2 * Overhead} : NoRoom(h, n + over)
  BY Bounds
<1>2. NoRoom(heap', n + over)
  BY <1>1
<1>3. (NoRoom(heap, n + over))'
  BY <1>2 DEF NoRoom
<1> QED BY <1>3 DEF Full

\* The last segment.
LEMMA LastIs ==
  ASSUME NEW S, Sound(heap, S), LastIsHole
  PROVE  TopIsHole(heap, S)
<1>1. heap.end # Start /\ heap.end \in S \cup {heap.end}
  <2>1. Start \in S
    BY DEF Sound, Tiles
  <2> QED BY <2>1, TopIs
<1>2. PICK a \in S : a + SizeAt(heap, a) = heap.end
  BY <1>1 DEF Sound, Tiles
<1>3. a \in Nat /\ SizeAt(heap, a) \in Nat /\ heap.mem[a + SizeAt(heap, a) - 1] = Footer(a)
  BY InHeap DEF TileAt
<1>4. heap.mem[heap.end - 1] = Footer(a)
  BY <1>2, <1>3
<1>5. HoleAt(heap, a)
  BY <1>4, CellKinds, Bounds DEF LastIsHole
<1> QED BY <1>2, <1>5 DEF TopIsHole, HolesIn

LEMMA RoomIs ==
  ASSUME NEW S, Sound(heap, S), NEW n \in Nat, ~ UnsafeToAlloc(n, 0), NEW real, real = n + 2
  PROVE  HasRoom(heap, S, real)
<1>1. real \in Nat /\ n + Overhead = real
  BY Bounds
<1>2. LastIsHole \/ heap.index = <<>> \/ vmem_heap_hole_find(heap, real, 0) # 0
  BY <1>1 DEF UnsafeToAlloc
<1>3. CASE LastIsHole
  BY <1>3, LastIs DEF HasRoom
<1>4. CASE heap.index = <<>>
  <2>1. Lists(heap.index, HolesIn(heap, S))
    BY DEF Sound
  <2> QED BY <1>4, <2>1, ListedSet DEF HasRoom
<1>5. CASE vmem_heap_hole_find(heap, real, 0) # 0
  BY <1>1, <1>5, FindsHole DEF HasRoom
<1> QED BY <1>2, <1>3, <1>4, <1>5

\* The segment of a client.
LEMMA HolderIs ==
  ASSUME NEW S, Sound(heap, S), Owned(heap, S, live), NEW c \in Clients, Holds(c)
  PROVE  \E a : /\ Mine(live, c) = {a} /\ a \in UsedIn(heap, S) /\ a \in Nat /\ live[c].p = a + 1
                /\ live[c].p # 0 /\ Sub(live[c].p, HDR) = a
                /\ Room(heap, a, live[c].n) /\ Written(heap, a, live[c].n, c)
                /\ (EndsHeap(c) <=> a + SizeAt(heap, a) = heap.end)
<1>1. PICK a : a = live[c].p - 1
  OBVIOUS
<1>2. a \in Mine(live, c)
  BY <1>1 DEF Owned, Holds
<1>3. a \in Nat /\ live[c].p = a + 1 /\ live[c].p # 0
  BY <1>2 DEF Mine
<1>4. Mine(live, c) = {a}
  BY <1>2, <1>3 DEF Mine
<1>5. a \in UsedIn(heap, S) /\ Room(heap, a, live[c].n) /\ Written(heap, a, live[c].n, c)
  BY <1>2 DEF Owned
<1>6. PICK e : e = a + SizeAt(heap, a)
  OBVIOUS
<1>7. PICK p : p = live[c].p
  OBVIOUS
<1>8. Opens(heap, p, a, e)
  BY <1>3, <1>5, <1>6, <1>7, SegmentOpens
<1>9. Sub(live[c].p, HDR) = a
  BY <1>7, <1>8 DEF Opens
<1>10. FooterOf(heap, a) + FTR = e
  <2>1. /\ SizeAt(heap, a) \in Nat /\ SizeAt(heap, a) >= 1 /\ a + SizeAt(heap, a) < W
    <3>1. a \in S
      BY <1>5 DEF UsedIn
    <3> QED BY <3>1, InHeap, Bounds
  <2>2. FooterOf(heap, a) = a + SizeAt(heap, a) - 1
    BY <1>3, <2>1, FooterIs
  <2> QED BY <1>3, <1>6, <2>1, <2>2, Bounds
<1>11. EndsHeap(c) <=> a + SizeAt(heap, a) = heap.end
  BY <1>6, <1>9, <1>10 DEF EndsHeap
<1> QED BY <1>3, <1>4, <1>5, <1>9, <1>11

LEMMA InitInv == Init => HeapInv
<1> SUFFICES ASSUME Init PROVE HeapInv
  OBVIOUS
<1>1. PICK empty : empty = [mem |-> [a \in Addr |-> Junk], index |-> <<>>, end |-> FirstEnd,
                            state |-> "ok"]
  OBVIOUS
<1>2. PICK yes \in BOOLEAN : yes = TRUE
  OBVIOUS
<1>3. PICK size \in Nat : size = FirstEnd - Start /\ Start + size = FirstEnd /\ size >= 2
  <2>1. FirstEnd - Start \in Nat /\ Start + (FirstEnd - Start) = FirstEnd /\ FirstEnd - Start >= 2
    BY Bounds
  <2> QED BY <2>1
<1>4. PICK g : g = Segment(empty, Start, size, yes, 0)
  OBVIOUS
<1>5. heap = ord_arr_insert(g, Start) /\ live = [c \in Clients |-> NULL]
  BY <1>1, <1>2, <1>3, <1>4 DEF Init
<1>6. Fits(Start, size) /\ FirstEnd < W /\ FirstEnd \in Nat /\ Start \in Nat /\ Start > 0
  BY <1>3, Bounds DEF Fits
<1>7. IsHeap(empty) /\ empty.state = "ok" /\ empty.end = FirstEnd /\ empty.index = <<>>
      /\ \A x \in Addr : empty.mem[x] = Junk
  BY <1>1 DEF IsHeap
<1>8. /\ Wrote(empty, g, {Start, Start + size - 1}) /\ HeadAt(g, Start, size, yes, 0)
      /\ g.mem[Start + size - 1] = Footer(Start)
  <2>1. yes \in BOOLEAN
    BY <1>2
  <2> QED BY <1>4, <1>6, <1>7, <2>1, SegmentPut
<1>9. TileAt(g, Start) /\ SizeAt(g, Start) = size /\ HoleAt(g, Start)
  <2>1. HoleAt(g, Start) = yes /\ TileAt(g, Start) /\ SizeAt(g, Start) = size
    <3>1. yes \in BOOLEAN
      BY <1>2
    <3> QED BY <1>3, <1>6, <1>8, <3>1, TileMade
  <2> QED BY <1>2, <2>1
<1>10. IsHeap(g) /\ g.index = <<>> /\ g.end = FirstEnd /\ g.state = "ok"
  BY <1>7, <1>8 DEF Wrote
<1>11. Lists(g.index, {})
  BY <1>10 DEF Lists
<1>12. /\ IsHeap(heap) /\ heap.mem = g.mem /\ heap.end = FirstEnd /\ heap.state = "ok"
       /\ Lists(heap.index, {Start})
  <2>1. PICK H : H = {}
    OBVIOUS
  <2>2. PICK a : a = Start
    OBVIOUS
  <2>3. a \in Addr /\ a \notin H /\ Lists(g.index, H)
    BY <1>11, <2>1, <2>2, Bounds DEF Addr
  <2>4. PICK r : r = ord_arr_insert(g, a)
    OBVIOUS
  <2>5. /\ IsHeap(r) /\ r.mem = g.mem /\ r.end = g.end /\ r.state = g.state
        /\ Lists(r.index, H \cup {a})
    BY <1>10, <2>3, <2>4, Inserted
  <2>6. H \cup {a} = {Start} /\ r = heap
    BY <1>5, <2>1, <2>2, <2>4
  <2> QED BY <1>10, <2>5, <2>6
<1>13. TileAt(heap, Start) /\ SizeAt(heap, Start) = size /\ HoleAt(heap, Start)
  BY <1>9, <1>12, SameTile
<1>14. Tiles(heap, {Start}, Start, heap.end)
  BY <1>3, <1>6, <1>12, <1>13, OneTile
<1>15. Apart(heap, {Start})
  <2>1. Start + SizeAt(heap, Start) # Start
    BY <1>3, <1>6, <1>13
  <2> QED BY <2>1 DEF Apart
<1>16. HolesIn(heap, {Start}) = {Start} /\ UsedIn(heap, {Start}) = {}
  BY <1>13 DEF HolesIn, UsedIn
<1>17. heap.mem[Start - 1].k # "footer"
  <2>1. Start - 1 \in Addr /\ Start - 1 \notin {Start, Start + size - 1}
    BY <1>3, <1>6, Bounds DEF Addr
  <2>2. heap.mem[Start - 1] = Junk
    BY <1>7, <1>8, <1>12, <2>1 DEF Wrote
  <2> QED BY <2>2, CellKinds
<1>18. Sound(heap, {Start})
  BY <1>6, <1>12, <1>14, <1>15, <1>16, <1>17, Bounds DEF Sound
<1>19. Owned(heap, {Start}, live)
  BY <1>5, <1>16 DEF Owned, Mine
<1> QED BY <1>18, <1>19 DEF HeapInv

\* A call that returned an allocation, or NULL.
LEMMA ReturnedIs ==
  ASSUME NEW c, NEW res, NEW from, NEW n, Returned(c, res, from, n)
  PROVE  /\ res.h.state # "ok" => heap' = res.h
         /\ res.h.state = "ok" /\ res.p # 0 =>
              /\ heap' = Filled(res.h, res.p, from, n, c)
              /\ live' = [live EXCEPT ![c] = [p |-> res.p, n |-> n]]
         /\ res.h.state = "ok" /\ res.p = 0 =>
              heap' = res.h /\ live' = [live EXCEPT ![c] = NULL]
BY DEF Returned, NULL

\* Client c, who has nothing, gets what it asks for.
LEMMA GetsNew ==
  ASSUME NEW S, Sound(heap, S), Owned(heap, S, live), NEW c \in Clients, ~ Holds(c),
         NEW n \in Nat, HasRoom(heap, S, n + 2), NEW res, res = vmem_heap_alloc(heap, n, 0),
         Returned(c, res, 0, n), n \in Sizes
  PROVE  HeapInv' \/ Full'
<1>0. CASE NoRoom(res.h, n + 2)
  <2>1. heap' = res.h
    BY <1>0, ReturnedIs DEF NoRoom
  <2> QED BY <1>0, <2>1, FullHeap
<1> SUFFICES ASSUME ~ NoRoom(res.h, n + 2) PROVE HeapInv'
  BY <1>0
<1>1. PICK S2 : AllocatedIn(heap, S, n + 2, res, S2)
  BY AllocEnds
<1>2. PICK r : r = res.h
  OBVIOUS
<1>3. PICK p : p = res.p
  OBVIOUS
<1>4. PICK b : b = p - 1
  OBVIOUS
<1>5. /\ b \in Nat /\ p \in Nat /\ p = b + 1 /\ p # 0 /\ b \notin UsedIn(heap, S)
      /\ Changed(heap, S, r, S2, {}, {b}) /\ SizeAt(r, b) >= n + 2
  BY <1>1, <1>2, <1>3, <1>4 DEF AllocatedIn
<1>6. Mine(live, c) = {}
  BY DEF Holds, Mine
<1>7. r.state = "ok"
  BY <1>5 DEF Changed, Sound
<1>8. heap' = Filled(r, p, 0, n, c) /\ live' = [live EXCEPT ![c] = [p |-> p, n |-> n]]
  <2>1. res.h.state = "ok" /\ res.p # 0
    BY <1>2, <1>3, <1>5, <1>7
  <2>2. /\ heap' = Filled(res.h, res.p, 0, n, c)
        /\ live' = [live EXCEPT ![c] = [p |-> res.p, n |-> n]]
    BY <2>1 DEF Returned, NULL
  <2> QED BY <1>2, <1>3, <2>2
<1>9. PICK from \in Nat : from = 0 /\ from <= n
  OBVIOUS
<1>10. Room(r, b, n) /\ Written(r, b, from, c)
  BY <1>5, <1>9 DEF Room, Written
<1>11. PICK g : g = Filled(r, p, from, n, c)
  OBVIOUS
<1>12. PICK l2 : l2 = [live EXCEPT ![c] = [p |-> p, n |-> n]]
  OBVIOUS
<1>13. Changed(heap, S, r, S2, Mine(live, c), {b}) /\ b \notin UsedIn(heap, S) \ Mine(live, c)
  BY <1>5, <1>6
<1>14. Sound(g, S2) /\ Owned(g, S2, l2)
  BY <1>5, <1>9, <1>10, <1>11, <1>12, <1>13, OwnedHanded
<1>15. heap' = g /\ live' = l2
  BY <1>8, <1>9, <1>11, <1>12
<1> QED BY <1>14, <1>15 DEF HeapInv

LEMMA GivesBack ==
  ASSUME NEW S, Sound(heap, S), Owned(heap, S, live), NEW c \in Clients, Holds(c), ~ EndsHeap(c),
         heap' = vmem_heap_free(heap, live[c].p), live' = [live EXCEPT ![c] = NULL]
  PROVE  HeapInv'
<1>1. PICK a : /\ Mine(live, c) = {a} /\ a \in UsedIn(heap, S) /\ live[c].p = a + 1
               /\ a + SizeAt(heap, a) # heap.end
  BY HolderIs
<1>2. PICK e : e = a + SizeAt(heap, a)
  OBVIOUS
<1>3. PICK p : p = live[c].p
  OBVIOUS
<1>4. PICK r : r = vmem_heap_free(heap, p)
  OBVIOUS
<1>5. e \in S
  BY <1>1, <1>2, InHeap DEF UsedIn
<1>6. PICK S2 : Changed(heap, S, r, S2, {a}, {})
  BY <1>1, <1>2, <1>3, <1>4, <1>5, FreeEnds
<1>7. Changed(heap, S, r, S2, Mine(live, c), {})
  BY <1>1, <1>6
<1>8. PICK l2 : l2 = [live EXCEPT ![c] = NULL]
  OBVIOUS
<1>9. Sound(r, S2) /\ Owned(r, S2, l2)
  BY <1>7, <1>8, OwnedGiven
<1>10. heap' = r /\ live' = l2
  BY <1>3, <1>4, <1>8
<1> QED BY <1>9, <1>10 DEF HeapInv

LEMMA Resizes ==
  ASSUME NEW S, Sound(heap, S), Owned(heap, S, live), NEW c \in Clients, Holds(c),
         NEW n \in Nat, n # 0, n + 2 >= SegmentSize(c), EndsHeap(c) \/ HasRoom(heap, S, n + 4),
         NEW res, res = vmem_heap_realloc(heap, live[c].p, n),
         Returned(c, res, Least(n, live[c].n), n), n \in Sizes
  PROVE  HeapInv' \/ Full'
<1>0. CASE NoRoom(res.h, n + 2) \/ NoRoom(res.h, n + 4)
  <2>1. heap' = res.h
    BY <1>0, ReturnedIs DEF NoRoom
  <2> QED BY <1>0, <2>1, FullHeap
<1> SUFFICES ASSUME ~ NoRoom(res.h, n + 2), ~ NoRoom(res.h, n + 4) PROVE HeapInv'
  BY <1>0
<1>1. PICK a : /\ Mine(live, c) = {a} /\ a \in UsedIn(heap, S) /\ a \in Nat /\ live[c].p = a + 1
               /\ Sub(live[c].p, HDR) = a
               /\ Room(heap, a, live[c].n) /\ Written(heap, a, live[c].n, c)
               /\ (EndsHeap(c) <=> a + SizeAt(heap, a) = heap.end)
  BY HolderIs
<1>2. n + 2 >= SizeAt(heap, a)
  BY <1>1 DEF SegmentSize
<1>3. a + SizeAt(heap, a) = heap.end \/ HasRoom(heap, S, n + 4)
  BY <1>1
<1>4. PICK S2, b : Reallocated(heap, S, res.h, S2, a, b, n + 2) /\ res.p = b + 1
  <2>1. PICK p : p = live[c].p
    OBVIOUS
  <2>2. p = a + 1 /\ res = vmem_heap_realloc(heap, p, n)
    BY <1>1, <2>1
  <2>3. Asked(heap, S, a, p, n)
    BY <1>2, <1>3, <2>2 DEF Asked
  <2>4. Ends(heap, S, res, a, n + 2)
    BY <1>1, <2>2, <2>3, ReallocEnds
  <2>5. (n + 2) + 2 = n + 4
    OBVIOUS
  <2> QED BY <2>4, <2>5 DEF Ends
<1>5. PICK r : r = res.h
  OBVIOUS
<1>6. PICK p : p = res.p
  OBVIOUS
<1>7. /\ Changed(heap, S, r, S2, {a}, {b}) /\ SizeAt(r, b) >= n + 2 /\ Held(heap, r, a, b)
      /\ b \in Nat /\ (b = a \/ b \notin UsedIn(heap, S)) /\ p = b + 1 /\ p # 0
  BY <1>4, <1>5, <1>6 DEF Reallocated
<1>8. r.state = "ok"
  BY <1>7 DEF Changed, Sound
<1>9. PICK from : from = Least(n, live[c].n)
  OBVIOUS
<1>10. /\ heap' = Filled(r, p, from, n, c)
       /\ live' = [live EXCEPT ![c] = [p |-> p, n |-> n]]
  <2>1. res.h.state = "ok" /\ res.p # 0
    BY <1>5, <1>6, <1>7, <1>8
  <2>2. /\ heap' = Filled(res.h, res.p, from, n, c)
        /\ live' = [live EXCEPT ![c] = [p |-> res.p, n |-> n]]
    BY <1>9, <2>1 DEF Returned, NULL
  <2> QED BY <1>5, <1>6, <2>2
<1>11. live[c].n \in Nat /\ SizeAt(heap, a) >= live[c].n + 2
  BY <1>1 DEF Room
<1>12. from \in Nat /\ from <= n /\ from <= live[c].n
  BY <1>9, <1>11 DEF Least
<1>13. Room(r, b, n)
  BY <1>7 DEF Room
<1>14. Written(r, b, from, c)
  <2> SUFFICES ASSUME NEW k \in Int, 1 <= k, k <= from PROVE r.mem[b + k] = Data(c)
    BY <1>12 DEF Written
  <2>1. k <= live[c].n
    BY <1>11, <1>12
  <2>2. heap.mem[a + k] = Data(c)
    BY <1>1, <2>1 DEF Written
  <2>3. k <= SizeAt(heap, a) - 2
    <3>1. SizeAt(heap, a) \in Nat
      BY <1>1, InHeap DEF UsedIn
    <3> QED BY <1>11, <2>1, <3>1
  <2>4. r.mem[b + k] = heap.mem[a + k]
    BY <1>7, <2>3 DEF Held
  <2> QED BY <2>2, <2>4
<1>15. PICK g : g = Filled(r, p, from, n, c)
  OBVIOUS
<1>16. PICK l2 : l2 = [live EXCEPT ![c] = [p |-> p, n |-> n]]
  OBVIOUS
<1>17. Changed(heap, S, r, S2, Mine(live, c), {b}) /\ b \notin UsedIn(heap, S) \ Mine(live, c)
  BY <1>1, <1>7
<1>18. Sound(g, S2) /\ Owned(g, S2, l2)
  BY <1>7, <1>12, <1>13, <1>14, <1>15, <1>16, <1>17, OwnedHanded
<1>19. heap' = g /\ live' = l2
  BY <1>10, <1>15, <1>16
<1> QED BY <1>18, <1>19 DEF HeapInv

LEMMA NextInv == Contract /\ HeapInv /\ [Next]_vars => HeapInv' \/ Full'
<1> SUFFICES ASSUME Contract, HeapInv, [Next]_vars PROVE HeapInv' \/ Full'
  OBVIOUS
<1>1. PICK S : Sound(heap, S) /\ Owned(heap, S, live)
  BY DEF HeapInv
<1>2. Careful /\ ~ Shrinking /\ Sizes \subseteq Nat /\ Aligns \subseteq {0}
  BY Bounds DEF Contract
<1>3. ASSUME NEW c \in Clients, Alloc(c) PROVE HeapInv' \/ Full'
  <2>1. ~ Holds(c)
    BY <1>3 DEF Alloc
  <2>2. PICK n \in Sizes, align \in Aligns :
          /\ Careful => ~ UnsafeToAlloc(n, align)
          /\ \E res \in {vmem_heap_alloc(heap, n, align)} : Returned(c, res, 0, n)
    BY <1>3 DEF Alloc
  <2>3. align = 0 /\ n \in Nat
    BY <1>2, <2>2
  <2>4. ~ UnsafeToAlloc(n, 0)
    BY <1>2, <2>2, <2>3
  <2>5. PICK res : res = vmem_heap_alloc(heap, n, 0) /\ Returned(c, res, 0, n)
    BY <2>2, <2>3
  <2>6. PICK real : real = n + 2
    OBVIOUS
  <2>7. HasRoom(heap, S, real)
    BY <1>1, <2>3, <2>4, <2>6, RoomIs
  <2>8. HasRoom(heap, S, n + 2)
    BY <2>6, <2>7
  <2> QED BY <1>1, <2>1, <2>3, <2>5, <2>8, GetsNew
<1>4. ASSUME NEW c \in Clients, Resize(c) PROVE HeapInv' \/ Full'
  <2>1. PICK n \in IF Holds(c) THEN Sizes \cup {0} ELSE Sizes :
          /\ Holds(c) /\ n # 0 => Shrinking \/ n + Overhead >= SegmentSize(c)
          /\ Careful => \/ EndsHeap(c) /\ n # 0
                        \/ ~ EndsHeap(c) /\ ~ UnsafeToAlloc(n + Overhead, 0)
          /\ \E res \in {vmem_heap_realloc(heap, live[c].p, n)} :
               Returned(c, res, Least(n, live[c].n), n)
    BY <1>4 DEF Resize
  <2>2. n \in Nat
    BY <1>2, <2>1
  <2>3. \/ EndsHeap(c) /\ n # 0
        \/ ~ EndsHeap(c) /\ ~ UnsafeToAlloc(n + Overhead, 0)
    BY <1>2, <2>1
  <2>4. PICK res : /\ res = vmem_heap_realloc(heap, live[c].p, n)
                   /\ Returned(c, res, Least(n, live[c].n), n)
    BY <2>1
  <2>5. EndsHeap(c) \/ HasRoom(heap, S, n + 4)
    <3>1. PICK k \in Nat : k = n + Overhead /\ k + 2 = n + 4
      BY <2>2, Bounds
    <3>2. PICK real : real = k + 2
      OBVIOUS
    <3>3. EndsHeap(c) \/ HasRoom(heap, S, real)
      BY <1>1, <2>3, <3>1, <3>2, RoomIs
    <3> QED BY <3>1, <3>2, <3>3
  <2>6. CASE ~ Holds(c)
    <3>1. live[c].p = 0 /\ live[c].n = 0
      BY <2>6 DEF Holds, NULL
    <3>2. res = vmem_heap_alloc(heap, n, 0)
      BY <2>4, <3>1 DEF vmem_heap_realloc, NULL
    <3>3. Returned(c, res, 0, n)
      <4>1. Least(n, live[c].n) = 0
        BY <2>2, <3>1 DEF Least
      <4> QED BY <2>4, <4>1
    <3>4. HasRoom(heap, S, n + 2)
      <4>1. ~ EndsHeap(c)
        BY <2>6 DEF EndsHeap
      <4>2. PICK more \in Nat, less \in Nat : more = n + 4 /\ less = n + 2 /\ less <= more
        BY <2>2
      <4>3. HasRoom(heap, S, more)
        BY <2>5, <4>1, <4>2
      <4>4. HasRoom(heap, S, less)
        BY <1>1, <4>2, <4>3, RoomForLess
      <4> QED BY <4>2, <4>4
    <3>5. n \in Sizes
      BY <2>1, <2>6
    <3> QED BY <1>1, <2>2, <2>6, <3>2, <3>3, <3>4, <3>5, GetsNew
  <2>7. CASE Holds(c) /\ n # 0
    <3>1. n + 2 >= SegmentSize(c)
      BY <1>2, <2>1, <2>7, Bounds
    <3>2. n \in Sizes
      BY <2>1, <2>7
    <3> QED BY <1>1, <2>2, <2>4, <2>5, <2>7, <3>1, <3>2, Resizes
  <2>8. CASE Holds(c) /\ n = 0
    <3>1. live[c].p # 0
      BY <1>1, <2>8, HolderIs
    <3>2. res = [h |-> vmem_heap_free(heap, live[c].p), p |-> 0]
      BY <2>4, <2>8, <3>1 DEF vmem_heap_realloc, NULL
    <3>3. res.h = vmem_heap_free(heap, live[c].p) /\ res.p = 0
      BY <3>2
    <3>4. ~ EndsHeap(c)
      BY <2>3, <2>8
    <3>5. PICK r : r = res.h
      OBVIOUS
    <3>6. r.state = "ok"
      <4>1. PICK a : /\ a \in UsedIn(heap, S) /\ live[c].p = a + 1
                     /\ a + SizeAt(heap, a) # heap.end
        BY <1>1, <2>8, <3>4, HolderIs
      <4>2. PICK e : e = a + SizeAt(heap, a)
        OBVIOUS
      <4>3. PICK p : p = live[c].p
        OBVIOUS
      <4>4. e \in S
        BY <1>1, <4>1, <4>2, InHeap DEF UsedIn
      <4>5. r = vmem_heap_free(heap, p)
        BY <3>3, <3>5, <4>3
      <4>6. PICK S2 : Changed(heap, S, r, S2, {a}, {})
        BY <1>1, <4>1, <4>2, <4>3, <4>4, <4>5, FreeEnds
      <4> QED BY <4>6 DEF Changed, Sound
    <3>7. heap' = vmem_heap_free(heap, live[c].p) /\ live' = [live EXCEPT ![c] = NULL]
      BY <2>4, <3>3, <3>5, <3>6, ReturnedIs
    <3> QED BY <1>1, <2>8, <3>4, <3>7, GivesBack
  <2> QED BY <2>6, <2>7, <2>8
<1>5. ASSUME NEW c \in Clients, Free(c) PROVE HeapInv'
  <2>1. /\ Holds(c) /\ ~ UnsafeToFree(c)
        /\ heap' = vmem_heap_free(heap, live[c].p) /\ live' = [live EXCEPT ![c] = NULL]
    BY <1>2, <1>5 DEF Free
  <2>2. ~ EndsHeap(c)
    BY <2>1 DEF UnsafeToFree
  <2> QED BY <1>1, <2>1, <2>2, GivesBack
<1>6. CASE UNCHANGED vars
  BY <1>6 DEF vars, HeapInv, Sound, Owned
<1> QED BY <1>3, <1>4, <1>5, <1>6 DEF Next

-----------------------------------------------------------------------------
(* The walk over the segments.                                             *)

\* One more step of the walk, and the walk up to some number of steps.
After(h, seen) == seen \cup {IF a >= h.end THEN a ELSE a + SizeAt(h, a) : a \in seen}
Steps(h, n, w) == w = [k \in 0 .. n |-> IF k = 0 THEN {Start} ELSE After(h, w[k - 1])]

LEMMA StepsExist ==
  ASSUME NEW h, NEW n \in Nat
  PROVE  \E w : Steps(h, n, w)
<1> DEFINE Good == {m \in Nat : \E w : Steps(h, m, w)}
<1>1. 0 \in Good
  <2>1. PICK w : w = [k \in 0 .. 0 |-> {Start}]
    OBVIOUS
  <2>2. \A k \in 0 .. 0 : k = 0
    OBVIOUS
  <2>3. w = [k \in 0 .. 0 |-> IF k = 0 THEN {Start} ELSE After(h, w[k - 1])]
    BY <2>1, <2>2
  <2> QED BY <2>3 DEF Steps
<1>2. ASSUME NEW m \in Nat, m \in Good PROVE m + 1 \in Good
  <2>1. PICK w : w = [k \in 0 .. m |-> IF k = 0 THEN {Start} ELSE After(h, w[k - 1])]
    BY <1>2 DEF Steps
  <2>2. PICK v : v = [k \in 0 .. m + 1 |-> IF k <= m THEN w[k] ELSE After(h, w[m])]
    OBVIOUS
  <2>3. ASSUME NEW k \in 0 .. m + 1
        PROVE  v[k] = IF k = 0 THEN {Start} ELSE After(h, v[k - 1])
    <3>1. CASE k = 0
      BY <2>1, <2>2, <3>1
    <3>2. CASE k # 0
      <4>1. k - 1 \in 0 .. m /\ k - 1 <= m /\ k - 1 \in 0 .. m + 1 /\ v[k - 1] = w[k - 1]
        BY <2>2, <3>2
      <4>2. CASE k <= m
        <5>1. k \in 0 .. m /\ v[k] = w[k]
          BY <2>2, <4>2
        <5> QED BY <2>1, <3>2, <4>1, <5>1
      <4>3. CASE ~ (k <= m)
        <5>1. k - 1 = m
          BY <4>1, <4>3
        <5> QED BY <2>2, <3>2, <4>1, <4>3, <5>1
      <4> QED BY <4>2, <4>3
    <3> QED BY <3>1, <3>2
  <2>4. v = [k \in 0 .. m + 1 |-> IF k = 0 THEN {Start} ELSE After(h, v[k - 1])]
    <3>1. v = [k \in 0 .. m + 1 |-> v[k]]
      BY <2>2
    <3> QED BY <2>3, <3>1
  <2> QED BY <2>4 DEF Steps
<1> HIDE DEF Good
<1>3. Nat \subseteq Good
  BY <1>1, <1>2, Induction
<1> QED BY <1>3 DEF Good

LEMMA WalkSteps ==
  \E w : Steps(heap, W, w) /\ Walk = w[(heap.end - Start) \div Overhead]
<1>1. W \in Nat
  BY Bounds
<1>2. PICK w : w = CHOOSE v : Steps(heap, W, v)
  OBVIOUS
<1>3. Steps(heap, W, w)
  BY <1>1, <1>2, StepsExist
<1>4. Walk = w[(heap.end - Start) \div Overhead]
  BY <1>2 DEF Walk, Steps, After
<1> QED BY <1>3, <1>4

LEMMA Halved ==
  ASSUME NEW n \in Nat
  PROVE  \E k \in Nat : k = n \div 2 /\ 2 * k <= n /\ n < 2 * k + 2 /\ k <= n
BY SMTT(30)

\* It comes to every segment and nowhere else.
LEMMA WalkIs ==
  ASSUME NEW S, Sound(heap, S)
  PROVE  Walk = S \cup {heap.end}
<1>1. PICK w : Steps(heap, W, w) /\ Walk = w[(heap.end - Start) \div Overhead]
  BY WalkSteps
<1>2. W \in Nat /\ Start \in Nat /\ heap.end \in Nat /\ heap.end < W /\ Start <= heap.end
  BY TopIs, Bounds
<1>3. PICK n \in Nat : n = heap.end - Start
  <2>1. heap.end - Start \in Nat
    BY <1>2
  <2> QED BY <2>1
<1>4. PICK last \in Nat : last = n \div 2 /\ n < 2 * last + 2 /\ last <= n
  BY <1>3, Halved
<1>5. last \in 0 .. W /\ Walk = w[last]
  BY <1>1, <1>2, <1>3, <1>4, Bounds
<1>6. w[0] = {Start} /\ \A k \in 0 .. W : k # 0 => w[k] = After(heap, w[k - 1])
  <2>1. 0 \in 0 .. W
    BY <1>2
  <2>2. \A k \in 0 .. W : w[k] = IF k = 0 THEN {Start} ELSE After(heap, w[k - 1])
    BY <1>1 DEF Steps
  <2> QED BY <2>1, <2>2
<1>7. /\ Start \in S /\ \A a \in S : a \in Nat /\ a < heap.end /\ a >= Start
      /\ \A a \in S : /\ SizeAt(heap, a) \in Nat /\ SizeAt(heap, a) >= 2
                      /\ a + SizeAt(heap, a) \in S \cup {heap.end}
      /\ \A a \in S \cup {heap.end} : a # Start => \E b \in S : b + SizeAt(heap, b) = a
  <2>1. Start \in S /\ \A a \in S \cup {heap.end} : a # Start => \E b \in S : b + SizeAt(heap, b) = a
    BY DEF Sound, Tiles
  <2>2. \A a \in S : /\ SizeAt(heap, a) \in Nat /\ SizeAt(heap, a) >= 2 /\ a >= Start
                     /\ a + SizeAt(heap, a) \in S \cup {heap.end}
    BY InHeap
  <2> QED BY <2>1, <2>2, TopIs
<1> DEFINE In == {k \in Nat : k <= W => w[k] \subseteq S \cup {heap.end}}
           All == {k \in Nat : k <= W => \A a \in S \cup {heap.end} : a < Start + 2 * k + 2 => a \in w[k]}
<1>8. 0 \in In
  BY <1>6, <1>7
<1>9. ASSUME NEW k \in Nat, k \in In PROVE k + 1 \in In
  <2> SUFFICES ASSUME k + 1 <= W PROVE w[k + 1] \subseteq S \cup {heap.end}
    OBVIOUS
  <2>1. w[k] \subseteq S \cup {heap.end}
    BY <1>2, <1>9
  <2>2. w[k + 1] = After(heap, w[k])
    <3>1. k + 1 \in 0 .. W /\ k + 1 # 0 /\ (k + 1) - 1 = k
      BY <1>2
    <3> QED BY <1>6, <3>1
  <2>3. ASSUME NEW a \in w[k] PROVE (IF a >= heap.end THEN a ELSE a + SizeAt(heap, a)) \in S \cup {heap.end}
    <3>1. a \in S \cup {heap.end}
      BY <2>1
    <3>2. CASE a >= heap.end
      BY <3>1, <3>2
    <3>3. CASE ~ (a >= heap.end)
      <4>1. a \in S
        BY <1>2, <3>1, <3>3
      <4> QED BY <1>7, <3>3, <4>1
    <3> QED BY <3>2, <3>3
  <2> QED BY <2>1, <2>2, <2>3 DEF After
<1>10. 0 \in All
  <2> SUFFICES ASSUME NEW a \in S \cup {heap.end}, a < Start + 2 PROVE a = Start
    BY <1>2, <1>6
  <2> SUFFICES ASSUME a # Start PROVE FALSE
    OBVIOUS
  <2>1. PICK b \in S : b + SizeAt(heap, b) = a
    BY <1>7
  <2> QED BY <1>2, <1>7, <2>1
<1>11. ASSUME NEW k \in Nat, k \in All PROVE k + 1 \in All
  <2> SUFFICES ASSUME k + 1 <= W, NEW a \in S \cup {heap.end}, a < Start + 2 * (k + 1) + 2
               PROVE  a \in w[k + 1]
    OBVIOUS
  <2>1. \A c \in S \cup {heap.end} : c < Start + 2 * k + 2 => c \in w[k]
    BY <1>2, <1>11
  <2>2. w[k + 1] = After(heap, w[k])
    <3>1. k + 1 \in 0 .. W /\ k + 1 # 0 /\ (k + 1) - 1 = k
      BY <1>2
    <3> QED BY <1>6, <3>1
  <2>3. CASE a = Start
    <3>1. a \in w[k]
      BY <1>2, <2>1, <2>3
    <3> QED BY <2>2, <3>1 DEF After
  <2>4. CASE a # Start
    <3>1. PICK b \in S : b + SizeAt(heap, b) = a
      BY <1>7, <2>4
    <3>2. b \in Nat /\ b < heap.end /\ SizeAt(heap, b) \in Nat /\ SizeAt(heap, b) >= 2
      BY <1>7
    <3>3. b \in w[k]
      BY <1>2, <2>1, <3>1, <3>2
    <3>4. ~ (b >= heap.end)
      BY <1>2, <3>2
    <3>5. a \in {IF c >= heap.end THEN c ELSE c + SizeAt(heap, c) : c \in w[k]}
      BY <3>1, <3>3, <3>4
    <3> QED BY <2>2, <3>5 DEF After
  <2> QED BY <2>3, <2>4
<1> HIDE DEF In, All
<1>12. Nat \subseteq In
  BY <1>8, <1>9, Induction
<1>13. Nat \subseteq All
  BY <1>10, <1>11, Induction
<1>14. w[last] \subseteq S \cup {heap.end}
  BY <1>5, <1>12 DEF In
<1>15. S \cup {heap.end} \subseteq w[last]
  <2>1. \A a \in S \cup {heap.end} : a < Start + 2 * last + 2 => a \in w[last]
    BY <1>5, <1>13 DEF All
  <2>2. \A a \in S \cup {heap.end} : a < Start + 2 * last + 2
    BY <1>2, <1>3, <1>4, <1>7
  <2> QED BY <2>1, <2>2
<1> QED BY <1>5, <1>14, <1>15

-----------------------------------------------------------------------------
(* What the runs check.                                                    *)

LEMMA ListedOnce ==
  ASSUME NEW x, NEW H, Lists(x, H)
  PROVE  Len(x) = Cardinality(ToSet(x))
<1>1. ToSet(x) = H
  BY ListedSet
<1>2. x \in Seq(Addr) /\ Len(x) \in Nat
  BY DEF Lists
<1>3. PICK n \in Nat : n = Len(x)
  BY <1>2
<1>4. PICK f : f = [i \in 1 .. n |-> x[i]]
  OBVIOUS
<1>5. f \in [1 .. n -> H]
  BY <1>3, <1>4 DEF Lists
<1>6. \A i, j \in 1 .. n : f[i] = f[j] => i = j
  BY <1>3, <1>4 DEF Lists
<1>7. \A a \in H : \E i \in 1 .. n : f[i] = a
  BY <1>3, <1>4 DEF Lists
<1>8. f \in Bijection(1 .. n, H)
  BY <1>5, <1>6, <1>7 DEF Bijection, Injection, IsInjective, Surjection
<1>9. ExistsBijection(1 .. n, H)
  BY <1>8 DEF ExistsBijection
<1>10. Cardinality(H) = n
  BY <1>9, FS_CountingElements
<1> QED BY <1>1, <1>3, <1>10

\* A stopped kernel takes no more calls.
LEMMA FullStays == Full /\ [Next]_vars => Full'
<1> SUFFICES ASSUME Full, [Next]_vars PROVE Full'
  OBVIOUS
<1>1. heap.state # "ok"
  BY DEF Full, NoRoom
<1>2. UNCHANGED heap
  BY <1>1 DEF Next, Alloc, Resize, Free, vars
<1> QED BY <1>2 DEF Full, NoRoom

LEMMA InvStops == HeapInv \/ Full => StopsOnlyWhenFull
BY DEF HeapInv, Sound, Full, NoRoom, StopsOnlyWhenFull

LEMMA SegmentsAre ==
  ASSUME NEW S, Sound(heap, S)
  PROVE  Segments = S
BY WalkIs, TopIs DEF Segments

LEMMA InvSegments == HeapInv => SegmentsIntact
<1> SUFFICES ASSUME NEW S, Sound(heap, S) PROVE SegmentsIntact
  BY DEF HeapInv
<1>1. Segments = S /\ heap.end \in Walk
  BY WalkIs, SegmentsAre
<1>2. ASSUME NEW a \in S
      PROVE  /\ heap.mem[a].k = "header" /\ SizeAt(heap, a) >= Overhead
             /\ heap.mem[FooterOf(heap, a)] = Footer(a)
  <2>1. /\ a \in Nat /\ SizeAt(heap, a) \in Nat /\ SizeAt(heap, a) >= 2 /\ TileAt(heap, a)
        /\ a + SizeAt(heap, a) <= heap.end /\ heap.end < W /\ heap.end \in Nat /\ W \in Nat
    BY InHeap, TopIs, Bounds
  <2>2. SizeAt(heap, a) >= 1 /\ a + SizeAt(heap, a) < W
    BY <2>1
  <2>3. FooterOf(heap, a) = a + SizeAt(heap, a) - 1
    BY <2>1, <2>2, FooterIs
  <2> QED BY <2>1, <2>3, Bounds DEF TileAt
<1> QED BY <1>1, <1>2 DEF SegmentsIntact

LEMMA InvIndex == HeapInv => IndexIsHoles
<1> SUFFICES ASSUME NEW S, Sound(heap, S), Owned(heap, S, live) PROVE IndexIsHoles
  BY DEF HeapInv
<1>1. Segments = S
  BY SegmentsAre
<1>2. Lists(heap.index, HolesIn(heap, S))
  BY DEF Sound
<1>3. ToSet(heap.index) = {a \in Segments : HoleAt(heap, a)}
  BY <1>1, <1>2, ListedSet DEF HolesIn
<1>4. Len(heap.index) = Cardinality(ToSet(heap.index))
  BY <1>2, ListedOnce
<1>5. \A a \in UsedIn(heap, S) : \E c \in Clients : Holds(c) /\ Sub(live[c].p, HDR) = a
  <2> SUFFICES ASSUME NEW a \in UsedIn(heap, S)
               PROVE  \E c \in Clients : Holds(c) /\ Sub(live[c].p, HDR) = a
    OBVIOUS
  <2>1. PICK c \in Clients : a \in Mine(live, c)
    BY DEF Owned
  <2>2. Holds(c)
    BY <2>1 DEF Mine, Holds
  <2>3. Sub(live[c].p, HDR) = a
    BY <2>1, <2>2, HolderIs
  <2> QED BY <2>2, <2>3
<1>6. \A c \in Clients : Holds(c) => Sub(live[c].p, HDR) \in UsedIn(heap, S)
  BY HolderIs
<1>7. {a \in Segments : ~ HoleAt(heap, a)} = {Sub(live[c].p, HDR) : c \in {d \in Clients : Holds(d)}}
  BY <1>1, <1>5, <1>6 DEF UsedIn
<1> QED BY <1>3, <1>4, <1>7 DEF IndexIsHoles

LEMMA InvPayloads == HeapInv => PayloadsIntact
<1> SUFFICES ASSUME NEW S, Sound(heap, S), Owned(heap, S, live), NEW c \in Clients,
                    NEW x \in live[c].p .. live[c].p + live[c].n - 1
             PROVE  heap.mem[x] = Data(c)
  BY DEF HeapInv, PayloadsIntact
<1>1. Holds(c)
  <2> SUFFICES ASSUME ~ Holds(c) PROVE FALSE
    OBVIOUS
  <2>1. live[c].p = 0 /\ live[c].n = 0
    BY DEF Holds, NULL
  <2> QED BY <2>1
<1>2. PICK a : a \in Nat /\ live[c].p = a + 1 /\ Room(heap, a, live[c].n) /\ Written(heap, a, live[c].n, c)
  BY <1>1, HolderIs
<1>3. live[c].n \in Nat
  BY <1>2 DEF Room
<1>4. PICK k \in Int : k = x - a
  BY <1>2
<1>5. 1 <= k /\ k <= live[c].n /\ a + k = x
  BY <1>2, <1>3, <1>4
<1> QED BY <1>2, <1>5 DEF Written

LEMMA HeapSafe ==
  ASSUME Contract
  PROVE  Spec => [](HeapInv \/ Full)
<1>1. Init => HeapInv
  BY InitInv
<1>2. HeapInv /\ [Next]_vars => HeapInv' \/ Full'
  BY NextInv
<1> QED BY <1>1, <1>2, FullStays, PTL DEF Spec

\* Calls within Contract stop the kernel only where an expansion would pass
\* heap->max: no other assertion of heap.c fails and vmem_heap_free reads nothing
\* behind the end of the heap, however the clients' calls follow each other.
THEOREM HeapStopsOnlyWhenFull ==
  ASSUME Contract
  PROVE  Spec => []StopsOnlyWhenFull
<1>1. HeapInv \/ Full => StopsOnlyWhenFull
  BY InvStops
<1> QED BY <1>1, HeapSafe, PTL

\* Headers and footers tile the heap and agree, as vmem_heap_dump expects.
THEOREM SegmentsStayIntact ==
  ASSUME Contract
  PROVE  Spec => []SegmentsIntact
<1>1. HeapInv \/ Full => SegmentsIntact
  BY InvSegments DEF Full, NoRoom, SegmentsIntact
<1> QED BY <1>1, HeapSafe, PTL

\* The ordered array of vmem_heap_alloc and vmem_heap_free has every hole once and
\* nothing else, and each segment in use has one client.
THEOREM IndexHasHoles ==
  ASSUME Contract
  PROVE  Spec => []IndexIsHoles
<1>1. HeapInv \/ Full => IndexIsHoles
  BY InvIndex DEF Full, NoRoom, IndexIsHoles
<1> QED BY <1>1, HeapSafe, PTL

\* A client finds what it wrote, through the calls of the others and through its
\* own vmem_heap_realloc, which extends, merges, claims or moves the segment.
THEOREM PayloadsStayIntact ==
  ASSUME Contract
  PROVE  Spec => []PayloadsIntact
<1>1. HeapInv \/ Full => PayloadsIntact
  BY InvPayloads DEF Full, NoRoom, PayloadsIntact
<1> QED BY <1>1, HeapSafe, PTL

=============================================================================
