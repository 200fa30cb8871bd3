----------------------------- MODULE VmemProofs -----------------------------
(***************************************************************************)
(* Paging, proved: every frame of memory has at most one use, what the     *)
(* kernel accepts as a pointer of the program is the program's, and pages  *)
(* stay where they are.                                                    *)
(*                                                                         *)
(* The invariant says that there is a function own from frames to owners   *)
(* that fits all directories and tables (Sound); the bitmap marks whatever *)
(* has an owner, and the window's index is right.  Every call of Vmem.tla  *)
(* is shown to be a Step: marked frames keep their owner, the index only   *)
(* learns, pages stay mapped.  The lemmas go up the call graph: an entry,  *)
(* a table, a directory is written; a page is taken; kmalloc grows the     *)
(* heap; the window shows a frame (which calls kmalloc); a table is made   *)
(* (which calls both); the system calls and drivers on top of them.        *)
(* Operators like WithTable name a machine by what differs from another.   *)
(***************************************************************************)
EXTENDS Vmem, Integers, FiniteSetTheorems, WellFoundedInduction, TLAPS

-----------------------------------------------------------------------------
(* The index of the window. *)

\* Entries of the index, and indexes.
MapEntry == [key : Nat, value : Nat]
Maps == [0 .. 1 -> Seq(MapEntry)]
Has(s, f) == H!hashmap_has(s.index, f)
Get(s, f) == H!hashmap_get(s.index, f)

\* What the assumption on the constants says of each.
LEMMA Constants ==
  /\ FrameCount \in Nat \ {0} /\ FirstFrame \in Nat \ {0} /\ WordBits \in Nat \ {0}
  /\ WindowPages \in Nat \ {0} /\ MapBits \in Nat \ {0} /\ T \in Nat \ {0}
  /\ PageRoom \in Nat \ {0} /\ HeapPage \in Nat /\ HeapMax \in Nat
  /\ \A t \in Tables : t \in Nat
BY VmemAssumption

\* A key has a bucket.
LEMMA BucketType ==
  ASSUME NEW key \in Nat
  PROVE  H!Bucket(key) \in 0 .. 1
<1>1. key * WordBits \in Nat
  BY Constants
<1>2. \A n \in Nat : n % 2 \in 0 .. 1
  OBVIOUS
<1> QED BY <1>1, <1>2 DEF H!Bucket

\* A sequence and its elements.
LEMMA SequenceElements ==
  ASSUME NEW S, NEW q \in Seq(S)
  PROVE  /\ Len(q) \in Nat /\ DOMAIN q = 1 .. Len(q)
         /\ \A i \in DOMAIN q : i \in Nat /\ q[i] \in S
OBVIOUS

\* A function whose elements are of S is a sequence over S.
LEMMA SequenceByElements ==
  ASSUME NEW S, NEW n \in Nat, NEW q, DOMAIN q = 1 .. n, q = [i \in DOMAIN q |-> q[i]],
         \A i \in 1 .. n : q[i] \in S
  PROVE  q \in Seq(S)
OBVIOUS

\* hashmap_set: key is there with its value, every other key is as it was.
LEMMA SetMap ==
  ASSUME NEW map \in Maps, NEW key \in Nat, NEW val \in Nat,
         NEW r, r = H!hashmap_set(map, key, val)
  PROVE  /\ r \in Maps
         /\ H!hashmap_has(r, key) /\ H!hashmap_get(r, key) = val
         /\ \A k \in Nat \ {key} : /\ H!hashmap_has(r, k) <=> H!hashmap_has(map, k)
                                   /\ H!hashmap_get(r, k) = H!hashmap_get(map, k)
<1> DEFINE b == H!Bucket(key)
           chain == map[b]
           at == H!Places(map, key)
<1>1. b \in 0 .. 1 /\ chain \in Seq(MapEntry)
  BY BucketType DEF Maps
<1>2. PICK new \in Seq(MapEntry) :
        /\ r = [map EXCEPT ![b] = new]
        /\ \E i \in DOMAIN new : new[i].key = key
        /\ \A i \in DOMAIN new : new[i].key = key => new[i].value = val
        /\ \A i \in Nat : i \in DOMAIN chain /\ chain[i].key # key <=> i \in DOMAIN new /\ new[i].key # key
        /\ \A i \in DOMAIN new : new[i].key # key => new[i] = chain[i]
  <2>1. CASE H!hashmap_has(map, key)
    <3> DEFINE new == [i \in DOMAIN chain |->
                         IF chain[i].key = key THEN [chain[i] EXCEPT !.value = val] ELSE chain[i]]
    <3>1. r = [map EXCEPT ![b] = new]
      BY <2>1 DEF H!hashmap_set
    <3>2. \A i \in DOMAIN chain : chain[i] \in MapEntry
      BY <1>1, SequenceElements
    <3>3. \A i \in DOMAIN chain : new[i] \in MapEntry /\ new[i].key = chain[i].key
      BY <3>2 DEF MapEntry
    <3>4. new \in Seq(MapEntry) /\ DOMAIN new = DOMAIN chain
      <4>1. DOMAIN new = DOMAIN chain /\ new = [i \in DOMAIN new |-> new[i]]
        OBVIOUS
      <4>2. Len(chain) \in Nat /\ DOMAIN chain = 1 .. Len(chain)
        BY <1>1, SequenceElements
      <4> HIDE DEF new, chain
      <4> QED BY <3>3, <4>1, <4>2, SequenceByElements
    <3>5. \E i \in DOMAIN new : new[i].key = key
      BY <2>1, <3>3, <3>4 DEF H!hashmap_has, H!Places
    <3>6. \A i \in DOMAIN new : new[i].key = key => new[i].value = val
      BY <3>2, <3>3 DEF MapEntry
    <3>7. \A i \in DOMAIN new : new[i].key # key => new[i] = chain[i]
      BY <3>3
    <3> HIDE DEF new, chain, b
    <3> QED BY <3>1, <3>3, <3>4, <3>5, <3>6, <3>7
  <2>2. CASE ~ H!hashmap_has(map, key)
    <3> DEFINE e == [key |-> key, value |-> val]
               new == Append(chain, e)
    <3>1. r = [map EXCEPT ![b] = new]
      BY <2>2 DEF H!hashmap_set
    <3>2. \A i \in DOMAIN chain : chain[i].key # key
      BY <2>2 DEF H!hashmap_has, H!Places
    <3>3. e \in MapEntry /\ new \in Seq(MapEntry)
      BY <1>1 DEF MapEntry
    <3>4. /\ DOMAIN new = 1 .. Len(chain) + 1 /\ DOMAIN chain = 1 .. Len(chain)
          /\ Len(chain) \in Nat /\ new[Len(chain) + 1] = e
          /\ \A i \in DOMAIN chain : new[i] = chain[i]
      BY <1>1
    <3>5. e.key = key /\ e.value = val
      OBVIOUS
    <3> HIDE DEF new, chain, b, e
    <3>6. \A i \in DOMAIN new : i \in DOMAIN chain \/ i = Len(chain) + 1
      BY <3>4
    <3>7. \A i \in DOMAIN new : new[i].key = key => new[i].value = val
      BY <3>2, <3>4, <3>5, <3>6
    <3>8. \A i \in Nat : i \in DOMAIN chain /\ chain[i].key # key <=> i \in DOMAIN new /\ new[i].key # key
      BY <3>2, <3>4, <3>5, <3>6
    <3>9. \A i \in DOMAIN new : new[i].key # key => new[i] = chain[i]
      BY <3>4, <3>5, <3>6
    <3>10. \E i \in DOMAIN new : new[i].key = key
      BY <3>4, <3>5
    <3> QED BY <3>1, <3>3, <3>7, <3>8, <3>9, <3>10
  <2> QED BY <2>1, <2>2
<1>3. r \in Maps /\ r[b] = new /\ \A c \in (0 .. 1) \ {b} : r[c] = map[c]
  BY <1>1, <1>2 DEF Maps
<1>4. H!Places(r, key) # {} /\ \A i \in H!Places(r, key) : r[b][i].value = val
  BY <1>2, <1>3 DEF H!Places
<1>5. H!hashmap_has(r, key) /\ H!hashmap_get(r, key) = val
  BY <1>4 DEF H!hashmap_has, H!hashmap_get
<1>6. ASSUME NEW k \in Nat \ {key}
      PROVE  /\ H!hashmap_has(r, k) <=> H!hashmap_has(map, k)
             /\ H!hashmap_get(r, k) = H!hashmap_get(map, k)
  <2> DEFINE c == H!Bucket(k)
  <2>0. c \in 0 .. 1
    BY BucketType
  <2>1. CASE c # b
    <3>1. r[H!Bucket(k)] = map[H!Bucket(k)]
      BY <1>3, <2>0, <2>1
    <3>2. H!Places(r, k) = H!Places(map, k)
      BY <3>1 DEF H!Places
    <3> QED BY <3>1, <3>2 DEF H!hashmap_has, H!hashmap_get
  <2>2. CASE c = b
    <3>1. \A i \in DOMAIN new : i \in Nat
      OBVIOUS
    <3>2. \A i \in DOMAIN chain : i \in Nat
      BY <1>1
    <3>3. H!Places(r, k) = H!Places(map, k)
      BY <1>2, <1>3, <2>2, <3>1, <3>2 DEF H!Places
    <3>4. \A i \in H!Places(r, k) : r[c][i] = map[c][i]
      BY <1>2, <1>3, <2>2 DEF H!Places
    <3>5. CASE H!Places(r, k) = {}
      BY <3>3, <3>5 DEF H!hashmap_has, H!hashmap_get
    <3>6. CASE H!Places(r, k) # {}
      <4>1. (CHOOSE i \in H!Places(r, k) : TRUE) \in H!Places(r, k)
        BY <3>6
      <4>2. (CHOOSE i \in H!Places(r, k) : TRUE) = (CHOOSE i \in H!Places(map, k) : TRUE)
        BY <3>3
      <4> HIDE DEF c, b
      <4>3. r[c][CHOOSE i \in H!Places(r, k) : TRUE]
              = map[c][CHOOSE i \in H!Places(map, k) : TRUE]
        BY <3>4, <4>1, <4>2
      <4> QED BY <3>3, <3>6, <4>3 DEF H!hashmap_has, H!hashmap_get, c
    <3> QED BY <3>5, <3>6
  <2> QED BY <2>1, <2>2
<1> QED BY <1>3, <1>5, <1>6

\* hashmap_create: nothing is there.
LEMMA EmptyMap ==
  /\ H!hashmap_create \in Maps
  /\ \A k \in Nat : ~ H!hashmap_has(H!hashmap_create, k)
<1>1. H!hashmap_create \in Maps
  BY DEF H!hashmap_create, Maps
<1>2. ASSUME NEW k \in Nat PROVE ~ H!hashmap_has(H!hashmap_create, k)
  BY BucketType DEF H!hashmap_create, H!hashmap_has, H!Places
<1> QED BY <1>1, <1>2

-----------------------------------------------------------------------------
(* Numbers. *)

\* A set of numbers has a least element.
LEMMA LeastElement ==
  ASSUME NEW S, S \subseteq Nat, S # {}
  PROVE  \E n \in S : \A k \in S : n <= k
<1> DEFINE Below == {0 .. n : n \in S}
<1>1. Below \subseteq FiniteSubsetsOf(Nat) /\ Below # {}
  <2>1. \A n \in S : IsFiniteSet(0 .. n) /\ 0 .. n \subseteq Nat
    BY FS_Interval
  <2> QED BY <2>1 DEF FiniteSubsetsOf
<1>2. PICK x \in Below : \A y \in Below : ~ (<<y, x>> \in StrictSubsetOrdering(Nat))
  <2> HIDE DEF Below
  <2> QED BY <1>1, FS_StrictSubsetOrderingWellFounded, WFMin, Zenon
<1>3. PICK n \in S : x = 0 .. n
  OBVIOUS
<1>4. ASSUME NEW k \in S, k < n
      PROVE  FALSE
  <2>1. 0 .. k \in Below
    OBVIOUS
  <2>2. 0 .. k \subseteq 0 .. n /\ n \in 0 .. n /\ n \notin 0 .. k /\ 0 .. n \subseteq Nat
    BY <1>4
  <2>3. <<0 .. k, x>> \in StrictSubsetOrdering(Nat)
    BY <1>3, <2>2 DEF StrictSubsetOrdering
  <2> QED BY <1>2, <2>1, <2>3
<1> QED BY <1>3, <1>4

\* Induction, for a set of numbers.
LEMMA Induction ==
  ASSUME NEW Good, 0 \in Good, \A n \in Nat : n \in Good => n + 1 \in Good
  PROVE  Nat \subseteq Good
<1> SUFFICES ASSUME Nat \ Good # {} PROVE FALSE
  OBVIOUS
<1>1. PICK n \in Nat \ Good : \A k \in Nat \ Good : n <= k
  BY LeastElement
<1>2. n - 1 \in Nat /\ n - 1 \in Good
  BY <1>1
<1> QED BY <1>1, <1>2

\* What division and remainder are.
LEMMA Divide ==
  ASSUME NEW n \in Nat \ {0}, NEW v \in Nat
  PROVE  /\ v \div n \in Nat /\ v % n \in 0 .. n - 1
         /\ v = n * (v \div n) + (v % n)
BY SMTT(30)

\* They are the only numbers of that kind.
LEMMA QuotientUnique ==
  ASSUME NEW n \in Nat \ {0}, NEW t \in Nat, NEW i \in 0 .. n - 1,
         NEW u \in Nat, NEW j \in 0 .. n - 1, n * t + i = n * u + j
  PROVE  t = u /\ i = j
<1>1. n * (t - u) = j - i
  BY SMTT(30)
<1>2. CASE t > u
  <2>1. n * (t - u) >= n
    BY <1>2, SMTT(30)
  <2> QED BY <1>1, <2>1
<1>3. CASE u > t
  <2>1. n * (u - t) >= n
    BY <1>3, SMTT(30)
  <2>2. n * (u - t) = i - j
    BY SMTT(30)
  <2> QED BY <2>2, <2>1
<1> QED BY <1>2, <1>3

\* Division keeps the order.
LEMMA QuotientGrows ==
  ASSUME NEW n \in Nat \ {0}, NEW v \in Nat, NEW w \in Nat, v <= w
  PROVE  v \div n <= w \div n
<1>1. SUFFICES ASSUME v \div n > w \div n PROVE FALSE
  BY Divide
<1> DEFINE a == v \div n  b == w \div n
<1>2. a \in Nat /\ b \in Nat /\ a >= b + 1
  BY <1>1, Divide
<1>3. n * a >= n * (b + 1)
  <2> HIDE DEF a, b
  <2> QED BY <1>2, SMTT(30)
<1>4. v >= n * a /\ w < n * b + n
  BY Divide
<1>5. n * (b + 1) = n * b + n
  <2> HIDE DEF a, b
  <2> QED BY <1>2, SMTT(30)
<1> HIDE DEF a, b
<1>6. n * b \in Nat /\ n * a \in Nat
  BY <1>2, SMTT(30)
<1> QED BY <1>3, <1>4, <1>5, <1>6

Slots == 0 .. T - 1

\* Slot i of table t is a page, and these are its parts.
LEMMA PageNumber ==
  ASSUME NEW t \in Tables, NEW i \in Slots
  PROVE  t * T + i \in Nat /\ t * T = T * t /\ TableOf(t * T + i) = t /\ SlotOf(t * T + i) = i
<1> USE Constants
<1>1. t * T \in Nat /\ t * T = T * t /\ i \in Nat
  BY SMTT(30) DEF Slots
<1> DEFINE v == t * T + i
<1>2. v \in Nat
  BY <1>1
<1>3. TableOf(v) \in Nat /\ SlotOf(v) \in Slots /\ v = T * TableOf(v) + SlotOf(v)
  <2> HIDE DEF v
  <2> QED BY <1>2, Divide DEF TableOf, SlotOf, Slots
<1>4. T * t + i = T * TableOf(v) + SlotOf(v)
  BY <1>1, <1>3
<1> HIDE DEF v
<1>5. TableOf(v) = t /\ SlotOf(v) = i
  BY <1>3, <1>4, QuotientUnique DEF Slots
<1> QED BY <1>1, <1>2, <1>5 DEF v

\* Every page has a table and a slot, which it shares with no other, and no page
\* below a page is missing.
LEMMA PageParts ==
  /\ \A v \in Pages : v \in Nat /\ TableOf(v) \in Tables /\ SlotOf(v) \in Slots
  /\ \A v, w \in Pages : TableOf(v) = TableOf(w) /\ SlotOf(v) = SlotOf(w) => v = w
  /\ \A v \in Nat : TableOf(v) \in Tables => v \in Pages
  /\ \A v, w, p \in Nat : w \in Pages /\ p <= w => p \in Pages
<1> USE Constants
<1>1. ASSUME NEW v \in Nat
      PROVE  /\ TableOf(v) \in Nat /\ SlotOf(v) \in Slots
             /\ v = T * TableOf(v) + SlotOf(v)
  BY Divide DEF TableOf, SlotOf, Slots
<1>2. ASSUME NEW t \in Tables, NEW i \in Slots
      PROVE  t * T = T * t /\ TableOf(t * T + i) = t /\ SlotOf(t * T + i) = i /\ t * T + i \in Nat
  BY PageNumber
<1>3. \A v \in Pages : v \in Nat /\ TableOf(v) \in Tables /\ SlotOf(v) \in Slots
  BY <1>2 DEF Pages, Slots
<1>4. \A v, w \in Pages : TableOf(v) = TableOf(w) /\ SlotOf(v) = SlotOf(w) => v = w
  BY <1>1, <1>3
<1>5. ASSUME NEW v \in Nat, TableOf(v) \in Tables
      PROVE  v \in Pages
  <2>1. v = TableOf(v) * T + SlotOf(v)
    BY <1>1, <1>2, <1>5
  <2> QED BY <1>1, <1>5, <2>1 DEF Pages, Slots
<1>6. ASSUME NEW w \in Pages, NEW p \in Nat, p <= w
      PROVE  p \in Pages
  <2>1. TableOf(p) <= TableOf(w)
    BY <1>3, <1>6, QuotientGrows DEF TableOf
  <2>2. TableOf(p) \in 0 .. TableOf(w)
    BY <1>1, <1>3, <2>1
  <2> QED BY <1>3, <1>5, <2>2, VmemAssumption
<1> QED BY <1>3, <1>4, <1>5, <1>6

\* A frame that vmem_frame_find_first finds lies behind the first megabyte, in
\* memory, and was not marked.
LEMMA FoundIsFree ==
  ASSUME NEW bits, HasFree(bits, FirstFrame, FrameCount)
  PROVE  /\ FindFirst(bits, FirstFrame, FrameCount) \in FirstFrame .. FrameCount - 1
         /\ FindFirst(bits, FirstFrame, FrameCount) \notin bits
<1> USE Constants
<1> DEFINE from == (FirstFrame \div WordBits) * WordBits
           to == (FrameCount \div WordBits) * WordBits
           clear == (from .. to - 1) \ bits
<1>1. from = FirstFrame
  <2>1. FirstFrame = WordBits * (FirstFrame \div WordBits) + (FirstFrame % WordBits)
        /\ FirstFrame \div WordBits \in Nat
    BY Divide
  <2>2. WordBits * (FirstFrame \div WordBits) = from
    BY <2>1, SMTT(30)
  <2> QED BY <2>1, <2>2, VmemAssumption
<1>2. to <= FrameCount /\ to \in Nat
  <2>1. /\ FrameCount = WordBits * (FrameCount \div WordBits) + (FrameCount % WordBits)
        /\ FrameCount \div WordBits \in Nat
        /\ FrameCount % WordBits \in 0 .. WordBits - 1
    BY Divide
  <2>2. WordBits * (FrameCount \div WordBits) = to /\ to \in Nat
    BY <2>1, SMTT(30)
  <2> HIDE DEF to
  <2> QED BY <2>1, <2>2
<1>3. clear # {}
  BY DEF HasFree
<1>4. clear \subseteq FirstFrame .. FrameCount - 1
  <2> HIDE DEF from, to
  <2> QED BY <1>1, <1>2
<1>5. FindFirst(bits, FirstFrame, FrameCount) = Min(clear)
  BY <1>3 DEF FindFirst
<1> HIDE DEF clear
<1>6. PICK n \in clear : \A k \in clear : n <= k
  <2>1. clear \subseteq Nat
    BY <1>4
  <2> QED BY <1>3, <2>1, LeastElement
<1>7. Min(clear) \in clear
  BY <1>6 DEF Min
<1> QED BY <1>4, <1>5, <1>7 DEF clear

\* The bitmap of the window has more bits than the window has pages: as long as
\* only pages are marked there is a bit left.
LEMMA WindowPageFound ==
  ASSUME NEW bits, bits \subseteq 0 .. WindowPages - 1
  PROVE  FindFirst(bits, 0, MapBits) \in Nat \ bits
<1> USE Constants
<1> DEFINE to == (MapBits \div WordBits) * WordBits
           clear == (0 .. to - 1) \ bits
<1>1. (0 \div WordBits) * WordBits = 0
  <2>1. 0 \div WordBits \in Nat /\ 0 % WordBits \in Nat
        /\ 0 = WordBits * (0 \div WordBits) + (0 % WordBits)
    BY Divide
  <2>2. WordBits * (0 \div WordBits) = (0 \div WordBits) * WordBits
        /\ WordBits * (0 \div WordBits) \in Nat
    BY <2>1, SMTT(30)
  <2> QED BY <2>1, <2>2
<1>2. to \in Nat /\ WindowPages < to
  <2>1. MapBits \div WordBits \in Nat
    BY Divide
  <2>2. to \in Nat
    BY <2>1, SMTT(30)
  <2> QED BY <2>2, VmemAssumption
<1>3. WindowPages \in clear
  <2> HIDE DEF to
  <2> QED BY <1>2
<1>4. FindFirst(bits, 0, MapBits) = Min(clear)
  BY <1>1, <1>3 DEF FindFirst
<1>5. clear \subseteq Nat
  OBVIOUS
<1> HIDE DEF clear
<1>6. PICK n \in clear : \A k \in clear : n <= k
  BY <1>3, <1>5, LeastElement
<1>7. Min(clear) \in clear
  BY <1>6 DEF Min
<1> QED BY <1>4, <1>5, <1>7 DEF clear

-----------------------------------------------------------------------------
(* What the machine looks like. *)

EntrySet == [frame : Nat, user : BOOLEAN]
DirSet == [Tables -> EntrySet]
TableSet == [Slots -> EntrySet]
Memory == UNION {[F -> DirSet \union TableSet] : F \in SUBSET Nat}
States == {"runs", "out of memory", "heap full", "recursion", "window overrun",
           "kernel overwritten"}
State == [frames : SUBSET Nat, mem : Memory, mapUsed : SUBSET Nat,
          window : [0 .. WindowPages - 1 -> Nat], index : Maps, dma : SUBSET Nat,
          room : Nat, heapEnd : Nat, state : States]

DirNames == {"kernel", "idle", "program"}
DirList == UNION {[D -> [paddr : Nat, pts : Nat]] : D \in SUBSET DirNames}

\* The entry of directory d for table t, and the entry for page v.
TableEntry(s, ds, d, t) == s.mem[ds[d].paddr][t]
PageEntry(s, ds, d, v) == s.mem[TableEntry(s, ds, d, TableOf(v)).frame][SlotOf(v)]
Mapped(s, ds, d, v) ==
  IF TableEntry(s, ds, d, TableOf(v)).frame = 0 THEN 0 ELSE PageEntry(s, ds, d, v).frame

(* What a frame of memory is for: own is a function from frames to owners.   *)

\* A spare frame is marked but nobody uses it.
OwnerSet == [kind : {"none", "spare", "directory", "table", "page", "dma"},
             who : DirNames, at : Nat]
Who(d, t) == IF t \in UserTables THEN d ELSE "kernel"
OwnDir(d) == [kind |-> "directory", who |-> d, at |-> 0]
OwnTable(d, t) == [kind |-> "table", who |-> Who(d, t), at |-> t]
OwnPage(d, v) == [kind |-> "page", who |-> Who(d, TableOf(v)), at |-> v]
Unused(own, f) == own[f].kind \in {"none", "spare"}

\* A directory is owned by its name.
DirOwned(s, ds, own, d) ==
  /\ own[ds[d].paddr] = OwnDir(d)
  /\ ds[d].paddr \in DOMAIN s.mem /\ s.mem[ds[d].paddr] \in DirSet

\* A table is owned by the directory that has it, or the kernel for its half;
\* those of the program's half are the program's, and say so.
TableOwned(s, ds, own, d, t) ==
  LET e == TableEntry(s, ds, d, t)
  IN e.frame # 0 =>
       /\ own[e.frame] = OwnTable(d, t)
       /\ e.frame \in DOMAIN s.mem /\ s.mem[e.frame] \in TableSet
       /\ t \in UserTables => d # "kernel" /\ e.user

\* A page is device memory or owned by the directory that has it.
PageOwned(s, ds, own, d, v) ==
  LET e == PageEntry(s, ds, d, v)
  IN TableEntry(s, ds, d, TableOf(v)).frame # 0 =>
       (e.frame # 0 => e.frame \in Devices \/ own[e.frame] = OwnPage(d, v))

\* The index knows frames that are marked, and a page of the window shows them.
IndexSound(s) ==
  \A f \in Nat : Has(s, f) =>
    /\ f \in s.frames /\ f # 0
    /\ \E w \in s.mapUsed \intersect (0 .. WindowPages - 1) :
         Get(s, f) = MapBase + w /\ s.window[w] = f

\* The pts of a directory is where the window shows it.
DirsShown(s, ds) ==
  \A d \in DOMAIN ds \ {"kernel"} : Has(s, ds[d].paddr) /\ Get(s, ds[d].paddr) = ds[d].pts

\* The machine, its directories, and who owns the frames.
Sound(s, ds, own) ==
  /\ s \in State /\ ds \in DirList /\ own \in [Nat -> OwnerSet]
  /\ "kernel" \in DOMAIN ds /\ ds["kernel"].paddr = KernelPd
  /\ s.heapEnd \in HeapPage .. HeapMax
  /\ IndexSound(s) /\ DirsShown(s, ds)
  /\ \A f \in Nat : own[f].kind # "none" => f \in s.frames
  /\ \A d \in DOMAIN ds : DirOwned(s, ds, own, d)
  /\ \A d \in DOMAIN ds, t \in Tables : TableOwned(s, ds, own, d, t)
  /\ \A d \in DOMAIN ds, v \in Pages : PageOwned(s, ds, own, d, v)
  /\ \A f \in s.dma : own[f].kind = "dma"

\* The types of the entries that the machine reads.
LEMMA EntryTypes ==
  ASSUME NEW s, NEW ds, NEW own, Sound(s, ds, own), NEW d \in DOMAIN ds
  PROVE  /\ ds[d].paddr \in Nat /\ d \in DirNames
         /\ \A t \in Tables : TableEntry(s, ds, d, t) \in EntrySet
         /\ \A v \in Pages : /\ TableEntry(s, ds, d, TableOf(v)) \in EntrySet
                             /\ TableEntry(s, ds, d, TableOf(v)).frame # 0 =>
                                  PageEntry(s, ds, d, v) \in EntrySet
<1>1. ds[d].paddr \in Nat /\ d \in DirNames
  BY DEF Sound, DirList
<1>2. \A t \in Tables : TableEntry(s, ds, d, t) \in EntrySet
  BY DEF Sound, DirOwned, TableEntry, DirSet
<1>3. ASSUME NEW v \in Pages, TableEntry(s, ds, d, TableOf(v)).frame # 0
      PROVE  PageEntry(s, ds, d, v) \in EntrySet
  <2>1. s.mem[TableEntry(s, ds, d, TableOf(v)).frame] \in TableSet
    BY <1>3, PageParts DEF Sound, TableOwned
  <2> QED BY <2>1, PageParts DEF PageEntry, TableSet
<1> QED BY <1>1, <1>2, <1>3, PageParts

\* Bookkeeping that leaves memory alone.
LEMMA Bookkeeping ==
  ASSUME NEW s, NEW ds, NEW own, Sound(s, ds, own), NEW s2 \in State, NEW own2 \in [Nat -> OwnerSet],
         s2.mem = s.mem, s2.heapEnd \in HeapPage .. HeapMax, IndexSound(s2), DirsShown(s2, ds),
         \A f \in Nat : ~ Unused(own, f) => own2[f] = own[f],
         \A f \in Nat : own2[f].kind # "none" => f \in s2.frames,
         \A f \in s2.dma : own2[f].kind = "dma"
  PROVE  /\ Sound(s2, ds, own2)
         /\ \A d \in DOMAIN ds, v \in Pages : Mapped(s2, ds, d, v) = Mapped(s, ds, d, v)
<1>0. \A d \in DOMAIN ds, t \in Tables : TableEntry(s2, ds, d, t) = TableEntry(s, ds, d, t)
  BY DEF TableEntry
<1>1. \A d \in DOMAIN ds, v \in Pages :
        /\ TableEntry(s2, ds, d, TableOf(v)) = TableEntry(s, ds, d, TableOf(v))
        /\ PageEntry(s2, ds, d, v) = PageEntry(s, ds, d, v)
  BY DEF TableEntry, PageEntry
<1>2. \A d \in DOMAIN ds, v \in Pages : Mapped(s2, ds, d, v) = Mapped(s, ds, d, v)
  BY <1>1 DEF Mapped
<1>3. ASSUME NEW d \in DOMAIN ds PROVE DirOwned(s2, ds, own2, d)
  <2>1. DirOwned(s, ds, own, d) /\ ds[d].paddr \in Nat
    BY EntryTypes DEF Sound
  <2> QED BY <2>1 DEF DirOwned, Unused, OwnDir
<1>4. ASSUME NEW d \in DOMAIN ds, NEW t \in Tables PROVE TableOwned(s2, ds, own2, d, t)
  <2>1. TableOwned(s, ds, own, d, t) /\ TableEntry(s, ds, d, t).frame \in Nat
    BY EntryTypes DEF Sound, EntrySet
  <2> QED BY <1>0, <2>1 DEF TableOwned, Unused, OwnTable
<1>5. ASSUME NEW d \in DOMAIN ds, NEW v \in Pages PROVE PageOwned(s2, ds, own2, d, v)
  <2>1. PageOwned(s, ds, own, d, v)
        /\ (TableEntry(s, ds, d, TableOf(v)).frame # 0 => PageEntry(s, ds, d, v).frame \in Nat)
    BY EntryTypes DEF Sound, EntrySet
  <2> QED BY <1>1, <2>1 DEF PageOwned, Unused, OwnPage
<1> QED BY <1>2, <1>3, <1>4, <1>5 DEF Sound

-----------------------------------------------------------------------------
(* Writing memory. *)

\* A directory or a table is replaced.
LEMMA MemoryPut ==
  ASSUME NEW mem \in Memory, NEW x \in DOMAIN mem, NEW c \in DirSet \union TableSet
  PROVE  LET r == [mem EXCEPT ![x] = c]
         IN /\ r \in Memory /\ DOMAIN r = DOMAIN mem /\ r[x] = c
            /\ \A y \in DOMAIN mem \ {x} : r[y] = mem[y]
<1>1. PICK F \in SUBSET Nat : mem \in [F -> DirSet \union TableSet]
  BY DEF Memory
<1> DEFINE r == [mem EXCEPT ![x] = c]
<1>2. r \in [F -> DirSet \union TableSet] /\ DOMAIN r = DOMAIN mem /\ r[x] = c
      /\ \A y \in DOMAIN mem \ {x} : r[y] = mem[y]
  BY <1>1
<1> HIDE DEF r
<1>3. r \in Memory
  BY <1>2 DEF Memory
<1> QED BY <1>2, <1>3 DEF r

\* A directory or a table may be new.
LEMMA MemoryAdd ==
  ASSUME NEW mem \in Memory, NEW x \in Nat, NEW c \in DirSet \union TableSet
  PROVE  LET r == Put(mem, x, c)
         IN /\ r \in Memory /\ DOMAIN r = DOMAIN mem \union {x} /\ r[x] = c
            /\ \A y \in DOMAIN mem \ {x} : r[y] = mem[y]
<1>1. PICK F \in SUBSET Nat : mem \in [F -> DirSet \union TableSet]
  BY DEF Memory
<1> DEFINE r == Put(mem, x, c)
<1>2. r = [y \in DOMAIN mem \union {x} |-> IF y = x THEN c ELSE mem[y]]
  BY DEF Put
<1>3. r \in [F \union {x} -> DirSet \union TableSet]
  BY <1>1, <1>2
<1>4. DOMAIN r = DOMAIN mem \union {x} /\ r[x] = c /\ \A y \in DOMAIN mem \ {x} : r[y] = mem[y]
  BY <1>2
<1>5. F \union {x} \in SUBSET Nat
  OBVIOUS
<1> HIDE DEF r
<1>6. r \in Memory
  BY <1>3, <1>5 DEF Memory
<1> QED BY <1>4, <1>6 DEF r

\* s with e as entry i of the table in frame x.
WithEntry(s, x, i, e) == [s EXCEPT !.mem[x][i] = e]

\* Writing an entry of a directory or a table leaves a machine.
LEMMA StateMem ==
  ASSUME NEW s \in State, NEW x \in DOMAIN s.mem, s.mem[x] \in TableSet,
         NEW i \in Slots, NEW e \in EntrySet
  PROVE  /\ WithEntry(s, x, i, e) \in State
         /\ WithEntry(s, x, i, e) = [s EXCEPT !.mem = [s.mem EXCEPT ![x] = [s.mem[x] EXCEPT ![i] = e]]]
<1> DEFINE c == [s.mem[x] EXCEPT ![i] = e]
           mem2 == [s.mem EXCEPT ![x] = c]
           r == WithEntry(s, x, i, e)
<1>1. c \in DirSet \union TableSet
  BY DEF TableSet
<1>2. s.mem \in Memory
  BY DEF State
<1>3. r = [s EXCEPT !.mem = mem2]
  BY DEF WithEntry
<1> HIDE DEF c
<1>4. mem2 \in Memory
  BY <1>1, <1>2, MemoryPut
<1> HIDE DEF mem2, r
<1>5. r \in State
  BY <1>3, <1>4 DEF State
<1> QED BY <1>3, <1>5 DEF mem2, c, r

\* A page's entry in the table that directory d has for it is written.
LEMMA PutPage ==
  ASSUME NEW s, NEW ds, NEW own, Sound(s, ds, own), NEW d \in DOMAIN ds, NEW v \in Pages,
         NEW x, x = TableEntry(s, ds, d, TableOf(v)).frame, x # 0,
         NEW e \in EntrySet, e.frame # 0,
         e.frame \in Devices \/ own[e.frame] = OwnPage(d, v),
         NEW s2, s2 = WithEntry(s, x, SlotOf(v), e)
  PROVE  /\ Sound(s2, ds, own)
         /\ \A b \in DOMAIN ds : s2.mem[ds[b].paddr] = s.mem[ds[b].paddr]
         /\ Mapped(s2, ds, d, v) = e.frame
         /\ \A b \in DOMAIN ds, w \in Pages :
              \/ Mapped(s2, ds, b, w) = Mapped(s, ds, b, w)
              \/ w = v /\ Mapped(s2, ds, b, w) = e.frame
                 /\ TableEntry(s, ds, b, TableOf(v)).frame = x
                 /\ (TableOf(v) \in UserTables => b = d)
<1>1. /\ x \in DOMAIN s.mem /\ s.mem[x] \in TableSet /\ own[x] = OwnTable(d, TableOf(v))
      /\ TableOf(v) \in Tables /\ SlotOf(v) \in Slots /\ s \in State
  BY PageParts DEF Sound, TableOwned
<1> DEFINE c == [s.mem[x] EXCEPT ![SlotOf(v)] = e]
<1>2. c \in TableSet /\ c[SlotOf(v)] = e /\ \A i \in Slots \ {SlotOf(v)} : c[i] = s.mem[x][i]
  BY <1>1 DEF TableSet
<1>3. /\ s2.mem = [s.mem EXCEPT ![x] = c] /\ s2 \in State
      /\ s2.frames = s.frames /\ s2.mapUsed = s.mapUsed /\ s2.window = s.window
      /\ s2.index = s.index /\ s2.dma = s.dma /\ s2.heapEnd = s.heapEnd
  BY <1>1, StateMem DEF State
<1> HIDE DEF c
<1>4. s2.mem[x] = c /\ DOMAIN s2.mem = DOMAIN s.mem /\ \A y \in DOMAIN s.mem \ {x} : s2.mem[y] = s.mem[y]
  BY <1>1, <1>2, <1>3, MemoryPut DEF State
<1>5. ASSUME NEW b \in DOMAIN ds
      PROVE  s2.mem[ds[b].paddr] = s.mem[ds[b].paddr]
  <2>1. own[ds[b].paddr] = OwnDir(b) /\ ds[b].paddr \in DOMAIN s.mem
    BY DEF Sound, DirOwned
  <2>2. own[ds[b].paddr].kind = "directory" /\ own[x].kind = "table"
    BY <1>1, <2>1 DEF OwnDir, OwnTable
  <2> QED BY <1>4, <2>1, <2>2
<1>6. \A b \in DOMAIN ds, t \in Tables : TableEntry(s2, ds, b, t) = TableEntry(s, ds, b, t)
  BY <1>5 DEF TableEntry
<1>7. ASSUME NEW b \in DOMAIN ds, NEW t \in Tables, TableEntry(s, ds, b, t).frame = x
      PROVE  t = TableOf(v) /\ Who(b, t) = Who(d, t)
  <2>1. own[x] = OwnTable(b, t)
    BY <1>7 DEF Sound, TableOwned
  <2> QED BY <1>1, <2>1 DEF OwnTable
<1>8. ASSUME NEW b \in DOMAIN ds, NEW w \in Pages, TableEntry(s, ds, b, TableOf(w)).frame # 0
      PROVE  \/ PageEntry(s2, ds, b, w) = PageEntry(s, ds, b, w)
             \/ /\ w = v /\ TableEntry(s, ds, b, TableOf(v)).frame = x
                /\ Who(b, TableOf(v)) = Who(d, TableOf(v))
                /\ PageEntry(s2, ds, b, w) = e
  <2> DEFINE y == TableEntry(s, ds, b, TableOf(w)).frame
  <2>1. TableOf(w) \in Tables /\ SlotOf(w) \in Slots
    BY PageParts
  <2>2. TableEntry(s2, ds, b, TableOf(w)).frame = y /\ y \in DOMAIN s.mem
    BY <1>6, <1>8, <2>1 DEF Sound, TableOwned
  <2>3. CASE y # x
    BY <1>4, <2>2, <2>3 DEF PageEntry
  <2>4. CASE y = x /\ SlotOf(w) # SlotOf(v)
    BY <1>2, <1>4, <2>1, <2>2, <2>4 DEF PageEntry
  <2>5. CASE y = x /\ SlotOf(w) = SlotOf(v)
    <3>1. TableOf(w) = TableOf(v) /\ Who(b, TableOf(w)) = Who(d, TableOf(w))
      BY <1>7, <2>1, <2>5
    <3>2. w = v
      BY <2>5, <3>1, PageParts
    <3> QED BY <1>2, <1>4, <2>2, <2>5, <3>1, <3>2 DEF PageEntry
  <2> QED BY <2>3, <2>4, <2>5
<1>9. ASSUME NEW b \in DOMAIN ds, NEW w \in Pages
      PROVE  \/ Mapped(s2, ds, b, w) = Mapped(s, ds, b, w)
             \/ w = v /\ Mapped(s2, ds, b, w) = e.frame
                /\ TableEntry(s, ds, b, TableOf(v)).frame = x
                /\ (TableOf(v) \in UserTables => b = d)
  <2>1. TableEntry(s2, ds, b, TableOf(w)) = TableEntry(s, ds, b, TableOf(w))
    BY <1>6, PageParts
  <2>2. CASE TableEntry(s, ds, b, TableOf(w)).frame = 0
    BY <2>1, <2>2 DEF Mapped
  <2>3. CASE TableEntry(s, ds, b, TableOf(w)).frame # 0
    BY <1>8, <2>1, <2>3 DEF Mapped, Who
  <2> QED BY <2>2, <2>3
<1>10. Mapped(s2, ds, d, v) = e.frame
  <2>1. PageEntry(s2, ds, d, v) = e
    BY <1>1, <1>2, <1>4, <1>6 DEF PageEntry
  <2> QED BY <1>1, <1>6, <2>1 DEF Mapped
<1>11. ASSUME NEW b \in DOMAIN ds
       PROVE  DirOwned(s2, ds, own, b)
  BY <1>4, <1>5 DEF Sound, DirOwned
<1>12. ASSUME NEW b \in DOMAIN ds, NEW t \in Tables
       PROVE  TableOwned(s2, ds, own, b, t)
  <2> DEFINE y == TableEntry(s, ds, b, t).frame
  <2>1. CASE y = 0
    BY <1>6, <2>1 DEF TableOwned
  <2>2. CASE y # 0
    <3>1. y \in DOMAIN s.mem /\ s.mem[y] \in TableSet /\ TableOwned(s, ds, own, b, t)
      BY <2>2 DEF Sound, TableOwned
    <3>2. s2.mem[y] \in TableSet /\ y \in DOMAIN s2.mem
      BY <1>2, <1>4, <3>1
    <3> QED BY <1>6, <3>1, <3>2 DEF TableOwned
  <2> QED BY <2>1, <2>2
<1>13. ASSUME NEW b \in DOMAIN ds, NEW w \in Pages
       PROVE  PageOwned(s2, ds, own, b, w)
  <2>1. TableEntry(s2, ds, b, TableOf(w)) = TableEntry(s, ds, b, TableOf(w))
    BY <1>6, PageParts
  <2>2. PageOwned(s, ds, own, b, w)
    BY DEF Sound
  <2>3. CASE TableEntry(s, ds, b, TableOf(w)).frame = 0
    BY <2>1, <2>3 DEF PageOwned
  <2>4. CASE TableEntry(s, ds, b, TableOf(w)).frame # 0
    BY <1>8, <2>1, <2>2, <2>4 DEF PageOwned, OwnPage
  <2> QED BY <2>3, <2>4
<1>14. IndexSound(s2) /\ DirsShown(s2, ds)
  BY <1>3 DEF Sound, IndexSound, DirsShown, Has, Get
<1> QED BY <1>3, <1>5, <1>9, <1>10, <1>11, <1>12, <1>13, <1>14 DEF Sound

\* A cleared table and a cleared directory.
LEMMA BlankTypes ==
  /\ Empty \in EntrySet /\ Blank \in TableSet /\ BlankDir \in DirSet
  /\ \A i \in Slots : Blank[i] = Empty
BY DEF Empty, EntrySet, Blank, BlankDir, TableSet, DirSet, Slots

\* Who owns the frames of directories and tables.
LEMMA OwnKinds ==
  ASSUME NEW s, NEW ds, NEW own, Sound(s, ds, own), NEW d \in DOMAIN ds
  PROVE  /\ own[ds[d].paddr].kind = "directory" /\ own[ds[d].paddr].who = d
         /\ \A t \in Tables : TableEntry(s, ds, d, t).frame # 0 =>
              own[TableEntry(s, ds, d, t).frame].kind = "table"
<1>1. own[ds[d].paddr] = OwnDir(d)
  BY DEF Sound, DirOwned
<1>2. \A t \in Tables : TableEntry(s, ds, d, t).frame # 0 =>
        own[TableEntry(s, ds, d, t).frame] = OwnTable(d, t)
  BY DEF Sound, TableOwned
<1>3. OwnDir(d).kind = "directory" /\ OwnDir(d).who = d
  BY DEF OwnDir
<1>4. \A t \in Tables : OwnTable(d, t).kind = "table"
  BY DEF OwnTable
<1> QED BY <1>1, <1>2, <1>3, <1>4

\* own with o as the owner of f.
Owned(own, f, o) == [own EXCEPT ![f] = o]

\* s with a cleared table in frame f, for entry t of the directory in frame pd.
WithTable(s, pd, t, f, user) ==
  [s EXCEPT !.mem = [Put(@, f, Blank) EXCEPT ![pd][t] = Entry(f, user)]]

\* A cleared table takes a frame nobody uses.
LEMMA PutTable ==
  ASSUME NEW s, NEW ds, NEW own, Sound(s, ds, own), NEW d \in DOMAIN ds, NEW t \in Tables,
         TableEntry(s, ds, d, t).frame = 0,
         NEW f \in Nat \ {0}, Unused(own, f), f \in s.frames,
         NEW user \in BOOLEAN, t \in UserTables => user /\ d # "kernel",
         NEW s2, s2 = WithTable(s, ds[d].paddr, t, f, user),
         NEW own2, own2 = Owned(own, f, OwnTable(d, t))
  PROVE  /\ Sound(s2, ds, own2)
         /\ \A b \in DOMAIN ds, v \in Pages : Mapped(s2, ds, b, v) = Mapped(s, ds, b, v)
         /\ TableEntry(s2, ds, d, t) = Entry(f, user)
         /\ \A b \in DOMAIN ds, u \in Tables :
              b # d \/ u # t => TableEntry(s2, ds, b, u) = TableEntry(s, ds, b, u)
<1> DEFINE pd == ds[d].paddr
           mem1 == Put(s.mem, f, Blank)
           c == [s.mem[pd] EXCEPT ![t] = Entry(f, user)]
<1>1. own \in [Nat -> OwnerSet] /\ s \in State
  BY DEF Sound
<1>2. \A b \in DOMAIN ds : ds[b].paddr # f /\ ds[b].paddr \in Nat /\ b \in DirNames
  <2>1. ASSUME NEW b \in DOMAIN ds PROVE own[ds[b].paddr].kind = "directory"
    BY OwnKinds
  <2> QED BY <2>1, EntryTypes DEF Unused
<1>3. \A b \in DOMAIN ds, u \in Tables : TableEntry(s, ds, b, u).frame # f \/ TableEntry(s, ds, b, u).frame = 0
  <2>1. ASSUME NEW b \in DOMAIN ds, NEW u \in Tables, TableEntry(s, ds, b, u).frame # 0
        PROVE own[TableEntry(s, ds, b, u).frame].kind = "table"
    BY <2>1, OwnKinds
  <2> QED BY <2>1 DEF Unused
<1>4. /\ pd \in DOMAIN s.mem /\ s.mem[pd] \in DirSet
  BY DEF Sound, DirOwned
<1>5. /\ mem1 \in Memory /\ DOMAIN mem1 = DOMAIN s.mem \union {f} /\ mem1[f] = Blank
      /\ \A y \in DOMAIN s.mem \ {f} : mem1[y] = s.mem[y]
  <2>1. s.mem \in Memory /\ Blank \in DirSet \union TableSet
    BY <1>1, BlankTypes DEF State
  <2> QED BY <2>1, MemoryAdd
<1>6. Entry(f, user) \in EntrySet /\ Entry(f, user).frame = f /\ Entry(f, user).user = user
  BY DEF Entry, EntrySet
<1>7. c \in DirSet /\ c[t] = Entry(f, user) /\ \A u \in Tables \ {t} : c[u] = s.mem[pd][u]
  BY <1>4, <1>6 DEF DirSet
<1>8. mem1[pd] = s.mem[pd]
  BY <1>2, <1>4, <1>5
<1>9. /\ s2.mem = [mem1 EXCEPT ![pd] = c] /\ s2 \in State
      /\ s2.frames = s.frames /\ s2.mapUsed = s.mapUsed /\ s2.window = s.window
      /\ s2.index = s.index /\ s2.dma = s.dma /\ s2.heapEnd = s.heapEnd
  <2> DEFINE mem2 == [mem1 EXCEPT ![pd] = c]
  <2>1. s2 = [s EXCEPT !.mem = [mem1 EXCEPT ![pd][t] = Entry(f, user)]]
    BY <1>1 DEF WithTable, State
  <2>2. [mem1 EXCEPT ![pd][t] = Entry(f, user)] = mem2
    BY <1>8
  <2>3. mem2 \in Memory
    <3>1. pd \in DOMAIN mem1 /\ c \in DirSet \union TableSet /\ mem1 \in Memory
      BY <1>4, <1>5, <1>7
    <3> HIDE DEF mem1, c, pd
    <3> QED BY <3>1, MemoryPut
  <2>4. s2 = [s EXCEPT !.mem = mem2]
    BY <2>1, <2>2
  <2> HIDE DEF mem2
  <2>5. /\ s2.mem = mem2 /\ s2 \in State
        /\ s2.frames = s.frames /\ s2.mapUsed = s.mapUsed /\ s2.window = s.window
        /\ s2.index = s.index /\ s2.dma = s.dma /\ s2.heapEnd = s.heapEnd
    BY <1>1, <2>3, <2>4 DEF State
  <2> QED BY <2>5 DEF mem2
<1> HIDE DEF mem1, c
<1>10. /\ s2.mem[pd] = c /\ s2.mem[f] = Blank /\ DOMAIN s2.mem = DOMAIN s.mem \union {f}
       /\ \A y \in DOMAIN s.mem \ {f, pd} : s2.mem[y] = s.mem[y]
  <2>1. /\ s2.mem[pd] = c /\ DOMAIN s2.mem = DOMAIN mem1
        /\ \A y \in DOMAIN mem1 \ {pd} : s2.mem[y] = mem1[y]
    <3>1. pd \in DOMAIN mem1 /\ c \in DirSet \union TableSet
      BY <1>4, <1>5, <1>7
    <3>2. mem1 \in Memory
      BY <1>5
    <3> HIDE DEF pd
    <3>3. LET r == [mem1 EXCEPT ![pd] = c]
          IN /\ DOMAIN r = DOMAIN mem1 /\ r[pd] = c
             /\ \A y \in DOMAIN mem1 \ {pd} : r[y] = mem1[y]
      BY <3>1, <3>2, MemoryPut
    <3> QED BY <1>9, <3>3
  <2> QED BY <1>2, <1>4, <1>5, <2>1
<1>11. ASSUME NEW b \in DOMAIN ds, b # d
       PROVE  s2.mem[ds[b].paddr] = s.mem[ds[b].paddr] /\ ds[b].paddr # pd
  <2>1. own[ds[b].paddr].who = b /\ own[pd].who = d /\ ds[b].paddr \in DOMAIN s.mem
    BY OwnKinds DEF Sound, DirOwned
  <2> QED BY <1>2, <1>10, <1>11, <2>1
<1>12. TableEntry(s2, ds, d, t) = Entry(f, user)
  BY <1>7, <1>10 DEF TableEntry
<1>13. \A b \in DOMAIN ds, u \in Tables :
         b # d \/ u # t => TableEntry(s2, ds, b, u) = TableEntry(s, ds, b, u)
  BY <1>7, <1>10, <1>11 DEF TableEntry
<1>14. ASSUME NEW b \in DOMAIN ds, NEW u \in Tables, TableEntry(s, ds, b, u).frame # 0
       PROVE  LET y == TableEntry(s, ds, b, u).frame
              IN /\ s2.mem[y] = s.mem[y] /\ y \in DOMAIN s2.mem /\ y # f
                 /\ s.mem[y] \in TableSet /\ TableEntry(s2, ds, b, u) = TableEntry(s, ds, b, u)
  <2> DEFINE y == TableEntry(s, ds, b, u).frame
  <2>1. y \in DOMAIN s.mem /\ s.mem[y] \in TableSet /\ own[y].kind = "table"
    BY <1>14, OwnKinds DEF Sound, TableOwned
  <2>2. own[pd].kind = "directory"
    BY OwnKinds
  <2>3. b # d \/ u # t
    BY <1>14
  <2> QED BY <1>3, <1>10, <1>13, <1>14, <2>1, <2>2, <2>3
<1>15. own2 \in [Nat -> OwnerSet] /\ own2[f] = OwnTable(d, t) /\ \A y \in Nat \ {f} : own2[y] = own[y]
  <2>1. OwnTable(d, t) \in OwnerSet
    BY <1>2, Constants DEF OwnTable, OwnerSet, Who, DirNames
  <2> QED BY <1>1, <2>1 DEF Owned
<1>16. \A y \in Nat : ~ Unused(own, y) => own2[y] = own[y] /\ y # f
  BY <1>15
<1>17. ASSUME NEW b \in DOMAIN ds, NEW v \in Pages, TableEntry(s, ds, b, TableOf(v)).frame # 0
       PROVE  /\ TableEntry(s2, ds, b, TableOf(v)) = TableEntry(s, ds, b, TableOf(v))
              /\ PageEntry(s2, ds, b, v) = PageEntry(s, ds, b, v)
  BY <1>14, <1>17, PageParts DEF PageEntry
<1>18. ASSUME NEW v \in Pages, TableOf(v) = t
       PROVE  PageEntry(s2, ds, d, v) = Empty
  <2>1. TableEntry(s2, ds, d, TableOf(v)).frame = f
    BY <1>6, <1>12, <1>18
  <2>2. SlotOf(v) \in Slots
    BY PageParts
  <2> QED BY <1>10, <2>1, <2>2, BlankTypes DEF PageEntry
<1>19. ASSUME NEW b \in DOMAIN ds, NEW v \in Pages
       PROVE  Mapped(s2, ds, b, v) = Mapped(s, ds, b, v)
  <2>1. CASE TableEntry(s, ds, b, TableOf(v)).frame # 0
    BY <1>17, <2>1 DEF Mapped
  <2>2. CASE TableEntry(s, ds, b, TableOf(v)).frame = 0 /\ (b # d \/ TableOf(v) # t)
    BY <1>13, <2>2, PageParts DEF Mapped
  <2>3. CASE b = d /\ TableOf(v) = t
    BY <1>6, <1>12, <1>18, <2>3 DEF Mapped, Empty
  <2> QED BY <2>1, <2>2, <2>3
<1>20. ASSUME NEW b \in DOMAIN ds
       PROVE  DirOwned(s2, ds, own2, b)
  <2>1. own[ds[b].paddr] = OwnDir(b) /\ s.mem[ds[b].paddr] \in DirSet /\ ds[b].paddr \in DOMAIN s.mem
    BY DEF Sound, DirOwned
  <2>2. own2[ds[b].paddr] = OwnDir(b)
    BY <1>2, <1>15, <2>1
  <2>3. s2.mem[ds[b].paddr] \in DirSet
    BY <1>7, <1>10, <1>11, <2>1
  <2> QED BY <1>10, <2>1, <2>2, <2>3 DEF DirOwned
<1>21. ASSUME NEW b \in DOMAIN ds, NEW u \in Tables
       PROVE  TableOwned(s2, ds, own2, b, u)
  <2>1. CASE b = d /\ u = t
    <3>1. TableEntry(s2, ds, b, u).frame = f /\ TableEntry(s2, ds, b, u).user = user
      BY <1>6, <1>12, <2>1
    <3> QED BY <1>10, <1>15, <2>1, <3>1, BlankTypes DEF TableOwned
  <2>2. CASE (b # d \/ u # t) /\ TableEntry(s, ds, b, u).frame = 0
    BY <1>13, <2>2 DEF TableOwned
  <2>3. CASE TableEntry(s, ds, b, u).frame # 0
    <3>1. TableOwned(s, ds, own, b, u) /\ TableEntry(s, ds, b, u).frame \in Nat
      BY EntryTypes DEF Sound, EntrySet
    <3> QED BY <1>14, <1>15, <2>3, <3>1 DEF TableOwned
  <2> QED BY <2>1, <2>2, <2>3
<1>22. ASSUME NEW b \in DOMAIN ds, NEW v \in Pages
       PROVE  PageOwned(s2, ds, own2, b, v)
  <2>1. CASE TableEntry(s, ds, b, TableOf(v)).frame # 0
    <3>1. PageOwned(s, ds, own, b, v) /\ PageEntry(s, ds, b, v).frame \in Nat
      BY <2>1, EntryTypes DEF Sound, EntrySet
    <3>2. own[PageEntry(s, ds, b, v).frame] = OwnPage(b, v) => own2[PageEntry(s, ds, b, v).frame] = OwnPage(b, v)
      BY <1>16, <3>1 DEF Unused, OwnPage
    <3> QED BY <1>17, <2>1, <3>1, <3>2 DEF PageOwned
  <2>2. CASE TableEntry(s, ds, b, TableOf(v)).frame = 0 /\ (b # d \/ TableOf(v) # t)
    BY <1>13, <2>2, PageParts DEF PageOwned
  <2>3. CASE b = d /\ TableOf(v) = t
    BY <1>18, <2>3 DEF PageOwned, Empty
  <2> QED BY <2>1, <2>2, <2>3
<1>23. IndexSound(s2) /\ DirsShown(s2, ds)
  BY <1>9 DEF Sound, IndexSound, DirsShown, Has, Get
<1>24. \A y \in Nat : own2[y].kind # "none" => y \in s2.frames
  BY <1>9, <1>15 DEF Sound
<1>25. \A y \in s2.dma : own2[y].kind = "dma"
  <2>1. \A y \in s.dma : y \in Nat /\ own[y].kind = "dma"
    BY <1>1 DEF Sound, State
  <2> QED BY <1>9, <1>16, <2>1 DEF Unused
<1> QED BY <1>9, <1>12, <1>13, <1>15, <1>19, <1>20, <1>21, <1>22, <1>23, <1>24, <1>25 DEF Sound

\* s with a directory in frame f.
WithDir(s, f, dir) == [s EXCEPT !.mem = Put(@, f, dir)]

\* The kernel's tables, linked; and a directory's name.
LinkedDir(s) == [t \in DOMAIN BlankDir |-> IF t \in KernelTables THEN s.mem[KernelPd][t] ELSE Empty]
WithName(ds, d, f, pts) == Put(ds, d, [paddr |-> f, pts |-> pts])

\* A new directory, with the kernel's tables linked, takes a frame nobody uses.
LEMMA PutDir ==
  ASSUME NEW s, NEW ds, NEW own, Sound(s, ds, own), NEW d \in DirNames \ DOMAIN ds,
         NEW f \in Nat, Unused(own, f), Has(s, f), f \in s.frames,
         NEW linked, linked = LinkedDir(s),
         NEW s2, s2 = WithDir(s, f, linked),
         NEW ds2, ds2 = WithName(ds, d, f, Get(s, f)),
         NEW own2, own2 = Owned(own, f, OwnDir(d))
  PROVE  /\ Sound(s2, ds2, own2)
         /\ \A b \in DOMAIN ds, v \in Pages : Mapped(s2, ds2, b, v) = Mapped(s, ds, b, v)
<1>1. own \in [Nat -> OwnerSet] /\ s \in State /\ ds \in DirList
      /\ "kernel" \in DOMAIN ds /\ ds["kernel"].paddr = KernelPd
  BY DEF Sound
<1>2. /\ DOMAIN ds2 = DOMAIN ds \union {d} /\ ds2[d] = [paddr |-> f, pts |-> Get(s, f)]
      /\ ds2[d].paddr = f /\ ds2[d].pts = Get(s, f)
      /\ \A b \in DOMAIN ds : ds2[b] = ds[b]
  BY DEF Put, WithName
<1>3. \A b \in DOMAIN ds : ds[b].paddr # f /\ ds[b].paddr \in Nat /\ b \in DirNames
  <2>1. ASSUME NEW b \in DOMAIN ds PROVE own[ds[b].paddr].kind = "directory"
    BY OwnKinds
  <2> QED BY <2>1, EntryTypes DEF Unused
<1>4. linked \in DirSet
  <2>1. s.mem[KernelPd] \in DirSet /\ DOMAIN BlankDir = Tables
    BY <1>1 DEF Sound, DirOwned, BlankDir
  <2>2. linked = [t \in Tables |-> IF t \in KernelTables THEN s.mem[KernelPd][t] ELSE Empty]
    BY <2>1 DEF LinkedDir
  <2>3. \A t \in Tables : (IF t \in KernelTables THEN s.mem[KernelPd][t] ELSE Empty) \in EntrySet
    BY <2>1, BlankTypes DEF DirSet
  <2> QED BY <2>2, <2>3 DEF DirSet
<1>5. /\ s2.mem = Put(s.mem, f, linked) /\ s2 \in State
      /\ s2.frames = s.frames /\ s2.mapUsed = s.mapUsed /\ s2.window = s.window
      /\ s2.index = s.index /\ s2.dma = s.dma /\ s2.heapEnd = s.heapEnd
  <2> DEFINE mem2 == Put(s.mem, f, linked)
  <2>1. s2 = [s EXCEPT !.mem = mem2]
    BY <1>1 DEF WithDir, State
  <2>2. s.mem \in Memory /\ linked \in DirSet \union TableSet
    BY <1>1, <1>4 DEF State
  <2>3. mem2 \in Memory
    BY <2>2, MemoryAdd
  <2> HIDE DEF mem2
  <2>4. /\ s2.mem = mem2 /\ s2 \in State
        /\ s2.frames = s.frames /\ s2.mapUsed = s.mapUsed /\ s2.window = s.window
        /\ s2.index = s.index /\ s2.dma = s.dma /\ s2.heapEnd = s.heapEnd
    BY <1>1, <2>1, <2>3 DEF State
  <2> QED BY <2>4 DEF mem2
<1>6. /\ s2.mem[f] = linked /\ DOMAIN s2.mem = DOMAIN s.mem \union {f}
      /\ \A y \in DOMAIN s.mem \ {f} : s2.mem[y] = s.mem[y]
  <2>1. s.mem \in Memory /\ linked \in DirSet \union TableSet
    BY <1>1, <1>4 DEF State
  <2>2. s2.mem = [y \in DOMAIN s.mem \union {f} |-> IF y = f THEN linked ELSE s.mem[y]]
    BY <1>5 DEF Put
  <2> QED BY <2>2
<1>7. \A t \in Tables : linked[t] = IF t \in KernelTables THEN TableEntry(s, ds, "kernel", t) ELSE Empty
  BY <1>1 DEF TableEntry, BlankDir, LinkedDir
<1>8. ASSUME NEW b \in DOMAIN ds
      PROVE  ds[b].paddr \in DOMAIN s.mem /\ s2.mem[ds[b].paddr] = s.mem[ds[b].paddr]
  BY <1>3, <1>6 DEF Sound, DirOwned
<1>9. \A b \in DOMAIN ds, t \in Tables : TableEntry(s2, ds2, b, t) = TableEntry(s, ds, b, t)
  BY <1>2, <1>8 DEF TableEntry
<1>10. \A t \in Tables : TableEntry(s2, ds2, d, t)
         = IF t \in KernelTables THEN TableEntry(s, ds, "kernel", t) ELSE Empty
  BY <1>2, <1>6, <1>7 DEF TableEntry
<1>11. ASSUME NEW b \in DOMAIN ds, NEW t \in Tables, TableEntry(s, ds, b, t).frame # 0
       PROVE  LET y == TableEntry(s, ds, b, t).frame
              IN /\ y # f /\ y \in Nat /\ y \in DOMAIN s2.mem /\ s2.mem[y] = s.mem[y]
                 /\ s2.mem[y] \in TableSet /\ own[y] = OwnTable(b, t)
  <2> DEFINE y == TableEntry(s, ds, b, t).frame
  <2>1. y \in DOMAIN s.mem /\ s.mem[y] \in TableSet /\ own[y] = OwnTable(b, t)
    BY <1>11 DEF Sound, TableOwned
  <2>2. y # f /\ y \in Nat
    BY <1>11, OwnKinds, EntryTypes DEF Unused, EntrySet
  <2> QED BY <1>6, <2>1, <2>2
<1>12. own2 \in [Nat -> OwnerSet] /\ own2[f] = OwnDir(d) /\ \A y \in Nat \ {f} : own2[y] = own[y]
  <2>1. OwnDir(d) \in OwnerSet
    BY DEF OwnDir, OwnerSet
  <2> QED BY <1>1, <2>1 DEF Owned
<1>13. \A y \in Nat : ~ Unused(own, y) => own2[y] = own[y] /\ y # f
  BY <1>12
<1>14. ASSUME NEW b \in DOMAIN ds, NEW v \in Pages
       PROVE  /\ TableEntry(s2, ds2, b, TableOf(v)) = TableEntry(s, ds, b, TableOf(v))
              /\ TableEntry(s, ds, b, TableOf(v)).frame # 0 =>
                   PageEntry(s2, ds2, b, v) = PageEntry(s, ds, b, v)
  BY <1>9, <1>11, PageParts DEF PageEntry
<1>15. \A b \in DOMAIN ds, v \in Pages : Mapped(s2, ds2, b, v) = Mapped(s, ds, b, v)
  BY <1>14 DEF Mapped
<1>16. ASSUME NEW b \in DOMAIN ds2
       PROVE  DirOwned(s2, ds2, own2, b)
  <2>1. CASE b = d
    BY <1>2, <1>4, <1>6, <1>12, <2>1 DEF DirOwned
  <2>2. CASE b \in DOMAIN ds
    <3>1. own[ds[b].paddr] = OwnDir(b) /\ s.mem[ds[b].paddr] \in DirSet
      BY <2>2 DEF Sound, DirOwned
    <3> QED BY <1>2, <1>3, <1>6, <1>8, <1>12, <2>2, <3>1 DEF DirOwned
  <2> QED BY <1>2, <2>1, <2>2
<1>17. ASSUME NEW b \in DOMAIN ds, NEW t \in Tables
       PROVE  TableOwned(s2, ds2, own2, b, t)
  <2>1. CASE TableEntry(s, ds, b, t).frame = 0
    BY <1>9, <2>1 DEF TableOwned
  <2>2. CASE TableEntry(s, ds, b, t).frame # 0
    <3>1. TableOwned(s, ds, own, b, t)
      BY DEF Sound
    <3> QED BY <1>9, <1>11, <1>12, <2>2, <3>1 DEF TableOwned
  <2> QED BY <2>1, <2>2
<1>18. ASSUME NEW t \in Tables
       PROVE  TableOwned(s2, ds2, own2, d, t)
  <2>1. CASE t \in KernelTables /\ TableEntry(s, ds, "kernel", t).frame # 0
    <3>1. OwnTable(d, t) = OwnTable("kernel", t) /\ t \notin UserTables
      BY <2>1, VmemAssumption DEF OwnTable, Who
    <3> QED BY <1>1, <1>10, <1>11, <1>12, <2>1, <3>1 DEF TableOwned
  <2>2. CASE ~ (t \in KernelTables /\ TableEntry(s, ds, "kernel", t).frame # 0)
    BY <1>10, <2>2 DEF TableOwned, Empty
  <2> QED BY <2>1, <2>2
<1>19. ASSUME NEW b \in DOMAIN ds, NEW v \in Pages
       PROVE  PageOwned(s2, ds2, own2, b, v)
  <2>1. CASE TableEntry(s, ds, b, TableOf(v)).frame = 0
    BY <1>14, <2>1 DEF PageOwned
  <2>2. CASE TableEntry(s, ds, b, TableOf(v)).frame # 0
    <3>1. PageOwned(s, ds, own, b, v) /\ PageEntry(s, ds, b, v).frame \in Nat
      BY <2>2, EntryTypes DEF Sound, EntrySet
    <3>2. own[PageEntry(s, ds, b, v).frame] = OwnPage(b, v) => own2[PageEntry(s, ds, b, v).frame] = OwnPage(b, v)
      BY <1>13, <3>1 DEF Unused, OwnPage
    <3> QED BY <1>14, <2>2, <3>1, <3>2 DEF PageOwned
  <2> QED BY <2>1, <2>2
<1>20. ASSUME NEW v \in Pages
       PROVE  PageOwned(s2, ds2, own2, d, v)
  <2>1. CASE TableOf(v) \in KernelTables
    <3>1. TableEntry(s2, ds2, d, TableOf(v)) = TableEntry(s2, ds2, "kernel", TableOf(v))
      BY <1>1, <1>9, <1>10, <2>1, PageParts
    <3>2. PageEntry(s2, ds2, d, v) = PageEntry(s2, ds2, "kernel", v)
      BY <3>1 DEF PageEntry
    <3>3. OwnPage(d, v) = OwnPage("kernel", v)
      BY <2>1, VmemAssumption DEF OwnPage, Who
    <3> QED BY <1>1, <1>19, <3>1, <3>2, <3>3 DEF PageOwned
  <2>2. CASE TableOf(v) \notin KernelTables
    BY <1>10, <2>2, PageParts DEF PageOwned, Empty
  <2> QED BY <2>1, <2>2
<1>21. IndexSound(s2)
  BY <1>5 DEF Sound, IndexSound, Has, Get
<1>22. DirsShown(s2, ds2)
  BY <1>2, <1>5 DEF Sound, DirsShown, Has, Get
<1>23. \A y \in Nat : own2[y].kind # "none" => y \in s2.frames
  BY <1>5, <1>12 DEF Sound
<1>24. \A y \in s2.dma : own2[y].kind = "dma"
  <2>1. \A y \in s.dma : y \in Nat /\ own[y].kind = "dma"
    BY <1>1 DEF Sound, State
  <2> QED BY <1>5, <1>13, <2>1 DEF Unused
<1>25. ds2 \in DirList
  <2>1. Get(s, f) \in Nat
    BY DEF Sound, IndexSound, MapBase
  <2>2. PICK D \in SUBSET DirNames : ds \in [D -> [paddr : Nat, pts : Nat]]
    BY <1>1 DEF DirList
  <2>3. ds2 \in [D \union {d} -> [paddr : Nat, pts : Nat]] /\ D \union {d} \in SUBSET DirNames
    BY <2>1, <2>2 DEF Put, WithName
  <2> QED BY <2>3 DEF DirList
<1>26. \A b \in DOMAIN ds2 : b \in DOMAIN ds \/ b = d
  BY <1>2
<1>27. \A b \in DOMAIN ds2, t \in Tables : TableOwned(s2, ds2, own2, b, t)
  BY <1>17, <1>18, <1>26
<1>28. \A b \in DOMAIN ds2, v \in Pages : PageOwned(s2, ds2, own2, b, v)
  BY <1>19, <1>20, <1>26
<1>29. s2.heapEnd \in HeapPage .. HeapMax
  BY <1>5 DEF Sound
<1>30. "kernel" \in DOMAIN ds2 /\ ds2["kernel"].paddr = KernelPd
  BY <1>1, <1>2
<1>31. Sound(s2, ds2, own2)
  BY <1>5, <1>12, <1>16, <1>21, <1>22, <1>23, <1>24, <1>25, <1>27, <1>28, <1>29, <1>30 DEF Sound
<1> QED BY <1>15, <1>31

(* Steps from a machine to another: frames that were marked keep their owner, *)
(* the index only learns, and pages stay mapped.                              *)

Kept(s, s2, ds) ==
  /\ s.heapEnd <= s2.heapEnd
  /\ \A d \in DOMAIN ds, v \in Pages :
       \/ Mapped(s2, ds, d, v) = Mapped(s, ds, d, v)
       \/ Mapped(s, ds, d, v) = 0 /\ v \in s.heapEnd .. s2.heapEnd - 1

\* A step, with the owners before and after.
Step(s, own, s2, own2, ds) ==
  /\ Sound(s, ds, own) /\ Sound(s2, ds, own2)
  /\ s.frames \subseteq s2.frames /\ s2.dma = s.dma
  /\ \A f \in s.frames : own2[f] = own[f]
  /\ \A f \in Nat : Has(s, f) => Has(s2, f) /\ Get(s2, f) = Get(s, f)
  /\ Kept(s, s2, ds)

\* The directories themselves are left alone.
DirsKept(s, s2, ds) == \A d \in DOMAIN ds : s2.mem[ds[d].paddr] = s.mem[ds[d].paddr]

\* Two steps are one.
LEMMA StepsCompose ==
  ASSUME NEW s, NEW own, NEW s1, NEW own1, NEW s2, NEW own2, NEW ds,
         Step(s, own, s1, own1, ds), Step(s1, own1, s2, own2, ds)
  PROVE  Step(s, own, s2, own2, ds)
<1>1. s.heapEnd \in Nat /\ s1.heapEnd \in Nat /\ s2.heapEnd \in Nat
  BY Constants DEF Step, Sound
<1>2. Kept(s, s2, ds)
  <2>1. s.heapEnd <= s1.heapEnd /\ s1.heapEnd <= s2.heapEnd
    BY DEF Step, Kept
  <2>2. ASSUME NEW d \in DOMAIN ds, NEW v \in Pages
        PROVE  \/ Mapped(s2, ds, d, v) = Mapped(s, ds, d, v)
               \/ Mapped(s, ds, d, v) = 0 /\ v \in s.heapEnd .. s2.heapEnd - 1
    <3>1. /\ \/ Mapped(s1, ds, d, v) = Mapped(s, ds, d, v)
             \/ Mapped(s, ds, d, v) = 0 /\ v \in s.heapEnd .. s1.heapEnd - 1
          /\ \/ Mapped(s2, ds, d, v) = Mapped(s1, ds, d, v)
             \/ Mapped(s1, ds, d, v) = 0 /\ v \in s1.heapEnd .. s2.heapEnd - 1
      BY DEF Step, Kept
    <3>2. s.heapEnd .. s1.heapEnd - 1 \subseteq s.heapEnd .. s2.heapEnd - 1
          /\ s1.heapEnd .. s2.heapEnd - 1 \subseteq s.heapEnd .. s2.heapEnd - 1
      BY <1>1, <2>1
    <3> QED BY <3>1, <3>2
  <2> QED BY <1>1, <2>1, <2>2 DEF Kept
<1>3. \A f \in s.frames : f \in s1.frames /\ own2[f] = own[f]
  BY DEF Step
<1>4. \A f \in Nat : Has(s, f) => Has(s2, f) /\ Get(s2, f) = Get(s, f)
  BY DEF Step
<1> QED BY <1>2, <1>3, <1>4 DEF Step

\* Nothing is a step.
LEMMA StepStays ==
  ASSUME NEW s, NEW own, NEW ds, Sound(s, ds, own)
  PROVE  Step(s, own, s, own, ds)
<1>1. s.heapEnd \in Nat
  BY Constants DEF Sound
<1> QED BY <1>1 DEF Step, Kept

\* A frame found free has no owner.
LEMMA FreeHasNoOwner ==
  ASSUME NEW s, NEW ds, NEW own, Sound(s, ds, own),
         HasFree(s.frames, FirstFrame, FrameCount)
  PROVE  /\ FreeFrame(s) \in Nat \ {0} /\ FreeFrame(s) \notin s.frames
         /\ own[FreeFrame(s)].kind = "none" /\ ~ Has(s, FreeFrame(s))
         /\ FreeFrame(s) < FrameCount /\ FreeFrame(s) >= FirstFrame
<1>1. /\ FreeFrame(s) \in FirstFrame .. FrameCount - 1 /\ FreeFrame(s) \notin s.frames
  BY FoundIsFree DEF FreeFrame
<1> QED BY <1>1, Constants DEF Sound, IndexSound

\* The frame a window page shows is the one it was mapped for.
LEMMA ShownIs ==
  ASSUME NEW s, NEW ds, NEW own, Sound(s, ds, own), NEW f \in Nat, Has(s, f)
  PROVE  Shown(s, f) = f /\ f \in s.frames /\ f # 0
<1>1. PICK w \in 0 .. WindowPages - 1 : Get(s, f) = MapBase + w /\ s.window[w] = f
  BY DEF Sound, IndexSound
<1>2. Get(s, f) - MapBase = w
  BY <1>1 DEF MapBase
<1> QED BY <1>1, <1>2 DEF Sound, IndexSound, Shown, Get

-----------------------------------------------------------------------------
(* One page, the heap, and small allocations. *)

\* What a step leaves alone when it does not touch the window.
Quiet(s, r) == r.index = s.index /\ r.window = s.window /\ r.mapUsed = s.mapUsed

\* r is s with page v of directory d, and nothing else, taken.
PageTaken(s, own, r, own2, ds, d, v) ==
  /\ Sound(r, ds, own2) /\ s.frames \subseteq r.frames
  /\ \A f \in s.frames : own2[f] = own[f]
  /\ Quiet(s, r)
  /\ r.dma = s.dma /\ r.heapEnd = s.heapEnd /\ r.room = s.room
  /\ \A b \in DOMAIN ds : r.mem[ds[b].paddr] = s.mem[ds[b].paddr]
  /\ \A b \in DOMAIN ds, w \in Pages :
       \/ Mapped(r, ds, b, w) = Mapped(s, ds, b, w)
       \/ /\ w = v /\ Mapped(s, ds, b, w) = 0
          /\ TableOf(v) \in UserTables => b = d

\* vmem_frame_alloc for page v of directory d.
LEMMA TakePageSteps ==
  ASSUME NEW s, NEW ds, NEW own, Sound(s, ds, own), s.state = "runs",
         NEW d \in DOMAIN ds, NEW v \in Pages,
         NEW x, x = TableEntry(s, ds, d, TableOf(v)).frame, x # 0,
         NEW user \in BOOLEAN,
         NEW r, r = TakePage(s, x, SlotOf(v), user), r.state = "runs"
  PROVE  \E own2 : PageTaken(s, own, r, own2, ds, d, v)
<1> DEFINE i == SlotOf(v)
<1>1. /\ x \in DOMAIN s.mem /\ s.mem[x] \in TableSet /\ i \in Slots /\ s \in State
      /\ own \in [Nat -> OwnerSet] /\ d \in DirNames /\ v \in Nat /\ TableOf(v) \in Tables
  BY PageParts, EntryTypes DEF Sound, TableOwned
<1>2. s.mem[x][i] \in EntrySet /\ s.mem[x][i] = PageEntry(s, ds, d, v)
  BY <1>1 DEF TableSet, PageEntry
<1> DEFINE e == s.mem[x][i]
<1>3. ASSUME NEW b \in DOMAIN ds, TableEntry(s, ds, b, TableOf(v)).frame = x
      PROVE  Mapped(s, ds, b, v) = e.frame
  BY <1>3 DEF Mapped, PageEntry
<1>4. CASE e.frame # 0
  <2> DEFINE e2 == [frame |-> e.frame, user |-> user]
  <2>1. e2 \in EntrySet /\ e2.frame = e.frame /\ e2.user = user
        /\ e2 = [e EXCEPT !.user = user]
    BY <1>2 DEF EntrySet
  <2>2. r = [s EXCEPT !.mem[x][i].user = user]
    BY <1>4 DEF TakePage
  <2>3. r = [s EXCEPT !.mem[x][i] = e2]
    BY <2>1, <2>2
  <2> HIDE DEF e2, e, i
  <2>4. r = WithEntry(s, x, SlotOf(v), e2)
    BY <2>3 DEF i, WithEntry
  <2>5. e.frame \in Devices \/ own[e.frame] = OwnPage(d, v)
    BY <1>2, <1>4 DEF Sound, PageOwned, e
  <2>6. /\ Sound(r, ds, own)
        /\ \A b \in DOMAIN ds : r.mem[ds[b].paddr] = s.mem[ds[b].paddr]
        /\ \A b \in DOMAIN ds, w \in Pages :
              \/ Mapped(r, ds, b, w) = Mapped(s, ds, b, w)
              \/ w = v /\ Mapped(r, ds, b, w) = e2.frame
                 /\ TableEntry(s, ds, b, TableOf(v)).frame = x
                 /\ (TableOf(v) \in UserTables => b = d)
    <3>1. e2 \in EntrySet /\ e2.frame # 0
      BY <1>4, <2>1
    <3>2. e2.frame \in Devices \/ own[e2.frame] = OwnPage(d, v)
      BY <2>1, <2>5
    <3> QED BY <2>4, <3>1, <3>2, PutPage
  <2>7. \A b \in DOMAIN ds, w \in Pages : Mapped(r, ds, b, w) = Mapped(s, ds, b, w)
    BY <1>3, <2>1, <2>6
  <2>8. /\ r.frames = s.frames /\ r.index = s.index /\ r.window = s.window /\ r.mapUsed = s.mapUsed
        /\ r.dma = s.dma /\ r.heapEnd = s.heapEnd /\ r.room = s.room
    BY <1>1, <2>4 DEF State, WithEntry
  <2>9. Quiet(s, r)
    BY <2>8 DEF Quiet
  <2> QED BY <2>6, <2>7, <2>8, <2>9 DEF PageTaken
<1>5. CASE e.frame = 0 /\ HasFree(s.frames, FirstFrame, FrameCount)
  <2> DEFINE f == FreeFrame(s)
             e2 == [frame |-> f, user |-> user]
             s1 == [s EXCEPT !.frames = @ \union {f}]
             own2 == [own EXCEPT ![f] = OwnPage(d, v)]
  <2>1. f \in Nat \ {0} /\ f \notin s.frames /\ own[f].kind = "none"
    BY <1>5, FreeHasNoOwner
  <2>2. e2 \in EntrySet /\ e2.frame = f /\ e2.user = user /\ Entry(f, user) = e2
    BY <2>1 DEF EntrySet, Entry
  <2>3. r = [s1 EXCEPT !.mem[x][i] = e2]
    BY <1>5, <2>2 DEF TakePage, Mark
  <2>4. /\ s1 \in State /\ s1.mem = s.mem /\ s1.frames = s.frames \union {f}
        /\ s1.index = s.index /\ s1.window = s.window /\ s1.mapUsed = s.mapUsed
        /\ s1.dma = s.dma /\ s1.heapEnd = s.heapEnd /\ s1.room = s.room
    BY <1>1, <2>1 DEF State
  <2>5. own2 \in [Nat -> OwnerSet] /\ own2[f] = OwnPage(d, v) /\ \A y \in Nat \ {f} : own2[y] = own[y]
    <3>1. OwnPage(d, v) \in OwnerSet
      BY <1>1 DEF OwnPage, OwnerSet, Who, DirNames
    <3> QED BY <1>1, <2>1, <3>1
  <2> HIDE DEF f, s1, own2, e2, e, i
  <2>6. Sound(s1, ds, own2)
        /\ \A b \in DOMAIN ds, w \in Pages : Mapped(s1, ds, b, w) = Mapped(s, ds, b, w)
    <3>1. IndexSound(s1) /\ DirsShown(s1, ds) /\ s1.heapEnd \in HeapPage .. HeapMax
      BY <2>4 DEF Sound, IndexSound, DirsShown, Has, Get
    <3>2. \A y \in Nat : ~ Unused(own, y) => own2[y] = own[y]
      BY <2>1, <2>5 DEF Unused
    <3>3. \A y \in Nat : own2[y].kind # "none" => y \in s1.frames
      BY <2>4, <2>5 DEF Sound
    <3>4. \A y \in s1.dma : own2[y].kind = "dma"
      <4>1. \A y \in s.dma : y \in Nat /\ own[y].kind = "dma"
        BY <1>1 DEF Sound, State
      <4> QED BY <2>1, <2>4, <2>5, <4>1
    <3> QED BY <2>4, <2>5, <3>1, <3>2, <3>3, <3>4, Bookkeeping
  <2>7. \A b \in DOMAIN ds, t \in Tables : TableEntry(s1, ds, b, t) = TableEntry(s, ds, b, t)
    BY <2>4 DEF TableEntry
  <2>8. r = WithEntry(s1, x, SlotOf(v), e2)
    BY <2>3 DEF i, WithEntry
  <2>9. /\ Sound(r, ds, own2)
        /\ \A b \in DOMAIN ds : r.mem[ds[b].paddr] = s1.mem[ds[b].paddr]
        /\ \A b \in DOMAIN ds, w \in Pages :
              \/ Mapped(r, ds, b, w) = Mapped(s1, ds, b, w)
              \/ w = v /\ TableEntry(s1, ds, b, TableOf(v)).frame = x
                 /\ (TableOf(v) \in UserTables => b = d)
    <3>1. e2 \in EntrySet /\ e2.frame # 0 /\ own2[e2.frame] = OwnPage(d, v)
      BY <2>1, <2>2, <2>5
    <3>3. x = TableEntry(s1, ds, d, TableOf(v)).frame
      BY <1>1, <2>7
    <3> QED BY <2>6, <2>8, <3>1, <3>3, PutPage
  <2>10. \A b \in DOMAIN ds, w \in Pages :
           \/ Mapped(r, ds, b, w) = Mapped(s, ds, b, w)
           \/ w = v /\ Mapped(s, ds, b, w) = 0 /\ (TableOf(v) \in UserTables => b = d)
    BY <1>1, <1>3, <1>5, <2>6, <2>7, <2>9
  <2>11. /\ r.frames = s1.frames /\ r.index = s.index /\ r.window = s.window
         /\ r.mapUsed = s.mapUsed /\ r.dma = s.dma /\ r.heapEnd = s.heapEnd /\ r.room = s.room
    BY <2>4, <2>8 DEF State, WithEntry
  <2>12. \A y \in s.frames : own2[y] = own[y]
    BY <1>1, <2>1, <2>5 DEF State
  <2>13. Quiet(s, r)
    BY <2>11 DEF Quiet
  <2> QED BY <2>4, <2>9, <2>10, <2>11, <2>12, <2>13 DEF PageTaken
<1>6. CASE e.frame = 0 /\ ~ HasFree(s.frames, FirstFrame, FrameCount)
  BY <1>1, <1>6 DEF TakePage, Mark, Stop, State
<1> QED BY <1>4, <1>5, <1>6

\* s2 differs from s in its bookkeeping only.
Booked(s, s2, ds, own, own2) ==
  /\ s2 \in State /\ own2 \in [Nat -> OwnerSet] /\ s2.mem = s.mem
  /\ s2.heapEnd \in HeapPage .. HeapMax /\ IndexSound(s2) /\ DirsShown(s2, ds)
  /\ \A f \in Nat : ~ Unused(own, f) => own2[f] = own[f]
  /\ \A f \in Nat : own2[f].kind # "none" => f \in s2.frames
  /\ \A f \in s2.dma : own2[f].kind = "dma"

\* Bookkeeping keeps memory sound, and every page where it is.
LEMMA BookedSteps ==
  ASSUME NEW s, NEW s2, NEW ds, NEW own, NEW own2, Sound(s, ds, own), Booked(s, s2, ds, own, own2)
  PROVE  /\ Sound(s2, ds, own2)
         /\ \A d \in DOMAIN ds, v \in Pages : Mapped(s2, ds, d, v) = Mapped(s, ds, d, v)
<1>1. /\ s2 \in State /\ own2 \in [Nat -> OwnerSet] /\ s2.mem = s.mem
      /\ s2.heapEnd \in HeapPage .. HeapMax /\ IndexSound(s2) /\ DirsShown(s2, ds)
      /\ \A f \in Nat : ~ Unused(own, f) => own2[f] = own[f]
      /\ \A f \in Nat : own2[f].kind # "none" => f \in s2.frames
      /\ \A f \in s2.dma : own2[f].kind = "dma"
  BY DEF Booked
<1> QED BY <1>1, Bookkeeping

\* A page for the heap, which leaves holes for room small allocations.
HeapGrown(s, pd, room) == [HeapPageTaken(s, pd) EXCEPT !.room = room]

\* vmem_heap_expand by a page whose table is there.
LEMMA HeapPageSteps ==
  ASSUME NEW s, NEW ds, NEW own, Sound(s, ds, own), s.state = "runs",
         NEW d \in DOMAIN ds, s.heapEnd # HeapMax,
         Has(s, TableEntry(s, ds, d, TableOf(s.heapEnd)).frame), NEW room \in Nat,
         NEW r, r = HeapGrown(s, ds[d].paddr, room), r.state = "runs"
  PROVE  \E own2 : Step(s, own, r, own2, ds) /\ Quiet(s, r) /\ DirsKept(s, r, ds)
<1> DEFINE v == s.heapEnd
           pd == ds[d].paddr
           x == TableEntry(s, ds, d, TableOf(v)).frame
           r1 == TakePage(s, x, SlotOf(v), FALSE)
<1>1. /\ v \in Nat /\ v \in HeapPage .. HeapMax - 1 /\ v + 1 \in HeapPage .. HeapMax /\ v < v + 1
      /\ v \in v .. (v + 1) - 1
  BY Constants DEF Sound
<1>2. TableOf(v) \in KernelTables /\ TableOf(v) \in Tables /\ TableOf(v) \notin UserTables
  BY <1>1, VmemAssumption DEF Tables
<1>3. v \in Pages
  BY <1>1, <1>2, PageParts
<1>4. x \in Nat
  BY <1>2, EntryTypes DEF EntrySet
<1>5. Shown(s, x) = x /\ x # 0
  BY <1>4, ShownIs
<1>6. TableFrame(s, pd, v) = x
  BY <1>5 DEF TableFrame, TableEntry
<1> HIDE DEF v, x, pd
<1>7. r = [[r1 EXCEPT !.heapEnd = v + 1] EXCEPT !.room = room]
  <2>1. HeapPageTaken(s, pd) = [r1 EXCEPT !.heapEnd = @ + 1]
    BY <1>6 DEF HeapPageTaken, v
  <2>2. r1.heapEnd = v
    BY DEF TakePage, Mark, Stop, Sound, State, v
  <2> HIDE DEF r1
  <2> QED BY <2>1, <2>2 DEF pd, HeapGrown
<1>8. r1.state = "runs"
  <2>1. r.state = r1.state
    BY <1>7 DEF TakePage, Mark, Stop, Sound, State
  <2> QED BY <2>1
<1> HIDE DEF r1
<1>9. PICK own2 : PageTaken(s, own, r1, own2, ds, d, v)
  <2>1. FALSE \in BOOLEAN /\ (FALSE => TableOf(v) \in UserTables) /\ x = TableEntry(s, ds, d, TableOf(v)).frame
    BY DEF x
  <2>2. r1 = TakePage(s, x, SlotOf(v), FALSE)
    BY DEF r1
  <2> QED BY <1>3, <1>5, <1>8, <2>1, <2>2, TakePageSteps
<1>10. r \in State /\ r.mem = r1.mem /\ r.heapEnd = v + 1 /\ r.frames = r1.frames
       /\ r.dma = r1.dma /\ Quiet(r1, r)
  <2>1. r1 \in State /\ v + 1 \in Nat
    BY <1>1, <1>9 DEF Sound, PageTaken
  <2> QED BY <1>7, <2>1 DEF State, Quiet
<1>11. Sound(r, ds, own2)
       /\ \A b \in DOMAIN ds, w \in Pages : Mapped(r, ds, b, w) = Mapped(r1, ds, b, w)
  <2>1. IndexSound(r) /\ DirsShown(r, ds)
    BY <1>9, <1>10 DEF PageTaken, Sound, IndexSound, DirsShown, Has, Get, Quiet
  <2>2. own2 \in [Nat -> OwnerSet] /\ \A f \in Nat : own2[f].kind # "none" => f \in r.frames
    BY <1>9, <1>10 DEF PageTaken, Sound
  <2>3. \A f \in r.dma : own2[f].kind = "dma"
    BY <1>9, <1>10 DEF PageTaken, Sound
  <2>4. Sound(r1, ds, own2) /\ r.heapEnd \in HeapPage .. HeapMax
    BY <1>1, <1>9, <1>10 DEF PageTaken
  <2>5. \A f \in Nat : ~ Unused(own2, f) => own2[f] = own2[f]
    OBVIOUS
  <2>6. Booked(r1, r, ds, own2, own2)
    BY <1>10, <2>1, <2>2, <2>3, <2>4, <2>5 DEF Booked
  <2> QED BY <2>4, <2>6, BookedSteps
<1>12. Kept(s, r, ds)
  <2>1. s.heapEnd <= r.heapEnd /\ v \in s.heapEnd .. r.heapEnd - 1
    BY <1>1, <1>10 DEF v
  <2> QED BY <1>9, <1>11, <2>1 DEF Kept, PageTaken, v
<1>13. Quiet(s, r) /\ r.dma = s.dma /\ s.frames \subseteq r.frames /\ \A f \in s.frames : own2[f] = own[f]
  BY <1>9, <1>10 DEF Quiet, PageTaken
<1>14. \A f \in Nat : Has(s, f) => Has(r, f) /\ Get(r, f) = Get(s, f)
  BY <1>13 DEF Has, Get, Quiet
<1>15. Step(s, own, r, own2, ds)
  BY <1>11, <1>12, <1>13, <1>14 DEF Step
<1>16. DirsKept(s, r, ds)
  BY <1>9, <1>10 DEF PageTaken, DirsKept
<1> QED BY <1>13, <1>15, <1>16

\* kmalloc, whether or not the heap grows.
LEMMA KmallocSteps ==
  ASSUME NEW s, NEW ds, NEW own, Sound(s, ds, own), s.state = "runs", NEW d \in DOMAIN ds,
         NEW r, r = kmalloc(s, ds[d].paddr), r.state = "runs"
  PROVE  /\ \E own2 : Step(s, own, r, own2, ds) /\ Quiet(s, r) /\ DirsKept(s, r, ds)
         /\ ~ Has(s, TableEntry(s, ds, d, TableOf(s.heapEnd)).frame) => r.heapEnd = s.heapEnd
<1>0. s \in State /\ own \in [Nat -> OwnerSet]
  BY DEF Sound
<1>1. CASE s.room > 0
  <2>1. /\ r = [s EXCEPT !.room = s.room - 1] /\ s.room - 1 \in Nat
    BY <1>0, <1>1 DEF kmalloc, State
  <2>2. r \in State /\ r.mem = s.mem /\ r.heapEnd = s.heapEnd /\ r.frames = s.frames
        /\ r.dma = s.dma /\ Quiet(s, r)
    BY <1>0, <2>1 DEF State, Quiet
  <2>3. \A f \in Nat : Has(s, f) => Has(r, f) /\ Get(r, f) = Get(s, f)
    BY <2>2 DEF Has, Get, Quiet
  <2>4. IndexSound(r) /\ DirsShown(r, ds)
    BY <2>2 DEF Sound, IndexSound, DirsShown, Has, Get, Quiet
  <2>5. /\ \A f \in Nat : own[f].kind # "none" => f \in r.frames
        /\ \A f \in r.dma : own[f].kind = "dma"
        /\ r.heapEnd \in HeapPage .. HeapMax
    BY <2>2 DEF Sound
  <2>6. Sound(r, ds, own) /\ \A b \in DOMAIN ds, w \in Pages : Mapped(r, ds, b, w) = Mapped(s, ds, b, w)
    BY <1>0, <2>2, <2>4, <2>5, Bookkeeping
  <2>7. Kept(s, r, ds)
    <3>1. s.heapEnd <= r.heapEnd
      BY <1>0, <2>2 DEF State
    <3> QED BY <2>6, <3>1 DEF Kept
  <2>8. Step(s, own, r, own, ds)
    BY <2>2, <2>3, <2>6, <2>7 DEF Step
  <2>9. DirsKept(s, r, ds)
    BY <2>2 DEF DirsKept
  <2> QED BY <2>2, <2>8, <2>9
<1>2. CASE ~ (s.room > 0) /\ s.heapEnd = HeapMax
  <2>1. r = Stop(s, "heap full")
    BY <1>2 DEF kmalloc
  <2> QED BY <1>0, <2>1 DEF Stop, State
<1>3. CASE ~ (s.room > 0) /\ s.heapEnd # HeapMax /\ ~ Has(s, TableEntry(s, ds, d, TableOf(s.heapEnd)).frame)
  <2>1. r = Stop(s, "recursion")
    BY <1>3 DEF kmalloc, Has, TableEntry
  <2> QED BY <1>0, <2>1 DEF Stop, State
<1>4. CASE ~ (s.room > 0) /\ s.heapEnd # HeapMax /\ Has(s, TableEntry(s, ds, d, TableOf(s.heapEnd)).frame)
  <2>1. r = HeapGrown(s, ds[d].paddr, PageRoom - 1)
    BY <1>4 DEF kmalloc, Has, TableEntry, HeapGrown
  <2>2. PageRoom - 1 \in Nat
    BY Constants
  <2> QED BY <1>4, <2>1, <2>2, HeapPageSteps
<1> QED BY <1>1, <1>2, <1>3, <1>4

-----------------------------------------------------------------------------
(* The window. *)

\* No frame is shown in page w of the window, as far as the index knows.
Fresh(s, w) == \A g \in Nat : Has(s, g) => Get(s, g) # MapBase + w

\* r is s with frame in the window.
InWindow(s, own, r, own2, ds, frame) ==
  Step(s, own, r, own2, ds) /\ own2[frame] = own[frame] /\ Has(r, frame) /\ frame \in r.frames

\* The heap stays where it is if directory d's table for its next page is not in the index.
HeapStays(s, r, ds, d) ==
  ~ Has(s, TableEntry(s, ds, d, TableOf(s.heapEnd)).frame) => r.heapEnd = s.heapEnd

\* The index answers as long as it is the same.
LEMMA HasFacts ==
  ASSUME NEW s, NEW r, r.index = s.index
  PROVE  \A f : Has(r, f) = Has(s, f) /\ Get(r, f) = Get(s, f)
BY DEF Has, Get

\* A step that leaves memory, the heap and the owners alone.
LEMMA BookedIsStep ==
  ASSUME NEW s, NEW r, NEW ds, NEW own, NEW own2, Sound(s, ds, own), Booked(s, r, ds, own, own2),
         s.frames \subseteq r.frames, r.dma = s.dma, r.heapEnd = s.heapEnd,
         \A f \in s.frames : own2[f] = own[f],
         \A f \in Nat : Has(s, f) => Has(r, f) /\ Get(r, f) = Get(s, f)
  PROVE  Step(s, own, r, own2, ds)
<1>1. Sound(r, ds, own2) /\ \A d \in DOMAIN ds, v \in Pages : Mapped(r, ds, d, v) = Mapped(s, ds, d, v)
  BY BookedSteps
<1>2. s.heapEnd <= r.heapEnd
  BY Constants DEF Sound
<1>3. Kept(s, r, ds)
  BY <1>1, <1>2 DEF Kept
<1> QED BY <1>1, <1>3 DEF Step

\* MapWindow: a page of the window shows the frame, and the index knows.
LEMMA WindowSteps ==
  ASSUME NEW s, NEW ds, NEW own, Sound(s, ds, own), s.state = "runs", NEW d \in DOMAIN ds,
         NEW w \in Nat, w \in s.mapUsed, Fresh(s, w),
         NEW frame \in Nat, frame # 0, ~ Has(s, frame),
         NEW r, r = MapWindow(s, ds[d].paddr, w, frame), r.state = "runs"
  PROVE  /\ w < WindowPages /\ r.mapUsed = s.mapUsed /\ HeapStays(s, r, ds, d) /\ DirsKept(s, r, ds)
         /\ \E own2 : InWindow(s, own, r, own2, ds, frame)
         /\ Get(r, frame) = MapBase + w
         /\ \A g \in Nat : Has(r, g) => g = frame \/ (Has(s, g) /\ Get(r, g) = Get(s, g))
<1>0. s \in State /\ own \in [Nat -> OwnerSet]
  BY DEF Sound
<1>1. w < WindowPages
  <2>1. SUFFICES ASSUME w >= WindowPages PROVE FALSE
    BY Constants
  <2>2. r = Stop(s, "window overrun")
    BY <2>1 DEF MapWindow
  <2> QED BY <1>0, <2>2 DEF Stop, State
<1>2. w \in 0 .. WindowPages - 1
  BY <1>1, Constants
<1> DEFINE s1 == [s EXCEPT !.frames = @ \union {frame}, !.window[w] = frame]
           s2 == kmalloc(s1, ds[d].paddr)
<1>3. r = [s2 EXCEPT !.index = H!hashmap_set(@, frame, MapBase + w)]
  <2>1. ~ H!hashmap_has(s.index, frame)
    BY DEF Has
  <2>2. ~ (w >= WindowPages)
    BY <1>2, Constants
  <2> QED BY <2>1, <2>2 DEF MapWindow
<1>4. /\ s1 \in State /\ s1.mem = s.mem /\ s1.heapEnd = s.heapEnd /\ s1.frames = s.frames \union {frame}
      /\ s1.dma = s.dma /\ s1.index = s.index /\ s1.mapUsed = s.mapUsed /\ s1.state = "runs"
      /\ s1.window[w] = frame /\ \A y \in 0 .. WindowPages - 1 : y # w => s1.window[y] = s.window[y]
  BY <1>0, <1>2 DEF State
<1> HIDE DEF s1
<1>5. Step(s, own, s1, own, ds)
  <2>1. \A f \in Nat : Has(s1, f) = Has(s, f) /\ Get(s1, f) = Get(s, f)
    BY <1>4, HasFacts
  <2>2. IndexSound(s1)
    <3>1. SUFFICES ASSUME NEW f \in Nat, Has(s1, f)
          PROVE  /\ f \in s1.frames /\ f # 0
                 /\ \E y \in s1.mapUsed \intersect (0 .. WindowPages - 1) :
                      Get(s1, f) = MapBase + y /\ s1.window[y] = f
      BY DEF IndexSound
    <3>2. Has(s, f) /\ Get(s1, f) = Get(s, f)
      BY <2>1, <3>1
    <3>3. f \in s.frames /\ f # 0
      BY <3>2 DEF Sound, IndexSound
    <3>4. PICK y \in s.mapUsed \intersect (0 .. WindowPages - 1) :
            Get(s, f) = MapBase + y /\ s.window[y] = f
      BY <3>2 DEF Sound, IndexSound
    <3>5. y # w
      BY <3>2, <3>4 DEF Fresh
    <3> QED BY <1>4, <3>2, <3>3, <3>4, <3>5
  <2>3. DirsShown(s1, ds)
    <3>1. \A b \in DOMAIN ds : ds[b].paddr \in Nat
      BY EntryTypes
    <3> QED BY <2>1, <3>1 DEF Sound, DirsShown
  <2>4. Booked(s, s1, ds, own, own)
    <3>1. \A f \in Nat : own[f].kind # "none" => f \in s1.frames
      BY <1>4 DEF Sound
    <3>2. \A f \in s1.dma : own[f].kind = "dma"
      BY <1>4 DEF Sound
    <3>3. s1.heapEnd \in HeapPage .. HeapMax
      BY <1>4 DEF Sound
    <3> QED BY <1>0, <1>4, <2>2, <2>3, <3>1, <3>2, <3>3 DEF Booked
  <2> QED BY <1>4, <2>1, <2>4, BookedIsStep
<1>6. Sound(s1, ds, own)
  BY <1>5 DEF Step
<1>7. s2.state = "runs"
  <2>1. s2.state = r.state
    BY <1>3, <1>6 DEF kmalloc, Stop, HeapPageTaken, TakePage, Mark, Sound, State
  <2> QED BY <2>1
<1>8. /\ \E own2 : Step(s1, own, s2, own2, ds) /\ Quiet(s1, s2) /\ DirsKept(s1, s2, ds)
      /\ ~ Has(s1, TableEntry(s1, ds, d, TableOf(s1.heapEnd)).frame) => s2.heapEnd = s1.heapEnd
  BY <1>4, <1>6, <1>7, KmallocSteps
<1>9. PICK own2 : Step(s1, own, s2, own2, ds) /\ Quiet(s1, s2) /\ DirsKept(s1, s2, ds)
  BY <1>8
<1> HIDE DEF s2
<1>10. /\ s2.index = s.index /\ s2.mapUsed = s.mapUsed /\ s2.window = s1.window
       /\ Sound(s2, ds, own2) /\ s2 \in State /\ own2 \in [Nat -> OwnerSet]
       /\ frame \in s2.frames /\ own2[frame] = own[frame]
  BY <1>4, <1>9 DEF Quiet, Step, Sound
<1>11. /\ r.index \in Maps /\ Has(r, frame) /\ Get(r, frame) = MapBase + w
       /\ \A g \in Nat \ {frame} : (Has(r, g) <=> Has(s2, g)) /\ Get(r, g) = Get(s2, g)
  <2> DEFINE map == s2.index
             val == MapBase + w
             new == r.index
  <2>1. map \in Maps /\ val \in Nat /\ new = H!hashmap_set(map, frame, val)
    BY <1>3, <1>10 DEF State, MapBase
  <2>2. /\ new \in Maps
        /\ H!hashmap_has(new, frame) /\ H!hashmap_get(new, frame) = val
        /\ \A k \in Nat \ {frame} : /\ H!hashmap_has(new, k) <=> H!hashmap_has(map, k)
                                    /\ H!hashmap_get(new, k) = H!hashmap_get(map, k)
    <3> HIDE DEF map, val, new
    <3> QED BY <2>1, SetMap
  <2>3. Has(r, frame) /\ Get(r, frame) = MapBase + w
    BY <2>2 DEF Has, Get
  <2>4. \A g \in Nat \ {frame} : Has(r, g) <=> Has(s2, g)
    BY <2>2 DEF Has
  <2>5. \A g \in Nat \ {frame} : Get(r, g) = Get(s2, g)
    BY <2>2 DEF Get
  <2>6. r.index \in Maps
    BY <2>2
  <2> HIDE DEF Maps
  <2> QED BY <2>3, <2>4, <2>5, <2>6
<1>12. /\ r \in State /\ r.mem = s2.mem /\ r.heapEnd = s2.heapEnd /\ r.frames = s2.frames
       /\ r.dma = s2.dma /\ r.mapUsed = s2.mapUsed /\ r.window = s2.window
  <2>1. r = [s2 EXCEPT !.index = r.index]
    BY <1>3, <1>10 DEF State
  <2> QED BY <1>10, <1>11, <2>1 DEF State
<1>13. \A g \in Nat : Has(s2, g) = Has(s, g) /\ Get(s2, g) = Get(s, g)
  BY <1>10, HasFacts
<1>14. Step(s2, own2, r, own2, ds)
  <2>1. IndexSound(r)
    <3>1. SUFFICES ASSUME NEW f \in Nat, Has(r, f)
          PROVE  /\ f \in r.frames /\ f # 0
                 /\ \E y \in r.mapUsed \intersect (0 .. WindowPages - 1) :
                      Get(r, f) = MapBase + y /\ r.window[y] = f
      BY DEF IndexSound
    <3>2. CASE f = frame
      <4>1. w \in r.mapUsed \intersect (0 .. WindowPages - 1) /\ r.window[w] = frame
        BY <1>2, <1>4, <1>10, <1>12
      <4> QED BY <1>10, <1>11, <1>12, <3>2, <4>1
    <3>3. CASE f # frame
      BY <1>10, <1>11, <1>12, <3>1, <3>3 DEF Sound, IndexSound
    <3> QED BY <3>2, <3>3
  <2>2. DirsShown(r, ds)
    <3>1. SUFFICES ASSUME NEW b \in DOMAIN ds \ {"kernel"}
          PROVE  Has(r, ds[b].paddr) /\ Get(r, ds[b].paddr) = ds[b].pts
      BY DEF DirsShown
    <3>2. Has(s2, ds[b].paddr) /\ Get(s2, ds[b].paddr) = ds[b].pts /\ ds[b].paddr \in Nat
      BY <1>10, EntryTypes DEF Sound, DirsShown
    <3> QED BY <1>11, <1>13, <3>2
  <2>3. Booked(s2, r, ds, own2, own2)
    <3>1. \A f \in Nat : own2[f].kind # "none" => f \in r.frames
      BY <1>10, <1>12 DEF Sound
    <3>2. \A f \in r.dma : own2[f].kind = "dma"
      BY <1>10, <1>12 DEF Sound
    <3>3. r.heapEnd \in HeapPage .. HeapMax
      BY <1>10, <1>12 DEF Sound
    <3> QED BY <1>10, <1>12, <2>1, <2>2, <3>1, <3>2, <3>3 DEF Booked
  <2>4. \A f \in Nat : Has(s2, f) => Has(r, f) /\ Get(r, f) = Get(s2, f)
    BY <1>11, <1>13
  <2> QED BY <1>10, <1>12, <2>3, <2>4, BookedIsStep
<1>15. Step(s, own, r, own2, ds)
  BY <1>5, <1>9, <1>14, StepsCompose
<1>16. InWindow(s, own, r, own2, ds, frame)
  BY <1>10, <1>11, <1>12, <1>15 DEF InWindow
<1>17. \A g \in Nat : Has(r, g) => g = frame \/ (Has(s, g) /\ Get(r, g) = Get(s, g))
  BY <1>11, <1>13
<1>18. HeapStays(s, r, ds, d)
  <2>1. s1.heapEnd = s.heapEnd /\ TableEntry(s1, ds, d, TableOf(s.heapEnd)) = TableEntry(s, ds, d, TableOf(s.heapEnd))
    BY <1>4 DEF TableEntry
  <2>2. \A f : Has(s1, f) = Has(s, f)
    BY <1>4, HasFacts
  <2> QED BY <1>8, <1>12, <2>1, <2>2 DEF HeapStays
<1>19. DirsKept(s, r, ds)
  BY <1>4, <1>9, <1>12 DEF DirsKept
<1> QED BY <1>1, <1>4, <1>10, <1>11, <1>12, <1>16, <1>17, <1>18, <1>19

(* A machine that stopped stays stopped, whatever is left of the call does. *)

Machine(s) ==
  /\ {"frames", "mem", "mapUsed", "window", "index", "dma", "room", "heapEnd", "state"} \subseteq DOMAIN s
  /\ s.state \in States
Goes(s, r) == Machine(r) /\ (s.state # "runs" => r.state # "runs")

\* A machine has the fields that the calls read.
LEMMA StateIsMachine == \A s \in State : Machine(s)
BY DEF State, Machine

\* kmalloc, and marking a frame.
LEMMA SmallStepsGo ==
  ASSUME NEW s, Machine(s)
  PROVE  /\ \A f : Goes(s, Mark(s, f))
         /\ \A x, i, user : Goes(s, TakePage(s, x, i, user))
         /\ \A pd : Goes(s, HeapPageTaken(s, pd))
         /\ \A pd : Goes(s, kmalloc(s, pd))
<1>1. ASSUME NEW f PROVE Goes(s, Mark(s, f))
  BY DEF Mark, Stop, Machine, Goes, States
<1>2. ASSUME NEW x, NEW i, NEW user PROVE Goes(s, TakePage(s, x, i, user))
  <2>1. CASE s.mem[x][i].frame # 0
    <3>1. TakePage(s, x, i, user) = [s EXCEPT !.mem[x][i].user = user]
      BY <2>1 DEF TakePage
    <3> QED BY <3>1 DEF Machine, Goes
  <2>2. CASE ~ (s.mem[x][i].frame # 0)
    <3> DEFINE s1 == Mark(s, FreeFrame(s))
    <3>1. TakePage(s, x, i, user) = [s1 EXCEPT !.mem[x][i] = Entry(FreeFrame(s), user)]
      BY <2>2 DEF TakePage
    <3>2. Goes(s, s1)
      BY <1>1
    <3> HIDE DEF s1
    <3> QED BY <3>1, <3>2 DEF Machine, Goes
  <2> QED BY <2>1, <2>2
<1>3. ASSUME NEW pd PROVE Goes(s, HeapPageTaken(s, pd))
  <2> DEFINE s1 == TakePage(s, TableFrame(s, pd, s.heapEnd), SlotOf(s.heapEnd), FALSE)
  <2>1. HeapPageTaken(s, pd) = [s1 EXCEPT !.heapEnd = @ + 1]
    BY DEF HeapPageTaken
  <2>2. Goes(s, s1)
    BY <1>2
  <2> HIDE DEF s1
  <2> QED BY <2>1, <2>2 DEF Machine, Goes
<1>4. ASSUME NEW pd PROVE Goes(s, kmalloc(s, pd))
  <2>1. Goes(s, [s EXCEPT !.room = @ - 1])
    BY DEF Goes, Machine
  <2>2. Goes(s, Stop(s, "heap full")) /\ Goes(s, Stop(s, "recursion"))
    BY DEF Goes, Machine, Stop, States
  <2>3. Goes(s, [HeapPageTaken(s, pd) EXCEPT !.room = PageRoom - 1])
    BY <1>3 DEF Goes, Machine
  <2> QED BY <2>1, <2>2, <2>3 DEF kmalloc
<1> QED BY <1>1, <1>2, <1>3, <1>4

\* MapWindow.
LEMMA WindowGoes ==
  ASSUME NEW s, Machine(s), NEW pd, NEW w, NEW frame
  PROVE  Goes(s, MapWindow(s, pd, w, frame))
<1> DEFINE s1 == [s EXCEPT !.frames = @ \union {frame}, !.window[w] = frame]
           s2 == IF H!hashmap_has(s.index, frame) THEN s1 ELSE kmalloc(s1, pd)
<1>1. Goes(s, s1)
  BY DEF Goes, Machine
<1>2. Goes(s, s2)
  <2> HIDE DEF s1
  <2>1. Goes(s1, kmalloc(s1, pd))
    BY <1>1, SmallStepsGo DEF Goes
  <2> QED BY <1>1, <2>1 DEF Goes
<1>3. Goes(s, Stop(s, "window overrun"))
  BY DEF Goes, Machine, Stop, States
<1>4. MapWindow(s, pd, w, frame)
        = IF w >= WindowPages THEN Stop(s, "window overrun")
          ELSE [s2 EXCEPT !.index = H!hashmap_set(@, frame, MapBase + w)]
  BY DEF MapWindow
<1>5. Goes(s, [s2 EXCEPT !.index = H!hashmap_set(@, frame, MapBase + w)])
  <2> HIDE DEF s2
  <2> QED BY <1>2 DEF Goes, Machine
<1> HIDE DEF s2
<1> QED BY <1>3, <1>4, <1>5

\* vmem_map_vaddr.
LEMMA VaddrGoes ==
  ASSUME NEW s, Machine(s), NEW pd, NEW frame
  PROVE  Goes(s, vmem_map_vaddr(s, pd, frame))
<1> DEFINE w == FindFirst(s.mapUsed, 0, MapBits)
           s0 == [s EXCEPT !.mapUsed = @ \union {w}]
<1>1. Goes(s, s0) /\ Goes(s, s)
  BY DEF Goes, Machine
<1>2. Goes(s, MapWindow(s0, pd, w, frame))
  <2> HIDE DEF s0, w
  <2> QED BY <1>1, WindowGoes DEF Goes
<1> QED BY <1>1, <1>2 DEF vmem_map_vaddr

\* A new table.
LEMMA NewTableGoes ==
  ASSUME NEW s, Machine(s), NEW pd, NEW t, NEW user
  PROVE  Goes(s, NewTable(s, pd, t, user))
<1> DEFINE f == FreeFrame(s)
           s1 == vmem_map_vaddr(Mark(s, f), pd, f)
<1>1. Goes(s, s1)
  <2>1. Goes(s, Mark(s, f))
    BY SmallStepsGo
  <2>2. Goes(Mark(s, f), s1)
    BY <2>1, VaddrGoes DEF Goes
  <2> QED BY <2>1, <2>2 DEF Goes
<1>2. NewTable(s, pd, t, user)
        = IF s1.state # "runs" THEN s1
          ELSE [s1 EXCEPT !.mem = [Put(@, Shown(s1, f), Blank) EXCEPT ![pd][t] = Entry(f, user)]]
  BY DEF NewTable
<1> HIDE DEF s1, f
<1> QED BY <1>1, <1>2 DEF Goes, Machine

\* vmem_get_page.
LEMMA GetPageGoes ==
  ASSUME NEW s, Machine(s), NEW pd, NEW v, NEW user
  PROVE  Goes(s, vmem_get_page(s, pd, v, user))
<1> DEFINE s1 == IF s.mem[pd][TableOf(v)].frame = 0 THEN NewTable(s, pd, TableOf(v), user) ELSE s
<1>1. Goes(s, s1)
  <2>1. Goes(s, s)
    BY DEF Goes
  <2> QED BY <2>1, NewTableGoes
<1>2. vmem_get_page(s, pd, v, user)
        = IF s1.state # "runs" THEN s1 ELSE vmem_map_vaddr(s1, pd, s1.mem[pd][TableOf(v)].frame)
  BY DEF vmem_get_page
<1> HIDE DEF s1
<1>3. Goes(s1, vmem_map_vaddr(s1, pd, s1.mem[pd][TableOf(v)].frame))
  BY <1>1, VaddrGoes DEF Goes
<1> QED BY <1>1, <1>2, <1>3 DEF Goes

\* Only pages of the window are marked in its bitmap.
Bounded(s) == s.mapUsed \subseteq 0 .. WindowPages - 1

\* vmem_map_vaddr
LEMMA VaddrSteps ==
  ASSUME NEW s, NEW ds, NEW own, Sound(s, ds, own), s.state = "runs", Bounded(s), NEW d \in DOMAIN ds,
         NEW frame \in Nat, frame # 0,
         NEW r, r = vmem_map_vaddr(s, ds[d].paddr, frame), r.state = "runs"
  PROVE  /\ Bounded(r) /\ HeapStays(s, r, ds, d) /\ DirsKept(s, r, ds)
         /\ \E own2 : InWindow(s, own, r, own2, ds, frame)
<1>0. s \in State /\ own \in [Nat -> OwnerSet]
  BY DEF Sound
<1>1. CASE Has(s, frame)
  <2>1. r = s
    BY <1>1 DEF vmem_map_vaddr, Has
  <2>2. InWindow(s, own, r, own, ds, frame)
    BY <1>1, <2>1, StepStays, ShownIs DEF InWindow
  <2> QED BY <2>1, <2>2 DEF HeapStays, DirsKept
<1>2. CASE ~ Has(s, frame)
  <2> DEFINE w == FindFirst(s.mapUsed, 0, MapBits)
             s0 == [s EXCEPT !.mapUsed = @ \union {w}]
  <2>1. w \in Nat /\ w \notin s.mapUsed
    BY WindowPageFound DEF Bounded
  <2>2. r = MapWindow(s0, ds[d].paddr, w, frame)
    BY <1>2 DEF vmem_map_vaddr, Has
  <2> HIDE DEF w
  <2>3. /\ s0 \in State /\ s0.mem = s.mem /\ s0.heapEnd = s.heapEnd /\ s0.frames = s.frames
        /\ s0.dma = s.dma /\ s0.index = s.index /\ s0.mapUsed = s.mapUsed \union {w} /\ s0.state = "runs"
        /\ s0.window = s.window
    BY <1>0, <2>1 DEF State
  <2> HIDE DEF s0
  <2>4. \A f : Has(s0, f) = Has(s, f) /\ Get(s0, f) = Get(s, f)
    BY <2>3, HasFacts
  <2>5. Step(s, own, s0, own, ds)
    <3>1. IndexSound(s0)
      BY <2>3, <2>4 DEF Sound, IndexSound
    <3>2. DirsShown(s0, ds)
      BY <2>4 DEF Sound, DirsShown
    <3>3. /\ \A f \in Nat : own[f].kind # "none" => f \in s0.frames
          /\ \A f \in s0.dma : own[f].kind = "dma"
          /\ s0.heapEnd \in HeapPage .. HeapMax
      BY <2>3 DEF Sound
    <3>4. Booked(s, s0, ds, own, own)
      BY <1>0, <2>3, <3>1, <3>2, <3>3 DEF Booked
    <3> QED BY <2>3, <2>4, <3>4, BookedIsStep
  <2>6. Fresh(s0, w)
    <3>1. SUFFICES ASSUME NEW g \in Nat, Has(s, g) PROVE Get(s, g) # MapBase + w
      BY <2>4 DEF Fresh
    <3>2. PICK y \in s.mapUsed \intersect (0 .. WindowPages - 1) : Get(s, g) = MapBase + y
      BY <3>1 DEF Sound, IndexSound
    <3> QED BY <2>1, <3>2 DEF MapBase
  <2>7. Sound(s0, ds, own)
    BY <2>5 DEF Step
  <2>8. w \in s0.mapUsed /\ ~ Has(s0, frame)
    BY <1>2, <2>3, <2>4
  <2>9. /\ w < WindowPages /\ r.mapUsed = s0.mapUsed /\ HeapStays(s0, r, ds, d) /\ DirsKept(s0, r, ds)
        /\ \E own2 : InWindow(s0, own, r, own2, ds, frame)
    BY <2>1, <2>2, <2>3, <2>6, <2>7, <2>8, WindowSteps
  <2>10. PICK own2 : InWindow(s0, own, r, own2, ds, frame)
    BY <2>9
  <2>11. InWindow(s, own, r, own2, ds, frame)
    BY <2>5, <2>10, StepsCompose DEF InWindow
  <2>12. Bounded(r)
    BY <2>1, <2>3, <2>9, Constants DEF Bounded
  <2>13. HeapStays(s, r, ds, d) /\ DirsKept(s, r, ds)
    <3>1. TableEntry(s0, ds, d, TableOf(s.heapEnd)) = TableEntry(s, ds, d, TableOf(s.heapEnd))
      BY <2>3 DEF TableEntry
    <3> QED BY <2>3, <2>4, <2>9, <3>1 DEF HeapStays, DirsKept
  <2> QED BY <2>11, <2>12, <2>13
<1> QED BY <1>1, <1>2

-----------------------------------------------------------------------------
(* Tables. *)

\* The table of page v is there, in directory d, and in the window.
Reachable(s, ds, d, v) ==
  LET x == TableEntry(s, ds, d, TableOf(v)).frame
  IN x # 0 /\ Has(s, x)

\* vmem_frame_find_first, vmem_frame_set, vmem_map_vaddr: s1 has the free frame f in the window.
TakenInto(s, own, s1, own2, ds, f) ==
  /\ Step(s, own, s1, own2, ds) /\ Unused(own2, f)
  /\ f \in Nat \ {0} /\ f \notin s.frames /\ f \in s1.frames /\ Has(s1, f)

\* A free frame is marked and gets into the window.
LEMMA FreshFrameSteps ==
  ASSUME NEW s, NEW ds, NEW own, Sound(s, ds, own), s.state = "runs", Bounded(s), NEW d \in DOMAIN ds,
         NEW f, f = FreeFrame(s), NEW s1, s1 = vmem_map_vaddr(Mark(s, f), ds[d].paddr, f), s1.state = "runs"
  PROVE  /\ Bounded(s1) /\ HeapStays(s, s1, ds, d) /\ DirsKept(s, s1, ds)
         /\ \E own2 : TakenInto(s, own, s1, own2, ds, f)
<1> DEFINE s0 == Mark(s, f)
<1>0. s \in State /\ own \in [Nat -> OwnerSet]
  BY DEF Sound
<1>1. s1 = vmem_map_vaddr(s0, ds[d].paddr, f)
  OBVIOUS
<1>2. HasFree(s.frames, FirstFrame, FrameCount)
  <2>1. SUFFICES ASSUME ~ HasFree(s.frames, FirstFrame, FrameCount) PROVE FALSE
    OBVIOUS
  <2>2. Machine(s0) /\ s0.state # "runs"
    <3>1. s0 = Stop(s, "out of memory")
      BY <2>1 DEF Mark
    <3>2. Machine(s0)
      BY <1>0, StateIsMachine, SmallStepsGo DEF Goes
    <3> HIDE DEF s0
    <3> QED BY <1>0, <3>1, <3>2 DEF State, Stop
  <2> HIDE DEF s0
  <2> QED BY <1>1, <2>2, VaddrGoes DEF Goes
<1>3. f \in Nat \ {0} /\ f \notin s.frames /\ own[f].kind = "none"
  BY <1>2, FreeHasNoOwner
<1>4. s0 = [s EXCEPT !.frames = @ \union {f}]
  BY <1>2 DEF Mark
<1> HIDE DEF s0
<1>5. /\ s0 \in State /\ s0.mem = s.mem /\ s0.frames = s.frames \union {f} /\ s0.state = "runs"
      /\ s0.dma = s.dma /\ s0.heapEnd = s.heapEnd /\ Quiet(s, s0)
  BY <1>0, <1>3, <1>4 DEF State, Quiet
<1>6. \A g : Has(s0, g) = Has(s, g) /\ Get(s0, g) = Get(s, g)
  BY <1>5, HasFacts DEF Quiet
<1> DEFINE own1 == [own EXCEPT ![f] = [kind |-> "spare", who |-> "kernel", at |-> 0]]
<1>7. own1 \in [Nat -> OwnerSet] /\ own1[f].kind = "spare" /\ \A g \in Nat \ {f} : own1[g] = own[g]
  BY <1>0, <1>3 DEF OwnerSet, DirNames
<1> HIDE DEF own1
<1>8. Step(s, own, s0, own1, ds)
  <2>1. IndexSound(s0)
    BY <1>5, <1>6 DEF Sound, IndexSound, Quiet
  <2>2. DirsShown(s0, ds)
    BY <1>6 DEF Sound, DirsShown
  <2>3. /\ \A g \in Nat : own1[g].kind # "none" => g \in s0.frames
        /\ s0.heapEnd \in HeapPage .. HeapMax
    BY <1>5, <1>7 DEF Sound
  <2>4. \A g \in Nat : ~ Unused(own, g) => own1[g] = own[g]
    BY <1>3, <1>7 DEF Unused
  <2>5. \A g \in s0.dma : own1[g].kind = "dma"
    <3>1. \A g \in s.dma : g \in Nat /\ own[g].kind = "dma"
      BY <1>0 DEF Sound, State
    <3> QED BY <1>3, <1>5, <1>7, <3>1
  <2>6. Booked(s, s0, ds, own, own1)
    BY <1>5, <1>7, <2>1, <2>2, <2>3, <2>4, <2>5 DEF Booked
  <2>7. \A g \in s.frames : own1[g] = own[g]
    BY <1>0, <1>3, <1>7 DEF State
  <2> QED BY <1>5, <1>6, <2>6, <2>7, BookedIsStep
<1>9. Sound(s0, ds, own1) /\ Bounded(s0)
  BY <1>5, <1>8 DEF Step, Bounded, Quiet
<1>10. /\ Bounded(s1) /\ HeapStays(s0, s1, ds, d) /\ DirsKept(s0, s1, ds)
       /\ \E own2 : InWindow(s0, own1, s1, own2, ds, f)
  BY <1>1, <1>3, <1>5, <1>9, VaddrSteps
<1>11. PICK own2 : InWindow(s0, own1, s1, own2, ds, f)
  BY <1>10
<1>12. /\ Step(s, own, s1, own2, ds) /\ Sound(s1, ds, own2) /\ Has(s1, f) /\ f \in s1.frames
       /\ own2[f] = own1[f] /\ own2 \in [Nat -> OwnerSet] /\ s1 \in State
  <2>1. Step(s0, own1, s1, own2, ds)
    BY <1>11 DEF InWindow
  <2>2. Step(s, own, s1, own2, ds)
    BY <1>8, <2>1, StepsCompose
  <2>3. Sound(s1, ds, own2)
    BY <2>2 DEF Step
  <2> QED BY <1>11, <2>2, <2>3 DEF InWindow, Sound
<1>13. Unused(own2, f)
  BY <1>7, <1>12 DEF Unused
<1>14. TakenInto(s, own, s1, own2, ds, f)
  BY <1>3, <1>12, <1>13 DEF TakenInto
<1>15. HeapStays(s, s1, ds, d) /\ DirsKept(s, s1, ds)
  <2>1. TableEntry(s0, ds, d, TableOf(s.heapEnd)) = TableEntry(s, ds, d, TableOf(s.heapEnd))
    BY <1>5 DEF TableEntry
  <2> QED BY <1>5, <1>6, <1>10, <2>1 DEF HeapStays, DirsKept
<1> QED BY <1>10, <1>14, <1>15

\* A new table is there, reachable, and its owner is who asked for it.
LEMMA NewTableSteps ==
  ASSUME NEW s, NEW ds, NEW own, Sound(s, ds, own), s.state = "runs", Bounded(s), NEW d \in DOMAIN ds,
         NEW t \in Tables, TableEntry(s, ds, d, t).frame = 0,
         NEW user \in BOOLEAN, t \in UserTables => user /\ d # "kernel",
         NEW r, r = NewTable(s, ds[d].paddr, t, user), r.state = "runs"
  PROVE  /\ Bounded(r) /\ HeapStays(s, r, ds, d)
         /\ \E own2 : Step(s, own, r, own2, ds)
         /\ TableEntry(r, ds, d, t).frame \in Nat \ {0} /\ Has(r, TableEntry(r, ds, d, t).frame)
<1> DEFINE f == FreeFrame(s)
           pd == ds[d].paddr
           s1 == vmem_map_vaddr(Mark(s, f), pd, f)
<1>0. s \in State /\ own \in [Nat -> OwnerSet]
  BY DEF Sound
<1>1. s1.state = "runs" /\ r = [s1 EXCEPT !.mem = [Put(@, Shown(s1, f), Blank) EXCEPT ![pd][t] = Entry(f, user)]]
  <2>1. r = IF s1.state # "runs" THEN s1
            ELSE [s1 EXCEPT !.mem = [Put(@, Shown(s1, f), Blank) EXCEPT ![pd][t] = Entry(f, user)]]
    BY DEF NewTable
  <2> HIDE DEF s1
  <2> QED BY <2>1
<1>2. /\ Bounded(s1) /\ HeapStays(s, s1, ds, d) /\ DirsKept(s, s1, ds)
      /\ \E own2 : TakenInto(s, own, s1, own2, ds, f)
  <2>1. s1 = vmem_map_vaddr(Mark(s, f), ds[d].paddr, f) /\ f = FreeFrame(s)
    OBVIOUS
  <2> HIDE DEF s1, f, pd
  <2> QED BY <1>1, <2>1, FreshFrameSteps
<1> HIDE DEF s1, f
<1>3. PICK own2 : TakenInto(s, own, s1, own2, ds, f)
  BY <1>2
<1>12. /\ Step(s, own, s1, own2, ds) /\ Sound(s1, ds, own2) /\ Has(s1, f) /\ f \in s1.frames
       /\ f \in Nat \ {0} /\ f \notin s.frames
       /\ own2 \in [Nat -> OwnerSet] /\ s1 \in State
  BY <1>3 DEF TakenInto, Step, Sound
<1>13. Unused(own2, f)
  BY <1>3 DEF TakenInto
<1>14. Shown(s1, f) = f
  BY <1>12, ShownIs
<1>15. r = WithTable(s1, pd, t, f, user)
  BY <1>1, <1>14 DEF WithTable
<1>16. TableEntry(s1, ds, d, t).frame = 0
  BY <1>2 DEF TableEntry, DirsKept
<1> DEFINE own3 == Owned(own2, f, OwnTable(d, t))
<1>17. /\ Sound(r, ds, own3)
       /\ \A b \in DOMAIN ds, v \in Pages : Mapped(r, ds, b, v) = Mapped(s1, ds, b, v)
       /\ TableEntry(r, ds, d, t) = Entry(f, user)
  <2>1. own3 = Owned(own2, f, OwnTable(d, t))
    OBVIOUS
  <2>2. r = WithTable(s1, ds[d].paddr, t, f, user)
    BY <1>15
  <2>3. Sound(s1, ds, own2) /\ f \in s1.frames
    BY <1>12
  <2> HIDE DEF own3, pd
  <2> QED BY <1>12, <1>13, <1>16, <2>1, <2>2, <2>3, PutTable
<1>18. \A g \in Nat \ {f} : own3[g] = own2[g]
  BY <1>12 DEF Owned
<1> HIDE DEF own3
<1>19. /\ r.frames = s1.frames /\ r.dma = s1.dma /\ r.heapEnd = s1.heapEnd /\ Quiet(s1, r)
  BY <1>12, <1>15 DEF WithTable, State, Quiet
<1>20. \A g : Has(r, g) = Has(s1, g) /\ Get(r, g) = Get(s1, g)
  BY <1>19, HasFacts DEF Quiet
<1>21. Kept(s, r, ds)
  BY <1>12, <1>17, <1>19 DEF Step, Kept
<1>22. \A g \in s.frames : own3[g] = own[g]
  <2>1. \A g \in s.frames : g \in Nat \ {f} /\ own2[g] = own[g]
    BY <1>0, <1>12 DEF State, Step
  <2> QED BY <1>18, <2>1
<1>23. Step(s, own, r, own3, ds)
  <2>1. s.frames \subseteq r.frames /\ r.dma = s.dma
    BY <1>12, <1>19 DEF Step
  <2>2. \A g \in Nat : Has(s, g) => Has(r, g) /\ Get(r, g) = Get(s, g)
    BY <1>12, <1>20 DEF Step
  <2> QED BY <1>17, <1>21, <1>22, <2>1, <2>2 DEF Step
<1>24. HeapStays(s, r, ds, d)
  BY <1>2, <1>19 DEF HeapStays
<1>25. TableEntry(r, ds, d, t).frame = f
  BY <1>17 DEF Entry
<1>26. Bounded(r)
  BY <1>2, <1>19 DEF Bounded, Quiet
<1> QED BY <1>12, <1>20, <1>23, <1>24, <1>25, <1>26

\* The program's half of a directory: not the kernel's, and for the program.
MayTake(d, v, user) == TableOf(v) \in UserTables => user /\ d # "kernel"

\* vmem_get_page with VMEM_GET_CREATE
LEMMA GetPageSteps ==
  ASSUME NEW s, NEW ds, NEW own, Sound(s, ds, own), s.state = "runs", Bounded(s), NEW d \in DOMAIN ds,
         NEW v \in Pages, NEW user \in BOOLEAN, MayTake(d, v, user),
         NEW r, r = vmem_get_page(s, ds[d].paddr, v, user), r.state = "runs"
  PROVE  /\ Bounded(r) /\ Reachable(r, ds, d, v)
         /\ \E own2 : Step(s, own, r, own2, ds)
         /\ v = s.heapEnd => r.heapEnd = s.heapEnd
<1> DEFINE t == TableOf(v)
           pd == ds[d].paddr
           s1 == IF s.mem[pd][t].frame = 0 THEN NewTable(s, pd, t, user) ELSE s
<1>1. t \in Tables
  BY PageParts
<1>2. s1.state = "runs" /\ r = vmem_map_vaddr(s1, pd, s1.mem[pd][t].frame)
  <2>1. r = IF s1.state # "runs" THEN s1 ELSE vmem_map_vaddr(s1, pd, s1.mem[pd][t].frame)
    BY DEF vmem_get_page
  <2> HIDE DEF s1
  <2> QED BY <2>1
<1>3. ~ Has(s, 0)
  BY DEF Sound, IndexSound
<1>4. CASE TableEntry(s, ds, d, t).frame = 0
  <2>1. s1 = NewTable(s, pd, t, user)
    BY <1>4 DEF TableEntry
  <2> HIDE DEF s1, t
  <2>2. /\ Bounded(s1) /\ HeapStays(s, s1, ds, d)
        /\ \E own2 : Step(s, own, s1, own2, ds)
        /\ TableEntry(s1, ds, d, t).frame \in Nat \ {0} /\ Has(s1, TableEntry(s1, ds, d, t).frame)
    <3>1. t \in UserTables => user /\ d # "kernel"
      BY DEF t, MayTake
    <3> QED BY <1>1, <1>2, <1>4, <2>1, <3>1, NewTableSteps
  <2>3. r = s1
    BY <1>2, <2>2 DEF vmem_map_vaddr, Has, TableEntry
  <2> QED BY <1>3, <1>4, <2>2, <2>3 DEF Reachable, HeapStays, t
<1>5. CASE TableEntry(s, ds, d, t).frame # 0
  <2> DEFINE x == TableEntry(s, ds, d, t).frame
  <2>1. s1 = s
    BY <1>5 DEF TableEntry
  <2>2. r = vmem_map_vaddr(s, pd, x)
    BY <1>2, <2>1 DEF TableEntry
  <2>3. x \in Nat /\ x # 0
    BY <1>1, <1>5, EntryTypes DEF EntrySet
  <2> HIDE DEF x, s1, t
  <2>4. /\ Bounded(r) /\ HeapStays(s, r, ds, d) /\ DirsKept(s, r, ds)
        /\ \E own2 : InWindow(s, own, r, own2, ds, x)
    BY <2>2, <2>3, VaddrSteps
  <2>5. (\E own2 : Step(s, own, r, own2, ds)) /\ Has(r, x)
    BY <2>4 DEF InWindow
  <2>6. TableEntry(r, ds, d, t).frame = x
    BY <2>4 DEF x, DirsKept, TableEntry
  <2>7. v = s.heapEnd => r.heapEnd = s.heapEnd
    <3>1. CASE Has(s, x)
      BY <2>2, <3>1 DEF vmem_map_vaddr, Has
    <3>2. CASE ~ Has(s, x)
      BY <2>4, <3>2 DEF HeapStays, x, t
    <3> QED BY <3>1, <3>2
  <2> QED BY <2>3, <2>4, <2>5, <2>6, <2>7 DEF Reachable, t
<1> QED BY <1>4, <1>5

(* The steps of the specification. *)

\* What a step may do to the pages of the directories that there are.
MapsKept(s, ds, cur, r, ds2, ask) ==
  \A d \in DOMAIN ds, v \in Pages :
    \/ Mapped(r, ds2, d, v) = Mapped(s, ds, d, v)
    \/ Mapped(s, ds, d, v) = 0 /\ v \in s.heapEnd .. r.heapEnd - 1
    \/ /\ v \in ask /\ (d = cur \/ TableOf(v) \notin UserTables)
       /\ Mapped(s, ds, d, v) = 0 \/ Mapped(r, ds2, d, v) \in Devices

\* The invariant, for a machine, its directories and the current one.
MemorySound(s, ds, cur) == cur \in DOMAIN ds /\ Bounded(s) /\ \E own : Sound(s, ds, own)

\* A move of the system.
Moves(s, ds, cur, r, ds2, cur2, ask) ==
  MemorySound(r, ds2, cur2) /\ MapsKept(s, ds, cur, r, ds2, ask)

\* current_pd is the address of the current directory.
LEMMA CurrentAddress ==
  ASSUME NEW s, NEW ds, NEW own, Sound(s, ds, own), NEW d \in DOMAIN ds
  PROVE  DirFrame(s, ds, d) = ds[d].paddr
<1>1. CASE d = "kernel"
  BY <1>1 DEF Sound, DirFrame
<1>2. CASE d # "kernel"
  <2>1. Has(s, ds[d].paddr) /\ Get(s, ds[d].paddr) = ds[d].pts /\ ds[d].paddr \in Nat
    BY <1>2, EntryTypes DEF Sound, DirsShown
  <2>2. Shown(s, ds[d].paddr) = ds[d].paddr
    BY <2>1, ShownIs
  <2> QED BY <1>2, <2>1, <2>2 DEF DirFrame, Shown, Get
<1> QED BY <1>1, <1>2

\* A machine that stops leaves everything where it is.
LEMMA StopMoves ==
  ASSUME NEW s, NEW ds, NEW cur, MemorySound(s, ds, cur), NEW why \in States, NEW ask,
         NEW r, r = [s EXCEPT !.state = why]
  PROVE  Moves(s, ds, cur, r, ds, cur, ask)
<1>1. PICK own : Sound(s, ds, own)
  BY DEF MemorySound
<1>2. s \in State /\ own \in [Nat -> OwnerSet]
  BY <1>1 DEF Sound
<1>3. /\ r \in State /\ r.mem = s.mem /\ r.heapEnd = s.heapEnd /\ r.frames = s.frames
      /\ r.dma = s.dma /\ Quiet(s, r)
  BY <1>2 DEF State, Quiet
<1>4. \A f : Has(r, f) = Has(s, f) /\ Get(r, f) = Get(s, f)
  BY <1>3, HasFacts DEF Quiet
<1>5. Step(s, own, r, own, ds)
  <2>1. IndexSound(r)
    BY <1>1, <1>3, <1>4 DEF Sound, IndexSound, Quiet
  <2>2. DirsShown(r, ds)
    BY <1>1, <1>4 DEF Sound, DirsShown
  <2>3. /\ \A f \in Nat : own[f].kind # "none" => f \in r.frames
        /\ \A f \in r.dma : own[f].kind = "dma"
        /\ r.heapEnd \in HeapPage .. HeapMax
    BY <1>1, <1>3 DEF Sound
  <2>4. Booked(s, r, ds, own, own)
    BY <1>2, <1>3, <2>1, <2>2, <2>3 DEF Booked
  <2> QED BY <1>1, <1>3, <1>4, <2>4, BookedIsStep
<1>6. Bounded(r) /\ cur \in DOMAIN ds
  BY <1>3 DEF MemorySound, Bounded, Quiet
<1>7. MapsKept(s, ds, cur, r, ds, ask)
  BY <1>5 DEF Step, Kept, MapsKept
<1> QED BY <1>5, <1>6, <1>7 DEF Moves, MemorySound, Step

\* A step that keeps its directories is a move.
LEMMA StepMoves ==
  ASSUME NEW s, NEW ds, NEW cur \in DOMAIN ds, NEW own, NEW own2, NEW r, Step(s, own, r, own2, ds),
         Bounded(r), NEW ask
  PROVE  Moves(s, ds, cur, r, ds, cur, ask)
<1>1. MapsKept(s, ds, cur, r, ds, ask)
  BY DEF Step, Kept, MapsKept
<1> QED BY <1>1 DEF Moves, MemorySound, Step

\* What After makes of a call.
Outcome(s, r) == IF r.state = "runs" THEN r ELSE [s EXCEPT !.state = r.state]

\* A call that moves, or stops, does so after After.
LEMMA OutcomeMoves ==
  ASSUME NEW s, NEW ds, NEW cur, MemorySound(s, ds, cur), NEW ask, NEW r, Machine(r),
         r.state = "runs" => Moves(s, ds, cur, r, ds, cur, ask)
  PROVE  Moves(s, ds, cur, Outcome(s, r), ds, cur, ask)
<1>1. CASE r.state = "runs"
  BY <1>1 DEF Outcome
<1>2. CASE r.state # "runs"
  <2>1. Outcome(s, r) = [s EXCEPT !.state = r.state] /\ r.state \in States
    BY <1>2 DEF Outcome, Machine
  <2> QED BY <2>1, StopMoves
<1> QED BY <1>1, <1>2

\* kmalloc.
LEMMA KmallocMoves ==
  ASSUME NEW s, NEW ds, NEW cur, MemorySound(s, ds, cur), s.state = "runs",
         NEW r, r = kmalloc(s, ds[cur].paddr)
  PROVE  Moves(s, ds, cur, Outcome(s, r), ds, cur, {})
<1>1. PICK own : Sound(s, ds, own)
  BY DEF MemorySound
<1>2. Machine(r)
  BY <1>1, StateIsMachine, SmallStepsGo DEF Sound, Goes
<1>3. cur \in DOMAIN ds /\ Bounded(s)
  BY DEF MemorySound
<1>4. ASSUME r.state = "runs"
      PROVE  Moves(s, ds, cur, r, ds, cur, {})
  <2>1. PICK own2 : Step(s, own, r, own2, ds) /\ Quiet(s, r)
    BY <1>1, <1>3, <1>4, KmallocSteps
  <2>2. Bounded(r)
    BY <1>3, <2>1 DEF Bounded, Quiet
  <2> QED BY <1>3, <2>1, <2>2, StepMoves
<1> QED BY <1>2, <1>4, OutcomeMoves

\* vmem_map_vaddr.
LEMMA VaddrMoves ==
  ASSUME NEW s, NEW ds, NEW cur, MemorySound(s, ds, cur), s.state = "runs",
         NEW frame \in Nat, frame # 0,
         NEW r, r = vmem_map_vaddr(s, ds[cur].paddr, frame)
  PROVE  Moves(s, ds, cur, Outcome(s, r), ds, cur, {})
<1>1. PICK own : Sound(s, ds, own)
  BY DEF MemorySound
<1>2. Machine(r)
  BY <1>1, StateIsMachine, VaddrGoes DEF Sound, Goes
<1>3. cur \in DOMAIN ds /\ Bounded(s)
  BY DEF MemorySound
<1>4. ASSUME r.state = "runs"
      PROVE  Moves(s, ds, cur, r, ds, cur, {})
  <2>1. Bounded(r) /\ \E own2 : InWindow(s, own, r, own2, ds, frame)
    BY <1>1, <1>3, <1>4, VaddrSteps
  <2>2. PICK own2 : Step(s, own, r, own2, ds)
    BY <2>1 DEF InWindow
  <2> QED BY <1>3, <2>1, <2>2, StepMoves
<1> QED BY <1>2, <1>4, OutcomeMoves

\* vmem_heap_expand.
LEMMA HeapMoves ==
  ASSUME NEW s, NEW ds, NEW cur, MemorySound(s, ds, cur), s.state = "runs", s.heapEnd < HeapMax,
         NEW no \in BOOLEAN, ~ no, NEW s1, s1 = vmem_get_page(s, ds[cur].paddr, s.heapEnd, no), NEW room \in Nat,
         NEW r, r = IF s1.state # "runs" THEN s1 ELSE HeapGrown(s1, ds[cur].paddr, room)
  PROVE  Moves(s, ds, cur, Outcome(s, r), ds, cur, {})
<1>1. PICK own : Sound(s, ds, own)
  BY DEF MemorySound
<1>2. Machine(s1)
  BY <1>1, StateIsMachine, GetPageGoes DEF Sound, Goes
<1>3. Machine(r)
  <2>1. Machine(HeapPageTaken(s1, ds[cur].paddr))
    BY <1>2, SmallStepsGo DEF Goes
  <2>2. Machine(HeapGrown(s1, ds[cur].paddr, room))
    BY <2>1 DEF Machine, HeapGrown
  <2> QED BY <1>2, <2>2
<1>4. cur \in DOMAIN ds /\ Bounded(s)
  BY DEF MemorySound
<1>5. ASSUME r.state = "runs"
      PROVE  Moves(s, ds, cur, r, ds, cur, {})
  <2>1. s1.state = "runs" /\ r = HeapGrown(s1, ds[cur].paddr, room)
    BY <1>5
  <2>2. TableOf(s.heapEnd) \in KernelTables /\ TableOf(s.heapEnd) \notin UserTables
        /\ s.heapEnd \in Pages
    <3>1. s.heapEnd \in HeapPage .. HeapMax - 1 /\ s.heapEnd \in Nat
      BY <1>1, Constants DEF Sound
    <3>2. TableOf(s.heapEnd) \in KernelTables
      BY <3>1, VmemAssumption
    <3> QED BY <3>1, <3>2, PageParts, VmemAssumption DEF Tables
  <2> DEFINE v == s.heapEnd
  <2>3. /\ Bounded(s1) /\ Reachable(s1, ds, cur, v)
        /\ \E own1 : Step(s, own, s1, own1, ds)
        /\ s1.heapEnd = v
    <3>1. v \in Pages /\ MayTake(cur, v, no)
      BY <2>2 DEF MayTake
    <3>2. s1 = vmem_get_page(s, ds[cur].paddr, v, no) /\ v = s.heapEnd
      OBVIOUS
    <3> HIDE DEF v
    <3>3. /\ Bounded(s1) /\ Reachable(s1, ds, cur, v)
          /\ \E own1 : Step(s, own, s1, own1, ds)
          /\ v = s.heapEnd => s1.heapEnd = s.heapEnd
      BY <1>1, <1>4, <2>1, <3>1, <3>2, GetPageSteps
    <3> QED BY <3>2, <3>3
  <2>4. PICK own1 : Step(s, own, s1, own1, ds)
    BY <2>3
  <2>5. Has(s1, TableEntry(s1, ds, cur, TableOf(s1.heapEnd)).frame) /\ s1.heapEnd # HeapMax
        /\ Sound(s1, ds, own1)
    <3>1. s.heapEnd \in Nat
      BY <1>1, Constants DEF Sound
    <3>2. s1.heapEnd # HeapMax
      <4>1. s1.heapEnd = s.heapEnd
        BY <2>3
      <4>2. HeapMax \in Nat
        BY Constants
      <4> QED BY <3>1, <4>1, <4>2
    <3>3. Sound(s1, ds, own1)
      BY <2>4 DEF Step
    <3>4. Has(s1, TableEntry(s1, ds, cur, TableOf(s1.heapEnd)).frame)
      BY <2>3 DEF Reachable
    <3> QED BY <3>2, <3>3, <3>4
  <2>6. PICK own2 : Step(s1, own1, r, own2, ds) /\ Quiet(s1, r)
    BY <1>4, <1>5, <2>1, <2>5, HeapPageSteps
  <2>7. Step(s, own, r, own2, ds)
    BY ONLY <2>4, <2>6, StepsCompose
  <2>8. Bounded(r)
    BY <2>3, <2>6 DEF Bounded, Quiet
  <2> QED BY <1>4, <2>7, <2>8, StepMoves
<1> QED BY <1>3, <1>5, OutcomeMoves

\* s with f as a page of the drive's.
DmaTaken(s, f) == [s EXCEPT !.dma = @ \union {f}]

\* A page for the drive.
LEMMA DmaMoves ==
  ASSUME NEW s, NEW ds, NEW cur, MemorySound(s, ds, cur), s.state = "runs",
         NEW f, f = FreeFrame(s), NEW s1, s1 = vmem_map_vaddr(Mark(s, f), ds[cur].paddr, f),
         NEW r, r = DmaTaken(s1, f)
  PROVE  Moves(s, ds, cur, Outcome(s, r), ds, cur, {})
<1>1. PICK own : Sound(s, ds, own)
  BY DEF MemorySound
<1>2. Machine(s1)
  <2>1. Machine(Mark(s, f))
    BY <1>1, StateIsMachine, SmallStepsGo DEF Sound, Goes
  <2> QED BY <2>1, VaddrGoes DEF Goes
<1>3. Machine(r) /\ r.state = s1.state
  BY <1>2 DEF Machine, DmaTaken
<1>4. cur \in DOMAIN ds /\ Bounded(s)
  BY DEF MemorySound
<1>5. ASSUME r.state = "runs"
      PROVE  Moves(s, ds, cur, r, ds, cur, {})
  <2>1. Bounded(s1) /\ \E own2 : TakenInto(s, own, s1, own2, ds, f)
    BY <1>1, <1>3, <1>4, <1>5, FreshFrameSteps
  <2>2. PICK own2 : TakenInto(s, own, s1, own2, ds, f)
    BY <2>1
  <2>3. /\ Step(s, own, s1, own2, ds) /\ Sound(s1, ds, own2) /\ s1 \in State
        /\ own2 \in [Nat -> OwnerSet] /\ f \in Nat /\ f \in s1.frames /\ Unused(own2, f)
    BY <2>2 DEF TakenInto, Step, Sound
  <2> DEFINE o == [kind |-> "dma", who |-> "kernel", at |-> 0]
             own3 == [own2 EXCEPT ![f] = o]
  <2>4. own3 \in [Nat -> OwnerSet] /\ own3[f].kind = "dma" /\ \A g \in Nat \ {f} : own3[g] = own2[g]
    <3>1. o \in OwnerSet /\ o.kind = "dma"
      BY DEF OwnerSet, DirNames
    <3> HIDE DEF o
    <3> QED BY <2>3, <3>1
  <2> HIDE DEF own3
  <2>5. /\ r \in State /\ r.mem = s1.mem /\ r.heapEnd = s1.heapEnd /\ r.frames = s1.frames
        /\ r.dma = s1.dma \union {f} /\ Quiet(s1, r)
    BY <2>3 DEF State, Quiet, DmaTaken
  <2>6. \A g : Has(r, g) = Has(s1, g) /\ Get(r, g) = Get(s1, g)
    BY <2>5, HasFacts DEF Quiet
  <2>7. Booked(s1, r, ds, own2, own3)
    <3>1. IndexSound(r)
      BY <2>3, <2>5, <2>6 DEF Sound, IndexSound, Quiet
    <3>2. DirsShown(r, ds)
      BY <2>3, <2>6 DEF Sound, DirsShown
    <3>3. \A g \in Nat : own3[g].kind # "none" => g \in r.frames
      BY <2>3, <2>4, <2>5 DEF Sound
    <3>4. r.heapEnd \in HeapPage .. HeapMax
      BY <2>3, <2>5 DEF Sound
    <3>5. \A g \in r.dma : own3[g].kind = "dma"
      <4>1. \A g \in s1.dma : g \in Nat /\ own2[g].kind = "dma"
        BY <2>3 DEF Sound, State
      <4> QED BY <2>4, <2>5, <4>1
    <3>6. \A g \in Nat : ~ Unused(own2, g) => own3[g] = own2[g]
      BY <2>3, <2>4
    <3> QED BY <2>4, <2>5, <3>1, <3>2, <3>3, <3>4, <3>5, <3>6 DEF Booked
  <2>8. Sound(r, ds, own3)
        /\ \A d \in DOMAIN ds, v \in Pages : Mapped(r, ds, d, v) = Mapped(s1, ds, d, v)
    BY <2>3, <2>7, BookedSteps
  <2>9. MapsKept(s, ds, cur, r, ds, {})
    BY <2>3, <2>5, <2>8 DEF MapsKept, Step, Kept
  <2>10. Bounded(r)
    BY <2>1, <2>5 DEF Bounded, Quiet
  <2> QED BY <1>4, <2>8, <2>9, <2>10 DEF Moves, MemorySound
<1> QED BY <1>3, <1>5, OutcomeMoves

\* vmem_clone_dir once s1 shows the free frame f.
Cloned(s0, s1, f) ==
  IF ~ HasFree(s0.frames, FirstFrame, FrameCount) THEN Stop(s0, "out of memory")
  ELSE IF s1.state # "runs" THEN s1
  ELSE WithDir(s1, Shown(s1, f), LinkedDir(s1))
Named(ds, d, f, s1, r) == IF r.state # "runs" THEN ds ELSE WithName(ds, d, f, Get(s1, f))
Switched(cur, cur2, d, r) == cur2 = cur \/ (r.state = "runs" /\ cur2 = d)

\* vmem_clone_dir.
LEMMA CloneMoves ==
  ASSUME NEW s, NEW ds, NEW cur, MemorySound(s, ds, cur), s.state = "runs",
         NEW d \in DirNames \ DOMAIN ds,
         NEW s0, s0 = kmalloc(s, ds[cur].paddr), NEW f, f = FreeFrame(s0),
         NEW s1, s1 = vmem_map_vaddr(s0, ds[cur].paddr, f),
         NEW r, r = Cloned(s0, s1, f),
         NEW r2, r2 = Outcome(s, r),
         NEW ds2, ds2 = Named(ds, d, f, s1, r2),
         NEW cur2, Switched(cur, cur2, d, r2)
  PROVE  Moves(s, ds, cur, r2, ds2, cur2, {})
<1>1. PICK own : Sound(s, ds, own)
  BY DEF MemorySound
<1>2. cur \in DOMAIN ds /\ Bounded(s) /\ Machine(s) /\ s \in State
  BY <1>1, StateIsMachine DEF MemorySound, Sound
<1>3. Goes(s, s0) /\ Goes(s0, s1) /\ Machine(s0) /\ Machine(s1)
  <2>1. Goes(s, s0)
    BY <1>2, SmallStepsGo
  <2>2. Goes(s0, s1)
    BY <2>1, VaddrGoes DEF Goes
  <2> QED BY <2>1, <2>2 DEF Goes
<1>4. Machine(Stop(s0, "out of memory")) /\ Stop(s0, "out of memory").state # "runs"
  BY <1>3 DEF Machine, Stop, States
<1>5. Machine(WithDir(s1, Shown(s1, f), LinkedDir(s1)))
  BY <1>3 DEF Machine, WithDir
<1>6. Machine(r)
  BY <1>3, <1>4, <1>5 DEF Cloned
<1>7. CASE r.state # "runs"
  <2>1. r2 = [s EXCEPT !.state = r.state] /\ r.state \in States
    BY <1>6, <1>7 DEF Outcome, Machine
  <2>2. r2.state # "runs"
    BY <1>2, <1>7, <2>1 DEF State
  <2>3. ds2 = ds /\ cur2 = cur
    BY <2>2 DEF Named, Switched
  <2>4. Moves(s, ds, cur, r2, ds, cur, {})
    BY <2>1, StopMoves
  <2> QED BY <2>3, <2>4
<1>8. CASE r.state = "runs"
  <2>1. /\ HasFree(s0.frames, FirstFrame, FrameCount) /\ s1.state = "runs" /\ s0.state = "runs"
        /\ r = WithDir(s1, Shown(s1, f), LinkedDir(s1))
    BY <1>3, <1>4, <1>8 DEF Goes, Cloned
  <2>2. r2 = r /\ ds2 = WithName(ds, d, f, Get(s1, f))
    BY <1>8 DEF Outcome, Named
  <2>3. PICK own0 : Step(s, own, s0, own0, ds) /\ Quiet(s, s0)
    BY <1>1, <1>2, <2>1, KmallocSteps
  <2>4. Sound(s0, ds, own0) /\ Bounded(s0)
    BY <1>2, <2>3 DEF Step, Bounded, Quiet
  <2>5. f \in Nat \ {0} /\ f \notin s0.frames /\ own0[f].kind = "none"
    BY <2>1, <2>4, FreeHasNoOwner
  <2>6. Bounded(s1) /\ \E own1 : InWindow(s0, own0, s1, own1, ds, f)
    BY <1>2, <2>1, <2>4, <2>5, VaddrSteps
  <2>7. PICK own1 : InWindow(s0, own0, s1, own1, ds, f)
    BY <2>6
  <2>8. /\ Step(s0, own0, s1, own1, ds) /\ own1[f].kind = "none" /\ Has(s1, f) /\ f \in s1.frames
    BY <2>5, <2>7 DEF InWindow
  <2>9. Sound(s1, ds, own1) /\ Unused(own1, f)
    BY <2>8 DEF Step, Unused
  <2>10. Shown(s1, f) = f
    BY <2>5, <2>8, <2>9, ShownIs
  <2>11. r = WithDir(s1, f, LinkedDir(s1))
    BY <2>1, <2>10
  <2>12. PICK linked : linked = LinkedDir(s1)
    OBVIOUS
  <2>13. PICK own2 : own2 = Owned(own1, f, OwnDir(d))
    OBVIOUS
  <2>14. r = WithDir(s1, f, linked)
    BY <2>11, <2>12
  <2>15. /\ Sound(r, ds2, own2)
         /\ \A b \in DOMAIN ds, v \in Pages : Mapped(r, ds2, b, v) = Mapped(s1, ds, b, v)
    BY ONLY <2>2, <2>5, <2>8, <2>9, <2>12, <2>13, <2>14, PutDir, d \in DirNames \ DOMAIN ds
  <2>16. Step(s, own, s1, own1, ds)
    BY ONLY <2>3, <2>8, StepsCompose
  <2>17. r.mapUsed = s1.mapUsed /\ r.heapEnd = s1.heapEnd
    BY <2>9, <2>11 DEF WithDir, Sound, State
  <2>18. cur2 \in DOMAIN ds2
    BY <1>2, <2>2 DEF WithName, Put, Switched
  <2>19. MapsKept(s, ds, cur, r, ds2, {})
    <3>1. \A b \in DOMAIN ds, w \in Pages :
            \/ Mapped(s1, ds, b, w) = Mapped(s, ds, b, w)
            \/ Mapped(s, ds, b, w) = 0 /\ w \in s.heapEnd .. s1.heapEnd - 1
      BY ONLY <2>16 DEF Step, Kept
    <3>2. \A b \in DOMAIN ds, w \in Pages : Mapped(r, ds2, b, w) = Mapped(s1, ds, b, w)
      BY <2>15
    <3> QED BY ONLY <2>17, <3>1, <3>2 DEF MapsKept
  <2>20. Bounded(r)
    BY <2>6, <2>17 DEF Bounded
  <2> QED BY <2>2, <2>15, <2>18, <2>19, <2>20 DEF Moves, MemorySound
<1> QED BY <1>7, <1>8

\* A page of the program, or of the frame buffer: what vmem_get_page makes reachable.
LEMMA ReachableTable ==
  ASSUME NEW s, NEW ds, NEW own, Sound(s, ds, own), NEW d \in DOMAIN ds, NEW v \in Pages,
         Reachable(s, ds, d, v)
  PROVE  /\ TableFrame(s, ds[d].paddr, v) = TableEntry(s, ds, d, TableOf(v)).frame
         /\ TableEntry(s, ds, d, TableOf(v)).frame \in Nat \ {0}
<1>1. TableEntry(s, ds, d, TableOf(v)) \in EntrySet
  BY EntryTypes
<1> DEFINE x == TableEntry(s, ds, d, TableOf(v)).frame
<1>2. x \in Nat /\ x # 0 /\ Has(s, x)
  BY <1>1 DEF EntrySet, Reachable
<1>3. Shown(s, x) = x
  <2> HIDE DEF x
  <2> QED BY <1>2, ShownIs
<1> QED BY <1>2, <1>3 DEF TableFrame, TableEntry

\* A page of the program.
LEMMA UserMoves ==
  ASSUME NEW s, NEW ds, NEW cur, MemorySound(s, ds, cur), s.state = "runs", cur # "kernel",
         NEW v \in Pages, NEW yes \in BOOLEAN, yes, TableOf(v) \in UserTables,
         NEW s1, s1 = vmem_get_page(s, ds[cur].paddr, v, yes),
         NEW r, r = IF s1.state # "runs" THEN s1
                    ELSE TakePage(s1, TableFrame(s1, ds[cur].paddr, v), SlotOf(v), yes)
  PROVE  Moves(s, ds, cur, Outcome(s, r), ds, cur, {v})
<1>1. PICK own : Sound(s, ds, own)
  BY DEF MemorySound
<1>2. cur \in DOMAIN ds /\ Bounded(s) /\ Machine(s)
  BY <1>1, StateIsMachine DEF MemorySound, Sound
<1>3. Machine(s1)
  BY <1>2, GetPageGoes DEF Goes
<1>4. Machine(r)
  BY <1>3, SmallStepsGo DEF Goes
<1>5. ASSUME r.state = "runs"
      PROVE  Moves(s, ds, cur, r, ds, cur, {v})
  <2>1. s1.state = "runs" /\ r = TakePage(s1, TableFrame(s1, ds[cur].paddr, v), SlotOf(v), yes)
    BY <1>5
  <2>2. MayTake(cur, v, yes)
    BY DEF MayTake
  <2>3. /\ Bounded(s1) /\ Reachable(s1, ds, cur, v) /\ \E own1 : Step(s, own, s1, own1, ds)
    BY <1>1, <1>2, <2>1, <2>2, GetPageSteps
  <2>4. PICK own1 : Step(s, own, s1, own1, ds)
    BY <2>3
  <2>5. Sound(s1, ds, own1)
    BY <2>4 DEF Step
  <2>6. PICK x : x = TableEntry(s1, ds, cur, TableOf(v)).frame
    OBVIOUS
  <2>7. x # 0 /\ r = TakePage(s1, x, SlotOf(v), yes)
    BY <1>2, <2>1, <2>3, <2>5, <2>6, ReachableTable
  <2>8. PICK own2 : PageTaken(s1, own1, r, own2, ds, cur, v)
    BY <1>2, <1>5, <2>1, <2>5, <2>6, <2>7, TakePageSteps
  <2>9. MapsKept(s, ds, cur, r, ds, {v})
    <3>1. r.heapEnd = s1.heapEnd
      BY <2>8 DEF PageTaken
    <3>2. \A b \in DOMAIN ds, w \in Pages :
            \/ Mapped(s1, ds, b, w) = Mapped(s, ds, b, w)
            \/ Mapped(s, ds, b, w) = 0 /\ w \in s.heapEnd .. s1.heapEnd - 1
      BY <2>4 DEF Step, Kept
    <3>3. \A b \in DOMAIN ds, w \in Pages :
            \/ Mapped(r, ds, b, w) = Mapped(s1, ds, b, w)
            \/ w = v /\ Mapped(s1, ds, b, w) = 0 /\ b = cur
      BY <2>8 DEF PageTaken
    <3> QED BY <3>1, <3>2, <3>3 DEF MapsKept
  <2>10. Bounded(r) /\ Sound(r, ds, own2)
    BY <2>3, <2>8 DEF PageTaken, Quiet, Bounded
  <2> QED BY <1>2, <2>9, <2>10 DEF Moves, MemorySound
<1> QED BY <1>4, <1>5, OutcomeMoves

(* The two calls that map device memory page by page. *)

\* The frames of the frame buffer, counted from the least.
LEMMA DevicesInOnePiece ==
  ASSUME Devices # {}
  PROVE  /\ Cardinality(Devices) \in Nat \ {0} /\ Min(Devices) \in Nat
         /\ \A i \in 1 .. Cardinality(Devices) : Min(Devices) + i - 1 \in Devices
         /\ \A d \in Devices : d \in Nat /\ d # 0
<1>1. PICK lo \in Devices, hi \in Devices : Devices = lo .. hi
  BY VmemAssumption
<1>2. \A d \in Devices : d \in Nat /\ d # 0
  BY VmemAssumption
<1>3. lo \in Nat /\ hi \in Nat /\ lo <= hi
  BY <1>1, <1>2
<1>4. Cardinality(Devices) = hi - lo + 1
  BY <1>1, <1>3, FS_Interval
<1>5. \A d \in Devices : lo <= d
  BY <1>1
<1>6. Min(Devices) \in Devices /\ \A d \in Devices : Min(Devices) <= d
  BY <1>1, <1>5 DEF Min
<1>7. Min(Devices) = lo
  <2>1. PICK k : k = Min(Devices)
    OBVIOUS
  <2>2. k \in Nat /\ lo <= k /\ k <= lo
    BY <1>2, <1>5, <1>6, <2>1
  <2>3. k = lo
    BY ONLY <1>3, <2>2
  <2> QED BY <2>1, <2>3
<1>8. \A i \in 1 .. hi - lo + 1 : lo + i - 1 \in lo .. hi
  BY <1>3
<1> QED BY <1>1, <1>2, <1>3, <1>4, <1>7, <1>8

\* Pages appear at the end of the heap, and device memory where it was asked for.
DevicesKept(s, r, ds, cur, ask) ==
  /\ s.heapEnd \in Nat /\ r.heapEnd \in Nat /\ s.heapEnd <= r.heapEnd
  /\ \A d \in DOMAIN ds, v \in Pages :
       \/ Mapped(r, ds, d, v) = Mapped(s, ds, d, v)
       \/ Mapped(s, ds, d, v) = 0 /\ v \in s.heapEnd .. r.heapEnd - 1
       \/ /\ v \in ask /\ (d = cur \/ TableOf(v) \notin UserTables)
          /\ Mapped(r, ds, d, v) \in Devices

\* Two of these steps are one.
LEMMA DevicesKeptCompose ==
  ASSUME NEW s, NEW s1, NEW r, NEW ds, NEW cur, NEW ask1, NEW ask2, NEW ask,
         DevicesKept(s, s1, ds, cur, ask1), DevicesKept(s1, r, ds, cur, ask2),
         ask1 \subseteq ask, ask2 \subseteq ask
  PROVE  DevicesKept(s, r, ds, cur, ask)
<1>1. /\ s.heapEnd \in Nat /\ s1.heapEnd \in Nat /\ r.heapEnd \in Nat
      /\ s.heapEnd <= s1.heapEnd /\ s1.heapEnd <= r.heapEnd
  BY DEF DevicesKept
<1>2. ASSUME NEW d \in DOMAIN ds, NEW v \in Pages
      PROVE  \/ Mapped(r, ds, d, v) = Mapped(s, ds, d, v)
             \/ Mapped(s, ds, d, v) = 0 /\ v \in s.heapEnd .. r.heapEnd - 1
             \/ /\ v \in ask /\ (d = cur \/ TableOf(v) \notin UserTables)
                /\ Mapped(r, ds, d, v) \in Devices
  <2>1. /\ s.heapEnd .. s1.heapEnd - 1 \subseteq s.heapEnd .. r.heapEnd - 1
        /\ s1.heapEnd .. r.heapEnd - 1 \subseteq s.heapEnd .. r.heapEnd - 1
    BY <1>1
  <2>2. \/ Mapped(s1, ds, d, v) = Mapped(s, ds, d, v)
        \/ Mapped(s, ds, d, v) = 0 /\ v \in s.heapEnd .. s1.heapEnd - 1
        \/ /\ v \in ask1 /\ (d = cur \/ TableOf(v) \notin UserTables)
           /\ Mapped(s1, ds, d, v) \in Devices
    BY DEF DevicesKept
  <2>3. \/ Mapped(r, ds, d, v) = Mapped(s1, ds, d, v)
        \/ Mapped(s1, ds, d, v) = 0 /\ v \in s1.heapEnd .. r.heapEnd - 1
        \/ /\ v \in ask2 /\ (d = cur \/ TableOf(v) \notin UserTables)
           /\ Mapped(r, ds, d, v) \in Devices
    BY DEF DevicesKept
  <2>4. 0 \notin Devices
    BY DevicesInOnePiece
  <2> QED BY <2>1, <2>2, <2>3, <2>4
<1> QED BY <1>1, <1>2 DEF DevicesKept

\* s with an entry for device memory.
DevicePut(s, x, i, frame) ==
  [s EXCEPT !.frames = @ \union {frame}, !.mem[x][i] = Entry(frame, TRUE)]

\* A page shows device memory.
LEMMA DevicePutSteps ==
  ASSUME NEW s1, NEW ds, NEW own1, Sound(s1, ds, own1), NEW cur \in DOMAIN ds,
         NEW v \in Pages, NEW frame \in Devices,
         NEW x, x = TableEntry(s1, ds, cur, TableOf(v)).frame, x # 0,
         NEW r, r = DevicePut(s1, x, SlotOf(v), frame)
  PROVE  /\ Sound(r, ds, own1) /\ r.heapEnd = s1.heapEnd /\ r.mapUsed = s1.mapUsed
         /\ \A b \in DOMAIN ds, w \in Pages :
              \/ Mapped(r, ds, b, w) = Mapped(s1, ds, b, w)
              \/ (b = cur \/ TableOf(w) \notin UserTables) /\ w = v /\ Mapped(r, ds, b, w) \in Devices
<1>5. s1 \in State /\ own1 \in [Nat -> OwnerSet]
  BY DEF Sound
<1> DEFINE s2 == [s1 EXCEPT !.frames = @ \union {frame}]
           e == Entry(frame, TRUE)
<1>8. frame \in Nat /\ frame # 0
  BY DevicesInOnePiece
<1>9. e \in EntrySet /\ e.frame = frame
  BY <1>8 DEF Entry, EntrySet
<1>10. r = WithEntry(s2, x, SlotOf(v), e)
  BY DEF DevicePut, WithEntry
<1> HIDE DEF e
<1>11. /\ s2 \in State /\ s2.mem = s1.mem /\ s2.frames = s1.frames \union {frame}
       /\ s2.dma = s1.dma /\ s2.heapEnd = s1.heapEnd /\ Quiet(s1, s2)
  BY <1>5, <1>8 DEF State, Quiet
<1> HIDE DEF s2
<1>12. \A f : Has(s2, f) = Has(s1, f) /\ Get(s2, f) = Get(s1, f)
  BY <1>11, HasFacts DEF Quiet
<1>13. Sound(s2, ds, own1)
       /\ \A b \in DOMAIN ds, w \in Pages : Mapped(s2, ds, b, w) = Mapped(s1, ds, b, w)
  <2>1. IndexSound(s2)
    BY <1>5, <1>11, <1>12 DEF Sound, IndexSound, Quiet
  <2>2. DirsShown(s2, ds)
    BY <1>5, <1>12 DEF Sound, DirsShown
  <2>3. /\ \A f \in Nat : own1[f].kind # "none" => f \in s2.frames
        /\ \A f \in s2.dma : own1[f].kind = "dma"
        /\ s2.heapEnd \in HeapPage .. HeapMax
    BY <1>5, <1>11 DEF Sound
  <2>4. Booked(s1, s2, ds, own1, own1)
    BY <1>5, <1>11, <2>1, <2>2, <2>3 DEF Booked
  <2> QED BY <1>5, <2>4, BookedSteps
<1>14. x = TableEntry(s2, ds, cur, TableOf(v)).frame
  BY <1>11 DEF TableEntry
<1>15. /\ Sound(r, ds, own1)
       /\ \A b \in DOMAIN ds, w \in Pages :
            \/ Mapped(r, ds, b, w) = Mapped(s2, ds, b, w)
            \/ w = v /\ Mapped(r, ds, b, w) = e.frame
               /\ (TableOf(v) \in UserTables => b = cur)
  <2>1. e.frame \in Devices \/ own1[e.frame] = OwnPage(cur, v)
    BY <1>9
  <2>2. e.frame # 0
    BY <1>8, <1>9
  <2> QED BY <1>9, <1>10, <1>13, <1>14, <2>1, <2>2, PutPage
<1>16. r.heapEnd = s1.heapEnd /\ r.mapUsed = s1.mapUsed
  BY <1>10, <1>11 DEF WithEntry, State, Quiet
<1> QED BY <1>9, <1>13, <1>15, <1>16

\* vmem_frame_map_addr.
LEMMA MapDeviceSteps ==
  ASSUME NEW s, NEW ds, NEW cur, MemorySound(s, ds, cur), s.state = "runs", cur # "kernel",
         NEW v \in Pages, NEW yes \in BOOLEAN, yes, NEW frame \in Devices,
         NEW s1, s1 = vmem_get_page(s, ds[cur].paddr, v, yes),
         NEW r, r = IF s1.state # "runs" THEN s1
                    ELSE DevicePut(s1, TableFrame(s1, ds[cur].paddr, v), SlotOf(v), frame)
  PROVE  /\ Machine(r)
         /\ r.state = "runs" => MemorySound(r, ds, cur) /\ DevicesKept(s, r, ds, cur, {v})
<1>1. PICK own : Sound(s, ds, own)
  BY DEF MemorySound
<1>2. cur \in DOMAIN ds /\ Bounded(s) /\ Machine(s)
  BY <1>1, StateIsMachine DEF MemorySound, Sound
<1>3. Machine(s1)
  BY <1>2, GetPageGoes DEF Goes
<1>4. Machine(r)
  BY <1>3 DEF Machine, DevicePut
<1>5. ASSUME r.state = "runs"
      PROVE  MemorySound(r, ds, cur) /\ DevicesKept(s, r, ds, cur, {v})
  <2>1. s1.state = "runs" /\ r = DevicePut(s1, TableFrame(s1, ds[cur].paddr, v), SlotOf(v), frame)
    BY <1>5
  <2>2. MayTake(cur, v, yes)
    BY DEF MayTake
  <2>3. /\ Bounded(s1) /\ Reachable(s1, ds, cur, v) /\ \E own1 : Step(s, own, s1, own1, ds)
    BY <1>1, <1>2, <2>1, <2>2, GetPageSteps
  <2>4. PICK own1 : Step(s, own, s1, own1, ds)
    BY <2>3
  <2>5. Sound(s1, ds, own1) /\ s1 \in State /\ own1 \in [Nat -> OwnerSet]
    BY <2>4 DEF Step, Sound
  <2>6. PICK x : x = TableEntry(s1, ds, cur, TableOf(v)).frame
    OBVIOUS
  <2>7. x # 0 /\ r = DevicePut(s1, x, SlotOf(v), frame)
    BY <1>2, <2>1, <2>3, <2>5, <2>6, ReachableTable
  <2>15. /\ Sound(r, ds, own1) /\ r.heapEnd = s1.heapEnd /\ r.mapUsed = s1.mapUsed
         /\ \A b \in DOMAIN ds, w \in Pages :
              \/ Mapped(r, ds, b, w) = Mapped(s1, ds, b, w)
              \/ (b = cur \/ TableOf(w) \notin UserTables) /\ w = v /\ Mapped(r, ds, b, w) \in Devices
    BY ONLY <1>2, <2>5, <2>6, <2>7, v \in Pages, frame \in Devices, DevicePutSteps
  <2>17. DevicesKept(s, r, ds, cur, {v})
    <3>1. \A b \in DOMAIN ds, w \in Pages :
            \/ Mapped(s1, ds, b, w) = Mapped(s, ds, b, w)
            \/ Mapped(s, ds, b, w) = 0 /\ w \in s.heapEnd .. s1.heapEnd - 1
      BY ONLY <2>4 DEF Step, Kept
    <3>2. s.heapEnd <= s1.heapEnd /\ s.heapEnd \in Nat /\ s1.heapEnd \in Nat
      BY ONLY <1>1, <2>4, <2>5, Constants DEF Step, Kept, Sound, State
    <3>3. \A b \in DOMAIN ds, w \in Pages :
            \/ Mapped(r, ds, b, w) = Mapped(s1, ds, b, w)
            \/ (b = cur \/ TableOf(w) \notin UserTables) /\ w = v /\ Mapped(r, ds, b, w) \in Devices
      BY <2>15
    <3> QED BY ONLY <2>15, <3>1, <3>2, <3>3 DEF DevicesKept
  <2> QED BY <1>2, <2>3, <2>15, <2>17 DEF MemorySound, Bounded
<1> QED BY <1>4, <1>5

\* What is known of the machine after i pages of the frame buffer.
BufferSound(s, r, ds, cur, v, i) ==
  /\ Machine(r)
  /\ r.state = "runs" =>
       MemorySound(r, ds, cur) /\ DevicesKept(s, r, ds, cur, v .. v + i - 1)

\* The frame buffer, page after page.
LEMMA BufferMoves ==
  ASSUME NEW s, NEW ds, NEW cur, MemorySound(s, ds, cur), s.state = "runs", cur # "kernel",
         Devices # {}, NEW n, n = Cardinality(Devices),
         NEW v \in Nat, v .. v + n - 1 \subseteq Pages,
         NEW mapped, mapped[0] = s,
         \A i \in 1 .. n : mapped[i] = MapDevice(mapped[i - 1], ds[cur].paddr, v + i - 1, Min(Devices) + i - 1)
  PROVE  /\ Moves(s, ds, cur, Outcome(s, mapped[n]), ds, cur, v .. v + n - 1)
         /\ mapped[n].state = "runs" =>
              LET r == [mapped[n] EXCEPT !.state = "kernel overwritten"]
              IN Moves(s, ds, cur, r, ds, cur, v .. v + n - 1)
<1> DEFINE Good == {i \in Nat : i <= n => BufferSound(s, mapped[i], ds, cur, v, i)}
<1>1. n \in Nat
  BY DevicesInOnePiece
<1>2. 0 \in Good
  <2>1. Machine(s)
    BY StateIsMachine DEF MemorySound, Sound
  <2>2. s.heapEnd \in Nat
    BY DEF MemorySound, Sound, State
  <2>3. DevicesKept(s, s, ds, cur, v .. v + 0 - 1)
    BY <2>2 DEF DevicesKept
  <2> QED BY <2>1, <2>3 DEF BufferSound
<1>3. ASSUME NEW i \in Nat, i \in Good
      PROVE  i + 1 \in Good
  <2>1. SUFFICES ASSUME i + 1 <= n
                 PROVE  BufferSound(s, mapped[i + 1], ds, cur, v, i + 1)
    OBVIOUS
  <2> DEFINE t == mapped[i]
             t2 == mapped[i + 1]
             w == v + i
             frame == Min(Devices) + i
  <2>2. BufferSound(s, t, ds, cur, v, i)
    BY <1>1, <1>3, <2>1
  <2>3. t2 = MapDevice(t, ds[cur].paddr, w, frame)
    <3>1. i + 1 \in 1 .. n /\ (i + 1) - 1 = i /\ v + (i + 1) - 1 = w /\ Min(Devices) + (i + 1) - 1 = frame
      BY <1>1, <2>1, DevicesInOnePiece
    <3> QED BY <3>1
  <2>4. frame \in Devices
    <3>1. i + 1 \in 1 .. n /\ Min(Devices) + (i + 1) - 1 = frame
      BY <1>1, <2>1, DevicesInOnePiece
    <3> QED BY <3>1, DevicesInOnePiece
  <2>5. w \in Pages
    BY <1>1, <2>1
  <2> HIDE DEF t, t2, w, frame
  <2> DEFINE s1 == vmem_get_page(t, ds[cur].paddr, w, TRUE)
  <2>6. t2 = IF s1.state # "runs" THEN s1
             ELSE DevicePut(s1, TableFrame(s1, ds[cur].paddr, w), SlotOf(w), frame)
    BY <2>3 DEF MapDevice, OnPage, DevicePut
  <2>7. Goes(t, s1)
    BY <2>2, GetPageGoes DEF BufferSound
  <2>8. CASE t.state # "runs"
    <3>1. t2 = s1 /\ Machine(t2) /\ t2.state # "runs"
      BY <2>6, <2>7, <2>8 DEF Goes
    <3> QED BY <3>1 DEF BufferSound, t2
  <2>9. CASE t.state = "runs"
    <3>1. MemorySound(t, ds, cur) /\ DevicesKept(s, t, ds, cur, v .. v + i - 1)
      BY <2>2, <2>9 DEF BufferSound
    <3>2. PICK yes \in BOOLEAN : yes /\ yes = TRUE
      OBVIOUS
    <3>3. PICK x : x = s1 /\ x = vmem_get_page(t, ds[cur].paddr, w, yes)
      BY <3>2
    <3>4. t2 = IF x.state # "runs" THEN x
               ELSE DevicePut(x, TableFrame(x, ds[cur].paddr, w), SlotOf(w), frame)
      BY <2>6, <3>3
    <3> HIDE DEF s1
    <3>5. /\ Machine(t2)
          /\ t2.state = "runs" => MemorySound(t2, ds, cur) /\ DevicesKept(t, t2, ds, cur, {w})
      BY ONLY cur # "kernel", <2>4, <2>5, <2>9, <3>1, <3>2, <3>3, <3>4, MapDeviceSteps
    <3>6. v .. v + i - 1 \subseteq v .. v + (i + 1) - 1 /\ {w} \subseteq v .. v + (i + 1) - 1
      BY DEF w
    <3>7. t2.state = "runs" => DevicesKept(s, t2, ds, cur, v .. v + (i + 1) - 1)
      BY <3>1, <3>5, <3>6, DevicesKeptCompose
    <3> QED BY <3>5, <3>7 DEF BufferSound, t2
  <2> QED BY <2>8, <2>9
<1>4. n \in Good
  <2> HIDE DEF Good
  <2>1. Nat \subseteq Good
    BY <1>2, <1>3, Induction
  <2> QED BY <1>1, <2>1
<1>5. BufferSound(s, mapped[n], ds, cur, v, n)
  BY <1>1, <1>4
<1> DEFINE r == mapped[n]
<1>6. r.state = "runs" => Moves(s, ds, cur, r, ds, cur, v .. v + n - 1)
  BY <1>5 DEF BufferSound, Moves, DevicesKept, MapsKept
<1>7. Machine(r)
  BY <1>5 DEF BufferSound
<1> HIDE DEF r
<1>8. Moves(s, ds, cur, Outcome(s, r), ds, cur, v .. v + n - 1)
  BY <1>6, <1>7, OutcomeMoves
<1>9. ASSUME r.state = "runs"
      PROVE  Moves(s, ds, cur, [r EXCEPT !.state = "kernel overwritten"], ds, cur, v .. v + n - 1)
  <2>1. PICK e : e = [r EXCEPT !.state = "kernel overwritten"]
    OBVIOUS
  <2>2. "kernel overwritten" \in States
    BY DEF States
  <2>3. MemorySound(r, ds, cur)
    BY <1>6, <1>9 DEF Moves
  <2>4. Moves(r, ds, cur, e, ds, cur, {})
    BY ONLY <2>1, <2>2, <2>3, StopMoves
  <2>5. r \in State
    BY <2>3 DEF MemorySound, Sound
  <2>6. e.mem = r.mem /\ e.heapEnd = r.heapEnd
    BY <2>1, <2>5 DEF State
  <2>7. \A d \in DOMAIN ds, w \in Pages : Mapped(e, ds, d, w) = Mapped(r, ds, d, w)
    BY <2>6 DEF Mapped, TableEntry, PageEntry
  <2>8. MapsKept(s, ds, cur, r, ds, v .. v + n - 1)
    BY <1>6, <1>9 DEF Moves
  <2>9. MapsKept(s, ds, cur, e, ds, v .. v + n - 1)
    BY ONLY <2>6, <2>7, <2>8 DEF MapsKept
  <2> QED BY <2>1, <2>4, <2>9 DEF Moves
<1> QED BY <1>8, <1>9 DEF r

\* What is known of the machine after i pages of the window.
RunSound(s, r, ds, cur, w0, i, marked) ==
  /\ Machine(r)
  /\ r.state = "runs" =>
       /\ \E own : Sound(r, ds, own)
       /\ DevicesKept(s, r, ds, cur, {})
       /\ r.mapUsed = s.mapUsed \union marked
       /\ \A g \in Nat : Has(r, g) =>
            \/ Has(s, g) /\ Get(r, g) = Get(s, g)
            \/ \E k \in 0 .. i - 1 : g = Min(Devices) + k /\ Get(r, g) = MapBase + (w0 + k)
       /\ i > 0 => w0 + i - 1 < WindowPages

\* All the window pages of a run, marked before any of them is mapped.
AllMarked(s, marked) == [s EXCEPT !.mapUsed = @ \union marked]

\* vmem_map_vaddr_n, window page after window page.
LEMMA RunMoves ==
  ASSUME NEW s, NEW ds, NEW cur, MemorySound(s, ds, cur), s.state = "runs",
         Devices # {}, NEW n, n = Cardinality(Devices), \A d \in Devices : ~ Has(s, d),
         NEW w0 \in Nat, NEW marked, marked = w0 .. w0 + n - 1, marked \intersect s.mapUsed = {},
         NEW mapped, mapped[0] = AllMarked(s, marked),
         \A i \in 1 .. n : mapped[i] = MapWindow(mapped[i - 1], ds[cur].paddr, w0 + i - 1, Min(Devices) + i - 1)
  PROVE  Moves(s, ds, cur, Outcome(s, mapped[n]), ds, cur, {})
<1> DEFINE Good == {i \in Nat : i <= n => RunSound(s, mapped[i], ds, cur, w0, i, marked)}
<1>1. n \in Nat \ {0}
  BY DevicesInOnePiece
<1>2. PICK own0 : Sound(s, ds, own0)
  BY DEF MemorySound
<1>3. cur \in DOMAIN ds /\ Bounded(s) /\ Machine(s) /\ s \in State /\ own0 \in [Nat -> OwnerSet]
  BY <1>2, StateIsMachine DEF MemorySound, Sound
<1>4. \A g \in Nat : Has(s, g) =>
        \E y \in s.mapUsed : y \in Nat /\ Get(s, g) = MapBase + y
  BY <1>2 DEF Sound, IndexSound
<1>5. 0 \in Good
  <2> DEFINE t == mapped[0]
  <2>1. /\ t \in State /\ t.mem = s.mem /\ t.frames = s.frames /\ t.dma = s.dma
        /\ t.heapEnd = s.heapEnd /\ t.index = s.index /\ t.window = s.window
        /\ t.mapUsed = s.mapUsed \union marked
    <3>1. marked \subseteq Nat /\ t = [s EXCEPT !.mapUsed = s.mapUsed \union marked]
      BY <1>1, <1>3 DEF State, AllMarked
    <3> HIDE DEF t
    <3> QED BY <1>3, <3>1 DEF State
  <2> HIDE DEF t
  <2>2. \A f : Has(t, f) = Has(s, f) /\ Get(t, f) = Get(s, f)
    BY <2>1, HasFacts
  <2>3. IndexSound(t)
    BY <1>2, <2>1, <2>2 DEF Sound, IndexSound
  <2>4. DirsShown(t, ds)
    BY <1>2, <2>2 DEF Sound, DirsShown
  <2>5. /\ \A f \in Nat : own0[f].kind # "none" => f \in t.frames
        /\ \A f \in t.dma : own0[f].kind = "dma"
        /\ t.heapEnd \in HeapPage .. HeapMax
    BY <1>2, <2>1 DEF Sound
  <2>6. Booked(s, t, ds, own0, own0)
    BY <1>3, <2>1, <2>3, <2>4, <2>5 DEF Booked
  <2>7. Sound(t, ds, own0)
        /\ \A b \in DOMAIN ds, v \in Pages : Mapped(t, ds, b, v) = Mapped(s, ds, b, v)
    BY <1>2, <2>6, BookedSteps
  <2>8. DevicesKept(s, t, ds, cur, {})
    <3>1. s.heapEnd \in Nat
      BY <1>3 DEF State
    <3> QED BY <2>1, <2>7, <3>1 DEF DevicesKept
  <2>9. Machine(t)
    BY <2>1, StateIsMachine
  <2>10. RunSound(s, t, ds, cur, w0, 0, marked)
    BY <2>1, <2>2, <2>7, <2>8, <2>9 DEF RunSound
  <2> QED BY <2>10 DEF t
<1>6. ASSUME NEW i \in Nat, i \in Good
      PROVE  i + 1 \in Good
  <2>1. SUFFICES ASSUME i + 1 <= n
                 PROVE  RunSound(s, mapped[i + 1], ds, cur, w0, i + 1, marked)
    OBVIOUS
  <2> DEFINE t == mapped[i]
             r == mapped[i + 1]
             w == w0 + i
             frame == Min(Devices) + i
  <2>2. RunSound(s, t, ds, cur, w0, i, marked)
    BY <1>1, <1>6, <2>1
  <2>3. r = MapWindow(t, ds[cur].paddr, w, frame)
    <3>1. i + 1 \in 1 .. n /\ (i + 1) - 1 = i /\ w0 + (i + 1) - 1 = w /\ Min(Devices) + (i + 1) - 1 = frame
      BY <1>1, <2>1, DevicesInOnePiece
    <3> QED BY <3>1
  <2>4. frame \in Devices /\ frame \in Nat /\ frame # 0
    <3>1. i + 1 \in 1 .. n /\ Min(Devices) + (i + 1) - 1 = frame
      BY <1>1, <2>1, DevicesInOnePiece
    <3> QED BY <3>1, DevicesInOnePiece
  <2>5. w \in Nat /\ w \in marked
    BY <1>1, <2>1
  <2>6. Min(Devices) \in Nat
    BY DevicesInOnePiece
  <2> HIDE DEF t, r
  <2>7. Goes(t, r)
    BY <2>2, <2>3, WindowGoes DEF RunSound
  <2>8. CASE r.state # "runs"
    BY <2>7, <2>8 DEF RunSound, Goes, r
  <2>9. CASE r.state = "runs"
    <3>1. t.state = "runs"
      BY <2>7, <2>9 DEF Goes
    <3>2. /\ \E own : Sound(t, ds, own)
          /\ DevicesKept(s, t, ds, cur, {})
          /\ t.mapUsed = s.mapUsed \union marked
          /\ \A g \in Nat : Has(t, g) =>
               \/ Has(s, g) /\ Get(t, g) = Get(s, g)
               \/ \E k \in 0 .. i - 1 : g = Min(Devices) + k /\ Get(t, g) = MapBase + (w0 + k)
      BY <2>2, <3>1 DEF RunSound
    <3>3. PICK own : Sound(t, ds, own)
      BY <3>2
    <3>4. ~ Has(t, frame)
      <4>1. ~ Has(s, frame)
        BY <2>4
      <4>2. \A k \in 0 .. i - 1 : frame # Min(Devices) + k
        BY <2>6
      <4> HIDE DEF frame
      <4> QED BY <2>4, <3>2, <4>1, <4>2
    <3>5. Fresh(t, w)
      <4>1. SUFFICES ASSUME NEW g \in Nat, Has(t, g) PROVE Get(t, g) # MapBase + w
        BY DEF Fresh
      <4>2. CASE Has(s, g) /\ Get(t, g) = Get(s, g)
        <5>1. PICK y \in s.mapUsed : y \in Nat /\ Get(s, g) = MapBase + y
          BY <1>4, <4>2
        <5>2. y # w
          BY <2>5, <5>1
        <5> QED BY <2>5, <4>2, <5>1, <5>2 DEF MapBase
      <4>3. CASE \E k \in 0 .. i - 1 : g = Min(Devices) + k /\ Get(t, g) = MapBase + (w0 + k)
        BY <4>3 DEF MapBase
      <4> QED BY <3>2, <4>1, <4>2, <4>3
    <3>6. w \in t.mapUsed
      BY <2>5, <3>2
    <3> HIDE DEF w, frame
    <3>7. /\ w < WindowPages /\ r.mapUsed = t.mapUsed
          /\ \E own2 : InWindow(t, own, r, own2, ds, frame)
          /\ Get(r, frame) = MapBase + w
          /\ \A g \in Nat : Has(r, g) => g = frame \/ (Has(t, g) /\ Get(r, g) = Get(t, g))
      BY <1>3, <2>3, <2>4, <2>5, <2>9, <3>1, <3>3, <3>4, <3>5, <3>6, WindowSteps
    <3>8. PICK own2 : Step(t, own, r, own2, ds)
      BY <3>7 DEF InWindow
    <3>9. Sound(r, ds, own2) /\ r.heapEnd \in Nat
      BY <3>8 DEF Step, Sound, State
    <3>10. DevicesKept(t, r, ds, cur, {})
      BY <3>2, <3>8, <3>9 DEF Step, Kept, DevicesKept
    <3>11. DevicesKept(s, r, ds, cur, {})
      BY <3>2, <3>10, DevicesKeptCompose
    <3>12. ASSUME NEW g \in Nat, Has(r, g)
           PROVE  \/ Has(s, g) /\ Get(r, g) = Get(s, g)
                  \/ \E k \in 0 .. (i + 1) - 1 : g = Min(Devices) + k /\ Get(r, g) = MapBase + (w0 + k)
      <4>1. CASE g = frame
        <5>1. i \in 0 .. (i + 1) - 1 /\ g = Min(Devices) + i /\ Get(r, g) = MapBase + (w0 + i)
          BY <3>7, <4>1 DEF w, frame
        <5> QED BY <5>1
      <4>2. CASE Has(t, g) /\ Get(r, g) = Get(t, g)
        <5>1. 0 .. i - 1 \subseteq 0 .. (i + 1) - 1
          OBVIOUS
        <5> QED BY <3>2, <4>2, <5>1
      <4> QED BY <3>7, <3>12, <4>1, <4>2
    <3>13. w0 + (i + 1) - 1 < WindowPages
      BY <3>7 DEF w
    <3>14. r.mapUsed = s.mapUsed \union marked
      BY <3>2, <3>7
    <3>15. RunSound(s, r, ds, cur, w0, i + 1, marked)
      BY <2>7, <3>9, <3>11, <3>12, <3>13, <3>14 DEF RunSound, Goes
    <3> QED BY <3>15 DEF r
  <2> QED BY <2>8, <2>9
<1>7. n \in Good
  <2> HIDE DEF Good
  <2>1. Nat \subseteq Good
    BY <1>5, <1>6, Induction
  <2> QED BY <1>1, <2>1
<1> DEFINE r == mapped[n]
<1>8. RunSound(s, r, ds, cur, w0, n, marked)
  BY <1>1, <1>7
<1> HIDE DEF r
<1>9. r.state = "runs" => Moves(s, ds, cur, r, ds, cur, {})
  <2>1. SUFFICES ASSUME r.state = "runs" PROVE Moves(s, ds, cur, r, ds, cur, {})
    OBVIOUS
  <2>2. (\E own : Sound(r, ds, own)) /\ DevicesKept(s, r, ds, cur, {})
        /\ r.mapUsed = s.mapUsed \union marked /\ w0 + n - 1 < WindowPages
    BY <1>1, <1>8, <2>1 DEF RunSound
  <2>3. Bounded(r)
    <3>1. marked \subseteq 0 .. WindowPages - 1
      BY <1>1, <2>2, Constants
    <3> QED BY <1>3, <2>2, <3>1 DEF Bounded
  <2>4. MapsKept(s, ds, cur, r, ds, {})
    BY <2>2 DEF DevicesKept, MapsKept
  <2> QED BY <1>3, <2>2, <2>3, <2>4 DEF Moves, MemorySound
<1>10. Machine(r)
  BY <1>8 DEF RunSound
<1>11. Moves(s, ds, cur, Outcome(s, r), ds, cur, {})
  BY <1>9, <1>10, OutcomeMoves
<1> QED BY <1>11 DEF r

\* vmem_map_page_find_first_n: the window has no end for it.
LEMMA RunFound ==
  ASSUME NEW s, Bounded(s), NEW n \in Nat \ {0}
  PROVE  /\ FindFirst_n(s, n) \in Nat
         /\ (FindFirst_n(s, n) .. FindFirst_n(s, n) + n - 1) \intersect s.mapUsed = {}
<1> DEFINE Free == {w \in 0 .. MapBits - 1 : (w .. w + n - 1) \intersect s.mapUsed = {}}
<1>1. WindowPages \in Free
  <2>1. MapBits = WordBits * (MapBits \div WordBits) + (MapBits % WordBits)
        /\ MapBits \div WordBits \in Nat /\ MapBits % WordBits \in Nat
    BY Divide, Constants
  <2>2. (MapBits \div WordBits) * WordBits = WordBits * (MapBits \div WordBits)
        /\ WordBits * (MapBits \div WordBits) \in Nat
    BY <2>1, Constants, SMTT(30)
  <2>3. WindowPages < MapBits
    BY <2>1, <2>2, VmemAssumption, Constants
  <2>4. (WindowPages .. WindowPages + n - 1) \intersect (0 .. WindowPages - 1) = {}
    BY Constants
  <2> QED BY <2>3, <2>4, Constants DEF Bounded
<1>2. Free \subseteq Nat
  BY Constants
<1>3. FindFirst_n(s, n) = Min(Free)
  BY DEF FindFirst_n
<1>4. Min(Free) \in Free
  <2> HIDE DEF Free
  <2>1. PICK w \in Free : \A k \in Free : w <= k
    BY <1>1, <1>2, LeastElement
  <2> QED BY <2>1 DEF Min
<1> QED BY <1>2, <1>3, <1>4

(* The functions by which the model goes through the pages are defined. *)

\* The function of MapFrameBuffer.
LEMMA BufferDefined ==
  ASSUME NEW n \in Nat, NEW s, NEW pd, NEW v, NEW lo
  PROVE  \E f : f = [i \in 0 .. n |-> IF i = 0 THEN s
                                       ELSE MapDevice(f[i - 1], pd, v + i - 1, lo + i - 1)]
<1> DEFINE Good == {k \in Nat : \E f : f = [i \in 0 .. k |-> IF i = 0 THEN s
                                              ELSE MapDevice(f[i - 1], pd, v + i - 1, lo + i - 1)]}
<1>1. 0 \in Good
  <2> DEFINE f == [i \in 0 .. 0 |-> s]
  <2>1. f = [i \in 0 .. 0 |-> IF i = 0 THEN s ELSE MapDevice(f[i - 1], pd, v + i - 1, lo + i - 1)]
    OBVIOUS
  <2> HIDE DEF f
  <2> QED BY <2>1
<1>2. ASSUME NEW k \in Nat, k \in Good
      PROVE  k + 1 \in Good
  <2>1. PICK f : f = [i \in 0 .. k |-> IF i = 0 THEN s ELSE MapDevice(f[i - 1], pd, v + i - 1, lo + i - 1)]
    BY <1>2
  <2> DEFINE last == MapDevice(f[k], pd, v + (k + 1) - 1, lo + (k + 1) - 1)
             g == [i \in 0 .. k + 1 |-> IF i <= k THEN f[i] ELSE last]
  <2>2. \A i \in 0 .. k + 1 :
          g[i] = IF i = 0 THEN s ELSE MapDevice(g[i - 1], pd, v + i - 1, lo + i - 1)
    <3>1. SUFFICES ASSUME NEW i \in 0 .. k + 1
                   PROVE  g[i] = IF i = 0 THEN s ELSE MapDevice(g[i - 1], pd, v + i - 1, lo + i - 1)
      OBVIOUS
    <3>2. CASE i <= k /\ i # 0
      <4>1. i \in 0 .. k /\ i - 1 \in 0 .. k + 1 /\ i - 1 <= k
        BY <3>2
      <4>2. g[i] = f[i] /\ g[i - 1] = f[i - 1]
        BY <3>2, <4>1
      <4> HIDE DEF g
      <4> QED BY <2>1, <3>2, <4>1, <4>2
    <3>3. CASE i = 0
      <4>1. 0 \in 0 .. k /\ g[0] = f[0]
        OBVIOUS
      <4> HIDE DEF g
      <4> QED BY <2>1, <3>3, <4>1
    <3>4. CASE i = k + 1
      <4>1. g[i] = last /\ g[i - 1] = f[k]
        BY <3>4
      <4> HIDE DEF g
      <4> QED BY <3>4, <4>1
    <3>5. i <= k \/ i = k + 1
      OBVIOUS
    <3> QED BY <3>2, <3>3, <3>4, <3>5
  <2>3. g = [i \in 0 .. k + 1 |-> g[i]]
    OBVIOUS
  <2> HIDE DEF g
  <2>4. g = [i \in 0 .. k + 1 |-> IF i = 0 THEN s ELSE MapDevice(g[i - 1], pd, v + i - 1, lo + i - 1)]
    BY <2>2, <2>3
  <2> QED BY <2>4
<1> HIDE DEF Good
<1>3. n \in Good
  BY <1>1, <1>2, Induction
<1> QED BY <1>3 DEF Good

\* f[i] is the machine after i pages from page w of the window on.
RunIs(f, n, s, pd, w, lo) ==
  f = [i \in 0 .. n |-> IF i = 0 THEN s ELSE MapWindow(f[i - 1], pd, w + i - 1, lo + i - 1)]

\* The function of vmem_map_vaddr_n.
LEMMA RunDefined ==
  ASSUME NEW n \in Nat, NEW s, NEW pd, NEW v, NEW lo
  PROVE  \E f : RunIs(f, n, s, pd, v, lo)
<1> DEFINE Good == {k \in Nat : \E f : f = [i \in 0 .. k |-> IF i = 0 THEN s
                                              ELSE MapWindow(f[i - 1], pd, v + i - 1, lo + i - 1)]}
<1>1. 0 \in Good
  <2> DEFINE f == [i \in 0 .. 0 |-> s]
  <2>1. f = [i \in 0 .. 0 |-> IF i = 0 THEN s ELSE MapWindow(f[i - 1], pd, v + i - 1, lo + i - 1)]
    OBVIOUS
  <2> HIDE DEF f
  <2> QED BY <2>1
<1>2. ASSUME NEW k \in Nat, k \in Good
      PROVE  k + 1 \in Good
  <2>1. PICK f : f = [i \in 0 .. k |-> IF i = 0 THEN s ELSE MapWindow(f[i - 1], pd, v + i - 1, lo + i - 1)]
    BY <1>2
  <2> DEFINE last == MapWindow(f[k], pd, v + (k + 1) - 1, lo + (k + 1) - 1)
             g == [i \in 0 .. k + 1 |-> IF i <= k THEN f[i] ELSE last]
  <2>2. \A i \in 0 .. k + 1 :
          g[i] = IF i = 0 THEN s ELSE MapWindow(g[i - 1], pd, v + i - 1, lo + i - 1)
    <3>1. SUFFICES ASSUME NEW i \in 0 .. k + 1
                   PROVE  g[i] = IF i = 0 THEN s ELSE MapWindow(g[i - 1], pd, v + i - 1, lo + i - 1)
      OBVIOUS
    <3>2. CASE i <= k /\ i # 0
      <4>1. i \in 0 .. k /\ i - 1 \in 0 .. k + 1 /\ i - 1 <= k
        BY <3>2
      <4>2. g[i] = f[i] /\ g[i - 1] = f[i - 1]
        BY <3>2, <4>1
      <4> HIDE DEF g
      <4> QED BY <2>1, <3>2, <4>1, <4>2
    <3>3. CASE i = 0
      <4>1. 0 \in 0 .. k /\ g[0] = f[0]
        OBVIOUS
      <4> HIDE DEF g
      <4> QED BY <2>1, <3>3, <4>1
    <3>4. CASE i = k + 1
      <4>1. g[i] = last /\ g[i - 1] = f[k]
        BY <3>4
      <4> HIDE DEF g
      <4> QED BY <3>4, <4>1
    <3>5. i <= k \/ i = k + 1
      OBVIOUS
    <3> QED BY <3>2, <3>3, <3>4, <3>5
  <2>3. g = [i \in 0 .. k + 1 |-> g[i]]
    OBVIOUS
  <2> HIDE DEF g
  <2>4. g = [i \in 0 .. k + 1 |-> IF i = 0 THEN s ELSE MapWindow(g[i - 1], pd, v + i - 1, lo + i - 1)]
    BY <2>2, <2>3
  <2> QED BY <2>4
<1> HIDE DEF Good
<1>3. n \in Good
  BY <1>1, <1>2, Induction
<1> QED BY <1>3 DEF Good, RunIs

-----------------------------------------------------------------------------
(* The actions. *)

\* The inductive invariant: some function says who owns every frame.
PagingInv == MemorySound(m, dirs, current)

\* The current directory is one of those that there are.
LEMMA CurrentPdIs ==
  ASSUME PagingInv
  PROVE  CurrentPd = dirs[current].paddr /\ current \in DOMAIN dirs /\ dirs \in DirList
<1>1. PICK own : Sound(m, dirs, own)
  BY DEF PagingInv, MemorySound
<1> QED BY <1>1, CurrentAddress DEF PagingInv, MemorySound, CurrentPd, Sound

\* After, as an operator of the step.
LEMMA AfterIs ==
  ASSUME NEW s, After(s)
  PROVE  m' = Outcome(m, s)
BY DEF After, Outcome

\* Every action is a move.
LEMMA HeapGrowsMoves ==
  ASSUME PagingInv, HeapGrows
  PROVE  Moves(m, dirs, current, m', dirs', current', asked')
<1> DEFINE pd == dirs[current].paddr
<1>1. PICK no \in BOOLEAN : no = FALSE
  OBVIOUS
<1>2. PICK s1 : s1 = vmem_get_page(m, pd, m.heapEnd, no)
  OBVIOUS
<1>3. s1 = vmem_get_page(m, CurrentPd, m.heapEnd, FALSE)
  BY <1>1, <1>2, CurrentPdIs
<1>4. PICK room \in 0 .. PageRoom :
        After(IF s1.state # "runs" THEN s1 ELSE [HeapPageTaken(s1, CurrentPd) EXCEPT !.room = room])
  BY <1>3 DEF HeapGrows
<1>5. PICK r : r = IF s1.state # "runs" THEN s1 ELSE HeapGrown(s1, pd, room)
  OBVIOUS
<1>6. After(r)
  BY <1>4, <1>5, CurrentPdIs DEF HeapGrown
<1>7. m.state = "runs" /\ m.heapEnd < HeapMax /\ dirs' = dirs /\ current' = current /\ asked' = {}
  BY DEF HeapGrows, Running
<1>8. room \in Nat
  BY Constants
<1>9. ~ no
  BY <1>1
<1> HIDE DEF pd
<1>10. Moves(m, dirs, current, Outcome(m, r), dirs, current, {})
  <2>1. MemorySound(m, dirs, current)
    BY DEF PagingInv
  <2>2. s1 = vmem_get_page(m, dirs[current].paddr, m.heapEnd, no)
    BY <1>2 DEF pd
  <2>3. r = IF s1.state # "runs" THEN s1 ELSE HeapGrown(s1, dirs[current].paddr, room)
    BY <1>5 DEF pd
  <2> QED BY ONLY <1>7, <1>8, <1>9, <2>1, <2>2, <2>3, HeapMoves
<1> QED BY <1>6, <1>7, <1>10, AfterIs

LEMMA SmallAllocationMoves ==
  ASSUME PagingInv, SmallAllocation
  PROVE  Moves(m, dirs, current, m', dirs', current', asked')
<1>1. m.state = "runs" /\ dirs' = dirs /\ current' = current /\ asked' = {}
  BY DEF SmallAllocation, Running
<1>2. After(kmalloc(m, dirs[current].paddr))
  BY CurrentPdIs DEF SmallAllocation
<1>3. Moves(m, dirs, current, Outcome(m, kmalloc(m, dirs[current].paddr)), dirs, current, {})
  BY <1>1, KmallocMoves DEF PagingInv
<1> QED BY <1>1, <1>2, <1>3, AfterIs

LEMMA DmaPageMoves ==
  ASSUME PagingInv, DmaPage
  PROVE  Moves(m, dirs, current, m', dirs', current', asked')
<1>1. m.state = "runs" /\ dirs' = dirs /\ current' = current /\ asked' = {}
  BY DEF DmaPage, Running
<1>2. PICK f : f = FreeFrame(m)
  OBVIOUS
<1>3. PICK s1 : s1 = vmem_map_vaddr(Mark(m, f), dirs[current].paddr, f)
  OBVIOUS
<1>4. After(DmaTaken(s1, f))
  BY <1>2, <1>3, CurrentPdIs DEF DmaPage, DmaTaken
<1>5. Moves(m, dirs, current, Outcome(m, DmaTaken(s1, f)), dirs, current, {})
  BY <1>1, <1>2, <1>3, DmaMoves DEF PagingInv
<1> QED BY <1>1, <1>4, <1>5, AfterIs

LEMMA CheckPointerMoves ==
  ASSUME PagingInv, CheckPointer
  PROVE  Moves(m, dirs, current, m', dirs', current', asked')
<1>1. m.state = "runs" /\ dirs' = dirs /\ current' = current /\ asked' = {}
  BY DEF CheckPointer, Running
<1>2. PICK v \in Pages :
        /\ m.mem[CurrentPd][TableOf(v)].frame # 0
        /\ After(vmem_map_vaddr(m, CurrentPd, m.mem[CurrentPd][TableOf(v)].frame))
  BY DEF CheckPointer
<1>3. PICK x : x = TableEntry(m, dirs, current, TableOf(v)).frame
  OBVIOUS
<1>4. x = m.mem[CurrentPd][TableOf(v)].frame
  BY <1>3, CurrentPdIs DEF TableEntry
<1>5. x \in Nat
  <2>1. PICK own : Sound(m, dirs, own)
    BY DEF PagingInv, MemorySound
  <2>2. TableEntry(m, dirs, current, TableOf(v)) \in EntrySet
    BY <2>1, CurrentPdIs, EntryTypes
  <2> QED BY <1>3, <2>2 DEF EntrySet
<1>6. Moves(m, dirs, current, Outcome(m, vmem_map_vaddr(m, dirs[current].paddr, x)), dirs, current, {})
  BY <1>1, <1>2, <1>4, <1>5, VaddrMoves DEF PagingInv
<1>7. After(vmem_map_vaddr(m, dirs[current].paddr, x))
  BY <1>2, <1>4, CurrentPdIs
<1> QED BY <1>1, <1>6, <1>7, AfterIs

LEMMA UserPageMoves ==
  ASSUME PagingInv, UserPage
  PROVE  Moves(m, dirs, current, m', dirs', current', asked')
<1>1. m.state = "runs" /\ dirs' = dirs /\ current' = current /\ current # "kernel"
  BY DEF UserPage, Running
<1>2. PICK v \in UserPages :
        /\ After(OnPage(vmem_get_page(m, CurrentPd, v, TRUE), CurrentPd, v,
                        LAMBDA s, table, i : TakePage(s, table, i, TRUE)))
        /\ asked' = {v}
  BY DEF UserPage
<1>3. PICK yes \in BOOLEAN : yes = TRUE
  OBVIOUS
<1>4. PICK s1 : s1 = vmem_get_page(m, dirs[current].paddr, v, yes)
  OBVIOUS
<1>5. PICK r : r = IF s1.state # "runs" THEN s1
                   ELSE TakePage(s1, TableFrame(s1, dirs[current].paddr, v), SlotOf(v), yes)
  OBVIOUS
<1>6. After(r)
  BY <1>2, <1>3, <1>4, <1>5, CurrentPdIs DEF OnPage
<1>7. v \in Pages /\ TableOf(v) \in UserTables /\ yes
  BY <1>3 DEF UserPages
<1>8. MemorySound(m, dirs, current)
  BY DEF PagingInv
<1>9. Moves(m, dirs, current, Outcome(m, r), dirs, current, {v})
  BY ONLY <1>1, <1>4, <1>5, <1>7, <1>8, yes \in BOOLEAN, UserMoves
<1> QED BY <1>1, <1>2, <1>6, <1>9, AfterIs

LEMMA CloneDirMoves ==
  ASSUME PagingInv, NEW d \in {"idle", "program"}, vmem_clone_dir(d),
         current' = current \/ (m'.state = "runs" /\ current' = d)
  PROVE  Moves(m, dirs, current, m', dirs', current', asked')
<1>1. m.state = "runs" /\ d \in DirNames \ DOMAIN dirs /\ asked' = {}
  BY DEF vmem_clone_dir, Running, DirNames
<1>2. PICK s0 : s0 = kmalloc(m, dirs[current].paddr)
  OBVIOUS
<1>3. PICK f : f = FreeFrame(s0)
  OBVIOUS
<1>4. PICK s1 : s1 = vmem_map_vaddr(s0, dirs[current].paddr, f)
  OBVIOUS
<1>5. PICK r : r = Cloned(s0, s1, f)
  OBVIOUS
<1>6. After(r)
  BY <1>2, <1>3, <1>4, <1>5, CurrentPdIs DEF vmem_clone_dir, WithDir, LinkedDir, Cloned
<1>7. m' = Outcome(m, r)
  BY <1>6, AfterIs
<1>8. PICK r2 : r2 = m'
  OBVIOUS
<1>9. PICK ds2 : ds2 = dirs'
  OBVIOUS
<1>10. PICK cur2 : cur2 = current'
  OBVIOUS
<1>11. dirs' = Named(dirs, d, f, s1, m')
  BY <1>2, <1>3, <1>4, CurrentPdIs DEF vmem_clone_dir, Named, WithName, Get
<1>12. MemorySound(m, dirs, current)
  BY DEF PagingInv
<1>13. r2 = Outcome(m, r)
  BY <1>7, <1>8
<1>14. ds2 = Named(dirs, d, f, s1, r2)
  BY <1>8, <1>9, <1>11
<1>15. Switched(current, cur2, d, r2)
  BY <1>8, <1>10 DEF Switched
<1>16. Moves(m, dirs, current, r2, ds2, cur2, {})
  BY ONLY <1>1, <1>2, <1>3, <1>4, <1>5, <1>12, <1>13, <1>14, <1>15, CloneMoves
<1> QED BY <1>1, <1>8, <1>9, <1>10, <1>16

LEMMA WindowRunMoves ==
  ASSUME PagingInv, vmem_map_vaddr_n
  PROVE  Moves(m, dirs, current, m', dirs', current', asked')
<1> DEFINE n == Cardinality(Devices)
           w0 == FindFirst_n(m, n)
           lo == Min(Devices)
           pd == dirs[current].paddr
           marked == w0 .. w0 + n - 1
           base == AllMarked(m, marked)
           mapped[i \in 0 .. n] ==
             IF i = 0 THEN base ELSE MapWindow(mapped[i - 1], pd, w0 + i - 1, lo + i - 1)
<1>1. m.state = "runs" /\ dirs' = dirs /\ current' = current /\ asked' = {}
      /\ Devices # {} /\ \A d \in Devices : ~ Has(m, d)
  BY DEF vmem_map_vaddr_n, Running, Has
<1>2. After(mapped[n])
  BY CurrentPdIs DEF vmem_map_vaddr_n, AllMarked
<1>3. n \in Nat \ {0}
  BY <1>1, DevicesInOnePiece
<1>4. w0 \in Nat /\ marked \intersect m.mapUsed = {}
  <2>1. Bounded(m)
    BY DEF PagingInv, MemorySound
  <2> HIDE DEF n
  <2> QED BY <1>3, <2>1, RunFound
<1> HIDE DEF n, w0, lo, pd, marked, base
<1>5. mapped = [i \in 0 .. n |-> IF i = 0 THEN base ELSE MapWindow(mapped[i - 1], pd, w0 + i - 1, lo + i - 1)]
  <2>1. n \in Nat
    BY <1>3
  <2>2. \E f : RunIs(f, n, base, pd, w0, lo)
    BY <2>1, RunDefined
  <2>3. \E f : f = [i \in 0 .. n |-> IF i = 0 THEN base ELSE MapWindow(f[i - 1], pd, w0 + i - 1, lo + i - 1)]
    BY <2>2 DEF RunIs
  <2> QED BY <2>3
<1> HIDE DEF mapped
<1>6. mapped[0] = base
  BY <1>3, <1>5
<1>7. \A i \in 1 .. n : mapped[i] = MapWindow(mapped[i - 1], pd, w0 + i - 1, lo + i - 1)
  BY <1>3, <1>5
<1>8. Moves(m, dirs, current, Outcome(m, mapped[n]), dirs, current, {})
  <2>1. PICK f : f = mapped
    OBVIOUS
  <2>2. f[0] = AllMarked(m, marked)
    BY <1>6, <2>1 DEF base
  <2>3. \A i \in 1 .. n : f[i] = MapWindow(f[i - 1], dirs[current].paddr, w0 + i - 1, Min(Devices) + i - 1)
    BY <1>7, <2>1 DEF pd, lo
  <2>4. n = Cardinality(Devices) /\ marked = w0 .. w0 + n - 1
    BY DEF n, marked
  <2>5. MemorySound(m, dirs, current)
    BY DEF PagingInv
  <2>6. Moves(m, dirs, current, Outcome(m, f[n]), dirs, current, {})
    BY ONLY <1>1, <1>4, <2>2, <2>3, <2>4, <2>5, RunMoves
  <2> QED BY <2>1, <2>6
<1> QED BY <1>1, <1>2, <1>8, AfterIs

LEMMA FrameBufferMoves ==
  ASSUME PagingInv, MapFrameBuffer
  PROVE  Moves(m, dirs, current, m', dirs', current', asked')
<1>1. m.state = "runs" /\ dirs' = dirs /\ current' = current /\ current # "kernel" /\ Devices # {}
  BY DEF MapFrameBuffer, Running
<1> DEFINE n == Cardinality(Devices)
           lo == Min(Devices)
           pd == CurrentPd
<1>2. PICK v \in Pages :
        LET mapped[i \in 0 .. n] ==
              IF i = 0 THEN m ELSE MapDevice(mapped[i - 1], pd, v + i - 1, lo + i - 1)
        IN /\ v .. v + n - 1 \subseteq Pages
           /\ IF mapped[n].state = "runs" /\ KernelPageIn(v .. v + n - 1)
              THEN m' = [mapped[n] EXCEPT !.state = "kernel overwritten"]
              ELSE After(mapped[n])
           /\ asked' = v .. v + n - 1
  BY Zenon DEF MapFrameBuffer
<1> DEFINE mapped[i \in 0 .. n] ==
             IF i = 0 THEN m ELSE MapDevice(mapped[i - 1], pd, v + i - 1, lo + i - 1)
<1>3. /\ v .. v + n - 1 \subseteq Pages /\ asked' = v .. v + n - 1
      /\ \/ mapped[n].state = "runs" /\ m' = [mapped[n] EXCEPT !.state = "kernel overwritten"]
         \/ After(mapped[n])
  BY <1>2
<1>4. n \in Nat \ {0}
  BY <1>1, DevicesInOnePiece
<1> HIDE DEF n, lo, pd
<1>5. mapped = [i \in 0 .. n |-> IF i = 0 THEN m ELSE MapDevice(mapped[i - 1], pd, v + i - 1, lo + i - 1)]
  BY <1>4, BufferDefined
<1> HIDE DEF mapped
<1>6. mapped[0] = m
  BY <1>4, <1>5
<1>7. \A i \in 1 .. n : mapped[i] = MapDevice(mapped[i - 1], pd, v + i - 1, lo + i - 1)
  BY <1>4, <1>5
<1>8. /\ Moves(m, dirs, current, Outcome(m, mapped[n]), dirs, current, v .. v + n - 1)
      /\ mapped[n].state = "runs" =>
           LET r == [mapped[n] EXCEPT !.state = "kernel overwritten"]
           IN Moves(m, dirs, current, r, dirs, current, v .. v + n - 1)
  <2>1. PICK f : f = mapped
    OBVIOUS
  <2>2. f[0] = m
    BY <1>6, <2>1
  <2>3. \A i \in 1 .. n : f[i] = MapDevice(f[i - 1], dirs[current].paddr, v + i - 1, Min(Devices) + i - 1)
    BY <1>7, <2>1, CurrentPdIs DEF pd, lo
  <2>4. n = Cardinality(Devices)
    BY DEF n
  <2>5. MemorySound(m, dirs, current)
    BY DEF PagingInv
  <2>6. v \in Nat
    BY PageParts
  <2>7. /\ Moves(m, dirs, current, Outcome(m, f[n]), dirs, current, v .. v + n - 1)
        /\ f[n].state = "runs" =>
             LET r == [f[n] EXCEPT !.state = "kernel overwritten"]
             IN Moves(m, dirs, current, r, dirs, current, v .. v + n - 1)
    BY ONLY <1>1, <1>3, <2>2, <2>3, <2>4, <2>5, <2>6, BufferMoves
  <2> QED BY <2>1, <2>7
<1>9. CASE mapped[n].state = "runs" /\ m' = [mapped[n] EXCEPT !.state = "kernel overwritten"]
  BY <1>1, <1>3, <1>8, <1>9
<1>10. CASE After(mapped[n])
  BY <1>1, <1>3, <1>8, <1>10, AfterIs
<1> QED BY <1>3, <1>9, <1>10

-----------------------------------------------------------------------------
(* The initial state, the invariant and the theorems. *)

\* A page is the slot of its table.
LEMMA PageIs ==
  ASSUME NEW v \in Pages
  PROVE  v = TableOf(v) * T + SlotOf(v)
<1>1. v \in Nat /\ T \in Nat \ {0}
  BY PageParts, Constants
<1>2. v = T * TableOf(v) + SlotOf(v) /\ TableOf(v) \in Nat
  BY <1>1, Divide DEF TableOf, SlotOf
<1>3. T * TableOf(v) = TableOf(v) * T
  BY <1>1, <1>2, SMTT(30)
<1> QED BY <1>2, <1>3

\* paging_init: its frames have the owners that its tables give them.
LEMMA InitIsSound ==
  ASSUME Init
  PROVE  PagingInv
<1> DEFINE table == KernelPd + 1
           heapTable == TableOf(HeapPage)
           there == {v \in Pages : TableOf(v) = heapTable /\ v < HeapPage}
           frameOf(v) == table + 1 + SlotOf(v)
           kernelDir == [BlankDir EXCEPT ![heapTable] = Entry(table, FALSE)]
           heapPages == [i \in 0 .. T - 1 |->
                           IF heapTable * T + i \in there
                           THEN Entry(frameOf(heapTable * T + i), FALSE) ELSE Empty]
           mem == [x \in {KernelPd, table} |-> IF x = KernelPd THEN kernelDir ELSE heapPages]
<1>1. /\ m.frames = {KernelPd, table} \union {frameOf(v) : v \in there}
      /\ m.mem = mem /\ m.mapUsed = {} /\ m.window = [w \in 0 .. WindowPages - 1 |-> 0]
      /\ m.index = H!hashmap_create /\ m.dma = {} /\ m.room \in 0 .. PageRoom
      /\ m.heapEnd = HeapPage /\ m.state = "runs"
      /\ DOMAIN m = {"frames", "mem", "mapUsed", "window", "index", "dma", "room", "heapEnd", "state"}
      /\ m = [frames |-> m.frames, mem |-> m.mem, mapUsed |-> m.mapUsed, window |-> m.window,
              index |-> m.index, dma |-> m.dma, room |-> m.room, heapEnd |-> m.heapEnd, state |-> m.state]
  BY DEF Init
<1>2. dirs = [d \in {"kernel"} |-> [paddr |-> KernelPd, pts |-> 0]] /\ current = "kernel"
  BY DEF Init
<1>3. KernelPd \in Nat \ {0} /\ table \in Nat \ {0} /\ table # KernelPd
  BY Constants DEF KernelPd
<1>4. heapTable \in KernelTables /\ heapTable \in Tables /\ heapTable \notin UserTables
  <2>1. HeapPage \in HeapPage .. HeapMax - 1
    BY VmemAssumption
  <2> QED BY <2>1, VmemAssumption DEF Tables
<1>5. \A v \in there : v \in Pages /\ SlotOf(v) \in Slots /\ SlotOf(v) \in Nat /\ TableOf(v) = heapTable
  BY PageParts, Constants DEF Slots
<1> HIDE DEF heapTable, there, table
<1>6. \A v \in there : frameOf(v) \in Nat /\ frameOf(v) > table /\ frameOf(v) > KernelPd
  BY <1>3, <1>5 DEF table
<1>7. \A v, w \in there : frameOf(v) = frameOf(w) => v = w
  <2>1. SUFFICES ASSUME NEW v \in there, NEW w \in there, frameOf(v) = frameOf(w)
                 PROVE  v = w
    OBVIOUS
  <2>2. SlotOf(v) = SlotOf(w)
    BY <1>3, <1>5, <2>1
  <2> QED BY <1>5, <2>2, PageParts
<1> HIDE DEF frameOf
<1> DEFINE none == [kind |-> "none", who |-> "kernel", at |-> 0]
           own == [f \in Nat |->
                     IF f = KernelPd THEN OwnDir("kernel")
                     ELSE IF f = table THEN OwnTable("kernel", heapTable)
                     ELSE IF \E v \in there : f = frameOf(v)
                     THEN OwnPage("kernel", CHOOSE v \in there : f = frameOf(v))
                     ELSE none]
<1>8. /\ own[KernelPd] = OwnDir("kernel") /\ own[table] = OwnTable("kernel", heapTable)
      /\ \A v \in there : own[frameOf(v)] = OwnPage("kernel", v)
      /\ \A f \in Nat : own[f].kind # "none" => f \in m.frames
  <2>1. own[KernelPd] = OwnDir("kernel") /\ own[table] = OwnTable("kernel", heapTable)
    BY <1>3
  <2>2. ASSUME NEW v \in there PROVE own[frameOf(v)] = OwnPage("kernel", v)
    <3>1. (CHOOSE w \in there : frameOf(v) = frameOf(w)) = v
      BY <1>7
    <3>2. frameOf(v) \in Nat /\ frameOf(v) # KernelPd /\ frameOf(v) # table
      BY <1>3, <1>6
    <3> QED BY <3>1, <3>2
  <2>3. ASSUME NEW f \in Nat, f \notin m.frames PROVE own[f].kind = "none"
    BY <1>1, <2>3
  <2> QED BY <2>1, <2>2, <2>3
<1>9. own \in [Nat -> OwnerSet]
  <2>1. ASSUME NEW f \in Nat PROVE own[f] \in OwnerSet
    <3>1. OwnDir("kernel") \in OwnerSet /\ none \in OwnerSet
      BY DEF OwnDir, OwnerSet, DirNames
    <3>2. heapTable \in Nat
      BY <1>4, Constants
    <3>3. OwnTable("kernel", heapTable) \in OwnerSet
      BY <3>2 DEF OwnTable, OwnerSet, DirNames, Who
    <3>4. \A v \in there : OwnPage("kernel", v) \in OwnerSet
      BY <1>5, PageParts DEF OwnPage, OwnerSet, DirNames, Who
    <3> HIDE DEF none
    <3> QED BY <3>1, <3>3, <3>4
  <2> QED BY <2>1
<1> HIDE DEF own, none
<1>10. /\ DOMAIN dirs = {"kernel"} /\ dirs["kernel"].paddr = KernelPd
       /\ dirs \in DirList
  <2>1. DOMAIN dirs = {"kernel"} /\ dirs["kernel"].paddr = KernelPd
    BY <1>2
  <2>2. dirs \in [{"kernel"} -> [paddr : Nat, pts : Nat]]
    BY <1>2, <1>3
  <2> QED BY <2>1, <2>2 DEF DirList, DirNames
<1>11. kernelDir \in DirSet /\ kernelDir[heapTable] = Entry(table, FALSE)
       /\ \A t \in Tables \ {heapTable} : kernelDir[t] = Empty
  <2>1. Entry(table, FALSE) \in EntrySet /\ Empty \in EntrySet
    BY <1>3 DEF Entry, Empty, EntrySet
  <2> QED BY <1>4, <2>1 DEF BlankDir, DirSet
<1>12. heapPages \in TableSet
       /\ \A v \in Pages : TableOf(v) = heapTable =>
            heapPages[SlotOf(v)] = IF v \in there THEN Entry(frameOf(v), FALSE) ELSE Empty
  <2>1. \A v \in there : Entry(frameOf(v), FALSE) \in EntrySet
    BY <1>6 DEF Entry, EntrySet
  <2>2. Empty \in EntrySet
    BY DEF Empty, EntrySet
  <2>3. heapPages \in TableSet
    BY <2>1, <2>2 DEF TableSet, Slots
  <2>4. ASSUME NEW v \in Pages, TableOf(v) = heapTable
        PROVE  heapPages[SlotOf(v)] = IF v \in there THEN Entry(frameOf(v), FALSE) ELSE Empty
    <3>1. SlotOf(v) \in 0 .. T - 1 /\ heapTable * T + SlotOf(v) = v
      BY <2>4, PageParts, PageIs DEF Slots
    <3> QED BY <3>1
  <2> QED BY <2>3, <2>4
<1> HIDE DEF kernelDir, heapPages
<1>13. /\ m.mem[KernelPd] = kernelDir /\ m.mem[table] = heapPages /\ DOMAIN m.mem = {KernelPd, table}
       /\ m.mem \in Memory
  <2>1. m.mem[KernelPd] = kernelDir /\ m.mem[table] = heapPages /\ DOMAIN m.mem = {KernelPd, table}
    BY <1>1, <1>3
  <2>2. mem \in [{KernelPd, table} -> DirSet \union TableSet]
    BY <1>11, <1>12
  <2>3. {KernelPd, table} \in SUBSET Nat
    BY <1>3
  <2> HIDE DEF mem
  <2>4. mem \in Memory
    BY <2>2, <2>3 DEF Memory
  <2> QED BY <1>1, <2>1, <2>4
<1>14. m \in State
  <2>1. m.frames \in SUBSET Nat
    BY <1>1, <1>3, <1>6
  <2>2. m.window \in [0 .. WindowPages - 1 -> Nat] /\ m.room \in Nat /\ m.heapEnd \in Nat
    BY <1>1, Constants
  <2>3. m.index \in Maps
    BY <1>1, EmptyMap
  <2>4. m.mapUsed \in SUBSET Nat /\ m.dma \in SUBSET Nat /\ m.state \in States
    BY <1>1 DEF States
  <2> HIDE DEF mem
  <2> QED BY <1>1, <1>13, <2>1, <2>2, <2>3, <2>4 DEF State
<1>15. /\ TableEntry(m, dirs, "kernel", heapTable) = Entry(table, FALSE)
       /\ \A t \in Tables \ {heapTable} : TableEntry(m, dirs, "kernel", t).frame = 0
  <2>1. \A t : TableEntry(m, dirs, "kernel", t) = kernelDir[t]
    BY <1>10, <1>13 DEF TableEntry
  <2>2. \A t \in Tables \ {heapTable} : kernelDir[t].frame = 0
    BY <1>11 DEF Empty
  <2> QED BY <1>11, <2>1, <2>2
<1>16. DirOwned(m, dirs, own, "kernel")
  BY <1>8, <1>10, <1>11, <1>13 DEF DirOwned
<1>17. ASSUME NEW t \in Tables PROVE TableOwned(m, dirs, own, "kernel", t)
  <2>1. CASE t = heapTable
    BY <1>4, <1>8, <1>12, <1>13, <1>15, <2>1 DEF TableOwned, Entry
  <2>2. CASE t # heapTable
    BY <1>15, <2>2 DEF TableOwned
  <2> QED BY <2>1, <2>2
<1>18. ASSUME NEW v \in Pages PROVE PageOwned(m, dirs, own, "kernel", v)
  <2>1. CASE TableOf(v) = heapTable
    <3>1. TableEntry(m, dirs, "kernel", TableOf(v)).frame = table
      BY <1>15, <2>1 DEF Entry
    <3>2. PageEntry(m, dirs, "kernel", v) = heapPages[SlotOf(v)]
      BY <1>13, <3>1 DEF PageEntry
    <3>3. CASE v \in there
      <4>1. PageEntry(m, dirs, "kernel", v) = Entry(frameOf(v), FALSE)
        BY <1>12, <2>1, <3>2, <3>3
      <4> QED BY <1>8, <3>3, <4>1 DEF PageOwned, Entry
    <3>4. CASE v \notin there
      <4>1. PageEntry(m, dirs, "kernel", v) = Empty
        BY <1>12, <2>1, <3>2, <3>4
      <4> QED BY <4>1 DEF PageOwned, Empty
    <3> QED BY <3>3, <3>4
  <2>2. CASE TableOf(v) # heapTable
    BY <1>15, <2>2, PageParts DEF PageOwned
  <2> QED BY <2>1, <2>2
<1>19. IndexSound(m) /\ DirsShown(m, dirs)
  BY <1>1, <1>10, EmptyMap DEF IndexSound, DirsShown, Has
<1>20. m.heapEnd \in HeapPage .. HeapMax
  BY <1>1, VmemAssumption
<1>21. \A f \in m.dma : own[f].kind = "dma"
  BY <1>1
<1>22. Sound(m, dirs, own)
  BY <1>8, <1>9, <1>10, <1>14, <1>16, <1>17, <1>18, <1>19, <1>20, <1>21 DEF Sound
<1>23. Bounded(m)
  BY <1>1 DEF Bounded
<1> QED BY <1>2, <1>10, <1>22, <1>23 DEF PagingInv, MemorySound

\* Every step is a move.
LEMMA NextMoves ==
  ASSUME PagingInv, Next
  PROVE  Moves(m, dirs, current, m', dirs', current', asked')
<1>1. CASE SpawnIdle
  <2>1. PICK d \in {"idle", "program"} : d = "idle"
    OBVIOUS
  <2>2. vmem_clone_dir(d) /\ current' = current
    BY <1>1, <2>1 DEF SpawnIdle
  <2> QED BY <2>2, CloneDirMoves
<1>2. CASE StartProgram
  <2>1. PICK d \in {"idle", "program"} : d = "program"
    OBVIOUS
  <2>2. vmem_clone_dir(d) /\ (current' = current \/ (m'.state = "runs" /\ current' = d))
    BY <1>2, <2>1 DEF StartProgram
  <2> QED BY <2>2, CloneDirMoves
<1>3. \/ HeapGrows \/ SmallAllocation \/ DmaPage \/ vmem_map_vaddr_n
      \/ SpawnIdle \/ StartProgram \/ UserPage \/ CheckPointer \/ MapFrameBuffer
  BY DEF Next
<1> QED BY <1>1, <1>2, <1>3, HeapGrowsMoves, SmallAllocationMoves, DmaPageMoves, WindowRunMoves,
           UserPageMoves, CheckPointerMoves, FrameBufferMoves

\* The invariant.
LEMMA PagingInvariant == Spec => []PagingInv
<1>1. ASSUME PagingInv, [Next]_vars
      PROVE  PagingInv'
  <2>1. CASE Next
    BY <1>1, <2>1, NextMoves DEF Moves, PagingInv
  <2>2. CASE UNCHANGED vars
    BY <1>1, <2>2 DEF PagingInv, vars
  <2> QED BY <1>1, <2>1, <2>2
<1> QED BY <1>1, InitIsSound, PTL DEF Spec

\* The use that the owner of frame f makes of it.
Use(o, f) ==
  IF o.kind = "directory" THEN <<"directory", o.who>>
  ELSE IF o.kind = "table" THEN <<"table", o.who, o.at>>
  ELSE IF o.kind = "page" THEN <<"page", o.who, o.at>>
  ELSE <<"dma", f>>

\* What the processor finds.
LEMMA WalkIs ==
  ASSUME NEW d \in DOMAIN dirs, NEW v \in Pages
  PROVE  Walk(d, v) = Mapped(m, dirs, d, v)
BY DEF Walk, Mapped, TableEntry, PageEntry

\* Every use of a frame is that of its owner.
LEMMA UsesAreOwn ==
  ASSUME NEW own, Sound(m, dirs, own), NEW f \in FirstFrame .. FrameCount - 1
  PROVE  /\ Uses(f) \subseteq {Use(own[f], f)}
         /\ Uses(f) # {} => f \in m.frames
<1>1. f \in Nat \ {0} /\ f \notin Devices
  <2>1. f \in Nat /\ f >= FirstFrame /\ f < FrameCount
    BY Constants
  <2>2. f # 0
    BY <2>1, Constants
  <2>3. \A d \in Devices : d \in Nat /\ d >= FrameCount
    BY VmemAssumption
  <2> QED BY <2>1, <2>2, <2>3, Constants
<1>2. ASSUME NEW u \in Uses(f)
      PROVE  u = Use(own[f], f) /\ own[f].kind # "none"
  <2>1. CASE \E d \in DOMAIN dirs : dirs[d].paddr = f /\ u = <<"directory", d>>
    <3>1. PICK d \in DOMAIN dirs : dirs[d].paddr = f /\ u = <<"directory", d>>
      BY <2>1
    <3>2. own[f] = OwnDir(d)
      BY <3>1 DEF Sound, DirOwned
    <3>3. own[f].kind = "directory" /\ own[f].who = d
      BY <3>2 DEF OwnDir
    <3> QED BY <3>1, <3>3 DEF Use
  <2>2. CASE \E d \in DOMAIN dirs, v \in Pages :
               /\ m.mem[dirs[d].paddr][TableOf(v)].frame = f
               /\ u = <<"table", Owner(d, v), TableOf(v)>>
    <3>1. PICK d \in DOMAIN dirs, v \in Pages :
               /\ m.mem[dirs[d].paddr][TableOf(v)].frame = f
               /\ u = <<"table", Owner(d, v), TableOf(v)>>
      BY <2>2
    <3>2. TableEntry(m, dirs, d, TableOf(v)).frame = f /\ TableOf(v) \in Tables
      BY <3>1, PageParts DEF TableEntry
    <3>3. own[f] = OwnTable(d, TableOf(v))
      BY <1>1, <3>2 DEF Sound, TableOwned
    <3>4. own[f].kind = "table" /\ own[f].who = Who(d, TableOf(v)) /\ own[f].at = TableOf(v)
      BY <3>3 DEF OwnTable
    <3>5. Owner(d, v) = Who(d, TableOf(v))
      BY DEF Owner, Who, UserPages
    <3> QED BY <3>1, <3>4, <3>5 DEF Use
  <2>3. CASE \E d \in DOMAIN dirs, v \in Pages : Walk(d, v) = f /\ u = <<"page", Owner(d, v), v>>
    <3>1. PICK d \in DOMAIN dirs, v \in Pages : Walk(d, v) = f /\ u = <<"page", Owner(d, v), v>>
      BY <2>3
    <3>2. Mapped(m, dirs, d, v) = f
      BY <3>1, WalkIs
    <3>3. PageEntry(m, dirs, d, v).frame = f /\ TableEntry(m, dirs, d, TableOf(v)).frame # 0
      BY <1>1, <3>2 DEF Mapped
    <3>4. PageOwned(m, dirs, own, d, v)
      BY DEF Sound
    <3>5. own[f] = OwnPage(d, v)
      BY <1>1, <3>3, <3>4 DEF PageOwned
    <3>6. own[f].kind = "page" /\ own[f].who = Who(d, TableOf(v)) /\ own[f].at = v
      BY <3>5 DEF OwnPage
    <3>7. Owner(d, v) = Who(d, TableOf(v))
      BY DEF Owner, Who, UserPages
    <3> QED BY <3>1, <3>6, <3>7 DEF Use
  <2>4. CASE f \in m.dma /\ u = <<"dma", f>>
    <3>1. own[f].kind = "dma"
      BY <2>4 DEF Sound
    <3> QED BY <2>4, <3>1 DEF Use
  <2>5. \/ \E d \in DOMAIN dirs : dirs[d].paddr = f /\ u = <<"directory", d>>
        \/ \E d \in DOMAIN dirs, v \in Pages :
               /\ m.mem[dirs[d].paddr][TableOf(v)].frame = f
               /\ u = <<"table", Owner(d, v), TableOf(v)>>
        \/ \E d \in DOMAIN dirs, v \in Pages : Walk(d, v) = f /\ u = <<"page", Owner(d, v), v>>
        \/ f \in m.dma /\ u = <<"dma", f>>
    BY DEF Uses
  <2> QED BY <2>1, <2>2, <2>3, <2>4, <2>5
<1>3. Uses(f) # {} => f \in m.frames
  BY <1>1, <1>2 DEF Sound
<1> QED BY <1>2, <1>3

\* No frame of memory is ever used twice, and none that is used is free for
\* vmem_frame_find_first: directories, tables, pages and the drive's buffers are apart,
\* however kmalloc, the window and vmem_get_page call each other.
THEOREM FramesHaveOneOwner == Spec => []OneOwner
<1>1. ASSUME PagingInv
      PROVE  OneOwner
  <2>1. PICK own : Sound(m, dirs, own)
    BY <1>1 DEF PagingInv, MemorySound
  <2>2. ASSUME NEW f \in FirstFrame .. FrameCount - 1
        PROVE  Cardinality(Uses(f)) <= 1 /\ (Uses(f) # {} => f \in m.frames)
    <3>1. PICK u : Uses(f) \subseteq {u}
      BY <2>1, UsesAreOwn
    <3>2. Uses(f) = {} \/ Uses(f) = {u}
      BY <3>1
    <3>3. Cardinality({}) = 0 /\ Cardinality({u}) = 1
      BY FS_EmptySet, FS_Singleton
    <3>4. Cardinality(Uses(f)) <= 1
      BY <3>2, <3>3
    <3> QED BY <2>1, <3>4, UsesAreOwn
  <2> QED BY <2>2 DEF OneOwner
<1> QED BY <1>1, PagingInvariant, PTL

\* Whatever vmem_validate_user_ptr accepts in the program's half the program could
\* reach itself, though the function never looks at the flags of the directory.
THEOREM ValidatedPointersAreUsable == Spec => []ValidatedIsAccessible
<1>1. ASSUME PagingInv
      PROVE  ValidatedIsAccessible
  <2>1. PICK own : Sound(m, dirs, own)
    BY <1>1 DEF PagingInv, MemorySound
  <2>2. SUFFICES ASSUME current # "kernel", NEW v \in UserPages, NEW k \in 1 .. AddressPages,
                        v .. v + k - 1 \subseteq UserPages,
                        vmem_validate_user_ptr(v, k), NEW p \in v .. v + k - 1
                 PROVE  /\ m.mem[dirs[current].paddr][TableOf(p)].user
                        /\ Walk(current, p) # 0
    BY DEF ValidatedIsAccessible
  <2>3. p \in Pages /\ p \in Nat /\ TableOf(p) \in UserTables
    BY <2>2, PageParts DEF UserPages
  <2>4. CurrentPd = dirs[current].paddr /\ current \in DOMAIN dirs
    BY <1>1, CurrentPdIs
  <2>5. (v + k - 1) % AddressPages = v + k - 1
    <3>1. AddressPages \in Nat /\ Pages \subseteq 0 .. AddressPages - 1
      BY VmemAssumption
    <3>2. v \in Nat /\ k \in Nat \ {0}
      BY <3>1 DEF UserPages
    <3>3. v + k - 1 \in v .. v + k - 1
      BY <3>2
    <3>4. v + k - 1 \in 0 .. AddressPages - 1
      BY <2>2, <3>1, <3>3 DEF UserPages
    <3>5. \A x \in 0 .. AddressPages - 1 : x % AddressPages = x
      BY <3>1
    <3> QED BY <3>4, <3>5
  <2>6. /\ TableEntry(m, dirs, current, TableOf(p)).frame # 0
        /\ PageEntry(m, dirs, current, p).frame # 0
    BY <2>2, <2>4, <2>5 DEF vmem_validate_user_ptr, TableEntry, PageEntry
  <2>7. TableOwned(m, dirs, own, current, TableOf(p))
    BY <2>1, <2>3, <2>4, PageParts DEF Sound
  <2>8. TableEntry(m, dirs, current, TableOf(p)).user
    BY <2>3, <2>6, <2>7 DEF TableOwned
  <2>9. Walk(current, p) # 0
    BY <2>3, <2>4, <2>6, WalkIs DEF Mapped
  <2> QED BY <2>8, <2>9 DEF TableEntry
<1> QED BY <1>1, PagingInvariant, PTL

\* No call but IOCTL_VID_MAP ever moves a page that is mapped, in any directory, and
\* none unmaps one; only what was asked for, and the heap's next pages, appear.
THEOREM PagesStayMapped == Spec => MappingsAreKept
<1> DEFINE Kept2 == \A d \in DOMAIN dirs, v \in Pages :
       Walk(d, v)' # Walk(d, v) =>
         \/ Walk(d, v) = 0 /\ v \in m.heapEnd .. m'.heapEnd - 1
         \/ /\ v \in asked' /\ (d = current \/ v \notin UserPages)
            /\ Walk(d, v) = 0 \/ Walk(d, v)' \in Devices
<1>1. ASSUME PagingInv, [Next]_vars
      PROVE  [Kept2]_vars
  <2>1. CASE Next
    <3>1. MapsKept(m, dirs, current, m', dirs', asked')
      BY <1>1, <2>1, NextMoves DEF Moves
    <3>2. \A d \in DOMAIN dirs, v \in Pages : Walk(d, v) = Mapped(m, dirs, d, v)
      BY WalkIs
    <3>3. \A d \in DOMAIN dirs, v \in Pages : Walk(d, v)' = Mapped(m', dirs', d, v)
      BY DEF Walk, Mapped, TableEntry, PageEntry
    <3>4. Kept2
      BY <3>1, <3>2, <3>3 DEF MapsKept, UserPages
    <3> QED BY <3>4
  <2>2. CASE UNCHANGED vars
    BY <2>2
  <2> QED BY <1>1, <2>1, <2>2
<1> QED BY <1>1, PagingInvariant, PTL DEF MappingsAreKept, Spec
=============================================================================
