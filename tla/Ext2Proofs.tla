----------------------------- MODULE Ext2Proofs -----------------------------
(***************************************************************************)
(* The blocks of a file system, for every disk, block size and set of      *)
(* files, as long as files stay below the size for which                   *)
(* free_inode_blocks is right, a write has at least one word and a         *)
(* truncation ends inside a block (Contract): the counts of free blocks    *)
(* are those of the bitmaps and a block has one owner; until the disk is   *)
(* spoilt none is lost, and files read back what was written.  Of the      *)
(* numbers of i_block and of indirect blocks the proof has to know that    *)
(* the blocks of a file are its first i_blocks ones, counted as            *)
(* free_inode_block counts them.                                           *)
(*                                                                         *)
(* For one file that grows to any size, up to the last block under the     *)
(* triply indirect one, and shrinks while it is small: get_block_count and *)
(* get_content_blocks agree with the tree of blocks that get_real_block    *)
(* finds (GrowthContract).                                                 *)
(***************************************************************************)
EXTENDS Ext2Blocks, Ext2Growth, FiniteSetTheorems, SequenceTheorems, WellFoundedInduction, TLAPS

-----------------------------------------------------------------------------
(* Numbers.                                                                *)

\* A set of numbers that is not empty has a least element.
LEMMA LeastElement ==
  ASSUME NEW S, S \subseteq Nat, S # {}
  PROVE  \E n \in S : \A k \in S : n <= k
<1> DEFINE Below == {0 .. n : n \in S}
<1>1. Below \subseteq FiniteSubsetsOf(Nat) /\ Below # {}
  <2>1. \A n \in S : IsFiniteSet(0 .. n) /\ 0 .. n \subseteq Nat
    BY FS_Interval
  <2> QED BY <2>1 DEF FiniteSubsetsOf
<1>2. PICK x \in Below : \A y \in Below : ~ (<<y, x>> \in StrictSubsetOrdering(Nat))
  <2> HIDE DEF Below
  <2> QED BY <1>1, FS_StrictSubsetOrderingWellFounded, WFMin, Zenon
<1>3. PICK n \in S : x = 0 .. n
  OBVIOUS
<1>4. ASSUME NEW k \in S, k < n
      PROVE  FALSE
  <2>1. 0 .. k \in Below
    OBVIOUS
  <2>2. 0 .. k \subseteq 0 .. n /\ n \in 0 .. n /\ n \notin 0 .. k /\ 0 .. n \subseteq Nat
    BY <1>4
  <2>3. 0 .. k # 0 .. n
    BY <2>2
  <2>4. 0 .. k \in SUBSET Nat /\ 0 .. n \in SUBSET Nat
    BY <2>2
  <2>5. <<0 .. k, 0 .. n>> \in StrictSubsetOrdering(Nat)
    BY <1>1, <1>3, <2>1, <2>2, <2>3, <2>4 DEF StrictSubsetOrdering, FiniteSubsetsOf
  <2> QED BY <1>2, <1>3, <2>1, <2>5
<1> QED BY <1>3, <1>4

\* Induction, for a set of numbers.
LEMMA Induction ==
  ASSUME NEW Good, 0 \in Good, \A n \in Nat : n \in Good => n + 1 \in Good
  PROVE  Nat \subseteq Good
<1> SUFFICES ASSUME Nat \ Good # {} PROVE FALSE
  OBVIOUS
<1>1. PICK n \in Nat \ Good : \A k \in Nat \ Good : n <= k
  BY LeastElement
<1>2. n - 1 \in Nat /\ n - 1 \in Good
  BY <1>1
<1> QED BY <1>1, <1>2

\* What Min finds.
LEMMA MinIs ==
  ASSUME NEW S, S \subseteq Nat, S # {}
  PROVE  Min(S) \in S
<1>1. PICK n \in S : \A k \in S : n <= k
  BY LeastElement
<1> QED BY <1>1 DEF Min

LEMMA DivMod ==
  ASSUME NEW x \in Nat
  PROVE  x \div P \in Nat /\ x % P \in 0 .. P - 1 /\ x = (x \div P) * P + (x % P)
BY MapAssumption

LEMMA DivUnique ==
  ASSUME NEW q \in Nat, NEW r \in 0 .. P - 1
  PROVE  (q * P + r) \div P = q /\ (q * P + r) % P = r
BY MapAssumption

LEMMA TimesLess ==
  ASSUME NEW a \in Int, NEW b \in Int, a <= b
  PROVE  a * P <= b * P
BY MapAssumption

LEMMA DivBelow ==
  ASSUME NEW x \in Nat, NEW m \in Nat, x < m * P
  PROVE  x \div P < m
<1>1. PICK q \in Nat : q = x \div P
  BY DivMod
<1>2. q * P <= x
  BY <1>1, DivMod, MapAssumption
<1>3. CASE m <= q
  BY <1>2, <1>3, TimesLess, MapAssumption
<1> QED BY <1>1, <1>3

-----------------------------------------------------------------------------
(* Places in an inode.                                                     *)

\* The blocks a file may have: all direct ones, the singly indirect block's and
\* those of the first block under the doubly indirect one.
Most == NDIR + P + P

LEMMA Bounds ==
  /\ NDIR \in Nat /\ P \in Nat /\ NDIR > 0 /\ P > 0 /\ Most \in Nat
  /\ SIND = NDIR /\ DIND = NDIR + 1 /\ TIND = NDIR + 2
  /\ Groups \in Nat /\ PerGroup \in Nat /\ Groups > 0 /\ PerGroup > 0
BY MapAssumption, BlocksAssumption DEF Most, SIND, DIND, TIND

Up(o) == SubSeq(o, 1, Len(o) - 1)
Idx(o) == o[Len(o)]

\* Prefixes of places.
LEMMA CutOne ==
  ASSUME NEW i, NEW j
  PROVE  SubSeq(<<i, j>>, 1, 1) = <<i>>
<1>1. PICK S : S = {i, j}
  OBVIOUS
<1>2. PICK s : s = SubSeq(<<i, j>>, 1, 1)
  OBVIOUS
<1>3. <<i>> \in Seq(S) /\ Len(<<i>>) = 1 /\ <<i>>[1] = i
  BY <1>1
<1>4. s \in Seq(S) /\ Len(s) = 1 /\ s[1] = i
  <2>1. \A k \in 1 .. 1 : <<i, j>>[k] \in S
    BY <1>1
  <2> QED BY <1>2, <2>1, SubSeqProperties
<1>5. \A k \in 1 .. Len(s) : s[k] = <<i>>[k]
  BY <1>3, <1>4
<1> QED BY <1>2, <1>3, <1>4, <1>5, SeqEqual

LEMMA CutTwo ==
  ASSUME NEW i, NEW j, NEW l
  PROVE  SubSeq(<<i, j, l>>, 1, 2) = <<i, j>>
<1>1. PICK S : S = {i, j, l}
  OBVIOUS
<1>2. PICK s : s = SubSeq(<<i, j, l>>, 1, 2)
  OBVIOUS
<1>3. <<i, j>> \in Seq(S) /\ Len(<<i, j>>) = 2 /\ <<i, j>>[1] = i /\ <<i, j>>[2] = j
  BY <1>1
<1>4. s \in Seq(S) /\ Len(s) = 2 /\ s[1] = i /\ s[2] = j
  <2>1. \A k \in 1 .. 2 : <<i, j, l>>[k] \in S
    BY <1>1
  <2> QED BY <1>2, <2>1, SubSeqProperties
<1>5. \A k \in 1 .. Len(s) : s[k] = <<i, j>>[k]
  BY <1>3, <1>4
<1> QED BY <1>2, <1>3, <1>4, <1>5, SeqEqual

LEMMA OnePath == ASSUME NEW i PROVE Len(<<i>>) = 1 /\ Idx(<<i>>) = i
BY DEF Idx

LEMMA TwoPath ==
  ASSUME NEW i, NEW j
  PROVE  Len(<<i, j>>) = 2 /\ Idx(<<i, j>>) = j /\ Up(<<i, j>>) = <<i>>
BY CutOne DEF Idx, Up

LEMMA ThreePath ==
  ASSUME NEW i, NEW j, NEW l
  PROVE  Len(<<i, j, l>>) = 3 /\ Idx(<<i, j, l>>) = l /\ Up(<<i, j, l>>) = <<i, j>>
BY CutTwo DEF Idx, Up

\* A place at the top is in the inode, others are in the block above.
Top(o) == Len(o) = 1

LEMMA PathIs ==
  ASSUME NEW o \in Paths
  PROVE  /\ Top(o) => Idx(o) \in 0 .. TIND /\ o = <<Idx(o)>>
         /\ ~ Top(o) => /\ Up(o) \in Paths /\ Idx(o) \in 0 .. P - 1
                        /\ Len(Up(o)) = Len(o) - 1 /\ Len(o) \in {2, 3}
         /\ Len(o) \in {1, 2, 3}
<1>1. ASSUME NEW i \in 0 .. TIND, o = <<i>>
      PROVE  Len(o) = 1 /\ Idx(o) \in 0 .. TIND /\ o = <<Idx(o)>>
  BY <1>1, OnePath
<1>2. ASSUME NEW i \in {SIND, DIND}, NEW j \in 0 .. P - 1, o = <<i, j>>
      PROVE  Len(o) = 2 /\ Up(o) \in Paths /\ Len(Up(o)) = 1 /\ Idx(o) \in 0 .. P - 1
  <2>1. Up(o) = <<i>> /\ Idx(o) = j /\ Len(o) = 2
    BY <1>2, TwoPath
  <2>2. i \in 0 .. TIND
    BY Bounds
  <2>3. <<i>> \in Paths
    BY <2>2 DEF Paths
  <2> QED BY <2>1, <2>3, OnePath
<1>3. ASSUME NEW j \in 0 .. P - 1, NEW l \in 0 .. P - 1, o = <<DIND, j, l>>
      PROVE  Len(o) = 3 /\ Up(o) \in Paths /\ Len(Up(o)) = 2 /\ Idx(o) \in 0 .. P - 1
  <2>1. Up(o) = <<DIND, j>> /\ Idx(o) = l /\ Len(o) = 3
    BY <1>3, ThreePath
  <2>2. <<DIND, j>> \in Paths
    BY DEF Paths
  <2> QED BY <2>1, <2>2, TwoPath
<1>4. \/ \E i \in 0 .. TIND : o = <<i>>
      \/ \E i \in {SIND, DIND}, j \in 0 .. P - 1 : o = <<i, j>>
      \/ \E j \in 0 .. P - 1, l \in 0 .. P - 1 : o = <<DIND, j, l>>
  BY DEF Paths
<1>5. \/ Len(o) = 1 /\ Idx(o) \in 0 .. TIND /\ o = <<Idx(o)>>
      \/ Len(o) = 2 /\ Up(o) \in Paths /\ Len(Up(o)) = 1 /\ Idx(o) \in 0 .. P - 1
      \/ Len(o) = 3 /\ Up(o) \in Paths /\ Len(Up(o)) = 2 /\ Idx(o) \in 0 .. P - 1
  BY <1>1, <1>2, <1>3, <1>4, Zenon
<1>6. PICK n, m : n = Len(o) /\ m = Len(Up(o))
  OBVIOUS
<1>7. \/ n = 1 /\ Idx(o) \in 0 .. TIND /\ o = <<Idx(o)>>
      \/ n = 2 /\ Up(o) \in Paths /\ m = 1 /\ Idx(o) \in 0 .. P - 1
      \/ n = 3 /\ Up(o) \in Paths /\ m = 2 /\ Idx(o) \in 0 .. P - 1
  BY <1>5, <1>6
<1>8. n = 1 => Idx(o) \in 0 .. TIND /\ o = <<Idx(o)>>
  BY <1>7
<1>9. n # 1 => Up(o) \in Paths /\ Idx(o) \in 0 .. P - 1 /\ m = n - 1 /\ n \in {2, 3}
  BY <1>7
<1>10. n \in {1, 2, 3}
  BY <1>7
<1> QED BY <1>6, <1>8, <1>9, <1>10 DEF Top

\* A place is its block and its place in that.
LEMMA PathJoins ==
  ASSUME NEW o \in Paths, ~ Top(o)
  PROVE  \/ Len(Up(o)) = 1 /\ o = <<Up(o)[1], Idx(o)>>
         \/ Len(Up(o)) = 2 /\ o = <<Up(o)[1], Up(o)[2], Idx(o)>>
<1>1. ASSUME NEW i \in 0 .. TIND, o = <<i>> PROVE FALSE
  BY <1>1, OnePath DEF Top
<1>2. ASSUME NEW i, NEW j, o = <<i, j>> PROVE Len(Up(o)) = 1 /\ o = <<Up(o)[1], Idx(o)>>
  <2>1. Up(o) = <<i>> /\ Idx(o) = j /\ <<i>>[1] = i /\ Len(<<i>>) = 1
    BY <1>2, TwoPath
  <2> QED BY <1>2, <2>1
<1>3. ASSUME NEW i, NEW j, NEW l, o = <<i, j, l>>
      PROVE  Len(Up(o)) = 2 /\ o = <<Up(o)[1], Up(o)[2], Idx(o)>>
  <2>1. Up(o) = <<i, j>> /\ Idx(o) = l
    BY <1>3, ThreePath
  <2>2. <<i, j>>[1] = i /\ <<i, j>>[2] = j /\ Len(<<i, j>>) = 2
    OBVIOUS
  <2> QED BY <1>3, <2>1, <2>2
<1>4. \/ \E i \in 0 .. TIND : o = <<i>>
      \/ \E i \in {SIND, DIND}, j \in 0 .. P - 1 : o = <<i, j>>
      \/ \E j \in 0 .. P - 1, l \in 0 .. P - 1 : o = <<DIND, j, l>>
  BY DEF Paths
<1> QED BY <1>1, <1>2, <1>3, <1>4

LEMMA PathsDiffer ==
  ASSUME NEW o \in Paths, NEW q \in Paths, Idx(o) = Idx(q),
         Top(o) <=> Top(q), ~ Top(o) => Up(o) = Up(q)
  PROVE  o = q
<1>1. CASE Top(o)
  BY <1>1, PathIs
<1>2. CASE ~ Top(o)
  BY <1>2, PathJoins
<1> QED BY <1>1, <1>2

-----------------------------------------------------------------------------
(* Lookup.                                                                 *)

LEMMA LookupTop ==
  ASSUME NEW d, NEW f, NEW o \in Paths, Top(o)
  PROVE  Lookup(d, f, o) = d.ino[f].i_block[Idx(o)]
<1>1. PICK i : o = <<i>>
  BY PathIs
<1>2. Len(o) = 1 /\ o[1] = i /\ Idx(o) = i
  BY <1>1, OnePath
<1>3. PICK x : x = d.ino[f].i_block[i]
  OBVIOUS
<1> DEFINE Down(w) == w = [k \in 1 .. 1 |->
                            IF k = 1 THEN x
                            ELSE LET b == w[k - 1] IN IF b = 0 THEN 0 ELSE d.block[b][o[k]]]
<1>4. \E w : Down(w)
  <2>1. PICK w : w = [k \in 1 .. 1 |-> x]
    OBVIOUS
  <2>2. \A k \in 1 .. 1 : k = 1
    OBVIOUS
  <2> QED BY <2>1, <2>2
<1>5. PICK w : w = CHOOSE v : Down(v)
  OBVIOUS
<1>6. Down(w)
  BY <1>4, <1>5
<1>7. w[1] = x
  BY <1>6
<1>8. Lookup(d, f, o) = w[1]
  BY <1>2, <1>3, <1>5 DEF Lookup
<1> QED BY <1>2, <1>3, <1>7, <1>8

LEMMA LookupTwo ==
  ASSUME NEW d, NEW f, NEW i, NEW j, NEW x, x = d.ino[f].i_block[i]
  PROVE  Lookup(d, f, <<i, j>>) = IF x = 0 THEN 0 ELSE d.block[x][j]
<1>1. PICK o : o = <<i, j>>
  OBVIOUS
<1>2. Len(o) = 2 /\ o[1] = i /\ o[2] = j
  BY <1>1
<1>3. PICK y : y = IF x = 0 THEN 0 ELSE d.block[x][j]
  OBVIOUS
<1> DEFINE Down(w) == w = [k \in 1 .. 2 |->
                            IF k = 1 THEN d.ino[f].i_block[o[1]]
                            ELSE LET b == w[k - 1] IN IF b = 0 THEN 0 ELSE d.block[b][o[k]]]
<1>4. \E w : Down(w)
  <2>1. PICK w : w = [k \in 1 .. 2 |-> IF k = 1 THEN x ELSE y]
    OBVIOUS
  <2>2. w[1] = x /\ w[2] = y
    BY <2>1
  <2>3. \A k \in 1 .. 2 : w[k] = IF k = 1 THEN d.ino[f].i_block[o[1]]
                         ELSE LET b == w[k - 1] IN IF b = 0 THEN 0 ELSE d.block[b][o[k]]
    <3>1. \A k \in 1 .. 2 : k = 1 \/ (k = 2 /\ k - 1 = 1)
      OBVIOUS
    <3> QED BY <1>2, <1>3, <2>2, <3>1
  <2> QED BY <2>1, <2>3
<1>5. PICK w : w = CHOOSE v : Down(v)
  OBVIOUS
<1>6. Down(w)
  BY <1>4, <1>5
<1>7. w[1] = x
  BY <1>2, <1>6
<1>8. w[2] = y
  BY <1>2, <1>3, <1>6, <1>7
<1>9. Lookup(d, f, o) = w[2]
  BY <1>2, <1>5 DEF Lookup
<1> QED BY <1>1, <1>3, <1>8, <1>9

LEMMA LookupThree ==
  ASSUME NEW d, NEW f, NEW i, NEW j, NEW l, NEW y, y = Lookup(d, f, <<i, j>>)
  PROVE  Lookup(d, f, <<i, j, l>>) = IF y = 0 THEN 0 ELSE d.block[y][l]
<1>1. PICK o : o = <<i, j, l>>
  OBVIOUS
<1>2. Len(o) = 3 /\ o[1] = i /\ o[2] = j /\ o[3] = l
  BY <1>1
<1>3. PICK x : x = d.ino[f].i_block[i]
  OBVIOUS
<1>4. y = IF x = 0 THEN 0 ELSE d.block[x][j]
  BY <1>3, LookupTwo
<1>5. PICK z : z = IF y = 0 THEN 0 ELSE d.block[y][l]
  OBVIOUS
<1> DEFINE Down(w) == w = [k \in 1 .. 3 |->
                            IF k = 1 THEN d.ino[f].i_block[o[1]]
                            ELSE LET b == w[k - 1] IN IF b = 0 THEN 0 ELSE d.block[b][o[k]]]
<1>6. \E w : Down(w)
  <2>1. PICK w : w = [k \in 1 .. 3 |-> IF k = 1 THEN x ELSE IF k = 2 THEN y ELSE z]
    OBVIOUS
  <2>2. w[1] = x /\ w[2] = y /\ w[3] = z
    BY <2>1
  <2>3. \A k \in 1 .. 3 : w[k] = IF k = 1 THEN d.ino[f].i_block[o[1]]
                         ELSE LET b == w[k - 1] IN IF b = 0 THEN 0 ELSE d.block[b][o[k]]
    <3>1. \A k \in 1 .. 3 : k = 1 \/ (k = 2 /\ k - 1 = 1) \/ (k = 3 /\ k - 1 = 2)
      OBVIOUS
    <3> QED BY <1>2, <1>3, <1>4, <1>5, <2>2, <3>1
  <2> QED BY <2>1, <2>3
<1>7. PICK w : w = CHOOSE v : Down(v)
  OBVIOUS
<1>8. Down(w)
  BY <1>6, <1>7
<1>9. w[1] = x
  BY <1>2, <1>3, <1>8
<1>10. w[2] = y
  BY <1>2, <1>4, <1>8, <1>9
<1>11. w[3] = z
  BY <1>2, <1>5, <1>8, <1>10
<1>12. Lookup(d, f, o) = w[3]
  BY <1>2, <1>7 DEF Lookup
<1> QED BY <1>1, <1>5, <1>11, <1>12

LEMMA LookupBelow ==
  ASSUME NEW d, NEW f, NEW o \in Paths, ~ Top(o), NEW y, y = Lookup(d, f, Up(o))
  PROVE  Lookup(d, f, o) = IF y = 0 THEN 0 ELSE d.block[y][Idx(o)]
<1>1. ASSUME NEW i \in 0 .. TIND, o = <<i>> PROVE FALSE
  BY <1>1, OnePath DEF Top
<1>2. ASSUME NEW i \in {SIND, DIND}, NEW j \in 0 .. P - 1, o = <<i, j>>
      PROVE  Lookup(d, f, o) = IF y = 0 THEN 0 ELSE d.block[y][Idx(o)]
  <2>1. Up(o) = <<i>> /\ Idx(o) = j
    BY <1>2, TwoPath
  <2>2. <<i>> \in Paths /\ Top(<<i>>)
    <3>1. i \in 0 .. TIND
      BY Bounds
    <3> QED BY <3>1, OnePath DEF Paths, Top
  <2>3. y = d.ino[f].i_block[i]
    BY <2>1, <2>2, LookupTop, OnePath
  <2> QED BY <1>2, <2>1, <2>3, LookupTwo
<1>3. ASSUME NEW j \in 0 .. P - 1, NEW l \in 0 .. P - 1, o = <<DIND, j, l>>
      PROVE  Lookup(d, f, o) = IF y = 0 THEN 0 ELSE d.block[y][Idx(o)]
  <2>1. Up(o) = <<DIND, j>> /\ Idx(o) = l
    BY <1>3, ThreePath
  <2> QED BY <1>3, <2>1, LookupThree
<1>4. \/ \E i \in 0 .. TIND : o = <<i>>
      \/ \E i \in {SIND, DIND}, j \in 0 .. P - 1 : o = <<i, j>>
      \/ \E j \in 0 .. P - 1, l \in 0 .. P - 1 : o = <<DIND, j, l>>
  BY DEF Paths
<1> QED BY <1>1, <1>2, <1>3, <1>4

-----------------------------------------------------------------------------
(* Disks.                                                                  *)

Inode == [i_size : Nat, i_blocks : Nat, i_block : [0 .. TIND -> Nat]]

Disk(d) ==
  /\ d \in [bitmap : SUBSET Blocks, group : [0 .. Groups - 1 -> Int], total : Int,
            ino : [Files -> Inode], block : {d.block}, spoilt : BOOLEAN]
  /\ Reserved \subseteq d.bitmap
  /\ DOMAIN d.block = Blocks
  /\ \A b \in Blocks : DOMAIN d.block[b] = 0 .. P - 1

Counted(d) ==
  /\ \A g \in 0 .. Groups - 1 : d.group[g] = Cardinality(FreeIn(d, g))
  /\ d.total = Cardinality(Blocks \ d.bitmap)

\* Every block number in use names a block of its own, marked used.
Tree(d) ==
  /\ \A f \in Files, o \in Paths : Lookup(d, f, o) = 0 \/ Lookup(d, f, o) \in d.bitmap \ Reserved
  /\ \A f, g \in Files, o, q \in Paths :
       Lookup(d, f, o) = Lookup(d, g, q) /\ Lookup(d, f, o) # 0 => f = g /\ o = q

Whole(d) == Disk(d) /\ Counted(d) /\ Tree(d)

LEMMA BlockFacts ==
  /\ Blocks \subseteq Nat /\ IsFiniteSet(Blocks) /\ Reserved \subseteq Blocks
  /\ 0 \in Reserved /\ 0 \in Blocks
  /\ \A b \in Blocks : GroupOf(b) \in 0 .. Groups - 1
<1>1. PICK m \in Nat : m = Groups * PerGroup
  BY Bounds
<1>2. Blocks = 0 .. m - 1
  BY <1>1 DEF Blocks
<1>3. Reserved \subseteq Blocks /\ 0 \in Reserved
  BY BlocksAssumption DEF Blocks
<1>4. IsFiniteSet(Blocks)
  BY <1>1, <1>2, FS_Interval
<1>5. ASSUME NEW b \in Blocks PROVE GroupOf(b) \in 0 .. Groups - 1
  <2>1. b \in Nat /\ b < m
    BY <1>1, <1>2, <1>5
  <2>2. b \div PerGroup \in Nat
    BY <2>1, Bounds
  <2>3. PICK q \in Nat : q = b \div PerGroup /\ q * PerGroup <= b
    BY <2>1, <2>2, Bounds
  <2>4. CASE Groups <= q
    <3>1. Groups * PerGroup <= q * PerGroup
      BY <2>4, Bounds
    <3>2. q * PerGroup \in Nat
      BY Bounds
    <3> QED BY <1>1, <2>1, <2>3, <3>1, <3>2
  <2> QED BY <2>3, <2>4, Bounds DEF GroupOf
<1> QED BY <1>2, <1>3, <1>4, <1>5

LEMMA FreeFinite ==
  ASSUME NEW d, NEW g
  PROVE  /\ IsFiniteSet(FreeIn(d, g)) /\ FreeIn(d, g) \subseteq Blocks
         /\ IsFiniteSet(Blocks \ d.bitmap)
BY BlockFacts, FS_Subset DEF FreeIn

\* Block b goes from the free ones to those in use.
Took(d, e, b) ==
  /\ b \in Blocks \ d.bitmap
  /\ e.bitmap = d.bitmap \cup {b} /\ e.ino = d.ino /\ e.spoilt = d.spoilt
  /\ e.block[b] = ZeroBlock
  /\ \A x \in Blocks \ {b} : e.block[x] = d.block[x]
  /\ e.total = d.total - 1
  /\ Disk(e) /\ Counted(e)

LEMMA CountsTake ==
  ASSUME NEW d, Disk(d), Counted(d), NEW b \in Blocks \ d.bitmap, NEW e,
         e.bitmap = d.bitmap \cup {b}, e.total = d.total - 1,
         e.group = [d.group EXCEPT ![GroupOf(b)] = @ - 1]
  PROVE  Counted(e)
<1>1. Blocks \ e.bitmap = (Blocks \ d.bitmap) \ {b}
  OBVIOUS
<1>2. Cardinality(Blocks \ e.bitmap) = Cardinality(Blocks \ d.bitmap) - 1
  <2>1. PICK F : F = Blocks \ d.bitmap
    OBVIOUS
  <2>2. IsFiniteSet(F) /\ b \in F
    BY <2>1, FreeFinite
  <2>3. Cardinality(F \ {b}) = Cardinality(F) - 1
    BY <2>2, FS_RemoveElement
  <2> QED BY <1>1, <2>1, <2>3
<1>3. ASSUME NEW g \in 0 .. Groups - 1
      PROVE  e.group[g] = Cardinality(FreeIn(e, g))
  <2>1. CASE g = GroupOf(b)
    <3>1. FreeIn(e, g) = FreeIn(d, g) \ {b} /\ b \in FreeIn(d, g)
      BY <2>1 DEF FreeIn
    <3>2. Cardinality(FreeIn(e, g)) = Cardinality(FreeIn(d, g)) - 1
      BY <3>1, FreeFinite, FS_RemoveElement
    <3>3. e.group[g] = d.group[g] - 1
      BY <2>1 DEF Disk
    <3> QED BY <3>2, <3>3 DEF Counted
  <2>2. CASE g # GroupOf(b)
    <3>1. FreeIn(e, g) = FreeIn(d, g)
      BY <2>2 DEF FreeIn
    <3>2. e.group[g] = d.group[g]
      BY <2>2 DEF Disk
    <3> QED BY <3>1, <3>2 DEF Counted
  <2> QED BY <2>1, <2>2
<1> QED BY <1>2, <1>3 DEF Counted

LEMMA CountsGive ==
  ASSUME NEW d, Disk(d), Counted(d), NEW b \in d.bitmap, NEW e,
         e.bitmap = d.bitmap \ {b}, e.total = d.total + 1,
         e.group = [d.group EXCEPT ![GroupOf(b)] = @ + 1]
  PROVE  Counted(e)
<1>0. b \in Blocks /\ d.bitmap \subseteq Blocks
  BY DEF Disk
<1>1. Blocks \ e.bitmap = (Blocks \ d.bitmap) \cup {b} /\ b \notin Blocks \ d.bitmap
  BY <1>0
<1>2. Cardinality(Blocks \ e.bitmap) = Cardinality(Blocks \ d.bitmap) + 1
  BY <1>1, FreeFinite, FS_AddElement
<1>3. ASSUME NEW g \in 0 .. Groups - 1
      PROVE  e.group[g] = Cardinality(FreeIn(e, g))
  <2>1. CASE g = GroupOf(b)
    <3>1. FreeIn(e, g) = FreeIn(d, g) \cup {b} /\ b \notin FreeIn(d, g)
      BY <1>0, <2>1 DEF FreeIn
    <3>2. Cardinality(FreeIn(e, g)) = Cardinality(FreeIn(d, g)) + 1
      BY <3>1, FreeFinite, FS_AddElement
    <3>3. e.group[g] = d.group[g] + 1
      BY <2>1 DEF Disk
    <3> QED BY <3>2, <3>3 DEF Counted
  <2>2. CASE g # GroupOf(b)
    <3>1. FreeIn(e, g) = FreeIn(d, g)
      BY <2>2 DEF FreeIn
    <3>2. e.group[g] = d.group[g]
      BY <2>2 DEF Disk
    <3> QED BY <3>1, <3>2 DEF Counted
  <2> QED BY <2>1, <2>2
<1> QED BY <1>2, <1>3 DEF Counted

\* An allocation that failed has changed the flag.
Failed(d, e) == e = [d EXCEPT !.spoilt = TRUE]

LEMMA AllocIs ==
  ASSUME NEW d, Disk(d), Counted(d), NEW r, r = alloc_block(d)
  PROVE  \/ r.b = 0 /\ Failed(d, r.d)
         \/ r.b # 0 /\ Took(d, r.d, r.b)
<1>1. CASE Candidates(d) = {}
  BY <1>1 DEF alloc_block, Failed
<1>2. CASE Candidates(d) # {}
  <2>1. PICK g : g = Min(Candidates(d))
    OBVIOUS
  <2>2. g \in 0 .. Groups - 1 /\ FreeIn(d, g) # {}
    <3>1. Candidates(d) \subseteq Nat
      BY DEF Candidates
    <3>2. g \in Candidates(d)
      BY <1>2, <2>1, <3>1, MinIs
    <3> QED BY <3>2 DEF Candidates
  <2>3. PICK b : b = Min(FreeIn(d, g))
    OBVIOUS
  <2>4. b \in Blocks \ d.bitmap /\ GroupOf(b) = g /\ b # 0
    <3>1. FreeIn(d, g) \subseteq Nat
      BY FreeFinite, BlockFacts
    <3>2. b \in FreeIn(d, g)
      BY <2>2, <2>3, <3>1, MinIs
    <3> QED BY <3>2, BlockFacts DEF FreeIn, Disk
  <2>5. PICK e : e = [d EXCEPT !.bitmap = @ \cup {b}, !.group[g] = @ - 1,
                            !.total = @ - 1, !.block[b] = ZeroBlock]
    OBVIOUS
  <2>6. r = [d |-> e, b |-> b]
    BY <1>2, <2>1, <2>3, <2>5 DEF alloc_block
  <2>7. /\ e.bitmap = d.bitmap \cup {b} /\ e.ino = d.ino /\ e.spoilt = d.spoilt
        /\ e.total = d.total - 1 /\ e.group = [d.group EXCEPT ![g] = @ - 1]
        /\ e.block = [d.block EXCEPT ![b] = ZeroBlock]
    BY <2>5 DEF Disk
  <2>8. Counted(e)
    BY <2>4, <2>7, CountsTake
  <2>9. /\ e.block[b] = ZeroBlock /\ DOMAIN e.block = Blocks
        /\ \A x \in Blocks \ {b} : e.block[x] = d.block[x]
    BY <2>4, <2>7 DEF Disk
  <2>10. Disk(e)
    <3>1. e \in [bitmap : SUBSET Blocks, group : [0 .. Groups - 1 -> Int], total : Int,
                 ino : [Files -> Inode], block : {e.block}, spoilt : BOOLEAN]
      <4>1. e.bitmap \in SUBSET Blocks /\ e.total \in Int /\ e.ino \in [Files -> Inode]
            /\ e.spoilt \in BOOLEAN
        BY <2>4, <2>7 DEF Disk
      <4>2. e.group \in [0 .. Groups - 1 -> Int]
        <5>1. d.group \in [0 .. Groups - 1 -> Int]
          BY DEF Disk
        <5>2. PICK n \in Int : n = d.group[g] - 1
          <6>1. d.group[g] \in Int
            BY <2>2, <5>1
          <6> QED BY <6>1
        <5> QED BY <2>2, <2>7, <5>1, <5>2
      <4>3. e = [bitmap |-> e.bitmap, group |-> e.group, total |-> e.total, ino |-> e.ino,
                 block |-> e.block, spoilt |-> e.spoilt]
        BY <2>5 DEF Disk
      <4> QED BY <4>1, <4>2, <4>3
    <3>2. \A x \in Blocks : DOMAIN e.block[x] = 0 .. P - 1
      BY <2>9 DEF Disk, ZeroBlock
    <3>3. Reserved \subseteq e.bitmap
      BY <2>7 DEF Disk
    <3> QED BY <2>9, <3>1, <3>2, <3>3 DEF Disk
  <2>11. Took(d, e, b)
    BY <2>4, <2>7, <2>8, <2>9, <2>10 DEF Took
  <2> QED BY <2>4, <2>6, <2>11
<1> QED BY <1>1, <1>2

-----------------------------------------------------------------------------
(* One block number is written.                                            *)

\* Place q is below place o.
Under(q, o) == ~ Top(q) /\ (Up(q) = o \/ (~ Top(Up(q)) /\ Up(Up(q)) = o))

\* What a block that is being freed holds is left open.
Freed(d, f, o, x) == x = Lookup(d, f, o) /\ x # 0
IsPlace(d, f, o, x, i) == ~ Top(o) /\ x = Lookup(d, f, Up(o)) /\ i = Idx(o)

\* Place o of file f got the number b, in the inode or in a block.
Written(d, e, f, o, b) ==
  /\ \A g \in Files, i \in 0 .. TIND :
       e.ino[g].i_block[i] = IF g = f /\ Top(o) /\ i = Idx(o) THEN b ELSE d.ino[g].i_block[i]
  /\ \A x \in Blocks, i \in 0 .. P - 1 :
       ~ Freed(d, f, o, x) =>
         e.block[x][i] = IF IsPlace(d, f, o, x, i) THEN b ELSE d.block[x][i]
  /\ \A x \in Blocks : ~ Freed(d, f, o, x) /\ (Top(o) \/ x # Lookup(d, f, Up(o)))
                         => e.block[x] = d.block[x]

\* So the places are what they were, but o and what is below it.
Placed(d, e, f, o, b) ==
  \A g \in Files, q \in Paths :
    Lookup(e, g, q) = IF g = f /\ q = o THEN b
                      ELSE IF g = f /\ Under(q, o) THEN 0 ELSE Lookup(d, g, q)

\* A block nobody has, filled with zeros.
Loose(d, b) ==
  /\ b \in d.bitmap \ Reserved /\ d.block[b] = ZeroBlock
  /\ \A f \in Files, o \in Paths : Lookup(d, f, o) # b

\* A number can be written where its block is, or nothing where none is.
Writable(d, f, o, b) ==
  /\ b = 0 \/ Loose(d, b)
  /\ b = 0 \/ Top(o) \/ Lookup(d, f, Up(o)) # 0

LEMMA NotUnderTop ==
  ASSUME NEW q \in Paths, NEW o \in Paths, Top(q)
  PROVE  ~ Under(q, o)
BY DEF Under

LEMMA PlacedIs ==
  ASSUME NEW d, Disk(d), Tree(d), NEW f \in Files, NEW o \in Paths, NEW b,
         Writable(d, f, o, b), NEW e, Written(d, e, f, o, b)
  PROVE  Placed(d, e, f, o, b)
<1> DEFINE Is(g, q) == Lookup(e, g, q) = IF g = f /\ q = o THEN b
                         ELSE IF g = f /\ Under(q, o) THEN 0 ELSE Lookup(d, g, q)
<1>1. ASSUME NEW g \in Files, NEW q \in Paths, Top(q)
      PROVE  Is(g, q)
  <2>1. Lookup(e, g, q) = e.ino[g].i_block[Idx(q)] /\ Lookup(d, g, q) = d.ino[g].i_block[Idx(q)]
    BY <1>1, LookupTop
  <2>2. Idx(q) \in 0 .. TIND
    BY <1>1, PathIs
  <2>3. Top(o) /\ Idx(q) = Idx(o) <=> q = o
    BY <1>1, PathsDiffer
  <2> QED BY <1>1, <2>1, <2>2, <2>3, NotUnderTop DEF Written
<1>2. ASSUME NEW g \in Files, NEW q \in Paths, ~ Top(q), Is(g, Up(q))
      PROVE  Is(g, q)
  <2>1. PICK u \in Paths : u = Up(q)
    BY <1>2, PathIs
  <2>2. PICK i \in 0 .. P - 1 : i = Idx(q)
    BY <1>2, PathIs
  <2>3. PICK y : y = Lookup(d, g, u)
    OBVIOUS
  <2>4. PICK z : z = Lookup(e, g, u)
    OBVIOUS
  <2>5. /\ Lookup(d, g, q) = IF y = 0 THEN 0 ELSE d.block[y][i]
        /\ Lookup(e, g, q) = IF z = 0 THEN 0 ELSE e.block[z][i]
    BY <1>2, <2>1, <2>2, <2>3, <2>4, LookupBelow
  <2>6. q # u
    BY <1>2, <2>1, PathIs
  <2>7. CASE g = f /\ u = o
    <3>1. z = b
      BY <1>2, <2>1, <2>4, <2>7
    <3>2. Under(q, o) /\ q # o
      BY <1>2, <2>1, <2>6, <2>7 DEF Under
    <3>3. CASE b = 0
      BY <2>5, <2>7, <3>1, <3>2, <3>3
    <3>4. CASE b # 0
      <4>1. Loose(d, b) /\ b \in Blocks
        BY <3>4 DEF Writable, Loose, Disk
      <4>2. ~ Freed(d, f, o, b) /\ ~ IsPlace(d, f, o, b, i)
        <5>1. ~ Top(o) => Up(o) \in Paths
          BY PathIs
        <5> QED BY <4>1, <5>1 DEF Loose, Freed, IsPlace
      <4>3. e.block[b][i] = d.block[b][i]
        BY <4>1, <4>2 DEF Written
      <4>4. d.block[b][i] = 0
        BY <4>1 DEF Loose, ZeroBlock, Zero
      <4> QED BY <2>5, <2>7, <3>1, <3>2, <4>3, <4>4
    <3> QED BY <3>3, <3>4
  <2>8. CASE g = f /\ u # o /\ Under(u, o)
    <3>1. z = 0
      BY <1>2, <2>1, <2>4, <2>8
    <3>2. PICK n, m, k : n = Len(q) /\ m = Len(u) /\ k = Len(Up(u))
      OBVIOUS
    <3>3. n \in {2, 3} /\ m = n - 1
      BY <1>2, <2>1, <3>2, PathIs
    <3>4. ~ Top(u) /\ m \in {2, 3} /\ k = m - 1 /\ Up(u) \in Paths
      BY <2>8, <3>2, PathIs DEF Under
    <3>5. n = 3 /\ k = 1
      BY <3>3, <3>4
    <3>6. Top(Up(u))
      BY <3>2, <3>5 DEF Top
    <3>7. Up(u) = o
      BY <2>8, <3>6 DEF Under
    <3>8. Under(q, o)
      BY <1>2, <2>1, <3>4, <3>7 DEF Under
    <3>9. q # o
      <4>1. ASSUME q = o PROVE FALSE
        <5>1. q = Up(u)
          BY <3>7, <4>1
        <5>2. n = k
          BY <3>2, <5>1, Zenon
        <5> QED BY <3>5, <5>2
      <4> QED BY <4>1
    <3> QED BY <2>5, <2>8, <3>1, <3>8, <3>9
  <2>9. CASE ~ (g = f /\ (u = o \/ Under(u, o)))
    <3>1. z = y
      BY <1>2, <2>1, <2>3, <2>4, <2>9
    <3>2. ~ (g = f /\ Under(q, o))
      BY <1>2, <2>1, <2>9 DEF Under
    <3>3. CASE y = 0
      <4>1. g = f /\ q = o => b = 0
        BY <1>2, <2>1, <2>3, <3>3 DEF Writable
      <4> QED BY <2>5, <3>1, <3>2, <3>3, <4>1
    <3>4. CASE y # 0
      <4>1. y \in Blocks
        BY <2>3, <3>4 DEF Tree, Disk
      <4>2. ~ Freed(d, f, o, y)
        BY <2>3, <2>9, <3>4 DEF Tree, Freed
      <4>3. IsPlace(d, f, o, y, i) <=> g = f /\ q = o
        <5>1. ASSUME IsPlace(d, f, o, y, i) PROVE g = f /\ q = o
          <6>1. Up(o) \in Paths /\ ~ Top(o) /\ i = Idx(o) /\ y = Lookup(d, f, Up(o))
            BY <5>1, PathIs DEF IsPlace
          <6>2. PICK w \in Paths : w = Up(o)
            BY <6>1
          <6>3. Lookup(d, g, u) = Lookup(d, f, w) /\ Lookup(d, g, u) # 0
            BY <2>3, <3>4, <6>1, <6>2
          <6>4. g = f /\ u = w
            BY <6>3 DEF Tree
          <6> QED BY <1>2, <2>1, <2>2, <6>1, <6>2, <6>4, PathsDiffer
        <5>2. ASSUME g = f, q = o PROVE IsPlace(d, f, o, y, i)
          BY <1>2, <2>1, <2>2, <2>3, <5>2 DEF IsPlace
        <5> QED BY <5>1, <5>2
      <4>4. e.block[y][i] = IF g = f /\ q = o THEN b ELSE d.block[y][i]
        BY <4>1, <4>2, <4>3 DEF Written
      <4> QED BY <2>5, <3>1, <3>2, <3>4, <4>4
    <3> QED BY <3>3, <3>4
  <2> QED BY <2>7, <2>8, <2>9
<1> HIDE DEF Is
<1>3. ASSUME NEW g \in Files, NEW q \in Paths PROVE Is(g, q)
  <2>1. CASE Top(q)
    BY <1>1, <2>1
  <2>2. CASE ~ Top(q)
    <3>1. Up(q) \in Paths /\ (Top(Up(q)) \/ (Up(Up(q)) \in Paths /\ Top(Up(Up(q)))))
      BY <2>2, PathIs DEF Top
    <3>2. Is(g, Up(q))
      BY <1>1, <1>2, <3>1
    <3> QED BY <1>2, <2>2, <3>2
  <2> QED BY <2>1, <2>2
<1> QED BY <1>3 DEF Placed, Is

LEMMA TreePlaced ==
  ASSUME NEW d, Disk(d), Tree(d), NEW f \in Files, NEW o \in Paths, NEW b,
         Writable(d, f, o, b), NEW e, Placed(d, e, f, o, b),
         \/ e.bitmap = d.bitmap
         \/ b = 0 /\ e.bitmap = d.bitmap \ {Lookup(d, f, o)}
  PROVE  Tree(e)
<1>1. ASSUME NEW g \in Files, NEW q \in Paths, Lookup(e, g, q) # 0
      PROVE  Lookup(e, g, q) \in e.bitmap \ Reserved
  <2>1. CASE g = f /\ q = o
    BY <1>1, <2>1 DEF Placed, Writable, Loose
  <2>2. CASE ~ (g = f /\ q = o)
    <3>1. Lookup(e, g, q) = Lookup(d, g, q)
      BY <1>1, <2>2 DEF Placed
    <3>2. Lookup(d, g, q) \in d.bitmap \ Reserved /\ Lookup(d, g, q) # Lookup(d, f, o)
      BY <1>1, <2>2, <3>1 DEF Tree
    <3> QED BY <3>1, <3>2
  <2> QED BY <2>1, <2>2
<1>2. ASSUME NEW g \in Files, NEW q \in Paths, NEW h \in Files, NEW p \in Paths,
             Lookup(e, g, q) = Lookup(e, h, p), Lookup(e, g, q) # 0
      PROVE  g = h /\ q = p
  <2>1. \/ g = f /\ q = o
        \/ Lookup(e, g, q) = Lookup(d, g, q)
    BY <1>2 DEF Placed
  <2>2. \/ h = f /\ p = o
        \/ Lookup(e, h, p) = Lookup(d, h, p)
    BY <1>2 DEF Placed
  <2>3. Lookup(e, f, o) = b
    BY DEF Placed
  <2> QED BY <1>2, <2>1, <2>2, <2>3 DEF Tree, Writable, Loose
<1> QED BY <1>1, <1>2 DEF Tree

\* What an allocation or a write of a block leaves as it is.
SameNodes(d, e) ==
  \A g \in Files : e.ino[g].i_size = d.ino[g].i_size /\ e.ino[g].i_blocks = d.ino[g].i_blocks
SameSpace(d, e) ==
  e.bitmap = d.bitmap /\ e.group = d.group /\ e.total = d.total /\ e.spoilt = d.spoilt
SamePlaces(d, e) == \A g \in Files, q \in Paths : Lookup(e, g, q) = Lookup(d, g, q)

\* Only what inodes and blocks of pointers say decides where the places are.
SamePointers(d, e) ==
  /\ \A g \in Files : e.ino[g].i_block = d.ino[g].i_block
  /\ \A g \in Files, q \in Paths :
       ~ Top(q) /\ Lookup(d, g, Up(q)) # 0 =>
         e.block[Lookup(d, g, Up(q))][Idx(q)] = d.block[Lookup(d, g, Up(q))][Idx(q)]

LEMMA PlacesSame ==
  ASSUME NEW d, NEW e, SamePointers(d, e)
  PROVE  SamePlaces(d, e)
<1> USE DEF SamePointers
<1> DEFINE Is(g, q) == Lookup(e, g, q) = Lookup(d, g, q)
<1>1. ASSUME NEW g \in Files, NEW q \in Paths, Top(q) PROVE Is(g, q)
  BY <1>1, LookupTop
<1>2. ASSUME NEW g \in Files, NEW q \in Paths, ~ Top(q), Is(g, Up(q)) PROVE Is(g, q)
  <2>1. PICK y : y = Lookup(d, g, Up(q))
    OBVIOUS
  <2>2. /\ Lookup(d, g, q) = IF y = 0 THEN 0 ELSE d.block[y][Idx(q)]
        /\ Lookup(e, g, q) = IF y = 0 THEN 0 ELSE e.block[y][Idx(q)]
    BY <1>2, <2>1, LookupBelow
  <2> QED BY <1>2, <2>1, <2>2
<1> HIDE DEF Is
<1>3. ASSUME NEW g \in Files, NEW q \in Paths PROVE Is(g, q)
  <2>1. CASE Top(q)
    BY <1>1, <2>1
  <2>2. CASE ~ Top(q)
    <3>1. Up(q) \in Paths /\ (Top(Up(q)) \/ (Up(Up(q)) \in Paths /\ Top(Up(Up(q)))))
      BY <2>2, PathIs DEF Top
    <3>2. Is(g, Up(q))
      BY <1>1, <1>2, <3>1
    <3> QED BY <1>2, <2>2, <3>2
  <2> QED BY <2>1, <2>2
<1> QED BY <1>3 DEF SamePlaces, Is

LEMMA TreeSame ==
  ASSUME NEW d, NEW e, Tree(d), SamePlaces(d, e), d.bitmap \subseteq e.bitmap
  PROVE  Tree(e)
BY DEF Tree, SamePlaces

\* A disk that differs from d at most in what the block at o holds.
Alike(d, c, f, o) ==
  c.ino = d.ino /\ \A x \in Blocks : ~ Freed(d, f, o, x) => c.block[x] = d.block[x]

LEMMA AboveAlike ==
  ASSUME NEW d, Disk(d), Tree(d), NEW f \in Files, NEW o \in Paths, ~ Top(o),
         NEW c, Alike(d, c, f, o)
  PROVE  Lookup(c, f, Up(o)) = Lookup(d, f, Up(o))
<1>1. PICK u \in Paths : u = Up(o)
  BY PathIs
<1>2. CASE Top(u)
  BY <1>1, <1>2, LookupTop DEF Alike
<1>3. CASE ~ Top(u)
  <2>1. PICK w \in Paths : w = Up(u)
    BY <1>3, PathIs
  <2>2. Top(w) /\ w # o
    <3>1. PICK n, m, k : n = Len(o) /\ m = Len(u) /\ k = Len(w)
      OBVIOUS
    <3>2. n \in {2, 3} /\ m = n - 1 /\ m # 1
      BY <1>1, <1>3, <3>1, PathIs DEF Top
    <3>3. k = m - 1
      BY <1>3, <2>1, <3>1, PathIs
    <3>4. n = 3 /\ k = 1
      BY <3>2, <3>3
    <3>5. Top(w)
      BY <3>1, <3>4 DEF Top
    <3>6. ~ Top(o)
      OBVIOUS
    <3> QED BY <3>5, <3>6
  <2>3. PICK y : y = Lookup(d, f, w)
    OBVIOUS
  <2>4. Lookup(c, f, w) = y
    BY <2>2, <2>3, LookupTop DEF Alike
  <2>5. /\ Lookup(d, f, u) = IF y = 0 THEN 0 ELSE d.block[y][Idx(u)]
        /\ Lookup(c, f, u) = IF y = 0 THEN 0 ELSE c.block[y][Idx(u)]
    BY <1>3, <2>1, <2>3, <2>4, LookupBelow
  <2>6. CASE y # 0
    <3>1. y \in Blocks
      BY <2>3, <2>6 DEF Tree, Disk
    <3>2. ~ Freed(d, f, o, y)
      BY <2>2, <2>3, <2>6 DEF Tree, Freed
    <3>3. c.block[y] = d.block[y]
      BY <3>1, <3>2 DEF Alike
    <3> QED BY <1>1, <2>5, <3>3
  <2> QED BY <1>1, <2>5, <2>6
<1> QED BY <1>2, <1>3

LEMMA StoreIs ==
  ASSUME NEW d, Disk(d), Tree(d), NEW f \in Files, NEW o \in Paths,
         NEW c, Disk(c), Alike(d, c, f, o), NEW b \in Nat, NEW e, e = Store(c, f, o, b)
  PROVE  Written(d, e, f, o, b) /\ Disk(e) /\ SameSpace(c, e) /\ SameNodes(c, e)
<1>1. CASE Top(o)
  <2>1. PICK i \in 0 .. TIND : i = Idx(o)
    BY <1>1, PathIs
  <2>2. e = [c EXCEPT !.ino[f].i_block[i] = b]
    <3>1. Len(o) = 1 /\ o[1] = i
      BY <1>1, <2>1 DEF Top, Idx
    <3> QED BY <3>1 DEF Store
  <2>3. /\ SameSpace(c, e) /\ e.block = c.block
        /\ e.ino = [c.ino EXCEPT ![f].i_block[i] = b]
    BY <2>2 DEF Disk, SameSpace
  <2>4. PICK n : n = c.ino[f]
    OBVIOUS
  <2>5. c.ino \in [Files -> Inode] /\ n \in Inode
    BY <2>4 DEF Disk
  <2>6. PICK m : m = [n EXCEPT !.i_block[i] = b]
    OBVIOUS
  <2>7. m.i_size = n.i_size /\ m.i_blocks = n.i_blocks /\ m.i_block = [n.i_block EXCEPT ![i] = b]
        /\ m \in Inode
    BY <2>5, <2>6 DEF Inode
  <2>8. e.ino = [c.ino EXCEPT ![f] = m]
    BY <2>3, <2>4, <2>6
  <2>9. e.ino[f] = m /\ (\A g \in Files \ {f} : e.ino[g] = c.ino[g]) /\ e.ino \in [Files -> Inode]
    BY <2>5, <2>7, <2>8
  <2>10. SameNodes(c, e)
    BY <2>4, <2>7, <2>9 DEF SameNodes
  <2>11. \A j \in 0 .. TIND : m.i_block[j] = IF j = i THEN b ELSE n.i_block[j]
    BY <2>5, <2>7 DEF Inode
  <2>12. Written(d, e, f, o, b)
    <3>1. \A g \in Files, j \in 0 .. TIND :
            e.ino[g].i_block[j] = IF g = f /\ Top(o) /\ j = Idx(o) THEN b ELSE d.ino[g].i_block[j]
      BY <1>1, <2>1, <2>4, <2>9, <2>11 DEF Alike
    <3>2. \A x \in Blocks : ~ Freed(d, f, o, x) => e.block[x] = d.block[x]
      BY <2>3 DEF Alike
    <3>3. \A x, j : ~ IsPlace(d, f, o, x, j)
      BY <1>1 DEF IsPlace
    <3> QED BY <3>1, <3>2, <3>3 DEF Written
  <2>13. Disk(e)
    <3>1. e = [bitmap |-> e.bitmap, group |-> e.group, total |-> e.total, ino |-> e.ino,
               block |-> e.block, spoilt |-> e.spoilt]
      BY <2>2 DEF Disk
    <3>2. /\ e.bitmap \in SUBSET Blocks /\ e.group \in [0 .. Groups - 1 -> Int]
          /\ e.total \in Int /\ e.spoilt \in BOOLEAN /\ Reserved \subseteq e.bitmap
          /\ DOMAIN e.block = Blocks /\ \A x \in Blocks : DOMAIN e.block[x] = 0 .. P - 1
      BY <2>3 DEF Disk, SameSpace
    <3>3. e \in [bitmap : SUBSET Blocks, group : [0 .. Groups - 1 -> Int], total : Int,
                 ino : [Files -> Inode], block : {e.block}, spoilt : BOOLEAN]
      BY <2>9, <3>1, <3>2
    <3> QED BY <3>2, <3>3 DEF Disk
  <2> QED BY <2>3, <2>10, <2>12, <2>13
<1>2. CASE ~ Top(o)
  <2>1. PICK i \in 0 .. P - 1 : i = Idx(o)
    BY <1>2, PathIs
  <2>2. PICK y : y = Lookup(d, f, Up(o))
    OBVIOUS
  <2>3. Lookup(c, f, Up(o)) = y
    BY <1>2, <2>2, AboveAlike
  <2>4. y \in Blocks
    <3>1. Up(o) \in Paths
      BY <1>2, PathIs
    <3>2. y = 0 \/ y \in d.bitmap \ Reserved
      BY <2>2, <3>1 DEF Tree
    <3> QED BY <3>2, BlockFacts DEF Disk
  <2>5. e = [c EXCEPT !.block[y][i] = b]
    <3>1. Len(o) # 1 /\ o[Len(o)] = i
      BY <1>2, <2>1 DEF Top, Idx
    <3> QED BY <2>3, <3>1 DEF Store, Up
  <2>6. /\ SameSpace(c, e) /\ e.ino = c.ino
        /\ e.block = [c.block EXCEPT ![y][i] = b]
    BY <2>5 DEF Disk, SameSpace
  <2>7. SameNodes(c, e)
    BY <2>6 DEF SameNodes
  <2>8. DOMAIN c.block = Blocks /\ \A x \in Blocks : DOMAIN c.block[x] = 0 .. P - 1
    BY DEF Disk
  <2>9. DOMAIN e.block = Blocks /\ (\A x \in Blocks \ {y} : e.block[x] = c.block[x])
    BY <2>6, <2>8
  <2>10. e.block[y] = [c.block[y] EXCEPT ![i] = b]
    BY <2>4, <2>6, <2>8
  <2>11. DOMAIN e.block[y] = 0 .. P - 1
         /\ \A j \in 0 .. P - 1 : e.block[y][j] = IF j = i THEN b ELSE c.block[y][j]
    BY <2>1, <2>4, <2>8, <2>10
  <2>12. Written(d, e, f, o, b)
    <3>1. \A g \in Files, j \in 0 .. TIND :
            e.ino[g].i_block[j] = IF g = f /\ Top(o) /\ j = Idx(o) THEN b ELSE d.ino[g].i_block[j]
      BY <1>2, <2>6 DEF Alike
    <3>2. ASSUME NEW x \in Blocks, NEW j \in 0 .. P - 1, ~ Freed(d, f, o, x)
          PROVE  e.block[x][j] = IF IsPlace(d, f, o, x, j) THEN b ELSE d.block[x][j]
      <4>1. c.block[x] = d.block[x]
        BY <3>2 DEF Alike
      <4>2. IsPlace(d, f, o, x, j) <=> x = y /\ j = i
        BY <1>2, <2>1, <2>2 DEF IsPlace
      <4> QED BY <2>9, <2>11, <4>1, <4>2
    <3>3. \A x \in Blocks : ~ Freed(d, f, o, x) /\ (Top(o) \/ x # Lookup(d, f, Up(o)))
                              => e.block[x] = d.block[x]
      BY <1>2, <2>2, <2>9 DEF Alike
    <3> QED BY <3>1, <3>2, <3>3 DEF Written
  <2>13. Disk(e)
    <3>1. e = [bitmap |-> e.bitmap, group |-> e.group, total |-> e.total, ino |-> e.ino,
               block |-> e.block, spoilt |-> e.spoilt]
      BY <2>5 DEF Disk
    <3>2. /\ e.bitmap \in SUBSET Blocks /\ e.group \in [0 .. Groups - 1 -> Int]
          /\ e.total \in Int /\ e.spoilt \in BOOLEAN /\ Reserved \subseteq e.bitmap
          /\ e.ino \in [Files -> Inode]
      BY <2>6 DEF Disk, SameSpace
    <3>3. e \in [bitmap : SUBSET Blocks, group : [0 .. Groups - 1 -> Int], total : Int,
                 ino : [Files -> Inode], block : {e.block}, spoilt : BOOLEAN]
      BY <3>1, <3>2
    <3>4. \A x \in Blocks : DOMAIN e.block[x] = 0 .. P - 1
      BY <2>8, <2>9, <2>11
    <3> QED BY <2>9, <3>2, <3>3, <3>4 DEF Disk
  <2> QED BY <2>6, <2>7, <2>12, <2>13
<1> QED BY <1>1, <1>2

-----------------------------------------------------------------------------
(* A block is freed, put at a place, or allocated.                         *)

Emptied(d, e, f, o) ==
  /\ Whole(e) /\ SameNodes(d, e) /\ Placed(d, e, f, o, 0) /\ Written(d, e, f, o, 0)
  /\ e.bitmap = d.bitmap \ ({Lookup(d, f, o)} \ {0}) /\ e.spoilt = d.spoilt

LEMMA FreeIs ==
  ASSUME NEW d, Whole(d), NEW f \in Files, NEW o \in Paths,
         NEW e, e = Store(free_block(d, Lookup(d, f, o)), f, o, 0)
  PROVE  Emptied(d, e, f, o)
<1> USE DEF Whole
<1>1. PICK y : y = Lookup(d, f, o)
  OBVIOUS
<1>2. PICK c : c = free_block(d, y)
  OBVIOUS
<1>3. CASE y = 0
  <2>1. c = d
    BY <1>2, <1>3 DEF free_block
  <2>2. Alike(d, d, f, o)
    BY DEF Alike
  <2>3. Written(d, e, f, o, 0) /\ Disk(e) /\ SameSpace(d, e) /\ SameNodes(d, e)
    BY <1>1, <1>2, <2>1, <2>2, StoreIs
  <2>4. Writable(d, f, o, 0)
    BY DEF Writable
  <2>5. Placed(d, e, f, o, 0)
    BY <2>3, <2>4, PlacedIs
  <2>6. e.bitmap = d.bitmap
    BY <2>3 DEF SameSpace
  <2>7. Tree(e)
    BY <2>4, <2>5, <2>6, TreePlaced
  <2>8. Counted(e)
    BY <2>3 DEF Counted, SameSpace, FreeIn
  <2>9. e.bitmap = d.bitmap \ ({Lookup(d, f, o)} \ {0}) /\ e.spoilt = d.spoilt
    BY <1>1, <1>3, <2>3 DEF SameSpace
  <2> QED BY <2>3, <2>5, <2>7, <2>8, <2>9 DEF Emptied
<1>4. CASE y # 0
  <2>1. y \in d.bitmap /\ y \notin Reserved /\ y \in Blocks /\ d.bitmap \subseteq Blocks
    BY <1>1, <1>4 DEF Tree, Disk
  <2>2. c = [d EXCEPT !.bitmap = @ \ {y}, !.group[GroupOf(y)] = @ + 1, !.total = @ + 1,
                      !.block[y] = StaleBlock]
    BY <1>2, <1>4 DEF free_block
  <2>3. /\ c.bitmap = d.bitmap \ {y} /\ c.group = [d.group EXCEPT ![GroupOf(y)] = @ + 1]
        /\ c.total = d.total + 1 /\ c.block = [d.block EXCEPT ![y] = StaleBlock]
        /\ c.ino = d.ino /\ c.spoilt = d.spoilt
    BY <2>2 DEF Disk
  <2>4. Counted(c)
    BY <2>1, <2>3, CountsGive
  <2>5. /\ DOMAIN c.block = Blocks /\ \A x \in Blocks \ {y} : c.block[x] = d.block[x]
        /\ c.block[y] = StaleBlock
    BY <2>1, <2>3 DEF Disk
  <2>6. Disk(c)
    <3>1. c = [bitmap |-> c.bitmap, group |-> c.group, total |-> c.total, ino |-> c.ino,
               block |-> c.block, spoilt |-> c.spoilt]
      BY <2>2 DEF Disk
    <3>2. c.bitmap \in SUBSET Blocks /\ c.total \in Int /\ c.ino \in [Files -> Inode]
          /\ c.spoilt \in BOOLEAN /\ Reserved \subseteq c.bitmap
      BY <2>1, <2>3 DEF Disk
    <3>3. c.group \in [0 .. Groups - 1 -> Int]
      <4>1. d.group \in [0 .. Groups - 1 -> Int] /\ GroupOf(y) \in 0 .. Groups - 1
        BY <2>1, BlockFacts DEF Disk
      <4>2. PICK n \in Int : n = d.group[GroupOf(y)] + 1
        <5>1. d.group[GroupOf(y)] \in Int
          BY <4>1
        <5> QED BY <5>1
      <4> QED BY <2>3, <4>1, <4>2
    <3>4. c \in [bitmap : SUBSET Blocks, group : [0 .. Groups - 1 -> Int], total : Int,
                 ino : [Files -> Inode], block : {c.block}, spoilt : BOOLEAN]
      BY <3>1, <3>2, <3>3
    <3>5. \A x \in Blocks : DOMAIN c.block[x] = 0 .. P - 1
      BY <2>5 DEF Disk, StaleBlock
    <3> QED BY <2>5, <3>2, <3>4, <3>5 DEF Disk
  <2>7. Alike(d, c, f, o)
    BY <1>1, <1>4, <2>3, <2>5 DEF Alike, Freed
  <2>8. Written(d, e, f, o, 0) /\ Disk(e) /\ SameSpace(c, e) /\ SameNodes(c, e)
    BY <1>1, <1>2, <2>6, <2>7, StoreIs
  <2>9. Writable(d, f, o, 0)
    BY DEF Writable
  <2>10. Placed(d, e, f, o, 0)
    BY <2>8, <2>9, PlacedIs
  <2>11. e.bitmap = d.bitmap \ {Lookup(d, f, o)}
    BY <1>1, <2>3, <2>8 DEF SameSpace
  <2>12. Tree(e)
    BY <2>9, <2>10, <2>11, TreePlaced
  <2>13. Counted(e)
    BY <2>4, <2>8 DEF Counted, SameSpace, FreeIn
  <2>14. SameNodes(d, e)
    BY <2>3, <2>8 DEF SameNodes
  <2>15. e.bitmap = d.bitmap \ ({Lookup(d, f, o)} \ {0}) /\ e.spoilt = d.spoilt
    BY <1>1, <1>4, <2>3, <2>8, <2>11 DEF SameSpace
  <2> QED BY <2>8, <2>10, <2>12, <2>13, <2>14, <2>15 DEF Emptied
<1> QED BY <1>3, <1>4

Put(d, e, f, o, b) ==
  /\ Whole(e) /\ SameNodes(d, e) /\ SameSpace(d, e)
  /\ Placed(d, e, f, o, b) /\ Written(d, e, f, o, b)

LEMMA PutIs ==
  ASSUME NEW d, Whole(d), NEW f \in Files, NEW o \in Paths, NEW b, Loose(d, b),
         Top(o) \/ Lookup(d, f, Up(o)) # 0, NEW e, e = Store(d, f, o, b)
  PROVE  Put(d, e, f, o, b)
<1> USE DEF Whole
<1>1. Alike(d, d, f, o) /\ Writable(d, f, o, b)
  BY DEF Alike, Writable
<1>2. b \in Nat
  BY BlockFacts DEF Loose, Disk
<1>3. Written(d, e, f, o, b) /\ Disk(e) /\ SameSpace(d, e) /\ SameNodes(d, e)
  BY <1>1, <1>2, StoreIs
<1>4. Placed(d, e, f, o, b)
  BY <1>1, <1>3, PlacedIs
<1>5. Tree(e)
  BY <1>1, <1>3, <1>4, TreePlaced DEF SameSpace
<1>6. Counted(e)
  BY <1>3 DEF Counted, SameSpace, FreeIn
<1> QED BY <1>3, <1>4, <1>5, <1>6 DEF Put

LEMMA TookIs ==
  ASSUME NEW d, Whole(d), NEW e, NEW b, b # 0, Took(d, e, b)
  PROVE  Whole(e) /\ SameNodes(d, e) /\ SamePlaces(d, e) /\ Loose(e, b)
<1> USE DEF Whole
<1>1. \A g \in Files, q \in Paths : Lookup(d, g, q) # b
  BY DEF Took, Tree
<1>2. SameNodes(d, e)
  BY DEF Took, SameNodes
<1>3. SamePlaces(d, e)
  <2>1. ASSUME NEW g \in Files, NEW q \in Paths, ~ Top(q), Lookup(d, g, Up(q)) # 0
        PROVE  e.block[Lookup(d, g, Up(q))] = d.block[Lookup(d, g, Up(q))]
    <3>1. Up(q) \in Paths
      BY <2>1, PathIs
    <3>2. Lookup(d, g, Up(q)) \in Blocks \ {b}
      BY <1>1, <2>1, <3>1 DEF Tree, Disk
    <3> QED BY <3>2 DEF Took
  <2>2. \A g \in Files : e.ino[g].i_block = d.ino[g].i_block
    BY DEF Took
  <2> QED BY <2>1, <2>2, PlacesSame DEF SamePointers
<1>4. Tree(e)
  BY <1>3, TreeSame DEF Took
<1>5. b \in e.bitmap \ Reserved /\ e.block[b] = ZeroBlock
  BY DEF Took, Disk
<1> QED BY <1>1, <1>2, <1>3, <1>4, <1>5 DEF Took, Loose, SamePlaces

LEMMA FailedIs ==
  ASSUME NEW d, Whole(d), NEW e, Failed(d, e)
  PROVE  Whole(e) /\ SameNodes(d, e) /\ SamePlaces(d, e) /\ e.spoilt /\ e.bitmap = d.bitmap
         /\ e.block = d.block
<1> USE DEF Whole
<1>1. /\ e.bitmap = d.bitmap /\ e.group = d.group /\ e.total = d.total /\ e.ino = d.ino
      /\ e.block = d.block /\ e.spoilt
  BY DEF Failed, Disk
<1>2. SameNodes(d, e)
  BY <1>1 DEF SameNodes
<1>3. SamePlaces(d, e)
  BY <1>1, PlacesSame DEF SamePointers
<1>4. Tree(e)
  BY <1>1, <1>3, TreeSame
<1>5. Counted(e)
  BY <1>1 DEF Counted, FreeIn
<1>6. Disk(e)
  BY <1>1 DEF Disk, Failed
<1> QED BY <1>1, <1>2, <1>3, <1>4, <1>5, <1>6

-----------------------------------------------------------------------------
(* Where the blocks of a file are, up to Most.                             *)

\* Nothing is below place q.
Leaf(q) == \A p \in Paths : ~ Top(p) => Up(p) # q

LEMMA Square == P * P \in Nat /\ P <= P * P
<1>1. 1 * P <= P * P
  BY Bounds, TimesLess
<1> QED BY <1>1, Bounds

LEMMA SmallDiv ==
  ASSUME NEW a \in Nat, NEW m \in Nat, a < m
  PROVE  a \div m = 0 /\ a % m = a
<1>1. m > 0 /\ a = 0 * m + a
  OBVIOUS
<1> QED BY <1>1

LEMMA RealIs ==
  ASSUME NEW n \in Nat, n < Most
  PROVE  /\ n < NDIR => RealPath(n) = <<n>>
         /\ NDIR <= n /\ n < NDIR + P => RealPath(n) = <<SIND, n - NDIR>>
         /\ NDIR + P <= n => RealPath(n) = <<DIND, 0, n - NDIR - P>>
<1>1. CASE n < NDIR
  <2>1. n < NDIR /\ ~ (NDIR <= n /\ n < UpToSind) /\ ~ (UpToSind <= n /\ n < UpToDind)
    BY <1>1, Bounds DEF UpToSind
  <2>2. RealPath(n) = <<n>>
    BY <2>1, Zenon DEF RealPath
  <2> QED BY <1>1, <2>2, Bounds
<1>2. CASE NDIR <= n /\ n < NDIR + P
  <2>1. ~ (n < NDIR) /\ NDIR <= n /\ n < UpToSind /\ ~ (UpToSind <= n /\ n < UpToDind)
    BY <1>2, Bounds DEF UpToSind
  <2>2. RealPath(n) = <<SIND, n - NDIR>>
    BY <2>1, Zenon DEF RealPath
  <2> QED BY <1>2, <2>2, Bounds
<1>3. CASE NDIR + P <= n
  <2>1. PICK s \in Nat : s = P * P /\ P <= s
    BY Square
  <2>2. UpToSind = NDIR + P /\ UpToDind = NDIR + P + s
    BY <2>1 DEF UpToSind, UpToDind
  <2>3. ~ (n < NDIR) /\ ~ (NDIR <= n /\ n < UpToSind) /\ UpToSind <= n /\ n < UpToDind
    BY <1>3, <2>1, <2>2, Bounds DEF Most
  <2>4. RealPath(n) = <<DIND, (n - UpToSind) \div P, (n - UpToSind) % P>>
    BY <2>3, Zenon DEF RealPath
  <2>5. PICK a \in Nat : a = n - UpToSind
    BY <1>3, <2>2, Bounds
  <2>6. a < P
    BY <2>2, <2>5, Bounds DEF Most
  <2>7. a \div P = 0 /\ a % P = a
    BY <2>6, Bounds, SmallDiv
  <2>8. a = n - NDIR - P
    BY <2>2, <2>5, Bounds
  <2>9. RealPath(n) = <<DIND, 0, n - NDIR - P>>
    BY <2>4, <2>5, <2>7, <2>8, Zenon
  <2> QED BY <1>3, <2>9, Bounds
<1> QED BY <1>1, <1>2, <1>3, Bounds

LEMMA RealLeaf ==
  ASSUME NEW n \in Nat, n < Most
  PROVE  RealPath(n) \in Paths /\ Leaf(RealPath(n))
<1>1. ASSUME NEW p \in Paths, ~ Top(p)
      PROVE  \/ \E i \in {SIND, DIND} : Up(p) = <<i>>
             \/ \E j \in 0 .. P - 1 : Up(p) = <<DIND, j>>
  <2>1. ASSUME NEW i \in 0 .. TIND, p = <<i>> PROVE FALSE
    BY <1>1, <2>1, OnePath DEF Top
  <2>2. ASSUME NEW i \in {SIND, DIND}, NEW j \in 0 .. P - 1, p = <<i, j>>
        PROVE  Up(p) = <<i>>
    BY <2>2, TwoPath
  <2>3. ASSUME NEW j \in 0 .. P - 1, NEW l \in 0 .. P - 1, p = <<DIND, j, l>>
        PROVE  Up(p) = <<DIND, j>>
    BY <2>3, ThreePath
  <2>4. \/ \E i \in 0 .. TIND : p = <<i>>
        \/ \E i \in {SIND, DIND}, j \in 0 .. P - 1 : p = <<i, j>>
        \/ \E j \in 0 .. P - 1, l \in 0 .. P - 1 : p = <<DIND, j, l>>
    BY DEF Paths
  <2> QED BY <2>1, <2>2, <2>3, <2>4
<1>2. CASE n < NDIR
  <2>1. RealPath(n) = <<n>> /\ n \in 0 .. TIND /\ n # SIND /\ n # DIND
    BY <1>2, RealIs, Bounds
  <2>2. \A i : Len(<<i>>) = 1 /\ <<i>>[1] = i
    OBVIOUS
  <2>3. \A i, j : Len(<<i, j>>) = 2
    OBVIOUS
  <2>4. \A i : <<n>> = <<i>> => n = i
    BY <2>2
  <2>5. \A i, j : <<n>> # <<i, j>>
    BY <2>2, <2>3
  <2>6. <<n>> \in Paths
    BY <2>1 DEF Paths
  <2> QED BY <1>1, <2>1, <2>4, <2>5, <2>6 DEF Leaf
<1>3. CASE NDIR <= n /\ n < NDIR + P
  <2>1. PICK a \in 0 .. P - 1 : a = n - NDIR
    BY <1>3, Bounds
  <2>2. RealPath(n) = <<SIND, a>> /\ SIND # DIND
    BY <1>3, <2>1, RealIs, Bounds
  <2>3. <<SIND, a>> \in Paths
    BY DEF Paths
  <2>4. \A i : <<SIND, a>> # <<i>>
    <3>1. \A i : Len(<<i>>) = 1
      OBVIOUS
    <3>2. Len(<<SIND, a>>) = 2
      OBVIOUS
    <3> QED BY <3>1, <3>2
  <2>5. \A j : <<SIND, a>> # <<DIND, j>>
    <3>1. \A j : <<DIND, j>>[1] = DIND
      OBVIOUS
    <3>2. <<SIND, a>>[1] = SIND
      OBVIOUS
    <3> QED BY <2>2, <3>1, <3>2
  <2> QED BY <1>1, <2>2, <2>3, <2>4, <2>5 DEF Leaf
<1>4. CASE NDIR + P <= n
  <2>1. PICK a \in 0 .. P - 1 : a = n - NDIR - P
    BY <1>4, Bounds DEF Most
  <2>2. RealPath(n) = <<DIND, 0, a>> /\ 0 \in 0 .. P - 1
    BY <1>4, <2>1, RealIs, Bounds
  <2>3. <<DIND, 0, a>> \in Paths
    BY <2>2 DEF Paths
  <2>4. \A i : <<DIND, 0, a>> # <<i>>
    <3>1. \A i : Len(<<i>>) = 1
      OBVIOUS
    <3>2. Len(<<DIND, 0, a>>) = 3
      OBVIOUS
    <3> QED BY <3>1, <3>2
  <2>5. \A i, j : <<DIND, 0, a>> # <<i, j>>
    <3>1. \A i, j : Len(<<i, j>>) = 2
      OBVIOUS
    <3>2. Len(<<DIND, 0, a>>) = 3
      OBVIOUS
    <3> QED BY <3>1, <3>2
  <2> QED BY <1>1, <2>2, <2>3, <2>4, <2>5 DEF Leaf
<1> QED BY <1>2, <1>3, <1>4, Bounds

\* The same, counting indirect blocks too.
LEMMA FreeAt ==
  ASSUME NEW k \in Nat, k < Most + 3
  PROVE  /\ k < NDIR => FreePath(k) = <<k>>
         /\ k = NDIR => FreePath(k) = <<SIND>>
         /\ NDIR < k /\ k <= NDIR + P => FreePath(k) = <<SIND, k - NDIR - 1>>
         /\ k = NDIR + P + 1 => FreePath(k) = <<DIND>>
         /\ k = NDIR + P + 2 => FreePath(k) = <<DIND, 0>>
         /\ NDIR + P + 3 <= k => FreePath(k) = <<DIND, 0, k - NDIR - P - 3>>
<1>1. PICK s \in Nat : s = P * P /\ P <= s
  BY Square
<1>2. PICK dind \in Int : dind = k - NDIR - P - 1
  BY Bounds
<1>3. PICK a : a = dind - 1
  OBVIOUS
<1>4. PICK tind \in Int : tind = k - UpToDind - 1 - 1 - P
  BY <1>1, Bounds DEF UpToDind
<1>5. tind < 0 /\ tind # 0 /\ ~ (tind > 0)
  BY <1>1, <1>4, Bounds DEF UpToDind, Most
<1>6. PICK small : small = P * P + P
  OBVIOUS
<1>7. dind > 0 => a \in Nat /\ a \div small = 0 /\ a % small = a
  <2>1. ASSUME dind > 0 PROVE a \in Nat /\ small \in Nat /\ a < small
    BY <1>1, <1>2, <1>3, <1>6, <2>1, Bounds DEF Most
  <2> QED BY <2>1, SmallDiv
<1> DEFINE Free1 == k < NDIR
           Free2 == k = NDIR
           Free3 == NDIR < k /\ k < NDIR + P + 1
           Free4 == dind = 0
           Free5 == dind > 0 /\ tind < 0 /\ a % small = 0
           Free6 == dind > 0 /\ tind < 0 /\ a % small # 0
<1>8. /\ Free1 => FreePath(k) = <<k>>
      /\ ~ Free1 /\ Free2 => FreePath(k) = <<SIND>>
      /\ ~ Free1 /\ ~ Free2 /\ Free3 => FreePath(k) = <<SIND, k - NDIR - 1>>
      /\ ~ Free1 /\ ~ Free2 /\ ~ Free3 /\ Free4 => FreePath(k) = <<DIND>>
      /\ ~ Free1 /\ ~ Free2 /\ ~ Free3 /\ ~ Free4 /\ Free5 => FreePath(k) = <<DIND, a \div small>>
      /\ ~ Free1 /\ ~ Free2 /\ ~ Free3 /\ ~ Free4 /\ ~ Free5 /\ Free6
           => FreePath(k) = <<DIND, a \div small, (a % small) - 1>>
  <2>1. /\ Free1 => ~ Free2 /\ ~ Free3 /\ ~ Free4 /\ ~ Free5 /\ ~ Free6
        /\ Free2 => ~ Free3 /\ ~ Free4 /\ ~ Free5 /\ ~ Free6
        /\ Free3 => ~ Free4 /\ ~ Free5 /\ ~ Free6
        /\ Free4 => ~ Free5 /\ ~ Free6
        /\ Free5 => ~ Free6
    BY <1>2, Bounds
  <2>2. CASE Free1
    <3>1. Free1 /\ ~ Free2 /\ ~ Free3 /\ ~ Free4 /\ ~ Free5 /\ ~ Free6
      BY <2>1, <2>2
    <3>2. FreePath(k) = <<k>>
      BY <1>2, <1>3, <1>4, <1>5, <1>6, <3>1, Zenon DEF FreePath
    <3> QED BY <2>2, <3>2
  <2>3. CASE ~ Free1 /\ Free2
    <3>1. ~ Free1 /\ Free2 /\ ~ Free3 /\ ~ Free4 /\ ~ Free5 /\ ~ Free6
      BY <2>1, <2>3
    <3>2. FreePath(k) = <<SIND>>
      BY <1>2, <1>3, <1>4, <1>5, <1>6, <3>1, Zenon DEF FreePath
    <3> QED BY <2>3, <3>2
  <2>4. CASE ~ Free1 /\ ~ Free2 /\ Free3
    <3>1. ~ Free1 /\ ~ Free2 /\ Free3 /\ ~ Free4 /\ ~ Free5 /\ ~ Free6
      BY <2>1, <2>4
    <3>2. FreePath(k) = <<SIND, k - NDIR - 1>>
      BY <1>2, <1>3, <1>4, <1>5, <1>6, <3>1, Zenon DEF FreePath
    <3> QED BY <2>4, <3>2
  <2>5. CASE ~ Free1 /\ ~ Free2 /\ ~ Free3 /\ Free4
    <3>1. ~ Free1 /\ ~ Free2 /\ ~ Free3 /\ Free4 /\ ~ Free5 /\ ~ Free6
      BY <2>1, <2>5
    <3>2. FreePath(k) = <<DIND>>
      BY <1>2, <1>3, <1>4, <1>5, <1>6, <3>1, Zenon DEF FreePath
    <3> QED BY <2>5, <3>2
  <2>6. CASE ~ Free1 /\ ~ Free2 /\ ~ Free3 /\ ~ Free4 /\ Free5
    <3>1. ~ Free1 /\ ~ Free2 /\ ~ Free3 /\ ~ Free4 /\ Free5 /\ ~ Free6
      BY <2>1, <2>6
    <3>2. FreePath(k) = <<DIND, a \div small>>
      BY <1>2, <1>3, <1>4, <1>5, <1>6, <3>1, Zenon DEF FreePath
    <3> QED BY <2>6, <3>2
  <2>7. CASE ~ Free1 /\ ~ Free2 /\ ~ Free3 /\ ~ Free4 /\ ~ Free5 /\ Free6
    <3>1. FreePath(k) = <<DIND, a \div small, (a % small) - 1>>
      BY <1>2, <1>3, <1>4, <1>5, <1>6, <2>7, Zenon DEF FreePath
    <3> QED BY <2>7, <3>1
  <2> HIDE DEF Free1, Free2, Free3, Free4, Free5, Free6
  <2> QED BY <2>2, <2>3, <2>4, <2>5, <2>6, <2>7
<1>9. k < NDIR => FreePath(k) = <<k>>
  BY <1>8
<1>10. k = NDIR => FreePath(k) = <<SIND>>
  BY <1>8, Bounds
<1>11. NDIR < k /\ k <= NDIR + P => FreePath(k) = <<SIND, k - NDIR - 1>>
  BY <1>8, Bounds
<1>12. k = NDIR + P + 1 => FreePath(k) = <<DIND>>
  BY <1>2, <1>8, Bounds
<1>13. k = NDIR + P + 2 => FreePath(k) = <<DIND, 0>>
  <2>1. ASSUME k = NDIR + P + 2
        PROVE  ~ Free1 /\ ~ Free2 /\ ~ Free3 /\ ~ Free4 /\ a = 0 /\ dind > 0
    BY <1>2, <1>3, <2>1, Bounds
  <2> QED BY <1>5, <1>7, <1>8, <2>1
<1>14. NDIR + P + 3 <= k => FreePath(k) = <<DIND, 0, k - NDIR - P - 3>>
  <2>1. ASSUME NDIR + P + 3 <= k
        PROVE  ~ Free1 /\ ~ Free2 /\ ~ Free3 /\ ~ Free4 /\ a # 0 /\ dind > 0
               /\ a - 1 = k - NDIR - P - 3
    BY <1>2, <1>3, <2>1, Bounds
  <2> QED BY <1>5, <1>7, <1>8, <2>1
<1> QED BY <1>9, <1>10, <1>11, <1>12, <1>13, <1>14

LEMMA FreeInPaths ==
  ASSUME NEW k \in Nat, k < Most + 3
  PROVE  FreePath(k) \in Paths
<1>1. CASE k < NDIR
  <2>1. FreePath(k) = <<k>> /\ k \in 0 .. TIND
    BY <1>1, FreeAt, Bounds
  <2> QED BY <2>1 DEF Paths
<1>2. CASE k = NDIR
  <2>1. FreePath(k) = <<SIND>> /\ SIND \in 0 .. TIND
    BY <1>2, FreeAt, Bounds
  <2> QED BY <2>1 DEF Paths
<1>3. CASE NDIR < k /\ k <= NDIR + P
  <2>1. FreePath(k) = <<SIND, k - NDIR - 1>> /\ k - NDIR - 1 \in 0 .. P - 1
    BY <1>3, FreeAt, Bounds
  <2> QED BY <2>1 DEF Paths
<1>4. CASE k = NDIR + P + 1
  <2>1. FreePath(k) = <<DIND>> /\ DIND \in 0 .. TIND
    BY <1>4, FreeAt, Bounds
  <2> QED BY <2>1 DEF Paths
<1>5. CASE k = NDIR + P + 2
  <2>1. FreePath(k) = <<DIND, 0>> /\ 0 \in 0 .. P - 1
    BY <1>5, FreeAt, Bounds
  <2> QED BY <2>1 DEF Paths
<1>6. CASE NDIR + P + 3 <= k
  <2>1. FreePath(k) = <<DIND, 0, k - NDIR - P - 3>> /\ 0 \in 0 .. P - 1
        /\ k - NDIR - P - 3 \in 0 .. P - 1
    BY <1>6, FreeAt, Bounds DEF Most
  <2> QED BY <2>1 DEF Paths
<1> QED BY <1>1, <1>2, <1>3, <1>4, <1>5, <1>6, Bounds

-----------------------------------------------------------------------------
(* set_real_block, level by level.                                         *)

Start(d) == [d |-> d, ok |-> TRUE]

\* The indirect block at place o, allocated if it is not there.
Ensured(s, f, o) ==
  LET new == alloc_block(s.d)
  IN  IF ~ s.ok THEN s
      ELSE IF Lookup(s.d, f, o) # 0 THEN s
      ELSE IF new.b = 0 THEN [d |-> new.d, ok |-> FALSE]
      ELSE [d |-> Store(new.d, f, o, new.b), ok |-> TRUE]

\* The block itself.
Ended(s, f, o, b) == IF ~ s.ok THEN s ELSE [d |-> Store(s.d, f, o, b), ok |-> TRUE]

Level(d, f, o, b, w, k) ==
  LET above == IF k = 1 THEN [d |-> d, ok |-> TRUE] ELSE w[k - 1]
      to == SubSeq(o, 1, k)
      new == alloc_block(above.d)
  IN  IF ~ above.ok THEN above
      ELSE IF k = Len(o) THEN [d |-> Store(above.d, f, o, b), ok |-> TRUE]
      ELSE IF Lookup(above.d, f, to) # 0 THEN above
      ELSE IF new.b = 0 THEN [d |-> new.d, ok |-> FALSE]
      ELSE [d |-> Store(new.d, f, to, new.b), ok |-> TRUE]

\* The outcome above level k.
Above(d, w, k, s) == s = IF k = 1 THEN [d |-> d, ok |-> TRUE] ELSE w[k - 1]

Cut(o, k, to) == to = SubSeq(o, 1, k)
IsReal(n, o) == o = RealPath(n)
Inner(o, k) == k # Len(o)

LEMMA LevelEnds ==
  ASSUME NEW d, NEW f, NEW o, NEW b, NEW w, NEW k, NEW s, Above(d, w, k, s), k = Len(o)
  PROVE  Level(d, f, o, b, w, k) = Ended(s, f, o, b)
BY Zenon DEF Level, Ended, Above

LEMMA LevelEnsures ==
  ASSUME NEW d, NEW f, NEW o, NEW b, NEW w, NEW k, NEW s, Above(d, w, k, s),
         NEW to, Cut(o, k, to), Inner(o, k)
  PROVE  Level(d, f, o, b, w, k) = Ensured(s, f, to)
BY Zenon DEF Level, Ensured, Above, Cut, Inner

LEMMA AboveFirst ==
  ASSUME NEW d, NEW w PROVE Above(d, w, 1, Start(d))
BY DEF Above, Start

LEMMA AboveNext ==
  ASSUME NEW d, NEW w, NEW k \in Nat \ {0} PROVE Above(d, w, k + 1, w[k])
BY DEF Above

Levels(d, f, o, b, w) == w = [k \in 1 .. Len(o) |-> Level(d, f, o, b, w, k)]

LEMMA SetIs ==
  ASSUME NEW d, NEW f, NEW n, NEW b, NEW o, IsReal(n, o), NEW w, Levels(d, f, o, b, w)
  PROVE  \E v : Levels(d, f, o, b, v) /\ set_real_block(d, f, n, b) = v[Len(o)]
<1>1. PICK v : v = CHOOSE u : Levels(d, f, o, b, u)
  OBVIOUS
<1>2. Levels(d, f, o, b, v)
  BY <1>1
<1>3. set_real_block(d, f, n, b) = v[Len(o)]
  BY <1>1 DEF set_real_block, Level, Levels, IsReal
<1> QED BY <1>2, <1>3

LEMMA SetOne ==
  ASSUME NEW d, NEW f, NEW n, NEW b, NEW i, RealPath(n) = <<i>>
  PROVE  set_real_block(d, f, n, b) = Ended(Start(d), f, <<i>>, b)
<1>1. PICK o : o = <<i>>
  OBVIOUS
<1>2. Len(o) = 1
  BY <1>1
<1>3. PICK x : x = Ended(Start(d), f, o, b)
  OBVIOUS
<1>4. ASSUME NEW v PROVE Level(d, f, o, b, v, 1) = x
  <2>1. PICK to : to = SubSeq(o, 1, 1)
    OBVIOUS
  <2>2. Level(d, f, o, b, v, 1) = Ended(Start(d), f, o, b)
    <3>1. Above(d, v, 1, Start(d))
      BY AboveFirst
    <3>2. 1 = Len(o)
      BY <1>2
    <3>3. PICK k : k = 1
      OBVIOUS
    <3>4. PICK s : s = Start(d)
      OBVIOUS
    <3>5. Above(d, v, k, s) /\ to = SubSeq(o, 1, k) /\ k = Len(o)
      BY <2>1, <3>1, <3>2, <3>3, <3>4
    <3>6. Level(d, f, o, b, v, k) = Ended(s, f, o, b)
      BY <3>5, LevelEnds
    <3> QED BY <3>3, <3>4, <3>6
  <2> QED BY <1>3, <2>2
<1>5. PICK w : w = [k \in 1 .. 1 |-> x]
  OBVIOUS
<1>6. \A v : [k \in 1 .. Len(o) |-> Level(d, f, o, b, v, k)] = w
  <2>1. \A v, k : k \in 1 .. 1 => Level(d, f, o, b, v, k) = x
    BY <1>4
  <2> QED BY <1>2, <1>5, <2>1
<1>7. set_real_block(d, f, n, b) = w[Len(o)]
  <2>1. Levels(d, f, o, b, w)
    BY <1>6 DEF Levels
  <2>2. PICK v : Levels(d, f, o, b, v) /\ set_real_block(d, f, n, b) = v[Len(o)]
    <3>1. IsReal(n, o)
      BY <1>1 DEF IsReal
    <3> QED BY <2>1, <3>1, SetIs
  <2>3. v = w
    BY <1>6, <2>2 DEF Levels
  <2> QED BY <2>2, <2>3
<1>8. w[1] = x
  BY <1>5
<1> QED BY <1>1, <1>2, <1>3, <1>7, <1>8

LEMMA SetTwo ==
  ASSUME NEW d, NEW f, NEW n, NEW b, NEW i, NEW j, RealPath(n) = <<i, j>>
  PROVE  set_real_block(d, f, n, b) = Ended(Ensured(Start(d), f, <<i>>), f, <<i, j>>, b)
<1>1. PICK o : o = <<i, j>>
  OBVIOUS
<1>2. Len(o) = 2 /\ SubSeq(o, 1, 1) = <<i>>
  BY <1>1, CutOne
<1>3. PICK x : x = Ensured(Start(d), f, <<i>>)
  OBVIOUS
<1>4. PICK y : y = Ended(x, f, o, b)
  OBVIOUS
<1>5. ASSUME NEW v PROVE Level(d, f, o, b, v, 1) = x
  <2>1. 1 # Len(o)
    BY <1>2
  <2>2. PICK to : to = SubSeq(o, 1, 1)
    OBVIOUS
  <2>3. Level(d, f, o, b, v, 1) = Ensured(Start(d), f, to)
    <3>1. Above(d, v, 1, Start(d))
      BY AboveFirst
    <3>2. PICK k : k = 1
      OBVIOUS
    <3>3. PICK s : s = Start(d)
      OBVIOUS
    <3>4. Above(d, v, k, s) /\ Cut(o, k, to) /\ Inner(o, k)
      BY <2>1, <2>2, <3>1, <3>2, <3>3 DEF Cut, Inner
    <3>5. Level(d, f, o, b, v, k) = Ensured(s, f, to)
      BY <3>4, LevelEnsures
    <3> QED BY <3>2, <3>3, <3>5
  <2> QED BY <1>2, <1>3, <2>2, <2>3
<1>6. ASSUME NEW v, v[1] = x PROVE Level(d, f, o, b, v, 2) = y
  <2>1. 2 = Len(o) /\ 2 = 1 + 1
    BY <1>2
  <2>2. Above(d, v, 2, x)
    BY <1>6, <2>1, AboveNext
  <2>3. PICK to : to = SubSeq(o, 1, 2)
    OBVIOUS
  <2>4. Level(d, f, o, b, v, 2) = Ended(x, f, o, b)
    <3>1. PICK k : k = 2
      OBVIOUS
    <3>2. Above(d, v, k, x) /\ to = SubSeq(o, 1, k) /\ k = Len(o)
      BY <2>1, <2>2, <2>3, <3>1
    <3>3. Level(d, f, o, b, v, k) = Ended(x, f, o, b)
      BY <3>2, LevelEnds
    <3> QED BY <3>1, <3>3
  <2> QED BY <1>2, <1>4, <2>3, <2>4
<1>7. PICK w : w = [k \in 1 .. 2 |-> IF k = 1 THEN x ELSE y]
  OBVIOUS
<1>8. w[1] = x /\ w[2] = y
  BY <1>7
<1>9. \A v : v[1] = x => [k \in 1 .. Len(o) |-> Level(d, f, o, b, v, k)] = w
  <2>1. \A k \in 1 .. 2 : k = 1 \/ k = 2
    OBVIOUS
  <2>2. \A v, k : k \in 1 .. 2 /\ v[1] = x
                    => Level(d, f, o, b, v, k) = IF k = 1 THEN x ELSE y
    BY <1>5, <1>6, <2>1
  <2> QED BY <1>2, <1>7, <2>2
<1>10. ASSUME NEW v, v = [k \in 1 .. Len(o) |-> Level(d, f, o, b, v, k)]
       PROVE  v = w
  <2>1. 1 \in 1 .. Len(o)
    BY <1>2
  <2>2. v[1] = Level(d, f, o, b, v, 1)
    BY <1>10, <2>1
  <2> QED BY <1>5, <1>9, <1>10, <2>2
<1>11. set_real_block(d, f, n, b) = w[Len(o)]
  <2>1. Levels(d, f, o, b, w)
    BY <1>8, <1>9 DEF Levels
  <2>2. PICK v : Levels(d, f, o, b, v) /\ set_real_block(d, f, n, b) = v[Len(o)]
    <3>1. IsReal(n, o)
      BY <1>1 DEF IsReal
    <3> QED BY <2>1, <3>1, SetIs
  <2>3. v = w
    BY <1>10, <2>2 DEF Levels
  <2> QED BY <2>2, <2>3
<1> QED BY <1>1, <1>2, <1>3, <1>4, <1>8, <1>11

LEMMA SetThree ==
  ASSUME NEW d, NEW f, NEW n, NEW b, NEW i, NEW j, NEW l, RealPath(n) = <<i, j, l>>
  PROVE  set_real_block(d, f, n, b) =
           Ended(Ensured(Ensured(Start(d), f, <<i>>), f, <<i, j>>), f, <<i, j, l>>, b)
<1>1. PICK o : o = <<i, j, l>>
  OBVIOUS
<1>2. Len(o) = 3 /\ SubSeq(o, 1, 1) = <<i>> /\ SubSeq(o, 1, 2) = <<i, j>>
  <2>1. SubSeq(o, 1, 1) = <<i>>
    <3>1. PICK S : S = {i, j, l}
      OBVIOUS
    <3>2. PICK s : s = SubSeq(o, 1, 1)
      OBVIOUS
    <3>3. <<i>> \in Seq(S) /\ Len(<<i>>) = 1 /\ <<i>>[1] = i
      BY <3>1
    <3>4. s \in Seq(S) /\ Len(s) = 1 /\ s[1] = i
      <4>1. \A k \in 1 .. 1 : <<i, j, l>>[k] \in S
        BY <3>1
      <4> QED BY <1>1, <3>2, <4>1, SubSeqProperties
    <3>5. \A k \in 1 .. Len(s) : s[k] = <<i>>[k]
      BY <3>3, <3>4
    <3> QED BY <3>2, <3>3, <3>4, <3>5, SeqEqual
  <2> QED BY <1>1, <2>1, CutTwo
<1>3. PICK x : x = Ensured(Start(d), f, <<i>>)
  OBVIOUS
<1>4. PICK y : y = Ensured(x, f, <<i, j>>)
  OBVIOUS
<1>5. PICK z : z = Ended(y, f, o, b)
  OBVIOUS
<1>6. ASSUME NEW v PROVE Level(d, f, o, b, v, 1) = x
  <2>1. 1 # Len(o)
    BY <1>2
  <2>2. PICK to : to = SubSeq(o, 1, 1)
    OBVIOUS
  <2>3. Level(d, f, o, b, v, 1) = Ensured(Start(d), f, to)
    <3>1. Above(d, v, 1, Start(d))
      BY AboveFirst
    <3>2. PICK k : k = 1
      OBVIOUS
    <3>3. PICK s : s = Start(d)
      OBVIOUS
    <3>4. Above(d, v, k, s) /\ Cut(o, k, to) /\ Inner(o, k)
      BY <2>1, <2>2, <3>1, <3>2, <3>3 DEF Cut, Inner
    <3>5. Level(d, f, o, b, v, k) = Ensured(s, f, to)
      BY <3>4, LevelEnsures
    <3> QED BY <3>2, <3>3, <3>5
  <2> QED BY <1>2, <1>3, <2>2, <2>3
<1>7. ASSUME NEW v, v[1] = x PROVE Level(d, f, o, b, v, 2) = y
  <2>1. 2 # Len(o) /\ 2 = 1 + 1
    BY <1>2
  <2>2. Above(d, v, 2, x)
    BY <1>7, <2>1, AboveNext
  <2>3. PICK to : to = SubSeq(o, 1, 2)
    OBVIOUS
  <2>4. Level(d, f, o, b, v, 2) = Ensured(x, f, to)
    <3>1. PICK k : k = 2
      OBVIOUS
    <3>2. Above(d, v, k, x) /\ Cut(o, k, to) /\ Inner(o, k)
      BY <2>1, <2>2, <2>3, <3>1 DEF Cut, Inner
    <3>3. Level(d, f, o, b, v, k) = Ensured(x, f, to)
      BY <3>2, LevelEnsures
    <3> QED BY <3>1, <3>3
  <2> QED BY <1>2, <1>4, <2>3, <2>4
<1>8. ASSUME NEW v, v[2] = y PROVE Level(d, f, o, b, v, 3) = z
  <2>1. 3 = Len(o) /\ 3 = 2 + 1
    BY <1>2
  <2>2. Above(d, v, 3, y)
    BY <1>8, <2>1, AboveNext
  <2>3. PICK to : to = SubSeq(o, 1, 3)
    OBVIOUS
  <2>4. Level(d, f, o, b, v, 3) = Ended(y, f, o, b)
    <3>1. PICK k : k = 3
      OBVIOUS
    <3>2. Above(d, v, k, y) /\ to = SubSeq(o, 1, k) /\ k = Len(o)
      BY <2>1, <2>2, <2>3, <3>1
    <3>3. Level(d, f, o, b, v, k) = Ended(y, f, o, b)
      BY <3>2, LevelEnds
    <3> QED BY <3>1, <3>3
  <2> QED BY <1>2, <1>5, <2>3, <2>4
<1>9. PICK w : w = [k \in 1 .. 3 |-> IF k = 1 THEN x ELSE IF k = 2 THEN y ELSE z]
  OBVIOUS
<1>10. w[1] = x /\ w[2] = y /\ w[3] = z
  BY <1>9
<1>11. \A v : v[1] = x /\ v[2] = y => [k \in 1 .. Len(o) |-> Level(d, f, o, b, v, k)] = w
  <2>1. \A k \in 1 .. 3 : k = 1 \/ k = 2 \/ k = 3
    OBVIOUS
  <2>2. \A v, k : k \in 1 .. 3 /\ v[1] = x /\ v[2] = y
                    => Level(d, f, o, b, v, k) = IF k = 1 THEN x ELSE IF k = 2 THEN y ELSE z
    BY <1>6, <1>7, <1>8, <2>1
  <2> QED BY <1>2, <1>9, <2>2
<1>12. ASSUME NEW v, v = [k \in 1 .. Len(o) |-> Level(d, f, o, b, v, k)]
       PROVE  v = w
  <2>1. 1 \in 1 .. Len(o) /\ 2 \in 1 .. Len(o)
    BY <1>2
  <2>2. v[1] = Level(d, f, o, b, v, 1) /\ v[2] = Level(d, f, o, b, v, 2)
    BY <1>12, <2>1
  <2>3. v[1] = x /\ v[2] = y
    BY <1>6, <1>7, <2>2
  <2> QED BY <1>11, <1>12, <2>3
<1>13. set_real_block(d, f, n, b) = w[Len(o)]
  <2>1. Levels(d, f, o, b, w)
    BY <1>10, <1>11 DEF Levels
  <2>2. PICK v : Levels(d, f, o, b, v) /\ set_real_block(d, f, n, b) = v[Len(o)]
    <3>1. IsReal(n, o)
      BY <1>1 DEF IsReal
    <3> QED BY <2>1, <3>1, SetIs
  <2>3. v = w
    BY <1>12, <2>2 DEF Levels
  <2> QED BY <2>2, <2>3
<1> QED BY <1>1, <1>2, <1>3, <1>4, <1>5, <1>10, <1>13

-----------------------------------------------------------------------------
(* More blocks at new places.                                              *)

\* Blocks marked used that no inode reaches.
Lost(d) == {x \in d.bitmap \ Reserved : \A g \in Files, q \in Paths : Lookup(d, g, q) # x}

Has(d, f, o) == Lookup(d, f, o) # 0

\* File f got blocks at the places S it had none at; all else is as it was.
Grows(d, e, f, S) ==
  /\ d.bitmap \subseteq e.bitmap
  /\ \A g \in Files, q \in Paths : Has(d, g, q) => Lookup(e, g, q) = Lookup(d, g, q)
  /\ \A g \in Files, q \in Paths : Has(e, g, q) <=> Has(d, g, q) \/ (g = f /\ q \in S)
  /\ \A g \in Files, q \in Paths :
       Has(d, g, q) /\ Leaf(q) => e.block[Lookup(d, g, q)] = d.block[Lookup(d, g, q)]

LEMMA GrowsSame == ASSUME NEW d, NEW f PROVE Grows(d, d, f, {})
BY DEF Grows

LEMMA GrowsTwice ==
  ASSUME NEW d, NEW c, NEW e, NEW f, NEW S, NEW T, Grows(d, c, f, S), Grows(c, e, f, T)
  PROVE  Grows(d, e, f, S \cup T)
<1>1. d.bitmap \subseteq e.bitmap
  BY DEF Grows
<1>2. \A g \in Files, q \in Paths : Has(d, g, q) => Has(c, g, q)
  BY DEF Grows
<1>3. \A g \in Files, q \in Paths : Has(d, g, q) => Lookup(e, g, q) = Lookup(d, g, q)
  BY <1>2 DEF Grows
<1>4. \A g \in Files, q \in Paths : Has(e, g, q) <=> Has(d, g, q) \/ (g = f /\ q \in S \cup T)
  BY DEF Grows
<1>5. ASSUME NEW g \in Files, NEW q \in Paths, Has(d, g, q), Leaf(q)
      PROVE  e.block[Lookup(d, g, q)] = d.block[Lookup(d, g, q)]
  <2>1. Lookup(c, g, q) = Lookup(d, g, q) /\ Has(c, g, q)
    BY <1>2, <1>5 DEF Grows
  <2>2. c.block[Lookup(d, g, q)] = d.block[Lookup(d, g, q)]
    BY <1>5 DEF Grows
  <2>3. e.block[Lookup(c, g, q)] = c.block[Lookup(c, g, q)]
    BY <1>5, <2>1 DEF Grows
  <2> QED BY <2>1, <2>2, <2>3
<1> QED BY <1>1, <1>3, <1>4, <1>5 DEF Grows

\* Below a place without a block there are none.
LEMMA NothingBelow ==
  ASSUME NEW d, NEW f \in Files, NEW o \in Paths, ~ Has(d, f, o), NEW q \in Paths, Under(q, o)
  PROVE  ~ Has(d, f, q)
<1>1. ASSUME NEW p \in Paths, ~ Top(p), ~ Has(d, f, Up(p)) PROVE ~ Has(d, f, p)
  <2>1. PICK y : y = Lookup(d, f, Up(p))
    OBVIOUS
  <2>2. Lookup(d, f, p) = IF y = 0 THEN 0 ELSE d.block[y][Idx(p)]
    BY <1>1, <2>1, LookupBelow
  <2> QED BY <1>1, <2>1, <2>2 DEF Has
<1>2. ~ Top(q) /\ Up(q) \in Paths
  BY PathIs DEF Under
<1>3. CASE Up(q) = o
  BY <1>1, <1>2, <1>3
<1>4. CASE Up(q) # o
  <2>1. ~ Top(Up(q)) /\ Up(Up(q)) = o
    BY <1>4 DEF Under
  <2> QED BY <1>1, <1>2, <2>1
<1> QED BY <1>3, <1>4

\* A loose block is put where there was none.
PutAdds(d, e, f, o, b) ==
  /\ Grows(d, e, f, {o}) /\ Lookup(e, f, o) = b
  /\ Lost(e) = Lost(d) \ {b}
  /\ \A x : Loose(d, x) => e.block[x] = ZeroBlock

LEMMA PutGrows ==
  ASSUME NEW d, Whole(d), NEW f \in Files, NEW o \in Paths, NEW b, Loose(d, b), ~ Has(d, f, o),
         NEW e, Put(d, e, f, o, b)
  PROVE  PutAdds(d, e, f, o, b)
<1> USE DEF Whole
<1>1. b # 0
  BY BlockFacts DEF Loose
<1>2. \A g \in Files, q \in Paths :
        Lookup(e, g, q) = IF g = f /\ q = o THEN b ELSE Lookup(d, g, q)
  BY NothingBelow DEF Put, Placed, Has
<1>3. ASSUME NEW x \in Blocks, ~ Top(o) => x # Lookup(d, f, Up(o))
      PROVE  e.block[x] = d.block[x]
  BY <1>3 DEF Put, Written, Freed, Has
<1>4. ASSUME NEW g \in Files, NEW q \in Paths, Has(d, g, q), Leaf(q)
      PROVE  e.block[Lookup(d, g, q)] = d.block[Lookup(d, g, q)]
  <2>1. Lookup(d, g, q) \in Blocks
    BY <1>4 DEF Has, Tree, Disk
  <2>2. ASSUME ~ Top(o) PROVE Lookup(d, g, q) # Lookup(d, f, Up(o))
    <3>1. PICK u \in Paths : u = Up(o)
      BY <2>2, PathIs
    <3>2. u # q
      BY <1>4, <2>2, <3>1 DEF Leaf
    <3> QED BY <1>4, <3>1, <3>2 DEF Tree, Has
  <2> QED BY <1>3, <2>1, <2>2
<1>5. Grows(d, e, f, {o})
  <2>1. \A g \in Files, q \in Paths : Has(d, g, q) => Lookup(e, g, q) = Lookup(d, g, q)
    BY <1>2 DEF Has
  <2>2. \A g \in Files, q \in Paths : Has(e, g, q) <=> Has(d, g, q) \/ (g = f /\ q \in {o})
    BY <1>1, <1>2 DEF Has
  <2>3. d.bitmap \subseteq e.bitmap
    BY DEF Put, SameSpace
  <2> QED BY <1>4, <2>1, <2>2, <2>3 DEF Grows
<1>6. Lost(e) = Lost(d) \ {b}
  <2>1. e.bitmap = d.bitmap
    BY DEF Put, SameSpace
  <2>2. ASSUME NEW x \in d.bitmap \ Reserved
        PROVE  (\A g \in Files, q \in Paths : Lookup(e, g, q) # x)
                 <=> x # b /\ (\A g \in Files, q \in Paths : Lookup(d, g, q) # x)
    <3>1. x # 0
      BY BlockFacts
    <3> QED BY <1>2, <3>1 DEF Has
  <2> QED BY <2>1, <2>2 DEF Lost
<1>7. ASSUME NEW x, Loose(d, x) PROVE e.block[x] = ZeroBlock
  <2>1. x \in Blocks
    BY <1>7 DEF Loose, Disk
  <2>2. ~ Top(o) => x # Lookup(d, f, Up(o))
    BY <1>7, PathIs DEF Loose
  <2> QED BY <1>3, <1>7, <2>1, <2>2 DEF Loose
<1> QED BY <1>2, <1>5, <1>6, <1>7 DEF PutAdds

LEMMA TookGrows ==
  ASSUME NEW d, Whole(d), NEW e, NEW b, b # 0, Took(d, e, b), NEW f \in Files
  PROVE  /\ Grows(d, e, f, {}) /\ Lost(e) = Lost(d) \cup {b} /\ b \notin d.bitmap
         /\ \A x : Loose(d, x) => Loose(e, x)
<1> USE DEF Whole
<1>1. SamePlaces(d, e) /\ Loose(e, b)
  BY TookIs
<1>2. b \in Blocks \ d.bitmap /\ e.bitmap = d.bitmap \cup {b}
      /\ \A x \in Blocks \ {b} : e.block[x] = d.block[x]
  BY DEF Took
<1>3. Grows(d, e, f, {})
  <2>1. \A g \in Files, q \in Paths : Has(d, g, q) => Lookup(d, g, q) \in Blocks \ {b}
    BY <1>2 DEF Has, Tree, Disk
  <2> QED BY <1>1, <1>2, <2>1 DEF Grows, SamePlaces, Has
<1>4. Lost(e) = Lost(d) \cup {b}
  BY <1>1, <1>2 DEF Lost, SamePlaces, Loose
<1>5. ASSUME NEW x, Loose(d, x) PROVE Loose(e, x)
  <2>1. x \in Blocks \ {b}
    BY <1>2, <1>5 DEF Loose, Disk
  <2> QED BY <1>1, <1>2, <1>5, <2>1 DEF Loose, SamePlaces
<1> QED BY <1>2, <1>3, <1>4, <1>5

\* An indirect block is there, or the allocation fails.  The block b waits.
GivesPlace(d, t, f, o, b) ==
  /\ Whole(t.d) /\ SameNodes(d, t.d) /\ (d.spoilt => t.d.spoilt)
  /\ ~ t.ok => t.d.spoilt
  /\ t.ok => /\ Loose(t.d, b) /\ Grows(d, t.d, f, {o}) /\ Lost(t.d) = Lost(d)
             /\ t.d.spoilt = d.spoilt /\ Has(t.d, f, o)

LEMMA EnsuredIs ==
  ASSUME NEW s, s.ok, NEW d, d = s.d, Whole(d), NEW f \in Files, NEW o \in Paths, NEW b,
         Loose(d, b), Top(o) \/ Has(d, f, Up(o)), NEW t, t = Ensured(s, f, o)
  PROVE  GivesPlace(d, t, f, o, b)
<1> USE DEF Whole
<1>1. PICK new : new = alloc_block(d)
  OBVIOUS
<1>2. CASE Has(d, f, o)
  <2>1. t = s
    BY <1>2 DEF Ensured, Has
  <2>2. Grows(d, d, f, {o})
    BY <1>2 DEF Grows
  <2>3. SameNodes(d, d)
    BY DEF SameNodes
  <2> QED BY <1>2, <2>1, <2>2, <2>3 DEF GivesPlace
<1>3. CASE ~ Has(d, f, o) /\ new.b = 0
  <2>1. t = [d |-> new.d, ok |-> FALSE]
    BY <1>1, <1>3 DEF Ensured, Has
  <2>2. Failed(d, new.d)
    BY <1>1, <1>3, AllocIs DEF Took
  <2>3. Whole(new.d) /\ SameNodes(d, new.d) /\ new.d.spoilt
    BY <2>2, FailedIs
  <2>4. t.d = new.d /\ t.ok = FALSE
    BY <2>1
  <2> QED BY <2>3, <2>4 DEF GivesPlace
<1>4. CASE ~ Has(d, f, o) /\ new.b # 0
  <2>1. PICK x, c : x = new.b /\ c = new.d
    OBVIOUS
  <2>2. Took(d, c, x) /\ x # 0
    BY <1>1, <1>4, <2>1, AllocIs
  <2>3. PICK e : e = Store(c, f, o, x)
    OBVIOUS
  <2>4. t = [d |-> e, ok |-> TRUE]
    BY <1>1, <1>4, <2>1, <2>3 DEF Ensured, Has
  <2>5. Whole(c) /\ SameNodes(d, c) /\ SamePlaces(d, c) /\ Loose(c, x)
    BY <2>2, TookIs
  <2>6. Grows(d, c, f, {}) /\ Lost(c) = Lost(d) \cup {x} /\ x \notin d.bitmap /\ Loose(c, b)
    BY <2>2, TookGrows
  <2>7. Top(o) \/ Lookup(c, f, Up(o)) # 0
    BY <2>5, PathIs DEF SamePlaces, Has
  <2>8. Put(c, e, f, o, x)
    BY <2>3, <2>5, <2>7, PutIs
  <2>9. ~ Has(c, f, o)
    BY <1>4, <2>5 DEF SamePlaces, Has
  <2>10. /\ Grows(c, e, f, {o}) /\ Lookup(e, f, o) = x /\ Lost(e) = Lost(c) \ {x}
         /\ e.block[b] = ZeroBlock
    <3>1. PutAdds(c, e, f, o, x)
      BY <2>5, <2>8, <2>9, PutGrows
    <3> QED BY <2>6, <3>1 DEF PutAdds
  <2>11. Grows(d, e, f, {o})
    <3>1. Grows(d, e, f, {} \cup {o})
      BY <2>6, <2>10, GrowsTwice
    <3> QED BY <3>1
  <2>12. x \notin Lost(d)
    BY <2>6 DEF Lost
  <2>13. Lost(e) = Lost(d)
    BY <2>6, <2>10, <2>12
  <2>14. Whole(e) /\ SameNodes(d, e) /\ e.spoilt = d.spoilt /\ e.bitmap = c.bitmap
    BY <2>2, <2>5, <2>8 DEF Put, SameNodes, SameSpace, Took
  <2>15. b # x /\ b # 0
    BY <2>6, BlockFacts DEF Loose
  <2>16. Loose(e, b)
    <3>1. \A g \in Files, q \in Paths : Lookup(e, g, q) # b
      <4>1. \A g \in Files, q \in Paths : Lookup(c, g, q) # b
        BY <2>6 DEF Loose
      <4> QED BY <2>8, <2>15, <4>1 DEF Put, Placed
    <3> QED BY <2>6, <2>10, <2>14, <3>1 DEF Loose
  <2>17. Has(e, f, o)
    BY <2>2, <2>10 DEF Has
  <2>18. t.d = e /\ t.ok = TRUE
    BY <2>4
  <2> QED BY <2>11, <2>13, <2>14, <2>16, <2>17, <2>18 DEF GivesPlace
<1> QED BY <1>2, <1>3, <1>4

-----------------------------------------------------------------------------
(* alloc_inode_block.                                                      *)

\* The place of a block and of the indirect blocks above it.
Way(o) == {o} \cup (IF Top(o) THEN {}
                    ELSE {Up(o)} \cup (IF Top(Up(o)) THEN {} ELSE {Up(Up(o))}))

\* The same for any number of indirect blocks.
GivesPlaces(d, s, f, S, b) ==
  /\ Whole(s.d) /\ SameNodes(d, s.d) /\ (d.spoilt => s.d.spoilt)
  /\ ~ s.ok => s.d.spoilt
  /\ s.ok => Loose(s.d, b) /\ Grows(d, s.d, f, S) /\ Lost(s.d) = Lost(d) /\ s.d.spoilt = d.spoilt

Reaches(o, S) == Top(o) \/ Up(o) \in S

LEMMA ReachesHas ==
  ASSUME NEW d, NEW e, NEW f \in Files, NEW S, Grows(d, e, f, S), NEW o \in Paths, Reaches(o, S)
  PROVE  Top(o) \/ Has(e, f, Up(o))
BY PathIs DEF Reaches, Grows

LEMMA StartGives ==
  ASSUME NEW d, Whole(d), NEW f, NEW b, Loose(d, b)
  PROVE  GivesPlaces(d, Start(d), f, {}, b)
BY GrowsSame DEF GivesPlaces, Start, SameNodes

LEMMA EnsuredGives ==
  ASSUME NEW d, NEW s, NEW f \in Files, NEW S, NEW b, GivesPlaces(d, s, f, S, b),
         NEW o \in Paths, Reaches(o, S), NEW t, t = Ensured(s, f, o)
  PROVE  GivesPlaces(d, t, f, S \cup {o}, b)
<1>1. CASE ~ s.ok
  <2>1. t = s
    BY <1>1 DEF Ensured
  <2> QED BY <1>1, <2>1 DEF GivesPlaces
<1>2. CASE s.ok
  <2>1. PICK c : c = s.d
    OBVIOUS
  <2>2. Whole(c) /\ SameNodes(d, c) /\ Loose(c, b) /\ Grows(d, c, f, S) /\ Lost(c) = Lost(d)
        /\ c.spoilt = d.spoilt
    BY <1>2, <2>1 DEF GivesPlaces
  <2>3. Top(o) \/ Has(c, f, Up(o))
    BY <2>2, ReachesHas
  <2>4. GivesPlace(c, t, f, o, b)
    BY <1>2, <2>1, <2>2, <2>3, EnsuredIs
  <2>5. SameNodes(d, t.d)
    BY <2>2, <2>4 DEF GivesPlace, SameNodes
  <2>6. t.ok => Grows(d, t.d, f, S \cup {o})
    BY <2>2, <2>4, GrowsTwice DEF GivesPlace
  <2> QED BY <2>2, <2>4, <2>5, <2>6 DEF GivesPlace, GivesPlaces
<1> QED BY <1>1, <1>2

\* What set_real_block gives.
GivesBlock(d, t, f, o, S, b) ==
  /\ Whole(t.d) /\ SameNodes(d, t.d) /\ (d.spoilt => t.d.spoilt)
  /\ ~ t.ok => t.d.spoilt
  /\ t.ok /\ ~ Has(d, f, o) =>
       /\ Grows(d, t.d, f, S) /\ Lost(t.d) = Lost(d) \ {b} /\ t.d.spoilt = d.spoilt
       /\ Lookup(t.d, f, o) = b /\ t.d.block[b] = ZeroBlock

LEMMA EndedGives ==
  ASSUME NEW d, NEW s, NEW f \in Files, NEW S, NEW b, GivesPlaces(d, s, f, S, b),
         NEW o \in Paths, Reaches(o, S), o \notin S, NEW t, t = Ended(s, f, o, b)
  PROVE  GivesBlock(d, t, f, o, S \cup {o}, b)
<1>1. CASE ~ s.ok
  <2>1. t = s
    BY <1>1 DEF Ended
  <2> QED BY <1>1, <2>1 DEF GivesPlaces, GivesBlock
<1>2. CASE s.ok
  <2>1. PICK c : c = s.d
    OBVIOUS
  <2>2. Whole(c) /\ SameNodes(d, c) /\ Loose(c, b) /\ Grows(d, c, f, S) /\ Lost(c) = Lost(d)
        /\ c.spoilt = d.spoilt
    BY <1>2, <2>1 DEF GivesPlaces
  <2>3. Top(o) \/ Lookup(c, f, Up(o)) # 0
    BY <2>2, ReachesHas DEF Has
  <2>4. PICK e : e = Store(c, f, o, b)
    OBVIOUS
  <2>5. t.d = e /\ t.ok = TRUE
    BY <1>2, <2>1, <2>4 DEF Ended
  <2>6. Put(c, e, f, o, b)
    BY <2>2, <2>3, <2>4, PutIs
  <2>7. Whole(e) /\ SameNodes(d, e) /\ e.spoilt = d.spoilt
    BY <2>2, <2>6 DEF Put, SameNodes, SameSpace
  <2>8. ASSUME ~ Has(d, f, o)
        PROVE  /\ Grows(d, e, f, S \cup {o}) /\ Lost(e) = Lost(d) \ {b} /\ e.spoilt = d.spoilt
               /\ Lookup(e, f, o) = b /\ e.block[b] = ZeroBlock
    <3>1. ~ Has(c, f, o)
      BY <2>2, <2>8 DEF Grows
    <3>2. PutAdds(c, e, f, o, b)
      BY <2>2, <2>6, <3>1, PutGrows
    <3>3. Grows(d, e, f, S \cup {o})
      BY <2>2, <3>2, GrowsTwice DEF PutAdds
    <3> QED BY <2>2, <2>7, <3>2, <3>3 DEF PutAdds
  <2> QED BY <2>5, <2>7, <2>8 DEF GivesBlock
<1> QED BY <1>1, <1>2

LEMMA SetGives ==
  ASSUME NEW d, Whole(d), NEW f \in Files, NEW b, Loose(d, b), NEW n \in Nat, n < Most,
         NEW o, o = RealPath(n), NEW t, t = set_real_block(d, f, n, b)
  PROVE  GivesBlock(d, t, f, o, Way(o), b)
<1>0. o \in Paths
  BY RealLeaf
<1>1. PICK s0 : s0 = Start(d)
  OBVIOUS
<1>2. GivesPlaces(d, s0, f, {}, b)
  BY <1>1, StartGives
<1>3. CASE n < NDIR
  <2>1. o = <<n>>
    BY <1>3, RealIs
  <2>2. t = Ended(s0, f, o, b)
    BY <1>1, <2>1, SetOne
  <2>3. Top(o)
    BY <2>1, OnePath DEF Top
  <2>4. Reaches(o, {}) /\ Way(o) = {} \cup {o}
    BY <2>3 DEF Reaches, Way
  <2>5. GivesBlock(d, t, f, o, {} \cup {o}, b)
    BY <1>0, <1>2, <2>2, <2>4, EndedGives
  <2> QED BY <2>4, <2>5
<1>4. CASE NDIR <= n /\ n < NDIR + P
  <2>1. PICK i, j : i = SIND /\ j = n - NDIR
    OBVIOUS
  <2>2. o = <<i, j>>
    BY <1>4, <2>1, RealIs
  <2>3. PICK u : u = <<i>>
    OBVIOUS
  <2>4. Up(o) = u /\ Len(o) = 2 /\ ~ Top(o) /\ Top(u)
    BY <2>2, <2>3, TwoPath, OnePath DEF Top
  <2>5. u \in Paths
    BY <1>0, <2>4, PathIs
  <2>6. PICK s1 : s1 = Ensured(s0, f, u)
    OBVIOUS
  <2>7. t = Ended(s1, f, o, b)
    <3>1. RealPath(n) = <<i, j>>
      BY <2>2
    <3>2. t = Ended(Ensured(Start(d), f, <<i>>), f, <<i, j>>, b)
      BY <3>1, SetTwo
    <3> QED BY <1>1, <2>2, <2>3, <2>6, <3>2
  <2>8. GivesPlaces(d, s1, f, {} \cup {u}, b)
    BY <1>2, <2>4, <2>5, <2>6, EnsuredGives DEF Reaches
  <2>9. PICK S : S = {u}
    OBVIOUS
  <2>10. GivesPlaces(d, s1, f, S, b) /\ Reaches(o, S) /\ o \notin S /\ Way(o) = S \cup {o}
    BY <2>4, <2>8, <2>9 DEF Reaches, Way
  <2>11. GivesBlock(d, t, f, o, S \cup {o}, b)
    BY <1>0, <2>7, <2>10, EndedGives
  <2> QED BY <2>10, <2>11
<1>5. CASE NDIR + P <= n
  <2>1. PICK i, j, l : i = DIND /\ j = 0 /\ l = n - NDIR - P
    OBVIOUS
  <2>2. o = <<i, j, l>>
    BY <1>5, <2>1, RealIs
  <2>3. PICK u, w : u = <<i, j>> /\ w = <<i>>
    OBVIOUS
  <2>4. Up(o) = u /\ Up(u) = w /\ ~ Top(o) /\ ~ Top(u) /\ Top(w)
    BY <2>2, <2>3, ThreePath, TwoPath, OnePath DEF Top
  <2>5. o # u
    <3>1. Len(o) = 3 /\ Len(u) = 2
      BY <2>2, <2>3, ThreePath, TwoPath
    <3> QED BY <3>1
  <2>6. u \in Paths /\ w \in Paths
    BY <1>0, <2>4, PathIs
  <2>7. PICK s1 : s1 = Ensured(s0, f, w)
    OBVIOUS
  <2>8. PICK s2 : s2 = Ensured(s1, f, u)
    OBVIOUS
  <2>9. t = Ended(s2, f, o, b)
    <3>1. RealPath(n) = <<i, j, l>>
      BY <2>2
    <3>2. t = Ended(Ensured(Ensured(Start(d), f, <<i>>), f, <<i, j>>), f, <<i, j, l>>, b)
      BY <3>1, SetThree
    <3> QED BY <1>1, <2>2, <2>3, <2>7, <2>8, <3>2
  <2>10. GivesPlaces(d, s1, f, {} \cup {w}, b)
    BY <1>2, <2>4, <2>6, <2>7, EnsuredGives DEF Reaches
  <2>11. PICK T : T = {w}
    OBVIOUS
  <2>12. GivesPlaces(d, s1, f, T, b) /\ Reaches(u, T)
    BY <2>4, <2>10, <2>11 DEF Reaches
  <2>13. GivesPlaces(d, s2, f, T \cup {u}, b)
    BY <2>6, <2>8, <2>12, EnsuredGives
  <2>14. PICK S : S = T \cup {u}
    OBVIOUS
  <2>15. GivesPlaces(d, s2, f, S, b) /\ Reaches(o, S) /\ o \notin S /\ Way(o) = S \cup {o}
    BY <2>4, <2>5, <2>11, <2>13, <2>14 DEF Reaches, Way
  <2>16. GivesBlock(d, t, f, o, S \cup {o}, b)
    BY <1>0, <2>9, <2>15, EndedGives
  <2> QED BY <2>15, <2>16
<1> QED BY <1>3, <1>4, <1>5, Bounds

\* Only sizes and counts of inodes change.
LEMMA MarkedIs ==
  ASSUME NEW d, Whole(d), NEW e, NEW ino \in [Files -> Inode], e = [d EXCEPT !.ino = ino],
         \A g \in Files : ino[g].i_block = d.ino[g].i_block
  PROVE  Whole(e) /\ SamePlaces(d, e) /\ SameSpace(d, e) /\ e.block = d.block
<1> USE DEF Whole
<1>1. e.ino = ino /\ SameSpace(d, e) /\ e.block = d.block
  BY DEF Disk, SameSpace
<1>2. SamePlaces(d, e)
  BY <1>1, PlacesSame DEF SamePointers
<1>3. Tree(e)
  BY <1>1, <1>2, TreeSame DEF SameSpace
<1>4. Counted(e)
  BY <1>1 DEF Counted, SameSpace, FreeIn
<1>5. Disk(e)
  BY <1>1 DEF Disk, SameSpace
<1> QED BY <1>1, <1>2, <1>3, <1>4, <1>5

\* How many blocks, direct and indirect, n blocks of content take.
LEMMA CountIs ==
  ASSUME NEW n \in Nat, n <= Most
  PROVE  /\ n <= NDIR => get_block_count(n) = n
         /\ NDIR < n /\ n <= NDIR + P => get_block_count(n) = n + 1
         /\ NDIR + P < n => get_block_count(n) = n + 3
<1>1. PICK s \in Nat : s = P * P /\ P <= s
  BY Square
<1>2. UpToSind = NDIR + P /\ UpToDind = NDIR + P + s
  BY <1>1 DEF UpToSind, UpToDind
<1> DEFINE Count1 == n <= NDIR
           Count2 == NDIR < n /\ n <= UpToSind
           Count3 == UpToSind < n /\ n <= UpToDind
<1>3. CASE n <= NDIR
  <2>1. Count1 /\ ~ Count2 /\ ~ Count3
    BY <1>1, <1>2, <1>3, Bounds
  <2>2. get_block_count(n) = n
    BY <2>1, Zenon DEF get_block_count
  <2> QED BY <1>3, <2>2, Bounds
<1>4. CASE NDIR < n /\ n <= NDIR + P
  <2>1. ~ Count1 /\ Count2 /\ ~ Count3
    BY <1>1, <1>2, <1>4, Bounds
  <2>2. get_block_count(n) = n + 1
    BY <2>1, Zenon DEF get_block_count
  <2> QED BY <1>4, <2>2, Bounds
<1>5. CASE NDIR + P < n
  <2>1. ~ Count1 /\ ~ Count2 /\ Count3
    BY <1>1, <1>2, <1>5, Bounds DEF Most
  <2>2. get_block_count(n) = n + 1 + 1 + CeilDiv(n - UpToSind, P)
    BY <2>1, Zenon DEF get_block_count
  <2>3. PICK r \in 0 .. P - 1 : n - UpToSind = r + 1
    <3>1. n - UpToSind - 1 \in 0 .. P - 1
      BY <1>2, <1>5, Bounds DEF Most
    <3>2. n - UpToSind = (n - UpToSind - 1) + 1
      BY <1>2, Bounds
    <3> QED BY <3>1, <3>2
  <2>4. CeilDiv(n - UpToSind, P) = (r + P) \div P
    <3>1. r + 1 + P - 1 = r + P
      BY Bounds
    <3> QED BY <2>3, <3>1 DEF CeilDiv
  <2>5. (1 * P + r) \div P = 1 /\ 1 * P + r = r + P
    BY DivUnique, Bounds
  <2>6. CeilDiv(n - UpToSind, P) = 1
    BY <2>4, <2>5
  <2> QED BY <1>5, <2>2, <2>6, Bounds
<1> QED BY <1>3, <1>4, <1>5, Bounds

LEMMA CountNat ==
  ASSUME NEW n \in Nat, n <= Most
  PROVE  get_block_count(n) \in Nat /\ n <= get_block_count(n) /\ get_block_count(n) <= Most + 3
<1>1. PICK m : m = get_block_count(n)
  OBVIOUS
<1>2. m = n \/ m = n + 1 \/ m = n + 3
  BY <1>1, CountIs, Bounds
<1> QED BY <1>1, <1>2, Bounds

LEMMA CountLess ==
  ASSUME NEW m \in Nat, NEW n \in Nat, m < n, n <= Most
  PROVE  get_block_count(m) < get_block_count(n)
<1>1. PICK x, y : x = get_block_count(m) /\ y = get_block_count(n)
  OBVIOUS
<1>2. /\ m <= NDIR => x = m
      /\ NDIR < m /\ m <= NDIR + P => x = m + 1
      /\ NDIR + P < m => x = m + 3
  BY <1>1, CountIs, Bounds
<1>3. /\ n <= NDIR => y = n
      /\ NDIR < n /\ n <= NDIR + P => y = n + 1
      /\ NDIR + P < n => y = n + 3
  BY <1>1, CountIs, Bounds
<1>4. x < y
  BY <1>2, <1>3, Bounds
<1> QED BY <1>1, <1>4

\* get_content_blocks is the inverse.
LEMMA ContentIs ==
  ASSUME NEW n \in Nat, n <= Most
  PROVE  get_content_blocks(get_block_count(n)) = n
<1>1. PICK s \in Nat : s = P * P /\ P <= s
  BY Square
<1>2. UpToSind = NDIR + P /\ UpToDind = NDIR + P + s
  BY <1>1 DEF UpToSind, UpToDind
<1>3. PICK m : m = get_block_count(n)
  OBVIOUS
<1> DEFINE Content1 == m <= NDIR
           Content2 == NDIR < m /\ m <= UpToSind + 1
           Content3 == UpToSind + 1 < m /\ m <= UpToDind + 1 + 1 + P
<1>4. CASE n <= NDIR
  <2>1. m = n
    BY <1>3, <1>4, CountIs
  <2>2. Content1 /\ ~ Content2 /\ ~ Content3
    BY <1>1, <1>2, <1>4, <2>1, Bounds
  <2>3. get_content_blocks(m) = m
    BY <2>2, Zenon DEF get_content_blocks
  <2> QED BY <1>3, <2>1, <2>3
<1>5. CASE NDIR < n /\ n <= NDIR + P
  <2>1. m = n + 1
    BY <1>3, <1>5, CountIs
  <2>2. ~ Content1 /\ Content2 /\ ~ Content3
    BY <1>1, <1>2, <1>5, <2>1, Bounds
  <2>3. get_content_blocks(m) = m - 1
    BY <2>2, Zenon DEF get_content_blocks
  <2>4. m - 1 = n
    BY <2>1
  <2> QED BY <1>3, <2>3, <2>4
<1>6. CASE NDIR + P < n
  <2>1. m = n + 3
    BY <1>3, <1>6, CountIs
  <2>2. ~ Content1 /\ ~ Content2 /\ Content3
    BY <1>1, <1>2, <1>6, <2>1, Bounds DEF Most
  <2>3. PICK a : a = m - NDIR - P - 1 - 1 - 1
    OBVIOUS
  <2>4. get_content_blocks(m) = m - (1 + 1 + 1 + a \div (P + 1))
    BY <2>2, <2>3, Zenon DEF get_content_blocks
  <2>5. a \in Nat /\ a < P + 1
    BY <1>6, <2>1, <2>3, Bounds DEF Most
  <2>6. a \div (P + 1) = 0
    BY <2>5, SmallDiv, Bounds
  <2>7. m - (1 + 1 + 1 + 0) = n
    BY <2>1
  <2> QED BY <1>3, <2>4, <2>6, <2>7
<1> QED BY <1>4, <1>5, <1>6, Bounds

Bigger(a, b) == IF a < b THEN b ELSE a

\* What alloc_inode_block gives.
AllocGives(d, r, f, n) ==
  /\ Whole(r.d) /\ (d.spoilt => r.d.spoilt) /\ (~ r.ok => r.d.spoilt)
  /\ \A g \in Files :
       /\ r.d.ino[g].i_size = d.ino[g].i_size
       /\ r.d.ino[g].i_blocks = IF g = f /\ r.ok
                                THEN Bigger(d.ino[f].i_blocks, get_block_count(n + 1))
                                ELSE d.ino[g].i_blocks
  /\ r.ok /\ ~ Has(d, f, RealPath(n)) =>
       /\ Grows(d, r.d, f, Way(RealPath(n))) /\ Lost(r.d) = Lost(d) /\ r.d.spoilt = d.spoilt
       /\ r.d.block[Lookup(r.d, f, RealPath(n))] = ZeroBlock

LEMMA AllocInodeIs ==
  ASSUME NEW d, Whole(d), NEW f \in Files, NEW n \in Nat, n < Most,
         NEW r, r = alloc_inode_block(d, f, n)
  PROVE  AllocGives(d, r, f, n)
<1>1. PICK new : new = alloc_block(d)
  OBVIOUS
<1>2. PICK set : set = set_real_block(new.d, f, n, new.b)
  OBVIOUS
<1>3. PICK count \in Nat : count = get_block_count(n + 1)
  BY CountNat, Bounds
<1>4. r = IF new.b = 0 THEN [d |-> new.d, ok |-> FALSE]
          ELSE IF ~ set.ok THEN set
          ELSE [d |-> [set.d EXCEPT !.ino[f].i_blocks = IF @ < count THEN count ELSE @],
                ok |-> TRUE]
  BY <1>1, <1>2, <1>3 DEF alloc_inode_block
<1>5. CASE new.b = 0
  <2>1. r.d = new.d /\ r.ok = FALSE
    BY <1>4, <1>5
  <2>2. Failed(d, new.d)
    BY <1>1, <1>5, AllocIs DEF Took, Whole
  <2>3. Whole(new.d) /\ SameNodes(d, new.d) /\ new.d.spoilt
    BY <2>2, FailedIs
  <2> QED BY <2>1, <2>3 DEF AllocGives, SameNodes
<1>6. CASE new.b # 0
  <2>1. PICK b, c : b = new.b /\ c = new.d
    OBVIOUS
  <2>2. Took(d, c, b) /\ b # 0
    BY <1>1, <1>6, <2>1, AllocIs DEF Whole
  <2>3. Whole(c) /\ SameNodes(d, c) /\ SamePlaces(d, c) /\ Loose(c, b)
    BY <2>2, TookIs
  <2>4. Grows(d, c, f, {}) /\ Lost(c) = Lost(d) \cup {b} /\ b \notin d.bitmap
    BY <2>2, TookGrows
  <2>5. PICK o \in Paths : o = RealPath(n)
    BY RealLeaf
  <2>6. GivesBlock(c, set, f, o, Way(o), b)
    BY <1>2, <2>1, <2>3, <2>5, SetGives
  <2>7. c.spoilt = d.spoilt
    BY <2>2 DEF Took
  <2>8. CASE ~ set.ok
    <3>1. r = set
      BY <1>4, <1>6, <2>8
    <3> QED BY <2>3, <2>6, <2>7, <2>8, <3>1 DEF GivesBlock, AllocGives, SameNodes
  <2>9. CASE set.ok
    <3>1. PICK e : e = set.d
      OBVIOUS
    <3>2. Whole(e) /\ SameNodes(d, e) /\ (d.spoilt => e.spoilt)
      BY <2>3, <2>6, <2>7, <3>1 DEF GivesBlock, SameNodes
    <3>3. e.ino \in [Files -> Inode]
      BY <3>2 DEF Whole, Disk
    <3>4. PICK m : m = Bigger(e.ino[f].i_blocks, count)
      OBVIOUS
    <3>5. m \in Nat
      BY <3>3, <3>4 DEF Bigger, Inode
    <3>6. PICK node : node = [e.ino[f] EXCEPT !.i_blocks = m]
      OBVIOUS
    <3>7. node \in Inode /\ node.i_size = e.ino[f].i_size /\ node.i_blocks = m
          /\ node.i_block = e.ino[f].i_block
      BY <3>3, <3>5, <3>6 DEF Inode
    <3>8. PICK ino : ino = [e.ino EXCEPT ![f] = node]
      OBVIOUS
    <3>9. ino \in [Files -> Inode] /\ ino[f] = node /\ \A g \in Files \ {f} : ino[g] = e.ino[g]
      BY <3>3, <3>7, <3>8
    <3>10. PICK h : h = [e EXCEPT !.ino = ino]
      OBVIOUS
    <3>11. r.d = h /\ r.ok = TRUE
      <4>1. r = [d |-> [e EXCEPT !.ino[f].i_blocks = IF @ < count THEN count ELSE @], ok |-> TRUE]
        BY <1>4, <1>6, <2>9, <3>1
      <4>2. [e EXCEPT !.ino[f].i_blocks = IF @ < count THEN count ELSE @] = h
        BY <3>4, <3>6, <3>8, <3>10 DEF Bigger
      <4> QED BY <4>1, <4>2
    <3>12. \A g \in Files : ino[g].i_block = e.ino[g].i_block
      BY <3>7, <3>9
    <3>13. Whole(h) /\ SamePlaces(e, h) /\ SameSpace(e, h) /\ h.block = e.block
      BY <3>2, <3>9, <3>10, <3>12, MarkedIs
    <3>14. h.ino = ino
      BY <3>2, <3>10 DEF Whole, Disk
    <3>15. \A g \in Files :
             /\ h.ino[g].i_size = d.ino[g].i_size
             /\ h.ino[g].i_blocks = IF g = f THEN Bigger(d.ino[f].i_blocks, get_block_count(n + 1))
                                    ELSE d.ino[g].i_blocks
      BY <1>3, <3>2, <3>4, <3>7, <3>9, <3>14 DEF SameNodes
    <3>16. ASSUME ~ Has(d, f, o)
           PROVE  /\ Grows(d, h, f, Way(o)) /\ Lost(h) = Lost(d) /\ h.spoilt = d.spoilt
                  /\ h.block[Lookup(h, f, o)] = ZeroBlock
      <4>1. ~ Has(c, f, o)
        BY <2>3, <3>16 DEF SamePlaces, Has
      <4>2. /\ Grows(c, e, f, Way(o)) /\ Lost(e) = Lost(c) \ {b} /\ e.spoilt = c.spoilt
            /\ Lookup(e, f, o) = b /\ e.block[b] = ZeroBlock
        BY <2>6, <2>9, <3>1, <4>1 DEF GivesBlock
      <4>3. Grows(e, h, f, {})
        BY <3>13 DEF Grows, SamePlaces, SameSpace, Has
      <4>4. Grows(d, e, f, {} \cup Way(o))
        BY <2>4, <4>2, GrowsTwice
      <4>5. Grows(d, h, f, {} \cup Way(o) \cup {})
        BY <4>3, <4>4, GrowsTwice
      <4>6. {} \cup Way(o) \cup {} = Way(o)
        OBVIOUS
      <4>7. Lost(h) = Lost(e)
        BY <3>13 DEF Lost, SamePlaces, SameSpace
      <4>8. b \notin Lost(d)
        BY <2>4 DEF Lost
      <4>9. Lost(h) = Lost(d)
        BY <2>4, <4>2, <4>7, <4>8
      <4>10. h.block[Lookup(h, f, o)] = ZeroBlock
        BY <3>13, <4>2 DEF SamePlaces
      <4>11. h.spoilt = d.spoilt
        BY <2>7, <3>13, <4>2 DEF SameSpace
      <4> QED BY <4>5, <4>6, <4>9, <4>10, <4>11
    <3>17. d.spoilt => h.spoilt
      BY <3>2, <3>13 DEF SameSpace
    <3> QED BY <2>5, <3>11, <3>13, <3>15, <3>16, <3>17 DEF AllocGives
  <2> QED BY <2>8, <2>9
<1> QED BY <1>5, <1>6

-----------------------------------------------------------------------------
(* The places of a file with n blocks.                                     *)

Slots(m) == {FreePath(k) : k \in 0 .. m - 1}

\* The number of a place.
Nr(o) == IF Len(o) = 1 THEN (IF o[1] <= NDIR THEN o[1] ELSE NDIR + P + 1)
         ELSE IF Len(o) = 2 THEN (IF o[1] = SIND THEN NDIR + 1 + o[2] ELSE NDIR + P + 2 + o[2])
         ELSE NDIR + P + 3 + o[3]

LEMMA NrIs ==
  ASSUME NEW k \in Nat, k < Most + 3
  PROVE  Nr(FreePath(k)) = k
<1> PICK o : o = FreePath(k)
  OBVIOUS
<1>1. CASE k < NDIR
  <2>1. o = <<k>>
    BY <1>1, FreeAt
  <2>2. Len(o) = 1 /\ o[1] = k
    BY <2>1
  <2> QED BY <1>1, <2>2, Bounds DEF Nr
<1>2. CASE k = NDIR
  <2>1. o = <<SIND>>
    BY <1>2, FreeAt
  <2>2. Len(o) = 1 /\ o[1] = NDIR
    BY <2>1, Bounds
  <2> QED BY <1>2, <2>2, Bounds DEF Nr
<1>3. CASE NDIR < k /\ k <= NDIR + P
  <2>1. o = <<SIND, k - NDIR - 1>>
    BY <1>3, FreeAt
  <2>2. Len(o) = 2 /\ o[1] = SIND /\ o[2] = k - NDIR - 1
    BY <2>1
  <2> QED BY <1>3, <2>2, Bounds DEF Nr
<1>4. CASE k = NDIR + P + 1
  <2>1. o = <<DIND>>
    BY <1>4, FreeAt
  <2>2. Len(o) = 1 /\ o[1] = NDIR + 1
    BY <2>1, Bounds
  <2> QED BY <1>4, <2>2, Bounds DEF Nr
<1>5. CASE k = NDIR + P + 2
  <2>1. o = <<DIND, 0>>
    BY <1>5, FreeAt
  <2>2. Len(o) = 2 /\ o[1] # SIND /\ o[2] = 0
    BY <2>1, Bounds
  <2> QED BY <1>5, <2>2, Bounds DEF Nr
<1>6. CASE NDIR + P + 3 <= k
  <2>1. o = <<DIND, 0, k - NDIR - P - 3>>
    BY <1>6, FreeAt
  <2>2. Len(o) = 3 /\ o[3] = k - NDIR - P - 3
    BY <2>1
  <2> QED BY <1>6, <2>2, Bounds DEF Nr
<1> QED BY <1>1, <1>2, <1>3, <1>4, <1>5, <1>6, Bounds

LEMMA SlotsDiffer ==
  ASSUME NEW j \in Nat, NEW k \in Nat, j < Most + 3, k < Most + 3, FreePath(j) = FreePath(k)
  PROVE  j = k
<1>1. Nr(FreePath(j)) = j /\ Nr(FreePath(k)) = k
  BY NrIs
<1> QED BY <1>1

\* A block's indirect block comes before it.
LEMMA UpBefore ==
  ASSUME NEW k \in Nat, k < Most + 3, ~ Top(FreePath(k))
  PROVE  \E j \in 0 .. k - 1 : Up(FreePath(k)) = FreePath(j)
<1>1. CASE k < NDIR \/ k = NDIR \/ k = NDIR + P + 1
  <2>1. \E i : FreePath(k) = <<i>>
    BY <1>1, FreeAt
  <2> QED BY <2>1, OnePath DEF Top
<1>2. CASE NDIR < k /\ k <= NDIR + P
  <2>1. FreePath(k) = <<SIND, k - NDIR - 1>>
    BY <1>2, FreeAt
  <2>2. Up(FreePath(k)) = <<SIND>>
    BY <2>1, TwoPath
  <2>3. FreePath(NDIR) = <<SIND>>
    BY FreeAt, Bounds DEF Most
  <2> QED BY <1>2, <2>2, <2>3, Bounds
<1>3. CASE k = NDIR + P + 2
  <2>1. FreePath(k) = <<DIND, 0>>
    BY <1>3, FreeAt
  <2>2. Up(FreePath(k)) = <<DIND>>
    BY <2>1, TwoPath
  <2>3. PICK j \in 0 .. k - 1 : j = NDIR + P + 1
    BY <1>3, Bounds
  <2>4. FreePath(j) = <<DIND>>
    BY <2>3, FreeAt, Bounds DEF Most
  <2> QED BY <2>2, <2>4
<1>4. CASE NDIR + P + 3 <= k
  <2>1. FreePath(k) = <<DIND, 0, k - NDIR - P - 3>>
    BY <1>4, FreeAt
  <2>2. Up(FreePath(k)) = <<DIND, 0>>
    BY <2>1, ThreePath
  <2>3. PICK j \in 0 .. k - 1 : j = NDIR + P + 2
    BY <1>4, Bounds
  <2>4. FreePath(j) = <<DIND, 0>>
    BY <2>3, FreeAt, Bounds DEF Most
  <2> QED BY <2>2, <2>4
<1> QED BY <1>1, <1>2, <1>3, <1>4, Bounds

LEMMA UnderLater ==
  ASSUME NEW j \in Nat, NEW k \in Nat, j < Most + 3, k < Most + 3,
         Under(FreePath(j), FreePath(k))
  PROVE  k < j
<1>1. PICK i \in 0 .. j - 1 : Up(FreePath(j)) = FreePath(i)
  BY UpBefore DEF Under
<1>2. i \in Nat /\ i < Most + 3
  BY Bounds
<1>3. CASE FreePath(i) = FreePath(k)
  BY <1>2, <1>3, SlotsDiffer
<1>4. CASE FreePath(i) # FreePath(k)
  <2>1. ~ Top(FreePath(i)) /\ Up(FreePath(i)) = FreePath(k)
    BY <1>1, <1>4 DEF Under
  <2>2. PICK h \in 0 .. i - 1 : Up(FreePath(i)) = FreePath(h)
    BY <1>2, <2>1, UpBefore
  <2>3. h = k
    <3>1. FreePath(h) = FreePath(k)
      BY <2>1, <2>2
    <3>2. h \in Nat /\ h < Most + 3
      BY <1>2, <2>2, Bounds
    <3> QED BY <3>1, <3>2, SlotsDiffer
  <2> QED BY <2>2, <2>3
<1> QED BY <1>3, <1>4

LEMMA WayIs ==
  ASSUME NEW i, NEW j, NEW l
  PROVE  /\ Way(<<i>>) = {<<i>>}
         /\ Way(<<i, j>>) = {<<i, j>>, <<i>>}
         /\ Way(<<i, j, l>>) = {<<i, j, l>>, <<i, j>>, <<i>>}
<1>1. PICK x, y, z : x = <<i>> /\ y = <<i, j>> /\ z = <<i, j, l>>
  OBVIOUS
<1>2. Top(x) /\ ~ Top(y) /\ ~ Top(z)
  BY <1>1, OnePath, TwoPath, ThreePath DEF Top
<1>3. Up(y) = x /\ Up(z) = y
  BY <1>1, TwoPath, ThreePath
<1>4. Way(x) = {x} /\ Way(y) = {y, x} /\ Way(z) = {z, y, x}
  BY <1>2, <1>3 DEF Way
<1> QED BY <1>1, <1>4

LEMMA SlotsMore ==
  ASSUME NEW m \in Nat
  PROVE  Slots(m + 1) = Slots(m) \cup {FreePath(m)}
<1>1. \A k : k \in 0 .. (m + 1) - 1 <=> k \in 0 .. m - 1 \/ k = m
  OBVIOUS
<1> QED BY <1>1 DEF Slots

LEMMA SlotsGrow ==
  ASSUME NEW n \in Nat, n < Most
  PROVE  Slots(get_block_count(n + 1)) = Slots(get_block_count(n)) \cup Way(RealPath(n))
<1>0. n + 1 \in Nat /\ n + 1 <= Most /\ n <= Most
  BY Bounds
<1>1. CASE n < NDIR
  <2>1. get_block_count(n) = n /\ get_block_count(n + 1) = n + 1
    BY <1>0, <1>1, CountIs, Bounds
  <2>2. FreePath(n) = <<n>> /\ RealPath(n) = <<n>>
    BY <1>1, FreeAt, RealIs, Bounds
  <2>3. Way(RealPath(n)) = {FreePath(n)}
    BY <2>2, WayIs
  <2> QED BY <2>1, <2>3, SlotsMore
<1>2. CASE n = NDIR
  <2>1. get_block_count(n) = n /\ get_block_count(n + 1) = n + 2
    BY <1>0, <1>2, CountIs, Bounds
  <2>2. FreePath(n) = <<SIND>> /\ RealPath(n) = <<SIND, 0>>
    BY <1>2, FreeAt, RealIs, Bounds
  <2>3. FreePath(n + 1) = <<SIND, 0>>
    <3>1. NDIR < n + 1 /\ n + 1 <= NDIR + P /\ n + 1 < Most + 3 /\ (n + 1) - NDIR - 1 = 0
      BY <1>2, Bounds DEF Most
    <3>2. FreePath(n + 1) = <<SIND, (n + 1) - NDIR - 1>>
      BY <1>0, <3>1, FreeAt
    <3> QED BY <3>1, <3>2
  <2>4. Way(RealPath(n)) = {FreePath(n + 1), FreePath(n)}
    BY <2>2, <2>3, WayIs
  <2>5. Slots(n + 1) = Slots(n) \cup {FreePath(n)}
    BY SlotsMore
  <2>6. Slots((n + 1) + 1) = Slots(n + 1) \cup {FreePath(n + 1)}
    BY <1>0, SlotsMore
  <2>7. (n + 1) + 1 = n + 2
    OBVIOUS
  <2> QED BY <2>1, <2>4, <2>5, <2>6, <2>7
<1>3. CASE NDIR < n /\ n < NDIR + P
  <2>1. get_block_count(n) = n + 1 /\ get_block_count(n + 1) = (n + 1) + 1
    BY <1>0, <1>3, CountIs, Bounds
  <2>2. PICK x : x = n - NDIR
    OBVIOUS
  <2>3. RealPath(n) = <<SIND, x>>
    BY <1>3, <2>2, RealIs, Bounds
  <2>4. FreePath(n + 1) = <<SIND, x>>
    <3>1. NDIR < n + 1 /\ n + 1 <= NDIR + P /\ n + 1 < Most + 3 /\ (n + 1) - NDIR - 1 = x
      BY <1>3, <2>2, Bounds DEF Most
    <3>2. FreePath(n + 1) = <<SIND, (n + 1) - NDIR - 1>>
      BY <1>0, <3>1, FreeAt
    <3> QED BY <3>1, <3>2
  <2>5. Way(RealPath(n)) = {FreePath(n + 1), <<SIND>>}
    BY <2>3, <2>4, WayIs
  <2>6. <<SIND>> \in Slots(n + 1)
    <3>1. FreePath(NDIR) = <<SIND>>
      BY FreeAt, Bounds DEF Most
    <3>2. NDIR \in 0 .. (n + 1) - 1
      BY <1>3, Bounds
    <3> QED BY <3>1, <3>2 DEF Slots
  <2>7. Slots((n + 1) + 1) = Slots(n + 1) \cup {FreePath(n + 1)}
    BY <1>0, SlotsMore
  <2> QED BY <2>1, <2>5, <2>6, <2>7
<1>4. CASE n = NDIR + P
  <2>1. get_block_count(n) = n + 1 /\ get_block_count(n + 1) = n + 4
    BY <1>0, <1>4, CountIs, Bounds
  <2>2. RealPath(n) = <<DIND, 0, 0>>
    BY <1>4, RealIs, Bounds
  <2>3. FreePath(n + 1) = <<DIND>>
    BY <1>0, <1>4, FreeAt, Bounds DEF Most
  <2>4. FreePath(n + 2) = <<DIND, 0>>
    BY <1>0, <1>4, FreeAt, Bounds DEF Most
  <2>5. FreePath(n + 3) = <<DIND, 0, 0>>
    <3>1. PICK k \in Nat : k = n + 3
      OBVIOUS
    <3>2. NDIR + P + 3 <= k /\ k < Most + 3 /\ k - NDIR - P - 3 = 0
      BY <1>4, <3>1, Bounds DEF Most
    <3>3. FreePath(k) = <<DIND, 0, k - NDIR - P - 3>>
      BY <3>2, FreeAt
    <3> QED BY <3>1, <3>2, <3>3
  <2>6. Way(RealPath(n)) = {FreePath(n + 3), FreePath(n + 2), FreePath(n + 1)}
    BY <2>2, <2>3, <2>4, <2>5, WayIs
  <2>7. PICK x, y, z : x = n + 1 /\ y = n + 2 /\ z = n + 3
    OBVIOUS
  <2>8. Slots(x + 1) = Slots(x) \cup {FreePath(x)} /\ Slots(y + 1) = Slots(y) \cup {FreePath(y)}
        /\ Slots(z + 1) = Slots(z) \cup {FreePath(z)}
    BY <2>7, SlotsMore
  <2>9. x + 1 = y /\ y + 1 = z /\ z + 1 = n + 4
    BY <2>7
  <2> QED BY <2>1, <2>6, <2>7, <2>8, <2>9
<1>5. CASE NDIR + P < n
  <2>1. get_block_count(n) = n + 3 /\ get_block_count(n + 1) = (n + 3) + 1
    BY <1>0, <1>5, CountIs, Bounds
  <2>2. PICK x : x = n - NDIR - P
    OBVIOUS
  <2>3. RealPath(n) = <<DIND, 0, x>>
    BY <1>5, <2>2, RealIs, Bounds
  <2>4. FreePath(n + 3) = <<DIND, 0, x>>
    <3>1. PICK k \in Nat : k = n + 3
      OBVIOUS
    <3>2. NDIR + P + 3 <= k /\ k < Most + 3 /\ k - NDIR - P - 3 = x
      BY <1>5, <2>2, <3>1, Bounds DEF Most
    <3>3. FreePath(k) = <<DIND, 0, k - NDIR - P - 3>>
      BY <3>2, FreeAt
    <3> QED BY <3>1, <3>2, <3>3
  <2>5. Way(RealPath(n)) = {FreePath(n + 3), <<DIND, 0>>, <<DIND>>}
    <3>1. Way(<<DIND, 0, x>>) = {<<DIND, 0, x>>, <<DIND, 0>>, <<DIND>>}
      BY WayIs
    <3> QED BY <2>3, <2>4, <3>1, Zenon
  <2>6. <<DIND>> \in Slots(n + 3) /\ <<DIND, 0>> \in Slots(n + 3)
    <3>0. NDIR + P + 1 \in Nat /\ NDIR + P + 2 \in Nat
      BY Bounds
    <3>1. PICK x1 \in Nat, x2 \in Nat : x1 = NDIR + P + 1 /\ x2 = NDIR + P + 2
      BY <3>0, Zenon
    <3>2. x1 \in 0 .. (n + 3) - 1 /\ x2 \in 0 .. (n + 3) - 1 /\ x1 < Most + 3 /\ x2 < Most + 3
      BY <1>5, <3>1, Bounds DEF Most
    <3>3. FreePath(x1) = <<DIND>> /\ FreePath(x2) = <<DIND, 0>>
      BY <3>1, <3>2, FreeAt
    <3> QED BY <3>2, <3>3 DEF Slots
  <2>7. Slots((n + 3) + 1) = Slots(n + 3) \cup {FreePath(n + 3)}
    BY SlotsMore
  <2> QED BY <2>1, <2>5, <2>6, <2>7
<1> QED BY <1>1, <1>2, <1>3, <1>4, <1>5, Bounds

\* A block of content is the last of those counted when it is.
LEMMA RealIsFree ==
  ASSUME NEW n \in Nat, n < Most
  PROVE  RealPath(n) = FreePath(get_block_count(n + 1) - 1)
<1>0. n + 1 \in Nat /\ n + 1 <= Most
  BY Bounds
<1>1. CASE n < NDIR
  <2>1. get_block_count(n + 1) = n + 1
    BY <1>0, <1>1, CountIs, Bounds
  <2>2. FreePath(n) = <<n>> /\ RealPath(n) = <<n>>
    BY <1>1, FreeAt, RealIs, Bounds
  <2>3. (n + 1) - 1 = n
    OBVIOUS
  <2> QED BY <2>1, <2>2, <2>3
<1>2. CASE NDIR <= n /\ n < NDIR + P
  <2>1. get_block_count(n + 1) = n + 2
    BY <1>0, <1>2, CountIs, Bounds
  <2>2. PICK x : x = n - NDIR
    OBVIOUS
  <2>3. RealPath(n) = <<SIND, x>>
    BY <1>2, <2>2, RealIs
  <2>4. NDIR < n + 1 /\ n + 1 <= NDIR + P /\ n + 1 < Most + 3 /\ (n + 1) - NDIR - 1 = x
    BY <1>2, <2>2, Bounds DEF Most
  <2>5. FreePath(n + 1) = <<SIND, (n + 1) - NDIR - 1>>
    BY <1>0, <2>4, FreeAt
  <2>6. (n + 2) - 1 = n + 1
    OBVIOUS
  <2> QED BY <2>1, <2>3, <2>4, <2>5, <2>6
<1>3. CASE NDIR + P <= n
  <2>1. get_block_count(n + 1) = n + 4
    BY <1>0, <1>3, CountIs, Bounds
  <2>2. PICK x : x = n - NDIR - P
    OBVIOUS
  <2>3. RealPath(n) = <<DIND, 0, x>>
    BY <1>3, <2>2, RealIs
  <2>4. PICK k \in Nat : k = n + 3
    OBVIOUS
  <2>5. NDIR + P + 3 <= k /\ k < Most + 3 /\ k - NDIR - P - 3 = x
    BY <1>3, <2>2, <2>4, Bounds DEF Most
  <2>6. FreePath(k) = <<DIND, 0, k - NDIR - P - 3>>
    BY <2>5, FreeAt
  <2>7. (n + 4) - 1 = k
    BY <2>4
  <2> QED BY <2>1, <2>3, <2>5, <2>6, <2>7
<1> QED BY <1>1, <1>2, <1>3, Bounds

\* The content of a file of n blocks is in its places, and nothing else is new.
LEMMA RealSlots ==
  ASSUME NEW m \in Nat, NEW n \in Nat, n <= Most, m < Most
  PROVE  m < n <=> RealPath(m) \in Slots(get_block_count(n))
<1>1. PICK x, y : x = get_block_count(m + 1) /\ y = get_block_count(n)
  OBVIOUS
<1>2. x \in Nat /\ y \in Nat /\ x > 0 /\ x <= Most + 3 /\ y <= Most + 3
  <2>1. m + 1 \in Nat /\ m + 1 <= Most
    BY Bounds
  <2> QED BY <1>1, <2>1, CountNat, Bounds
<1>3. RealPath(m) = FreePath(x - 1)
  BY <1>1, RealIsFree
<1>4. x <= y <=> m < n
  <2>1. CASE m + 1 < n
    BY <1>1, <1>2, <2>1, CountLess
  <2>2. CASE m + 1 = n
    BY <1>1, <1>2, <2>2
  <2>3. CASE n < m + 1
    <3>1. y < x
      BY <1>1, <2>3, CountLess, Bounds
    <3> QED BY <1>2, <2>3, <3>1
  <2> QED BY <2>1, <2>2, <2>3
<1>5. FreePath(x - 1) \in Slots(y) <=> x <= y
  <2>1. x <= y => x - 1 \in 0 .. y - 1
    BY <1>2
  <2>2. ASSUME NEW k \in 0 .. y - 1, FreePath(x - 1) = FreePath(k) PROVE x - 1 = k
    BY <1>2, <2>2, SlotsDiffer, Bounds
  <2> QED BY <1>2, <2>1, <2>2 DEF Slots
<1> QED BY <1>1, <1>3, <1>4, <1>5

-----------------------------------------------------------------------------
(* The invariant, but for sizes.                                           *)

\* i_blocks counts the blocks of some number of blocks of content.
Nodes(d) == \A f \in Files : \E c \in 0 .. Most : d.ino[f].i_blocks = get_block_count(c)

\* Every block has its place, and these are the first ones of each file.
Tidy(d) ==
  /\ Lost(d) = {}
  /\ \A f \in Files, o \in Paths : Has(d, f, o) <=> o \in Slots(d.ino[f].i_blocks)

Fine(d) == Whole(d) /\ Nodes(d) /\ (~ d.spoilt => Tidy(d))

LEMMA NodeIs ==
  ASSUME NEW d, Nodes(d), NEW f \in Files
  PROVE  /\ ContentBlocks(d, f) \in 0 .. Most
         /\ d.ino[f].i_blocks = get_block_count(ContentBlocks(d, f))
<1>1. PICK c \in 0 .. Most : d.ino[f].i_blocks = get_block_count(c)
  BY DEF Nodes
<1>2. c \in Nat /\ c <= Most
  BY <1>1, Bounds
<1>3. ContentBlocks(d, f) = c
  BY <1>1, <1>2, ContentIs DEF ContentBlocks
<1> QED BY <1>1, <1>3

\* A block that a file has.
LEMMA HasContent ==
  ASSUME NEW d, Fine(d), ~ d.spoilt, NEW f \in Files, NEW m \in Nat, m < Most
  PROVE  m < ContentBlocks(d, f) <=> Has(d, f, RealPath(m))
<1>1. PICK c : c = ContentBlocks(d, f)
  OBVIOUS
<1>2. c \in 0 .. Most /\ d.ino[f].i_blocks = get_block_count(c)
  BY <1>1, NodeIs DEF Fine
<1>3. c \in Nat /\ c <= Most
  BY <1>2, Bounds
<1>4. m < c <=> RealPath(m) \in Slots(get_block_count(c))
  BY <1>3, RealSlots
<1>5. RealPath(m) \in Paths
  BY RealLeaf
<1>6. Has(d, f, RealPath(m)) <=> RealPath(m) \in Slots(d.ino[f].i_blocks)
  BY <1>5 DEF Fine, Tidy
<1> QED BY <1>1, <1>2, <1>4, <1>6

\* Other files keep what they have; the words of every file are the same.
More(d, e, f) ==
  /\ d.spoilt => e.spoilt
  /\ \A g \in Files : e.ino[g].i_size = d.ino[g].i_size
  /\ \A g \in Files \ {f} : e.ino[g].i_blocks = d.ino[g].i_blocks
  /\ ~ e.spoilt => \A g \in Files, m \in Nat : read_block_inode(e, g, m) = read_block_inode(d, g, m)

LEMMA MoreSame == ASSUME NEW d, NEW f PROVE More(d, d, f)
BY DEF More

LEMMA MoreTwice ==
  ASSUME NEW d, NEW c, NEW e, NEW f, More(d, c, f), More(c, e, f)
  PROVE  More(d, e, f)
BY DEF More

LEMMA MoreContent ==
  ASSUME NEW d, NEW e, NEW f, More(d, e, f), NEW g \in Files \ {f}
  PROVE  ContentBlocks(e, g) = ContentBlocks(d, g)
BY DEF More, ContentBlocks

StepGives(d, r, f, n) ==
  /\ Fine(r.d) /\ More(d, r.d, f) /\ (~ r.ok => r.d.spoilt)
  /\ ContentBlocks(r.d, f) = IF r.ok THEN Bigger(ContentBlocks(d, f), n + 1)
                             ELSE ContentBlocks(d, f)

LEMMA CountBigger ==
  ASSUME NEW m \in Nat, NEW n \in Nat, m <= Most, n <= Most
  PROVE  Bigger(get_block_count(m), get_block_count(n)) = get_block_count(Bigger(m, n))
<1>1. PICK x, y : x = get_block_count(m) /\ y = get_block_count(n)
  OBVIOUS
<1>2. x \in Nat /\ y \in Nat
  BY <1>1, CountNat
<1>3. CASE m < n
  BY <1>1, <1>3, CountLess DEF Bigger
<1>4. CASE m = n
  BY <1>4 DEF Bigger
<1>5. CASE n < m
  <2>1. y < x
    BY <1>1, <1>5, CountLess
  <2> QED BY <1>1, <1>2, <1>5, <2>1 DEF Bigger
<1> QED BY <1>3, <1>4, <1>5

LEMMA AllocStep ==
  ASSUME NEW d, Fine(d), NEW f \in Files, NEW n \in Nat, n < Most,
         ~ d.spoilt => n = ContentBlocks(d, f),
         NEW r, r = alloc_inode_block(d, f, n)
  PROVE  StepGives(d, r, f, n)
<1>1. PICK e : e = r.d
  OBVIOUS
<1>2. AllocGives(d, r, f, n)
  BY AllocInodeIs DEF Fine
<1>3. Whole(e) /\ (d.spoilt => e.spoilt) /\ (~ r.ok => e.spoilt)
  BY <1>1, <1>2 DEF AllocGives
<1>4. PICK c : c = ContentBlocks(d, f)
  OBVIOUS
<1>5. c \in Nat /\ c <= Most /\ d.ino[f].i_blocks = get_block_count(c)
  BY <1>4, NodeIs, Bounds DEF Fine
<1>6. PICK m : m = IF r.ok THEN Bigger(c, n + 1) ELSE c
  OBVIOUS
<1>7. m \in Nat /\ m <= Most /\ n + 1 \in Nat /\ n + 1 <= Most
  BY <1>5, <1>6, Bounds DEF Bigger
<1>8. e.ino[f].i_blocks = get_block_count(m)
  <2>1. e.ino[f].i_blocks = IF r.ok THEN Bigger(get_block_count(c), get_block_count(n + 1))
                            ELSE get_block_count(c)
    BY <1>1, <1>2, <1>5 DEF AllocGives
  <2>2. Bigger(get_block_count(c), get_block_count(n + 1)) = get_block_count(Bigger(c, n + 1))
    BY <1>5, <1>7, CountBigger
  <2> QED BY <1>6, <2>1, <2>2
<1>9. ContentBlocks(e, f) = m
  BY <1>7, <1>8, ContentIs DEF ContentBlocks
<1>10. \A g \in Files : e.ino[g].i_size = d.ino[g].i_size
       /\ (g # f => e.ino[g].i_blocks = d.ino[g].i_blocks)
  BY <1>1, <1>2 DEF AllocGives
<1>11. Nodes(e)
  <2>1. ASSUME NEW g \in Files PROVE \E x \in 0 .. Most : e.ino[g].i_blocks = get_block_count(x)
    <3>1. CASE g = f
      BY <1>7, <1>8, <3>1
    <3>2. CASE g # f
      BY <1>10, <3>2 DEF Fine, Nodes
    <3> QED BY <3>1, <3>2
  <2> QED BY <2>1 DEF Nodes
<1>12. ASSUME ~ e.spoilt
       PROVE  /\ Tidy(e)
              /\ \A g \in Files, k \in Nat : read_block_inode(e, g, k) = read_block_inode(d, g, k)
  <2>1. r.ok /\ ~ d.spoilt /\ n = c
    BY <1>3, <1>4, <1>12
  <2>2. m = n + 1
    BY <1>5, <1>6, <2>1 DEF Bigger
  <2>3. PICK o \in Paths : o = RealPath(n) /\ Leaf(o)
    BY RealLeaf
  <2>4. ~ Has(d, f, o)
    BY <1>4, <1>5, <2>1, <2>3, HasContent
  <2>5. /\ Grows(d, e, f, Way(o)) /\ Lost(e) = Lost(d) /\ e.block[Lookup(e, f, o)] = ZeroBlock
    BY <1>1, <1>2, <2>1, <2>3, <2>4 DEF AllocGives
  <2>6. Lost(e) = {} /\ Tidy(d)
    BY <2>1, <2>5 DEF Fine, Tidy
  <2>7. ASSUME NEW g \in Files, NEW q \in Paths
        PROVE  Has(e, g, q) <=> q \in Slots(e.ino[g].i_blocks)
    <3>1. Has(e, g, q) <=> q \in Slots(d.ino[g].i_blocks) \/ (g = f /\ q \in Way(o))
      BY <2>5, <2>6 DEF Grows, Tidy
    <3>2. CASE g # f
      BY <1>10, <3>1, <3>2
    <3>3. CASE g = f
      <4>1. Slots(get_block_count(n + 1)) = Slots(get_block_count(n)) \cup Way(o)
        BY <2>3, SlotsGrow
      <4> QED BY <1>5, <1>8, <2>1, <2>2, <3>1, <3>3, <4>1
    <3> QED BY <3>2, <3>3
  <2>8. Tidy(e)
    BY <2>6, <2>7 DEF Tidy
  <2>9. ASSUME NEW g \in Files, NEW k \in Nat
        PROVE  read_block_inode(e, g, k) = read_block_inode(d, g, k)
    <3>1. PICK x, y : x = ContentBlocks(d, g) /\ y = ContentBlocks(e, g)
      OBVIOUS
    <3>2. x \in 0 .. Most /\ y \in 0 .. Most
      BY <1>11, <3>1, NodeIs DEF Fine
    <3>3. \/ y = x
          \/ g = f /\ x = n /\ y = n + 1
      <4>1. CASE g = f
        BY <1>4, <1>9, <2>1, <2>2, <3>1, <4>1
      <4>2. CASE g # f
        BY <1>10, <3>1, <4>2 DEF ContentBlocks
      <4> QED BY <4>1, <4>2
    <3>4. CASE k < x
      <4>1. ~ (k >= x) /\ ~ (k >= y) /\ k < Most
        BY <3>2, <3>3, <3>4, Bounds
      <4>2. PICK q \in Paths : q = RealPath(k) /\ Leaf(q)
        BY <4>1, RealLeaf
      <4>3. Has(d, g, q)
        BY <2>1, <3>1, <3>4, <4>1, <4>2, HasContent
      <4>4. Lookup(e, g, q) = Lookup(d, g, q) /\ e.block[Lookup(d, g, q)] = d.block[Lookup(d, g, q)]
        BY <2>5, <4>2, <4>3 DEF Grows
      <4>5. read_block_inode(e, g, k) = e.block[Lookup(e, g, q)]
        BY <3>1, <4>1, <4>2 DEF read_block_inode, get_real_block
      <4>6. read_block_inode(d, g, k) = d.block[Lookup(d, g, q)]
        BY <3>1, <4>1, <4>2 DEF read_block_inode, get_real_block
      <4> QED BY <4>4, <4>5, <4>6
    <3>5. CASE ~ (k < x)
      <4>1. k >= x
        BY <3>2, <3>5, Bounds
      <4>2. read_block_inode(d, g, k) = ZeroBlock
        BY <3>1, <4>1 DEF read_block_inode
      <4>3. CASE k >= y
        <5>1. read_block_inode(e, g, k) = ZeroBlock
          BY <3>1, <4>3 DEF read_block_inode
        <5> QED BY <4>2, <5>1
      <4>4. CASE ~ (k >= y)
        <5>1. g = f /\ k = n
          BY <3>2, <3>3, <4>1, <4>4, Bounds
        <5>2. read_block_inode(e, g, k) = e.block[Lookup(e, f, o)]
          BY <2>3, <3>1, <4>4, <5>1 DEF read_block_inode, get_real_block
        <5> QED BY <2>5, <4>2, <5>2
      <4> QED BY <4>3, <4>4
    <3> QED BY <3>4, <3>5
  <2> QED BY <2>8, <2>9
<1>13. Fine(e)
  BY <1>3, <1>11, <1>12 DEF Fine
<1>14. More(d, e, f)
  BY <1>3, <1>10, <1>12 DEF More
<1> QED BY <1>1, <1>3, <1>4, <1>6, <1>9, <1>13, <1>14 DEF StepGives

\* The blocks of a file are fewer than those of the disk.
Total == Groups * PerGroup

LEMMA TotalIs == Total \in Nat /\ Blocks = 0 .. Total - 1
BY Bounds DEF Total, Blocks

LEMMA FewBlocks ==
  ASSUME NEW d, Fine(d), ~ d.spoilt, NEW f \in Files
  PROVE  ContentBlocks(d, f) < Total
<1>1. PICK c : c = ContentBlocks(d, f)
  OBVIOUS
<1>2. c \in Nat /\ c <= Most /\ d.ino[f].i_blocks = get_block_count(c)
  BY <1>1, NodeIs, Bounds DEF Fine
<1>3. PICK m \in Nat : m = get_block_count(c) /\ c <= m /\ m <= Most + 3
  BY <1>2, CountNat
<1>4. ASSUME NEW k \in 1 .. m
      PROVE  FreePath(k - 1) \in Paths /\ Lookup(d, f, FreePath(k - 1)) \in 1 .. Total - 1
  <2>1. k - 1 \in Nat /\ k - 1 < Most + 3 /\ k - 1 \in 0 .. m - 1
    BY <1>3, Bounds
  <2>2. FreePath(k - 1) \in Paths
    BY <2>1, FreeInPaths
  <2>3. FreePath(k - 1) \in Slots(m)
    BY <2>1 DEF Slots
  <2>4. Has(d, f, FreePath(k - 1))
    BY <1>2, <1>3, <2>2, <2>3 DEF Fine, Tidy
  <2>5. Lookup(d, f, FreePath(k - 1)) \in Blocks /\ Lookup(d, f, FreePath(k - 1)) # 0
    BY <2>2, <2>4 DEF Has, Fine, Whole, Tree, Disk
  <2> QED BY <2>2, <2>5, TotalIs
<1>5. PICK h : h = [k \in 1 .. m |-> Lookup(d, f, FreePath(k - 1))]
  OBVIOUS
<1>6. h \in Injection(1 .. m, 1 .. Total - 1)
  <2>1. h \in [1 .. m -> 1 .. Total - 1]
    BY <1>4, <1>5
  <2>2. ASSUME NEW j \in 1 .. m, NEW k \in 1 .. m, h[j] = h[k]
        PROVE  j = k
    <3>1. PICK x, y : x = FreePath(j - 1) /\ y = FreePath(k - 1)
      OBVIOUS
    <3>2. Lookup(d, f, x) = Lookup(d, f, y) /\ Lookup(d, f, x) # 0 /\ x \in Paths /\ y \in Paths
      BY <1>4, <1>5, <2>2, <3>1
    <3>3. x = y
      BY <3>2 DEF Fine, Whole, Tree
    <3>4. j - 1 \in Nat /\ k - 1 \in Nat /\ j - 1 < Most + 3 /\ k - 1 < Most + 3
      BY <1>3, Bounds
    <3>5. j - 1 = k - 1
      BY <3>1, <3>3, <3>4, SlotsDiffer
    <3> QED BY <3>5
  <2>3. DOMAIN h = 1 .. m
    BY <1>5
  <2> QED BY <2>1, <2>2, <2>3 DEF Injection, IsInjective
<1>7. Cardinality(1 .. m) <= Cardinality(1 .. Total - 1)
  <2>1. IsFiniteSet(1 .. Total - 1)
    BY TotalIs, FS_Interval
  <2> QED BY <1>6, <2>1, FS_Injection
<1>8. Total > 0
  BY BlockFacts, TotalIs
<1>9. \A n \in Nat : Cardinality(1 .. n) = n
  <2>1. ASSUME NEW n \in Nat PROVE Cardinality(1 .. n) = n
    <3>1. Cardinality(1 .. n) = IF 1 > n THEN 0 ELSE n - 1 + 1
      BY FS_Interval
    <3> QED BY <3>1
  <2> QED BY <2>1
<1> QED BY <1>1, <1>2, <1>3, <1>7, <1>8, <1>9, TotalIs

-----------------------------------------------------------------------------
(* write_block_inode.                                                      *)

GrownNext(f, n, r) ==
  IF r.ok /\ ContentBlocks(r.d, f) <= n THEN alloc_inode_block(r.d, f, ContentBlocks(r.d, f))
  ELSE r
Grown(d, f, n, m, w) ==
  w = [k \in 0 .. m |-> IF k = 0 THEN [d |-> d, ok |-> TRUE] ELSE GrownNext(f, n, w[k - 1])]

LEMMA GrownExists ==
  ASSUME NEW d, NEW f, NEW n, NEW m \in Nat
  PROVE  \E w : Grown(d, f, n, m, w)
<1> DEFINE Good == {k \in Nat : \E w : Grown(d, f, n, k, w)}
<1>1. 0 \in Good
  <2>1. PICK w : w = [k \in 0 .. 0 |-> [d |-> d, ok |-> TRUE]]
    OBVIOUS
  <2>2. \A k \in 0 .. 0 : k = 0
    OBVIOUS
  <2>3. w = [k \in 0 .. 0 |-> IF k = 0 THEN [d |-> d, ok |-> TRUE] ELSE GrownNext(f, n, w[k - 1])]
    BY <2>1, <2>2
  <2> QED BY <2>3 DEF Grown
<1>2. ASSUME NEW l \in Nat, l \in Good PROVE l + 1 \in Good
  <2>1. PICK w : w = [k \in 0 .. l |-> IF k = 0 THEN [d |-> d, ok |-> TRUE]
                                       ELSE GrownNext(f, n, w[k - 1])]
    BY <1>2 DEF Grown
  <2>2. PICK v : v = [k \in 0 .. l + 1 |-> IF k <= l THEN w[k] ELSE GrownNext(f, n, w[l])]
    OBVIOUS
  <2>3. ASSUME NEW k \in 0 .. l + 1
        PROVE  v[k] = IF k = 0 THEN [d |-> d, ok |-> TRUE] ELSE GrownNext(f, n, v[k - 1])
    <3>1. CASE k = 0
      BY <2>1, <2>2, <3>1
    <3>2. CASE k # 0
      <4>1. k - 1 \in 0 .. l /\ k - 1 <= l /\ k - 1 \in 0 .. l + 1 /\ v[k - 1] = w[k - 1]
        BY <2>2, <3>2
      <4>2. CASE k <= l
        <5>1. k \in 0 .. l /\ v[k] = w[k]
          BY <2>2, <4>2
        <5> QED BY <2>1, <3>2, <4>1, <5>1
      <4>3. CASE ~ (k <= l)
        <5>1. k - 1 = l
          BY <4>1, <4>3
        <5> QED BY <2>2, <3>2, <4>1, <4>3, <5>1
      <4> QED BY <4>2, <4>3
    <3> QED BY <3>1, <3>2
  <2>4. v = [k \in 0 .. l + 1 |-> IF k = 0 THEN [d |-> d, ok |-> TRUE]
                                   ELSE GrownNext(f, n, v[k - 1])]
    <3>1. v = [k \in 0 .. l + 1 |-> v[k]]
      BY <2>2
    <3> QED BY <2>3, <3>1
  <2> QED BY <2>4 DEF Grown
<1> HIDE DEF Good
<1>3. Nat \subseteq Good
  BY <1>1, <1>2, Induction
<1> QED BY <1>3 DEF Good

\* While blocks are allocated.
Growing(d, f, n, k, r) ==
  /\ Fine(r.d) /\ More(d, r.d, f) /\ (~ r.ok => r.d.spoilt)
  /\ ContentBlocks(d, f) <= ContentBlocks(r.d, f)
  /\ ContentBlocks(r.d, f) <= Bigger(ContentBlocks(d, f), n + 1)
  /\ r.ok => n < ContentBlocks(r.d, f) \/ ContentBlocks(d, f) + k <= ContentBlocks(r.d, f)

LEMMA GrowingStep ==
  ASSUME NEW d, Fine(d), NEW f \in Files, NEW n \in Nat, n < Most, NEW k \in Nat,
         NEW r, Growing(d, f, n, k, r), NEW t, t = GrownNext(f, n, r)
  PROVE  Growing(d, f, n, k + 1, t)
<1>1. PICK a, b : a = ContentBlocks(d, f) /\ b = ContentBlocks(r.d, f)
  OBVIOUS
<1>2. a \in Nat /\ b \in Nat /\ a <= Most /\ b <= Most
  BY <1>1, NodeIs, Bounds DEF Fine, Growing
<1>3. CASE r.ok /\ b <= n
  <2>1. t = alloc_inode_block(r.d, f, b)
    BY <1>1, <1>3 DEF GrownNext
  <2>2. b < Most
    BY <1>2, <1>3, Bounds
  <2>3. StepGives(r.d, t, f, b)
    BY <1>1, <1>2, <2>1, <2>2, AllocStep DEF Growing
  <2>4. More(d, t.d, f)
    BY <2>3, MoreTwice DEF Growing, StepGives
  <2>5. ContentBlocks(t.d, f) = IF t.ok THEN b + 1 ELSE b
    BY <1>1, <1>2, <2>3 DEF StepGives, Bigger
  <2>6. a <= b /\ b <= Bigger(a, n + 1) /\ (n < b \/ a + k <= b)
    BY <1>1, <1>3 DEF Growing
  <2>7. b + 1 <= Bigger(a, n + 1) /\ a <= b + 1 /\ a + (k + 1) <= b + 1
    BY <1>2, <1>3, <2>6 DEF Bigger
  <2> QED BY <1>1, <1>2, <2>3, <2>4, <2>5, <2>6, <2>7 DEF Growing, StepGives
<1>4. CASE ~ (r.ok /\ b <= n)
  <2>1. t = r
    BY <1>1, <1>4 DEF GrownNext
  <2>2. r.ok => n < b
    BY <1>2, <1>4
  <2> QED BY <1>1, <2>1, <2>2 DEF Growing
<1> QED BY <1>3, <1>4

\* What the blocks a write needs add up to.
WithGives(d, r, f, n) ==
  /\ Fine(r.d) /\ More(d, r.d, f) /\ (~ r.ok => r.d.spoilt)
  /\ ~ r.d.spoilt => ContentBlocks(r.d, f) = Bigger(ContentBlocks(d, f), n + 1)

LEMMA WithIs ==
  ASSUME NEW d, Fine(d), NEW f \in Files, NEW n \in Nat, n < Most,
         NEW r, r = WithBlocks(d, f, n)
  PROVE  WithGives(d, r, f, n)
<1>1. PICK w : w = CHOOSE v : Grown(d, f, n, Total, v)
  OBVIOUS
<1>2. Grown(d, f, n, Total, w)
  BY <1>1, GrownExists, TotalIs
<1>3. r = w[Total]
  BY <1>1 DEF WithBlocks, Grown, GrownNext, Total
<1> DEFINE Good == {k \in Nat : k <= Total => Growing(d, f, n, k, w[k])}
<1>4. 0 \in Good
  <2>1. w[0] = [d |-> d, ok |-> TRUE]
    BY <1>2, TotalIs DEF Grown
  <2>2. w[0].d = d /\ w[0].ok = TRUE
    BY <2>1
  <2>3. PICK a \in Nat : a = ContentBlocks(d, f)
    BY NodeIs DEF Fine
  <2>4. a <= Bigger(a, n + 1) /\ a <= a /\ a + 0 <= a
    BY <2>3 DEF Bigger
  <2>5. Growing(d, f, n, 0, w[0])
    BY <2>2, <2>3, <2>4, MoreSame DEF Growing
  <2> QED BY <2>5
<1>5. ASSUME NEW k \in Nat, k \in Good PROVE k + 1 \in Good
  <2>1. ASSUME k + 1 <= Total PROVE Growing(d, f, n, k + 1, w[k + 1])
    <3>1. Growing(d, f, n, k, w[k])
      BY <1>5, <2>1, TotalIs
    <3>2. w[k + 1] = GrownNext(f, n, w[k])
      <4>1. k + 1 \in 0 .. Total /\ k + 1 # 0 /\ (k + 1) - 1 = k
        BY <2>1, TotalIs
      <4> QED BY <1>2, <4>1 DEF Grown
    <3> QED BY <3>1, <3>2, GrowingStep
  <2> QED BY <2>1
<1> HIDE DEF Good
<1>6. Nat \subseteq Good
  BY <1>4, <1>5, Induction
<1>7. Growing(d, f, n, Total, r)
  BY <1>3, <1>6, TotalIs DEF Good
<1>8. ASSUME ~ r.d.spoilt
      PROVE  ContentBlocks(r.d, f) = Bigger(ContentBlocks(d, f), n + 1)
  <2>1. PICK a, b : a = ContentBlocks(d, f) /\ b = ContentBlocks(r.d, f)
    OBVIOUS
  <2>2. a \in Nat /\ b \in Nat
    BY <1>7, <2>1, NodeIs, Bounds DEF Fine, Growing
  <2>3. b < Total
    BY <1>7, <1>8, <2>1, FewBlocks DEF Growing
  <2>4. a <= b /\ b <= Bigger(a, n + 1) /\ (n < b \/ a + Total <= b)
    BY <1>7, <1>8, <2>1 DEF Growing
  <2>5. b = Bigger(a, n + 1)
    BY <2>2, <2>3, <2>4, TotalIs DEF Bigger
  <2> QED BY <2>1, <2>5
<1> QED BY <1>7, <1>8 DEF Growing, WithGives

LEMMA RealsDiffer ==
  ASSUME NEW m \in Nat, NEW n \in Nat, m < Most, n < Most, RealPath(m) = RealPath(n)
  PROVE  m = n
<1>1. ASSUME NEW i \in Nat, NEW j \in Nat, i < j, j < Most PROVE RealPath(i) # RealPath(j)
  <2>1. RealPath(i) \in Slots(get_block_count(j))
    BY <1>1, RealSlots, Bounds
  <2>2. j < j <=> RealPath(j) \in Slots(get_block_count(j))
    BY <1>1, RealSlots, Bounds
  <2> QED BY <2>1, <2>2
<1>2. ~ (m < n) /\ ~ (n < m)
  BY <1>1
<1> QED BY <1>2

\* New words on a block that holds no block numbers.
Rewritten(d, e, b, words) ==
  /\ Whole(e) /\ SamePlaces(d, e) /\ SameSpace(d, e) /\ e.ino = d.ino
  /\ e.block[b] = words /\ \A x \in Blocks \ {b} : e.block[x] = d.block[x]

LEMMA LeafWritten ==
  ASSUME NEW d, Whole(d), NEW f \in Files, NEW o \in Paths, Leaf(o), NEW b, b = Lookup(d, f, o),
         b # 0, NEW words, DOMAIN words = 0 .. P - 1, NEW e, e = [d EXCEPT !.block[b] = words]
  PROVE  Rewritten(d, e, b, words)
<1> USE DEF Whole
<1>1. b \in Blocks
  BY DEF Tree, Disk
<1>2. SameSpace(d, e) /\ e.ino = d.ino /\ e.block = [d.block EXCEPT ![b] = words]
  BY DEF Disk, SameSpace
<1>3. DOMAIN e.block = Blocks /\ e.block[b] = words /\ \A x \in Blocks \ {b} : e.block[x] = d.block[x]
  BY <1>1, <1>2 DEF Disk
<1>4. SamePlaces(d, e)
  <2>1. ASSUME NEW g \in Files, NEW q \in Paths, ~ Top(q), Lookup(d, g, Up(q)) # 0
        PROVE  e.block[Lookup(d, g, Up(q))] = d.block[Lookup(d, g, Up(q))]
    <3>1. PICK u \in Paths : u = Up(q)
      BY <2>1, PathIs
    <3>2. u # o
      BY <2>1, <3>1 DEF Leaf
    <3>3. Lookup(d, g, u) \in Blocks \ {b}
      BY <2>1, <3>1, <3>2 DEF Tree, Disk
    <3> QED BY <1>3, <3>1, <3>3
  <2>2. \A g \in Files : e.ino[g].i_block = d.ino[g].i_block
    BY <1>2
  <2>3. \A g \in Files, q \in Paths :
          ~ Top(q) /\ Lookup(d, g, Up(q)) # 0 =>
            e.block[Lookup(d, g, Up(q))][Idx(q)] = d.block[Lookup(d, g, Up(q))][Idx(q)]
    BY <2>1
  <2>4. SamePointers(d, e)
    BY <2>2, <2>3 DEF SamePointers
  <2> QED BY <2>4, PlacesSame
<1>5. Tree(e)
  BY <1>2, <1>4, TreeSame DEF SameSpace
<1>6. Counted(e)
  BY <1>2 DEF Counted, SameSpace, FreeIn
<1>7. Disk(e)
  <2>1. e = [bitmap |-> e.bitmap, group |-> e.group, total |-> e.total, ino |-> e.ino,
             block |-> e.block, spoilt |-> e.spoilt]
    BY DEF Disk
  <2>2. /\ e.bitmap \in SUBSET Blocks /\ e.group \in [0 .. Groups - 1 -> Int]
        /\ e.total \in Int /\ e.spoilt \in BOOLEAN /\ Reserved \subseteq e.bitmap
        /\ e.ino \in [Files -> Inode]
    BY <1>2 DEF Disk, SameSpace
  <2>3. e \in [bitmap : SUBSET Blocks, group : [0 .. Groups - 1 -> Int], total : Int,
               ino : [Files -> Inode], block : {e.block}, spoilt : BOOLEAN]
    BY <2>1, <2>2
  <2>4. \A x \in Blocks : DOMAIN e.block[x] = 0 .. P - 1
    BY <1>3 DEF Disk
  <2> QED BY <1>3, <2>2, <2>3, <2>4 DEF Disk
<1> QED BY <1>2, <1>3, <1>4, <1>5, <1>6, <1>7 DEF Rewritten

BlockWritten(d, e, f, n, words) ==
  /\ Fine(e) /\ (d.spoilt => e.spoilt)
  /\ \A g \in Files : e.ino[g].i_size = d.ino[g].i_size
  /\ \A g \in Files \ {f} : ContentBlocks(e, g) = ContentBlocks(d, g)
  /\ ~ e.spoilt =>
       /\ ContentBlocks(e, f) = Bigger(ContentBlocks(d, f), n + 1)
       /\ \A g \in Files, m \in Nat :
            read_block_inode(e, g, m) = IF g = f /\ m = n THEN words ELSE read_block_inode(d, g, m)

LEMMA WriteBlockIs ==
  ASSUME NEW d, Fine(d), NEW f \in Files, NEW n \in Nat, n < Most,
         NEW words, DOMAIN words = 0 .. P - 1, NEW e, e = write_block_inode(d, f, n, words)
  PROVE  BlockWritten(d, e, f, n, words)
<1>1. PICK r : r = WithBlocks(d, f, n)
  OBVIOUS
<1>2. WithGives(d, r, f, n)
  BY <1>1, WithIs
<1>3. PICK c : c = r.d
  OBVIOUS
<1>4. /\ Fine(c) /\ (d.spoilt => c.spoilt) /\ (~ r.ok => c.spoilt)
      /\ \A g \in Files : c.ino[g].i_size = d.ino[g].i_size
      /\ \A g \in Files \ {f} : ContentBlocks(c, g) = ContentBlocks(d, g)
      /\ ~ c.spoilt => ContentBlocks(c, f) = Bigger(ContentBlocks(d, f), n + 1)
      /\ ~ c.spoilt => \A g \in Files, m \in Nat :
                       read_block_inode(c, g, m) = read_block_inode(d, g, m)
  BY <1>2, <1>3, MoreContent DEF WithGives, More
<1>5. PICK o \in Paths : o = RealPath(n) /\ Leaf(o)
  BY RealLeaf
<1>6. PICK b : b = Lookup(c, f, o)
  OBVIOUS
<1>7. e = IF r.ok /\ b # 0 THEN [c EXCEPT !.block[b] = words] ELSE c
  BY <1>1, <1>3, <1>5, <1>6 DEF write_block_inode, get_real_block
<1>8. ~ c.spoilt => b # 0
  <2>1. ASSUME ~ c.spoilt PROVE n < ContentBlocks(c, f)
    <3>1. PICK a \in Nat : a = ContentBlocks(d, f)
      BY NodeIs DEF Fine
    <3> QED BY <1>4, <2>1, <3>1 DEF Bigger
  <2> QED BY <1>4, <1>5, <1>6, <2>1, HasContent DEF Has
<1>9. CASE ~ (r.ok /\ b # 0)
  <2>1. e = c /\ c.spoilt
    BY <1>4, <1>7, <1>8, <1>9
  <2> QED BY <1>4, <2>1 DEF BlockWritten
<1>10. CASE r.ok /\ b # 0
  <2>1. e = [c EXCEPT !.block[b] = words]
    BY <1>7, <1>10
  <2>2. /\ Whole(e) /\ SamePlaces(c, e) /\ SameSpace(c, e) /\ e.ino = c.ino
        /\ e.block[b] = words /\ \A x \in Blocks \ {b} : e.block[x] = c.block[x]
    <3>1. Whole(c)
      BY <1>4 DEF Fine
    <3>2. Rewritten(c, e, b, words)
      BY <1>5, <1>6, <1>10, <2>1, <3>1, LeafWritten
    <3> QED BY <3>2 DEF Rewritten
  <2>3. Nodes(e) /\ e.spoilt = c.spoilt
    BY <1>4, <2>2 DEF Fine, Nodes, SameSpace
  <2>4. ASSUME Tidy(c) PROVE Tidy(e)
    <3>1. Lost(e) = Lost(c)
      BY <2>2 DEF Lost, SamePlaces, SameSpace
    <3>2. \A g \in Files, q \in Paths : Has(e, g, q) <=> Has(c, g, q)
      BY <2>2 DEF Has, SamePlaces
    <3> QED BY <2>2, <2>4, <3>1, <3>2 DEF Tidy
  <2>5. Fine(e)
    BY <1>4, <2>2, <2>3, <2>4 DEF Fine
  <2>6. \A g \in Files : ContentBlocks(e, g) = ContentBlocks(c, g)
    BY <2>2 DEF ContentBlocks
  <2>7. ASSUME ~ c.spoilt, NEW g \in Files, NEW m \in Nat
        PROVE  read_block_inode(e, g, m) = IF g = f /\ m = n THEN words ELSE read_block_inode(c, g, m)
    <3>1. PICK x : x = ContentBlocks(c, g)
      OBVIOUS
    <3>2. x \in Nat /\ x <= Most
      BY <1>4, <3>1, NodeIs, Bounds DEF Fine
    <3>3. CASE m >= x
      <4>1. read_block_inode(e, g, m) = ZeroBlock /\ read_block_inode(c, g, m) = ZeroBlock
        BY <2>6, <3>1, <3>3 DEF read_block_inode
      <4>2. ~ (g = f /\ m = n)
        <5>1. Has(c, f, RealPath(n))
          BY <1>5, <1>6, <1>10 DEF Has
        <5>2. n < ContentBlocks(c, f)
          BY <1>4, <2>7, <5>1, HasContent
        <5> QED BY <3>1, <3>2, <3>3, <5>2
      <4> QED BY <4>1, <4>2
    <3>4. CASE ~ (m >= x)
      <4>1. m < x /\ m < Most
        BY <3>2, <3>4, Bounds
      <4>2. PICK q \in Paths : q = RealPath(m)
        BY <4>1, RealLeaf
      <4>3. Has(c, g, q)
        BY <1>4, <2>7, <3>1, <4>1, <4>2, HasContent
      <4>4. PICK y : y = Lookup(c, g, q)
        OBVIOUS
      <4>5. y # 0 /\ y \in Blocks
        BY <2>2, <4>3, <4>4, <1>4 DEF Has, Fine, Whole, Tree, Disk
      <4>6. Lookup(e, g, q) = y
        BY <2>2, <4>4 DEF SamePlaces
      <4>7. read_block_inode(e, g, m) = e.block[y] /\ read_block_inode(c, g, m) = c.block[y]
        BY <2>6, <3>1, <3>4, <4>2, <4>4, <4>6 DEF read_block_inode, get_real_block
      <4>8. y = b <=> g = f /\ m = n
        <5>1. ASSUME y = b PROVE g = f /\ m = n
          <6>1. Lookup(c, g, q) = Lookup(c, f, o) /\ Lookup(c, g, q) # 0
            BY <1>6, <4>4, <4>5, <5>1
          <6>2. g = f /\ q = o
            BY <1>4, <6>1 DEF Fine, Whole, Tree
          <6> QED BY <1>5, <4>1, <4>2, <6>2, RealsDiffer
        <5>2. ASSUME g = f, m = n PROVE y = b
          BY <1>5, <1>6, <4>2, <4>4, <5>2
        <5> QED BY <5>1, <5>2
      <4> QED BY <2>2, <4>5, <4>7, <4>8
    <3> QED BY <3>3, <3>4
  <2>8. \A g \in Files : e.ino[g].i_size = d.ino[g].i_size
    BY <1>4, <2>2
  <2>9. \A g \in Files \ {f} : ContentBlocks(e, g) = ContentBlocks(d, g)
    BY <1>4, <2>6
  <2>10. ~ e.spoilt =>
           /\ ContentBlocks(e, f) = Bigger(ContentBlocks(d, f), n + 1)
           /\ \A g \in Files, m \in Nat :
                read_block_inode(e, g, m) = IF g = f /\ m = n THEN words ELSE read_block_inode(d, g, m)
    BY <1>4, <2>3, <2>6, <2>7
  <2> QED BY <1>4, <2>3, <2>5, <2>8, <2>9, <2>10 DEF BlockWritten
<1> QED BY <1>9, <1>10

-----------------------------------------------------------------------------
(* Sizes.                                                                  *)

\* An inode is written that has its block numbers as they were.
Noded(d, e, f, node) ==
  /\ Whole(e) /\ SamePlaces(d, e) /\ SameSpace(d, e) /\ e.block = d.block
  /\ e.ino[f] = node /\ \A g \in Files \ {f} : e.ino[g] = d.ino[g]

LEMMA NodedIs ==
  ASSUME NEW d, Whole(d), NEW f \in Files, NEW node \in Inode, node.i_block = d.ino[f].i_block,
         NEW e, e = [d EXCEPT !.ino[f] = node]
  PROVE  Noded(d, e, f, node)
<1>1. d.ino \in [Files -> Inode]
  BY DEF Whole, Disk
<1>2. PICK ino : ino = [d.ino EXCEPT ![f] = node]
  OBVIOUS
<1>3. ino \in [Files -> Inode] /\ ino[f] = node /\ \A g \in Files \ {f} : ino[g] = d.ino[g]
  BY <1>1, <1>2
<1>4. e = [d EXCEPT !.ino = ino]
  BY <1>2
<1>5. \A g \in Files : ino[g].i_block = d.ino[g].i_block
  BY <1>3
<1>6. Whole(e) /\ SamePlaces(d, e) /\ SameSpace(d, e) /\ e.block = d.block
  BY <1>3, <1>4, <1>5, MarkedIs
<1>7. e.ino = ino
  BY <1>4 DEF Whole, Disk
<1> QED BY <1>3, <1>6, <1>7 DEF Noded

\* Only the size of file f is new.
Resized(d, e, f, size) ==
  /\ Fine(e) /\ e.spoilt = d.spoilt /\ e.bitmap = d.bitmap /\ e.total = d.total
  /\ \A g \in Files : e.ino[g].i_size = IF g = f THEN size ELSE d.ino[g].i_size
  /\ \A g \in Files : ContentBlocks(e, g) = ContentBlocks(d, g)
  /\ \A g \in Files, m \in Nat : read_block_inode(e, g, m) = read_block_inode(d, g, m)

LEMMA ResizedIs ==
  ASSUME NEW d, Fine(d), NEW f \in Files, NEW size \in Nat,
         NEW e, e = [d EXCEPT !.ino[f].i_size = size]
  PROVE  Resized(d, e, f, size)
<1>1. Whole(d) /\ d.ino \in [Files -> Inode]
  BY DEF Fine, Whole, Disk
<1>2. PICK node : node = [d.ino[f] EXCEPT !.i_size = size]
  OBVIOUS
<1>3. node \in Inode /\ node.i_size = size /\ node.i_blocks = d.ino[f].i_blocks
      /\ node.i_block = d.ino[f].i_block
  BY <1>1, <1>2 DEF Inode
<1>4. e = [d EXCEPT !.ino[f] = node]
  BY <1>2
<1>5. Noded(d, e, f, node)
  BY <1>1, <1>3, <1>4, NodedIs
<1>6. \A g \in Files : e.ino[g].i_blocks = d.ino[g].i_blocks
  BY <1>3, <1>5 DEF Noded
<1>7. \A g \in Files : ContentBlocks(e, g) = ContentBlocks(d, g)
  BY <1>6 DEF ContentBlocks
<1>8. Nodes(e)
  BY <1>6 DEF Nodes, Fine
<1>9. ASSUME Tidy(d) PROVE Tidy(e)
  <2>1. Lost(e) = Lost(d)
    BY <1>5 DEF Lost, Noded, SamePlaces, SameSpace
  <2>2. \A g \in Files, q \in Paths : Has(e, g, q) <=> Has(d, g, q)
    BY <1>5 DEF Has, Noded, SamePlaces
  <2> QED BY <1>6, <1>9, <2>1, <2>2 DEF Tidy
<1>10. ASSUME NEW g \in Files, NEW m \in Nat
       PROVE  read_block_inode(e, g, m) = read_block_inode(d, g, m)
  <2>1. PICK c : c = ContentBlocks(d, g)
    OBVIOUS
  <2>2. CASE m >= c
    BY <1>7, <2>1, <2>2 DEF read_block_inode
  <2>3. CASE ~ (m >= c)
    <3>1. m < Most
      BY <2>1, <2>3, NodeIs, Bounds DEF Fine
    <3>2. PICK q \in Paths : q = RealPath(m)
      BY <3>1, RealLeaf
    <3>3. Lookup(e, g, q) = Lookup(d, g, q) /\ e.block = d.block
      BY <1>5 DEF Noded, SamePlaces
    <3> QED BY <1>7, <2>1, <2>3, <3>2, <3>3 DEF read_block_inode, get_real_block
  <2> QED BY <2>2, <2>3
<1>11. e.spoilt = d.spoilt /\ e.bitmap = d.bitmap /\ e.total = d.total
  BY <1>5 DEF Noded, SameSpace
<1>12. Fine(e)
  BY <1>5, <1>8, <1>9, <1>11 DEF Fine, Noded
<1>13. \A g \in Files : e.ino[g].i_size = IF g = f THEN size ELSE d.ino[g].i_size
  BY <1>3, <1>5 DEF Noded
<1> QED BY <1>7, <1>10, <1>11, <1>12, <1>13 DEF Resized

\* How many blocks a size takes.
LEMMA CeilIs ==
  ASSUME NEW q \in Nat, NEW r \in 0 .. P - 1
  PROVE  CeilDiv(q * P + r, P) = IF r = 0 THEN q ELSE q + 1
<1>1. P \in Nat /\ P > 0 /\ q * P \in Nat /\ (q + 1) * P = q * P + P
  BY Bounds
<1>2. CASE r = 0
  <2>1. (q * P + (P - 1)) \div P = q
    BY <1>1, DivUnique
  <2>2. q * P + r + P - 1 = q * P + (P - 1)
    BY <1>1, <1>2
  <2> QED BY <1>2, <2>1, <2>2 DEF CeilDiv
<1>3. CASE r # 0
  <2>1. r - 1 \in 0 .. P - 1 /\ q + 1 \in Nat
    BY <1>1, <1>3
  <2>2. ((q + 1) * P + (r - 1)) \div P = q + 1
    BY <2>1, DivUnique
  <2>3. q * P + r + P - 1 = (q + 1) * P + (r - 1)
    BY <1>1
  <2> QED BY <1>3, <2>2, <2>3 DEF CeilDiv
<1> QED BY <1>2, <1>3

LEMMA CeilNat ==
  ASSUME NEW s \in Nat
  PROVE  /\ CeilDiv(s, P) \in Nat /\ s <= CeilDiv(s, P) * P
         /\ CeilDiv(s, P) = IF s % P = 0 THEN s \div P ELSE (s \div P) + 1
         /\ \A k \in Nat : s <= k * P => CeilDiv(s, P) <= k
<1>1. PICK q \in Nat, r \in 0 .. P - 1 : q = s \div P /\ r = s % P /\ s = q * P + r
  BY DivMod
<1>2. CeilDiv(s, P) = IF r = 0 THEN q ELSE q + 1
  BY <1>1, CeilIs
<1>3. P \in Nat /\ q * P \in Nat /\ (q + 1) * P = q * P + P
  BY Bounds
<1>4. s <= CeilDiv(s, P) * P
  BY <1>1, <1>2, <1>3
<1>5. ASSUME NEW k \in Nat, s <= k * P PROVE CeilDiv(s, P) <= k
  <2>1. q <= k
    <3>1. CASE k + 1 <= q
      <4>1. (k + 1) * P <= q * P /\ (k + 1) * P = k * P + P /\ k * P \in Nat
        BY <3>1, <1>3, TimesLess, Bounds
      <4> QED BY <1>1, <1>3, <1>5, <4>1, Bounds
    <3> QED BY <3>1
  <2>2. q = k => r = 0
    BY <1>1, <1>3, <1>5
  <2> QED BY <1>1, <1>2, <2>1, <2>2
<1> QED BY <1>1, <1>2, <1>4, <1>5

LEMMA CeilGrows ==
  ASSUME NEW s \in Nat, NEW t \in Nat, s <= t
  PROVE  CeilDiv(s, P) <= CeilDiv(t, P)
<1>1. PICK k \in Nat : k = CeilDiv(t, P) /\ t <= k * P
  BY CeilNat
<1>2. k * P \in Nat
  BY Bounds
<1>3. s <= k * P
  BY <1>1, <1>2
<1> QED BY <1>1, <1>3, CeilNat

-----------------------------------------------------------------------------
(* write_buffer_inode.                                                     *)

Elems(s) == {s[i] : i \in 1 .. Len(s)}

LEMMA ElemsJoin ==
  ASSUME NEW a \in Seq(Nat), NEW b \in Seq(Nat)
  PROVE  a \o b \in Seq(Nat) /\ Elems(a \o b) = Elems(a) \cup Elems(b)
<1>1. PICK c : c = a \o b
  OBVIOUS
<1>2. c \in Seq(Nat) /\ Len(c) = Len(a) + Len(b)
  BY <1>1, ConcatProperties
<1>3. \A i \in 1 .. Len(c) : c[i] = IF i <= Len(a) THEN a[i] ELSE b[i - Len(a)]
  BY <1>1, ConcatProperties
<1>4. Len(a) \in Nat /\ Len(b) \in Nat
  OBVIOUS
<1>5. ASSUME NEW x \in Elems(c) PROVE x \in Elems(a) \cup Elems(b)
  <2>1. PICK i \in 1 .. Len(c) : x = c[i]
    BY <1>5 DEF Elems
  <2>2. CASE i <= Len(a)
    BY <1>3, <1>4, <2>1, <2>2 DEF Elems
  <2>3. CASE ~ (i <= Len(a))
    <3>1. i - Len(a) \in 1 .. Len(b)
      BY <1>2, <1>4, <2>3
    <3> QED BY <1>3, <2>1, <2>3, <3>1 DEF Elems
  <2> QED BY <2>2, <2>3
<1>6. ASSUME NEW x \in Elems(a) PROVE x \in Elems(c)
  <2>1. PICK i \in 1 .. Len(a) : x = a[i]
    BY <1>6 DEF Elems
  <2>2. i \in 1 .. Len(c) /\ i <= Len(a)
    BY <1>2, <1>4
  <2> QED BY <1>3, <2>1, <2>2 DEF Elems
<1>7. ASSUME NEW x \in Elems(b) PROVE x \in Elems(c)
  <2>1. PICK i \in 1 .. Len(b) : x = b[i]
    BY <1>7 DEF Elems
  <2>2. PICK k : k = i + Len(a)
    OBVIOUS
  <2>3. k \in 1 .. Len(c) /\ ~ (k <= Len(a)) /\ k - Len(a) = i
    BY <1>2, <1>4, <2>2
  <2> QED BY <1>3, <2>1, <2>3 DEF Elems
<1> QED BY <1>1, <1>2, <1>5, <1>6, <1>7

First(off) == off \div P
Last(off, n) == (off + n - 1) \div P

\* A write goes to every block it has words on.
LEMMA OrderIs ==
  ASSUME NEW off \in Nat, NEW n \in Nat \ {0}
  PROVE  /\ WriteOrder(off, n) \in Seq(Nat)
         /\ Elems(WriteOrder(off, n)) = First(off) .. Last(off, n)
<1>1. PICK start \in Nat : start = off \div P
  BY DivMod
<1>2. PICK end \in Nat : end = (off + n - 1) \div P
  BY DivMod
<1>3. start <= end
  <2>1. PICK r \in 0 .. P - 1 : off = start * P + r
    BY <1>1, DivMod
  <2>2. PICK t \in 0 .. P - 1 : off + n - 1 = end * P + t
    BY <1>2, DivMod
  <2>3. CASE end + 1 <= start
    <3>1. (end + 1) * P <= start * P /\ (end + 1) * P = end * P + P
          /\ end * P \in Nat /\ start * P \in Nat
      BY <2>3, TimesLess, Bounds
    <3> QED BY <2>1, <2>2, <3>1, Bounds
  <2> QED BY <2>3
<1>4. PICK prefix \in BOOLEAN : prefix <=> (off % P # 0 \/ n < P)
  OBVIOUS
<1>5. PICK s \in Nat : s = IF prefix THEN start + 1 ELSE start
  OBVIOUS
<1>6. PICK postfix \in BOOLEAN : postfix <=> ((off + n) % P # 0 /\ s <= end)
  OBVIOUS
<1>7. PICK e \in Int : e = IF postfix THEN end - 1 ELSE end
  OBVIOUS
<1>8. PICK a : a = IF prefix THEN <<start>> ELSE << >>
  OBVIOUS
<1>9. PICK b : b = IF postfix THEN <<end>> ELSE << >>
  OBVIOUS
<1>10. PICK len \in Nat : len = IF s <= e THEN e - s + 1 ELSE 0
  <2>1. s <= e => e - s + 1 \in Nat
    BY <1>7
  <2> QED BY <2>1
<1>11. PICK c : c = [k \in 1 .. len |-> s + k - 1]
  OBVIOUS
<1>12. WriteOrder(off, n) = a \o b \o c
  BY <1>1, <1>2, <1>4, <1>5, <1>6, <1>7, <1>8, <1>9, <1>10, <1>11 DEF WriteOrder
<1>13. a \in Seq(Nat) /\ Elems(a) = IF prefix THEN {start} ELSE {}
  BY <1>8 DEF Elems
<1>14. b \in Seq(Nat) /\ Elems(b) = IF postfix THEN {end} ELSE {}
  BY <1>9 DEF Elems
<1>15. c \in Seq(Nat) /\ Elems(c) = s .. e
  <2>1. \A k \in 1 .. len : s + k - 1 \in Nat
    OBVIOUS
  <2>2. c \in Seq(Nat) /\ Len(c) = len
    BY <1>11, <2>1
  <2>3. \A x \in s .. e : x - s + 1 \in 1 .. len /\ s + (x - s + 1) - 1 = x
    BY <1>10
  <2>4. \A k \in 1 .. len : s + k - 1 \in s .. e
    BY <1>10
  <2>5. \A x \in s .. e : c[x - s + 1] = x
    BY <1>11, <2>3
  <2>6. \A k \in 1 .. len : c[k] = s + k - 1
    BY <1>11
  <2>7. ASSUME NEW x \in Elems(c) PROVE x \in s .. e
    <3>1. PICK k \in 1 .. len : x = c[k]
      BY <2>2, <2>7 DEF Elems
    <3> QED BY <2>4, <2>6, <3>1
  <2>8. ASSUME NEW x \in s .. e PROVE x \in Elems(c)
    <3>1. PICK k \in 1 .. len : c[k] = x
      BY <2>3, <2>5, <2>8
    <3> QED BY <2>2, <3>1 DEF Elems
  <2>9. Elems(c) = s .. e
    BY <2>7, <2>8
  <2> QED BY <2>2, <2>9
<1>16. a \o b \in Seq(Nat) /\ Elems(a \o b) = Elems(a) \cup Elems(b)
  BY <1>13, <1>14, ElemsJoin
<1>17. a \o b \o c \in Seq(Nat) /\ Elems(a \o b \o c) = Elems(a \o b) \cup Elems(c)
  BY <1>15, <1>16, ElemsJoin
<1>18. Elems(a) \cup Elems(b) \cup Elems(c) = start .. end
  BY <1>3, <1>5, <1>6, <1>7, <1>13, <1>14, <1>15
<1> QED BY <1>1, <1>2, <1>12, <1>16, <1>17, <1>18 DEF First, Last

\* Offset i is written to.
Inside(off, n, i) == off <= i /\ i < off + n
WordsOf(e, f, off, n, m) ==
  [j \in 0 .. P - 1 |-> IF off <= m * P + j /\ m * P + j < off + n
                        THEN Word(f, m * P + j) ELSE read_block_inode(e, f, m)[j]]
FillNext(f, off, n, order, k, e) ==
  write_block_inode(e, f, order[k], WordsOf(e, f, off, n, order[k]))
Filled(d, f, off, n, order, m, w) ==
  w = [k \in 0 .. m |-> IF k = 0 THEN d ELSE FillNext(f, off, n, order, k, w[k - 1])]

LEMMA FilledExists ==
  ASSUME NEW d, NEW f, NEW off, NEW n, NEW order, NEW m \in Nat
  PROVE  \E w : Filled(d, f, off, n, order, m, w)
<1> DEFINE Good == {k \in Nat : \E w : Filled(d, f, off, n, order, k, w)}
<1>1. 0 \in Good
  <2>1. PICK w : w = [k \in 0 .. 0 |-> d]
    OBVIOUS
  <2>2. \A k \in 0 .. 0 : k = 0
    OBVIOUS
  <2>3. w = [k \in 0 .. 0 |-> IF k = 0 THEN d ELSE FillNext(f, off, n, order, k, w[k - 1])]
    BY <2>1, <2>2
  <2> QED BY <2>3 DEF Filled
<1>2. ASSUME NEW l \in Nat, l \in Good PROVE l + 1 \in Good
  <2>1. PICK w : w = [k \in 0 .. l |-> IF k = 0 THEN d
                                       ELSE FillNext(f, off, n, order, k, w[k - 1])]
    BY <1>2 DEF Filled
  <2>2. PICK v : v = [k \in 0 .. l + 1 |-> IF k <= l THEN w[k]
                                           ELSE FillNext(f, off, n, order, l + 1, w[l])]
    OBVIOUS
  <2>3. ASSUME NEW k \in 0 .. l + 1
        PROVE  v[k] = IF k = 0 THEN d ELSE FillNext(f, off, n, order, k, v[k - 1])
    <3>1. CASE k = 0
      BY <2>1, <2>2, <3>1
    <3>2. CASE k # 0
      <4>1. k - 1 \in 0 .. l /\ k - 1 <= l /\ k - 1 \in 0 .. l + 1 /\ v[k - 1] = w[k - 1]
        BY <2>2, <3>2
      <4>2. CASE k <= l
        <5>1. k \in 0 .. l /\ v[k] = w[k]
          BY <2>2, <4>2
        <5> QED BY <2>1, <3>2, <4>1, <5>1
      <4>3. CASE ~ (k <= l)
        <5>1. k - 1 = l /\ k = l + 1
          BY <4>1, <4>3
        <5> QED BY <2>2, <3>2, <4>1, <4>3, <5>1
      <4> QED BY <4>2, <4>3
    <3> QED BY <3>1, <3>2
  <2>4. v = [k \in 0 .. l + 1 |-> IF k = 0 THEN d ELSE FillNext(f, off, n, order, k, v[k - 1])]
    <3>1. v = [k \in 0 .. l + 1 |-> v[k]]
      BY <2>2
    <3> QED BY <2>3, <3>1
  <2> QED BY <2>4 DEF Filled
<1> HIDE DEF Good
<1>3. Nat \subseteq Good
  BY <1>1, <1>2, Induction
<1> QED BY <1>3 DEF Good

\* What is there when the blocks S have been written, from disk d on.
Filling(d, e, f, off, n, S) ==
  /\ Fine(e) /\ (d.spoilt => e.spoilt)
  /\ \A g \in Files : e.ino[g].i_size = d.ino[g].i_size
  /\ \A g \in Files \ {f} : ContentBlocks(e, g) = ContentBlocks(d, g)
  /\ ~ e.spoilt =>
       /\ ContentBlocks(d, f) <= ContentBlocks(e, f)
       /\ \A m \in S : m < ContentBlocks(e, f)
       /\ ContentBlocks(e, f) # ContentBlocks(d, f) => ContentBlocks(e, f) - 1 \in S
       /\ \A g \in Files, m \in Nat, j \in 0 .. P - 1 :
            read_block_inode(e, g, m)[j] = IF g = f /\ m \in S /\ Inside(off, n, m * P + j)
                                           THEN Word(f, m * P + j)
                                           ELSE read_block_inode(d, g, m)[j]

LEMMA FillingStep ==
  ASSUME NEW d, Fine(d), NEW f \in Files, NEW off, NEW n, NEW S, S \subseteq Nat, NEW m \in Nat,
         m < Most, NEW e, Filling(d, e, f, off, n, S),
         NEW t, t = write_block_inode(e, f, m, WordsOf(e, f, off, n, m))
  PROVE  Filling(d, t, f, off, n, S \cup {m})
<1>1. PICK words : words = WordsOf(e, f, off, n, m)
  OBVIOUS
<1>2. /\ DOMAIN words = 0 .. P - 1
      /\ \A j \in 0 .. P - 1 : words[j] = IF Inside(off, n, m * P + j) THEN Word(f, m * P + j)
                                         ELSE read_block_inode(e, f, m)[j]
  BY <1>1 DEF WordsOf, Inside
<1>3. BlockWritten(e, t, f, m, words)
  BY <1>1, <1>2, WriteBlockIs DEF Filling
<1>4. PICK a, b, c : a = ContentBlocks(d, f) /\ b = ContentBlocks(e, f) /\ c = ContentBlocks(t, f)
  OBVIOUS
<1>5. a \in Nat /\ b \in Nat /\ c \in Nat
  BY <1>3, <1>4, NodeIs, Bounds DEF Fine, Filling, BlockWritten
<1>6. ASSUME ~ t.spoilt
      PROVE  /\ a <= c /\ \A x \in S \cup {m} : x < c
             /\ c # a => c - 1 \in S \cup {m}
  <2>1. ~ e.spoilt
    BY <1>3, <1>6 DEF BlockWritten
  <2>2. c = IF b < m + 1 THEN m + 1 ELSE b
    BY <1>3, <1>4, <1>6 DEF BlockWritten, Bigger
  <2>3. a <= b /\ (\A x \in S : x < b) /\ (b # a => b - 1 \in S)
    BY <1>4, <2>1 DEF Filling
  <2> QED BY <1>5, <2>2, <2>3
<1>7. ASSUME ~ t.spoilt, NEW g \in Files, NEW x \in Nat, NEW j \in 0 .. P - 1
      PROVE  read_block_inode(t, g, x)[j] = IF g = f /\ x \in S \cup {m} /\ Inside(off, n, x * P + j)
                                           THEN Word(f, x * P + j)
                                           ELSE read_block_inode(d, g, x)[j]
  <2>1. ~ e.spoilt
    BY <1>3, <1>7 DEF BlockWritten
  <2>2. read_block_inode(t, g, x) = IF g = f /\ x = m THEN words ELSE read_block_inode(e, g, x)
    BY <1>3, <1>7 DEF BlockWritten
  <2>3. read_block_inode(e, g, x)[j] = IF g = f /\ x \in S /\ Inside(off, n, x * P + j)
                                       THEN Word(f, x * P + j) ELSE read_block_inode(d, g, x)[j]
    BY <2>1 DEF Filling
  <2>4. CASE g = f /\ x = m
    <3>1. read_block_inode(t, g, x)[j] = words[j]
      BY <2>2, <2>4
    <3> QED BY <1>2, <2>3, <2>4, <3>1
  <2>5. CASE ~ (g = f /\ x = m)
    <3>1. read_block_inode(t, g, x) = read_block_inode(e, g, x)
      BY <2>2, <2>5
    <3>2. g = f /\ x \in S \cup {m} <=> g = f /\ x \in S
      BY <2>5
    <3> QED BY <2>3, <3>1, <3>2
  <2> QED BY <2>4, <2>5
<1>8. /\ Fine(t) /\ (d.spoilt => t.spoilt)
      /\ \A g \in Files : t.ino[g].i_size = d.ino[g].i_size
      /\ \A g \in Files \ {f} : ContentBlocks(t, g) = ContentBlocks(d, g)
  BY <1>3 DEF BlockWritten, Filling
<1> QED BY <1>4, <1>6, <1>7, <1>8 DEF Filling

\* What a write leaves.
BufferWritten(d, e, f, off, n) ==
  /\ Fine(e) /\ (d.spoilt => e.spoilt)
  /\ \A g \in Files :
       e.ino[g].i_size = IF g = f THEN Bigger(d.ino[f].i_size, off + n) ELSE d.ino[g].i_size
  /\ \A g \in Files \ {f} : ContentBlocks(e, g) = ContentBlocks(d, g)
  /\ ~ e.spoilt =>
       /\ ContentBlocks(e, f) = Bigger(ContentBlocks(d, f), CeilDiv(off + n, P))
       /\ \A g \in Files, m \in Nat, j \in 0 .. P - 1 :
            read_block_inode(e, g, m)[j] = IF g = f /\ Inside(off, n, m * P + j)
                                           THEN Word(f, m * P + j)
                                           ELSE read_block_inode(d, g, m)[j]

\* The words of a write are in its blocks.
LEMMA InsideBlocks ==
  ASSUME NEW off \in Nat, NEW n \in Nat \ {0}, NEW m \in Nat, NEW j \in 0 .. P - 1,
         Inside(off, n, m * P + j)
  PROVE  m \in First(off) .. Last(off, n)
<1>1. PICK start \in Nat, r \in 0 .. P - 1 : start = off \div P /\ off = start * P + r
  BY DivMod
<1>2. PICK end \in Nat, t \in 0 .. P - 1 : end = (off + n - 1) \div P /\ off + n - 1 = end * P + t
  <2>1. off + n - 1 \in Nat
    OBVIOUS
  <2> QED BY <2>1, DivMod
<1>3. m * P \in Nat /\ start * P \in Nat /\ end * P \in Nat
  BY Bounds
<1>4. start <= m
  <2>1. CASE m + 1 <= start
    <3>1. (m + 1) * P <= start * P /\ (m + 1) * P = m * P + P
      BY <2>1, TimesLess, Bounds
    <3> QED BY <1>1, <1>3, <3>1, Bounds DEF Inside
  <2> QED BY <2>1
<1>5. m <= end
  <2>1. CASE end + 1 <= m
    <3>1. (end + 1) * P <= m * P /\ (end + 1) * P = end * P + P
      BY <2>1, TimesLess, Bounds
    <3> QED BY <1>2, <1>3, <3>1, Bounds DEF Inside
  <2> QED BY <2>1
<1> QED BY <1>1, <1>2, <1>4, <1>5 DEF First, Last

LEMMA LastIs ==
  ASSUME NEW off \in Nat, NEW n \in Nat \ {0}
  PROVE  Last(off, n) \in Nat /\ CeilDiv(off + n, P) = Last(off, n) + 1
<1>1. PICK x \in Nat : x = off + n - 1 /\ x + 1 = off + n
  OBVIOUS
<1>2. PICK q \in Nat, r \in 0 .. P - 1 : q = x \div P /\ x = q * P + r
  BY DivMod
<1>3. ((q + 1) * P + r) \div P = q + 1
  BY DivUnique
<1>4. (q + 1) * P = q * P + P /\ q * P \in Nat
  BY Bounds
<1>5. off + n + P - 1 = (q + 1) * P + r
  BY <1>1, <1>2, <1>4, Bounds
<1> QED BY <1>1, <1>2, <1>3, <1>5 DEF Last, CeilDiv

LEMMA BufferIs ==
  ASSUME NEW d, Fine(d), NEW f \in Files, NEW off \in Nat, NEW n \in Nat \ {0},
         off + n <= Most * P, NEW e, e = write_buffer_inode(d, f, off, n)
  PROVE  BufferWritten(d, e, f, off, n)
<1>1. PICK order : order = WriteOrder(off, n)
  OBVIOUS
<1>2. order \in Seq(Nat) /\ Elems(order) = First(off) .. Last(off, n)
  BY <1>1, OrderIs
<1>3. PICK len \in Nat : len = Len(order)
  BY <1>2
<1>4. d.ino \in [Files -> Inode]
  BY DEF Fine, Whole, Disk
<1>5. PICK size \in Nat : size = Bigger(d.ino[f].i_size, off + n)
  BY <1>4 DEF Bigger, Inode
<1>6. PICK sized : sized = [d EXCEPT !.ino[f].i_size = size]
  OBVIOUS
<1>7. Resized(d, sized, f, size)
  BY <1>6, ResizedIs
<1>8. PICK w : w = CHOOSE v : Filled(sized, f, off, n, order, len, v)
  OBVIOUS
<1>9. Filled(sized, f, off, n, order, len, w)
  BY <1>8, FilledExists
<1>10. e = w[len]
  <2>1. sized = [d EXCEPT !.ino[f].i_size = IF @ < off + n THEN off + n ELSE @]
    BY <1>5, <1>6 DEF Bigger
  <2> QED BY <1>1, <1>3, <1>8, <2>1 DEF write_buffer_inode, Filled, FillNext, WordsOf
<1> DEFINE Done(k) == {order[i] : i \in 1 .. k}
           Good == {k \in Nat : k <= len => Filling(sized, w[k], f, off, n, Done(k))}
<1>11. 0 \in Good
  <2>1. w[0] = sized /\ Done(0) = {}
    BY <1>9 DEF Filled
  <2>2. Fine(sized)
    BY <1>7 DEF Resized
  <2>3. ContentBlocks(sized, f) <= ContentBlocks(sized, f)
    BY <2>2, NodeIs, Bounds DEF Fine
  <2> QED BY <2>1, <2>2, <2>3 DEF Filling
<1>12. ASSUME NEW k \in Nat, k \in Good PROVE k + 1 \in Good
  <2>1. ASSUME k + 1 <= len PROVE Filling(sized, w[k + 1], f, off, n, Done(k + 1))
    <3>1. Filling(sized, w[k], f, off, n, Done(k))
      BY <1>12, <2>1
    <3>2. PICK m : m = order[k + 1]
      OBVIOUS
    <3>3. m \in Elems(order) /\ m \in Nat
      BY <1>2, <1>3, <2>1, <3>2 DEF Elems
    <3>4. m < Most
      <4>1. off + n - 1 \in Nat /\ off + n - 1 < Most * P
        BY Bounds
      <4>2. (off + n - 1) \div P < Most
        BY <4>1, DivBelow, Bounds
      <4>3. m <= Last(off, n) /\ Last(off, n) \in Nat
        BY <1>2, <3>3, LastIs
      <4> QED BY <3>3, <4>2, <4>3, Bounds DEF Last
    <3>5. w[k + 1] = FillNext(f, off, n, order, k + 1, w[k])
      <4>1. k + 1 \in 0 .. len /\ k + 1 # 0 /\ (k + 1) - 1 = k
        BY <2>1
      <4> QED BY <1>9, <4>1 DEF Filled
    <3>6. Done(k + 1) = Done(k) \cup {m}
      <4>1. 1 .. k + 1 = (1 .. k) \cup {k + 1}
        OBVIOUS
      <4> QED BY <3>2, <4>1
    <3>7. Done(k) \subseteq Nat
      BY <1>2, <1>3, <2>1
    <3>8. w[k + 1] = write_block_inode(w[k], f, m, WordsOf(w[k], f, off, n, m))
      BY <3>2, <3>5 DEF FillNext
    <3>9. Fine(sized)
      BY <1>7 DEF Resized
    <3> HIDE DEF Done
    <3>10. Filling(sized, w[k + 1], f, off, n, Done(k) \cup {m})
      BY <3>1, <3>3, <3>4, <3>7, <3>8, <3>9, FillingStep
    <3> QED BY <3>6, <3>10
  <2> QED BY <2>1
<1> HIDE DEF Good
<1>13. Nat \subseteq Good
  BY <1>11, <1>12, Induction
<1>14. Done(len) = First(off) .. Last(off, n)
  BY <1>2, <1>3 DEF Elems
<1> HIDE DEF Done
<1>15. Filling(sized, e, f, off, n, First(off) .. Last(off, n))
  <2>1. len \in Good
    BY <1>13
  <2> QED BY <1>3, <1>10, <1>14, <2>1 DEF Good
<1>16. PICK end \in Nat : end = Last(off, n) /\ CeilDiv(off + n, P) = end + 1
  BY LastIs
<1>17. First(off) \in Nat /\ First(off) <= end
  <2>1. PICK start \in Nat, r \in 0 .. P - 1 : start = First(off) /\ off = start * P + r
    BY DivMod DEF First
  <2>2. Inside(off, n, start * P + r)
    BY <2>1 DEF Inside
  <2>3. start \in First(off) .. end
    BY <1>16, <2>2, InsideBlocks
  <2> QED BY <1>16, <2>1, <2>3
<1>18. ASSUME ~ e.spoilt
       PROVE  ContentBlocks(e, f) = Bigger(ContentBlocks(d, f), CeilDiv(off + n, P))
  <2>1. PICK a, b : a = ContentBlocks(d, f) /\ b = ContentBlocks(e, f)
    OBVIOUS
  <2>2. a \in Nat /\ b \in Nat
    BY <1>15, <2>1, NodeIs, Bounds DEF Fine, Filling
  <2>3. a = ContentBlocks(sized, f)
    BY <1>7, <2>1 DEF Resized
  <2>4. /\ a <= b /\ \A m \in First(off) .. end : m < b
        /\ b # a => b - 1 \in First(off) .. end
    BY <1>15, <1>16, <1>18, <2>1, <2>3 DEF Filling
  <2>5. end \in First(off) .. end
    BY <1>16, <1>17
  <2>6. b = Bigger(a, end + 1)
    BY <1>16, <1>17, <2>2, <2>4, <2>5 DEF Bigger
  <2> QED BY <1>16, <2>1, <2>6
<1>19. ASSUME ~ e.spoilt, NEW g \in Files, NEW m \in Nat, NEW j \in 0 .. P - 1
       PROVE  read_block_inode(e, g, m)[j] = IF g = f /\ Inside(off, n, m * P + j)
                                             THEN Word(f, m * P + j)
                                             ELSE read_block_inode(d, g, m)[j]
  <2>1. read_block_inode(sized, g, m) = read_block_inode(d, g, m)
    BY <1>7 DEF Resized
  <2>2. read_block_inode(e, g, m)[j] =
          IF g = f /\ m \in First(off) .. Last(off, n) /\ Inside(off, n, m * P + j)
          THEN Word(f, m * P + j) ELSE read_block_inode(sized, g, m)[j]
    BY <1>15, <1>19 DEF Filling
  <2>3. Inside(off, n, m * P + j) => m \in First(off) .. Last(off, n)
    BY InsideBlocks
  <2> QED BY <2>1, <2>2, <2>3
<1>20. \A g \in Files :
         e.ino[g].i_size = IF g = f THEN Bigger(d.ino[f].i_size, off + n) ELSE d.ino[g].i_size
  BY <1>5, <1>7, <1>15 DEF Filling, Resized
<1>21. /\ Fine(e) /\ (d.spoilt => e.spoilt)
       /\ \A g \in Files \ {f} : ContentBlocks(e, g) = ContentBlocks(d, g)
  BY <1>7, <1>15 DEF Filling, Resized
<1> QED BY <1>18, <1>19, <1>20, <1>21 DEF BufferWritten

-----------------------------------------------------------------------------
(* free_inode_blocks.                                                      *)

FreeNext(f, now, k, r) == IF r.ok THEN free_inode_block(r.d, f, now - k) ELSE r
Dropped(d, f, now, m, w) ==
  w = [k \in 0 .. m |-> IF k = 0 THEN d ELSE FreeNext(f, now, k, w[k - 1])]

LEMMA DroppedExists ==
  ASSUME NEW d, NEW f, NEW now, NEW m \in Nat
  PROVE  \E w : Dropped(d, f, now, m, w)
<1> DEFINE Good == {k \in Nat : \E w : Dropped(d, f, now, k, w)}
<1>1. 0 \in Good
  <2>1. PICK w : w = [k \in 0 .. 0 |-> d]
    OBVIOUS
  <2>2. \A k \in 0 .. 0 : k = 0
    OBVIOUS
  <2>3. w = [k \in 0 .. 0 |-> IF k = 0 THEN d ELSE FreeNext(f, now, k, w[k - 1])]
    BY <2>1, <2>2
  <2> QED BY <2>3 DEF Dropped
<1>2. ASSUME NEW l \in Nat, l \in Good PROVE l + 1 \in Good
  <2>1. PICK w : w = [k \in 0 .. l |-> IF k = 0 THEN d ELSE FreeNext(f, now, k, w[k - 1])]
    BY <1>2 DEF Dropped
  <2>2. PICK v : v = [k \in 0 .. l + 1 |-> IF k <= l THEN w[k] ELSE FreeNext(f, now, l + 1, w[l])]
    OBVIOUS
  <2>3. ASSUME NEW k \in 0 .. l + 1
        PROVE  v[k] = IF k = 0 THEN d ELSE FreeNext(f, now, k, v[k - 1])
    <3>1. CASE k = 0
      BY <2>1, <2>2, <3>1
    <3>2. CASE k # 0
      <4>1. k - 1 \in 0 .. l /\ k - 1 <= l /\ k - 1 \in 0 .. l + 1 /\ v[k - 1] = w[k - 1]
        BY <2>2, <3>2
      <4>2. CASE k <= l
        <5>1. k \in 0 .. l /\ v[k] = w[k]
          BY <2>2, <4>2
        <5> QED BY <2>1, <3>2, <4>1, <5>1
      <4>3. CASE ~ (k <= l)
        <5>1. k - 1 = l /\ k = l + 1
          BY <4>1, <4>3
        <5> QED BY <2>2, <3>2, <4>1, <4>3, <5>1
      <4> QED BY <4>2, <4>3
    <3> QED BY <3>1, <3>2
  <2>4. v = [k \in 0 .. l + 1 |-> IF k = 0 THEN d ELSE FreeNext(f, now, k, v[k - 1])]
    <3>1. v = [k \in 0 .. l + 1 |-> v[k]]
      BY <2>2
    <3> QED BY <2>3, <3>1
  <2> QED BY <2>4 DEF Dropped
<1> HIDE DEF Good
<1>3. Nat \subseteq Good
  BY <1>1, <1>2, Induction
<1> QED BY <1>3 DEF Good

\* While blocks are freed: file f of disk d has its first m left, and on a disk that
\* is not spoilt every block was there.
Keeps(d, e, f, m) ==
  /\ Lost(e) = {}
  /\ \A q \in Paths : Has(e, f, q) <=> q \in Slots(m)
  /\ \A g \in Files \ {f}, q \in Paths : Has(e, g, q) <=> Has(d, g, q)
  /\ \A g \in Files, q \in Paths : Has(e, g, q) => Lookup(e, g, q) = Lookup(d, g, q)
  /\ \A g \in Files, q \in Paths :
       Has(e, g, q) /\ Leaf(q) => e.block[Lookup(e, g, q)] = d.block[Lookup(e, g, q)]
Left(d, e) == Whole(e) /\ SameNodes(d, e) /\ e.spoilt = d.spoilt
Dropping(d, r, f, m) ==
  Left(d, r.d) /\ r.ok \in BOOLEAN /\ (~ d.spoilt => r.ok /\ Keeps(d, r.d, f, m))

\* What free_inode_block gives: an error only when the block is not there.
FreesOne(d, t, f, o) ==
  \/ t.ok = TRUE /\ Emptied(d, t.d, f, o)
  \/ t.ok = FALSE /\ t.d = d /\ ~ Has(d, f, o)

LEMMA FreeOneIs ==
  ASSUME NEW d, Whole(d), NEW f \in Files, NEW m \in Nat, m < Most + 3,
         NEW o \in Paths, o = FreePath(m), NEW t, t = free_inode_block(d, f, m)
  PROVE  FreesOne(d, t, f, o)
<1>1. PICK b : b = Lookup(d, f, o)
  OBVIOUS
<1>2. PICK there \in BOOLEAN :
        there = IF Len(o) = 1 THEN m < NDIR \/ b # 0 ELSE Lookup(d, f, Up(o)) # 0
  OBVIOUS
<1>3. PICK e : e = Store(free_block(d, b), f, o, 0)
  OBVIOUS
<1>4. t = IF there THEN [d |-> e, ok |-> TRUE] ELSE [d |-> d, ok |-> FALSE]
  BY <1>1, <1>2, <1>3 DEF free_inode_block, Up
<1>5. CASE there
  <2>1. Emptied(d, e, f, o)
    BY <1>1, <1>3, FreeIs
  <2> QED BY <1>4, <1>5, <2>1 DEF FreesOne
<1>6. CASE ~ there
  <2>1. b = 0
    <3>1. CASE Top(o)
      BY <1>2, <1>6, <3>1 DEF Top
    <3>2. CASE ~ Top(o)
      <4>1. PICK y : y = Lookup(d, f, Up(o))
        OBVIOUS
      <4>2. y = 0
        BY <1>2, <1>6, <3>2, <4>1 DEF Top
      <4>3. Lookup(d, f, o) = IF y = 0 THEN 0 ELSE d.block[y][Idx(o)]
        BY <3>2, <4>1, LookupBelow
      <4> QED BY <1>1, <4>2, <4>3
    <3> QED BY <3>1, <3>2
  <2> QED BY <1>1, <1>4, <1>6, <2>1 DEF FreesOne, Has
<1> QED BY <1>5, <1>6

LEMMA SlotsLess ==
  ASSUME NEW m \in Nat, m < Most + 3
  PROVE  Slots(m) = Slots(m + 1) \ {FreePath(m)}
<1>1. Slots(m + 1) = Slots(m) \cup {FreePath(m)}
  BY SlotsMore
<1>2. FreePath(m) \notin Slots(m)
  <2>1. ASSUME NEW j \in 0 .. m - 1, FreePath(j) = FreePath(m) PROVE FALSE
    BY <2>1, SlotsDiffer, Bounds
  <2> QED BY <2>1 DEF Slots
<1> QED BY <1>1, <1>2

\* The last place has nothing below it.
LEMMA LastSlot ==
  ASSUME NEW m \in Nat, m < Most + 3, NEW q \in Slots(m + 1)
  PROVE  ~ Under(q, FreePath(m))
<1>1. PICK j \in 0 .. m : q = FreePath(j)
  BY DEF Slots
<1>2. j \in Nat /\ j < Most + 3 /\ ~ (m < j)
  BY <1>1, Bounds
<1> QED BY <1>1, <1>2, UnderLater

LEMMA KeepingStep ==
  ASSUME NEW d, ~ d.spoilt, NEW f \in Files, NEW m \in Nat, m < Most + 3,
         NEW o \in Paths, o = FreePath(m), NEW e, Whole(e), Keeps(d, e, f, m + 1),
         NEW t, Emptied(e, t, f, o)
  PROVE  Keeps(d, t, f, m)
<1>1. ASSUME NEW q \in Paths, Has(e, f, q) PROVE ~ Under(q, o)
  BY <1>1, LastSlot DEF Keeps
<1>2. ASSUME NEW g \in Files, NEW q \in Paths
      PROVE  Lookup(t, g, q) = IF g = f /\ q = o THEN 0 ELSE Lookup(e, g, q)
  <2>1. Lookup(t, g, q) = IF g = f /\ q = o THEN 0
                          ELSE IF g = f /\ Under(q, o) THEN 0 ELSE Lookup(e, g, q)
    BY DEF Emptied, Placed
  <2>2. g = f /\ Under(q, o) => Lookup(e, g, q) = 0
    BY <1>1 DEF Has
  <2> QED BY <2>1, <2>2
<1>3. Slots(m) = Slots(m + 1) \ {o}
  BY SlotsLess
<1>4. \A q \in Paths : Has(t, f, q) <=> q \in Slots(m)
  BY <1>2, <1>3 DEF Keeps, Has
<1>5. \A g \in Files \ {f}, q \in Paths : Has(t, g, q) <=> Has(d, g, q)
  BY <1>2 DEF Keeps, Has
<1>6. \A g \in Files, q \in Paths : Has(t, g, q) => Has(e, g, q) /\ Lookup(t, g, q) = Lookup(e, g, q)
  BY <1>2 DEF Has
<1>7. \A g \in Files, q \in Paths : Has(t, g, q) => Lookup(t, g, q) = Lookup(d, g, q)
  BY <1>6 DEF Keeps
<1>8. ASSUME NEW g \in Files, NEW q \in Paths, Has(t, g, q), Leaf(q)
      PROVE  t.block[Lookup(t, g, q)] = d.block[Lookup(t, g, q)]
  <2>1. PICK x : x = Lookup(e, g, q)
    OBVIOUS
  <2>2. Lookup(t, g, q) = x /\ x # 0
    BY <1>6, <1>8, <2>1 DEF Has
  <2>3. x \in Blocks
    BY <2>1, <2>2 DEF Whole, Tree, Disk
  <2>4. ~ Freed(e, f, o, x)
    BY <1>2, <2>1, <2>2 DEF Freed, Whole, Tree
  <2>5. Top(o) \/ x # Lookup(e, f, Up(o))
    <3>1. ASSUME ~ Top(o), x = Lookup(e, f, Up(o)) PROVE FALSE
      <4>1. PICK u \in Paths : u = Up(o)
        BY <3>1, PathIs
      <4>2. Lookup(e, g, q) = Lookup(e, f, u) /\ Lookup(e, g, q) # 0
        BY <2>1, <2>2, <3>1, <4>1
      <4>3. q = u
        BY <4>2 DEF Whole, Tree
      <4> QED BY <1>8, <3>1, <4>1, <4>3 DEF Leaf
    <3> QED BY <3>1
  <2>6. t.block[x] = e.block[x]
    BY <2>3, <2>4, <2>5 DEF Emptied, Written
  <2>7. e.block[x] = d.block[x]
    BY <1>6, <1>8, <2>1 DEF Keeps
  <2> QED BY <2>2, <2>6, <2>7
<1>9. Lost(t) = {}
  <2>1. ASSUME NEW x \in Lost(t) PROVE FALSE
    <3>1. x \in t.bitmap \ Reserved /\ \A g \in Files, q \in Paths : Lookup(t, g, q) # x
      BY <2>1 DEF Lost
    <3>2. x \in e.bitmap \ Reserved /\ x # 0 /\ x # Lookup(e, f, o)
      BY <3>1, BlockFacts DEF Emptied
    <3>3. PICK g \in Files, q \in Paths : Lookup(e, g, q) = x
      BY <3>2 DEF Keeps, Lost
    <3>4. ~ (g = f /\ q = o)
      BY <3>2, <3>3
    <3>5. Lookup(t, g, q) = x
      BY <1>2, <3>3, <3>4
    <3> QED BY <3>1, <3>5
  <2> QED BY <2>1
<1> QED BY <1>4, <1>5, <1>7, <1>8, <1>9 DEF Keeps

LEMMA DroppingStep ==
  ASSUME NEW d, NEW f \in Files, NEW m \in Nat, m < Most + 3, NEW r, Dropping(d, r, f, m + 1),
         NEW t, t = IF r.ok THEN free_inode_block(r.d, f, m) ELSE r
  PROVE  Dropping(d, t, f, m)
<1>1. PICK e : e = r.d
  OBVIOUS
<1>2. Left(d, e) /\ r.ok \in BOOLEAN /\ (~ d.spoilt => r.ok /\ Keeps(d, e, f, m + 1))
  BY <1>1 DEF Dropping
<1>3. CASE ~ r.ok
  <2>1. t = r /\ d.spoilt
    BY <1>2, <1>3
  <2> QED BY <1>1, <1>2, <2>1 DEF Dropping
<1>4. CASE r.ok
  <2>1. PICK o \in Paths : o = FreePath(m)
    BY FreeInPaths
  <2>2. t = free_inode_block(e, f, m)
    BY <1>1, <1>4
  <2>3. FreesOne(e, t, f, o)
    BY <1>2, <2>1, <2>2, FreeOneIs DEF Left
  <2>4. CASE t.ok = TRUE /\ Emptied(e, t.d, f, o)
    <3>1. Left(d, t.d)
      BY <1>2, <2>4 DEF Emptied, Left, SameNodes
    <3>2. ASSUME ~ d.spoilt PROVE Keeps(d, t.d, f, m)
      <4>1. PICK h : h = t.d
        OBVIOUS
      <4> QED BY <1>2, <2>1, <2>4, <3>2, <4>1, KeepingStep DEF Left
    <3> QED BY <2>4, <3>1, <3>2 DEF Dropping
  <2>5. CASE t.ok = FALSE /\ t.d = e /\ ~ Has(e, f, o)
    <3>1. ASSUME ~ d.spoilt PROVE FALSE
      <4>1. Keeps(d, e, f, m + 1)
        BY <1>2, <3>1
      <4>2. o \in Slots(m + 1)
        BY <2>1, SlotsMore
      <4> QED BY <2>5, <4>1, <4>2 DEF Keeps
    <3> QED BY <1>2, <2>5, <3>1 DEF Dropping
  <2> QED BY <2>3, <2>4, <2>5 DEF FreesOne
<1> QED BY <1>3, <1>4

\* What free_inode_blocks gives.
Shrunk(d, e, f, n) ==
  /\ Fine(e) /\ e.spoilt = d.spoilt
  /\ \A g \in Files : e.ino[g].i_size = d.ino[g].i_size
  /\ \A g \in Files : ContentBlocks(e, g) = IF g = f THEN n ELSE ContentBlocks(d, g)
  /\ ~ d.spoilt => \A g \in Files, m \in Nat :
                   read_block_inode(e, g, m) = IF g = f /\ m >= n THEN ZeroBlock
                                               ELSE read_block_inode(d, g, m)
\* What it leaves when it stops at an error, which it does on a spoilt disk only.
Stopped(d, e, f) ==
  /\ d.spoilt /\ Fine(e) /\ e.spoilt = d.spoilt
  /\ \A g \in Files : e.ino[g].i_size = d.ino[g].i_size
  /\ \A g \in Files : ContentBlocks(e, g) = ContentBlocks(d, g)
FreedGives(d, r, f, n) ==
  /\ n < ContentBlocks(d, f) => \/ r.ok = TRUE /\ Shrunk(d, r.d, f, n)
                                \/ r.ok = FALSE /\ Stopped(d, r.d, f)
  /\ ~ (n < ContentBlocks(d, f)) => r.ok = FALSE /\ r.d = d

\* A step that stops leaves i_blocks alone.
LEMMA LeftStopped ==
  ASSUME NEW d, Fine(d), d.spoilt, NEW f \in Files, NEW e, Left(d, e)
  PROVE  Stopped(d, e, f)
<1>1. \A g \in Files : e.ino[g].i_blocks = d.ino[g].i_blocks /\ e.ino[g].i_size = d.ino[g].i_size
  BY DEF Left, SameNodes
<1>2. Nodes(e)
  BY <1>1 DEF Fine, Nodes
<1>3. \A g \in Files : ContentBlocks(e, g) = ContentBlocks(d, g)
  BY <1>1 DEF ContentBlocks
<1> QED BY <1>1, <1>2, <1>3 DEF Left, Fine, Stopped

LEMMA ShrunkIs ==
  ASSUME NEW d, Fine(d), NEW f \in Files, NEW n \in Nat, n <= Most, n < ContentBlocks(d, f),
         NEW left \in Nat, left = get_block_count(n),
         NEW e, Left(d, e), ~ d.spoilt => Keeps(d, e, f, left),
         NEW h, h = [e EXCEPT !.ino[f].i_blocks = left]
  PROVE  Shrunk(d, h, f, n)
<1>1. ContentBlocks(d, f) \in Nat
  BY NodeIs, Bounds DEF Fine
<1>2. Whole(e) /\ e.ino \in [Files -> Inode]
  BY DEF Left, Whole, Disk
<1>3. PICK node : node = [e.ino[f] EXCEPT !.i_blocks = left]
  OBVIOUS
<1>4. node \in Inode /\ node.i_size = e.ino[f].i_size /\ node.i_blocks = left
      /\ node.i_block = e.ino[f].i_block
  BY <1>2, <1>3 DEF Inode
<1>5. h = [e EXCEPT !.ino[f] = node]
  BY <1>3
<1>6. Noded(e, h, f, node)
  BY <1>2, <1>4, <1>5, NodedIs
<1>7. \A g \in Files : h.ino[g].i_size = d.ino[g].i_size
  BY <1>4, <1>6 DEF Noded, Left, SameNodes
<1>8. \A g \in Files : h.ino[g].i_blocks = IF g = f THEN left ELSE d.ino[g].i_blocks
  BY <1>4, <1>6 DEF Noded, Left, SameNodes
<1>9. \A g \in Files : ContentBlocks(h, g) = IF g = f THEN n ELSE ContentBlocks(d, g)
  BY <1>8, ContentIs DEF ContentBlocks
<1>10. Nodes(h)
  <2>1. ASSUME NEW g \in Files PROVE \E x \in 0 .. Most : h.ino[g].i_blocks = get_block_count(x)
    <3>1. CASE g = f
      <4>1. n \in 0 .. Most /\ h.ino[g].i_blocks = get_block_count(n)
        BY <1>8, <3>1, Bounds
      <4> QED BY <4>1
    <3>2. CASE g # f
      BY <1>8, <3>2 DEF Fine, Nodes
    <3> QED BY <3>1, <3>2
  <2> QED BY <2>1 DEF Nodes
<1>11. h.spoilt = d.spoilt
  BY <1>6 DEF Left, Noded, SameSpace
<1>12. \A g \in Files, q \in Paths : Has(h, g, q) <=> Has(e, g, q)
  BY <1>6 DEF Noded, SamePlaces, Has
<1>13. ASSUME ~ d.spoilt PROVE Tidy(h)
  <2>1. Keeps(d, e, f, left)
    BY <1>13
  <2>2. Lost(h) = {}
    BY <1>6, <2>1 DEF Keeps, Lost, Noded, SamePlaces, SameSpace
  <2>3. ASSUME NEW g \in Files, NEW q \in Paths
        PROVE  Has(h, g, q) <=> q \in Slots(h.ino[g].i_blocks)
    <3>1. CASE g = f
      BY <1>8, <1>12, <2>1, <3>1 DEF Keeps
    <3>2. CASE g # f
      BY <1>8, <1>12, <1>13, <2>1, <3>2 DEF Keeps, Fine, Tidy
    <3> QED BY <3>1, <3>2
  <2> QED BY <2>2, <2>3 DEF Tidy
<1>14. Fine(h)
  BY <1>6, <1>10, <1>11, <1>13 DEF Fine, Noded
<1>15. ASSUME ~ d.spoilt, NEW g \in Files, NEW m \in Nat
       PROVE  read_block_inode(h, g, m) = IF g = f /\ m >= n THEN ZeroBlock
                                          ELSE read_block_inode(d, g, m)
  <2>1. PICK x : x = ContentBlocks(h, g)
    OBVIOUS
  <2>2. x \in Nat /\ x <= Most
    BY <1>10, <2>1, NodeIs, Bounds
  <2>3. CASE m >= x
    <3>1. read_block_inode(h, g, m) = ZeroBlock
      BY <2>1, <2>3 DEF read_block_inode
    <3>2. g # f => read_block_inode(d, g, m) = ZeroBlock
      BY <1>9, <2>1, <2>3 DEF read_block_inode
    <3>3. g = f => m >= n
      BY <1>9, <2>1, <2>3
    <3> QED BY <3>1, <3>2, <3>3
  <2>4. CASE ~ (m >= x)
    <3>1. m < x /\ m < Most
      BY <2>2, <2>4, Bounds
    <3>2. ~ (g = f /\ m >= n)
      BY <1>9, <2>1, <2>4
    <3>3. m < ContentBlocks(d, g)
      BY <1>1, <1>9, <2>1, <3>1
    <3>4. PICK q \in Paths : q = RealPath(m) /\ Leaf(q)
      BY <3>1, RealLeaf
    <3>5. Has(h, g, q)
      BY <1>11, <1>14, <1>15, <2>1, <3>1, <3>4, HasContent
    <3>6. Keeps(d, e, f, left)
      BY <1>15
    <3>7. Lookup(h, g, q) = Lookup(e, g, q) /\ h.block = e.block
      BY <1>6 DEF Noded, SamePlaces
    <3>8. Lookup(e, g, q) = Lookup(d, g, q)
          /\ e.block[Lookup(e, g, q)] = d.block[Lookup(e, g, q)]
      BY <1>12, <3>4, <3>5, <3>6 DEF Keeps
    <3>9. ~ (m >= ContentBlocks(d, g))
      <4>1. ContentBlocks(d, g) \in Nat
        BY NodeIs, Bounds DEF Fine
      <4> QED BY <3>3, <4>1
    <3>10. read_block_inode(h, g, m) = h.block[Lookup(h, g, q)]
      BY <2>1, <2>4, <3>4 DEF read_block_inode, get_real_block
    <3>11. read_block_inode(d, g, m) = d.block[Lookup(d, g, q)]
      BY <3>4, <3>9 DEF read_block_inode, get_real_block
    <3> QED BY <3>2, <3>7, <3>8, <3>10, <3>11
  <2> QED BY <2>3, <2>4
<1> QED BY <1>7, <1>9, <1>11, <1>14, <1>15 DEF Shrunk

LEMMA FreedIs ==
  ASSUME NEW d, Fine(d), NEW f \in Files, NEW n \in Nat, n <= Most,
         NEW r, r = free_inode_blocks(d, f, n)
  PROVE  FreedGives(d, r, f, n)
<1>1. PICK left \in Nat : left = get_block_count(n)
  BY CountNat
<1>2. PICK c : c = ContentBlocks(d, f)
  OBVIOUS
<1>3. c \in Nat /\ c <= Most /\ d.ino[f].i_blocks = get_block_count(c)
  BY <1>2, NodeIs, Bounds DEF Fine
<1>4. PICK now \in Nat : now = d.ino[f].i_blocks /\ now <= Most + 3
  BY <1>3, CountNat
<1>5. now <= left <=> c <= n
  <2>1. c < n => now < left
    BY <1>1, <1>3, <1>4, CountLess
  <2>2. n < c => left < now
    BY <1>1, <1>3, <1>4, CountLess
  <2>3. n = c => left = now
    BY <1>1, <1>3, <1>4
  <2> QED BY <1>3, <2>1, <2>2, <2>3
<1>6. PICK w : w = CHOOSE v : Dropped(Start(d), f, now, now, v)
  OBVIOUS
<1>7. Dropped(Start(d), f, now, now, w)
  BY <1>6, DroppedExists
<1>8. r = IF now <= left THEN [d |-> d, ok |-> FALSE]
          ELSE IF ~ w[now - left].ok THEN w[now - left]
          ELSE [d |-> [w[now - left].d EXCEPT !.ino[f].i_blocks = left], ok |-> TRUE]
  <2> DEFINE all == d.ino[f].i_blocks
             few == get_block_count(n)
             v == CHOOSE u : Dropped(Start(d), f, all, all, u)
  <2>1. r = IF all <= few THEN [d |-> d, ok |-> FALSE]
            ELSE IF ~ v[all - few].ok THEN v[all - few]
            ELSE [d |-> [v[all - few].d EXCEPT !.ino[f].i_blocks = few], ok |-> TRUE]
    BY Zenon DEF free_inode_blocks, Dropped, FreeNext, Start
  <2>2. all = now /\ few = left
    BY <1>1, <1>4, Zenon
  <2> HIDE DEF all, few
  <2>3. v = w
    BY <1>6, <2>2, Zenon
  <2> HIDE DEF v
  <2> QED BY <2>1, <2>2, <2>3, Zenon
<1>9. CASE now <= left
  <2>1. r.d = d /\ r.ok = FALSE
    BY <1>8, <1>9
  <2>2. ~ (n < ContentBlocks(d, f))
    BY <1>2, <1>3, <1>5, <1>9
  <2> QED BY <2>1, <2>2 DEF FreedGives
<1>10. CASE ~ (now <= left)
  <2> DEFINE Good == {k \in Nat : k <= now - left => Dropping(d, w[k], f, now - k)}
  <2>1. 0 \in Good
    <3>1. w[0] = Start(d) /\ w[0].d = d /\ w[0].ok = TRUE
      BY <1>7 DEF Dropped, Start
    <3>2. Left(d, d)
      BY DEF Fine, SameNodes, Left
    <3>3. ASSUME ~ d.spoilt PROVE Keeps(d, d, f, now)
      BY <1>4, <3>3 DEF Fine, Tidy, Keeps
    <3>4. now - 0 = now
      OBVIOUS
    <3> QED BY <3>1, <3>2, <3>3, <3>4 DEF Dropping
  <2>2. ASSUME NEW k \in Nat, k \in Good PROVE k + 1 \in Good
    <3>1. ASSUME k + 1 <= now - left PROVE Dropping(d, w[k + 1], f, now - (k + 1))
      <4>1. PICK m \in Nat : m = now - (k + 1) /\ m + 1 = now - k /\ m < Most + 3
        <5>1. now - (k + 1) \in Nat
          BY <1>1, <3>1
        <5> QED BY <1>4, <5>1, Bounds
      <4>2. Dropping(d, w[k], f, m + 1)
        BY <2>2, <3>1, <4>1
      <4>3. w[k + 1] = FreeNext(f, now, k + 1, w[k])
        <5>1. k + 1 \in 0 .. now /\ k + 1 # 0 /\ (k + 1) - 1 = k
          BY <3>1
        <5> QED BY <1>7, <5>1 DEF Dropped
      <4>4. w[k + 1] = IF w[k].ok THEN free_inode_block(w[k].d, f, m) ELSE w[k]
        BY <4>1, <4>3 DEF FreeNext
      <4> QED BY <4>1, <4>2, <4>4, DroppingStep
    <3> QED BY <3>1
  <2> HIDE DEF Good
  <2>3. Nat \subseteq Good
    BY <2>1, <2>2, Induction
  <2>4. PICK s : s = w[now - left]
    OBVIOUS
  <2>5. Dropping(d, s, f, left)
    <3>1. now - left \in Nat /\ now - (now - left) = left
      BY <1>10
    <3> QED BY <2>3, <2>4, <3>1 DEF Good
  <2>6. n < ContentBlocks(d, f)
    BY <1>2, <1>3, <1>5, <1>10
  <2>7. PICK e : e = s.d
    OBVIOUS
  <2>8. Left(d, e) /\ s.ok \in BOOLEAN /\ (~ d.spoilt => s.ok /\ Keeps(d, e, f, left))
    BY <2>5, <2>7 DEF Dropping
  <2>9. CASE ~ s.ok
    <3>1. r.d = e /\ r.ok = FALSE
      BY <1>8, <1>10, <2>4, <2>7, <2>8, <2>9
    <3>2. Stopped(d, e, f)
      BY <2>8, <2>9, LeftStopped
    <3> QED BY <2>6, <3>1, <3>2 DEF FreedGives
  <2>10. CASE s.ok
    <3>1. PICK h : h = [e EXCEPT !.ino[f].i_blocks = left]
      OBVIOUS
    <3>2. r.d = h /\ r.ok = TRUE
      BY <1>8, <1>10, <2>4, <2>7, <2>10, <3>1
    <3>3. Shrunk(d, h, f, n)
      BY <1>1, <2>6, <2>8, <3>1, ShrunkIs
    <3> QED BY <2>6, <3>2, <3>3 DEF FreedGives
  <2> QED BY <2>8, <2>9, <2>10
<1> QED BY <1>9, <1>10

LongNext(f, n, r) == IF r.ok THEN alloc_inode_block(r.d, f, n - 1) ELSE r
Lengthens(d, f, now, m, w) ==
  w = [n \in now .. m |-> IF n = now THEN [d |-> d, ok |-> TRUE] ELSE LongNext(f, n, w[n - 1])]

LEMMA LengthensExists ==
  ASSUME NEW d, NEW f, NEW now \in Nat, NEW m \in Nat, now <= m
  PROVE  \E w : Lengthens(d, f, now, m, w)
<1> DEFINE Good == {k \in Nat : \E w : Lengthens(d, f, now, now + k, w)}
<1>1. 0 \in Good
  <2>1. PICK w : w = [n \in now .. now + 0 |-> [d |-> d, ok |-> TRUE]]
    OBVIOUS
  <2>2. \A n \in now .. now + 0 : n = now
    OBVIOUS
  <2>3. w = [n \in now .. now + 0 |-> IF n = now THEN [d |-> d, ok |-> TRUE]
                                      ELSE LongNext(f, n, w[n - 1])]
    BY <2>1, <2>2
  <2> QED BY <2>3 DEF Lengthens
<1>2. ASSUME NEW k \in Nat, k \in Good PROVE k + 1 \in Good
  <2>0. PICK l \in Nat : l = now + k /\ now <= l /\ now + (k + 1) = l + 1
    OBVIOUS
  <2>1. PICK w : w = [n \in now .. l |-> IF n = now THEN [d |-> d, ok |-> TRUE]
                                         ELSE LongNext(f, n, w[n - 1])]
    BY <1>2, <2>0 DEF Lengthens
  <2>2. PICK v : v = [n \in now .. l + 1 |-> IF n <= l THEN w[n] ELSE LongNext(f, l + 1, w[l])]
    OBVIOUS
  <2>3. ASSUME NEW n \in now .. l + 1
        PROVE  v[n] = IF n = now THEN [d |-> d, ok |-> TRUE] ELSE LongNext(f, n, v[n - 1])
    <3>1. CASE n = now
      <4>1. n \in now .. l /\ n <= l
        BY <2>0, <3>1
      <4> QED BY <2>1, <2>2, <3>1, <4>1
    <3>2. CASE n # now
      <4>1. n - 1 \in now .. l /\ n - 1 <= l /\ n - 1 \in now .. l + 1 /\ v[n - 1] = w[n - 1]
        BY <2>2, <3>2
      <4>2. CASE n <= l
        <5>1. n \in now .. l /\ v[n] = w[n]
          BY <2>2, <4>2
        <5> QED BY <2>1, <3>2, <4>1, <5>1
      <4>3. CASE ~ (n <= l)
        <5>1. n - 1 = l /\ n = l + 1
          BY <4>1, <4>3
        <5> QED BY <2>2, <3>2, <4>1, <4>3, <5>1
      <4> QED BY <4>2, <4>3
    <3> QED BY <3>1, <3>2
  <2>4. v = [n \in now .. l + 1 |-> IF n = now THEN [d |-> d, ok |-> TRUE]
                                    ELSE LongNext(f, n, v[n - 1])]
    <3>1. v = [n \in now .. l + 1 |-> v[n]]
      BY <2>2
    <3> QED BY <2>3, <3>1
  <2> QED BY <2>0, <2>4 DEF Lengthens
<1> HIDE DEF Good
<1>3. Nat \subseteq Good
  BY <1>1, <1>2, Induction
<1>4. m - now \in Nat /\ now + (m - now) = m
  OBVIOUS
<1> QED BY <1>3, <1>4 DEF Good

\* While a file gets longer: it has n blocks, or an allocation failed.
Longer(d, r, f, n) ==
  /\ Fine(r.d) /\ More(d, r.d, f) /\ (~ r.ok => r.d.spoilt)
  /\ ~ r.d.spoilt => ContentBlocks(r.d, f) = n

LEMMA LongerStep ==
  ASSUME NEW d, NEW f \in Files, NEW n \in Nat, n < Most, NEW r, Longer(d, r, f, n),
         NEW t, t = LongNext(f, n + 1, r)
  PROVE  Longer(d, t, f, n + 1)
<1>1. CASE r.ok
  <2>1. PICK c : c = r.d
    OBVIOUS
  <2>2. t = alloc_inode_block(c, f, n)
    <3>1. (n + 1) - 1 = n
      OBVIOUS
    <3> QED BY <1>1, <2>1, <3>1 DEF LongNext
  <2>3. Fine(c) /\ More(d, c, f) /\ (~ c.spoilt => ContentBlocks(c, f) = n)
    BY <2>1 DEF Longer
  <2>4. StepGives(c, t, f, n)
    BY <2>2, <2>3, AllocStep
  <2>5. Fine(t.d) /\ More(d, t.d, f) /\ (~ t.ok => t.d.spoilt)
    BY <2>3, <2>4, MoreTwice DEF StepGives
  <2>6. ASSUME ~ t.d.spoilt PROVE ContentBlocks(t.d, f) = n + 1
    <3>1. t.ok /\ ~ c.spoilt
      BY <2>4, <2>6 DEF StepGives, More
    <3>2. ContentBlocks(t.d, f) = Bigger(n, n + 1)
      BY <2>3, <2>4, <3>1 DEF StepGives
    <3> QED BY <3>2 DEF Bigger
  <2> QED BY <2>5, <2>6 DEF Longer
<1>2. CASE ~ r.ok
  <2>1. t = r
    BY <1>2 DEF LongNext
  <2> QED BY <1>2, <2>1 DEF Longer
<1> QED BY <1>1, <1>2

\* A file that gets longer has its new blocks, or an allocation failed.
LEMMA LengthenedIs ==
  ASSUME NEW d, Fine(d), NEW f \in Files, NEW size \in Nat, d.ino[f].i_size <= size,
         size <= Most * P, ~ d.spoilt => ContentBlocks(d, f) = CeilDiv(d.ino[f].i_size, P),
         NEW e, e = Lengthened(d, f, size)
  PROVE  /\ Fine(e) /\ More(d, e, f)
         /\ ~ e.spoilt => ContentBlocks(e, f) = CeilDiv(size, P)
<1>1. d.ino[f].i_size \in Nat
  BY DEF Fine, Whole, Disk, Inode
<1>2. PICK now \in Nat : now = CeilDiv(d.ino[f].i_size, P)
  BY <1>1, CeilNat
<1>3. PICK m \in Nat : m = CeilDiv(size, P) /\ m <= Most
  BY CeilNat, Bounds
<1>4. now <= m
  BY <1>1, <1>2, <1>3, CeilGrows
<1>5. PICK w : w = CHOOSE v : Lengthens(d, f, now, m, v)
  OBVIOUS
<1>6. Lengthens(d, f, now, m, w)
  BY <1>4, <1>5, LengthensExists
<1>7. e = w[m].d
  BY <1>2, <1>3, <1>5 DEF Lengthened, Lengthens, LongNext
<1> DEFINE Good == {k \in Nat : now + k <= m => Longer(d, w[now + k], f, now + k)}
<1>8. 0 \in Good
  <2>1. now \in now .. m /\ now + 0 = now
    BY <1>4
  <2>2. w[now] = [d |-> d, ok |-> TRUE]
    BY <1>6, <2>1 DEF Lengthens
  <2>3. w[now].d = d /\ w[now].ok = TRUE
    BY <2>2
  <2>4. Longer(d, w[now], f, now)
    BY <1>2, <2>3, MoreSame DEF Longer
  <2> QED BY <2>1, <2>4
<1>9. ASSUME NEW k \in Nat, k \in Good PROVE k + 1 \in Good
  <2>1. ASSUME now + (k + 1) <= m PROVE Longer(d, w[now + (k + 1)], f, now + (k + 1))
    <3>1. PICK n \in Nat : n = now + k /\ n + 1 = now + (k + 1) /\ n + 1 <= m
      BY <2>1
    <3>2. Longer(d, w[n], f, n) /\ n < Most
      BY <1>3, <1>9, <3>1, Bounds
    <3>3. w[n + 1] = LongNext(f, n + 1, w[n])
      <4>1. n + 1 \in now .. m /\ n + 1 # now /\ (n + 1) - 1 = n
        BY <3>1
      <4> QED BY <1>6, <4>1 DEF Lengthens
    <3> QED BY <3>1, <3>2, <3>3, LongerStep
  <2> QED BY <2>1
<1> HIDE DEF Good
<1>10. Nat \subseteq Good
  BY <1>8, <1>9, Induction
<1>11. Longer(d, w[m], f, m)
  <2>1. PICK k \in Nat : now + k = m
    <3>1. m - now \in Nat /\ now + (m - now) = m
      BY <1>4
    <3> QED BY <3>1
  <2>2. k \in Good /\ now + k <= m
    BY <1>4, <1>10, <2>1
  <2>3. Longer(d, w[now + k], f, now + k)
    BY <2>2 DEF Good
  <2> QED BY <2>1, <2>3
<1> QED BY <1>3, <1>7, <1>11 DEF Longer

\* At rest: sizes are in bounds and, until the disk is spoilt, each file has
\* as many blocks as its size takes, with nothing behind its end.
Sized(d) ==
  \A f \in Files : d.ino[f].i_size \in 0 .. MaxSize[f] /\ (f \in Dirs => (d.ino[f].i_size % P) = 0)
Fitting(d) == \A f \in Files : ContentBlocks(d, f) = CeilDiv(d.ino[f].i_size, P)
NothingBehind(d) ==
  \A f \in Files, m \in Nat, j \in 0 .. P - 1 :
    d.ino[f].i_size <= m * P + j => read_block_inode(d, f, m)[j] = Zero
Rest(d) == Fine(d) /\ Sized(d) /\ (~ d.spoilt => Fitting(d) /\ NothingBehind(d))

\* What free_inode_blocks works for: see Most.
Contract == OnlySound /\ \A f \in Files : MaxSize[f] <= (NDIR + P + P) * P

\* What a truncation leaves.
Truncated(d, e, f, size) ==
  /\ Fine(e) /\ (d.spoilt => e.spoilt)
  /\ \A g \in Files : e.ino[g].i_size = IF g = f THEN size ELSE d.ino[g].i_size
  /\ \A g \in Files \ {f} : ContentBlocks(e, g) = ContentBlocks(d, g)
  /\ ~ e.spoilt =>
       /\ ContentBlocks(e, f) = CeilDiv(size, P)
       /\ \A g \in Files, m \in Nat, j \in 0 .. P - 1 :
            read_block_inode(e, g, m)[j] = IF g = f /\ size <= m * P + j THEN Zero
                                           ELSE read_block_inode(d, g, m)[j]

\* The same, before the size is set.
Shaped(d, e, f, size) ==
  /\ Fine(e) /\ (d.spoilt => e.spoilt)
  /\ \A g \in Files : e.ino[g].i_size = d.ino[g].i_size
  /\ \A g \in Files \ {f} : ContentBlocks(e, g) = ContentBlocks(d, g)
  /\ ~ e.spoilt =>
       /\ ContentBlocks(e, f) = CeilDiv(size, P)
       /\ \A g \in Files, m \in Nat, j \in 0 .. P - 1 :
            read_block_inode(e, g, m)[j] = IF g = f /\ size <= m * P + j THEN Zero
                                           ELSE read_block_inode(d, g, m)[j]

LEMMA SetSize ==
  ASSUME NEW d, NEW f \in Files, NEW size \in Nat, NEW c, Shaped(d, c, f, size),
         NEW e, e = [c EXCEPT !.ino[f].i_size = size]
  PROVE  Truncated(d, e, f, size)
<1>1. Resized(c, e, f, size)
  BY ResizedIs DEF Shaped
<1> QED BY <1>1 DEF Resized, Shaped, Truncated

LEMMA LongerShaped ==
  ASSUME NEW d, Rest(d), NEW f \in Files, NEW size \in Nat, d.ino[f].i_size <= size,
         size <= Most * P, NEW e, e = Lengthened(d, f, size)
  PROVE  Shaped(d, e, f, size)
<1>1. Fine(d) /\ (~ d.spoilt => ContentBlocks(d, f) = CeilDiv(d.ino[f].i_size, P))
  BY DEF Rest, Fitting
<1>2. Fine(e) /\ More(d, e, f) /\ (~ e.spoilt => ContentBlocks(e, f) = CeilDiv(size, P))
  BY <1>1, LengthenedIs
<1>3. ASSUME ~ e.spoilt, NEW g \in Files, NEW m \in Nat, NEW j \in 0 .. P - 1
      PROVE  read_block_inode(e, g, m)[j] = IF g = f /\ size <= m * P + j THEN Zero
                                            ELSE read_block_inode(d, g, m)[j]
  <2>1. read_block_inode(e, g, m) = read_block_inode(d, g, m) /\ ~ d.spoilt
    BY <1>2, <1>3 DEF More
  <2>2. ASSUME g = f, size <= m * P + j PROVE read_block_inode(d, g, m)[j] = Zero
    <3>1. d.ino[f].i_size \in Nat
      BY <1>1 DEF Fine, Whole, Disk, Inode
    <3>2. m * P + j \in Nat
      BY Bounds
    <3>3. d.ino[f].i_size <= m * P + j
      BY <2>2, <3>1, <3>2
    <3> QED BY <2>1, <2>2, <3>3 DEF Rest, NothingBehind
  <2> QED BY <2>1, <2>2
<1>4. \A g \in Files \ {f} : ContentBlocks(e, g) = ContentBlocks(d, g)
  BY <1>2, MoreContent
<1> QED BY <1>2, <1>3, <1>4 DEF More, Shaped

\* The end of a file is cleared.
LEMMA CutShaped ==
  ASSUME NEW d, NEW f \in Files, NEW size \in Nat, NEW q \in Nat, q < Most, NEW x \in 0 .. P - 1,
         size = q * P + x, CeilDiv(size, P) = q + 1, NEW c, Shrunk(d, c, f, q + 1),
         NEW words, words = [j \in 0 .. P - 1 |->
                               IF j < x THEN read_block_inode(c, f, q)[j] ELSE Zero],
         NEW e, e = write_block_inode(c, f, q, words)
  PROVE  Shaped(d, e, f, size)
<1>1. DOMAIN words = 0 .. P - 1
  OBVIOUS
<1>2. BlockWritten(c, e, f, q, words)
  BY <1>1, WriteBlockIs DEF Shrunk
<1>3. ASSUME ~ e.spoilt PROVE ContentBlocks(e, f) = q + 1
  <2>1. ContentBlocks(e, f) = Bigger(q + 1, q + 1)
    BY <1>2, <1>3 DEF BlockWritten, Shrunk
  <2> QED BY <2>1 DEF Bigger
<1>4. ASSUME ~ e.spoilt, NEW g \in Files, NEW m \in Nat, NEW j \in 0 .. P - 1
       PROVE  read_block_inode(e, g, m)[j] = IF g = f /\ size <= m * P + j THEN Zero
                                             ELSE read_block_inode(d, g, m)[j]
  <2>1. read_block_inode(e, g, m) = IF g = f /\ m = q THEN words ELSE read_block_inode(c, g, m)
    BY <1>2, <1>4 DEF BlockWritten
  <2>2. ~ d.spoilt
    BY <1>2, <1>4 DEF BlockWritten, Shrunk
  <2>3. \A k \in Nat : read_block_inode(c, g, k) = IF g = f /\ k >= q + 1 THEN ZeroBlock
                                                   ELSE read_block_inode(d, g, k)
    BY <2>2 DEF Shrunk
  <2>4. q * P \in Nat /\ m * P \in Nat /\ (q + 1) * P = q * P + P /\ P \in Nat
    BY Bounds
  <2>5. CASE g # f
    BY <2>1, <2>3, <2>5
  <2>6. CASE g = f /\ m = q
    <3>1. read_block_inode(e, g, m) = words
      BY <2>1, <2>6
    <3>2. words[j] = IF j < x THEN read_block_inode(c, f, q)[j] ELSE Zero
      OBVIOUS
    <3>3. ~ (q >= q + 1)
      OBVIOUS
    <3>4. read_block_inode(c, f, q) = read_block_inode(d, f, q)
      BY <2>3, <2>6, <3>3
    <3>5. size <= m * P + j <=> ~ (j < x)
      BY <2>4, <2>6
    <3> QED BY <2>6, <3>1, <3>2, <3>4, <3>5
  <2>7. CASE g = f /\ m < q
    <3>1. ~ (m >= q + 1) /\ m # q
      BY <2>7
    <3>2. read_block_inode(e, g, m) = read_block_inode(d, g, m)
      BY <2>1, <2>3, <3>1
    <3>3. (m + 1) * P <= q * P /\ (m + 1) * P = m * P + P
      BY <2>7, TimesLess, Bounds
    <3>4. ~ (size <= m * P + j)
      BY <2>4, <3>3
    <3> QED BY <3>2, <3>4
  <2>8. CASE g = f /\ m > q
    <3>1. m >= q + 1 /\ m # q
      BY <2>8
    <3>2. read_block_inode(e, g, m)[j] = Zero
      BY <2>1, <2>3, <2>8, <3>1 DEF ZeroBlock
    <3>3. (q + 1) * P <= m * P
      BY <3>1, TimesLess
    <3>4. size <= m * P + j
      BY <2>4, <3>3
    <3> QED BY <2>8, <3>2, <3>4
  <2> QED BY <2>5, <2>6, <2>7, <2>8
<1>5. /\ Fine(e) /\ (d.spoilt => e.spoilt)
      /\ \A g \in Files : e.ino[g].i_size = d.ino[g].i_size
      /\ \A g \in Files \ {f} : ContentBlocks(e, g) = ContentBlocks(d, g)
  BY <1>2 DEF BlockWritten, Shrunk
<1> QED BY <1>3, <1>4, <1>5 DEF Shaped

\* A truncation that ends the file inside one of its blocks but not in the last.
EndsInside(d, f, size) == (size % P) # 0 /\ CeilDiv(size, P) < ContentBlocks(d, f)

LEMMA ShorterShaped ==
  ASSUME NEW d, Rest(d), NEW f \in Files, NEW size \in Nat, EndsInside(d, f, size),
         NEW e, e = Shortened(d, f, size)
  PROVE  Shaped(d, e, f, size)
<1>1. PICK q \in Nat, x \in 0 .. P - 1 : q = size \div P /\ x = size % P /\ size = q * P + x
  BY DivMod
<1>2. CeilDiv(size, P) = q + 1 /\ x # 0
  BY <1>1, CeilNat DEF EndsInside
<1>3. q + 1 \in Nat /\ q + 1 < ContentBlocks(d, f) /\ q + 1 <= Most /\ q < Most
  <2>1. ContentBlocks(d, f) \in 0 .. Most
    BY NodeIs DEF Rest, Fine
  <2> QED BY <1>2, <2>1, Bounds DEF EndsInside
<1>4. Before(q + 1) = q
  BY DEF Before
<1>5. PICK r : r = free_inode_blocks(d, f, q + 1)
  OBVIOUS
<1>6. FreedGives(d, r, f, q + 1)
  BY <1>3, <1>5, FreedIs DEF Rest
<1>7. PICK c : c = r.d
  OBVIOUS
<1>8. \/ r.ok = TRUE /\ Shrunk(d, c, f, q + 1)
      \/ r.ok = FALSE /\ Stopped(d, c, f)
  BY <1>3, <1>6, <1>7 DEF FreedGives
<1>9. PICK words : words = [j \in 0 .. P - 1 |-> IF j < x THEN read_block_inode(c, f, q)[j] ELSE Zero]
  OBVIOUS
<1>10. e = IF r.ok THEN write_block_inode(c, f, q, words) ELSE c
  <2>1. (size % P) = x
    BY <1>1
  <2> QED BY <1>2, <1>4, <1>5, <1>7, <1>9, <2>1 DEF Shortened
<1>11. CASE r.ok = FALSE /\ Stopped(d, c, f)
  <2>1. e = c /\ e.spoilt
    BY <1>10, <1>11 DEF Stopped
  <2> QED BY <1>11, <2>1 DEF Stopped, Shaped
<1>12. CASE r.ok = TRUE /\ Shrunk(d, c, f, q + 1)
  <2>1. e = write_block_inode(c, f, q, words)
    BY <1>10, <1>12
  <2> QED BY <1>1, <1>2, <1>3, <1>9, <1>12, <2>1, CutShaped
<1> QED BY <1>8, <1>11, <1>12

LEMMA TruncateIs ==
  ASSUME NEW d, Rest(d), NEW f \in Files, NEW size \in Nat, size <= Most * P,
         size >= d.ino[f].i_size \/ EndsInside(d, f, size),
         NEW e, e = ext2fs_truncate(d, f, size)
  PROVE  Truncated(d, e, f, size)
<1>1. d.ino[f].i_size \in Nat
  BY DEF Rest, Fine, Whole, Disk, Inode
<1>2. PICK c : c = IF d.ino[f].i_size > size THEN Shortened(d, f, size) ELSE Lengthened(d, f, size)
  OBVIOUS
<1>3. e = [c EXCEPT !.ino[f].i_size = size]
  BY <1>2 DEF ext2fs_truncate
<1>4. Shaped(d, c, f, size)
  <2>1. CASE d.ino[f].i_size > size
    <3>1. EndsInside(d, f, size)
      BY <1>1, <2>1
    <3> QED BY <1>2, <2>1, <3>1, ShorterShaped
  <2>2. CASE ~ (d.ino[f].i_size > size)
    <3>1. d.ino[f].i_size <= size
      BY <1>1, <2>2
    <3> QED BY <1>2, <2>2, <3>1, LongerShaped
  <2> QED BY <2>1, <2>2
<1> QED BY <1>3, <1>4, SetSize

-----------------------------------------------------------------------------
(* Directories.                                                            *)

\* An inode that was cleared has no blocks.
LEMMA NoPlaces ==
  ASSUME NEW d, NEW f, d.ino[f] = EmptyInode, NEW o \in Paths
  PROVE  Lookup(d, f, o) = 0
<1> DEFINE Is(q) == Lookup(d, f, q) = 0
<1>1. ASSUME NEW q \in Paths, Top(q) PROVE Is(q)
  <2>1. Idx(q) \in 0 .. TIND
    BY <1>1, PathIs
  <2>2. d.ino[f].i_block[Idx(q)] = 0
    BY <2>1 DEF EmptyInode
  <2> QED BY <1>1, <2>2, LookupTop
<1>2. ASSUME NEW q \in Paths, ~ Top(q), Is(Up(q)) PROVE Is(q)
  BY <1>2, LookupBelow
<1> HIDE DEF Is
<1>3. CASE Top(o)
  BY <1>1, <1>3 DEF Is
<1>4. CASE ~ Top(o)
  <2>1. Up(o) \in Paths /\ (Top(Up(o)) \/ (Up(Up(o)) \in Paths /\ Top(Up(Up(o)))))
    BY <1>4, PathIs DEF Top
  <2>2. Is(Up(o))
    BY <1>1, <1>2, <2>1
  <2>3. Is(o)
    BY <1>2, <1>4, <2>2
  <2> QED BY <2>3 DEF Is
<1> QED BY <1>3, <1>4

\* Another file's inode does not matter to a file.
SameFile(d, e, g) == e.block = d.block /\ e.ino[g].i_block = d.ino[g].i_block
LEMMA OtherPlaces ==
  ASSUME NEW d, NEW e, NEW g, SameFile(d, e, g), NEW o \in Paths
  PROVE  Lookup(e, g, o) = Lookup(d, g, o)
<1> DEFINE Is(q) == Lookup(e, g, q) = Lookup(d, g, q)
<1>1. ASSUME NEW q \in Paths, Top(q) PROVE Is(q)
  BY <1>1, LookupTop DEF SameFile
<1>2. ASSUME NEW q \in Paths, ~ Top(q), Is(Up(q)) PROVE Is(q)
  <2>1. PICK y : y = Lookup(d, g, Up(q))
    OBVIOUS
  <2>2. /\ Lookup(d, g, q) = IF y = 0 THEN 0 ELSE d.block[y][Idx(q)]
        /\ Lookup(e, g, q) = IF y = 0 THEN 0 ELSE e.block[y][Idx(q)]
    BY <1>2, <2>1, LookupBelow
  <2> QED BY <2>2 DEF SameFile
<1> HIDE DEF Is
<1>3. CASE Top(o)
  BY <1>1, <1>3 DEF Is
<1>4. CASE ~ Top(o)
  <2>1. Up(o) \in Paths /\ (Top(Up(o)) \/ (Up(Up(o)) \in Paths /\ Top(Up(Up(o)))))
    BY <1>4, PathIs DEF Top
  <2>2. Is(Up(o))
    BY <1>1, <1>2, <2>1
  <2>3. Is(o)
    BY <1>2, <1>4, <2>2
  <2> QED BY <2>3 DEF Is
<1> QED BY <1>3, <1>4

\* The inode of a file without blocks is cleared.
Cleared(c, e, f) ==
  /\ Fine(e) /\ e.spoilt = c.spoilt
  /\ \A g \in Files : e.ino[g].i_size = IF g = f THEN 0 ELSE c.ino[g].i_size
  /\ \A g \in Files : ContentBlocks(e, g) = ContentBlocks(c, g)
  /\ \A g \in Files, m \in Nat : read_block_inode(e, g, m) = read_block_inode(c, g, m)

\* An inode is cleared; its blocks, if it has any, are no one's then.
Forgotten(c, e, f) ==
  /\ Whole(e) /\ e.spoilt = c.spoilt /\ e.bitmap = c.bitmap /\ e.block = c.block
  /\ e.ino[f] = EmptyInode /\ EmptyInode.i_blocks = 0 /\ EmptyInode.i_size = 0
  /\ \A g \in Files \ {f} : e.ino[g] = c.ino[g]
  /\ \A q \in Paths : Lookup(e, f, q) = 0
  /\ \A g \in Files \ {f}, q \in Paths : Lookup(e, g, q) = Lookup(c, g, q)

LEMMA ForgottenIs ==
  ASSUME NEW c, Whole(c), NEW f \in Files, NEW e, e = [c EXCEPT !.ino[f] = EmptyInode]
  PROVE  Forgotten(c, e, f)
<1>1. Disk(c) /\ Tree(c) /\ Counted(c)
  BY DEF Whole
<1>2. EmptyInode \in Inode /\ EmptyInode.i_blocks = 0 /\ EmptyInode.i_size = 0
  BY DEF EmptyInode, Inode
<1>3. /\ e.bitmap = c.bitmap /\ e.group = c.group /\ e.total = c.total /\ e.spoilt = c.spoilt
      /\ e.block = c.block /\ e.ino = [c.ino EXCEPT ![f] = EmptyInode]
      /\ e = [bitmap |-> e.bitmap, group |-> e.group, total |-> e.total, ino |-> e.ino,
              block |-> e.block, spoilt |-> e.spoilt]
  BY <1>1 DEF Disk
<1>4. e.ino \in [Files -> Inode] /\ e.ino[f] = EmptyInode
      /\ \A g \in Files \ {f} : e.ino[g] = c.ino[g]
  BY <1>1, <1>2, <1>3 DEF Disk
<1>5. Disk(e)
  BY <1>1, <1>3, <1>4 DEF Disk
<1>6. Counted(e)
  BY <1>1, <1>3 DEF Counted, FreeIn
<1>7. \A q \in Paths : Lookup(e, f, q) = 0
  BY <1>4, NoPlaces
<1>8. ASSUME NEW g \in Files \ {f}, NEW q \in Paths PROVE Lookup(e, g, q) = Lookup(c, g, q)
  <2>1. SameFile(c, e, g)
    BY <1>3, <1>4 DEF SameFile
  <2> QED BY <2>1, OtherPlaces
<1>9. Tree(e)
  <2>1. \A g \in Files, q \in Paths : Lookup(e, g, q) # 0 => g # f /\ Lookup(e, g, q) = Lookup(c, g, q)
    BY <1>7, <1>8
  <2>2. ASSUME NEW g \in Files, NEW q \in Paths
        PROVE  Lookup(e, g, q) = 0 \/ Lookup(e, g, q) \in e.bitmap \ Reserved
    BY <1>1, <1>3, <2>1 DEF Tree
  <2>3. ASSUME NEW g \in Files, NEW h \in Files, NEW q \in Paths, NEW p \in Paths,
               Lookup(e, g, q) = Lookup(e, h, p) /\ Lookup(e, g, q) # 0
        PROVE  g = h /\ q = p
    <3>1. Lookup(c, g, q) = Lookup(c, h, p) /\ Lookup(c, g, q) # 0
      BY <2>1, <2>3
    <3> QED BY <1>1, <3>1 DEF Tree
  <2> QED BY <2>2, <2>3 DEF Tree
<1> QED BY <1>2, <1>3, <1>4, <1>5, <1>6, <1>7, <1>8, <1>9 DEF Forgotten, Whole

LEMMA ClearedIs ==
  ASSUME NEW c, Fine(c), NEW f \in Files, ContentBlocks(c, f) = 0,
         NEW e, e = [c EXCEPT !.ino[f] = EmptyInode]
  PROVE  Cleared(c, e, f)
<1>1. Forgotten(c, e, f)
  BY ForgottenIs DEF Fine
<1>2. 0 <= NDIR /\ 0 \in Nat /\ 0 <= Most
  BY Bounds
<1>3. get_block_count(0) = 0
  BY <1>2, CountIs
<1>4. EmptyInode.i_blocks = 0 /\ EmptyInode.i_size = 0
  BY <1>1 DEF Forgotten
<1>5. e.block = c.block /\ e.spoilt = c.spoilt /\ e.bitmap = c.bitmap
  BY <1>1 DEF Forgotten
<1>6. e.ino[f] = EmptyInode /\ \A g \in Files \ {f} : e.ino[g] = c.ino[g]
  BY <1>1 DEF Forgotten
<1>7. \A q \in Paths : Lookup(e, f, q) = 0
  BY <1>1 DEF Forgotten
<1>8. \A g \in Files \ {f}, q \in Paths : Lookup(e, g, q) = Lookup(c, g, q)
  BY <1>1 DEF Forgotten
<1>9. \A g \in Files : e.ino[g].i_blocks = c.ino[g].i_blocks
  <2>1. c.ino[f].i_blocks = 0
    BY <1>3, NodeIs DEF Fine
  <2> QED BY <1>4, <1>6, <2>1
<1>10. \A g \in Files : ContentBlocks(e, g) = ContentBlocks(c, g)
  BY <1>9 DEF ContentBlocks
<1>11. Nodes(e)
  BY <1>9 DEF Fine, Nodes
<1>12. ASSUME ~ c.spoilt PROVE Tidy(e)
  <2>1. Tidy(c)
    BY <1>12 DEF Fine
  <2>2. Slots(c.ino[f].i_blocks) = {}
    <3>1. c.ino[f].i_blocks = 0
      BY <1>3, NodeIs DEF Fine
    <3> QED BY <3>1 DEF Slots
  <2>3. \A q \in Paths : Lookup(c, f, q) = 0
    BY <2>1, <2>2 DEF Tidy, Has
  <2>4. \A g \in Files, q \in Paths : Lookup(e, g, q) = Lookup(c, g, q)
    BY <1>7, <1>8, <2>3
  <2>5. Lost(e) = Lost(c)
    BY <1>5, <2>4 DEF Lost
  <2>6. \A g \in Files, q \in Paths : Has(e, g, q) <=> Has(c, g, q)
    BY <2>4 DEF Has
  <2> QED BY <1>9, <2>1, <2>5, <2>6 DEF Tidy
<1>13. Fine(e)
  BY <1>1, <1>5, <1>11, <1>12 DEF Forgotten, Fine
<1>14. ASSUME NEW g \in Files, NEW m \in Nat
       PROVE  read_block_inode(e, g, m) = read_block_inode(c, g, m)
  <2>1. PICK x : x = ContentBlocks(c, g)
    OBVIOUS
  <2>2. CASE m >= x
    BY <1>10, <2>1, <2>2 DEF read_block_inode
  <2>3. CASE ~ (m >= x)
    <3>1. x \in 0 .. Most
      BY <2>1, NodeIs DEF Fine
    <3>2. m < Most /\ g # f
      BY <2>1, <2>3, <3>1, Bounds
    <3>3. PICK q \in Paths : q = RealPath(m)
      BY <3>2, RealLeaf
    <3>4. Lookup(e, g, q) = Lookup(c, g, q)
      BY <1>8, <3>2
    <3> QED BY <1>5, <1>10, <2>1, <2>3, <3>3, <3>4 DEF read_block_inode, get_real_block
  <2> QED BY <2>2, <2>3
<1>15. \A g \in Files : e.ino[g].i_size = IF g = f THEN 0 ELSE c.ino[g].i_size
  BY <1>4, <1>6
<1> QED BY <1>5, <1>10, <1>13, <1>14, <1>15 DEF Cleared

LEMMA ZeroIs ==
  /\ CeilDiv(0, P) = 0 /\ (0 % P) = 0 /\ get_block_count(0) = 0 /\ get_content_blocks(0) = 0
<1>1. 0 \in Nat /\ 0 \in 0 .. P - 1 /\ 0 <= Most /\ 0 <= NDIR
  BY Bounds
<1>2. CeilDiv(0 * P + 0, P) = 0 /\ (0 * P + 0) % P = 0
  BY <1>1, CeilIs, DivUnique
<1>3. 0 * P + 0 = 0
  BY Bounds
<1>4. get_block_count(0) = 0
  BY <1>1, CountIs
<1>5. get_content_blocks(get_block_count(0)) = 0
  BY <1>1, ContentIs
<1> QED BY <1>2, <1>3, <1>4, <1>5

\* A file that has no blocks left is cleared.
LEMMA RemoveRight ==
  ASSUME NEW d, Fine(d), NEW f \in Files, NEW c, Shrunk(d, c, f, 0),
         NEW e, e = [c EXCEPT !.ino[f] = EmptyInode]
  PROVE  Truncated(d, e, f, 0)
<1>1. /\ Fine(e) /\ e.spoilt = c.spoilt
      /\ \A g \in Files : e.ino[g].i_size = IF g = f THEN 0 ELSE c.ino[g].i_size
      /\ \A g \in Files : ContentBlocks(e, g) = ContentBlocks(c, g)
      /\ \A g \in Files, m \in Nat : read_block_inode(e, g, m) = read_block_inode(c, g, m)
  <2>1. Fine(c) /\ ContentBlocks(c, f) = 0
    BY DEF Shrunk
  <2>2. Cleared(c, e, f)
    BY <2>1, ClearedIs
  <2> QED BY <2>2 DEF Cleared
<1>2. CeilDiv(0, P) = 0
  <2>1. CeilDiv(0, P) \in Nat /\ (0 <= 0 * P => CeilDiv(0, P) <= 0)
    BY CeilNat
  <2>2. 0 * P = 0
    BY Bounds
  <2> QED BY <2>1, <2>2
<1>3. ASSUME ~ e.spoilt, NEW g \in Files, NEW m \in Nat, NEW j \in 0 .. P - 1
       PROVE  read_block_inode(e, g, m)[j] = IF g = f /\ 0 <= m * P + j THEN Zero
                                             ELSE read_block_inode(d, g, m)[j]
  <2>1. ~ d.spoilt
    BY <1>1, <1>3 DEF Shrunk
  <2>2. m * P + j \in Nat /\ m >= 0
    BY Bounds
  <2>3. read_block_inode(e, g, m) = IF g = f THEN ZeroBlock ELSE read_block_inode(d, g, m)
    BY <1>1, <2>1, <2>2 DEF Shrunk
  <2>4. ZeroBlock[j] = Zero /\ 0 <= m * P + j
    BY <2>2 DEF ZeroBlock
  <2> QED BY <2>3, <2>4
<1>4. /\ (d.spoilt => e.spoilt)
      /\ \A g \in Files : e.ino[g].i_size = IF g = f THEN 0 ELSE d.ino[g].i_size
      /\ \A g \in Files \ {f} : ContentBlocks(e, g) = ContentBlocks(d, g)
      /\ ContentBlocks(e, f) = CeilDiv(0, P)
  BY <1>1, <1>2 DEF Shrunk
<1> QED BY <1>1, <1>3, <1>4 DEF Truncated

LEMMA RemoveIs ==
  ASSUME NEW d, Rest(d), NEW f \in Files,
         NEW e, e = [free_inode_blocks(d, f, 0).d EXCEPT !.ino[f] = EmptyInode]
  PROVE  Truncated(d, e, f, 0)
<1>1. PICK r : r = free_inode_blocks(d, f, 0)
  OBVIOUS
<1>2. 0 \in Nat /\ 0 <= Most
  BY Bounds
<1>3. FreedGives(d, r, f, 0)
  BY <1>1, <1>2, FreedIs DEF Rest
<1>4. PICK c : c = r.d
  OBVIOUS
<1>5. PICK b \in 0 .. Most : b = ContentBlocks(d, f)
  BY NodeIs DEF Rest, Fine
<1>6. e = [c EXCEPT !.ino[f] = EmptyInode]
  BY <1>1, <1>4
<1>7. CASE Shrunk(d, c, f, 0)
  BY <1>6, <1>7, RemoveRight DEF Rest
<1>8. CASE ~ (0 < ContentBlocks(d, f))
  <2>1. c = d /\ ContentBlocks(d, f) = 0
    BY <1>3, <1>4, <1>5, <1>8, Bounds DEF FreedGives
  <2>2. \A m \in Nat : m >= 0
    OBVIOUS
  <2>3. \A m \in Nat : read_block_inode(d, f, m) = ZeroBlock
    BY <2>1, <2>2 DEF read_block_inode
  <2>4. Shrunk(d, c, f, 0)
    BY <2>1, <2>3 DEF Shrunk, Rest
  <2> QED BY <1>7, <2>4
<1>9. CASE Stopped(d, c, f)
  <2>1. /\ Fine(c) /\ c.spoilt = d.spoilt /\ d.spoilt
        /\ \A g \in Files : c.ino[g].i_size = d.ino[g].i_size
        /\ \A g \in Files : ContentBlocks(c, g) = ContentBlocks(d, g)
    BY <1>9 DEF Stopped
  <2>2. Forgotten(c, e, f)
    BY <1>6, <2>1, ForgottenIs DEF Fine
  <2>3. e.spoilt /\ Whole(e)
    BY <2>1, <2>2 DEF Forgotten
  <2>4. Nodes(e)
    <3>1. ASSUME NEW g \in Files PROVE \E x \in 0 .. Most : e.ino[g].i_blocks = get_block_count(x)
      <4>1. CASE g = f
        <5>1. 0 \in 0 .. Most /\ e.ino[g].i_blocks = get_block_count(0)
          BY <2>2, <4>1, ZeroIs, Bounds DEF Forgotten
        <5> QED BY <5>1
      <4>2. CASE g # f
        BY <2>1, <2>2, <4>2 DEF Forgotten, Fine, Nodes
      <4> QED BY <4>1, <4>2
    <3> QED BY <3>1 DEF Nodes
  <2>5. Fine(e)
    BY <2>3, <2>4 DEF Fine
  <2>6. \A g \in Files : e.ino[g].i_size = IF g = f THEN 0 ELSE d.ino[g].i_size
    BY <2>1, <2>2 DEF Forgotten
  <2>7. \A g \in Files \ {f} : ContentBlocks(e, g) = ContentBlocks(d, g)
    BY <2>1, <2>2 DEF Forgotten, ContentBlocks
  <2> QED BY <2>3, <2>5, <2>6, <2>7 DEF Truncated
<1> QED BY <1>3, <1>4, <1>7, <1>8, <1>9 DEF FreedGives

LEMMA TimesNext ==
  ASSUME NEW m \in Nat, NEW q \in Nat, m < q
  PROVE  m * P \in Nat /\ q * P \in Nat /\ m * P + P <= q * P
<1>1. (m + 1) * P <= q * P /\ (m + 1) * P = m * P + P
  BY TimesLess, Bounds
<1> QED BY <1>1, Bounds

\* A directory's next block is a write of one block at its end.
HasRoom(size) == (size % P) = 0 /\ size + P <= Most * P
LEMMA ProductNat == ASSUME NEW m \in Nat PROVE m * P \in Nat /\ m + P \in Nat /\ P \in Nat
BY Bounds

LEMMA RoomLess == ASSUME NEW m \in Nat, NEW b \in Nat, m + P <= b PROVE m < b
BY Bounds

LEMMA RoomIs ==
  ASSUME NEW size, HasRoom(size), NEW b, b = Most * P
  PROVE  size + P <= b
BY Zenon DEF HasRoom

\* Words of another block are outside.
LEMMA OutsideBlock ==
  ASSUME NEW a \in Nat, NEW c \in Nat, NEW j \in 0 .. P - 1, a + P <= c \/ c + P <= a
  PROVE  ~ Inside(c, P, a + j)
BY Bounds DEF Inside

LEMMA InsideBlock ==
  ASSUME NEW a \in Nat, NEW j \in 0 .. P - 1
  PROVE  Inside(a, P, a + j)
BY Bounds DEF Inside

LEMMA AddIs ==
  ASSUME NEW d, Rest(d), NEW f \in Files, NEW size \in Nat, size = d.ino[f].i_size, HasRoom(size),
         NEW words, words = [j \in 0 .. P - 1 |-> Word(f, size + j)],
         NEW e, e = write_block_inode([d EXCEPT !.ino[f].i_size = size + P], f, size \div P, words)
  PROVE  BufferWritten(d, e, f, size, P)
<1>1. PICK q \in Nat : q = size \div P /\ size = q * P
  <2>1. PICK x \in Nat, y \in 0 .. P - 1 : x = size \div P /\ y = size % P /\ size = x * P + y
    BY DivMod
  <2>2. PICK z \in Nat : z = x * P
    BY Bounds
  <2>3. y = 0
    BY <2>1 DEF HasRoom
  <2>4. size = z
    <3>1. size = z + y
      BY <2>1, <2>2, Zenon
    <3> QED BY <2>2, <2>3, <3>1
  <2> QED BY <2>1, <2>2, <2>4
<1>2. q < Most
  <2>1. size < Most * P
    <3>1. PICK b \in Nat : b = Most * P
      BY Bounds
    <3>2. size + P <= b
      BY <3>1, RoomIs, Zenon
    <3>3. size < b
      BY <3>2, RoomLess, Zenon
    <3> QED BY <3>1, <3>3, Zenon
  <2>2. Most \in Nat
    BY Bounds
  <2>3. size \div P < Most
    BY <2>1, <2>2, DivBelow, Zenon
  <2> QED BY <1>1, <2>3, Zenon
<1>3. PICK new \in Nat : new = size + P
  BY ProductNat, Zenon
<1>4. PICK c : c = [d EXCEPT !.ino[f].i_size = new]
  OBVIOUS
<1>5. Resized(d, c, f, new)
  BY <1>4, ResizedIs DEF Rest
<1>6. e = write_block_inode(c, f, q, words)
  BY <1>1, <1>3, <1>4
<1>7. DOMAIN words = 0 .. P - 1
  OBVIOUS
<1>8. BlockWritten(c, e, f, q, words)
  BY <1>2, <1>5, <1>6, <1>7, WriteBlockIs DEF Resized
<1>9. CeilDiv(size + P, P) = q + 1
  <2>1. (q + 1) * P = q * P + P /\ q * P \in Nat
    BY Bounds
  <2>2. 0 \in 0 .. P - 1 /\ q + 1 \in Nat
    BY Bounds
  <2>3. CeilDiv((q + 1) * P + 0, P) = q + 1
    BY <2>2, CeilIs
  <2>4. size + P = (q + 1) * P + 0
    <3>1. PICK x \in Nat : x = q * P
      BY <2>1
    <3>2. size = x /\ (q + 1) * P = x + P /\ P \in Nat
      BY <1>1, <2>1, <3>1, Bounds
    <3> QED BY <3>2
  <2> QED BY <2>3, <2>4
<1>10. ASSUME ~ e.spoilt, NEW g \in Files, NEW m \in Nat, NEW j \in 0 .. P - 1
       PROVE  read_block_inode(e, g, m)[j] = IF g = f /\ Inside(size, P, m * P + j)
                                             THEN Word(f, m * P + j)
                                             ELSE read_block_inode(d, g, m)[j]
  <2>1. read_block_inode(e, g, m) = IF g = f /\ m = q THEN words ELSE read_block_inode(d, g, m)
    BY <1>5, <1>8, <1>10 DEF BlockWritten, Resized
  <2>2. m * P \in Nat /\ q * P \in Nat /\ P \in Nat
    BY ProductNat, Zenon
  <2>3. CASE m = q
    <3>1. Inside(size, P, m * P + j)
      BY <1>1, <2>2, <2>3, InsideBlock, Zenon
    <3>2. words[j] = Word(f, m * P + j)
      BY <1>1, <2>3
    <3> QED BY <2>1, <2>3, <3>1, <3>2
  <2>4. CASE m # q
    <3>1. ~ Inside(size, P, m * P + j)
      <4>1. CASE m < q
        <5>1. m * P + P <= q * P
          BY <4>1, TimesNext
        <5> QED BY <1>1, <2>2, <5>1, OutsideBlock, Zenon
      <4>2. CASE q < m
        <5>1. q * P + P <= m * P
          BY <4>2, TimesNext
        <5> QED BY <1>1, <2>2, <5>1, OutsideBlock, Zenon
      <4> QED BY <2>4, <4>1, <4>2
    <3> QED BY <2>1, <2>4, <3>1
  <2> QED BY <2>3, <2>4
<1>11. \A g \in Files :
         e.ino[g].i_size = IF g = f THEN Bigger(d.ino[f].i_size, size + P) ELSE d.ino[g].i_size
  <2>1. Bigger(size, size + P) = size + P
    BY Bounds DEF Bigger
  <2> QED BY <1>3, <1>5, <1>8, <2>1 DEF BlockWritten, Resized
<1>12. ~ e.spoilt => ContentBlocks(e, f) = Bigger(ContentBlocks(d, f), CeilDiv(size + P, P))
  BY <1>5, <1>8, <1>9 DEF BlockWritten, Resized
<1>13. /\ Fine(e) /\ (d.spoilt => e.spoilt)
       /\ \A g \in Files \ {f} : ContentBlocks(e, g) = ContentBlocks(d, g)
  BY <1>5, <1>8 DEF BlockWritten, Resized
<1> QED BY <1>10, <1>11, <1>12, <1>13 DEF BufferWritten

-----------------------------------------------------------------------------
(* The invariant.                                                          *)

LEMMA RestSize ==
  ASSUME NEW d, Rest(d), NEW f \in Files
  PROVE  d.ino[f].i_size \in Nat /\ MaxSize[f] \in Nat /\ d.ino[f].i_size <= MaxSize[f]
BY BlocksAssumption DEF Rest, Sized

LEMMA RestBuffer ==
  ASSUME NEW d, Rest(d), NEW f \in Files, NEW off \in Nat, NEW n \in Nat \ {0},
         off + n <= MaxSize[f], f \in Dirs => ((off + n) % P) = 0,
         NEW e, BufferWritten(d, e, f, off, n)
  PROVE  Rest(e)
<1>1. \A g \in Files : d.ino[g].i_size \in Nat /\ MaxSize[g] \in Nat /\ d.ino[g].i_size <= MaxSize[g]
  BY RestSize
<1>2. Sized(e)
  <2>1. ASSUME NEW g \in Files
        PROVE  e.ino[g].i_size \in 0 .. MaxSize[g] /\ (g \in Dirs => (e.ino[g].i_size % P) = 0)
    <3>1. CASE g = f
      <4>1. e.ino[g].i_size = IF d.ino[f].i_size < off + n THEN off + n ELSE d.ino[f].i_size
        BY <3>1 DEF BufferWritten, Bigger
      <4> QED BY <1>1, <3>1, <4>1 DEF Rest, Sized
    <3>2. CASE g # f
      BY <3>2 DEF BufferWritten, Rest, Sized
    <3> QED BY <3>1, <3>2
  <2> QED BY <2>1 DEF Sized
<1>3. ASSUME ~ e.spoilt PROVE Fitting(e) /\ NothingBehind(e)
  <2>1. Fitting(d) /\ NothingBehind(d)
    BY <1>3 DEF BufferWritten, Rest
  <2>2. ASSUME NEW g \in Files PROVE ContentBlocks(e, g) = CeilDiv(e.ino[g].i_size, P)
    <3>1. CASE g = f
      <4>1. PICK s \in Nat, t \in Nat : s = d.ino[f].i_size /\ t = off + n
        BY <1>1
      <4>2. e.ino[g].i_size = Bigger(s, t) /\ ContentBlocks(e, g) = Bigger(CeilDiv(s, P), CeilDiv(t, P))
        BY <1>3, <2>1, <3>1, <4>1 DEF BufferWritten, Fitting
      <4>3. CeilDiv(s, P) \in Nat /\ CeilDiv(t, P) \in Nat
        BY CeilNat
      <4>4. CASE s < t
        <5>1. CeilDiv(s, P) <= CeilDiv(t, P)
          BY <4>4, CeilGrows
        <5>2. Bigger(s, t) = t /\ Bigger(CeilDiv(s, P), CeilDiv(t, P)) = CeilDiv(t, P)
          BY <4>3, <4>4, <5>1 DEF Bigger
        <5> QED BY <4>2, <5>2
      <4>5. CASE ~ (s < t)
        <5>1. CeilDiv(t, P) <= CeilDiv(s, P)
          BY <4>5, CeilGrows
        <5>2. Bigger(s, t) = s /\ Bigger(CeilDiv(s, P), CeilDiv(t, P)) = CeilDiv(s, P)
          BY <4>3, <4>5, <5>1 DEF Bigger
        <5> QED BY <4>2, <5>2
      <4> QED BY <4>4, <4>5
    <3>2. CASE g # f
      BY <2>1, <3>2 DEF BufferWritten, Fitting
    <3> QED BY <3>1, <3>2
  <2>3. ASSUME NEW g \in Files, NEW m \in Nat, NEW j \in 0 .. P - 1, e.ino[g].i_size <= m * P + j
        PROVE  read_block_inode(e, g, m)[j] = Zero
    <3>1. m * P + j \in Nat
      BY Bounds
    <3>2. d.ino[g].i_size <= m * P + j /\ ~ (g = f /\ Inside(off, n, m * P + j))
      <4>1. CASE g = f
        <5>1. e.ino[g].i_size = IF d.ino[f].i_size < off + n THEN off + n ELSE d.ino[f].i_size
          BY <4>1 DEF BufferWritten, Bigger
        <5> QED BY <1>1, <2>3, <3>1, <4>1, <5>1 DEF Inside
      <4>2. CASE g # f
        BY <2>3, <4>2 DEF BufferWritten
      <4> QED BY <4>1, <4>2
    <3>3. read_block_inode(e, g, m)[j] = read_block_inode(d, g, m)[j]
      BY <1>3, <3>2 DEF BufferWritten
    <3> QED BY <2>1, <3>2, <3>3 DEF NothingBehind
  <2> QED BY <2>2, <2>3 DEF Fitting, NothingBehind
<1> QED BY <1>2, <1>3 DEF Rest, BufferWritten

LEMMA RestTruncated ==
  ASSUME NEW d, Rest(d), NEW f \in Files, NEW size \in Nat, size <= MaxSize[f],
         f \in Dirs => (size % P) = 0, NEW e, Truncated(d, e, f, size)
  PROVE  Rest(e)
<1>1. \A g \in Files : d.ino[g].i_size \in Nat /\ MaxSize[g] \in Nat /\ d.ino[g].i_size <= MaxSize[g]
  BY RestSize
<1>2. Sized(e)
  <2>1. ASSUME NEW g \in Files
        PROVE  e.ino[g].i_size \in 0 .. MaxSize[g] /\ (g \in Dirs => (e.ino[g].i_size % P) = 0)
    <3>1. CASE g = f
      <4>1. e.ino[g].i_size = size
        BY <3>1 DEF Truncated
      <4> QED BY <1>1, <3>1, <4>1
    <3>2. CASE g # f
      BY <3>2 DEF Truncated, Rest, Sized
    <3> QED BY <3>1, <3>2
  <2> QED BY <2>1 DEF Sized
<1>3. ASSUME ~ e.spoilt PROVE Fitting(e) /\ NothingBehind(e)
  <2>1. Fitting(d) /\ NothingBehind(d)
    BY <1>3 DEF Truncated, Rest
  <2>2. ASSUME NEW g \in Files PROVE ContentBlocks(e, g) = CeilDiv(e.ino[g].i_size, P)
    BY <1>3, <2>1 DEF Truncated, Fitting
  <2>3. ASSUME NEW g \in Files, NEW m \in Nat, NEW j \in 0 .. P - 1, e.ino[g].i_size <= m * P + j
        PROVE  read_block_inode(e, g, m)[j] = Zero
    <3>1. CASE g = f
      BY <1>3, <2>3, <3>1 DEF Truncated
    <3>2. CASE g # f
      <4>1. d.ino[g].i_size <= m * P + j
        BY <2>3, <3>2 DEF Truncated
      <4>2. read_block_inode(e, g, m)[j] = read_block_inode(d, g, m)[j]
        BY <1>3, <3>2 DEF Truncated
      <4> QED BY <2>1, <4>1, <4>2 DEF NothingBehind
    <3> QED BY <3>1, <3>2
  <2> QED BY <2>2, <2>3 DEF Fitting, NothingBehind
<1> QED BY <1>2, <1>3 DEF Rest, Truncated

LEMMA InitRest == Init => Rest(disk)
<1> SUFFICES ASSUME Init PROVE Rest(disk)
  OBVIOUS
<1>1. /\ disk.bitmap = Reserved /\ disk.spoilt = FALSE
      /\ disk.group = [g \in 0 .. Groups - 1 |->
                         Cardinality({b \in Blocks \ Reserved : GroupOf(b) = g})]
      /\ disk.total = Cardinality(Blocks \ Reserved)
      /\ disk.ino = [f \in Files |-> EmptyInode] /\ disk.block = [b \in Blocks |-> StaleBlock]
      /\ disk = [bitmap |-> disk.bitmap, group |-> disk.group, total |-> disk.total,
                 ino |-> disk.ino, block |-> disk.block, spoilt |-> disk.spoilt]
  BY DEF Init
<1>2. \A g : FreeIn(disk, g) = {b \in Blocks \ Reserved : GroupOf(b) = g}
  BY <1>1 DEF FreeIn
<1>3. \A g : Cardinality(FreeIn(disk, g)) \in Nat
  BY FreeFinite, FS_CardinalityType
<1>4. Cardinality(Blocks \ Reserved) \in Nat
  <2>1. IsFiniteSet(Blocks \ disk.bitmap)
    BY FreeFinite
  <2> QED BY <1>1, <2>1, FS_CardinalityType
<1>5. Counted(disk)
  BY <1>1, <1>2 DEF Counted
<1>6. EmptyInode \in Inode /\ EmptyInode.i_blocks = 0 /\ EmptyInode.i_size = 0
  BY DEF EmptyInode, Inode
<1>7. Disk(disk)
  <2>1. disk.group \in [0 .. Groups - 1 -> Int]
    <3>1. PICK v : v = [g \in 0 .. Groups - 1 |-> Cardinality(FreeIn(disk, g))]
      OBVIOUS
    <3>2. disk.group = v
      BY <1>1, <1>2, <3>1
    <3>3. v \in [0 .. Groups - 1 -> Int]
      BY <1>3, <3>1
    <3> QED BY <3>2, <3>3
  <2>2. \A b \in Blocks : DOMAIN disk.block[b] = 0 .. P - 1
    BY <1>1 DEF StaleBlock
  <2>3. disk.ino \in [Files -> Inode]
    BY <1>1, <1>6
  <2>4. disk \in [bitmap : SUBSET Blocks, group : [0 .. Groups - 1 -> Int], total : Int,
                  ino : [Files -> Inode], block : {disk.block}, spoilt : BOOLEAN]
    <3>0. disk.bitmap \in SUBSET Blocks
      BY <1>1, BlockFacts
    <3>1. disk.bitmap \in SUBSET Blocks /\ disk.total \in Int /\ disk.spoilt \in BOOLEAN
      <4>1. disk.total \in Nat
        BY <1>1, <1>4, Zenon
      <4>2. disk.spoilt \in BOOLEAN
        BY <1>1, Zenon
      <4> QED BY <3>0, <4>1, <4>2
    <3> QED BY <1>1, <2>1, <2>3, <3>1
  <2> QED BY <1>1, <2>2, <2>4 DEF Disk
<1>8. \A f \in Files, o \in Paths : Lookup(disk, f, o) = 0
  BY <1>1, NoPlaces
<1>9. Tree(disk)
  BY <1>8 DEF Tree
<1>10. \A f \in Files : disk.ino[f].i_blocks = 0 /\ disk.ino[f].i_size = 0
  BY <1>1, <1>6
<1>11. Nodes(disk)
  <2>1. 0 \in 0 .. Most
    BY Bounds
  <2> QED BY <1>10, <2>1, ZeroIs DEF Nodes
<1>12. Tidy(disk)
  <2>1. Lost(disk) = {}
    BY <1>1 DEF Lost
  <2>2. Slots(0) = {}
    BY DEF Slots
  <2> QED BY <1>8, <1>10, <2>1, <2>2 DEF Tidy, Has
<1>13. Sized(disk)
  <2>1. ASSUME NEW f \in Files
        PROVE  disk.ino[f].i_size \in 0 .. MaxSize[f] /\ (f \in Dirs => (disk.ino[f].i_size % P) = 0)
    <3>1. 0 \in 0 .. MaxSize[f]
      BY BlocksAssumption
    <3>2. disk.ino[f].i_size = 0
      BY <1>10
    <3>3. (disk.ino[f].i_size % P) = 0
      BY <3>2, ZeroIs, Zenon
    <3> QED BY <3>1, <3>2, <3>3
  <2> QED BY <2>1 DEF Sized
<1>14. \A f \in Files : ContentBlocks(disk, f) = 0
  BY <1>10, ZeroIs DEF ContentBlocks
<1>15. Fitting(disk)
  BY <1>10, <1>14, ZeroIs DEF Fitting
<1>16. NothingBehind(disk)
  <2>1. ASSUME NEW f \in Files, NEW m \in Nat, NEW j \in 0 .. P - 1
        PROVE  read_block_inode(disk, f, m)[j] = Zero
    <3>1. read_block_inode(disk, f, m) = ZeroBlock
      BY <1>14 DEF read_block_inode
    <3> QED BY <3>1 DEF ZeroBlock
  <2> QED BY <2>1 DEF NothingBehind
<1> QED BY <1>5, <1>7, <1>9, <1>11, <1>12, <1>13, <1>15, <1>16 DEF Rest, Fine, Whole

\* Where a write may begin, and how long it may be: a new block of a directory too.
Starts == Offsets \cup {k * P : k \in 0 .. Groups * PerGroup}
Spans == Lengths \cup {P}

\* A step writes to a file or truncates it.
Puts(d, e, f, off, n) ==
  /\ off + n <= MaxSize[f] /\ (f \in Dirs => ((off + n) % P) = 0)
  /\ ~ e.spoilt => off \in Starts
  /\ BufferWritten(d, e, f, off, n)
Cuts(d, e, f, size) ==
  /\ size <= MaxSize[f] /\ (f \in Dirs => (size % P) = 0)
  /\ Truncated(d, e, f, size)
\* Or it frees a block of a directory that i_blocks still counts.
Spoils(e) == Fine(e) /\ Sized(e) /\ e.spoilt
StepIs(d, e) ==
  \/ Spoils(e)
  \/ \E f \in Files : \E off \in Nat, n \in Spans : Puts(d, e, f, off, n)
  \/ \E f \in Files : \E size \in Sizes \cup {0} : Cuts(d, e, f, size)

LEMMA MostBound ==
  ASSUME Contract, NEW f \in Files, NEW x \in Nat, x <= MaxSize[f]
  PROVE  x <= Most * P
<1>1. PICK b \in Nat : b = Most * P
  BY Bounds
<1>2. MaxSize[f] <= b
  BY <1>1 DEF Contract, Most
<1>3. MaxSize[f] \in Nat
  BY BlocksAssumption
<1>4. x <= b
  BY <1>2, <1>3
<1> QED BY <1>1, <1>4

LEMMA WriteStep ==
  ASSUME Contract, Rest(disk), NEW f \in Files, Write(f)
  PROVE  StepIs(disk, disk')
<1>1. PICK off \in Offsets, n \in Lengths :
        off + n <= MaxSize[f] /\ disk' = write_buffer_inode(disk, f, off, n)
  BY DEF Write
<1>2. off \in Nat /\ n \in Nat \ {0} /\ f \notin Dirs
  BY BlocksAssumption DEF Write
<1>3. off + n <= Most * P
  BY <1>1, <1>2, MostBound
<1>4. BufferWritten(disk, disk', f, off, n)
  BY <1>1, <1>2, <1>3, BufferIs DEF Rest
<1>5. Puts(disk, disk', f, off, n)
  BY <1>1, <1>2, <1>4 DEF Puts, Starts
<1> QED BY <1>1, <1>2, <1>5 DEF StepIs, Spans

LEMMA TruncateStep ==
  ASSUME Contract, Rest(disk), NEW f \in Files, Truncate(f)
  PROVE  StepIs(disk, disk')
<1>1. PICK size \in Sizes : size <= MaxSize[f] /\ Sound(f, size) /\ disk' = ext2fs_truncate(disk, f, size)
  BY DEF Truncate, Contract
<1>2. size \in Nat /\ f \notin Dirs
  BY BlocksAssumption DEF Truncate
<1>3. size <= Most * P
  BY <1>1, <1>2, MostBound
<1>4. size >= disk.ino[f].i_size \/ EndsInside(disk, f, size)
  BY <1>1 DEF Sound, EndsInside
<1>5. Truncated(disk, disk', f, size)
  BY <1>1, <1>2, <1>3, <1>4, TruncateIs
<1>6. Cuts(disk, disk', f, size)
  BY <1>1, <1>2, <1>5 DEF Cuts
<1> QED BY <1>6 DEF StepIs

LEMMA RemoveStep ==
  ASSUME Rest(disk), NEW f \in Files, RemoveDir(f)
  PROVE  StepIs(disk, disk')
<1>1. disk' = [free_inode_blocks(disk, f, 0).d EXCEPT !.ino[f] = EmptyInode]
  BY DEF RemoveDir
<1>2. Truncated(disk, disk', f, 0)
  BY <1>1, RemoveIs
<1>3. 0 <= MaxSize[f]
  BY BlocksAssumption
<1>4. Cuts(disk, disk', f, 0)
  BY <1>2, <1>3, ZeroIs DEF Cuts
<1> QED BY <1>4 DEF StepIs

LEMMA AddStep ==
  ASSUME Contract, Rest(disk), NEW f \in Files, AddBlock(f)
  PROVE  StepIs(disk, disk')
<1>1. PICK size \in Nat : size = disk.ino[f].i_size
  BY RestSize
<1>2. f \in Dirs /\ size + P <= MaxSize[f]
  BY <1>1 DEF AddBlock
<1>3. PICK words : words = [j \in 0 .. P - 1 |-> Word(f, size + j)]
  OBVIOUS
<1>4. disk' = write_block_inode([disk EXCEPT !.ino[f].i_size = size + P], f, size \div P, words)
  BY <1>1, <1>3 DEF AddBlock
<1>5. HasRoom(size)
  <2>1. (size % P) = 0
    BY <1>1, <1>2 DEF Rest, Sized
  <2>2. size + P \in Nat
    BY Bounds
  <2>3. size + P <= Most * P
    BY <1>2, <2>2, MostBound
  <2> QED BY <2>1, <2>3 DEF HasRoom
<1>6. BufferWritten(disk, disk', f, size, P)
  BY <1>1, <1>3, <1>4, <1>5, AddIs
<1>7. PICK q \in Nat, y \in 0 .. P - 1 : q = size \div P /\ y = size % P /\ size = q * P + y
  BY DivMod
<1>8. y = 0
  BY <1>5, <1>7 DEF HasRoom
<1>9. size = q * P
  <2>1. PICK z \in Nat : z = q * P
    BY Bounds
  <2>2. size = z + y
    BY <1>7, <2>1, Zenon
  <2>3. size = z
    BY <1>8, <2>1, <2>2
  <2> QED BY <2>1, <2>3
<1>10. ((size + P) % P) = 0
  <2>1. q + 1 \in Nat /\ 0 \in 0 .. P - 1
    BY Bounds
  <2>2. ((q + 1) * P + 0) % P = 0
    BY <2>1, DivUnique
  <2>3. (q + 1) * P + 0 = q * P + P
    BY Bounds
  <2> QED BY <1>9, <2>2, <2>3, Zenon
<1>11. ASSUME ~ disk'.spoilt PROVE size \in Starts
  <2>1. Fine(disk) /\ ~ disk.spoilt /\ ContentBlocks(disk, f) = CeilDiv(size, P)
    BY <1>1, <1>6, <1>11 DEF Rest, Fitting, BufferWritten
  <2>2. ContentBlocks(disk, f) < Total
    BY <2>1, FewBlocks
  <2>3. CeilDiv(size, P) = q
    <3>1. CeilDiv(q * P + y, P) = q
      BY <1>8, CeilIs
    <3> QED BY <1>7, <3>1
  <2>4. q \in 0 .. Groups * PerGroup
    BY <2>1, <2>2, <2>3, TotalIs DEF Total
  <2> QED BY <1>9, <2>4 DEF Starts
<1>12. Puts(disk, disk', f, size, P)
  BY <1>2, <1>6, <1>10, <1>11 DEF Puts
<1> QED BY <1>12 DEF StepIs, Spans

\* The block that unlink frees is some block of the directory, and i_size stays.
LEMMA FreeLastStep ==
  ASSUME Contract, Rest(disk), NEW f \in Files, FreeLastBlock(f)
  PROVE  StepIs(disk, disk')
<1>1. PICK size \in Nat : size = disk.ino[f].i_size /\ size <= MaxSize[f]
  BY RestSize
<1>2. size >= P + P
  BY <1>1 DEF FreeLastBlock
<1>3. PICK q \in Nat : q = size \div P
  BY DivMod
<1>4. q - 1 \in Nat /\ q - 1 < Most + 3
  <2>1. 1 <= q
    <3>1. PICK y \in 0 .. P - 1 : size = q * P + y
      BY <1>3, DivMod
    <3>2. CASE q = 0
      <4>1. q * P = 0
        BY <3>2, Bounds
      <4>2. size < P
        BY <3>1, <4>1, Bounds
      <4> QED BY <1>2, <4>2, Bounds
    <3> QED BY <3>2
  <2>2. size <= Most * P
    BY <1>1, MostBound
  <2>3. q <= Most
    <3>1. Most + 1 \in Nat /\ (Most + 1) * P = Most * P + P /\ Most * P \in Nat
      BY Bounds
    <3>2. size < (Most + 1) * P
      BY <2>2, <3>1, Bounds
    <3>3. q < Most + 1
      BY <1>3, <3>1, <3>2, DivBelow
    <3> QED BY <3>1, <3>3, Bounds
  <2> QED BY <2>1, <2>3, Bounds
<1>5. PICK m \in Nat : m = q - 1 /\ m < Most + 3
  BY <1>4
<1>6. PICK o \in Paths : o = FreePath(m)
  BY <1>5, FreeInPaths
<1>7. PICK t : t = free_inode_block(disk, f, m)
  OBVIOUS
<1>8. FreesOne(disk, t, f, o)
  BY <1>5, <1>6, <1>7, FreeOneIs DEF Rest, Fine
<1>9. PICK c : c = t.d
  OBVIOUS
<1>10. Whole(c) /\ SameNodes(disk, c)
  BY <1>8, <1>9 DEF FreesOne, Emptied, SameNodes, Rest, Fine
<1>11. PICK e : e = [c EXCEPT !.spoilt = TRUE]
  OBVIOUS
<1>12. disk' = e
  BY <1>1, <1>3, <1>5, <1>7, <1>9, <1>11 DEF FreeLastBlock
<1>13. Whole(e) /\ SameNodes(c, e) /\ e.spoilt
  BY <1>10, <1>11, FailedIs DEF Failed
<1>14. \A g \in Files : e.ino[g].i_size = disk.ino[g].i_size
                        /\ e.ino[g].i_blocks = disk.ino[g].i_blocks
  BY <1>10, <1>13 DEF SameNodes
<1>15. Fine(e)
  BY <1>13, <1>14 DEF Rest, Fine, Nodes
<1>16. Sized(e)
  BY <1>14 DEF Rest, Sized
<1> QED BY <1>12, <1>13, <1>15, <1>16 DEF StepIs, Spoils

LEMMA NextStep ==
  ASSUME Contract, Rest(disk), Next
  PROVE  StepIs(disk, disk')
BY WriteStep, TruncateStep, AddStep, RemoveStep, FreeLastStep DEF Next

LEMMA StepRests ==
  ASSUME NEW d, Rest(d), NEW e, StepIs(d, e)
  PROVE  Rest(e)
<1>1. CASE Spoils(e)
  BY <1>1 DEF Spoils, Rest
<1>2. CASE \E f \in Files : \E off \in Nat, n \in Spans : Puts(d, e, f, off, n)
  <2>1. PICK f \in Files, off \in Nat, n \in Spans : Puts(d, e, f, off, n)
    BY <1>2
  <2>2. n \in Nat \ {0}
    BY Bounds, BlocksAssumption DEF Spans
  <2> QED BY <2>1, <2>2, RestBuffer DEF Puts
<1>3. CASE \E f \in Files : \E size \in Sizes \cup {0} : Cuts(d, e, f, size)
  <2>1. PICK f \in Files, size \in Sizes \cup {0} : Cuts(d, e, f, size)
    BY <1>3
  <2>2. size \in Nat
    BY BlocksAssumption
  <2> QED BY <2>1, <2>2, RestTruncated DEF Cuts
<1> QED BY <1>1, <1>2, <1>3 DEF StepIs

\* The invariant of every reachable disk: Fine says which blocks are whose, Sized and
\* the rest what a file's blocks hold.
THEOREM Resting == ASSUME Contract PROVE Spec => []Rest(disk)
<1>1. Init => Rest(disk)
  BY InitRest
<1>2. Rest(disk) /\ [Next]_disk => Rest(disk)'
  <2>1. ASSUME Rest(disk), Next PROVE Rest(disk')
    BY <2>1, NextStep, StepRests
  <2>2. ASSUME Rest(disk), UNCHANGED disk PROVE Rest(disk')
    BY <2>2
  <2> QED BY <2>1, <2>2
<1> QED BY <1>1, <1>2, PTL DEF Spec

-----------------------------------------------------------------------------
(* What the runs check.                                                    *)

LEMMA RestCounts ==
  ASSUME Rest(disk)
  PROVE  CountsAgree
BY DEF Rest, Fine, Whole, Counted, CountsAgree

\* The counts of free blocks in the group descriptors and the superblock are those of
\* the bitmaps after every step of Contract, also when an allocation failed half way
\* through one, and when unlink has freed a wrong block of a directory.
THEOREM CountsCorrect == ASSUME Contract PROVE Spec => []CountsAgree
BY Resting, RestCounts, PTL

\* Sizes stay in bounds and blocks of the file system itself stay marked used, whatever
\* is written, truncated or removed.
THEOREM TypeCorrect == ASSUME Contract PROVE Spec => []TypeOK
<1>1. Rest(disk) => TypeOK
  BY DEF Rest, Fine, Whole, Disk, Sized, TypeOK
<1> QED BY <1>1, Resting, PTL

LEMMA RestOwner ==
  ASSUME Rest(disk)
  PROVE  OneOwner
<1>1. Tree(disk)
  BY DEF Rest, Fine, Whole
<1>2. ASSUME NEW o \in Owners, NEW q \in Owners, Owned(o) = Owned(q) PROVE o = q
  <2>1. PICK f \in Files, x \in Paths : o = <<f, x>> /\ Lookup(disk, f, x) # 0
    BY DEF Owners
  <2>2. PICK g \in Files, y \in Paths : q = <<g, y>> /\ Lookup(disk, g, y) # 0
    BY DEF Owners
  <2>3. Lookup(disk, f, x) = Lookup(disk, g, y)
    BY <1>2, <2>1, <2>2 DEF Owned
  <2>4. f = g /\ x = y
    BY <1>1, <2>1, <2>3 DEF Tree
  <2> QED BY <2>1, <2>2, <2>4
<1>3. ASSUME NEW o \in Owners PROVE Owned(o) \in disk.bitmap \ Reserved
  <2>1. PICK f \in Files, x \in Paths : o = <<f, x>> /\ Lookup(disk, f, x) # 0
    BY DEF Owners
  <2> QED BY <1>1, <2>1 DEF Tree, Owned
<1> QED BY <1>2, <1>3 DEF OneOwner

\* A block belongs to one place of one file and is marked used: whichever blocks
\* free_inode_blocks gave back and alloc_block handed to another file.
THEOREM OwnersCorrect == ASSUME Contract PROVE Spec => []OneOwner
BY Resting, RestOwner, PTL

LEMMA RestLeaks ==
  ASSUME Rest(disk)
  PROVE  NoBlockLeaks
<1> SUFFICES ASSUME ~ disk.spoilt
             PROVE  /\ disk.bitmap = Reserved \cup {Owned(o) : o \in Owners}
                    /\ \A f \in Files : disk.ino[f].i_blocks = Cardinality({o \in Owners : o[1] = f})
  BY DEF NoBlockLeaks
<1>1. Tree(disk) /\ Disk(disk) /\ Tidy(disk) /\ Nodes(disk)
  BY DEF Rest, Fine, Whole
<1>2. ASSUME NEW x \in disk.bitmap PROVE x \in Reserved \cup {Owned(o) : o \in Owners}
  <2>1. CASE x \notin Reserved
    <3>1. PICK g \in Files, q \in Paths : Lookup(disk, g, q) = x
      BY <1>1, <2>1 DEF Tidy, Lost
    <3>2. x # 0
      BY <2>1, BlockFacts
    <3>3. PICK o : o = <<g, q>>
      OBVIOUS
    <3>4. o \in Owners /\ Owned(o) = x
      BY <3>1, <3>2, <3>3 DEF Owners, Owned
    <3> QED BY <3>4
  <2> QED BY <2>1
<1>3. ASSUME NEW o \in Owners PROVE Owned(o) \in disk.bitmap
  BY RestOwner DEF OneOwner
<1>4. disk.bitmap = Reserved \cup {Owned(o) : o \in Owners}
  BY <1>1, <1>2, <1>3 DEF Disk
<1>5. ASSUME NEW f \in Files
      PROVE  disk.ino[f].i_blocks = Cardinality({o \in Owners : o[1] = f})
  <2>1. PICK c \in Nat : c <= Most /\ disk.ino[f].i_blocks = get_block_count(c)
    BY <1>1, Bounds DEF Nodes
  <2>2. PICK m \in Nat : m = disk.ino[f].i_blocks /\ m <= Most + 3
    BY <2>1, CountNat
  <2>3. PICK S : S = {o \in Owners : o[1] = f}
    OBVIOUS
  <2>4. PICK b : b = [k \in 1 .. m |-> <<f, FreePath(k - 1)>>]
    OBVIOUS
  <2>5. ASSUME NEW k \in 1 .. m PROVE b[k] = <<f, FreePath(k - 1)>> /\ b[k] \in S
    <3>1. k - 1 \in Nat /\ k - 1 \in 0 .. m - 1 /\ k - 1 < Most + 3
      BY <2>2, Bounds
    <3>2. PICK q \in Paths : q = FreePath(k - 1)
      BY <3>1, FreeInPaths
    <3>3. q \in Slots(m)
      BY <3>1, <3>2 DEF Slots
    <3>4. Lookup(disk, f, q) # 0
      BY <1>1, <2>2, <3>3 DEF Tidy, Has
    <3>5. <<f, q>> \in Owners
      BY <3>4 DEF Owners
    <3> QED BY <2>3, <2>4, <3>2, <3>5
  <2>6. ASSUME NEW k \in 1 .. m, NEW l \in 1 .. m, b[k] = b[l] PROVE k = l
    <3>1. k - 1 \in Nat /\ k - 1 < Most + 3 /\ l - 1 \in Nat /\ l - 1 < Most + 3
      BY <2>2, Bounds
    <3>2. FreePath(k - 1) = FreePath(l - 1)
      BY <2>5, <2>6
    <3>3. k - 1 = l - 1
      BY <3>1, <3>2, SlotsDiffer
    <3> QED BY <3>3
  <2>7. ASSUME NEW o \in S PROVE \E k \in 1 .. m : b[k] = o
    <3>1. PICK q \in Paths : o = <<f, q>> /\ Lookup(disk, f, q) # 0
      BY <2>3 DEF Owners
    <3>2. q \in Slots(m)
      BY <1>1, <2>2, <3>1 DEF Tidy, Has
    <3>3. PICK j \in 0 .. m - 1 : q = FreePath(j)
      BY <3>2 DEF Slots
    <3>4. j + 1 \in 1 .. m /\ (j + 1) - 1 = j
      OBVIOUS
    <3>5. b[j + 1] = o
      BY <2>4, <3>1, <3>3, <3>4
    <3> QED BY <3>4, <3>5
  <2>8. b \in [1 .. m -> S]
    BY <2>4, <2>5
  <2>9. b \in Bijection(1 .. m, S)
    BY <2>6, <2>7, <2>8 DEF Bijection, Injection, IsInjective, Surjection
  <2>10. Cardinality(S) = m
    BY <2>9, FS_CountingElements DEF ExistsBijection
  <2> QED BY <2>2, <2>3, <2>10
<1> QED BY <1>4, <1>5

\* Until an allocation fails or unlink frees a block of a directory, every block marked
\* used is the file system's own or in a file, and i_blocks is the number of a file's
\* blocks, so that free_inode_blocks starts at the last one.
THEOREM LeaksCorrect == ASSUME Contract PROVE Spec => []NoBlockLeaks
BY Resting, RestLeaks, PTL

-----------------------------------------------------------------------------
(* Files read back what was written.                                       *)

ContentOf(d, f) ==
  [i \in 1 .. d.ino[f].i_size |-> read_block_inode(d, f, (i - 1) \div P)[(i - 1) % P]]
PutWords(c, f, off, n) ==
  [i \in 1 .. Bigger(Len(c), off + n) |->
     IF off < i /\ i <= off + n THEN Word(f, i - 1) ELSE IF i <= Len(c) THEN c[i] ELSE Zero]
CutWords(c, size) == [i \in 1 .. size |-> IF i <= Len(c) THEN c[i] ELSE Zero]

LEMMA ContentLen ==
  ASSUME NEW d, Rest(d), NEW f \in Files
  PROVE  Len(ContentOf(d, f)) = d.ino[f].i_size
<1>1. PICK n \in Nat : n = d.ino[f].i_size
  BY RestSize
<1>2. PICK c : c = ContentOf(d, f)
  OBVIOUS
<1>3. PICK S : S = {c[i] : i \in 1 .. n}
  OBVIOUS
<1>4. c \in [1 .. n -> S]
  <2>1. c = [i \in 1 .. n |-> c[i]]
    BY <1>1, <1>2 DEF ContentOf
  <2>2. \A i \in 1 .. n : c[i] \in S
    BY <1>3
  <2> QED BY <2>1, <2>2
<1>5. Len(c) = n
  BY <1>4
<1> QED BY <1>1, <1>2, <1>5

\* Offset i is in block i \div P.
LEMMA WordAt ==
  ASSUME NEW i \in Nat, i # 0
  PROVE  \E m \in Nat, j \in 0 .. P - 1 : m = (i - 1) \div P /\ j = (i - 1) % P /\ i - 1 = m * P + j
<1>1. PICK x \in Nat : x = i - 1
  OBVIOUS
<1>2. \E m \in Nat, j \in 0 .. P - 1 : m = x \div P /\ j = x % P /\ x = m * P + j
  BY DivMod
<1> QED BY <1>1, <1>2

LEMMA PutContent ==
  ASSUME NEW d, Rest(d), NEW f \in Files, NEW off \in Nat, NEW n \in Nat \ {0},
         NEW e, BufferWritten(d, e, f, off, n), ~ e.spoilt
  PROVE  /\ ContentOf(e, f) = PutWords(ContentOf(d, f), f, off, n)
         /\ \A g \in Files \ {f} : ContentOf(e, g) = ContentOf(d, g)
<1>0. NothingBehind(d)
  BY DEF BufferWritten, Rest
<1>1. PICK s \in Nat : s = d.ino[f].i_size
  BY RestSize
<1>2. PICK c : c = ContentOf(d, f)
  OBVIOUS
<1>3. Len(c) = s
  BY <1>1, <1>2, ContentLen
<1>4. PICK t \in Nat : t = Bigger(s, off + n)
  BY DEF Bigger
<1>5. e.ino[f].i_size = t
  BY <1>1, <1>4 DEF BufferWritten
<1>6. ASSUME NEW i \in 1 .. t
      PROVE  read_block_inode(e, f, (i - 1) \div P)[(i - 1) % P] =
               IF off < i /\ i <= off + n THEN Word(f, i - 1) ELSE IF i <= Len(c) THEN c[i] ELSE Zero
  <2>1. PICK m \in Nat, j \in 0 .. P - 1 :
          m = (i - 1) \div P /\ j = (i - 1) % P /\ i - 1 = m * P + j
    BY WordAt
  <2>2. read_block_inode(e, f, m)[j] = IF Inside(off, n, i - 1) THEN Word(f, i - 1)
                                       ELSE read_block_inode(d, f, m)[j]
    <3>1. read_block_inode(e, f, m)[j] = IF f = f /\ Inside(off, n, m * P + j)
                                         THEN Word(f, m * P + j) ELSE read_block_inode(d, f, m)[j]
      BY DEF BufferWritten
    <3>2. PICK x : x = m * P + j
      OBVIOUS
    <3>3. i - 1 = x
      BY <2>1, <3>2
    <3> QED BY <3>1, <3>2, <3>3
  <2>3. Inside(off, n, i - 1) <=> (off < i /\ i <= off + n)
    BY DEF Inside
  <2>4. ASSUME i <= s PROVE read_block_inode(d, f, m)[j] = c[i]
    <3>1. i \in 1 .. s
      BY <2>4
    <3> QED BY <1>1, <1>2, <2>1, <3>1 DEF ContentOf
  <2>5. ASSUME ~ (i <= s) PROVE read_block_inode(d, f, m)[j] = Zero
    <3>1. PICK x \in Nat : x = i - 1 /\ s <= x
      BY <2>5
    <3>2. d.ino[f].i_size <= m * P + j
      BY <1>1, <2>1, <3>1
    <3> QED BY <1>0, <3>2 DEF NothingBehind
  <2> QED BY <1>3, <2>1, <2>2, <2>3, <2>4, <2>5
<1>7. ContentOf(e, f) = PutWords(c, f, off, n)
  BY <1>3, <1>4, <1>5, <1>6 DEF ContentOf, PutWords
<1>8. ASSUME NEW g \in Files \ {f} PROVE ContentOf(e, g) = ContentOf(d, g)
  <2>1. PICK x \in Nat : x = d.ino[g].i_size
    BY RestSize
  <2>2. e.ino[g].i_size = x
    BY <2>1 DEF BufferWritten
  <2>3. ASSUME NEW i \in 1 .. x
        PROVE  read_block_inode(e, g, (i - 1) \div P)[(i - 1) % P] =
                 read_block_inode(d, g, (i - 1) \div P)[(i - 1) % P]
    <3>1. PICK m \in Nat, j \in 0 .. P - 1 :
            m = (i - 1) \div P /\ j = (i - 1) % P /\ i - 1 = m * P + j
      BY WordAt
    <3>2. read_block_inode(e, g, m)[j] = read_block_inode(d, g, m)[j]
      BY DEF BufferWritten
    <3> QED BY <3>1, <3>2
  <2> QED BY <2>1, <2>2, <2>3 DEF ContentOf
<1> QED BY <1>2, <1>7, <1>8

LEMMA CutContent ==
  ASSUME NEW d, Rest(d), NEW f \in Files, NEW size \in Nat,
         NEW e, Truncated(d, e, f, size), ~ e.spoilt
  PROVE  /\ ContentOf(e, f) = CutWords(ContentOf(d, f), size)
         /\ \A g \in Files \ {f} : ContentOf(e, g) = ContentOf(d, g)
<1>0. NothingBehind(d)
  BY DEF Truncated, Rest
<1>1. PICK s \in Nat : s = d.ino[f].i_size
  BY RestSize
<1>2. PICK c : c = ContentOf(d, f)
  OBVIOUS
<1>3. Len(c) = s
  BY <1>1, <1>2, ContentLen
<1>5. e.ino[f].i_size = size
  BY DEF Truncated
<1>6. ASSUME NEW i \in 1 .. size
      PROVE  read_block_inode(e, f, (i - 1) \div P)[(i - 1) % P] = IF i <= Len(c) THEN c[i] ELSE Zero
  <2>1. PICK m \in Nat, j \in 0 .. P - 1 :
          m = (i - 1) \div P /\ j = (i - 1) % P /\ i - 1 = m * P + j
    BY WordAt
  <2>2. ~ (size <= m * P + j)
    <3>1. PICK x \in Nat : x = i - 1 /\ ~ (size <= x)
      OBVIOUS
    <3> QED BY <2>1, <3>1
  <2>3. read_block_inode(e, f, m)[j] = read_block_inode(d, f, m)[j]
    BY <2>2, Zenon DEF Truncated
  <2>4. ASSUME i <= s PROVE read_block_inode(d, f, m)[j] = c[i]
    <3>1. i \in 1 .. s
      BY <2>4
    <3> QED BY <1>1, <1>2, <2>1, <3>1 DEF ContentOf
  <2>5. ASSUME ~ (i <= s) PROVE read_block_inode(d, f, m)[j] = Zero
    <3>1. PICK x \in Nat : x = i - 1 /\ s <= x
      BY <2>5
    <3>2. d.ino[f].i_size <= m * P + j
      BY <1>1, <2>1, <3>1
    <3> QED BY <1>0, <3>2 DEF NothingBehind
  <2> QED BY <1>3, <2>1, <2>3, <2>4, <2>5
<1>7. ContentOf(e, f) = CutWords(c, size)
  BY <1>3, <1>5, <1>6 DEF ContentOf, CutWords
<1>8. ASSUME NEW g \in Files \ {f} PROVE ContentOf(e, g) = ContentOf(d, g)
  <2>1. PICK x \in Nat : x = d.ino[g].i_size
    BY RestSize
  <2>2. e.ino[g].i_size = x
    BY <2>1 DEF Truncated
  <2>3. ASSUME NEW i \in 1 .. x
        PROVE  read_block_inode(e, g, (i - 1) \div P)[(i - 1) % P] =
                 read_block_inode(d, g, (i - 1) \div P)[(i - 1) % P]
    <3>1. PICK m \in Nat, j \in 0 .. P - 1 :
            m = (i - 1) \div P /\ j = (i - 1) % P /\ i - 1 = m * P + j
      BY WordAt
    <3>2. read_block_inode(e, g, m)[j] = read_block_inode(d, g, m)[j]
      BY DEF Truncated
    <3> QED BY <3>1, <3>2
  <2> QED BY <2>1, <2>2, <2>3 DEF ContentOf
<1> QED BY <1>2, <1>7, <1>8

LEMMA InitImplements ==
  ASSUME Init
  PROVE  Store_!Init
<1>1. disk.spoilt = FALSE
  BY DEF Init
<1>2. ASSUME NEW f \in Files PROVE Contents(f) = << >>
  <2>1. disk.ino[f].i_size = 0
    BY DEF Init, EmptyInode
  <2>2. 1 .. 0 = {}
    OBVIOUS
  <2> QED BY <2>1, <2>2 DEF Contents
<1> QED BY <1>1, <1>2 DEF Store_!Init

\* A step that leaves room on the disk maps to a step of the store.
LEMMA StepImplements ==
  ASSUME Rest(disk), StepIs(disk, disk')
  PROVE  Store_!Next
<1>1. CASE disk'.spoilt
  BY <1>1 DEF Store_!Next
<1>2. CASE ~ disk'.spoilt
  <2>1. \/ \E f \in Files : \E off \in Nat, n \in Spans : Puts(disk, disk', f, off, n)
        \/ \E f \in Files : \E size \in Sizes \cup {0} : Cuts(disk, disk', f, size)
    BY <1>2 DEF StepIs, Spoils
  <2>2. PICK old : old = [g \in Files |-> ContentOf(disk, g)]
    OBVIOUS
  <2>3. PICK new : new = [g \in Files |-> ContentOf(disk', g)]
    OBVIOUS
  <2>4. [g \in Files |-> Contents(g)] = old
    BY <2>2 DEF Contents, ContentOf
  <2>5. [g \in Files |-> Contents(g)]' = new
    BY <2>3 DEF Contents, ContentOf, read_block_inode, ContentBlocks, get_real_block, Lookup
  <2>6. CASE \E f \in Files : \E off \in Nat, n \in Spans : Puts(disk, disk', f, off, n)
    <3>1. PICK f \in Files, off \in Nat, n \in Spans : Puts(disk, disk', f, off, n)
      BY <2>6
    <3>2. n \in Nat \ {0} /\ off \in Starts /\ BufferWritten(disk, disk', f, off, n)
      BY <1>2, <3>1, Bounds, BlocksAssumption DEF Spans, Puts
    <3>3. ~ disk.spoilt
      BY <1>2, <3>2 DEF BufferWritten
    <3>4. new[f] = PutWords(old[f], f, off, n) /\ \A g \in Files \ {f} : new[g] = old[g]
      BY <1>2, <2>2, <2>3, <3>2, PutContent
    <3>5. new = [old EXCEPT ![f] = PutWords(old[f], f, off, n)]
      BY <2>2, <2>3, <3>4
    <3>6. Store_!Write(f, off, n)
      BY <2>4, <2>5, <3>5 DEF Store_!Write, Store_!Bigger, PutWords, Bigger
    <3>7. disk'.spoilt = disk.spoilt
      <4>1. disk.spoilt \in BOOLEAN /\ disk'.spoilt \in BOOLEAN
        BY <3>2 DEF Rest, Fine, Whole, Disk, BufferWritten
      <4> QED BY <1>2, <3>3, <4>1
    <3> QED BY <3>1, <3>2, <3>3, <3>6, <3>7 DEF Store_!Next, Starts, Spans
  <2>7. CASE \E f \in Files : \E size \in Sizes \cup {0} : Cuts(disk, disk', f, size)
    <3>1. PICK f \in Files, size \in Sizes \cup {0} : Cuts(disk, disk', f, size)
      BY <2>7
    <3>2. size \in Nat /\ Truncated(disk, disk', f, size)
      BY <3>1, BlocksAssumption DEF Cuts
    <3>3. ~ disk.spoilt
      BY <1>2, <3>2 DEF Truncated
    <3>4. new[f] = CutWords(old[f], size) /\ \A g \in Files \ {f} : new[g] = old[g]
      BY <1>2, <2>2, <2>3, <3>2, CutContent
    <3>5. new = [old EXCEPT ![f] = CutWords(old[f], size)]
      BY <2>2, <2>3, <3>4
    <3>6. Store_!Truncate(f, size)
      BY <2>4, <2>5, <3>5 DEF Store_!Truncate, CutWords
    <3>7. disk'.spoilt = disk.spoilt
      <4>1. disk.spoilt \in BOOLEAN /\ disk'.spoilt \in BOOLEAN
        BY <3>2 DEF Rest, Fine, Whole, Disk, Truncated
      <4> QED BY <1>2, <3>3, <4>1
    <3> QED BY <3>1, <3>3, <3>6, <3>7 DEF Store_!Next
  <2> QED BY <2>1, <2>6, <2>7
<1> QED BY <1>1, <1>2

\* Until an allocation fails or unlink frees a block of a directory, files read back what
\* was written: a write of one word or more (write_buffer_inode), a truncation that makes
\* a file longer or ends it inside a block before its last one (ext2fs_truncate), a new
\* block of a directory and the removal of one do to the contents of all files what the
\* store says.  Writes of nothing, and the truncation to 0 that open makes, go wrong in
\* the code and are not steps under Contract.
THEOREM BlocksImplementStore == ASSUME Contract PROVE Spec => ImplementsFiles
<1>1. Init => Store_!Init
  BY InitImplements
<1>2. Rest(disk) /\ [Next]_disk => [Store_!Next]_<<[f \in Files |-> Contents(f)], disk.spoilt>>
  <2>1. ASSUME Rest(disk), Next PROVE Store_!Next
    BY <2>1, NextStep, StepImplements
  <2>2. ASSUME UNCHANGED disk PROVE UNCHANGED <<[f \in Files |-> Contents(f)], disk.spoilt>>
    BY <2>2 DEF Contents, read_block_inode, ContentBlocks, get_real_block, Lookup
  <2> QED BY <2>1, <2>2
<1> QED BY <1>1, <1>2, Resting, PTL DEF Spec, ImplementsFiles, Store_!Spec, Store_!fileVars

-----------------------------------------------------------------------------
(* Files that reach the triply indirect block: the place of a block, and   *)
(* the count of blocks there, by the digits of its number to the base P.   *)

Sq == P * P

LEMMA SqIs == Sq \in Nat /\ P <= Sq
BY Square DEF Sq

LEMMA DivGeneral ==
  ASSUME NEW s \in Nat, s > 0, NEW q \in Nat, NEW r \in 0 .. s - 1
  PROVE  (q * s + r) \div s = q /\ (q * s + r) % s = r
OBVIOUS

\* A number of two digits is below P * P.
LEMMA TwoBelow ==
  ASSUME NEW a \in 0 .. P - 1, NEW b \in 0 .. P - 1
  PROVE  a * P + b \in 0 .. Sq - 1
<1>1. a * P <= (P - 1) * P
  BY Bounds, TimesLess
<1>2. (P - 1) * P = P * P - P
  BY Bounds
<1>3. a * P \in Nat
  BY Bounds
<1> QED BY <1>1, <1>2, <1>3, Bounds DEF Sq

LEMMA TwoDigits ==
  ASSUME NEW x \in Nat, x < Sq
  PROVE  \E a \in 0 .. P - 1, b \in 0 .. P - 1 : x = a * P + b
<1>1. PICK a \in Nat, b \in 0 .. P - 1 : a = x \div P /\ x = a * P + b
  BY DivMod
<1>2. a < P
  BY <1>1, DivBelow, Bounds DEF Sq
<1>3. a \in 0 .. P - 1
  BY <1>2, Bounds
<1> QED BY <1>1, <1>3, Zenon

LEMMA ThreeDigits ==
  ASSUME NEW x \in Nat, x < P * P * P
  PROVE  \E a \in 0 .. P - 1, b \in 0 .. P - 1, c \in 0 .. P - 1 : x = a * Sq + (b * P + c)
<1>1. PICK s \in Nat : s = Sq /\ s > 0
  BY SqIs, Bounds
<1>2. PICK a \in Nat, r \in 0 .. s - 1 : x = a * s + r
  <2>1. x \div s \in Nat /\ x % s \in 0 .. s - 1 /\ x = (x \div s) * s + (x % s)
    BY <1>1
  <2> QED BY <2>1
<1>3. a < P
  <2>1. CASE P <= a
    <3>1. P * s <= a * s
      BY <1>1, <2>1, Bounds
    <3>2. P * s = P * P * P
      BY <1>1, Bounds DEF Sq
    <3> QED BY <1>1, <1>2, <3>1, <3>2, Bounds
  <2> QED BY <2>1, Bounds
<1>4. PICK b \in 0 .. P - 1, c \in 0 .. P - 1 : r = b * P + c
  BY <1>1, <1>2, TwoDigits
<1> QED BY <1>1, <1>2, <1>3, <1>4, Bounds

\* The place of content block n.
InDirect(n) == n \in 0 .. NDIR - 1
InSingle(n, j) == j \in 0 .. P - 1 /\ n = NDIR + j
InDouble(n, a, b) == a \in 0 .. P - 1 /\ b \in 0 .. P - 1 /\ n = NDIR + P + (a * P + b)
InTriple(n, a, b, c) ==
  /\ a \in 0 .. P - 1 /\ b \in 0 .. P - 1 /\ c \in 0 .. P - 1
  /\ n = NDIR + P + Sq + (a * Sq + (b * P + c))

LEMMA Ranges ==
  /\ UpToSind = NDIR + P
  /\ UpToDind = NDIR + P + Sq
  /\ UpToTind = NDIR + P + Sq + P * P * P
BY DEF UpToSind, UpToDind, UpToTind, Sq

LEMMA PlaceExists ==
  ASSUME NEW n \in Nat, n < UpToTind
  PROVE  \/ InDirect(n)
         \/ \E j : InSingle(n, j)
         \/ \E a, b : InDouble(n, a, b)
         \/ \E a, b, c : InTriple(n, a, b, c)
<1>1. CASE n < NDIR
  BY <1>1, Bounds DEF InDirect
<1>2. CASE NDIR <= n /\ n < NDIR + P
  <2>1. InSingle(n, n - NDIR)
    BY <1>2, Bounds DEF InSingle
  <2> QED BY <2>1
<1>3. CASE NDIR + P <= n /\ n < NDIR + P + Sq
  <2>1. n - NDIR - P \in Nat /\ n - NDIR - P < Sq
    BY <1>3, Bounds, SqIs
  <2>2. PICK a \in 0 .. P - 1, b \in 0 .. P - 1 : n - NDIR - P = a * P + b
    BY <2>1, TwoDigits
  <2>3. InDouble(n, a, b)
    BY <2>2, Bounds DEF InDouble
  <2> QED BY <2>3
<1>4. CASE NDIR + P + Sq <= n
  <2>1. PICK cube \in Int : cube = P * P * P
    BY Bounds
  <2>2. n - NDIR - P - Sq \in Nat /\ n - NDIR - P - Sq < cube
    BY <1>4, <2>1, Bounds, SqIs, Ranges
  <2>3. PICK a \in 0 .. P - 1, b \in 0 .. P - 1, c \in 0 .. P - 1 :
          n - NDIR - P - Sq = a * Sq + (b * P + c)
    BY <2>1, <2>2, ThreeDigits
  <2>4. InTriple(n, a, b, c)
    BY <2>3, Bounds, SqIs DEF InTriple
  <2> QED BY <2>4
<1> QED BY <1>1, <1>2, <1>3, <1>4, Bounds, SqIs

\* What the operators of Ext2Map make of block n, the last of n + 1.
MapsTo(n, path, blocks) ==
  /\ RealPath(n) = path
  /\ get_block_count(n + 1) = blocks
  /\ get_content_blocks(blocks) = n + 1

LEMMA DirectIs ==
  ASSUME NEW n, InDirect(n)
  PROVE  MapsTo(n, <<n>>, n + 1)
<1>1. n \in Nat /\ n < NDIR /\ n + 1 <= NDIR
  BY Bounds DEF InDirect
<1>2. RealPath(n) = <<n>>
  <2>1. n < NDIR /\ ~ (NDIR <= n /\ n < UpToSind) /\ ~ (UpToSind <= n /\ n < UpToDind)
    BY <1>1, Bounds, Ranges
  <2> QED BY <2>1, Zenon DEF RealPath
<1>3. get_block_count(n + 1) = n + 1
  <2>1. n + 1 <= NDIR /\ ~ (NDIR < n + 1 /\ n + 1 <= UpToSind)
        /\ ~ (UpToSind < n + 1 /\ n + 1 <= UpToDind)
    BY <1>1, Bounds, Ranges
  <2> QED BY <2>1, Zenon DEF get_block_count
<1>4. get_content_blocks(n + 1) = n + 1
  <2>1. n + 1 <= NDIR /\ ~ (NDIR < n + 1 /\ n + 1 <= UpToSind + 1)
        /\ ~ (UpToSind + 1 < n + 1 /\ n + 1 <= UpToDind + 1 + 1 + P)
    BY <1>1, Bounds, Ranges
  <2> QED BY <2>1, Zenon DEF get_content_blocks
<1> QED BY <1>2, <1>3, <1>4 DEF MapsTo

LEMMA SingleIs ==
  ASSUME NEW n, NEW j, InSingle(n, j)
  PROVE  MapsTo(n, <<SIND, j>>, n + 2)
<1>1. n \in Nat /\ NDIR <= n /\ n < NDIR + P /\ n - NDIR = j
  BY Bounds DEF InSingle
<1>2. RealPath(n) = <<SIND, j>>
  <2>1. ~ (n < NDIR) /\ NDIR <= n /\ n < UpToSind /\ ~ (UpToSind <= n /\ n < UpToDind)
    BY <1>1, Bounds, Ranges
  <2>2. RealPath(n) = <<SIND, n - NDIR>>
    BY <2>1, Zenon DEF RealPath
  <2> QED BY <1>1, <2>2
<1>3. get_block_count(n + 1) = n + 2
  <2>1. ~ (n + 1 <= NDIR) /\ NDIR < n + 1 /\ n + 1 <= UpToSind
        /\ ~ (UpToSind < n + 1 /\ n + 1 <= UpToDind)
    BY <1>1, Bounds, Ranges
  <2>2. get_block_count(n + 1) = n + 1 + 1
    BY <2>1, Zenon DEF get_block_count
  <2> QED BY <1>1, <2>2
<1>4. get_content_blocks(n + 2) = n + 1
  <2>1. PICK m : m = n + 2
    OBVIOUS
  <2>2. ~ (m <= NDIR) /\ NDIR < m /\ m <= UpToSind + 1
        /\ ~ (UpToSind + 1 < m /\ m <= UpToDind + 1 + 1 + P)
    BY <1>1, <2>1, Bounds, Ranges
  <2>3. get_content_blocks(m) = m - 1
    BY <2>2, Zenon DEF get_content_blocks
  <2> QED BY <1>1, <2>1, <2>3
<1> QED BY <1>2, <1>3, <1>4 DEF MapsTo

LEMMA DoubleIs ==
  ASSUME NEW n, NEW a, NEW b, InDouble(n, a, b)
  PROVE  MapsTo(n, <<DIND, a, b>>, n + a + 4)
<1>1. a \in 0 .. P - 1 /\ b \in 0 .. P - 1 /\ n = NDIR + P + (a * P + b)
  BY DEF InDouble
<1>2. PICK x \in 0 .. Sq - 1 : x = a * P + b
  BY <1>1, TwoBelow
<1>3. n \in Nat /\ n = NDIR + P + x /\ x \in Nat
  BY <1>1, <1>2, Bounds
<1>4. RealPath(n) = <<DIND, a, b>>
  <2>1. ~ (n < NDIR) /\ ~ (NDIR <= n /\ n < UpToSind) /\ UpToSind <= n /\ n < UpToDind
    BY <1>2, <1>3, Bounds, Ranges, SqIs
  <2>2. RealPath(n) = <<DIND, (n - UpToSind) \div P, (n - UpToSind) % P>>
    BY <2>1, Zenon DEF RealPath
  <2>3. n - UpToSind = x
    BY <1>3, Bounds, Ranges
  <2>4. x \div P = a /\ x % P = b
    BY <1>1, <1>2, DivUnique
  <2> QED BY <2>2, <2>3, <2>4, Zenon
<1>5. get_block_count(n + 1) = n + a + 4
  <2>1. PICK m : m = n + 1
    OBVIOUS
  <2>2. ~ (m <= NDIR) /\ ~ (NDIR < m /\ m <= UpToSind) /\ UpToSind < m /\ m <= UpToDind
    BY <1>2, <1>3, <2>1, Bounds, Ranges, SqIs
  <2>3. get_block_count(m) = m + 1 + 1 + CeilDiv(m - UpToSind, P)
    BY <2>2, Zenon DEF get_block_count
  <2>6. m - UpToSind = x + 1
    BY <1>3, <2>1, Bounds, Ranges
  <2>4. CeilDiv(x + 1, P) = a + 1
    <3>1. x + 1 + P - 1 = (a + 1) * P + b
      BY <1>1, <1>2, Bounds
    <3>2. ((a + 1) * P + b) \div P = a + 1
      BY <1>1, DivUnique
    <3> QED BY <3>1, <3>2 DEF CeilDiv
  <2>5. get_block_count(m) = m + 1 + 1 + (a + 1)
    BY <2>3, <2>4, <2>6, Zenon
  <2> QED BY <1>1, <1>3, <2>1, <2>5
<1>6. get_content_blocks(n + a + 4) = n + 1
  <2>1. PICK m : m = n + a + 4
    OBVIOUS
  <2>6. ~ (m <= NDIR) /\ ~ (NDIR < m /\ m <= UpToSind + 1)
        /\ UpToSind + 1 < m /\ m <= UpToDind + 1 + 1 + P
    BY <1>1, <1>2, <1>3, <2>1, Bounds, Ranges, SqIs
  <2>2. get_content_blocks(m)
          = m - (1 + 1 + 1 + (m - NDIR - P - 1 - 1 - 1) \div (P + 1))
    BY <2>6, Zenon DEF get_content_blocks
  <2>3. m - NDIR - P - 1 - 1 - 1 = a * (P + 1) + (b + 1)
    BY <1>1, <2>1, Bounds
  <2>4. (a * (P + 1) + (b + 1)) \div (P + 1) = a
    <3>1. P + 1 \in Nat /\ P + 1 > 0 /\ a \in Nat /\ b + 1 \in 0 .. (P + 1) - 1
      BY <1>1, Bounds
    <3> QED BY <3>1, DivGeneral
  <2>5. get_content_blocks(m) = m - (1 + 1 + 1 + a)
    BY <2>2, <2>3, <2>4, Zenon
  <2> QED BY <1>1, <1>3, <2>1, <2>5
<1> QED BY <1>4, <1>5, <1>6 DEF MapsTo

\* The blocks of a file whose last one is the one with these digits under the
\* triply indirect block.
TripleBlocks(n, a, b) == n + P + a + a * P + b + 6

LEMMA TripleIs ==
  ASSUME NEW n, NEW a, NEW b, NEW c, InTriple(n, a, b, c)
  PROVE  MapsTo(n, <<TIND, a, b, c>>, TripleBlocks(n, a, b))
<1>1. /\ a \in 0 .. P - 1 /\ b \in 0 .. P - 1 /\ c \in 0 .. P - 1
      /\ n = NDIR + P + Sq + (a * Sq + (b * P + c))
  BY DEF InTriple
<1>2. PICK r \in 0 .. Sq - 1 : r = b * P + c
  BY <1>1, TwoBelow
<1>3. PICK x \in Nat : x = a * Sq + r
  BY <1>1, <1>2, SqIs
<1>4. n \in Nat /\ n = NDIR + P + Sq + x /\ Sq > 0
  BY <1>1, <1>2, <1>3, Bounds, SqIs
<1>5. x \div Sq = a /\ x % Sq = r
  <2>1. a \in Nat
    BY <1>1
  <2>2. (a * Sq + r) \div Sq = a /\ (a * Sq + r) % Sq = r
    BY <1>2, <1>4, <2>1, SqIs, DivGeneral
  <2> QED BY <1>3, <2>2
<1>6. r \div P = b /\ r % P = c
  BY <1>1, <1>2, DivUnique
<1>7. RealPath(n) = <<TIND, a, b, c>>
  <2>1. ~ (n < NDIR) /\ ~ (NDIR <= n /\ n < UpToSind) /\ ~ (UpToSind <= n /\ n < UpToDind)
    BY <1>4, Bounds, Ranges, SqIs
  <2>2. RealPath(n) = LET u == n - UpToDind
                          v == u % Sq
                      IN  <<TIND, u \div Sq, v \div P, v % P>>
    BY <2>1, Zenon DEF RealPath, Sq
  <2>3. n - UpToDind = x
    BY <1>4, Bounds, Ranges, SqIs
  <2> QED BY <1>5, <1>6, <2>2, <2>3, Zenon
<1>8. get_block_count(n + 1) = TripleBlocks(n, a, b)
  <2>1. PICK m : m = n + 1
    OBVIOUS
  <2>8. ~ (m <= NDIR) /\ ~ (NDIR < m /\ m <= UpToSind) /\ ~ (UpToSind < m /\ m <= UpToDind)
    BY <1>4, <2>1, Bounds, Ranges, SqIs
  <2>2. get_block_count(m) =
          LET u == m - UpToDind
              v == CeilDiv(u, Sq)
              w == 1 + ((u - 1) % Sq)
          IN  m + 1 + 1 + P + 1 + v + (v - 1) * P + CeilDiv(w, P)
    BY <2>8, Zenon DEF get_block_count, Sq
  <2>3. m - UpToDind = x + 1 /\ (x + 1) - 1 = x
    BY <1>3, <1>4, <2>1, Bounds, Ranges, SqIs
  <2>4. CeilDiv(x + 1, Sq) = a + 1
    <3>1. x + 1 + Sq - 1 = (a + 1) * Sq + r
      BY <1>1, <1>3, <1>2, SqIs
    <3>2. ((a + 1) * Sq + r) \div Sq = a + 1
      <4>1. a + 1 \in Nat
        BY <1>1
      <4> QED BY <1>4, <4>1, SqIs, DivGeneral
    <3> QED BY <3>1, <3>2 DEF CeilDiv
  <2>5. CeilDiv(1 + r, P) = b + 1
    <3>1. 1 + r + P - 1 = (b + 1) * P + c
      BY <1>1, <1>2, Bounds
    <3>2. ((b + 1) * P + c) \div P = b + 1
      BY <1>1, DivUnique
    <3> QED BY <3>1, <3>2 DEF CeilDiv
  <2>6. get_block_count(m) = m + 1 + 1 + P + 1 + (a + 1) + ((a + 1) - 1) * P + (b + 1)
    BY <1>5, <2>2, <2>3, <2>4, <2>5, Zenon
  <2>7. (a + 1) - 1 = a /\ a * P \in Nat
    BY <1>1, Bounds
  <2>9. get_block_count(n + 1) = m + 1 + 1 + P + 1 + (a + 1) + a * P + (b + 1)
    BY <2>1, <2>6, <2>7, Zenon
  <2>10. PICK ap \in Nat : ap = a * P
    BY <2>7
  <2>11. PICK k \in Nat : k = TripleBlocks(n, a, b) /\ k = n + P + a + ap + b + 6
    BY <1>1, <1>4, <2>10, Bounds DEF TripleBlocks
  <2>12. get_block_count(n + 1) = m + 1 + 1 + P + 1 + (a + 1) + ap + (b + 1)
    BY <2>9, <2>10
  <2> QED BY <1>1, <1>4, <2>1, <2>11, <2>12, Bounds
<1>9. get_content_blocks(TripleBlocks(n, a, b)) = n + 1
  <2>1. PICK m \in Nat : m = TripleBlocks(n, a, b) /\ m = n + P + a + a * P + b + 6
    <3>1. a * P \in Nat
      BY <1>1, Bounds
    <3> QED BY <1>1, <1>4, <3>1, Bounds DEF TripleBlocks
  <2>2. n + P + 6 <= m
    <3>1. a * P \in Nat
      BY <1>1, Bounds
    <3> QED BY <1>1, <1>4, <2>1, <3>1, Bounds
  <2>3. ~ (m <= NDIR) /\ ~ (NDIR < m /\ m <= UpToSind + 1)
        /\ ~ (UpToSind + 1 < m /\ m <= UpToDind + 1 + 1 + P)
    BY <1>4, <2>2, Bounds, Ranges, SqIs
  <2>4. get_content_blocks(m) =
          LET u == m - UpToDind - 1 - 1 - P - 1 - 1
              v == Sq + P + 1
          IN  m - (1 + 1 + P + 1 + 1 + 1 + (P + 1) * (u \div v) + ((u % v) - 1) \div (P + 1))
    BY <2>3, Zenon DEF get_content_blocks, Sq
  <2>5. PICK full \in Nat : full = Sq + P + 1 /\ full > 0
    BY SqIs, Bounds
  <2>6. PICK y : y = b * (P + 1) + (c + 1) /\ y + 1 = b * P + c + b + 2 /\ y \in Nat
    <3>1. b * (P + 1) = b * P + b /\ b * P \in Nat
      BY <1>1, Bounds
    <3> QED BY <1>1, <3>1
  <2>7. y + 1 \in 0 .. full - 1
    <3>1. PICK bp \in Nat : bp = b * P
      BY <1>1, Bounds
    <3>2. bp + c <= Sq - 1 /\ y + 1 = bp + c + b + 2
      BY <1>2, <2>6, <3>1, SqIs
    <3> QED BY <1>1, <2>5, <2>6, <3>1, <3>2, Bounds, SqIs
  <2>8. m - UpToDind - 1 - 1 - P - 1 - 1 = a * full + (y + 1)
    <3>1. a * full = a * Sq + a * P + a
      BY <1>1, <2>5, SqIs, Bounds
    <3>2. PICK as \in Int, ap \in Int : as = a * Sq /\ ap = a * P
      BY <1>1, SqIs, Bounds
    <3>3. PICK bp \in Int : bp = b * P
      BY <1>1, Bounds
    <3>4. x = as + bp + c
      BY <1>1, <1>2, <1>3, <3>2, <3>3
    <3>5. m = n + P + a + ap + b + 6 /\ a * full = as + ap + a /\ y + 1 = bp + c + b + 2
      BY <2>1, <2>6, <3>1, <3>2, <3>3
    <3>6. PICK left \in Int : left = a * full
      BY <1>1, <2>5
    <3>7. m - UpToDind - 1 - 1 - P - 1 - 1 = left + (y + 1)
      BY <1>1, <1>4, <3>4, <3>5, <3>6, <2>6, <3>2, <3>3, Ranges, Bounds, SqIs
    <3> QED BY <3>6, <3>7
  <2>9. (a * full + (y + 1)) \div full = a /\ (a * full + (y + 1)) % full = y + 1
    <3>1. a \in Nat /\ full \in Nat /\ full > 0
      BY <1>1, <2>5
    <3>2. PICK z : z = y + 1
      OBVIOUS
    <3>3. z \in 0 .. full - 1
      BY <2>7, <3>2
    <3> QED BY <3>1, <3>2, <3>3, DivGeneral
  <2>10. ((y + 1) - 1) \div (P + 1) = b
    <3>1. P + 1 \in Nat /\ P + 1 > 0 /\ b \in Nat /\ c + 1 \in 0 .. (P + 1) - 1
      BY <1>1, Bounds
    <3>2. (b * (P + 1) + (c + 1)) \div (P + 1) = b
      BY <3>1, DivGeneral
    <3>3. (y + 1) - 1 = b * (P + 1) + (c + 1)
      BY <2>6
    <3> QED BY <3>2, <3>3, Zenon
  <2>11. get_content_blocks(m) = m - (1 + 1 + P + 1 + 1 + 1 + (P + 1) * a + b)
    BY <2>4, <2>5, <2>8, <2>9, <2>10, Zenon
  <2>12. (P + 1) * a = a * P + a /\ a * P \in Nat
    BY <1>1, Bounds
  <2> QED BY <1>1, <1>4, <2>1, <2>11, <2>12, Bounds
<1> QED BY <1>7, <1>8, <1>9 DEF MapsTo

-----------------------------------------------------------------------------
(* The blocks that are there.                                              *)

\* All blocks on the way to the first n content blocks.
Reached(n) == UNION {Ancestors(RealPath(k)) : k \in 0 .. n - 1}

LEMMA ReachedIs ==
  ASSUME NEW n \in Nat, NEW q
  PROVE  q \in Reached(n) <=> \E k \in 0 .. n - 1 : q \in Ancestors(RealPath(k))
BY DEF Reached

LEMMA ReachedNext ==
  ASSUME NEW n \in Nat
  PROVE  Reached(n + 1) = Reached(n) \union Ancestors(RealPath(n))
<1>1. 0 .. (n + 1) - 1 = (0 .. n - 1) \union {n}
  OBVIOUS
<1> QED BY <1>1 DEF Reached

\* The prefixes of a sequence.
PrefixIn(S, s, t) ==
  s \in Seq(S) /\ t \in Seq(S) /\ Len(t) <= Len(s) /\ \A i \in 1 .. Len(t) : t[i] = s[i]

LEMMA CutIs ==
  ASSUME NEW S, NEW s, NEW t, PrefixIn(S, s, t)
  PROVE  SubSeq(s, 1, Len(t)) = t
<1>0. s \in Seq(S) /\ t \in Seq(S) /\ Len(t) <= Len(s) /\ \A i \in 1 .. Len(t) : t[i] = s[i]
  BY DEF PrefixIn
<1>1. PICK k \in Nat : k = Len(t) /\ k <= Len(s)
  BY <1>0, LenProperties
<1>2. PICK u : u = SubSeq(s, 1, k)
  OBVIOUS
<1>3. \A i \in 1 .. k : s[i] \in S
  BY <1>0, <1>1, ElementOfSeq, LenProperties
<1>4. SubSeq(s, 1, k) \in Seq(S) /\ Len(SubSeq(s, 1, k)) = k
      /\ \A i \in 1 .. k : SubSeq(s, 1, k)[i] = s[i]
  BY <1>0, <1>1, <1>3, SubSeqProperties
<1>5. u \in Seq(S) /\ Len(u) = Len(t) /\ \A i \in 1 .. Len(u) : u[i] = t[i]
  BY <1>0, <1>1, <1>2, <1>4
<1>6. u = t
  BY <1>0, <1>5, SeqEqual
<1> QED BY <1>1, <1>2, <1>6

LEMMA AncestorsOne ==
  ASSUME NEW i
  PROVE  Ancestors(<<i>>) = {<<i>>}
<1>1. PICK S : S = {i}
  OBVIOUS
<1>2. <<i>> \in Seq(S) /\ Len(<<i>>) = 1
  BY <1>1
<1>3. SubSeq(<<i>>, 1, Len(<<i>>)) = <<i>>
  <2>1. PrefixIn(S, <<i>>, <<i>>)
    BY <1>2 DEF PrefixIn
  <2> QED BY <2>1, CutIs
<1>4. 1 .. 1 = {1}
  OBVIOUS
<1> QED BY <1>2, <1>3, <1>4 DEF Ancestors

LEMMA AncestorsTwo ==
  ASSUME NEW i, NEW j
  PROVE  Ancestors(<<i, j>>) = {<<i>>, <<i, j>>}
<1>1. PICK S : S = {i, j}
  OBVIOUS
<1>2. <<i>> \in Seq(S) /\ Len(<<i>>) = 1 /\ <<i, j>> \in Seq(S) /\ Len(<<i, j>>) = 2
  BY <1>1
<1>3. SubSeq(<<i, j>>, 1, 1) = <<i>>
  BY CutOne
<1>4. SubSeq(<<i, j>>, 1, 2) = <<i, j>>
  <2>1. PrefixIn(S, <<i, j>>, <<i, j>>)
    BY <1>2 DEF PrefixIn
  <2> QED BY <1>2, <2>1, CutIs
<1>5. 1 .. 2 = {1, 2}
  OBVIOUS
<1> QED BY <1>2, <1>3, <1>4, <1>5 DEF Ancestors

LEMMA AncestorsThree ==
  ASSUME NEW i, NEW j, NEW l
  PROVE  Ancestors(<<i, j, l>>) = {<<i>>, <<i, j>>, <<i, j, l>>}
<1>1. PICK S : S = {i, j, l}
  OBVIOUS
<1>2. /\ <<i>> \in Seq(S) /\ Len(<<i>>) = 1 /\ <<i, j>> \in Seq(S) /\ Len(<<i, j>>) = 2
      /\ <<i, j, l>> \in Seq(S) /\ Len(<<i, j, l>>) = 3
  BY <1>1
<1>3. SubSeq(<<i, j, l>>, 1, Len(<<i>>)) = <<i>>
  <2>1. PrefixIn(S, <<i, j, l>>, <<i>>)
    BY <1>2 DEF PrefixIn
  <2> QED BY <2>1, CutIs
<1>4. SubSeq(<<i, j, l>>, 1, 2) = <<i, j>>
  BY CutTwo
<1>5. SubSeq(<<i, j, l>>, 1, Len(<<i, j, l>>)) = <<i, j, l>>
  <2>1. PrefixIn(S, <<i, j, l>>, <<i, j, l>>)
    BY <1>2 DEF PrefixIn
  <2> QED BY <2>1, CutIs
<1>6. 1 .. 3 = {1, 2, 3}
  OBVIOUS
<1> QED BY <1>2, <1>3, <1>4, <1>5, <1>6 DEF Ancestors

LEMMA AncestorsFour ==
  ASSUME NEW i, NEW j, NEW l, NEW m
  PROVE  Ancestors(<<i, j, l, m>>) = {<<i>>, <<i, j>>, <<i, j, l>>, <<i, j, l, m>>}
<1>1. PICK S : S = {i, j, l, m}
  OBVIOUS
<1>2. /\ <<i>> \in Seq(S) /\ Len(<<i>>) = 1 /\ <<i, j>> \in Seq(S) /\ Len(<<i, j>>) = 2
      /\ <<i, j, l>> \in Seq(S) /\ Len(<<i, j, l>>) = 3
      /\ <<i, j, l, m>> \in Seq(S) /\ Len(<<i, j, l, m>>) = 4
  BY <1>1
<1>3. SubSeq(<<i, j, l, m>>, 1, Len(<<i>>)) = <<i>>
  <2>1. PrefixIn(S, <<i, j, l, m>>, <<i>>)
    BY <1>2 DEF PrefixIn
  <2> QED BY <2>1, CutIs
<1>4. SubSeq(<<i, j, l, m>>, 1, Len(<<i, j>>)) = <<i, j>>
  <2>1. PrefixIn(S, <<i, j, l, m>>, <<i, j>>)
    BY <1>2 DEF PrefixIn
  <2> QED BY <2>1, CutIs
<1>5. SubSeq(<<i, j, l, m>>, 1, Len(<<i, j, l>>)) = <<i, j, l>>
  <2>1. PrefixIn(S, <<i, j, l, m>>, <<i, j, l>>)
    BY <1>2 DEF PrefixIn
  <2> QED BY <2>1, CutIs
<1>6. SubSeq(<<i, j, l, m>>, 1, Len(<<i, j, l, m>>)) = <<i, j, l, m>>
  <2>1. PrefixIn(S, <<i, j, l, m>>, <<i, j, l, m>>)
    BY <1>2 DEF PrefixIn
  <2> QED BY <2>1, CutIs
<1>7. 1 .. 4 = {1, 2, 3, 4}
  OBVIOUS
<1> QED BY <1>2, <1>3, <1>4, <1>5, <1>6, <1>7 DEF Ancestors

\* A place and the blocks on the way to it.
LEMMA PlaceAncestors ==
  ASSUME NEW n
  PROVE  /\ InDirect(n) => Ancestors(RealPath(n)) = {<<n>>}
         /\ \A j : InSingle(n, j) => Ancestors(RealPath(n)) = {<<SIND>>, <<SIND, j>>}
         /\ \A a, b : InDouble(n, a, b) =>
              Ancestors(RealPath(n)) = {<<DIND>>, <<DIND, a>>, <<DIND, a, b>>}
         /\ \A a, b, c : InTriple(n, a, b, c) =>
              Ancestors(RealPath(n)) = {<<TIND>>, <<TIND, a>>, <<TIND, a, b>>, <<TIND, a, b, c>>}
<1>1. InDirect(n) => Ancestors(RealPath(n)) = {<<n>>}
  BY DirectIs, AncestorsOne DEF MapsTo
<1>2. ASSUME NEW j, InSingle(n, j) PROVE Ancestors(RealPath(n)) = {<<SIND>>, <<SIND, j>>}
  BY <1>2, SingleIs, AncestorsTwo DEF MapsTo
<1>3. ASSUME NEW a, NEW b, InDouble(n, a, b)
      PROVE  Ancestors(RealPath(n)) = {<<DIND>>, <<DIND, a>>, <<DIND, a, b>>}
  BY <1>3, DoubleIs, AncestorsThree DEF MapsTo
<1>4. ASSUME NEW a, NEW b, NEW c, InTriple(n, a, b, c)
      PROVE  Ancestors(RealPath(n)) = {<<TIND>>, <<TIND, a>>, <<TIND, a, b>>, <<TIND, a, b, c>>}
  BY <1>4, TripleIs, AncestorsFour DEF MapsTo
<1> QED BY <1>1, <1>2, <1>3, <1>4

\* Who has a path among its ancestors.
LEMMA MemberIs ==
  ASSUME NEW k \in Nat, k < UpToTind, NEW q \in Ancestors(RealPath(k))
  PROVE  \/ InDirect(k) /\ q = <<k>>
         \/ \E j : InSingle(k, j) /\ q \in {<<SIND>>, <<SIND, j>>}
         \/ \E a, b : InDouble(k, a, b) /\ q \in {<<DIND>>, <<DIND, a>>, <<DIND, a, b>>}
         \/ \E a, b, c : InTriple(k, a, b, c)
                         /\ q \in {<<TIND>>, <<TIND, a>>, <<TIND, a, b>>, <<TIND, a, b, c>>}
<1>1. CASE InDirect(k)
  BY <1>1, PlaceAncestors
<1>2. ASSUME NEW j, InSingle(k, j)
      PROVE  InSingle(k, j) /\ q \in {<<SIND>>, <<SIND, j>>}
  BY <1>2, PlaceAncestors
<1>3. ASSUME NEW a, NEW b, InDouble(k, a, b)
      PROVE  InDouble(k, a, b) /\ q \in {<<DIND>>, <<DIND, a>>, <<DIND, a, b>>}
  BY <1>3, PlaceAncestors
<1>4. ASSUME NEW a, NEW b, NEW c, InTriple(k, a, b, c)
      PROVE  InTriple(k, a, b, c)
             /\ q \in {<<TIND>>, <<TIND, a>>, <<TIND, a, b>>, <<TIND, a, b, c>>}
  BY <1>4, PlaceAncestors
<1>5. \/ InDirect(k)
      \/ \E j : InSingle(k, j)
      \/ \E a, b : InDouble(k, a, b)
      \/ \E a, b, c : InTriple(k, a, b, c)
  BY PlaceExists
<1> QED BY <1>1, <1>2, <1>3, <1>4, <1>5, Zenon

\* What it says of a path that it is on the way to block k.
OnWay(k, q) ==
  /\ q \in Seq(Nat) /\ Len(q) \in 1 .. 4
  /\ q[1] < NDIR => InDirect(k) /\ k = q[1] /\ Len(q) = 1
  /\ q[1] = SIND => (\E j : InSingle(k, j) /\ (Len(q) > 1 => q[2] = j)) /\ Len(q) <= 2
  /\ q[1] = DIND => /\ Len(q) <= 3
                    /\ \E a, b : InDouble(k, a, b) /\ (Len(q) > 1 => q[2] = a)
                                   /\ (Len(q) > 2 => q[3] = b)
  /\ q[1] = TIND => \E a, b, c : InTriple(k, a, b, c) /\ (Len(q) > 1 => q[2] = a)
                                   /\ (Len(q) > 2 => q[3] = b) /\ (Len(q) > 3 => q[4] = c)
  /\ q[1] < NDIR \/ q[1] \in {SIND, DIND, TIND}

LEMMA OnWayIs ==
  ASSUME NEW k \in Nat, k < UpToTind, NEW q \in Ancestors(RealPath(k))
  PROVE  OnWay(k, q)
<1>1. CASE InDirect(k) /\ q = <<k>>
  <2>1. q \in Seq(Nat) /\ Len(q) = 1 /\ q[1] = k /\ k < NDIR
    BY <1>1, Bounds DEF InDirect
  <2> QED BY <1>1, <2>1, Bounds DEF OnWay
<1>2. ASSUME NEW j, InSingle(k, j), q \in {<<SIND>>, <<SIND, j>>}
      PROVE  OnWay(k, q)
  <2>1. SIND \in Nat /\ j \in Nat /\ ~ (SIND < NDIR) /\ SIND # DIND /\ SIND # TIND
    BY <1>2, Bounds DEF InSingle
  <2>2. CASE q = <<SIND>>
    <3>1. q \in Seq(Nat) /\ Len(q) = 1 /\ q[1] = SIND
      BY <2>1, <2>2
    <3> QED BY <1>2, <2>1, <3>1 DEF OnWay
  <2>3. CASE q = <<SIND, j>>
    <3>1. q \in Seq(Nat) /\ Len(q) = 2 /\ q[1] = SIND /\ q[2] = j
      BY <2>1, <2>3
    <3> QED BY <1>2, <2>1, <3>1 DEF OnWay
  <2> QED BY <1>2, <2>2, <2>3
<1>3. ASSUME NEW a, NEW b, InDouble(k, a, b), q \in {<<DIND>>, <<DIND, a>>, <<DIND, a, b>>}
      PROVE  OnWay(k, q)
  <2>1. DIND \in Nat /\ a \in Nat /\ b \in Nat /\ ~ (DIND < NDIR) /\ SIND # DIND /\ DIND # TIND
    BY <1>3, Bounds DEF InDouble
  <2>2. CASE q = <<DIND>>
    <3>1. q \in Seq(Nat) /\ Len(q) = 1 /\ q[1] = DIND
      BY <2>1, <2>2
    <3> QED BY <1>3, <2>1, <3>1 DEF OnWay
  <2>3. CASE q = <<DIND, a>>
    <3>1. q \in Seq(Nat) /\ Len(q) = 2 /\ q[1] = DIND /\ q[2] = a
      BY <2>1, <2>3
    <3> QED BY <1>3, <2>1, <3>1 DEF OnWay
  <2>4. CASE q = <<DIND, a, b>>
    <3>1. q \in Seq(Nat) /\ Len(q) = 3 /\ q[1] = DIND /\ q[2] = a /\ q[3] = b
      BY <2>1, <2>4
    <3> QED BY <1>3, <2>1, <3>1 DEF OnWay
  <2> QED BY <1>3, <2>2, <2>3, <2>4
<1>4. ASSUME NEW a, NEW b, NEW c, InTriple(k, a, b, c),
             q \in {<<TIND>>, <<TIND, a>>, <<TIND, a, b>>, <<TIND, a, b, c>>}
      PROVE  OnWay(k, q)
  <2>1. TIND \in Nat /\ a \in Nat /\ b \in Nat /\ c \in Nat /\ ~ (TIND < NDIR)
        /\ SIND # TIND /\ DIND # TIND
    BY <1>4, Bounds DEF InTriple
  <2>2. CASE q = <<TIND>>
    <3>1. q \in Seq(Nat) /\ Len(q) = 1 /\ q[1] = TIND
      BY <2>1, <2>2
    <3> QED BY <1>4, <2>1, <3>1 DEF OnWay
  <2>3. CASE q = <<TIND, a>>
    <3>1. q \in Seq(Nat) /\ Len(q) = 2 /\ q[1] = TIND /\ q[2] = a
      BY <2>1, <2>3
    <3> QED BY <1>4, <2>1, <3>1 DEF OnWay
  <2>4. CASE q = <<TIND, a, b>>
    <3>1. q \in Seq(Nat) /\ Len(q) = 3 /\ q[1] = TIND /\ q[2] = a /\ q[3] = b
      BY <2>1, <2>4
    <3> QED BY <1>4, <2>1, <3>1 DEF OnWay
  <2>5. CASE q = <<TIND, a, b, c>>
    <3>1. q \in Seq(Nat) /\ Len(q) = 4 /\ q[1] = TIND /\ q[2] = a /\ q[3] = b /\ q[4] = c
      BY <2>1, <2>5
    <3> QED BY <1>4, <2>1, <3>1 DEF OnWay
  <2> QED BY <1>4, <2>2, <2>3, <2>4, <2>5
<1>5. CASE \E j : InSingle(k, j) /\ q \in {<<SIND>>, <<SIND, j>>}
  BY <1>2, <1>5, Zenon
<1>6. CASE \E a, b : InDouble(k, a, b) /\ q \in {<<DIND>>, <<DIND, a>>, <<DIND, a, b>>}
  BY <1>3, <1>6, Zenon
<1>7. CASE \E a, b, c : InTriple(k, a, b, c)
                /\ q \in {<<TIND>>, <<TIND, a>>, <<TIND, a, b>>, <<TIND, a, b, c>>}
  BY <1>4, <1>7, Zenon
<1> QED BY <1>1, <1>5, <1>6, <1>7, MemberIs, Zenon

-----------------------------------------------------------------------------
(* One block more.                                                         *)

AllDiffer(x, y, z, w) == x # y /\ x # z /\ x # w /\ y # z /\ y # w /\ z # w

CountFour(x, y, z, w) ==
  /\ IsFiniteSet({x}) /\ Cardinality({x}) = 1
  /\ IsFiniteSet({x, y}) /\ Cardinality({x, y}) = 2
  /\ IsFiniteSet({x, y, z}) /\ Cardinality({x, y, z}) = 3
  /\ IsFiniteSet({x, y, z, w}) /\ Cardinality({x, y, z, w}) = 4

LEMMA CardFour ==
  ASSUME NEW x, NEW y, NEW z, NEW w, AllDiffer(x, y, z, w)
  PROVE  CountFour(x, y, z, w)
<1>0. x # y /\ x # z /\ x # w /\ y # z /\ y # w /\ z # w
  BY DEF AllDiffer
<1>1. IsFiniteSet({x}) /\ Cardinality({x}) = 1
  BY FS_Singleton
<1>2. IsFiniteSet({x} \union {y}) /\ Cardinality({x} \union {y}) = 1 + 1
  BY <1>0, <1>1, FS_AddElement
<1>3. {x} \union {y} = {x, y}
  OBVIOUS
<1>4. IsFiniteSet({x, y} \union {z}) /\ Cardinality({x, y} \union {z}) = 1 + 1 + 1
  BY <1>0, <1>2, <1>3, FS_AddElement
<1>5. {x, y} \union {z} = {x, y, z}
  OBVIOUS
<1>6. IsFiniteSet({x, y, z} \union {w}) /\ Cardinality({x, y, z} \union {w}) = 1 + 1 + 1 + 1
  <2>1. w \notin {x, y, z}
    BY <1>0
  <2>2. PICK s : s = {x, y, z}
    OBVIOUS
  <2>3. IsFiniteSet(s) /\ Cardinality(s) = 1 + 1 + 1 /\ w \notin s
    BY <1>4, <1>5, <2>1, <2>2
  <2>4. IsFiniteSet(s \union {w}) /\ Cardinality(s \union {w}) = 1 + 1 + 1 + 1
    BY <2>3, FS_AddElement
  <2> QED BY <2>2, <2>4
<1>7. {x, y, z} \union {w} = {x, y, z, w}
  OBVIOUS
<1> QED BY <1>1, <1>2, <1>3, <1>4, <1>5, <1>6, <1>7 DEF CountFour

\* The place before a place.
LEMMA BeforeTriple ==
  ASSUME NEW n, NEW a, NEW b, NEW c, InTriple(n, a, b, c)
  PROVE  /\ n \in Nat /\ n > 0
         /\ c > 0 => InTriple(n - 1, a, b, c - 1)
         /\ c = 0 /\ b > 0 => InTriple(n - 1, a, b - 1, P - 1)
         /\ c = 0 /\ b = 0 /\ a > 0 => InTriple(n - 1, a - 1, P - 1, P - 1)
         /\ c = 0 /\ b = 0 /\ a = 0 => InDouble(n - 1, P - 1, P - 1)
<1>1. /\ a \in 0 .. P - 1 /\ b \in 0 .. P - 1 /\ c \in 0 .. P - 1
      /\ n = NDIR + P + Sq + (a * Sq + (b * P + c))
  BY DEF InTriple
<1>2. /\ a * Sq \in Nat /\ b * P \in Nat /\ (a - 1) * Sq = a * Sq - Sq
      /\ (b - 1) * P = b * P - P /\ (P - 1) * P = Sq - P
  BY <1>1, Bounds, SqIs DEF Sq
<1>3. n \in Nat /\ n > 0
  BY <1>1, <1>2, Bounds, SqIs
<1>4. ASSUME c > 0 PROVE InTriple(n - 1, a, b, c - 1)
  <2>1. n - 1 = NDIR + P + Sq + (a * Sq + (b * P + (c - 1))) /\ c - 1 \in 0 .. P - 1
    BY <1>1, <1>2, <1>4, Bounds, SqIs
  <2> QED BY <1>1, <2>1 DEF InTriple
<1>5. ASSUME c = 0, b > 0 PROVE InTriple(n - 1, a, b - 1, P - 1)
  <2>1. n - 1 = NDIR + P + Sq + (a * Sq + ((b - 1) * P + (P - 1)))
    BY <1>1, <1>2, <1>5, Bounds, SqIs
  <2>2. b - 1 \in 0 .. P - 1 /\ P - 1 \in 0 .. P - 1
    BY <1>1, <1>5, Bounds
  <2> QED BY <1>1, <2>1, <2>2 DEF InTriple
<1>6. ASSUME c = 0, b = 0, a > 0 PROVE InTriple(n - 1, a - 1, P - 1, P - 1)
  <2>1. n - 1 = NDIR + P + Sq + ((a - 1) * Sq + ((P - 1) * P + (P - 1)))
    BY <1>1, <1>2, <1>6, Bounds, SqIs
  <2>2. a - 1 \in 0 .. P - 1 /\ P - 1 \in 0 .. P - 1
    BY <1>1, <1>6, Bounds
  <2> QED BY <2>1, <2>2 DEF InTriple
<1>7. ASSUME c = 0, b = 0, a = 0 PROVE InDouble(n - 1, P - 1, P - 1)
  <2>1. 0 * Sq = 0 /\ 0 * P = 0
    BY Bounds, SqIs
  <2>2. n = NDIR + P + Sq
    BY <1>1, <1>7, <2>1, Bounds, SqIs
  <2>3. n - 1 = NDIR + P + ((P - 1) * P + (P - 1)) /\ P - 1 \in 0 .. P - 1
    BY <1>2, <2>2, Bounds, SqIs
  <2> QED BY <2>3 DEF InDouble
<1> QED BY <1>3, <1>4, <1>5, <1>6, <1>7

LEMMA BeforeDouble ==
  ASSUME NEW n, NEW a, NEW b, InDouble(n, a, b)
  PROVE  /\ n \in Nat /\ n > 0
         /\ b > 0 => InDouble(n - 1, a, b - 1)
         /\ b = 0 /\ a > 0 => InDouble(n - 1, a - 1, P - 1)
         /\ b = 0 /\ a = 0 => InSingle(n - 1, P - 1)
<1>1. a \in 0 .. P - 1 /\ b \in 0 .. P - 1 /\ n = NDIR + P + (a * P + b)
  BY DEF InDouble
<1>2. a * P \in Nat /\ (a - 1) * P = a * P - P
  BY <1>1, Bounds
<1>3. n \in Nat /\ n > 0
  BY <1>1, <1>2, Bounds
<1>4. ASSUME b > 0 PROVE InDouble(n - 1, a, b - 1)
  <2>1. n - 1 = NDIR + P + (a * P + (b - 1)) /\ b - 1 \in 0 .. P - 1
    BY <1>1, <1>2, <1>4, Bounds
  <2> QED BY <1>1, <2>1 DEF InDouble
<1>5. ASSUME b = 0, a > 0 PROVE InDouble(n - 1, a - 1, P - 1)
  <2>1. n - 1 = NDIR + P + ((a - 1) * P + (P - 1))
    BY <1>1, <1>2, <1>5, Bounds
  <2>2. a - 1 \in 0 .. P - 1 /\ P - 1 \in 0 .. P - 1
    BY <1>1, <1>5, Bounds
  <2> QED BY <2>1, <2>2 DEF InDouble
<1>6. ASSUME b = 0, a = 0 PROVE InSingle(n - 1, P - 1)
  <2>1. n - 1 = NDIR + (P - 1) /\ P - 1 \in 0 .. P - 1
    BY <1>1, <1>6, Bounds
  <2> QED BY <2>1 DEF InSingle
<1> QED BY <1>3, <1>4, <1>5, <1>6

\* Blocks that were not there before block n.
LEMMA NewTriple ==
  ASSUME NEW n \in Nat, n < UpToTind, NEW a, NEW b, NEW c, InTriple(n, a, b, c)
  PROVE  /\ <<TIND, a, b, c>> \notin Reached(n)
         /\ c = 0 => <<TIND, a, b>> \notin Reached(n)
         /\ c = 0 /\ b = 0 => <<TIND, a>> \notin Reached(n)
         /\ c = 0 /\ b = 0 /\ a = 0 => <<TIND>> \notin Reached(n)
<1>1. ASSUME NEW q \in Reached(n)
      PROVE  \E k \in 0 .. n - 1 : OnWay(k, q)
  <2>1. PICK k \in 0 .. n - 1 : q \in Ancestors(RealPath(k))
    BY <1>1, ReachedIs
  <2>2. k \in Nat /\ k < UpToTind
    BY <2>1, Bounds, Ranges, SqIs
  <2>3. OnWay(k, q)
    BY <2>1, <2>2, OnWayIs
  <2> QED BY <2>3
<1>2. /\ a \in 0 .. P - 1 /\ b \in 0 .. P - 1 /\ c \in 0 .. P - 1
      /\ n = NDIR + P + Sq + (a * Sq + (b * P + c))
  BY DEF InTriple
<1>3. ASSUME NEW k \in 0 .. n - 1, NEW x, NEW y, NEW z, InTriple(k, x, y, z)
      PROVE  /\ ~ (x = a /\ y = b /\ z = c)
             /\ ~ (c = 0 /\ x = a /\ y = b)
             /\ ~ (c = 0 /\ b = 0 /\ x = a)
             /\ ~ (c = 0 /\ b = 0 /\ a = 0)
  <2>1. /\ x \in 0 .. P - 1 /\ y \in 0 .. P - 1 /\ z \in 0 .. P - 1
        /\ k = NDIR + P + Sq + (x * Sq + (y * P + z))
    BY <1>3 DEF InTriple
  <2>2. PICK xs \in Nat : xs = x * Sq
    BY <2>1, SqIs
  <2>3. PICK yp \in Nat : yp = y * P
    BY <2>1, Bounds
  <2>4. PICK as \in Nat : as = a * Sq
    BY <1>2, SqIs
  <2>5. PICK bp \in Nat : bp = b * P
    BY <1>2, Bounds
  <2>6. n = NDIR + P + Sq + as + bp + c
    BY <1>2, <2>4, <2>5, Bounds, SqIs
  <2>7. k = NDIR + P + Sq + xs + yp + z /\ k < n
    BY <1>3, <2>1, <2>2, <2>3, Bounds, SqIs
  <2>8. (x = a => xs = as) /\ (y = b => yp = bp) /\ (a = 0 => as = 0) /\ (b = 0 => bp = 0)
    BY <2>2, <2>3, <2>4, <2>5, Bounds, SqIs
  <2> QED BY <1>2, <2>1, <2>6, <2>7, <2>8, Bounds, SqIs
<1>4. <<TIND, a, b, c>> \notin Reached(n)
  <2>1. PICK q : q = <<TIND, a, b, c>>
    OBVIOUS
  <2>2. Len(q) = 4 /\ q[1] = TIND /\ q[2] = a /\ q[3] = b /\ q[4] = c
    BY <2>1
  <2>3. ASSUME q \in Reached(n) PROVE FALSE
    <3>1. PICK k \in 0 .. n - 1 : OnWay(k, q)
      BY <1>1, <2>3
    <3>2. PICK x, y, z : InTriple(k, x, y, z) /\ q[2] = x /\ q[3] = y /\ q[4] = z
      BY <2>2, <3>1 DEF OnWay
    <3> QED BY <1>3, <2>2, <3>2
  <2> QED BY <2>1, <2>3
<1>5. ASSUME c = 0 PROVE <<TIND, a, b>> \notin Reached(n)
  <2>1. PICK q : q = <<TIND, a, b>>
    OBVIOUS
  <2>2. Len(q) = 3 /\ q[1] = TIND /\ q[2] = a /\ q[3] = b
    BY <2>1
  <2>3. ASSUME q \in Reached(n) PROVE FALSE
    <3>1. PICK k \in 0 .. n - 1 : OnWay(k, q)
      BY <1>1, <2>3
    <3>2. PICK x, y, z : InTriple(k, x, y, z) /\ q[2] = x /\ q[3] = y
      BY <2>2, <3>1 DEF OnWay
    <3> QED BY <1>3, <1>5, <2>2, <3>2
  <2> QED BY <2>1, <2>3
<1>6. ASSUME c = 0, b = 0 PROVE <<TIND, a>> \notin Reached(n)
  <2>1. PICK q : q = <<TIND, a>>
    OBVIOUS
  <2>2. Len(q) = 2 /\ q[1] = TIND /\ q[2] = a
    BY <2>1
  <2>3. ASSUME q \in Reached(n) PROVE FALSE
    <3>1. PICK k \in 0 .. n - 1 : OnWay(k, q)
      BY <1>1, <2>3
    <3>2. PICK x, y, z : InTriple(k, x, y, z) /\ q[2] = x
      BY <2>2, <3>1 DEF OnWay
    <3> QED BY <1>3, <1>6, <2>2, <3>2
  <2> QED BY <2>1, <2>3
<1>7. ASSUME c = 0, b = 0, a = 0 PROVE <<TIND>> \notin Reached(n)
  <2>1. PICK q : q = <<TIND>>
    OBVIOUS
  <2>2. q[1] = TIND
    BY <2>1
  <2>3. ASSUME q \in Reached(n) PROVE FALSE
    <3>1. PICK k \in 0 .. n - 1 : OnWay(k, q)
      BY <1>1, <2>3
    <3>2. PICK x, y, z : InTriple(k, x, y, z)
      BY <2>2, <3>1 DEF OnWay
    <3> QED BY <1>3, <1>7, <3>2
  <2> QED BY <2>1, <2>3
<1> QED BY <1>4, <1>5, <1>6, <1>7

LEMMA NewDouble ==
  ASSUME NEW n \in Nat, n < UpToTind, NEW a, NEW b, InDouble(n, a, b)
  PROVE  /\ <<DIND, a, b>> \notin Reached(n)
         /\ b = 0 => <<DIND, a>> \notin Reached(n)
         /\ b = 0 /\ a = 0 => <<DIND>> \notin Reached(n)
<1>1. ASSUME NEW q \in Reached(n), q[1] = DIND
      PROVE  \E k \in 0 .. n - 1 : \E x, y :
                 InDouble(k, x, y) /\ (Len(q) > 1 => q[2] = x) /\ (Len(q) > 2 => q[3] = y)
  <2>1. PICK k \in 0 .. n - 1 : q \in Ancestors(RealPath(k))
    BY <1>1, ReachedIs
  <2>2. k \in Nat /\ k < UpToTind
    BY <2>1, Bounds, Ranges, SqIs
  <2>3. OnWay(k, q)
    BY <2>1, <2>2, OnWayIs
  <2> QED BY <1>1, <2>3 DEF OnWay
<1>2. a \in 0 .. P - 1 /\ b \in 0 .. P - 1 /\ n = NDIR + P + (a * P + b)
  BY DEF InDouble
<1>3. ASSUME NEW k \in 0 .. n - 1, NEW x, NEW y, InDouble(k, x, y)
      PROVE  ~ (x = a /\ y = b) /\ ~ (b = 0 /\ x = a) /\ ~ (b = 0 /\ a = 0)
  <2>1. x \in 0 .. P - 1 /\ y \in 0 .. P - 1 /\ k = NDIR + P + (x * P + y)
    BY <1>3 DEF InDouble
  <2>2. PICK xp \in Nat : xp = x * P
    BY <2>1, Bounds
  <2>3. PICK ap \in Nat : ap = a * P
    BY <1>2, Bounds
  <2>4. n = NDIR + P + ap + b
    BY <1>2, <2>3, Bounds
  <2>5. k = NDIR + P + xp + y /\ k < n
    BY <1>3, <2>1, <2>2, Bounds
  <2>6. (x = a => xp = ap) /\ (a = 0 => ap = 0)
    BY <2>2, <2>3, Bounds
  <2> QED BY <1>2, <2>1, <2>4, <2>5, <2>6, Bounds
<1>4. <<DIND, a, b>> \notin Reached(n)
  <2>1. PICK q : q = <<DIND, a, b>>
    OBVIOUS
  <2>2. Len(q) = 3 /\ q[1] = DIND /\ q[2] = a /\ q[3] = b
    BY <2>1
  <2> QED BY <1>1, <1>3, <2>1, <2>2
<1>5. ASSUME b = 0 PROVE <<DIND, a>> \notin Reached(n)
  <2>1. PICK q : q = <<DIND, a>>
    OBVIOUS
  <2>2. Len(q) = 2 /\ q[1] = DIND /\ q[2] = a
    BY <2>1
  <2> QED BY <1>1, <1>3, <1>5, <2>1, <2>2
<1>6. ASSUME b = 0, a = 0 PROVE <<DIND>> \notin Reached(n)
  <2>1. PICK q : q = <<DIND>>
    OBVIOUS
  <2>2. q[1] = DIND
    BY <2>1
  <2> QED BY <1>1, <1>3, <1>6, <2>1, <2>2
<1> QED BY <1>4, <1>5, <1>6

LEMMA NewSingle ==
  ASSUME NEW n \in Nat, n < UpToTind, NEW j, InSingle(n, j)
  PROVE  /\ <<SIND, j>> \notin Reached(n)
         /\ j = 0 => <<SIND>> \notin Reached(n)
<1>1. ASSUME NEW q \in Reached(n), q[1] = SIND
      PROVE  \E k \in 0 .. n - 1 : \E x : InSingle(k, x) /\ (Len(q) > 1 => q[2] = x)
  <2>1. PICK k \in 0 .. n - 1 : q \in Ancestors(RealPath(k))
    BY <1>1, ReachedIs
  <2>2. k \in Nat /\ k < UpToTind
    BY <2>1, Bounds, Ranges, SqIs
  <2>3. OnWay(k, q)
    BY <2>1, <2>2, OnWayIs
  <2> QED BY <1>1, <2>3 DEF OnWay
<1>2. ASSUME NEW k \in 0 .. n - 1, NEW x, InSingle(k, x)
      PROVE  x # j /\ j # 0
  BY <1>2, Bounds DEF InSingle
<1>3. <<SIND, j>> \notin Reached(n)
  <2>1. PICK q : q = <<SIND, j>>
    OBVIOUS
  <2>2. Len(q) = 2 /\ q[1] = SIND /\ q[2] = j
    BY <2>1
  <2> QED BY <1>1, <1>2, <2>1, <2>2
<1>4. ASSUME j = 0 PROVE <<SIND>> \notin Reached(n)
  <2>1. PICK q : q = <<SIND>>
    OBVIOUS
  <2>2. q[1] = SIND
    BY <2>1
  <2> QED BY <1>1, <1>2, <1>4, <2>1, <2>2
<1> QED BY <1>3, <1>4

LEMMA NewDirect ==
  ASSUME NEW n \in Nat, InDirect(n)
  PROVE  <<n>> \notin Reached(n)
<1>1. ASSUME <<n>> \in Reached(n) PROVE FALSE
  <2>1. PICK k \in 0 .. n - 1 : <<n>> \in Ancestors(RealPath(k))
    BY <1>1, ReachedIs
  <2>2. k \in Nat /\ k < UpToTind /\ n < NDIR
    <3>1. n < NDIR
      BY Bounds DEF InDirect
    <3>2. PICK cube \in Nat : cube = P * P * P
      BY Bounds
    <3> QED BY <2>1, <3>1, <3>2, Bounds, Ranges, SqIs
  <2>3. OnWay(k, <<n>>)
    BY <2>1, <2>2, OnWayIs
  <2>4. <<n>>[1] = n
    OBVIOUS
  <2> QED BY <2>1, <2>2, <2>3, <2>4 DEF OnWay
<1> QED BY <1>1

\* What block n adds to the blocks that are there, and to their count.
Adds(n, new) ==
  /\ IsFiniteSet(new) /\ new \intersect Reached(n) = {}
  /\ Reached(n + 1) = Reached(n) \union new
  /\ get_block_count(n) \in Nat /\ get_block_count(n + 1) \in Nat
  /\ get_block_count(n + 1) = get_block_count(n) + Cardinality(new)

LEMMA AddsOf ==
  ASSUME NEW n \in Nat, NEW new, NEW old, Ancestors(RealPath(n)) = old \union new,
         old \subseteq Reached(n), new \intersect Reached(n) = {},
         NEW size \in Nat, IsFiniteSet(new), Cardinality(new) = size,
         NEW before \in Nat, get_block_count(n) = before, get_block_count(n + 1) = before + size
  PROVE  Adds(n, new)
<1>1. Reached(n + 1) = Reached(n) \union new
  BY ReachedNext
<1> QED BY <1>1 DEF Adds

LEMMA CountBefore ==
  ASSUME NEW n \in Nat, n > 0, NEW path, NEW blocks, MapsTo(n - 1, path, blocks)
  PROVE  /\ get_block_count(n) = blocks
         /\ Ancestors(path) \subseteq Reached(n)
<1>1. (n - 1) + 1 = n /\ n - 1 \in 0 .. n - 1
  OBVIOUS
<1>2. get_block_count(n) = blocks
  BY <1>1 DEF MapsTo
<1>3. RealPath(n - 1) = path
  BY DEF MapsTo
<1>4. Ancestors(path) \subseteq Reached(n)
  BY <1>1, <1>3, ReachedIs
<1> QED BY <1>2, <1>4

LEMMA AddsDirect ==
  ASSUME NEW n \in Nat, InDirect(n)
  PROVE  \E new : Adds(n, new)
<1>1. Ancestors(RealPath(n)) = {} \union {<<n>>}
  BY PlaceAncestors
<1>2. {<<n>>} \intersect Reached(n) = {}
  BY NewDirect
<1>3. get_block_count(n + 1) = n + 1
  BY DirectIs DEF MapsTo
<1>4. get_block_count(n) = n
  <2>1. n <= NDIR /\ ~ (NDIR < n /\ n <= UpToSind) /\ ~ (UpToSind < n /\ n <= UpToDind)
    BY Bounds, Ranges DEF InDirect
  <2> QED BY <2>1, Zenon DEF get_block_count
<1>5. IsFiniteSet({<<n>>}) /\ Cardinality({<<n>>}) = 1
  BY FS_Singleton
<1>6. Adds(n, {<<n>>})
  BY <1>1, <1>2, <1>3, <1>4, <1>5, AddsOf
<1> QED BY <1>6

LEMMA AddsSingle ==
  ASSUME NEW n \in Nat, n < UpToTind, NEW j, InSingle(n, j)
  PROVE  \E new : Adds(n, new)
<1>1. PICK w1, w2 : w1 = <<SIND>> /\ w2 = <<SIND, j>>
  OBVIOUS
<1>2. w1 # w2
  BY <1>1
<1>3. Ancestors(RealPath(n)) = {w1, w2} /\ get_block_count(n + 1) = n + 2
  BY <1>1, PlaceAncestors, SingleIs DEF MapsTo
<1>4. w2 \notin Reached(n) /\ (j = 0 => w1 \notin Reached(n))
  BY <1>1, NewSingle
<1>5. j \in 0 .. P - 1 /\ n = NDIR + j /\ n > 0
  BY Bounds DEF InSingle
<1>6. /\ IsFiniteSet({w2}) /\ Cardinality({w2}) = 1
      /\ IsFiniteSet({w1, w2}) /\ Cardinality({w1, w2}) = 2
  <2>1. IsFiniteSet({w2}) /\ Cardinality({w2}) = 1
    BY FS_Singleton
  <2>2. IsFiniteSet({w2} \union {w1}) /\ Cardinality({w2} \union {w1}) = 1 + 1
    BY <1>2, <2>1, FS_AddElement
  <2>3. {w2} \union {w1} = {w1, w2}
    OBVIOUS
  <2> QED BY <2>1, <2>2, <2>3
<1>7. CASE j = 0
  <2>1. InDirect(n - 1) /\ (n - 1) + 1 = n
    BY <1>5, <1>7, Bounds DEF InDirect
  <2>2. MapsTo(n - 1, <<n - 1>>, n)
    BY <2>1, DirectIs
  <2>3. get_block_count(n) = n
    BY <1>5, <2>2, CountBefore
  <2>4. Ancestors(RealPath(n)) = {} \union {w1, w2} /\ {w1, w2} \intersect Reached(n) = {}
    BY <1>3, <1>4, <1>7
  <2>5. Adds(n, {w1, w2})
    BY <1>3, <1>6, <2>3, <2>4, AddsOf
  <2> QED BY <2>5
<1>8. CASE j > 0
  <2>1. InSingle(n - 1, j - 1) /\ (n - 1) + 2 = n + 1
    BY <1>5, <1>8, Bounds DEF InSingle
  <2>2. MapsTo(n - 1, <<SIND, j - 1>>, n + 1)
    BY <2>1, SingleIs
  <2>3. get_block_count(n) = n + 1 /\ w1 \in Reached(n)
    BY <1>1, <1>5, <2>2, CountBefore, AncestorsTwo
  <2>4. Ancestors(RealPath(n)) = {w1} \union {w2} /\ {w2} \intersect Reached(n) = {}
        /\ {w1} \subseteq Reached(n)
    BY <1>3, <1>4, <2>3
  <2>5. PICK m \in Nat : m = n + 1 /\ n + 2 = m + 1
    OBVIOUS
  <2>6. Adds(n, {w2})
    BY <1>3, <1>6, <2>3, <2>4, <2>5, AddsOf
  <2> QED BY <2>6
<1> QED BY <1>5, <1>7, <1>8

LEMMA AddsDouble ==
  ASSUME NEW n \in Nat, n < UpToTind, NEW a, NEW b, InDouble(n, a, b)
  PROVE  \E new : Adds(n, new)
<1>1. PICK w1, w2, w3 : w1 = <<DIND>> /\ w2 = <<DIND, a>> /\ w3 = <<DIND, a, b>>
  OBVIOUS
<1>2. w1 # w2 /\ w1 # w3 /\ w2 # w3
  BY <1>1
<1>3. Ancestors(RealPath(n)) = {w1, w2, w3} /\ get_block_count(n + 1) = n + a + 4
  BY <1>1, PlaceAncestors, DoubleIs DEF MapsTo
<1>4. w3 \notin Reached(n) /\ (b = 0 => w2 \notin Reached(n))
      /\ (b = 0 /\ a = 0 => w1 \notin Reached(n))
  BY <1>1, NewDouble
<1>5. a \in 0 .. P - 1 /\ b \in 0 .. P - 1 /\ n > 0
  BY BeforeDouble DEF InDouble
<1>6. /\ IsFiniteSet({w3}) /\ Cardinality({w3}) = 1
      /\ IsFiniteSet({w2, w3}) /\ Cardinality({w2, w3}) = 2
      /\ IsFiniteSet({w1, w2, w3}) /\ Cardinality({w1, w2, w3}) = 3
  <2>1. IsFiniteSet({w3}) /\ Cardinality({w3}) = 1
    BY FS_Singleton
  <2>2. IsFiniteSet({w3} \union {w2}) /\ Cardinality({w3} \union {w2}) = 1 + 1
    BY <1>2, <2>1, FS_AddElement
  <2>3. {w3} \union {w2} = {w2, w3}
    OBVIOUS
  <2>4. w1 \notin {w2, w3}
    BY <1>2
  <2>5. IsFiniteSet({w2, w3} \union {w1}) /\ Cardinality({w2, w3} \union {w1}) = 1 + 1 + 1
    BY <2>2, <2>3, <2>4, FS_AddElement
  <2>6. {w2, w3} \union {w1} = {w1, w2, w3}
    OBVIOUS
  <2> QED BY <2>1, <2>2, <2>3, <2>5, <2>6
<1>7. CASE b > 0
  <2>1. MapsTo(n - 1, <<DIND, a, b - 1>>, (n - 1) + a + 4)
    BY <1>7, BeforeDouble, DoubleIs
  <2>2. get_block_count(n) = (n - 1) + a + 4 /\ {w1, w2} \subseteq Reached(n)
    BY <1>1, <1>5, <2>1, CountBefore, AncestorsThree
  <2>3. Ancestors(RealPath(n)) = {w1, w2} \union {w3} /\ {w3} \intersect Reached(n) = {}
    BY <1>3, <1>4
  <2>4. n + a + 4 = ((n - 1) + a + 4) + 1 /\ (n - 1) + a + 4 \in Nat
    BY <1>5
  <2>5. Adds(n, {w3})
    BY <1>3, <1>6, <2>2, <2>3, <2>4, AddsOf
  <2> QED BY <2>5
<1>8. CASE b = 0 /\ a > 0
  <2>1. MapsTo(n - 1, <<DIND, a - 1, P - 1>>, (n - 1) + (a - 1) + 4)
    BY <1>8, BeforeDouble, DoubleIs
  <2>2. get_block_count(n) = (n - 1) + (a - 1) + 4 /\ {w1} \subseteq Reached(n)
    BY <1>1, <1>5, <2>1, CountBefore, AncestorsThree
  <2>3. Ancestors(RealPath(n)) = {w1} \union {w2, w3} /\ {w2, w3} \intersect Reached(n) = {}
    BY <1>3, <1>4, <1>8
  <2>4. n + a + 4 = ((n - 1) + (a - 1) + 4) + 2 /\ (n - 1) + (a - 1) + 4 \in Nat
    BY <1>5
  <2>5. Adds(n, {w2, w3})
    BY <1>3, <1>6, <2>2, <2>3, <2>4, AddsOf
  <2> QED BY <2>5
<1>9. CASE b = 0 /\ a = 0
  <2>1. MapsTo(n - 1, <<SIND, P - 1>>, (n - 1) + 2)
    BY <1>9, BeforeDouble, SingleIs
  <2>2. get_block_count(n) = (n - 1) + 2
    BY <1>5, <2>1, CountBefore
  <2>3. Ancestors(RealPath(n)) = {} \union {w1, w2, w3} /\ {w1, w2, w3} \intersect Reached(n) = {}
    BY <1>3, <1>4, <1>9
  <2>4. n + a + 4 = ((n - 1) + 2) + 3 /\ (n - 1) + 2 \in Nat
    BY <1>5, <1>9
  <2>5. Adds(n, {w1, w2, w3})
    BY <1>3, <1>6, <2>2, <2>3, <2>4, AddsOf
  <2> QED BY <2>5
<1> QED BY <1>5, <1>7, <1>8, <1>9

LEMMA AddsTriple ==
  ASSUME NEW n \in Nat, n < UpToTind, NEW a, NEW b, NEW c, InTriple(n, a, b, c)
  PROVE  \E new : Adds(n, new)
<1>1. PICK w1, w2, w3, w4 : /\ w1 = <<TIND>> /\ w2 = <<TIND, a>> /\ w3 = <<TIND, a, b>>
                            /\ w4 = <<TIND, a, b, c>>
  OBVIOUS
<1>2. w1 # w2 /\ w1 # w3 /\ w1 # w4 /\ w2 # w3 /\ w2 # w4 /\ w3 # w4
  BY <1>1
<1>3. Ancestors(RealPath(n)) = {w1, w2, w3, w4}
      /\ get_block_count(n + 1) = TripleBlocks(n, a, b)
  BY <1>1, PlaceAncestors, TripleIs DEF MapsTo
<1>4. w4 \notin Reached(n) /\ (c = 0 => w3 \notin Reached(n))
      /\ (c = 0 /\ b = 0 => w2 \notin Reached(n))
      /\ (c = 0 /\ b = 0 /\ a = 0 => w1 \notin Reached(n))
  BY <1>1, NewTriple
<1>5. a \in 0 .. P - 1 /\ b \in 0 .. P - 1 /\ c \in 0 .. P - 1 /\ n > 0
  BY BeforeTriple DEF InTriple
<1>6. /\ IsFiniteSet({w4}) /\ Cardinality({w4}) = 1
      /\ IsFiniteSet({w4, w3}) /\ Cardinality({w4, w3}) = 2
      /\ IsFiniteSet({w4, w3, w2}) /\ Cardinality({w4, w3, w2}) = 3
      /\ IsFiniteSet({w4, w3, w2, w1}) /\ Cardinality({w4, w3, w2, w1}) = 4
  <2>1. AllDiffer(w4, w3, w2, w1)
    BY <1>2 DEF AllDiffer
  <2>2. CountFour(w4, w3, w2, w1)
    BY <2>1, CardFour, Zenon
  <2> QED BY <2>2, Zenon DEF CountFour
<1>7. PICK ap \in Nat : ap = a * P /\ (a - 1) * P = ap - P
  BY <1>5, Bounds
<1>8. TripleBlocks(n, a, b) = n + P + a + ap + b + 6
  BY <1>7 DEF TripleBlocks
<1>9. CASE c > 0
  <2>1. MapsTo(n - 1, <<TIND, a, b, c - 1>>, TripleBlocks(n - 1, a, b))
    BY <1>9, BeforeTriple, TripleIs
  <2>2. get_block_count(n) = TripleBlocks(n - 1, a, b) /\ {w1, w2, w3} \subseteq Reached(n)
    BY <1>1, <1>5, <2>1, CountBefore, AncestorsFour
  <2>3. Ancestors(RealPath(n)) = {w1, w2, w3} \union {w4} /\ {w4} \intersect Reached(n) = {}
    BY <1>3, <1>4
  <2>4. TripleBlocks(n - 1, a, b) = (n - 1) + P + a + ap + b + 6
    BY <1>7 DEF TripleBlocks
  <2>5. PICK m \in Nat : m = TripleBlocks(n - 1, a, b) /\ TripleBlocks(n, a, b) = m + 1
    BY <1>5, <1>8, <2>4, Bounds
  <2>6. Adds(n, {w4})
    BY <1>3, <1>6, <2>2, <2>3, <2>5, AddsOf
  <2> QED BY <2>6
<1>10. CASE c = 0 /\ b > 0
  <2>1. MapsTo(n - 1, <<TIND, a, b - 1, P - 1>>, TripleBlocks(n - 1, a, b - 1))
    BY <1>10, BeforeTriple, TripleIs
  <2>2. get_block_count(n) = TripleBlocks(n - 1, a, b - 1) /\ {w1, w2} \subseteq Reached(n)
    BY <1>1, <1>5, <2>1, CountBefore, AncestorsFour
  <2>3. Ancestors(RealPath(n)) = {w1, w2} \union {w4, w3} /\ {w4, w3} \intersect Reached(n) = {}
    BY <1>3, <1>4, <1>10
  <2>4. TripleBlocks(n - 1, a, b - 1) = (n - 1) + P + a + ap + (b - 1) + 6
    BY <1>7 DEF TripleBlocks
  <2>5. PICK m \in Nat : m = TripleBlocks(n - 1, a, b - 1) /\ TripleBlocks(n, a, b) = m + 2
    BY <1>5, <1>8, <2>4, Bounds
  <2>6. Adds(n, {w4, w3})
    BY <1>3, <1>6, <2>2, <2>3, <2>5, AddsOf
  <2> QED BY <2>6
<1>11. CASE c = 0 /\ b = 0 /\ a > 0
  <2>1. MapsTo(n - 1, <<TIND, a - 1, P - 1, P - 1>>, TripleBlocks(n - 1, a - 1, P - 1))
    BY <1>11, BeforeTriple, TripleIs
  <2>2. get_block_count(n) = TripleBlocks(n - 1, a - 1, P - 1) /\ {w1} \subseteq Reached(n)
    BY <1>1, <1>5, <2>1, CountBefore, AncestorsFour
  <2>3. Ancestors(RealPath(n)) = {w1} \union {w4, w3, w2}
        /\ {w4, w3, w2} \intersect Reached(n) = {}
    BY <1>3, <1>4, <1>11
  <2>4. TripleBlocks(n - 1, a - 1, P - 1)
          = (n - 1) + P + (a - 1) + (ap - P) + (P - 1) + 6
    BY <1>7 DEF TripleBlocks
  <2>5. PICK m \in Nat : m = TripleBlocks(n - 1, a - 1, P - 1) /\ TripleBlocks(n, a, b) = m + 3
    BY <1>5, <1>8, <1>11, <2>4, Bounds
  <2>6. Adds(n, {w4, w3, w2})
    BY <1>3, <1>6, <2>2, <2>3, <2>5, AddsOf
  <2> QED BY <2>6
<1>12. CASE c = 0 /\ b = 0 /\ a = 0
  <2>1. MapsTo(n - 1, <<DIND, P - 1, P - 1>>, (n - 1) + (P - 1) + 4)
    BY <1>12, BeforeTriple, DoubleIs
  <2>2. get_block_count(n) = (n - 1) + (P - 1) + 4
    BY <1>5, <2>1, CountBefore
  <2>3. Ancestors(RealPath(n)) = {} \union {w4, w3, w2, w1}
        /\ {w4, w3, w2, w1} \intersect Reached(n) = {}
    BY <1>3, <1>4, <1>12
  <2>4. ap = 0
    BY <1>7, <1>12, Bounds
  <2>5. PICK m \in Nat : m = (n - 1) + (P - 1) + 4 /\ TripleBlocks(n, a, b) = m + 4
    BY <1>5, <1>8, <1>12, <2>4, Bounds
  <2>6. Adds(n, {w4, w3, w2, w1})
    BY <1>3, <1>6, <2>2, <2>3, <2>5, AddsOf
  <2> QED BY <2>6
<1> QED BY <1>5, <1>9, <1>10, <1>11, <1>12

LEMMA AddsExists ==
  ASSUME NEW n \in Nat, n < UpToTind
  PROVE  \E new : Adds(n, new)
BY PlaceExists, AddsDirect, AddsSingle, AddsDouble, AddsTriple

\* As many blocks are there as get_block_count says.
LEMMA CountReached ==
  ASSUME NEW n \in Nat, n <= UpToTind
  PROVE  /\ get_block_count(n) \in Nat
         /\ IsFiniteSet(Reached(n)) /\ Cardinality(Reached(n)) = get_block_count(n)
<1> DEFINE InAgreement(m) == /\ get_block_count(m) \in Nat
                         /\ IsFiniteSet(Reached(m))
                         /\ Cardinality(Reached(m)) = get_block_count(m)
           Good == {m \in Nat : m <= UpToTind => InAgreement(m)}
<1>1. 0 \in Good
  <2>1. Reached(0) = {}
    <3>1. 0 .. 0 - 1 = {}
      OBVIOUS
    <3> QED BY <3>1 DEF Reached
  <2>2. get_block_count(0) = 0
    BY CountIs, Bounds DEF Most
  <2>3. InAgreement(0)
    BY <2>1, <2>2, FS_EmptySet
  <2> QED BY <2>3
<1>2. ASSUME NEW m \in Nat, m \in Good PROVE m + 1 \in Good
  <2>1. PICK top \in Nat : top = UpToTind
    <3>1. PICK cube \in Nat : cube = P * P * P
      BY Bounds
    <3> QED BY <3>1, Bounds, Ranges, SqIs
  <2>2. SUFFICES ASSUME m + 1 <= top PROVE InAgreement(m + 1)
    BY <2>1
  <2>3. InAgreement(m) /\ m < UpToTind
    BY <1>2, <2>1, <2>2
  <2>4. PICK new : Adds(m, new)
    BY <2>3, AddsExists
  <2>5. /\ IsFiniteSet(new) /\ new \intersect Reached(m) = {}
        /\ Reached(m + 1) = Reached(m) \union new
        /\ get_block_count(m + 1) \in Nat
        /\ get_block_count(m + 1) = get_block_count(m) + Cardinality(new)
    BY <2>4 DEF Adds
  <2>6. IsFiniteSet(Reached(m) \union new)
        /\ Cardinality(Reached(m) \union new)
             = Cardinality(Reached(m)) + Cardinality(new) - Cardinality(Reached(m) \intersect new)
    BY <2>3, <2>5, FS_Union
  <2>7. Reached(m) \intersect new = {} /\ Cardinality({}) = 0
    BY <2>5, FS_EmptySet
  <2>8. Cardinality(new) \in Nat
    BY <2>5, FS_CardinalityType
  <2>9. Cardinality(Reached(m) \intersect new) = 0
    BY <2>7
  <2>10. Cardinality(Reached(m + 1)) = get_block_count(m + 1)
    <3>1. Cardinality(Reached(m + 1)) = Cardinality(Reached(m)) + Cardinality(new) - 0
      BY <2>5, <2>6, <2>9
    <3> QED BY <2>3, <2>5, <2>8, <3>1
  <2> QED BY <2>5, <2>6, <2>10
<1>3. n \in Good
  <2> HIDE DEF Good
  <2>1. \A m \in Nat : m \in Good => m + 1 \in Good
    BY <1>2
  <2> QED BY <1>1, <2>1, Induction
<1> QED BY <1>3

\* get_content_blocks is the inverse of get_block_count.
LEMMA InverseIs ==
  ASSUME NEW n \in Nat, n <= UpToTind
  PROVE  get_content_blocks(get_block_count(n)) = n
<1>1. CASE n = 0
  BY <1>1, ContentIs, Bounds DEF Most
<1>2. CASE n > 0
  <2>1. PICK m \in Nat : m = n - 1 /\ n = m + 1 /\ m < UpToTind
    <3>1. PICK cube \in Nat : cube = P * P * P
      BY Bounds
    <3> QED BY <1>2, <3>1, Bounds, Ranges, SqIs
  <2>2. \E path, blocks : MapsTo(m, path, blocks)
    BY <2>1, PlaceExists, DirectIs, SingleIs, DoubleIs, TripleIs
  <2>3. PICK path, blocks : MapsTo(m, path, blocks)
    BY <2>2
  <2>4. get_block_count(m + 1) = blocks /\ get_content_blocks(blocks) = m + 1
    BY <2>3 DEF MapsTo
  <2> QED BY <2>1, <2>4
<1> QED BY <1>1, <1>2

\* Files of which free_inode_block has the right idea.
LEMMA SmallBelow ==
  ASSUME NEW n \in Nat, n <= UpToTind, get_block_count(n) <= Most + 3
  PROVE  n <= Most
<1> SUFFICES ASSUME n > Most PROVE FALSE
  BY Bounds
<1>1. PICK m \in Nat : m = n - 1 /\ n = m + 1 /\ m < UpToTind /\ m >= Most
  <2>1. PICK cube \in Nat : cube = P * P * P
    BY Bounds
  <2> QED BY <2>1, Bounds, Ranges, SqIs
<1>2. CASE InDirect(m)
  BY <1>1, <1>2, Bounds DEF InDirect, Most
<1>3. ASSUME NEW j, InSingle(m, j) PROVE FALSE
  BY <1>1, <1>3, Bounds DEF InSingle, Most
<1>4. ASSUME NEW a, NEW b, InDouble(m, a, b) PROVE FALSE
  <2>1. get_block_count(n) = m + a + 4 /\ a \in Nat
    BY <1>1, <1>4, DoubleIs DEF MapsTo, InDouble
  <2> QED BY <1>1, <2>1, Bounds
<1>5. ASSUME NEW a, NEW b, NEW c, InTriple(m, a, b, c) PROVE FALSE
  <2>1. get_block_count(n) = m + P + a + a * P + b + 6 /\ a \in Nat /\ b \in Nat
    BY <1>1, <1>5, TripleIs DEF MapsTo, InTriple, TripleBlocks
  <2>2. a * P \in Nat
    BY <2>1, Bounds
  <2> QED BY <1>1, <2>1, <2>2, Bounds
<1> QED BY <1>1, <1>2, <1>3, <1>4, <1>5, PlaceExists

LEMMA WayAncestors ==
  ASSUME NEW n \in Nat, n < Most
  PROVE  Ancestors(RealPath(n)) = Way(RealPath(n))
<1>1. CASE n < NDIR
  <2>1. PICK i : RealPath(n) = <<i>>
    BY <1>1, RealIs
  <2> QED BY <2>1, AncestorsOne, WayIs
<1>2. CASE NDIR <= n /\ n < NDIR + P
  <2>1. PICK j : RealPath(n) = <<SIND, j>>
    BY <1>2, RealIs
  <2>2. Ancestors(<<SIND, j>>) = {<<SIND>>, <<SIND, j>>}
    BY AncestorsTwo
  <2>3. Way(<<SIND, j>>) = {<<SIND, j>>, <<SIND>>}
    BY WayIs
  <2> QED BY <2>1, <2>2, <2>3
<1>3. CASE NDIR + P <= n
  <2>1. PICK j : RealPath(n) = <<DIND, 0, j>>
    BY <1>3, RealIs
  <2>2. Ancestors(<<DIND, 0, j>>) = {<<DIND>>, <<DIND, 0>>, <<DIND, 0, j>>}
    BY AncestorsThree
  <2>3. Way(<<DIND, 0, j>>) = {<<DIND, 0, j>>, <<DIND, 0>>, <<DIND>>}
    BY WayIs
  <2> QED BY <2>1, <2>2, <2>3
<1> QED BY <1>1, <1>2, <1>3, Bounds

\* Small files have the blocks that free_inode_block counts.
LEMMA ReachedSlots ==
  ASSUME NEW n \in Nat, n <= Most
  PROVE  Reached(n) = Slots(get_block_count(n))
<1> DEFINE Good == {m \in Nat : m <= Most => Reached(m) = Slots(get_block_count(m))}
<1>1. 0 \in Good
  <2>1. get_block_count(0) = 0
    BY CountIs, Bounds DEF Most
  <2>2. Reached(0) = {} /\ Slots(0) = {}
    <3>1. 0 .. 0 - 1 = {}
      OBVIOUS
    <3> QED BY <3>1 DEF Reached, Slots
  <2> QED BY <2>1, <2>2
<1>2. ASSUME NEW m \in Nat, m \in Good PROVE m + 1 \in Good
  <2>1. SUFFICES ASSUME m + 1 <= Most PROVE Reached(m + 1) = Slots(get_block_count(m + 1))
    OBVIOUS
  <2>2. m < Most /\ m <= Most
    BY <2>1, Bounds
  <2>3. Reached(m) = Slots(get_block_count(m))
    BY <1>2, <2>2
  <2>4. Reached(m + 1) = Reached(m) \union Ancestors(RealPath(m))
    BY ReachedNext
  <2>5. Slots(get_block_count(m + 1)) = Slots(get_block_count(m)) \union Way(RealPath(m))
    BY <2>2, SlotsGrow
  <2>6. Ancestors(RealPath(m)) = Way(RealPath(m))
    BY <2>2, WayAncestors
  <2> QED BY <2>3, <2>4, <2>5, <2>6
<1>3. n \in Good
  <2> HIDE DEF Good
  <2>1. \A m \in Nat : m \in Good => m + 1 \in Good
    BY <1>2
  <2> QED BY <1>1, <2>1, Induction
<1> QED BY <1>3

\* What is left when the last ones are freed.
LEMMA SlotsLeft ==
  ASSUME NEW j \in Nat, NEW k \in Nat, j <= k, k <= Most + 3
  PROVE  Slots(k) \ {FreePath(i) : i \in j .. k - 1} = Slots(j)
<1>1. ASSUME NEW h \in 0 .. j - 1, NEW i \in j .. k - 1 PROVE FreePath(h) # FreePath(i)
  <2>1. h \in Nat /\ i \in Nat /\ h < Most + 3 /\ i < Most + 3 /\ h # i
    BY <1>1, Bounds
  <2> QED BY <2>1, SlotsDiffer
<1>2. \A i : i \in 0 .. k - 1 <=> i \in 0 .. j - 1 \/ i \in j .. k - 1
  OBVIOUS
<1> QED BY <1>1, <1>2 DEF Slots

\* The blocks of a file without another one below them are its content.
Ends(q, t) == ~ \E p \in t : Len(p) > Len(q) /\ SubSeq(p, 1, Len(q)) = q

Depth(i) == IF i = SIND THEN 2 ELSE IF i = DIND THEN 3 ELSE IF i = TIND THEN 4 ELSE 1

LEMMA RealDepth ==
  ASSUME NEW n \in Nat, n < UpToTind
  PROVE  /\ RealPath(n) \in Seq(Nat)
         /\ Len(RealPath(n)) \in 1 .. 4 /\ Len(RealPath(n)) = Depth(RealPath(n)[1])
<1>1. CASE InDirect(n)
  <2>1. RealPath(n) = <<n>> /\ n # SIND /\ n # DIND /\ n # TIND
    BY <1>1, DirectIs, Bounds DEF MapsTo, InDirect
  <2> QED BY <2>1 DEF Depth
<1>2. ASSUME NEW j, InSingle(n, j)
      PROVE  RealPath(n) \in Seq(Nat) /\ Len(RealPath(n)) = 2 /\ RealPath(n)[1] = SIND
  <2>1. RealPath(n) = <<SIND, j>> /\ SIND \in Nat /\ j \in Nat
    BY <1>2, SingleIs, Bounds DEF MapsTo, InSingle
  <2> QED BY <2>1
<1>3. ASSUME NEW a, NEW b, InDouble(n, a, b)
      PROVE  RealPath(n) \in Seq(Nat) /\ Len(RealPath(n)) = 3 /\ RealPath(n)[1] = DIND
  <2>1. RealPath(n) = <<DIND, a, b>> /\ DIND \in Nat /\ a \in Nat /\ b \in Nat
    <3>1. RealPath(n) = <<DIND, a, b>>
      BY <1>3, DoubleIs DEF MapsTo
    <3>2. DIND \in Nat /\ a \in Nat /\ b \in Nat
      BY <1>3, Bounds DEF InDouble
    <3> QED BY <3>1, <3>2
  <2> QED BY <2>1
<1>4. ASSUME NEW a, NEW b, NEW c, InTriple(n, a, b, c)
      PROVE  RealPath(n) \in Seq(Nat) /\ Len(RealPath(n)) = 4 /\ RealPath(n)[1] = TIND
  <2>1. RealPath(n) = <<TIND, a, b, c>> /\ TIND \in Nat /\ a \in Nat /\ b \in Nat /\ c \in Nat
    <3>1. RealPath(n) = <<TIND, a, b, c>>
      BY <1>4, TripleIs DEF MapsTo
    <3>2. TIND \in Nat /\ a \in Nat /\ b \in Nat /\ c \in Nat
      BY <1>4, Bounds DEF InTriple
    <3> QED BY <3>1, <3>2
  <2> QED BY <2>1
<1>5. SIND # DIND /\ SIND # TIND /\ DIND # TIND
  BY Bounds
<1>6. CASE \E j : InSingle(n, j)
  BY <1>2, <1>5, <1>6 DEF Depth
<1>7. CASE \E a, b : InDouble(n, a, b)
  BY <1>3, <1>5, <1>7 DEF Depth
<1>8. CASE \E a, b, c : InTriple(n, a, b, c)
  BY <1>4, <1>5, <1>8 DEF Depth
<1> QED BY <1>1, <1>6, <1>7, <1>8, PlaceExists

LEMMA AncestorIs ==
  ASSUME NEW p \in Seq(Nat), NEW q \in Ancestors(p)
  PROVE  /\ q \in Seq(Nat) /\ Len(q) \in 1 .. Len(p)
         /\ q = SubSeq(p, 1, Len(q)) /\ \A i \in 1 .. Len(q) : q[i] = p[i]
<1>1. PICK k \in 1 .. Len(p) : q = SubSeq(p, 1, k)
  BY DEF Ancestors
<1>2. \A i \in 1 .. k : p[i] \in Nat
  BY ElementOfSeq, LenProperties
<1>3. SubSeq(p, 1, k) \in Seq(Nat) /\ Len(SubSeq(p, 1, k)) = k
      /\ \A i \in 1 .. k : SubSeq(p, 1, k)[i] = p[i]
  BY <1>1, <1>2, SubSeqProperties, LenProperties
<1> QED BY <1>1, <1>3

LEMMA SelfAncestor ==
  ASSUME NEW p \in Seq(Nat), Len(p) \in 1 .. 4
  PROVE  p \in Ancestors(p)
<1>1. PrefixIn(Nat, p, p)
  BY DEF PrefixIn
<1>2. SubSeq(p, 1, Len(p)) = p
  BY <1>1, CutIs
<1>3. Len(p) \in 1 .. Len(p)
  OBVIOUS
<1> QED BY <1>2, <1>3 DEF Ancestors

LEMMA LeavesAre ==
  ASSUME NEW n \in Nat, n <= UpToTind
  PROVE  {q \in Reached(n) : Ends(q, Reached(n))} = {RealPath(k) : k \in 0 .. n - 1}
<1>0. \A k \in 0 .. n - 1 : k \in Nat /\ k < UpToTind
  <2>1. PICK top \in Nat : top = UpToTind
    <3>1. PICK cube \in Nat : cube = P * P * P
      BY Bounds
    <3> QED BY <3>1, Bounds, Ranges, SqIs
  <2> QED BY <2>1
<1>1. ASSUME NEW k \in 0 .. n - 1
      PROVE  RealPath(k) \in Reached(n) /\ Ends(RealPath(k), Reached(n))
  <2>1. PICK q : q = RealPath(k)
    OBVIOUS
  <2>2. q \in Seq(Nat) /\ Len(q) \in 1 .. 4 /\ Len(q) = Depth(q[1])
    BY <1>0, <2>1, RealDepth
  <2>3. q \in Reached(n)
    BY <2>1, <2>2, SelfAncestor, ReachedIs
  <2>4. ASSUME NEW p \in Reached(n), Len(p) > Len(q), SubSeq(p, 1, Len(q)) = q
        PROVE  FALSE
    <3>1. PICK h \in 0 .. n - 1 : p \in Ancestors(RealPath(h))
      BY <2>4, ReachedIs
    <3>2. PICK r : r = RealPath(h)
      OBVIOUS
    <3>3. r \in Seq(Nat) /\ Len(r) \in 1 .. 4 /\ Len(r) = Depth(r[1])
      BY <1>0, <3>2, RealDepth
    <3>4. p \in Seq(Nat) /\ Len(p) \in 1 .. Len(r) /\ \A i \in 1 .. Len(p) : p[i] = r[i]
      BY <3>1, <3>2, <3>3, AncestorIs
    <3>5. p[1] = r[1]
      BY <3>4
    <3>6. q \in Ancestors(p)
      <4>1. Len(q) \in 1 .. Len(p)
        BY <2>2, <2>4, <3>4
      <4> QED BY <2>4, <4>1 DEF Ancestors
    <3>7. q[1] = p[1]
      <4>1. 1 \in 1 .. Len(q)
        BY <2>2
      <4> QED BY <3>4, <3>6, <4>1, AncestorIs
    <3>8. Len(q) = Len(r)
      BY <2>2, <3>3, <3>5, <3>7
    <3> QED BY <2>4, <3>4, <3>8
  <2>5. Ends(q, Reached(n))
    BY <2>4 DEF Ends
  <2> QED BY <2>1, <2>3, <2>5
<1>2. ASSUME NEW q \in Reached(n), Ends(q, Reached(n))
      PROVE  \E k \in 0 .. n - 1 : q = RealPath(k)
  <2>1. PICK k \in 0 .. n - 1 : q \in Ancestors(RealPath(k))
    BY <1>2, ReachedIs
  <2>2. PICK p : p = RealPath(k)
    OBVIOUS
  <2>3. p \in Seq(Nat) /\ Len(p) \in 1 .. 4
    BY <1>0, <2>2, RealDepth
  <2>4. q \in Ancestors(p) /\ p \in Reached(n)
    BY <1>1, <2>1, <2>2
  <2>5. Len(q) \in 1 .. Len(p) /\ q = SubSeq(p, 1, Len(q))
    BY <2>3, <2>4, AncestorIs
  <2>6. ~ (Len(p) > Len(q))
    BY <1>2, <2>4, <2>5, Zenon DEF Ends
  <2>7. Len(q) = Len(p)
    BY <2>3, <2>5, <2>6
  <2>8. SubSeq(p, 1, Len(p)) = p
    <3>1. PrefixIn(Nat, p, p)
      BY <2>3 DEF PrefixIn
    <3> QED BY <3>1, CutIs
  <2> QED BY <2>2, <2>5, <2>7, <2>8
<1> QED BY <1>1, <1>2

-----------------------------------------------------------------------------
(* A file that grows and shrinks.                                          *)

\* The blocks that are there are those on the way to the first n, for some n,
\* and i_blocks counts them.
GrowthInv ==
  \E n \in 0 .. MaxBlocks : i_blocks = get_block_count(n) /\ tree = Reached(n)

LEMMA MaxIs == MaxBlocks \in Nat /\ MaxBlocks <= UpToTind /\ UpToTind \in Nat
<1>1. PICK cube \in Nat : cube = P * P * P
  BY Bounds
<1>2. UpToTind \in Nat
  BY <1>1, Bounds, Ranges, SqIs
<1> QED BY <1>2, GrowthAssumption

\* A file shrinks only at the sizes free_inode_block gets right: see Most.
GrowthContract == Shrinkable <= NDIR + P + P + 3

LEMMA GrowStep ==
  ASSUME GrowthInv, Grow
  PROVE  GrowthInv'
<1>1. PICK n \in 0 .. MaxBlocks : i_blocks = get_block_count(n) /\ tree = Reached(n)
  BY DEF GrowthInv
<1>2. n \in Nat /\ n <= UpToTind
  BY <1>1, MaxIs
<1>3. Content = n
  BY <1>1, <1>2, InverseIs DEF Content
<1>4. n < MaxBlocks /\ tree' = tree \union Ancestors(RealPath(n))
      /\ i_blocks' = Larger(i_blocks, get_block_count(n + 1))
  BY <1>3 DEF Grow
<1>5. n + 1 \in 0 .. MaxBlocks /\ n < UpToTind
  BY <1>2, <1>4, MaxIs
<1>6. tree' = Reached(n + 1)
  BY <1>1, <1>2, <1>4, ReachedNext
<1>7. PICK new : Adds(n, new)
  BY <1>2, <1>5, AddsExists
<1>8. IsFiniteSet(new) /\ get_block_count(n) \in Nat /\ get_block_count(n + 1) \in Nat
      /\ get_block_count(n + 1) = get_block_count(n) + Cardinality(new)
  BY <1>7 DEF Adds
<1>9. Cardinality(new) \in Nat
  BY <1>8, FS_CardinalityType
<1>10. i_blocks' = get_block_count(n + 1)
  <2>1. PICK x \in Nat, y \in Nat : x = i_blocks /\ y = get_block_count(n + 1) /\ x <= y
    BY <1>1, <1>8, <1>9
  <2>2. Larger(x, y) = y
    BY <2>1 DEF Larger
  <2> QED BY <1>4, <2>1, <2>2
<1> QED BY <1>5, <1>6, <1>10 DEF GrowthInv

LEMMA ShrinkStep ==
  ASSUME GrowthContract, GrowthInv, Shrink
  PROVE  GrowthInv'
<1>1. PICK n \in 0 .. MaxBlocks : i_blocks = get_block_count(n) /\ tree = Reached(n)
  BY DEF GrowthInv
<1>2. n \in Nat /\ n <= UpToTind
  BY <1>1, MaxIs
<1>3. Content = n
  BY <1>1, <1>2, InverseIs DEF Content
<1>4. PICK m \in 0 .. n - 1 :
        /\ tree' = tree \ {FreePath(k) : k \in get_block_count(m) .. i_blocks - 1}
        /\ i_blocks' = get_block_count(m)
  BY <1>3 DEF Shrink
<1>5. n <= Most
  <2>1. i_blocks <= Shrinkable
    BY DEF Shrink
  <2>2. get_block_count(n) \in Nat
    BY <1>2, CountReached
  <2>3. get_block_count(n) <= Most + 3
    BY <1>1, <2>1, <2>2, Bounds, GrowthAssumption DEF GrowthContract, Most
  <2> QED BY <1>2, <2>3, SmallBelow
<1>6. m \in Nat /\ m <= Most /\ m < n /\ m \in 0 .. MaxBlocks
  BY <1>1, <1>4, <1>5, MaxIs, Bounds
<1>7. PICK j \in Nat, k \in Nat : j = get_block_count(m) /\ k = get_block_count(n) /\ j <= k /\ k <= Most + 3
  <2>1. get_block_count(m) \in Nat /\ get_block_count(n) \in Nat /\ get_block_count(n) <= Most + 3
    BY <1>2, <1>5, <1>6, CountNat
  <2>2. get_block_count(m) < get_block_count(n)
    BY <1>2, <1>5, <1>6, CountLess
  <2> QED BY <2>1, <2>2
<1>8. tree = Slots(k) /\ Reached(m) = Slots(j)
  BY <1>1, <1>2, <1>5, <1>6, <1>7, ReachedSlots
<1>9. tree' = Slots(k) \ {FreePath(i) : i \in j .. k - 1}
  BY <1>1, <1>4, <1>7, <1>8
<1>10. tree' = Reached(m)
  BY <1>7, <1>8, <1>9, SlotsLeft
<1> QED BY <1>4, <1>6, <1>10 DEF GrowthInv

\* A file grows up to the last block the triply indirect one leads to, and shrinks,
\* in any order, while it has at most the blocks of GrowthContract: its blocks are
\* those on the way to its first content blocks.
THEOREM GrowthKeeps == ASSUME GrowthContract PROVE GrowthSpec => []GrowthInv
<1>1. GrowthInit => GrowthInv
  <2>1. ASSUME GrowthInit PROVE GrowthInv
    <3>1. get_block_count(0) = 0
      BY CountIs, Bounds DEF Most
    <3>2. Reached(0) = {}
      <4>1. 0 .. 0 - 1 = {}
        OBVIOUS
      <4> QED BY <4>1 DEF Reached
    <3>3. 0 \in 0 .. MaxBlocks
      BY MaxIs
    <3> QED BY <2>1, <3>1, <3>2, <3>3 DEF GrowthInit, GrowthInv
  <2> QED BY <2>1
<1>2. GrowthInv /\ [GrowthNext]_growthVars => GrowthInv'
  <2>1. ASSUME GrowthInv, Grow PROVE GrowthInv'
    BY <2>1, GrowStep
  <2>2. ASSUME GrowthInv, Shrink PROVE GrowthInv'
    BY <2>2, ShrinkStep
  <2>3. ASSUME GrowthInv, UNCHANGED growthVars PROVE GrowthInv'
    BY <2>3 DEF growthVars, GrowthInv
  <2> QED BY <2>1, <2>2, <2>3 DEF GrowthNext
<1> QED BY <1>1, <1>2, PTL DEF GrowthSpec

\* i_blocks counts the blocks of a file that grows through every level of indirect
\* blocks, direct and indirect ones, when it shrinks only while it has at most one block
\* of pointers under the doubly indirect one: above that free_inode_block frees the
\* wrong blocks (ext2fs.c:597).
THEOREM GrowthCounts == ASSUME GrowthContract PROVE GrowthSpec => []CountIsTree
<1>1. ASSUME GrowthInv PROVE CountIsTree
  <2>1. PICK n \in 0 .. MaxBlocks : i_blocks = get_block_count(n) /\ tree = Reached(n)
    BY <1>1 DEF GrowthInv
  <2>2. n \in Nat /\ n <= UpToTind
    BY <2>1, MaxIs
  <2> QED BY <2>1, <2>2, CountReached DEF CountIsTree
<1> QED BY <1>1, GrowthKeeps, PTL

\* get_content_blocks finds in i_blocks how much of the file is content, and the
\* blocks without others below them are that content, from the first block on; for the
\* same files.
THEOREM GrowthContent == ASSUME GrowthContract PROVE GrowthSpec => []ContentIsPrefix
<1>1. ASSUME GrowthInv PROVE ContentIsPrefix
  <2>1. PICK n \in 0 .. MaxBlocks : i_blocks = get_block_count(n) /\ tree = Reached(n)
    BY <1>1 DEF GrowthInv
  <2>2. n \in Nat /\ n <= UpToTind
    BY <2>1, MaxIs
  <2>3. Content = n
    BY <2>1, <2>2, InverseIs DEF Content
  <2>4. {q \in tree : Ends(q, tree)} = {RealPath(k) : k \in 0 .. Content - 1}
    BY <2>1, <2>2, <2>3, LeavesAre
  <2> QED BY <2>4 DEF ContentIsPrefix, Ends
<1> QED BY <1>1, GrowthKeeps, PTL

=============================================================================
