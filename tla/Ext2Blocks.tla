----------------------------- MODULE Ext2Blocks -----------------------------
(***************************************************************************)
(* The blocks of an ext2 file system, src/kernel/fs/ext2fs.c: the bitmaps  *)
(* of the block groups, the counts of free blocks kept for each group and  *)
(* for the whole disk, the inodes and what is on the blocks; writing,      *)
(* truncating, and the blocks of directories.  What the entries of a       *)
(* directory say is not modelled: which of its blocks unlink finds empty   *)
(* is open.  Unlink of a regular file frees no block of that file (it      *)
(* compares the count of links with 0 before it takes one off).            *)
(*                                                                         *)
(* A block is P words.  A word is a block number or a word of a file;      *)
(* sizes and offsets count words.                                          *)
(***************************************************************************)
EXTENDS Ext2Map, FiniteSets, FiniteSetsExt

CONSTANTS Groups,       \* number of block groups, fs->bgdt_sz
          PerGroup,     \* s_blocks_per_group
          Reserved,     \* blocks in use by the file system itself
          Files, Dirs,  \* inode numbers in use, and which are directories
          Offsets, Lengths,  \* what is written
          Sizes,        \* what files are truncated to
          MaxSize,      \* bound on the size of each file, in words
          OnlySound     \* whether only the truncations of Sound are asked for

ASSUME BlocksAssumption ==
  /\ Groups \in Nat \ {0} /\ PerGroup \in Nat \ {0}
  /\ 0 \in Reserved /\ Reserved \subseteq 0 .. Groups * PerGroup - 1
  /\ Offsets \subseteq Nat /\ Lengths \subseteq Nat \ {0} /\ Sizes \subseteq Nat
  /\ Dirs \subseteq Files /\ Files \subseteq Nat /\ MaxSize \in [Files -> Nat]

\* The fields bitmap, group, total, ino and block are the disk; spoilt is history:
\* an allocation has failed, or unlink has freed a block of a directory.
VARIABLES disk

Blocks == 0 .. Groups * PerGroup - 1
GroupOf(b) == b \div PerGroup
Zero == 0
\* What is written at offset i of f: a number that names f and i and no block.
Word(f, i) == Groups * PerGroup + f * Max(Files) + i * Max(Files) * Max(Files)
ZeroBlock == [i \in 0 .. P - 1 |-> Zero]
\* What a free block holds: words left by whoever had it, all given one name, as
\* nothing may depend on them.
Stale == Word(Max(Files) + 1, 0)
StaleBlock == [i \in 0 .. P - 1 |-> Stale]

-----------------------------------------------------------------------------
(* alloc_block and free_block: the bitmap, the group's count and the total.  *)

FreeIn(d, g) == {b \in Blocks : GroupOf(b) = g /\ b \notin d.bitmap}
Candidates(d) == {g \in 0 .. Groups - 1 : d.group[g] # 0 /\ FreeIn(d, g) # {}}

\* The first clear bit of the first group with something free; 0 if there is none.
alloc_block(d) ==
  IF Candidates(d) = {} THEN [d |-> [d EXCEPT !.spoilt = TRUE], b |-> 0]
  ELSE LET g == Min(Candidates(d))
           b == Min(FreeIn(d, g))
       IN  [d |-> [d EXCEPT !.bitmap = @ \union {b}, !.group[g] = @ - 1,
                            !.total = @ - 1, !.block[b] = ZeroBlock],
            b |-> b]

\* Mutant: the superblock is forgotten.
free_block_NoTotal(d, b) ==
  IF b = 0 THEN d
  ELSE [d EXCEPT !.bitmap = @ \ {b}, !.group[GroupOf(b)] = @ + 1, !.block[b] = StaleBlock]

free_block(d, b) ==
  IF b = 0 THEN d
  ELSE [d EXCEPT !.bitmap = @ \ {b}, !.group[GroupOf(b)] = @ + 1, !.total = @ + 1,
                !.block[b] = StaleBlock]

-----------------------------------------------------------------------------
(* Block numbers of an inode: path[1] is an index of i_block, the others     *)
(* are indices of the indirect blocks on the way.                            *)

\* The block at the end of a path; 0 if a block on the way does not exist.
Lookup(d, f, path) ==
  LET down[k \in 1 .. Len(path)] ==
        IF k = 1 THEN d.ino[f].i_block[path[1]]
        ELSE LET b == down[k - 1] IN IF b = 0 THEN 0 ELSE d.block[b][path[k]]
  IN  down[Len(path)]

get_real_block(d, f, n) == Lookup(d, f, RealPath(n))

Store(d, f, path, b) ==
  IF Len(path) = 1 THEN [d EXCEPT !.ino[f].i_block[path[1]] = b]
  ELSE [d EXCEPT !.block[Lookup(d, f, SubSeq(path, 1, Len(path) - 1))][path[Len(path)]] = b]

\* Indirect blocks that do not exist are allocated from the inode downwards.
set_real_block(d, f, n, b) ==
  LET path == RealPath(n)
      down[k \in 1 .. Len(path)] ==
        LET above == IF k = 1 THEN [d |-> d, ok |-> TRUE] ELSE down[k - 1]
            to == SubSeq(path, 1, k)
            new == alloc_block(above.d)
        IN  IF ~ above.ok THEN above
            ELSE IF k = Len(path) THEN [d |-> Store(above.d, f, path, b), ok |-> TRUE]
            ELSE IF Lookup(above.d, f, to) # 0 THEN above
            ELSE IF new.b = 0 THEN [d |-> new.d, ok |-> FALSE]
            ELSE [d |-> Store(new.d, f, to, new.b), ok |-> TRUE]
  IN  down[Len(path)]

\* Mutant: the indirect blocks are not counted.
alloc_inode_block_NoIndirect(d, f, n) ==
  LET new == alloc_block(d)
      set == set_real_block(new.d, f, n, new.b)
  IN  IF new.b = 0 THEN [d |-> new.d, ok |-> FALSE]
      ELSE IF ~ set.ok THEN set
      ELSE [d |-> [set.d EXCEPT !.ino[f].i_blocks = IF @ < n + 1 THEN n + 1 ELSE @],
            ok |-> TRUE]

\* The new block is marked used before its indirect blocks are allocated, and
\* stays so when one of those allocations fails.
alloc_inode_block(d, f, n) ==
  LET new == alloc_block(d)
      set == set_real_block(new.d, f, n, new.b)
      count == get_block_count(n + 1)
  IN  IF new.b = 0 THEN [d |-> new.d, ok |-> FALSE]
      ELSE IF ~ set.ok THEN set
      ELSE [d |-> [set.d EXCEPT !.ino[f].i_blocks = IF @ < count THEN count ELSE @],
            ok |-> TRUE]

ContentBlocks(d, f) == get_content_blocks(d.ino[f].i_blocks)

\* Blocks are allocated until content block n exists or the disk is full.
WithBlocks(d, f, n) ==
  LET grown[k \in 0 .. Groups * PerGroup] ==
        IF k = 0 THEN [d |-> d, ok |-> TRUE]
        ELSE LET r == grown[k - 1]
             IN  IF r.ok /\ ContentBlocks(r.d, f) <= n
                 THEN alloc_inode_block(r.d, f, ContentBlocks(r.d, f))
                 ELSE r
  IN  grown[Groups * PerGroup]

\* A block that is not there reads as zeros.
read_block_inode(d, f, n) ==
  IF n >= ContentBlocks(d, f) THEN ZeroBlock ELSE d.block[get_real_block(d, f, n)]

write_block_inode(d, f, n, words) ==
  LET r == WithBlocks(d, f, n)
      b == get_real_block(r.d, f, n)
  IN  IF r.ok /\ b # 0 THEN [r.d EXCEPT !.block[b] = words] ELSE r.d

\* Mutant: the pointer to the freed block stays.
free_inode_block_KeepsPointer(d, f, k) ==
  [d |-> free_block(d, Lookup(d, f, FreePath(k))), ok |-> TRUE]

\* An error when the indirect block that is freed, or that points to the block,
\* does not exist.
free_inode_block(d, f, k) ==
  LET path == FreePath(k)
      b == Lookup(d, f, path)
      there == IF Len(path) = 1 THEN k < NDIR \/ b # 0
               ELSE Lookup(d, f, SubSeq(path, 1, Len(path) - 1)) # 0
  IN  IF there THEN [d |-> Store(free_block(d, b), f, path, 0), ok |-> TRUE]
      ELSE [d |-> d, ok |-> FALSE]

\* The last blocks go first.  False when there is nothing to free, and after the
\* first error, which leaves i_blocks as it was.
free_inode_blocks(d, f, n) ==
  LET left == get_block_count(n)
      now == d.ino[f].i_blocks
      freed[k \in 0 .. now] ==
        IF k = 0 THEN [d |-> d, ok |-> TRUE]
        ELSE LET r == freed[k - 1] IN IF r.ok THEN free_inode_block(r.d, f, now - k) ELSE r
      last == freed[now - left]
  IN  IF now <= left THEN [d |-> d, ok |-> FALSE]
      ELSE IF ~ last.ok THEN last
      ELSE [d |-> [last.d EXCEPT !.ino[f].i_blocks = left], ok |-> TRUE]

-----------------------------------------------------------------------------
(* The operations of the file system on blocks. *)

\* The blocks a write of n words at `off` goes to, in the order of
\* write_buffer_inode: a partly written first block, a partly written last
\* block, then what lies between.
WriteOrder(off, n) ==
  LET start == off \div P
      end == (off + n - 1) \div P
      prefix == off % P # 0 \/ n < P
      s == IF prefix THEN start + 1 ELSE start
      postfix == (off + n) % P # 0 /\ s <= end
      e == IF postfix THEN end - 1 ELSE end
  IN  (IF prefix THEN <<start>> ELSE << >>) \o (IF postfix THEN <<end>> ELSE << >>)
        \o [k \in 1 .. (IF s <= e THEN e - s + 1 ELSE 0) |-> s + k - 1]

\* Errors of single blocks are ignored.
write_buffer_inode(d, f, off, n) ==
  LET order == WriteOrder(off, n)
      sized == [d EXCEPT !.ino[f].i_size = IF @ < off + n THEN off + n ELSE @]
      Words(e, m) == [j \in 0 .. P - 1 |->
                        IF off <= m * P + j /\ m * P + j < off + n
                        THEN Word(f, m * P + j) ELSE read_block_inode(e, f, m)[j]]
      done[k \in 0 .. Len(order)] ==
        IF k = 0 THEN sized
        ELSE LET e == done[k - 1] IN write_block_inode(e, f, order[k], Words(e, order[k]))
  IN  done[Len(order)]

\* Block numbers are uint32_t: the one in front of block 0 is very large.
UINT_MAX == 1000000
Before(n) == IF n = 0 THEN UINT_MAX ELSE n - 1

\* Mutant: the rest of the last block keeps its words.
Shortened_KeepsTail(d, f, size) == free_inode_blocks(d, f, CeilDiv(size, P)).d

Shortened(d, f, size) ==
  LET r == free_inode_blocks(d, f, CeilDiv(size, P))
      n == Before(CeilDiv(size, P))
      cleared == [j \in 0 .. P - 1 |->
                    IF j < size % P THEN read_block_inode(r.d, f, n)[j] ELSE Zero]
  IN  IF r.ok THEN write_block_inode(r.d, f, n, cleared) ELSE r.d

Lengthened(d, f, size) ==
  LET now == CeilDiv(d.ino[f].i_size, P)
      more[n \in now .. CeilDiv(size, P)] ==
        IF n = now THEN [d |-> d, ok |-> TRUE]
        ELSE LET r == more[n - 1] IN IF r.ok THEN alloc_inode_block(r.d, f, n - 1) ELSE r
  IN  more[CeilDiv(size, P)].d

ext2fs_truncate(d, f, size) ==
  [(IF d.ino[f].i_size > size THEN Shortened(d, f, size) ELSE Lengthened(d, f, size))
     EXCEPT !.ino[f].i_size = size]

EmptyInode == [i_size |-> 0, i_blocks |-> 0, i_block |-> [i \in 0 .. TIND |-> 0]]

-----------------------------------------------------------------------------
Init == disk = [bitmap |-> Reserved,
                group |-> [g \in 0 .. Groups - 1 |->
                             Cardinality({b \in Blocks \ Reserved : GroupOf(b) = g})],
                total |-> Cardinality(Blocks \ Reserved),
                ino   |-> [f \in Files |-> EmptyInode],
                block |-> [b \in Blocks |-> StaleBlock],
                spoilt |-> FALSE]

Write(f) ==
  /\ f \notin Dirs
  /\ \E off \in Offsets, n \in Lengths :
       off + n <= MaxSize[f] /\ disk' = write_buffer_inode(disk, f, off, n)

\* What ext2fs_truncate does right: it makes the file longer, or it frees blocks
\* and ends the file inside a block.
Sound(f, size) ==
  \/ size >= disk.ino[f].i_size
  \/ size % P # 0 /\ CeilDiv(size, P) < ContentBlocks(disk, f)

Truncate(f) ==
  /\ f \notin Dirs
  /\ \E size \in Sizes : /\ size <= MaxSize[f]
                         /\ OnlySound => Sound(f, size)
                         /\ disk' = ext2fs_truncate(disk, f, size)

\* create_dirent2 when no entry has room: the size grows first, then the block
\* is written and with that allocated.
AddBlock(f) ==
  LET size == disk.ino[f].i_size
      words == [j \in 0 .. P - 1 |-> Word(f, size + j)]
  IN  /\ f \in Dirs /\ size + P <= MaxSize[f]
      /\ disk' = write_block_inode([disk EXCEPT !.ino[f].i_size = size + P],
                                   f, size \div P, words)

\* ext2fs_unlink of a directory whose entries are all gone; mknod clears the
\* inode before it is used again.
RemoveDir(f) ==
  /\ f \in Dirs /\ disk.ino[f].i_size > 0
  /\ disk' = [free_inode_blocks(disk, f, 0).d EXCEPT !.ino[f] = EmptyInode]

\* ext2fs_unlink when the last block of the directory it takes the name from has no
\* entry left (the first block has . and ..).  The number of the block among those
\* of the content goes where free_inode_block wants one that counts the indirect
\* blocks too, and i_blocks and i_size stay as they were.
FreeLastBlock(f) ==
  /\ f \in Dirs /\ disk.ino[f].i_size >= P + P
  /\ disk' = [free_inode_block(disk, f, disk.ino[f].i_size \div P - 1).d EXCEPT !.spoilt = TRUE]

Next == \E f \in Files :
  Write(f) \/ Truncate(f) \/ AddBlock(f) \/ RemoveDir(f) \/ FreeLastBlock(f)

Spec == Init /\ [][Next]_disk

-----------------------------------------------------------------------------
(* Properties. *)

Paths == {<<i>> : i \in 0 .. TIND} \union {<<SIND, j>> : j \in 0 .. P - 1}
         \union {<<DIND, j>> : j \in 0 .. P - 1}
         \union {<<DIND, j, l>> : j, l \in 0 .. P - 1}

\* Every block number in an inode or in an indirect block of one.
Owners == {o \in Files \X Paths : Lookup(disk, o[1], o[2]) # 0}
Owned(o) == Lookup(disk, o[1], o[2])

\* Type correctness.
TypeOK ==
  /\ disk.bitmap \subseteq Blocks /\ Reserved \subseteq disk.bitmap
  /\ disk.spoilt \in BOOLEAN
  /\ \A f \in Files : disk.ino[f].i_size \in 0 .. MaxSize[f]

\* The counts of free blocks kept in the group descriptors and in the superblock
\* are those of the bitmaps, whatever fails on the way.
CountsAgree ==
  /\ \A g \in 0 .. Groups - 1 : disk.group[g] = Cardinality(FreeIn(disk, g))
  /\ disk.total = Cardinality(Blocks \ disk.bitmap)

\* A block belongs to one place of one file, and it is marked used: also on a
\* full disk, also after blocks were freed and given to another file, and after
\* unlink has freed a wrong block of a directory.
OneOwner ==
  /\ \A o, q \in Owners : Owned(o) = Owned(q) => o = q
  /\ \A o \in Owners : Owned(o) \in disk.bitmap \ Reserved

\* As long as no allocation failed and unlink has freed no block of a directory,
\* every block marked used is reachable and i_blocks counts the blocks of its
\* inode, so that free_inode_blocks starts at the right end.
NoBlockLeaks ==
  ~ disk.spoilt =>
    /\ disk.bitmap = Reserved \union {Owned(o) : o \in Owners}
    /\ \A f \in Files : disk.ino[f].i_blocks = Cardinality({o \in Owners : o[1] = f})

\* What read_buffer_inode finds in a file.
Contents(f) ==
  [i \in 1 .. disk.ino[f].i_size |-> read_block_inode(disk, f, (i - 1) \div P)[(i - 1) % P]]

\* Files read back what was written: see FileStore.
Store_ == INSTANCE FileStore WITH
            content <- [f \in Files |-> Contents(f)], spoilt <- disk.spoilt,
            Offsets <- Offsets \union {k * P : k \in 0 .. Groups * PerGroup},
            Lengths <- Lengths \union {P}
ImplementsFiles == Store_!Spec

\* A file that gets shorter does not take blocks from the disk: ext2fs.c says of
\* free_inode_blocks that it "frees any used blocks after the new size".
ShorterTakesNoBlocks ==
  [][\A f \in Files : disk'.ino[f].i_size < disk.ino[f].i_size => disk'.total >= disk.total]_disk
=============================================================================
