------------------------------ MODULE Ext2Dir ------------------------------
(***************************************************************************)
(* The directories of ext2 (kernel/fs/ext2fs.c): entries in blocks, the    *)
(* inodes they name, and the calls of fs.c that make and remove them.  A   *)
(* call runs alone but writes the disk piece by piece; the power may fail  *)
(* between two writes.  A directory's entries are kept as a sequence per   *)
(* block, their lengths in units; a block of zeros has none, and a walk    *)
(* that meets it never ends, its rec_len being 0.  Files have no blocks    *)
(* here (Ext2Blocks), and the groups' counts are left out.                 *)
(***************************************************************************)
EXTENDS Integers, Sequences, SequencesExt, FiniteSets, FiniteSetsExt

CONSTANTS
  Names,       \* a caller uses, besides ".", ".." and "kernel"
  Units(_),    \* what an entry of that name needs
  BlockSz,     \* in units
  NInodes, NBlocks,
  Types,       \* made by fs_mknod and fs_symlink: "reg", "dir", "lnk"
  Dangling,    \* whether symbolic links lead nowhere
  Powers,      \* whether the power may fail
  Unlinks,     \* whether names are removed also where it may
  MaxSize,     \* bound: blocks of a directory
  MaxLinks,    \* bound: i_links_count
  MaxCrashes   \* bound: power failures

VARIABLES
  disk,      \* the bitmaps, the inodes and the blocks
  todo,      \* the disk after each write the call under way has left
  fresh,     \* the inode that call has allocated, 0 for none
  removes,   \* whether that call is an unlink
  hung,      \* a walk does not end
  power,     \* whether the power may fail
  \* history
  crashes, full

vars == <<disk, todo, fresh, removes, hung, power, crashes, full>>

Root == 1
Kernel == 2   \* the file that is always there
Inodes == 1 .. NInodes
Blocks == 1 .. NBlocks

ASSUME Ext2DirAssumption ==
  /\ {BlockSz, NInodes, NBlocks, MaxSize, MaxLinks, MaxCrashes} \subseteq Nat \ {0}
  /\ Powers \subseteq BOOLEAN /\ {Dangling, Unlinks} \subseteq BOOLEAN

NoInode == [type |-> "none", links |-> 0, size |-> 0, blk |-> << >>]
Entry(i, name, rec) == [ino |-> i, name |-> name, rec |-> rec]

-----------------------------------------------------------------------------
(* Walks. *)

\* What the buffer holds at each block of directory p: a block behind i_blocks
\* reads as zeros, one that was freed is not read and leaves what was there.
Bufs(d, p) ==
  LET buf[n \in 0 .. p.size] ==
        IF n >= Len(p.blk) THEN << >>
        ELSE IF p.blk[n + 1] # 0 THEN d.block[p.blk[n + 1]]
        ELSE IF n > 0 THEN buf[n - 1] ELSE << >>
  IN buf

Entries(d, p) == UNION {ToSet(Bufs(d, p)[n]) : n \in 0 .. p.size - 1}

\* The first entry that is good: the block's number and the entry's place in it.
\* The block is p.size if there is none, -1 if the walk never gets that far.
Scan(d, p, good) ==
  LET buf == Bufs(d, p)
      from[n \in 0 .. p.size] ==
        IF n = p.size THEN <<p.size, 1>>
        ELSE IF buf[n] = << >> THEN <<-1, 1>>
        ELSE IF \E k \in DOMAIN buf[n] : buf[n][k] \in good
        THEN <<n, Min({k \in DOMAIN buf[n] : buf[n][k] \in good})>>
        ELSE from[n + 1]
  IN from[0]

find_dirent(d, p, name) ==
  Scan(d, p, {e \in Entries(d, p) : e.ino # 0 /\ e.name = name})

Found(p, h) == h[1] \in 0 .. p.size - 1

\* The inode of a name in a directory, 0 if the walk does not find it.
Lookup(d, dir, name) ==
  LET p == d.ino[dir]
      h == find_dirent(d, p, name)
  IN IF Found(p, h) THEN Bufs(d, p)[h[1]][h[2]].ino ELSE 0

Hangs(d, dir, name) == find_dirent(d, d.ino[dir], name)[1] = -1

-----------------------------------------------------------------------------
(* Writes.  A run is the sequence of the disks they make, the last one last. *)

WithInode(d, i, ino) == [d EXCEPT !.ino[i] = ino]

\* alloc_block: the bitmap, then the block full of zeros.
alloc_block(r, b) ==
  LET d == [Last(r) EXCEPT !.bmap = @ \cup {b}]
  IN r \o <<d, [d EXCEPT !.block[b] = << >>]>>

\* Mutant: the new entry is written over the one that is split.
Placed_Over(entries, k, i, name) ==
  [entries EXCEPT ![k] = Entry(i, name, entries[k].rec)]

\* An empty entry is taken as it is, another one is split.
Placed(entries, k, i, name) ==
  LET e == entries[k]
      used == Units(e.name)
  IN SubSeq(entries, 1, k - 1)
       \o (IF e.ino = 0 /\ e.rec >= Units(name) THEN <<Entry(i, name, e.rec)>>
           ELSE <<Entry(e.ino, e.name, used), Entry(i, name, e.rec - used)>>)
       \o SubSeq(entries, k + 1, Len(entries))

\* Mutant: the size grows once more when the block is written.
Grown_Twice(p) == [p EXCEPT !.size = @ + 2]

Grown(p) == [p EXCEPT !.size = @ + 1]

\* create_dirent2 in directory pno, whose inode is p in memory: the first entry
\* with room, or a new block, for which the size is written first.
create_dirent2(r, p, pno, i, name) ==
  LET d    == Last(r)
      room == {e \in Entries(d, p) : \/ (e.ino = 0 /\ e.rec >= Units(name))
                                    \/ e.rec - Units(e.name) >= Units(name)}
      h   == Scan(d, p, room)
      n   == h[1]
      p1  == Grown(p)
      r1  == Append(r, WithInode(d, pno, p1))
      free == Blocks \ d.bmap
      b   == Min(free)
      p2  == [p1 EXCEPT !.blk = Append(@, b)]
      r2  == alloc_block(r1, b)
      r3  == Append(r2, WithInode(Last(r2), pno, p2))
  IN IF Found(p, h)
     THEN [r |-> Append(r, [d EXCEPT !.block[p.blk[n + 1]] =
                                       Placed(Bufs(d, p)[n], h[2], i, name)]),
           p |-> p, ok |-> TRUE]
     ELSE IF free = {} THEN [r |-> r1, p |-> p1, ok |-> FALSE]
     ELSE [r |-> Append(r3, [Last(r3) EXCEPT !.block[b] = <<Entry(i, name, BlockSz)>>]),
           p |-> p2, ok |-> TRUE]

\* Mutant: the entry is written before the inode is taken.
AllocInode_Late(d, i) == d

AllocInode(d, i) == [d EXCEPT !.imap = @ \cup {i}]

\* ext2fs_mknod: the inode is taken, then named, then written,
\* and given back if it cannot be named.
ext2fs_mknod(d, dir, name, type) ==
  LET i   == Min(Inodes \ d.imap)
      ino == [NoInode EXCEPT !.type = type, !.links = IF type = "dir" THEN 3 ELSE 1]
      c   == create_dirent2(<<AllocInode(d, i)>>, d.ino[dir], dir, i, name)
      dot == create_dirent2(c.r, ino, i, i, ".")
      ddot == create_dirent2(dot.r, dot.p, i, dir, "..")
      Saved(r, p) == Append(r, WithInode(Last(r), i, p))
  IN CASE ~ c.ok -> [r |-> Append(c.r, [Last(c.r) EXCEPT !.imap = @ \ {i}]), ok |-> FALSE]
       [] c.ok /\ type # "dir" -> [r |-> Saved(c.r, ino), ok |-> TRUE]
       [] c.ok /\ type = "dir" ->
            IF ~ dot.ok THEN dot ELSE IF ~ ddot.ok THEN ddot
            ELSE [r |-> Saved(ddot.r, ddot.p), ok |-> TRUE]

\* ext2fs_symlink does the same for a link, whose target fits into i_block.
ext2fs_symlink(d, dir, name) == ext2fs_mknod(d, dir, name, "lnk")

\* ext2fs_link: the name first, then the count of the inode read before.
ext2fs_link(d, dir, name, i) ==
  LET c == create_dirent2(<<d>>, d.ino[dir], dir, i, name)
      ino == [d.ino[i] EXCEPT !.links = @ + 1]
  IN IF c.ok THEN [r |-> Append(c.r, WithInode(Last(c.r), i, ino)), ok |-> TRUE] ELSE c

\* Mutant: the entry before is not lengthened.
Cleared_Kept(entries, k) ==
  IF k = 1 THEN [entries EXCEPT ![1].ino = 0]
  ELSE SubSeq(entries, 1, k - 1) \o SubSeq(entries, k + 1, Len(entries))

\* The entries after the k-th was emptied: the one before takes its place.
Cleared(entries, k) ==
  IF k = 1 THEN [entries EXCEPT ![1].ino = 0]
  ELSE SubSeq([entries EXCEPT ![k - 1].rec = @ + entries[k].rec], 1, k - 1)
         \o SubSeq(entries, k + 1, Len(entries))

\* The entries that count_dirent counts.  Behind the first block it reads outside
\* its buffer, and what it finds there is anything.
Empty(d, p, garbage) ==
  IF p.size > 1 THEN garbage
  ELSE \A n \in 0 .. p.size - 1 : \A k \in DOMAIN Bufs(d, p)[n] :
         LET e == Bufs(d, p)[n][k] IN e.ino = 0 \/ e.name \in {".", ".."}

\* ext2fs_unlink: an empty directory's block and inode are freed, then the name is
\* removed, and the parent's last block freed if nothing is left in it.  A file's
\* count is only compared, so its inode stays.
ext2fs_unlink(d, dir, name, garbage) ==
  LET p == d.ino[dir]
      h == find_dirent(d, p, name)
      n == h[1]
      i == Bufs(d, p)[n][h[2]].ino
      t == d.ino[i]
      freed == IF t.type = "dir" \/ t.links = 0
               THEN LET f == [d EXCEPT !.bmap = @ \ ToSet(t.blk)]
                    IN <<f, [f EXCEPT !.imap = @ \ {i}]>>
               ELSE <<d>>
      left == Cleared(Bufs(d, p)[n], h[2])
      last == Last(freed)
      real == p.blk[n + 1]
      none == Len(left) = 1 /\ left[1].ino = 0 /\ p.size = n + 1
      gone == [last EXCEPT !.bmap = @ \ {real}]
  IN IF t.type = "dir" /\ ~ Empty(d, t, garbage) THEN <<d>>
     ELSE IF none THEN freed \o <<gone, WithInode(gone, dir, [p EXCEPT !.blk[n + 1] = 0])>>
     ELSE Append(freed, [last EXCEPT !.block[real] = left])

-----------------------------------------------------------------------------
(* Calls. *)

Init ==
  /\ disk = [imap |-> {Root, Kernel}, bmap |-> {1},
             ino |-> [i \in Inodes |->
                        CASE i = Root -> [type |-> "dir", links |-> 3, size |-> 1, blk |-> <<1>>]
                          [] i = Kernel -> [NoInode EXCEPT !.type = "reg", !.links = 1]
                          [] OTHER -> NoInode],
             block |-> [b \in Blocks |->
                          IF b # 1 THEN << >>
                          ELSE <<Entry(Root, ".", Units(".")), Entry(Root, "..", Units("..")),
                                 Entry(Kernel, "kernel", BlockSz - Units(".") - Units(".."))>>]]
  /\ todo = << >>
  /\ fresh = 0 /\ removes = FALSE /\ hung = FALSE
  /\ power \in Powers
  /\ crashes = 0 /\ full = FALSE

\* The directories a path can lead to.
IsLive(i) == disk.ino[i].type = "dir" /\ i \in disk.imap /\ i # fresh
LiveDirs == {i \in Inodes : IsLive(i)}

\* kopen of a name: its inode has a type, and a link leads somewhere.
Opens(dir, name) ==
  LET i == Lookup(disk, dir, name)
  IN i # 0 /\ disk.ino[i].type # "none" /\ (disk.ino[i].type = "lnk" => ~ Dangling)

Idle == todo = << >> /\ ~ hung

Start(r, i, unlinks, ok) ==
  /\ todo' = r
  /\ fresh' = i
  /\ removes' = unlinks
  /\ full' = (full \/ ~ ok)
  /\ UNCHANGED <<disk, hung, power, crashes>>

\* fs_mknod, fs_link and fs_symlink make sure that the name is not there.
IsFree(dir, name) ==
  /\ Idle /\ ~ Hangs(disk, dir, name) /\ ~ Opens(dir, name)
  /\ disk.ino[dir].size < MaxSize

fs_mknod(dir, name) ==
  /\ IsFree(dir, name)
  /\ Inodes \ disk.imap # {}
  /\ \E type \in Types \ {"lnk"} :
       LET c == ext2fs_mknod(disk, dir, name, type)
       IN Start(c.r, Min(Inodes \ disk.imap), FALSE, c.ok)

fs_symlink(dir, name) ==
  /\ IsFree(dir, name)
  /\ "lnk" \in Types
  /\ Inodes \ disk.imap # {}
  /\ LET c == ext2fs_symlink(disk, dir, name)
     IN Start(c.r, Min(Inodes \ disk.imap), FALSE, c.ok)

fs_link(dir, name) ==
  /\ IsFree(dir, name)
  /\ \E old \in LiveDirs \X (Names \cup {"kernel"}) :
       LET i == Lookup(disk, old[1], old[2])
           c == ext2fs_link(disk, dir, name, i)
       IN /\ ~ Hangs(disk, old[1], old[2]) /\ Opens(old[1], old[2])
          /\ disk.ino[i].type \in {"reg"} /\ disk.ino[i].links < MaxLinks
          /\ Start(c.r, 0, FALSE, c.ok)

fs_unlink(dir, name) ==
  /\ Idle /\ (power => Unlinks)
  /\ ~ Hangs(disk, dir, name) /\ Opens(dir, name)
  /\ \E garbage \in BOOLEAN : Start(ext2fs_unlink(disk, dir, name, garbage), 0, TRUE, TRUE)

\* A call that looks for a name behind a block of zeros does not come back.
Hang(dir, name) ==
  /\ Idle /\ Hangs(disk, dir, name)
  /\ hung' = TRUE
  /\ UNCHANGED <<disk, todo, fresh, removes, power, crashes, full>>

\* The call's next write reaches the disk.
Write ==
  /\ todo # << >>
  /\ disk' = Head(todo)
  /\ todo' = Tail(todo)
  /\ fresh' = IF Len(todo) = 1 THEN 0 ELSE fresh
  /\ UNCHANGED <<removes, hung, power, crashes, full>>

\* The power fails; ext2fs_mount finds what was written.
Crash ==
  /\ power /\ crashes < MaxCrashes
  /\ crashes' = crashes + 1
  /\ todo' = << >>
  /\ fresh' = 0 /\ hung' = FALSE
  /\ UNCHANGED <<disk, removes, power, full>>

Next ==
  \/ \E dir \in LiveDirs, name \in Names :
       \/ fs_mknod(dir, name)
       \/ fs_symlink(dir, name)
       \/ fs_link(dir, name)
       \/ fs_unlink(dir, name)
       \/ Hang(dir, name)
  \/ Write
  \/ Crash

Spec == Init /\ [][Next]_vars

-----------------------------------------------------------------------------
(* Properties. *)

\* What the directories show, block by block and entry by entry.
Map == INSTANCE DirMap WITH
  Dirs <- Inodes,
  names <- [k \in Inodes \X Names |-> IF IsLive(k[1]) THEN Lookup(disk, k[1], k[2]) ELSE 0]

\* However entries are split, merged, moved to new blocks and blocks freed, at
\* every write one name at most appears or disappears and no other changes what it
\* stands for (create_dirent2, ext2fs_unlink), also when the power fails between
\* two writes of calls that make names.
ImplementsDirMap == Map!Spec

Reaches(p) == {b \in ToSet(p.blk) : b # 0}

\* The entries of a block in use cover it exactly and each has room for its name,
\* which is how every walk finds the next one.  A block of zeros is there only
\* while a call makes it, or after a power failure.
BlocksTile ==
  \A dir \in LiveDirs : \A b \in Reaches(disk.ino[dir]) :
    LET entries == disk.block[b]
        sum == FoldSeq(LAMBDA e, n : e.rec + n, 0, entries)
    IN \/ entries = << >> /\ (todo # << >> \/ crashes > 0)
       \/ /\ sum = BlockSz
          /\ \A k \in DOMAIN entries : entries[k].ino # 0 => entries[k].rec >= Units(entries[k].name)

\* A name never leads to an inode that the bitmap says is free, where the next
\* mknod would put another file: except while an unlink runs, whose frees come
\* before the name goes.  It holds at every write and after a power failure.
NamesAreAllocated ==
  \/ removes /\ todo # << >>
  \/ \A dir \in LiveDirs, name \in Names : Lookup(disk, dir, name) \in disk.imap \cup {0}

\* Every inode in use has a name while nothing is under way.  It does not hold:
\* unlink compares i_links_count before it decrements it, and never writes it.
InodesAreNamed ==
  Idle /\ crashes = 0 =>
    \A i \in disk.imap : \E dir \in LiveDirs, name \in Names \cup {"kernel", "."} :
      Lookup(disk, dir, name) = i

\* A walk ends as long as no block was missing for an entry and the power did not
\* fail in the middle of one.
WalksEnd == hung => full \/ crashes > 0
=============================================================================
