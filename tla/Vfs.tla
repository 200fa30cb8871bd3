-------------------------------- MODULE Vfs --------------------------------
(***************************************************************************)
(* The file system calls of the one process: open, close, read, write,     *)
(* seek, mknod, unlink and chdir (sys/syscall.c), over the file            *)
(* descriptors (sys/process.c), the reference counted nodes behind them    *)
(* (fs/fs.c) and the directory tree (VfsTree).  A system call runs with    *)
(* interrupts off, so each is one action.                                  *)
(*                                                                         *)
(* A node is a copy of a file's attributes made by kopen; two calls never  *)
(* return the same one, except for the static nodes of the boot partition, *)
(* whose reference count is -1.  File contents are left out.               *)
(***************************************************************************)
EXTENDS VfsTree, Integers, FiniteSets

CONSTANTS
  NodeIds,       \* bound: the heap blocks there are for nodes
  Free,          \* a heap block that holds no node
  NULL,          \* the node of a closed descriptor
  Paths,         \* the paths a process may give
  OpenFlags,     \* the flags it may give to open: [access, set] records
  MknodTypes,    \* the types it may give to mknod
  DirsOnDisk, TypesOnDisk,   \* the disk image
  StageSize,     \* the size of the boot partition's files
  FirstMaxSz,    \* the descriptor table's first capacity, 4
  MaxFds,        \* bound: descriptors
  MaxSize        \* bound: file sizes and offsets

\* The disk image: a name is given once in a directory and to an allocated
\* inode other than the root, a directory has one name, links have targets.
DiskIsSound ==
  /\ DirsOnDisk \in [Inodes -> [Names -> Seq(Inodes)]]
  /\ TypesOnDisk \in [Inodes -> Types]
  /\ TypesOnDisk[RootIno] = "dir"
  /\ \A i \in Inodes : TypesOnDisk[i] = "lnk" => i \in DOMAIN Target /\ Target[i] \in Path
  /\ \A d \in Inodes, n \in Names :
       /\ Len(DirsOnDisk[d][n]) <= 1
       /\ \A k \in 1 .. Len(DirsOnDisk[d][n]) :
            LET i == DirsOnDisk[d][n][k]
            IN  /\ i # RootIno /\ TypesOnDisk[i] # "free"
                /\ TypesOnDisk[i] = "dir" =>
                     \A e \in Inodes, o \in Names :
                       i \in {DirsOnDisk[e][o][j] : j \in 1 .. Len(DirsOnDisk[e][o])}
                       => e = d /\ o = n

\* Nodes are blocks of the heap or the boot partition's static ones.
ASSUME VfsAssumption ==
  /\ DiskIsSound
  /\ Paths \subseteq Path
  /\ MknodTypes \subseteq {"reg", "dir", "chr", "sock"}
  /\ NodeIds \subseteq Nat
  /\ NodeIds \cap StaticNodes = {}
  /\ NULL \notin NodeIds \cup StaticNodes
  /\ FirstMaxSz \in Nat \ {0}
  /\ Free \notin [file : Files, sz : Nat, refcount : Nat]
  /\ StageSize \in Nat /\ MaxSize \in Nat

VARIABLES
  size,          \* i_size of each inode
  nodes,         \* what each heap block holds: a node or Free
  frees,         \* how often each static node was freed, counted up to 2
  fds,           \* entries, modes and offs; its length is sz
  max_sz,
  wd_path, wd_node

fstate == <<dirs, type, size>>
heap == <<nodes, frees>>
table == <<fds, max_sz>>
cwd == <<wd_path, wd_node>>
vars == <<fstate, heap, table, cwd>>

Node == [file : Files, sz : 0 .. MaxSize, refcount : 1 .. MAX_SYMLINK_DEPTH + 1]
Mode == SUBSET {"R_OK", "W_OK"}
Descriptor == [node : NodeIds \cup StaticNodes \cup {NULL}, mode : Mode, off : 0 .. 2 * MaxSize]

-----------------------------------------------------------------------------
\* spawn_init: no descriptors, working directory "/".  The root file system
\* is not yet mounted then, so wd_node is a clone of NULL.
Init ==
  /\ dirs = DirsOnDisk
  /\ type = TypesOnDisk
  /\ size = [i \in Inodes |-> 0]
  /\ nodes = [n \in NodeIds |-> Free]
  /\ frees = [s \in StaticNodes |-> 0]
  /\ fds = << >>
  /\ max_sz = FirstMaxSz
  /\ wd_path = << >>
  /\ wd_node = NULL

-----------------------------------------------------------------------------
(* Nodes.                                                                  *)

\* The block kmalloc gives for the next node.
NewBlock(nds) == CHOOSE n \in NodeIds : nds[n] = Free

\* sz of a new node; devices have none.
NodeSize(f, sz) ==
  IF f \in Inodes THEN sz[f] ELSE IF f \in StaticNodes THEN StageSize ELSE 0

\* The node kopen returns for a resolution r that found a file, and the heap
\* with that node in it.  A static node is returned as it is.
Opened(nds, r) == IF r.file \in StaticNodes THEN r.file ELSE NewBlock(nds)

WithOpened(nds, r, sz) ==
  IF r.file \in StaticNodes \cup {NoFile} THEN nds
  ELSE [nds EXCEPT ![NewBlock(nds)] =
          [file |-> r.file,
           sz |-> NodeSize(r.file, sz),
           refcount |-> r.opens]]

\* The heap after fs_close: nothing happens to NULL and to static nodes.
fs_close(nds, n) ==
  IF n \notin NodeIds THEN nds
  ELSE IF nds[n].refcount = 1 THEN [nds EXCEPT ![n] = Free]
       ELSE [nds EXCEPT ![n].refcount = @ - 1]

\* The heap after a node was opened only to be looked at and closed again.
Probed(nds, r) ==
  IF r.file = NoFile THEN nds ELSE fs_close(WithOpened(nds, r, size), Opened(nds, r))

\* A resolution freed these static nodes on its way.
CountFrees(freed) ==
  frees' = [s \in StaticNodes |->
              LET n == frees[s] + Len(SelectSeq(freed, LAMBDA x : x = s))
              IN  IF n > 2 THEN 2 ELSE n]

\* The bound on nodes: no call needs more than two at a time.
RoomForNodes == \E m, n \in NodeIds : m # n /\ nodes[m] = Free /\ nodes[n] = Free

FileOf(n) == IF n \in NodeIds THEN nodes[n].file ELSE n

-----------------------------------------------------------------------------
(* fs_mknod and fs_unlink open and close first the path itself, then the   *)
(* directory it is in: cp is the canonical path, self and parent are what  *)
(* kopen returns for these two.                                            *)

ParentRefused(parent) ==
  \/ parent.file = NoFile
  \/ ~ FS_ISDIR(parent.file)
  \/ parent.file \notin Inodes      \* mknod and unlink are NULL: -EROFS

\* Mutant: mknod does not look whether the path is taken.
MknodSucceeds_NoCheck(cp, self, parent) ==
  cp # << >> /\ ~ ParentRefused(parent) /\ ~ NoFreeInode

MknodSucceeds(cp, self, parent) ==
  cp # << >> /\ self.file = NoFile /\ ~ ParentRefused(parent) /\ ~ NoFreeInode

fs_mknod(cp, self, parent, t) ==
  IF MknodSucceeds(cp, self, parent) THEN ext2fs_mknod(parent.file, Basename(cp), t)
                                     ELSE UNCHANGED disk

\* The heap after fs_mknod, and the static nodes it freed.
mknod_nodes(cp, self, parent) ==
  IF cp = << >> THEN nodes
  ELSE IF self.file # NoFile THEN Probed(nodes, self) ELSE Probed(nodes, parent)

mknod_freed(cp, self, parent) ==
  IF cp = << >> THEN << >>
  ELSE self.freed \o (IF self.file # NoFile THEN << >> ELSE parent.freed)

\* A new inode has size 0.
SizeAfterMknod == [i \in Inodes |-> IF type[i] = "free" THEN 0 ELSE size[i]]

UnlinkSucceeds(cp, self, parent) ==
  /\ cp # << >> /\ self.file # NoFile /\ ~ ParentRefused(parent)
  /\ ~ CannotUnlink(parent.file, Basename(cp))

fs_unlink(cp, self, parent) ==
  /\ IF UnlinkSucceeds(cp, self, parent) THEN ext2fs_unlink(parent.file, Basename(cp))
                                         ELSE UNCHANGED disk
  /\ nodes' = IF cp = << >> \/ self.file = NoFile THEN nodes
              ELSE Probed(Probed(nodes, self), parent)
  /\ CountFrees(IF cp = << >> THEN << >>
                ELSE self.freed \o (IF self.file = NoFile THEN << >> ELSE parent.freed))

-----------------------------------------------------------------------------
(* Descriptors.                                                            *)

Gaps == {i \in 1 .. Len(fds) : fds[i].node = NULL}

\* Mutant: the table is extended although it has gaps.
process_add_fd_Extend(d) ==
  /\ fds' = Append(fds, d)
  /\ max_sz' = IF Len(fds) = max_sz THEN 2 * max_sz ELSE max_sz

\* The first gap is filled; without one the table grows by one entry, and
\* its arrays double when they are full.
process_add_fd(d) ==
  IF Gaps # {}
  THEN /\ fds' = [fds EXCEPT ![Min(Gaps)] = d]
       /\ UNCHANGED max_sz
  ELSE /\ fds' = Append(fds, d)
       /\ max_sz' = IF Len(fds) = max_sz THEN 2 * max_sz ELSE max_sz

RoomForFd == Gaps # {} \/ Len(fds) < MaxFds

FD_CHECK(fd) == fd \in 1 .. Len(fds) /\ fds[fd].node # NULL

-----------------------------------------------------------------------------
(* The system calls.                                                       *)

Access(fl) ==
  (IF fl.access \in {"O_RDONLY", "O_RDWR"} THEN {"R_OK"} ELSE {}) \cup
  (IF fl.access \in {"O_WRONLY", "O_RDWR"} THEN {"W_OK"} ELSE {})

\* O_PATH is the value 3: its bits are set in every access but O_RDONLY.
WalkFlags(fl) ==
  (fl.set \cap {"O_NOFOLLOW"}) \cup (IF fl.access # "O_RDONLY" THEN {"O_PATH"} ELSE {})

\* The checks open makes of a node it has.
Refused(fl, isDir) ==
  \/ "W_OK" \in Access(fl) /\ isDir
  \/ "O_DIRECTORY" \in fl.set /\ ~ isDir
  \/ "O_TRUNC" \in fl.set /\ "W_OK" \notin Access(fl)

\* The second half of open, with the node for r on the heap nds and the sizes
\* sz: it ends in a descriptor or in closing the node.
Bind(fl, r, isDir, isReg, nds, sz) ==
  LET node == Opened(nds, r)
      with == WithOpened(nds, r, sz)
      off  == IF "O_APPEND" \in fl.set THEN NodeSize(r.file, sz) ELSE 0
  IN  \/ /\ Refused(fl, isDir)
         /\ nodes' = fs_close(with, node)
         /\ size' = sz
         /\ UNCHANGED table
      \/ /\ ~ Refused(fl, isDir)
         /\ RoomForFd
         /\ nodes' = with
         /\ size' = IF "O_TRUNC" \in fl.set /\ isReg THEN [sz EXCEPT ![r.file] = 0] ELSE sz
         /\ process_add_fd([node |-> node, mode |-> Access(fl), off |-> off])

\* Mutant: O_EXCL counts only together with O_DIRECTORY.
Exclusive_Narrow(fl) == {"O_CREAT", "O_EXCL", "O_DIRECTORY"} \subseteq fl.set

Exclusive(fl) == {"O_CREAT", "O_EXCL"} \subseteq fl.set

\* The file is looked up; if it is missing and O_CREAT is set, it is made and
\* looked up again.
sys_open(p, fl) ==
  LET cp     == canonicalize_path(wd_path, p)
      r      == kopen(cp, WalkFlags(fl))
      self   == kopen(cp, {})
      parent == kopen(Parent(cp), {})
      made   == MknodSucceeds(cp, self, parent)
      freed  == r.freed \o mknod_freed(cp, self, parent)
  IN  /\ RoomForNodes
      /\ UNCHANGED cwd
      /\ \/ /\ r.file # NoFile
            /\ CountFrees(r.freed)
            /\ UNCHANGED disk
            /\ \/ /\ Exclusive(fl)
                  /\ nodes' = Probed(nodes, r)
                  /\ UNCHANGED <<size, table>>
               \/ /\ ~ Exclusive(fl)
                  /\ Bind(fl, r, FS_ISDIR(r.file), TypeOf(r.file) = "reg", nodes, size)
         \/ /\ r.file = NoFile
            /\ "O_CREAT" \notin fl.set
            /\ CountFrees(r.freed)
            /\ UNCHANGED <<fstate, nodes, table>>
         \/ /\ r.file = NoFile
            /\ "O_CREAT" \in fl.set
            /\ fs_mknod(cp, self, parent, "reg")
            /\ \/ /\ ~ made
                  /\ CountFrees(freed)
                  /\ nodes' = mknod_nodes(cp, self, parent)
                  /\ UNCHANGED <<size, table>>
               \/ /\ made
                  /\ CountFrees(freed \o r.freed')
                  /\ \/ /\ r.file' = NoFile
                        /\ nodes' = mknod_nodes(cp, self, parent)
                        /\ size' = SizeAfterMknod
                        /\ UNCHANGED table
                     \/ /\ r.file' # NoFile
                        /\ Bind(fl, r', FS_ISDIR(r.file)', (TypeOf(r.file) = "reg")',
                                mknod_nodes(cp, self, parent), SizeAfterMknod)

\* Mutant: the entry is left in the table.
sys_close_KeepsEntry(fd) ==
  /\ FD_CHECK(fd)
  /\ nodes' = fs_close(nodes, fds[fd].node)
  /\ UNCHANGED <<fstate, frees, table, cwd>>

\* The mode and offset of a closed descriptor, which stay behind, are never
\* read and are overwritten when it is given out again.
sys_close(fd) ==
  /\ FD_CHECK(fd)
  /\ nodes' = fs_close(nodes, fds[fd].node)
  /\ fds' = [fds EXCEPT ![fd] = [node |-> NULL, mode |-> {}, off |-> 0]]
  /\ UNCHANGED <<fstate, frees, max_sz, cwd>>

\* How many of n bytes a read at off returns: a regular file has what is left
\* of it, a device or a static node any number, anything else fails.
ReadCount(f, off, n) ==
  IF f \in Inodes
  THEN IF type[f] # "reg" THEN {} ELSE IF off > size[f] THEN {0} ELSE {Min({n, size[f] - off})}
  ELSE IF TypeOf(f) = "dir" THEN {} ELSE 0 .. n

sys_read(fd, n) ==
  /\ FD_CHECK(fd)
  /\ "R_OK" \in fds[fd].mode
  /\ \E out \in ReadCount(FileOf(fds[fd].node), fds[fd].off, n) :
       /\ fds[fd].off + out <= MaxSize
       /\ fds' = [fds EXCEPT ![fd].off = @ + out]
  /\ UNCHANGED <<fstate, heap, max_sz, cwd>>

\* A write past the end makes the file longer, even a write of no bytes.
sys_write(fd, n) ==
  LET f == FileOf(fds[fd].node)
  IN  /\ FD_CHECK(fd)
      /\ "W_OK" \in fds[fd].mode
      /\ \/ /\ f \in Inodes /\ type[f] = "reg"
            /\ fds[fd].off + n <= MaxSize
            /\ size' = [size EXCEPT ![f] = IF fds[fd].off + n > @ THEN fds[fd].off + n ELSE @]
            /\ fds' = [fds EXCEPT ![fd].off = @ + n]
         \/ /\ TypeOf(f) \in {"chr", "fifo"} /\ f \notin Inodes
            /\ \E out \in 0 .. n :
                 /\ fds[fd].off + out <= MaxSize
                 /\ fds' = [fds EXCEPT ![fd].off = @ + out]
            /\ UNCHANGED size
      /\ UNCHANGED <<disk, heap, max_sz, cwd>>

\* SEEK_END counts from the size the node had when it was made.
sys_seek(fd, off, whence) ==
  LET f   == FileOf(fds[fd].node)
      sz  == IF fds[fd].node \in NodeIds THEN nodes[fds[fd].node].sz ELSE StageSize
      to  == CASE whence = "SEEK_SET" -> off
               [] whence = "SEEK_CUR" -> fds[fd].off + off
               [] whence = "SEEK_END" -> sz + off
  IN  /\ FD_CHECK(fd)
      /\ TypeOf(f) \notin {"chr", "fifo", "sock"}
      /\ to \in 0 .. MaxSize
      /\ fds' = [fds EXCEPT ![fd].off = to]
      /\ UNCHANGED <<fstate, heap, max_sz, cwd>>

sys_mknod(p, t) ==
  LET cp     == canonicalize_path(wd_path, p)
      self   == kopen(cp, {})
      parent == kopen(Parent(cp), {})
  IN  /\ RoomForNodes
      /\ p.abs \/ p.names # << >>
      /\ fs_mknod(cp, self, parent, t)
      /\ size' = IF MknodSucceeds(cp, self, parent) THEN SizeAfterMknod ELSE size
      /\ nodes' = mknod_nodes(cp, self, parent)
      /\ CountFrees(mknod_freed(cp, self, parent))
      /\ UNCHANGED <<table, cwd>>

sys_unlink(p) ==
  LET cp == canonicalize_path(wd_path, p)
  IN  /\ RoomForNodes
      /\ p.abs \/ p.names # << >>
      /\ fs_unlink(cp, kopen(cp, {}), kopen(Parent(cp), {}))
      /\ UNCHANGED <<size, table, cwd>>

\* Mutant: the node of the old working directory is not closed.
sys_chdir_KeepsOld(p) ==
  LET cp == canonicalize_path(wd_path, p)
      r  == kopen(cp, {})
  IN  /\ RoomForNodes
      /\ r.file # NoFile /\ FS_ISDIR(r.file)
      /\ CountFrees(r.freed)
      /\ nodes' = WithOpened(nodes, r, size)
      /\ wd_path' = cp
      /\ wd_node' = Opened(nodes, r)
      /\ UNCHANGED <<fstate, table>>

sys_chdir(p) ==
  LET cp == canonicalize_path(wd_path, p)
      r  == kopen(cp, {})
  IN  /\ RoomForNodes
      /\ CountFrees(r.freed)
      /\ IF r.file # NoFile /\ FS_ISDIR(r.file)
         THEN /\ nodes' = fs_close(WithOpened(nodes, r, size), wd_node)
              /\ wd_path' = cp
              /\ wd_node' = Opened(nodes, r)
         ELSE /\ nodes' = Probed(nodes, r)
              /\ UNCHANGED cwd
      /\ UNCHANGED <<fstate, table>>

-----------------------------------------------------------------------------
Next ==
  \/ \E p \in Paths, fl \in OpenFlags : sys_open(p, fl)
  \/ \E fd \in 1 .. Len(fds) : sys_close(fd)
  \/ \E fd \in 1 .. Len(fds), n \in 0 .. 1 : sys_read(fd, n) \/ sys_write(fd, n)
  \/ \E fd \in 1 .. Len(fds), off \in {-1, 0, 1},
        whence \in {"SEEK_SET", "SEEK_CUR", "SEEK_END"} : sys_seek(fd, off, whence)
  \/ \E p \in Paths, t \in MknodTypes : sys_mknod(p, t)
  \/ \E p \in Paths : sys_unlink(p) \/ sys_chdir(p)

Spec == Init /\ [][Next]_vars

-----------------------------------------------------------------------------
TypeOK ==
  /\ type \in [Inodes -> Types]
  /\ dirs \in [Inodes -> [Names -> Seq(Inodes)]]
  /\ size \in [Inodes -> 0 .. MaxSize]
  /\ nodes \in [NodeIds -> Node \cup {Free}]
  /\ frees \in [StaticNodes -> 0 .. 2]
  /\ fds \in Seq(Descriptor)
  /\ Len(fds) <= max_sz
  /\ wd_path \in Seq(Names)
  /\ wd_node \in NodeIds \cup {NULL}

\* The descriptors, and the working directory as 0, that have node n.
Owners(n) ==
  {fd \in 1 .. Len(fds) : fds[fd].node = n} \cup (IF wd_node = n THEN {0} ELSE {})

\* Whatever was opened, closed, linked and removed: a node that a descriptor
\* or the working directory has is live, and counted at least once for each.
NoUseAfterFree ==
  \A n \in NodeIds : Owners(n) # {} =>
    /\ nodes[n] # Free
    /\ nodes[n].refcount >= Cardinality(Owners(n))

\* fs_close: "decrement refcount, if zero free file".  A node nobody has any
\* more is gone from the heap.
NoLeak == \A n \in NodeIds : nodes[n] # Free => Owners(n) # {}

\* No two entries of a directory have the same name: mknod and open with
\* O_CREAT add one only after testing that the path does not exist.
NamesUnique == \A d \in Inodes, n \in Names : Len(dirs[d][n]) <= 1

\* vmem_heap_free asserts that what it frees is not free: no node of the boot
\* partition, of which there is one copy only, is freed twice.
NoDoubleFree == \A s \in StaticNodes : frees[s] <= 1

\* A descriptor that may write designates an allocated inode that is not a
\* directory, whatever is removed and made again while it is open.
WritersKeepTheirFile ==
  \A fd \in 1 .. Len(fds) :
    fds[fd].node \in NodeIds /\ "W_OK" \in fds[fd].mode =>
      TypeOf(FileOf(fds[fd].node)) \notin {"free", "dir"}

\* Open hands out the lowest descriptor that is not in use, and no call
\* disturbs the descriptors it is not given.
LowestDescriptor ==
  [][ LET used(fd)    == FD_CHECK(fd)
          changed(fd) == used(fd) /\ fds'[fd] # fds[fd]
      IN  /\ \A fd \in 1 .. Len(fds') :
               fds'[fd].node # NULL /\ ~ used(fd) =>
                 /\ \A e \in 1 .. fd - 1 : used(e)
                 /\ \A e \in 1 .. Len(fds) : ~ changed(e)
          /\ \A e, f \in 1 .. Len(fds) : changed(e) /\ changed(f) => e = f ]_vars

\* An open with O_CREAT and O_EXCL that succeeds gives a file that did not
\* exist before, whatever symbolic links or duplicate names the path meets.
ExclusiveOpenIsFresh ==
  [][ \A fd \in 1 .. Len(fds') :
        /\ fds'[fd].node # NULL /\ ~ FD_CHECK(fd)
        /\ fds'[fd].node \notin NodeIds \/ type[nodes'[fds'[fd].node].file] # "free"
        => ~ \E p \in Paths, fl \in OpenFlags :
               {"O_CREAT", "O_EXCL"} \subseteq fl.set /\ sys_open(p, fl) ]_vars

\* kopen_recur is to rebuild the path before a symbolic link "to use as a
\* relative path for the symlink": a relative target is looked up from the
\* directory the link is in.
RelativeToLink ==
  \A p \in Paths :
    LET cp   == canonicalize_path(wd_path, p)
        link == kopen(cp, LinkFlags).file
    IN  TypeOf(link) = "lnk" =>
          kopen(cp, {}).file = kopen(canonicalize_path(Front(cp), Target[link]), {}).file

\* "do not follow the final entry with O_NOFOLLOW": open with that flag gives
\* no descriptor for the target of a link the path ends in.
FinalLinkNotFollowed ==
  [][ \A p \in Paths, fl \in OpenFlags : "O_NOFOLLOW" \in fl.set /\ sys_open(p, fl) =>
        LET link == kopen(canonicalize_path(wd_path, p), LinkFlags).file
        IN  TypeOf(link) = "lnk" =>
              \A n \in NodeIds : nodes[n] = Free /\ nodes'[n] # Free => nodes'[n].file = link ]_vars

=============================================================================
