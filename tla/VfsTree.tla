------------------------------ MODULE VfsTree ------------------------------
(***************************************************************************)
(* Name resolution in the virtual file system (fs/fs.c): canonicalize_path *)
(* turns a path into a list of names, get_mount_point finds the longest    *)
(* mounted prefix, and kopen_recur walks the rest of the names from there, *)
(* following symbolic links.  The directories it walks are those of the    *)
(* ext2 root file system, of the mapped /dev and of /boot.                 *)
(*                                                                         *)
(* A path is a record: abs tells a leading "/", names lists what stands    *)
(* between the slashes.  Each call of kopen makes its nodes afresh and     *)
(* frees all but the one it returns, so a resolution is described by the   *)
(* file it reaches, by how often the node returned was opened, and by the  *)
(* nodes it freed that were not its own.                                   *)
(***************************************************************************)
EXTENDS Naturals, Sequences, SequencesExt

CONSTANTS
  Names,          \* file names
  Inodes,         \* the inodes of the ext2 file system
  RootIno,        \* EXT2_ROOT_INO
  Target,         \* the paths stored in the symbolic links of the disk image
  Drivers,        \* <<name, file>> for what the drivers mount in /dev, in order
  FsTypes,        \* the root node each registered type's mount function returns
  DevDir,         \* the mapped directory /dev
  DeviceType,     \* the type in the flags of each mounted file outside ext2
  BootDir,        \* the root node of the boot partition
  Stage,          \* fstage1 and fstage2, by name
  NoFile,         \* a NULL fs_node_t pointer
  MAX_SYMLINK_DEPTH

StaticNodes == {Stage[n] : n \in DOMAIN Stage}

-----------------------------------------------------------------------------
(* Mounting, which happens only at boot.  fs_tree is a function from the   *)
(* lists of names that have a node in the tree to the file mounted there,  *)
(* NoFile at a node that only leads to others.                             *)

vfs_install == << >> :> NoFile

\* The nodes that are missing on the way are made, with no file; a file that
\* is already mounted there is replaced.
vfs_mount(tree, path, local_root) ==
  (path :> local_root) @@ tree @@
    [p \in {SubSeq(path, 1, k) : k \in 0 .. Len(path)} |-> NoFile]

vfs_map_directory(tree, path) == vfs_mount(tree, path, DevDir)

\* Nothing is mounted when the type is unknown or its mount function fails.
vfs_mount_type(tree, fs, path) ==
  IF fs \notin DOMAIN FsTypes \/ FsTypes[fs] = NoFile THEN tree
  ELSE vfs_mount(tree, path, FsTypes[fs])

\* What kmain has mounted when it starts init.  It does not look whether
\* mounting worked.
Mounts ==
  LET drivers[k \in 0 .. Len(Drivers)] ==
        IF k = 0 THEN vfs_map_directory(vfs_install, <<"dev">>)
        ELSE vfs_mount(drivers[k - 1], <<"dev", Drivers[k][1]>>, Drivers[k][2])
  IN  vfs_mount_type(vfs_mount_type(drivers[Len(Drivers)], "ext2fs", << >>), "bootpart", <<"boot">>)

\* What a node can stand for, and the types an inode can have.
Files == Inodes \cup DOMAIN DeviceType \cup StaticNodes
Types == {"free", "reg", "dir", "lnk", "chr", "sock"}

\* A path a process or a link gives.
Path == [abs : BOOLEAN, names : Seq(Names \cup {".", ".."})]

\* ext2 is mounted once, on "/"; no driver mounts a link.
ASSUME TreeAssumption ==
  /\ RootIno \in Inodes
  /\ << >> \in DOMAIN Mounts
  /\ \A p \in DOMAIN Mounts :
       /\ Mounts[p] \in Files \cup {NoFile}
       /\ Mounts[p] \in Inodes => p = << >> /\ Mounts[p] = RootIno
  /\ StaticNodes \cap Inodes = {}
  /\ NoFile \notin Files
  /\ \A f \in DOMAIN DeviceType : f \notin Inodes /\ DeviceType[f] \in {"dir", "chr", "blk", "fifo"}
  /\ MAX_SYMLINK_DEPTH \in Nat

VARIABLES
  dirs,           \* dirs[d][n]: the inodes named n in directory d, in disk order
  type            \* the type in i_mode of each inode, "free" when not allocated

disk == <<dirs, type>>

-----------------------------------------------------------------------------
\* The type in a node's flags; the stage nodes of the boot partition have none.
TypeOf(f) ==
  IF f \in Inodes THEN type[f]
  ELSE IF f \in DOMAIN DeviceType THEN DeviceType[f] ELSE "none"

FS_ISDIR(f) == TypeOf(f) = "dir"

\* "." is dropped and ".." removes the name before it, without looking at the
\* disk.  The empty path counts as absolute.
Push(out, name) ==
  CASE name = "."  -> out
    [] name = ".." -> IF out = << >> THEN << >> ELSE Front(out)
    [] OTHER       -> Append(out, name)

canonicalize_path(cwd, path) ==
  LET out[k \in 0 .. Len(path.names)] ==
        IF k = 0 THEN IF path.abs \/ path.names = << >> THEN << >> ELSE cwd
        ELSE Push(out[k - 1], path.names[k])
  IN  out[Len(path.names)]

\* get_canon_parent_basename: the directory a canonical path is in, and its
\* last name; the root has neither.
Parent(cp) == Front(cp)
Basename(cp) == Last(cp)

\* How many names of the path the longest mounted prefix takes; none, and a
\* NULL node, when nothing on the way is mounted.
get_mount_point(path) ==
  LET mounted(d) == /\ SubSeq(path, 1, d) \in DOMAIN Mounts
                    /\ Mounts[SubSeq(path, 1, d)] # NoFile
  IN  CHOOSE d \in 0 .. Len(path) :
        /\ d = 0 \/ mounted(d)
        /\ \A e \in d + 1 .. Len(path) : ~ mounted(e)

\* find_dirent takes the first entry of that name; fnode_from_dirent makes no
\* node of a socket.  A mapped directory has no finddir.
fs_finddir(f, name) ==
  IF f \in Inodes
  THEN IF /\ FS_ISDIR(f)
          /\ dirs[f][name] # << >>
          /\ type[Head(dirs[f][name])] # "sock"
       THEN Head(dirs[f][name]) ELSE NoFile
  ELSE IF f = BootDir /\ name \in DOMAIN Stage THEN Stage[name] ELSE NoFile

LinkFlags == {"O_NOFOLLOW", "O_PATH"}

\* A walk: the node reached, how many names led to it, how often it was
\* opened, and the static nodes freed so far.
Walk == [file : Files \cup {NoFile}, depth : Nat, opens : Nat, freed : Seq(StaticNodes)]

\* The node get_mount_point returns.
Start(path) ==
  LET d == get_mount_point(path)
  IN  [file |-> Mounts[SubSeq(path, 1, d)], depth |-> d, opens |-> 0, freed |-> << >>]

\* One step down: the node searched is freed, whatever its reference count.
Search(w, name) ==
  [file  |-> fs_finddir(w.file, name),
   depth |-> w.depth + 1,
   opens |-> 0,
   freed |-> w.freed \o (IF w.file \in StaticNodes THEN <<w.file>> ELSE << >>)]

\* Whether the walk must follow the link it stands on.
FollowsLink(path, flags, w) ==
  /\ TypeOf(w.file) = "lnk"
  /\ ~ (flags = LinkFlags /\ w.depth = Len(path))

\* When O_NOFOLLOW forbids it.  depth is that of the node itself, so the last
\* directory meets this test and the last name does not.
LinkRefused(path, flags, w) == "O_NOFOLLOW" \in flags /\ w.depth = Len(path) - 1

\* A walk that stands on a link goes on from what a call for the link's target
\* returns, which opened tells.  A relative target is given the working
\* directory "": the copy of the path meant for it starts with the NUL that
\* replaced its slash.
Follow(path, flags, w, opened) ==
  IF ~ FollowsLink(path, flags, w) THEN w
  ELSE IF LinkRefused(path, flags, w) THEN [w EXCEPT !.file = NoFile]
  ELSE LET target == canonicalize_path(<< >>, Target[w.file])
       IN  [opened[target] EXCEPT !.depth = w.depth, !.freed = w.freed \o @]

\* The body of kopen_recur for a canonical path, flags being those of
\* O_NOFOLLOW and O_PATH that are set.  walk is the loop, by the number of names
\* still to go: the last node is opened, any other searched for the next name.
Resolve(path, flags, opened) ==
  LET walk[names \in 0 .. Len(path)] ==
        [w \in Walk |->
           IF w.file = NoFile THEN w
           ELSE IF names = 0 THEN [w EXCEPT !.opens = @ + 1]
           ELSE walk[names - 1][Follow(path, flags, Search(w, path[w.depth + 1]), opened)]]
      start == Start(path)
  IN  walk[Len(path) - start.depth][Follow(path, flags, start, opened)]

\* A call that fails.
Failed == [file |-> NoFile, depth |-> 0, opens |-> 0, freed |-> << >>]

\* The calls for the targets of links, which have no flags, by how many more of
\* them symlink_depth allows: with none left a link is refused.
kopen_recur[links \in 0 .. MAX_SYMLINK_DEPTH] ==
  IF links = 0 THEN [path \in Seq(Names) |-> Failed]
  ELSE [path \in Seq(Names) |-> Resolve(path, {}, kopen_recur[links - 1])]

\* What kopen returns for a canonical path.
kopen(cp, flags) == Resolve(cp, flags, kopen_recur[MAX_SYMLINK_DEPTH])

-----------------------------------------------------------------------------
(* The directory operations of ext2 (fs/ext2fs.c), as far as names and     *)
(* inodes go: which inode is taken and where in the directory the entry is *)
(* put depends on bitmaps and gaps, and is left open.                      *)

\* alloc_inode fails when no inode is free; create_dirent adds an entry
\* without looking for one of the same name.
ext2fs_mknod(d, name, t) ==
  \E i \in Inodes, p \in 1 .. Len(dirs[d][name]) + 1 :
    /\ type[i] = "free"
    /\ type' = [type EXCEPT ![i] = t]
    /\ dirs' = [dirs EXCEPT ![d][name] = InsertAt(@, p, i),
                            ![i] = [n \in Names |-> << >>]]

NoFreeInode == \A i \in Inodes : type[i] # "free"

IsEmptyDir(i) == \A n \in Names : dirs[i][n] = << >>

\* Mutant: the link count is decremented before it is compared with 0.
ext2fs_unlink_FreesFile(d, name) ==
  LET i == Head(dirs[d][name])
  IN  /\ dirs[d][name] # << >>
      /\ type[i] = "dir" => IsEmptyDir(i)
      /\ dirs' = [dirs EXCEPT ![d][name] = Tail(@)]
      /\ type' = [type EXCEPT ![i] = "free"]

\* The first entry of that name goes.  An empty directory's inode is freed; a
\* file's is not: its link count is compared with 0 before it is decremented,
\* and the decremented count is not written back.
ext2fs_unlink(d, name) ==
  LET i == Head(dirs[d][name])
  IN  /\ dirs[d][name] # << >>
      /\ type[i] = "dir" => IsEmptyDir(i)
      /\ dirs' = [dirs EXCEPT ![d][name] = Tail(@)]
      /\ type' = IF type[i] = "dir" THEN [type EXCEPT ![i] = "free"] ELSE type

\* It fails when there is no such entry or it is a directory with entries.
CannotUnlink(d, name) ==
  \/ dirs[d][name] = << >>
  \/ /\ type[Head(dirs[d][name])] = "dir"
     /\ ~ IsEmptyDir(Head(dirs[d][name]))

=============================================================================
