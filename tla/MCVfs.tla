------------------------------- MODULE MCVfs -------------------------------
(***************************************************************************)
(* A disk with one directory, /a, links of each kind, and room for two     *)
(* more inodes; /dev/kbd and the boot partition mounted as shitos.c does.  *)
(* Each configuration chooses the inodes there are and the paths used.     *)
(***************************************************************************)
EXTENDS Vfs

CONSTANTS root, a, l, dangling, rel, f1, f2,   \* inodes
          dev, kbd, boot, stage1               \* files of other file systems

AllNames == {"a", "b", "l", "x", "r", "dev", "kbd", "boot", "stage1.bin"}

MCDevices == (dev :> "dir") @@ (kbd :> "fifo") @@ (boot :> "dir")

MCDrivers == << <<"kbd", kbd>> >>

MCFsTypes == [ext2fs |-> root, bootpart |-> boot]

MCStage == "stage1.bin" :> stage1

Abs(names) == [abs |-> TRUE, names |-> names]
Rel(names) == [abs |-> FALSE, names |-> names]

\* /l -> /a, /x -> /a/x (which is missing), /a/r -> b
MCTarget == (l :> Abs(<<"a">>)) @@ (dangling :> Abs(<<"a", "x">>)) @@ (rel :> Rel(<<"b">>))

MCTypes == [i \in Inodes |->
  IF i \in {root, a} THEN "dir" ELSE IF i \in {l, dangling, rel} THEN "lnk" ELSE "free"]

Entry(i, n) ==
  CASE i = root /\ n = "a" -> <<a>>
    [] i = root /\ n = "l" /\ l \in Inodes -> <<l>>
    [] i = root /\ n = "x" /\ dangling \in Inodes -> <<dangling>>
    [] i = a /\ n = "r" /\ rel \in Inodes -> <<rel>>
    [] OTHER -> << >>

MCDirs == [i \in Inodes |-> [n \in Names |-> Entry(i, n)]]

Flags(access, set) == [access |-> access, set |-> set]

MCFlags == {Flags("O_RDONLY", {}), Flags("O_WRONLY", {"O_CREAT"}),
            Flags("O_WRONLY", {"O_CREAT", "O_EXCL"})}

SizeFlags == {Flags("O_RDONLY", {"O_APPEND"}), Flags("O_RDWR", {"O_CREAT", "O_TRUNC"})}

NoFollowFlags == {Flags("O_RDONLY", {}), Flags("O_RDWR", {"O_CREAT"}),
                  Flags("O_RDONLY", {"O_NOFOLLOW"}), Flags("O_WRONLY", {"O_NOFOLLOW"})}

\* Through the directory and through the link to it, absolute and relative.
MCPaths == {Abs(<<"l">>), Abs(<<"a", "b">>), Rel(<<"a">>)}

PlainPaths == {Abs(<<"a">>), Rel(<<"..", "b">>), Abs(<<"boot", "stage1.bin">>)}

LeafLinkPaths == {Abs(<<"l">>), Abs(<<"a">>)}

FilePaths == {Rel(<<"..", "a">>), Abs(<<"dev", "kbd">>)}

DanglingPaths == {Abs(<<"x">>), Abs(<<"a">>)}

RelativeLinkPaths == {Abs(<<"a", "r">>), Abs(<<"a", "b">>)}

ThroughStagePaths == {Abs(<<"boot", "stage1.bin", "a">>), Abs(<<"a">>)}

=============================================================================
