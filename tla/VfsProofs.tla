----------------------------- MODULE VfsProofs -----------------------------
(***************************************************************************)
(* Vfs, for every disk, every mount tree and any number of descriptors.    *)
(* VfsInv says that the nodes on the heap are counted: the count of a node *)
(* is at least the number of descriptors and working directories that have *)
(* it, and whoever may write has an allocated file.  It needs DiskInv, that*)
(* an entry names an allocated inode and a directory has one entry, or a   *)
(* walk might reach a freed inode; and it needs what kopen returns for any *)
(* path on such a disk (KopenEnds), which is an induction on the number of *)
(* links followed and, within one call, on the number of names.            *)
(*                                                                         *)
(* On a disk without symbolic links every node is opened once.  Then none  *)
(* leaks, a path that leads nowhere has no entry in the directory it is in *)
(* (LastName), names stay unique and an exclusive open gives a new file.   *)
(***************************************************************************)
EXTENDS Vfs, FiniteSetTheorems, WellFoundedInduction, TLAPS

-----------------------------------------------------------------------------
(* Numbers and functions defined by recursion on them.                     *)

\* A set of numbers that is not empty has a least element.
LEMMA LeastElement ==
  ASSUME NEW S, S \subseteq Nat, S # {}
  PROVE  \E n \in S : \A k \in S : n <= k
<1> DEFINE Below == {0 .. n : n \in S}
<1>1. Below \subseteq FiniteSubsetsOf(Nat) /\ Below # {}
  <2>1. \A n \in S : IsFiniteSet(0 .. n) /\ 0 .. n \subseteq Nat
    BY FS_Interval
  <2> QED BY <2>1 DEF FiniteSubsetsOf
<1>2. PICK x \in Below : \A y \in Below : ~ (<<y, x>> \in StrictSubsetOrdering(Nat))
  <2> HIDE DEF Below
  <2> QED BY <1>1, FS_StrictSubsetOrderingWellFounded, WFMin, Zenon
<1>3. PICK n \in S : x = 0 .. n
  OBVIOUS
<1>4. ASSUME NEW k \in S, k < n
      PROVE  FALSE
  <2>1. 0 .. k \in Below
    OBVIOUS
  <2>2. 0 .. k \subseteq 0 .. n /\ n \in 0 .. n /\ n \notin 0 .. k /\ 0 .. n \subseteq Nat
    BY <1>4
  <2>3. <<0 .. k, x>> \in StrictSubsetOrdering(Nat)
    BY <1>3, <2>2 DEF StrictSubsetOrdering
  <2> QED BY <1>2, <2>1, <2>3
<1> QED BY <1>3, <1>4

\* Induction, for a set of numbers.
LEMMA Induction ==
  ASSUME NEW Good, 0 \in Good, \A n \in Nat : n \in Good => n + 1 \in Good
  PROVE  Nat \subseteq Good
<1> SUFFICES ASSUME Nat \ Good # {} PROVE FALSE
  OBVIOUS
<1>1. PICK n \in Nat \ Good : \A k \in Nat \ Good : n <= k
  BY LeastElement
<1>2. n - 1 \in Nat /\ n - 1 \in Good
  BY <1>1
<1> QED BY <1>1, <1>2

\* Induction along the numbers up to n.
LEMMA Climb ==
  ASSUME NEW n \in Nat, NEW Good, 0 \in Good,
         \A k \in 1 .. n : k - 1 \in Good => k \in Good
  PROVE  0 .. n \subseteq Good
<1> DEFINE S == {k \in Nat : k <= n => k \in Good}
<1>1. 0 \in S
  OBVIOUS
<1>2. ASSUME NEW k \in Nat, k \in S PROVE k + 1 \in S
  <2>1. CASE k + 1 <= n
    <3>1. k + 1 \in 1 .. n /\ (k + 1) - 1 = k /\ k \in Good
      BY <1>2, <2>1
    <3> QED BY <3>1
  <2> QED BY <2>1
<1> HIDE DEF S
<1>3. Nat \subseteq S
  BY <1>1, <1>2, Induction
<1> QED BY <1>3 DEF S

StepsOn(S, n, step) == step \in [1 .. n -> [S -> S]]

IterationOf(f, S, n, a, step) ==
  f \in [0 .. n -> S] /\ f[0] = a /\ \A k \in 1 .. n : f[k] = step[k][f[k - 1]]

\* Functions on S can be applied one after the other to an element of S.
LEMMA Iterated ==
  ASSUME NEW S, NEW n \in Nat, NEW a \in S, NEW step, StepsOn(S, n, step)
  PROVE  \E f : IterationOf(f, S, n, a, step)
<1>0. step \in [1 .. n -> [S -> S]]
  BY DEF StepsOn
<1> DEFINE Good == {m \in 0 .. n : \E f \in [0 .. m -> S] :
                      f[0] = a /\ \A k \in 1 .. m : f[k] = step[k][f[k - 1]]}
<1>1. 0 \in Good
  <2> DEFINE f == [k \in 0 .. 0 |-> a]
  <2>1. f \in [0 .. 0 -> S] /\ f[0] = a
    OBVIOUS
  <2>2. \A k \in 1 .. 0 : f[k] = step[k][f[k - 1]]
    OBVIOUS
  <2> HIDE DEF f
  <2> QED BY <2>1, <2>2
<1>2. ASSUME NEW m \in 1 .. n, m - 1 \in Good PROVE m \in Good
  <2>1. PICK f \in [0 .. m - 1 -> S] : f[0] = a /\ \A k \in 1 .. m - 1 : f[k] = step[k][f[k - 1]]
    BY <1>2
  <2>2. step[m] \in [S -> S] /\ f[m - 1] \in S
    <3>1. m - 1 \in 0 .. m - 1
      OBVIOUS
    <3> QED BY <1>0, <3>1
  <2> DEFINE g == [k \in 0 .. m |-> IF k < m THEN f[k] ELSE step[m][f[m - 1]]]
  <2>3. g \in [0 .. m -> S]
    <3>1. ASSUME NEW k \in 0 .. m PROVE g[k] \in S
      <4>1. CASE k < m
        <5>1. k \in 0 .. m - 1
          BY <4>1
        <5> QED BY <4>1, <5>1
      <4> QED BY <2>2, <4>1
    <3> QED BY <3>1
  <2>4. g[0] = a
    BY <2>1
  <2>5. ASSUME NEW k \in 1 .. m PROVE g[k] = step[k][g[k - 1]]
    <3>1. k - 1 \in 0 .. m /\ k - 1 < m /\ k \in 0 .. m
      OBVIOUS
    <3>2. g[k - 1] = f[k - 1]
      BY <3>1
    <3>3. CASE k < m
      <4>1. k \in 1 .. m - 1 /\ g[k] = f[k]
        BY <3>1, <3>3
      <4> QED BY <2>1, <3>2, <4>1
    <3>4. CASE k = m
      <4>1. g[k] = step[m][f[m - 1]]
        BY <3>1, <3>4
      <4> QED BY <3>2, <3>4, <4>1
    <3>5. k < m \/ k = m
      OBVIOUS
    <3> QED BY <3>3, <3>4, <3>5
  <2> HIDE DEF g
  <2>6. \E h \in [0 .. m -> S] : h[0] = a /\ \A k \in 1 .. m : h[k] = step[k][h[k - 1]]
    <3>1. \A k \in 1 .. m : g[k] = step[k][g[k - 1]]
      BY <2>5
    <3> QED BY <2>3, <2>4, <3>1
  <2>7. m \in 0 .. n
    OBVIOUS
  <2> QED BY <2>6, <2>7
<1> HIDE DEF Good
<1>3. 0 .. n \subseteq Good
  BY <1>1, <1>2, Climb
<1>4. n \in Good
  BY <1>3
<1> QED BY <1>4 DEF Good, IterationOf
-----------------------------------------------------------------------------
(* The disk, and the walk over it.                                         *)

\* With the directories ds, i is the k-th entry named n in directory d.
NameOf(ds, i, d, n, k) ==
  d \in Inodes /\ n \in Names /\ k \in 1 .. Len(ds[d][n]) /\ ds[d][n][k] = i

\* What holds of directories ds and types ty, whatever is made and removed: an
\* entry names an allocated inode, never the root; a directory has one entry.
DiskOK(ds, ty) ==
  /\ ds \in [Inodes -> [Names -> Seq(Inodes)]]
  /\ ty \in [Inodes -> Types]
  /\ ty[RootIno] = "dir"
  /\ \A i \in Inodes : ty[i] = "lnk" => TypesOnDisk[i] = "lnk"
  /\ \A i, d, n, k : NameOf(ds, i, d, n, k) => i # RootIno /\ ty[i] # "free"
  /\ \A i, d, n, k, e, o, j :
       NameOf(ds, i, d, n, k) /\ NameOf(ds, i, e, o, j) /\ ty[i] = "dir" => d = e /\ n = o /\ k = j

DiskInv == DiskOK(dirs, type)

\* A node a walk may stand on.
Reached(w) == w \in Walk /\ (w.file \in Inodes => type[w.file] # "free")

LEMMA PushKeeps ==
  ASSUME NEW out \in Seq(Names), NEW name \in Names \cup {".", ".."}
  PROVE  Push(out, name) \in Seq(Names)
<1>1. CASE name = "."
  BY <1>1 DEF Push
<1>2. CASE name # "." /\ name = ".." /\ out = << >>
  <2>1. Push(out, name) = << >>
    BY <1>2 DEF Push
  <2> QED BY <2>1
<1>3. CASE name # "." /\ name = ".." /\ out # << >>
  <2>1. Push(out, name) = SubSeq(out, 1, Len(out) - 1)
    BY <1>3 DEF Push, Front
  <2>2. Len(out) \in Nat /\ Len(out) > 0
    BY <1>3
  <2>3. \A i \in 1 .. Len(out) - 1 : out[i] \in Names
    BY <2>2
  <2> QED BY <2>1, <2>2, <2>3
<1>4. CASE name # "." /\ name # ".."
  <2>1. Push(out, name) = Append(out, name) /\ name \in Names
    BY <1>4 DEF Push
  <2> QED BY <2>1
<1> QED BY <1>1, <1>2, <1>3, <1>4

\* canonicalize_path gives a list of names.
LEMMA CanonicalPath ==
  ASSUME NEW from \in Seq(Names), NEW path \in Path
  PROVE  canonicalize_path(from, path) \in Seq(Names)
<1>1. path.names \in Seq(Names \cup {".", ".."}) /\ path.abs \in BOOLEAN
  BY DEF Path
<1> DEFINE n == Len(path.names)
           base == IF path.abs \/ path.names = << >> THEN << >> ELSE from
<1>2. n \in Nat /\ base \in Seq(Names)
  BY <1>1
<1>3. ASSUME NEW k \in 1 .. n PROVE path.names[k] \in Names \cup {".", ".."}
  BY <1>1
<1> HIDE DEF n, base
<1>4. PICK f : f = [k \in 0 .. n |-> IF k = 0 THEN base ELSE Push(f[k - 1], path.names[k])]
  <2> DEFINE step == [k \in 1 .. n |-> [out \in Seq(Names) |-> Push(out, path.names[k])]]
  <2>1. step \in [1 .. n -> [Seq(Names) -> Seq(Names)]]
    BY <1>3, PushKeeps
  <2>2. \A k \in 1 .. n, out \in Seq(Names) : step[k][out] = Push(out, path.names[k])
    OBVIOUS
  <2> HIDE DEF step
  <2>3. PICK g \in [0 .. n -> Seq(Names)] : g[0] = base /\ \A k \in 1 .. n : g[k] = step[k][g[k - 1]]
    <3>1. PICK S : S = Seq(Names)
      OBVIOUS
    <3>2. n \in Nat /\ base \in S /\ StepsOn(S, n, step)
      BY <1>2, <2>1, <3>1 DEF StepsOn
    <3>3. \E g : IterationOf(g, S, n, base, step)
      BY <3>2, Iterated
    <3> QED BY <3>1, <3>3 DEF IterationOf
  <2>4. ASSUME NEW k \in 0 .. n
        PROVE  g[k] = IF k = 0 THEN base ELSE Push(g[k - 1], path.names[k])
    <3>1. CASE k # 0
      <4>1. k \in 1 .. n /\ k - 1 \in 0 .. n
        BY <1>2, <3>1
      <4>2. g[k - 1] \in Seq(Names)
        BY <4>1
      <4> QED BY <2>2, <2>3, <3>1, <4>1, <4>2
    <3> QED BY <2>3, <3>1
  <2>5. g = [k \in 0 .. n |-> IF k = 0 THEN base ELSE Push(g[k - 1], path.names[k])]
    BY <2>4
  <2> QED BY <2>5
<1> DEFINE out[k \in 0 .. n] == IF k = 0 THEN base ELSE Push(out[k - 1], path.names[k])
<1>5. out = [k \in 0 .. n |-> IF k = 0 THEN base ELSE Push(out[k - 1], path.names[k])]
  BY <1>4
<1>6. canonicalize_path(from, path) = out[n]
  BY DEF canonicalize_path, n, base
<1> HIDE DEF out
<1> DEFINE Good == {k \in 0 .. n : out[k] \in Seq(Names)}
<1>7. 0 \in Good
  BY <1>2, <1>5
<1>8. ASSUME NEW k \in 1 .. n, k - 1 \in Good PROVE k \in Good
  <2>1. k \in 0 .. n /\ k # 0
    BY <1>2
  <2>2. out[k] = Push(out[k - 1], path.names[k])
    BY <1>5, <2>1
  <2>3. out[k - 1] \in Seq(Names)
    BY <1>8
  <2> QED BY <1>3, <2>1, <2>2, <2>3, PushKeeps
<1> HIDE DEF Good
<1>9. 0 .. n \subseteq Good
  BY <1>2, <1>7, <1>8, Climb
<1>10. n \in 0 .. n
  BY <1>2
<1>11. n \in Good
  BY <1>9, <1>10
<1> QED BY <1>6, <1>11 DEF Good

Mounted(path, d) ==
  SubSeq(path, 1, d) \in DOMAIN Mounts /\ Mounts[SubSeq(path, 1, d)] # NoFile

\* d names of the path are its longest mounted prefix.
LongestMounted(path, d) ==
  /\ d = 0 \/ Mounted(path, d)
  /\ \A e \in d + 1 .. Len(path) : ~ Mounted(path, e)

\* get_mount_point finds the longest mounted prefix.
LEMMA MountPoint ==
  ASSUME NEW path \in Seq(Names)
  PROVE  /\ get_mount_point(path) \in 0 .. Len(path)
         /\ LongestMounted(path, get_mount_point(path))
<1>1. Len(path) \in Nat
  OBVIOUS
<1> DEFINE S == {d \in Nat : d <= Len(path) /\ \A e \in d + 1 .. Len(path) : ~ Mounted(path, e)}
<1>2. \E d \in 0 .. Len(path) : LongestMounted(path, d)
  <2>1. Len(path) \in S
    BY <1>1
  <2>2. PICK d \in S : \A k \in S : d <= k
    <3>1. S \subseteq Nat /\ S # {}
      BY <2>1
    <3> HIDE DEF S
    <3> QED BY <3>1, LeastElement
  <2>3. ASSUME d # 0 /\ ~ Mounted(path, d) PROVE FALSE
    <3>1. d - 1 \in Nat /\ d - 1 <= Len(path)
      BY <2>3, <1>1
    <3>2. \A e \in (d - 1) + 1 .. Len(path) : e = d \/ e \in d + 1 .. Len(path)
      BY <1>1
    <3>3. d - 1 \in S
      BY <2>3, <3>1, <3>2
    <3>4. d \in Nat
      OBVIOUS
    <3> HIDE DEF S
    <3>5. d <= d - 1
      BY <2>2, <3>3
    <3> QED BY <3>4, <3>5
  <2>4. d \in 0 .. Len(path) /\ \A e \in d + 1 .. Len(path) : ~ Mounted(path, e)
    BY <1>1
  <2>5. LongestMounted(path, d)
    BY <2>3, <2>4 DEF LongestMounted
  <2> QED BY <2>4, <2>5
<1>3. get_mount_point(path) = CHOOSE d \in 0 .. Len(path) : LongestMounted(path, d)
  BY DEF get_mount_point, Mounted, LongestMounted
<1> QED BY <1>2, <1>3

\* A walk starts on the disk or on a mounted file.
LEMMA StartReached ==
  ASSUME DiskInv, NEW path \in Seq(Names)
  PROVE  /\ Reached(Start(path)) /\ Start(path).opens = 0
         /\ Start(path).depth \in 0 .. Len(path)
         /\ Start(path).depth = get_mount_point(path)
<1> DEFINE d == get_mount_point(path)
           file == Mounts[SubSeq(path, 1, d)]
<1>1. d \in 0 .. Len(path) /\ (d = 0 \/ Mounted(path, d)) /\ Len(path) \in Nat
  BY MountPoint DEF LongestMounted
<1>2. SubSeq(path, 1, 0) = << >>
  OBVIOUS
<1> HIDE DEF d
<1>3. SubSeq(path, 1, d) \in DOMAIN Mounts
  BY <1>1, <1>2, TreeAssumption DEF Mounted
<1>4. file \in Files \cup {NoFile} /\ (file \in Inodes => type[file] # "free")
  BY <1>3, TreeAssumption DEF DiskInv, DiskOK
<1> HIDE DEF file
<1>5. Start(path) = [file |-> file, depth |-> d, opens |-> 0, freed |-> << >>]
  BY DEF Start, d, file
<1>6. Start(path) \in Walk
  BY <1>1, <1>4, <1>5 DEF Walk
<1> QED BY <1>1, <1>4, <1>5, <1>6 DEF Reached, d

\* What a directory search finds.
LEMMA FindReached ==
  ASSUME DiskInv, NEW f \in Files, NEW name \in Names
  PROVE  /\ fs_finddir(f, name) \in Files \cup {NoFile}
         /\ fs_finddir(f, name) \in Inodes => type[fs_finddir(f, name)] # "free"
<1>1. CASE f \in Inodes
  <2>1. CASE FS_ISDIR(f) /\ dirs[f][name] # << >> /\ type[Head(dirs[f][name])] # "sock"
    <3>1. dirs[f][name] \in Seq(Inodes)
      BY <1>1 DEF DiskInv, DiskOK
    <3>2. 1 \in 1 .. Len(dirs[f][name]) /\ Head(dirs[f][name]) = dirs[f][name][1]
          /\ dirs[f][name][1] \in Inodes
      BY <2>1, <3>1
    <3>3. NameOf(dirs, Head(dirs[f][name]), f, name, 1)
      BY <1>1, <3>2 DEF NameOf
    <3> QED BY <1>1, <2>1, <3>2, <3>3 DEF fs_finddir, DiskInv, DiskOK, Files
  <2>2. CASE ~ (FS_ISDIR(f) /\ dirs[f][name] # << >> /\ type[Head(dirs[f][name])] # "sock")
    <3>1. fs_finddir(f, name) = NoFile
      BY <1>1, <2>2 DEF fs_finddir
    <3> QED BY <3>1, TreeAssumption DEF Files
  <2> QED BY <2>1, <2>2
<1>2. CASE f \notin Inodes
  BY <1>2, TreeAssumption DEF fs_finddir, Files, StaticNodes
<1> QED BY <1>1, <1>2

\* A step down.
LEMMA SearchReached ==
  ASSUME DiskInv, NEW w, Reached(w), w.file # NoFile, NEW name \in Names
  PROVE  /\ Reached(Search(w, name)) /\ Search(w, name).opens = 0
         /\ Search(w, name).depth = w.depth + 1
         /\ Search(w, name).file = fs_finddir(w.file, name)
<1> DEFINE file  == fs_finddir(w.file, name)
           freed == w.freed \o (IF w.file \in StaticNodes THEN <<w.file>> ELSE << >>)
<1>1. w.file \in Files /\ w.depth \in Nat /\ w.freed \in Seq(StaticNodes)
  BY DEF Reached, Walk
<1>2. file \in Files \cup {NoFile} /\ (file \in Inodes => type[file] # "free")
  BY <1>1, FindReached
<1>3. freed \in Seq(StaticNodes)
  BY <1>1
<1>4. Search(w, name) = [file |-> file, depth |-> w.depth + 1, opens |-> 0, freed |-> freed]
  BY DEF Search
<1> HIDE DEF file, freed
<1>5. Search(w, name) \in Walk
  BY <1>1, <1>2, <1>3, <1>4 DEF Walk
<1> QED BY <1>2, <1>4, <1>5 DEF Reached, file

\* What calls for the targets of links return.
OpenedWell(opened) == \A target \in Seq(Names) : Reached(opened[target])

\* A link is an inode of the disk.
LEMMA LinkIsInode ==
  ASSUME DiskInv, NEW f, TypeOf(f) = "lnk"
  PROVE  f \in Inodes /\ type[f] = "lnk" /\ Target[f] \in Path
BY TreeAssumption, VfsAssumption DEF TypeOf, DiskInv, DiskOK, DiskIsSound

\* Following a link.
LEMMA FollowReached ==
  ASSUME DiskInv, NEW path \in Seq(Names), NEW flags, NEW w, Reached(w),
         NEW opened, OpenedWell(opened)
  PROVE  Reached(Follow(path, flags, w, opened))
         /\ Follow(path, flags, w, opened).depth = w.depth
<1>1. CASE ~ FollowsLink(path, flags, w)
  BY <1>1 DEF Follow
<1>2. CASE FollowsLink(path, flags, w) /\ LinkRefused(path, flags, w)
  <2>1. Follow(path, flags, w, opened) = [w EXCEPT !.file = NoFile]
    BY <1>2 DEF Follow
  <2> QED BY <2>1, TreeAssumption DEF Reached, Walk, Files
<1>3. CASE FollowsLink(path, flags, w) /\ ~ LinkRefused(path, flags, w)
  <2>1. Target[w.file] \in Path
    BY <1>3, LinkIsInode DEF FollowsLink
  <2>2. PICK target : target = canonicalize_path(<< >>, Target[w.file])
    OBVIOUS
  <2>3. target \in Seq(Names)
    <3>1. << >> \in Seq(Names)
      OBVIOUS
    <3> QED BY <2>1, <2>2, <3>1, CanonicalPath
  <2>4. PICK r : r = opened[target]
    OBVIOUS
  <2>5. Reached(r)
    BY <2>3, <2>4 DEF OpenedWell
  <2>6. Follow(path, flags, w, opened) = [r EXCEPT !.depth = w.depth, !.freed = w.freed \o @]
    BY <1>3, <2>2, <2>4 DEF Follow
  <2>7. w.freed \o r.freed \in Seq(StaticNodes) /\ w.depth \in Nat
    BY <2>5 DEF Reached, Walk
  <2> QED BY <2>5, <2>6, <2>7 DEF Reached, Walk
<1> QED BY <1>1, <1>2, <1>3

-----------------------------------------------------------------------------
(* The loop of kopen_recur.                                                *)

\* walk is the function Resolve defines, up to n names still to go.
LoopIs(walk, n, path, flags, opened) ==
  walk = [names \in 0 .. n |->
           [w \in Walk |->
             IF w.file = NoFile THEN w
             ELSE IF names = 0 THEN [w EXCEPT !.opens = @ + 1]
             ELSE walk[names - 1][Follow(path, flags, Search(w, path[w.depth + 1]), opened)]]]

\* One round of the loop, next being what follows.
Round(next, path, flags, opened) ==
  [w \in Walk |->
     IF w.file = NoFile THEN w
     ELSE next[Follow(path, flags, Search(w, path[w.depth + 1]), opened)]]

\* The last round.
Final == [w \in Walk |-> IF w.file = NoFile THEN w ELSE [w EXCEPT !.opens = @ + 1]]

\* The loop, round by round.
LEMMA LoopRounds ==
  ASSUME NEW n \in Nat, NEW path, NEW flags, NEW opened, NEW walk
  PROVE  LoopIs(walk, n, path, flags, opened) <=>
           walk = [names \in 0 .. n |->
                    IF names = 0 THEN Final ELSE Round(walk[names - 1], path, flags, opened)]
<1>1. ASSUME NEW names \in 0 .. n
      PROVE  [w \in Walk |->
               IF w.file = NoFile THEN w
               ELSE IF names = 0 THEN [w EXCEPT !.opens = @ + 1]
               ELSE walk[names - 1][Follow(path, flags, Search(w, path[w.depth + 1]), opened)]]
             = IF names = 0 THEN Final ELSE Round(walk[names - 1], path, flags, opened)
  <2>1. CASE names = 0
    BY <2>1 DEF Final
  <2>2. CASE names # 0
    BY <2>2 DEF Round
  <2> QED BY <2>1, <2>2
<1> QED BY <1>1 DEF LoopIs

\* There is such a function.
LEMMA LoopDefined ==
  ASSUME NEW n \in Nat, NEW path, NEW flags, NEW opened
  PROVE  \E walk : LoopIs(walk, n, path, flags, opened)
<1> DEFINE Rounds(f, m) ==
             f = [k \in 0 .. m |-> IF k = 0 THEN Final ELSE Round(f[k - 1], path, flags, opened)]
           Good == {m \in 0 .. n : \E f : Rounds(f, m)}
<1>1. 0 \in Good
  <2> DEFINE f == [k \in 0 .. 0 |-> Final]
  <2>1. f = [k \in 0 .. 0 |-> IF k = 0 THEN Final ELSE Round(f[k - 1], path, flags, opened)]
    OBVIOUS
  <2> HIDE DEF f
  <2> QED BY <2>1
<1>2. ASSUME NEW m \in 1 .. n, m - 1 \in Good PROVE m \in Good
  <2>1. PICK f : Rounds(f, m - 1)
    BY <1>2
  <2> DEFINE last == Round(f[m - 1], path, flags, opened)
             g == [k \in 0 .. m |-> IF k < m THEN f[k] ELSE last]
  <2>2. ASSUME NEW k \in 0 .. m
        PROVE  g[k] = IF k = 0 THEN Final ELSE Round(g[k - 1], path, flags, opened)
    <3>1. CASE k < m /\ k # 0
      <4>1. k \in 0 .. m - 1 /\ k - 1 \in 0 .. m /\ k - 1 < m
        BY <3>1
      <4>2. g[k] = f[k] /\ g[k - 1] = f[k - 1]
        BY <3>1, <4>1
      <4> HIDE DEF g
      <4> QED BY <2>1, <3>1, <4>1, <4>2
    <3>2. CASE k = 0
      <4>1. 0 \in 0 .. m - 1 /\ g[0] = f[0]
        OBVIOUS
      <4> HIDE DEF g
      <4> QED BY <2>1, <3>2, <4>1
    <3>3. CASE k = m
      <4>1. g[k] = last /\ g[k - 1] = f[m - 1] /\ k # 0
        BY <3>3
      <4> HIDE DEF g
      <4> QED BY <3>3, <4>1
    <3> QED BY <3>1, <3>2, <3>3
  <2>3. g = [k \in 0 .. m |-> g[k]]
    OBVIOUS
  <2> HIDE DEF g
  <2>4. Rounds(g, m)
    BY <2>2, <2>3
  <2> HIDE DEF Rounds
  <2> QED BY <2>4
<1> HIDE DEF Good
<1>3. n \in Good
  BY <1>1, <1>2, Climb
<1>4. PICK f : Rounds(f, n)
  BY <1>3 DEF Good
<1>5. LoopIs(f, n, path, flags, opened)
  BY <1>4, LoopRounds
<1> QED BY <1>5

\* Resolve is a run of that loop.
LEMMA ResolveRuns ==
  ASSUME NEW path \in Seq(Names), NEW flags, NEW opened
  PROVE  \E walk : /\ walk = [names \in 0 .. Len(path) |->
                                IF names = 0 THEN Final
                                ELSE Round(walk[names - 1], path, flags, opened)]
                   /\ Resolve(path, flags, opened) =
                        walk[Len(path) - Start(path).depth]
                          [Follow(path, flags, Start(path), opened)]
<1> DEFINE walk[names \in 0 .. Len(path)] ==
        [w \in Walk |->
           IF w.file = NoFile THEN w
           ELSE IF names = 0 THEN [w EXCEPT !.opens = @ + 1]
           ELSE walk[names - 1][Follow(path, flags, Search(w, path[w.depth + 1]), opened)]]
<1>1. Len(path) \in Nat
  OBVIOUS
<1>2. PICK f : LoopIs(f, Len(path), path, flags, opened)
  BY <1>1, LoopDefined
<1>3. walk = [names \in 0 .. Len(path) |->
           [w \in Walk |->
             IF w.file = NoFile THEN w
             ELSE IF names = 0 THEN [w EXCEPT !.opens = @ + 1]
             ELSE walk[names - 1][Follow(path, flags, Search(w, path[w.depth + 1]), opened)]]]
  BY <1>2 DEF LoopIs
<1>4. Resolve(path, flags, opened) =
        walk[Len(path) - Start(path).depth][Follow(path, flags, Start(path), opened)]
  BY DEF Resolve
<1> HIDE DEF walk
<1>5. LoopIs(walk, Len(path), path, flags, opened)
  BY <1>3 DEF LoopIs
<1>6. walk = [names \in 0 .. Len(path) |->
                IF names = 0 THEN Final ELSE Round(walk[names - 1], path, flags, opened)]
  BY <1>1, <1>5, LoopRounds
<1> QED BY <1>4, <1>6

\* No inode is a symbolic link.
NoLinkNow == \A i \in Inodes : type[i] # "lnk"

LEMMA NothingToFollow ==
  ASSUME DiskInv, NoLinkNow, NEW path, NEW flags, NEW w, NEW opened
  PROVE  Follow(path, flags, w, opened) = w
BY LinkIsInode DEF Follow, FollowsLink, NoLinkNow

\* The loop may go on from w.
Underway(w) == Reached(w) /\ (NoLinkNow => w.opens = 0)

\* What it returns: a file that was found was opened, once unless it is reached
\* through a link.
Ended(v) ==
  Reached(v) /\ (v.file # NoFile => v.opens >= 1 /\ (NoLinkNow => v.opens = 1))

LEMMA LoopEnds ==
  ASSUME DiskInv, NEW path \in Seq(Names), NEW flags, NEW opened, OpenedWell(opened), NEW walk,
         walk = [names \in 0 .. Len(path) |->
                   IF names = 0 THEN Final ELSE Round(walk[names - 1], path, flags, opened)]
  PROVE  \A k \in 0 .. Len(path), w \in Walk :
           Underway(w) /\ w.depth + k = Len(path) => Ended(walk[k][w])
<1>1. Len(path) \in Nat
  OBVIOUS
<1> DEFINE Good == {k \in 0 .. Len(path) : \A w \in Walk :
                      Underway(w) /\ w.depth + k = Len(path) => Ended(walk[k][w])}
<1>2. 0 \in Good
  <2>1. SUFFICES ASSUME NEW w \in Walk, Underway(w) PROVE Ended(walk[0][w])
    BY <1>1
  <2>2. walk[0] = Final
    BY <1>1
  <2>3. CASE w.file = NoFile
    <3>1. Final[w] = w
      BY <2>3 DEF Final
    <3> QED BY <2>1, <2>2, <2>3, <3>1 DEF Ended, Underway
  <2>4. CASE w.file # NoFile
    <3>1. PICK v : v = [w EXCEPT !.opens = @ + 1]
      OBVIOUS
    <3>2. Final[w] = v
      BY <2>4, <3>1 DEF Final
    <3>3. w.opens \in Nat
      BY DEF Walk
    <3>4. v \in Walk /\ v.file = w.file /\ v.opens = w.opens + 1
      BY <3>1, <3>3 DEF Walk
    <3>5. Ended(v)
      BY <2>1, <3>3, <3>4 DEF Ended, Underway, Reached
    <3> QED BY <2>2, <3>2, <3>5
  <2> QED BY <2>3, <2>4
<1>3. ASSUME NEW k \in 1 .. Len(path), k - 1 \in Good PROVE k \in Good
  <2>1. k \in 0 .. Len(path)
    BY <1>1
  <2>2. k # 0
    BY <1>1
  <2> SUFFICES ASSUME NEW w \in Walk, Underway(w), w.depth + k = Len(path)
               PROVE  Ended(walk[k][w])
    BY <2>1
  <2>3. walk[k] = Round(walk[k - 1], path, flags, opened)
    BY <2>1, <2>2
  <2>4. CASE w.file = NoFile
    <3>1. walk[k][w] = w
      BY <2>3, <2>4 DEF Round
    <3> QED BY <2>4, <3>1 DEF Ended, Underway
  <2>5. CASE w.file # NoFile
    <3>1. w.depth \in Nat /\ w.depth + 1 \in 1 .. Len(path) /\ Reached(w)
      BY <1>1, <2>1, <2>2 DEF Walk, Underway
    <3>2. PICK name : name = path[w.depth + 1]
      OBVIOUS
    <3>3. name \in Names
      BY <3>1, <3>2
    <3>4. PICK s : s = Search(w, name)
      OBVIOUS
    <3>5. Reached(s) /\ s.opens = 0 /\ s.depth = w.depth + 1
      BY <2>5, <3>1, <3>3, <3>4, SearchReached
    <3>6. PICK u : u = Follow(path, flags, s, opened)
      OBVIOUS
    <3>7. Reached(u) /\ u.depth = s.depth
      BY <3>5, <3>6, FollowReached
    <3>8. NoLinkNow => u = s
      BY <3>6, NothingToFollow
    <3>9. Underway(u) /\ u \in Walk /\ u.depth + (k - 1) = Len(path)
      BY <1>1, <2>1, <3>1, <3>5, <3>7, <3>8 DEF Underway, Reached
    <3>10. Ended(walk[k - 1][u])
      BY <1>3, <3>9
    <3>11. walk[k][w] = walk[k - 1][u]
      BY <2>3, <2>5, <3>2, <3>4, <3>6 DEF Round
    <3> QED BY <3>10, <3>11
  <2> QED BY <2>4, <2>5
<1> HIDE DEF Good
<1>4. 0 .. Len(path) \subseteq Good
  BY <1>1, <1>2, <1>3, Climb
<1> QED BY <1>4 DEF Good

LEMMA ResolveEnds ==
  ASSUME DiskInv, NEW path \in Seq(Names), NEW flags, NEW opened, OpenedWell(opened)
  PROVE  Ended(Resolve(path, flags, opened))
<1>1. PICK walk : /\ walk = [names \in 0 .. Len(path) |->
                                IF names = 0 THEN Final
                                ELSE Round(walk[names - 1], path, flags, opened)]
                  /\ Resolve(path, flags, opened) =
                        walk[Len(path) - Start(path).depth]
                          [Follow(path, flags, Start(path), opened)]
  BY ResolveRuns
<1>2. PICK s : s = Start(path)
  OBVIOUS
<1>3. Reached(s) /\ s.opens = 0 /\ s.depth \in 0 .. Len(path) /\ Len(path) \in Nat
  BY <1>2, StartReached
<1>4. PICK u : u = Follow(path, flags, s, opened)
  OBVIOUS
<1>5. Reached(u) /\ u.depth = s.depth
  BY <1>3, <1>4, FollowReached
<1>6. NoLinkNow => u = s
  BY <1>4, NothingToFollow
<1>7. Underway(u) /\ u \in Walk
  BY <1>3, <1>5, <1>6 DEF Underway, Reached
<1>8. PICK k : k = Len(path) - s.depth
  OBVIOUS
<1>9. k \in 0 .. Len(path) /\ u.depth + k = Len(path)
  BY <1>3, <1>5, <1>8
<1>10. Ended(walk[k][u])
  BY <1>1, <1>7, <1>9, LoopEnds
<1> QED BY <1>1, <1>2, <1>4, <1>8, <1>10

\* The calls for the targets of links, for every number of them.
LEMMA CallsReach ==
  ASSUME DiskInv
  PROVE  OpenedWell(kopen_recur[MAX_SYMLINK_DEPTH])
<1>1. MAX_SYMLINK_DEPTH \in Nat
  BY TreeAssumption
<1> DEFINE n == MAX_SYMLINK_DEPTH
           Is(f, m) == f = [links \in 0 .. m |->
                              IF links = 0 THEN [path \in Seq(Names) |-> Failed]
                              ELSE [path \in Seq(Names) |-> Resolve(path, {}, f[links - 1])]]
           Good == {m \in 0 .. n : \E f : Is(f, m)}
<1>2. 0 \in Good
  <2> DEFINE f == [links \in 0 .. 0 |-> [path \in Seq(Names) |-> Failed]]
  <2>1. Is(f, 0)
    OBVIOUS
  <2> HIDE DEF f
  <2>2. 0 \in 0 .. n
    BY <1>1
  <2> QED BY <2>1, <2>2
<1>3. ASSUME NEW m \in 1 .. n, m - 1 \in Good PROVE m \in Good
  <2>1. PICK f : Is(f, m - 1)
    BY <1>3
  <2> DEFINE last == [path \in Seq(Names) |-> Resolve(path, {}, f[m - 1])]
             g == [k \in 0 .. m |-> IF k < m THEN f[k] ELSE last]
  <2>2. ASSUME NEW k \in 0 .. m
        PROVE  g[k] = IF k = 0 THEN [path \in Seq(Names) |-> Failed]
                      ELSE [path \in Seq(Names) |-> Resolve(path, {}, g[k - 1])]
    <3>1. CASE k < m /\ k # 0
      <4>1. k \in 0 .. m - 1 /\ k - 1 \in 0 .. m /\ k - 1 < m
        BY <1>1, <3>1
      <4>2. g[k] = f[k] /\ g[k - 1] = f[k - 1]
        BY <3>1, <4>1
      <4> HIDE DEF g
      <4> QED BY <2>1, <3>1, <4>1, <4>2
    <3>2. CASE k = 0
      <4>1. 0 \in 0 .. m - 1 /\ g[0] = f[0]
        BY <1>1
      <4> HIDE DEF g
      <4> QED BY <2>1, <3>2, <4>1
    <3>3. CASE k = m
      <4>1. g[k] = last /\ g[k - 1] = f[m - 1] /\ k # 0
        BY <1>1, <3>3
      <4> HIDE DEF g
      <4> QED BY <3>3, <4>1
    <3> QED BY <1>1, <3>1, <3>2, <3>3
  <2>3. g = [k \in 0 .. m |-> g[k]]
    OBVIOUS
  <2> HIDE DEF g
  <2>4. Is(g, m)
    BY <2>2, <2>3
  <2> HIDE DEF Is
  <2> QED BY <2>4
<1>4. PICK f : Is(f, n)
  <2> HIDE DEF Good
  <2>1. n \in Good
    BY <1>1, <1>2, <1>3, Climb
  <2> QED BY <2>1 DEF Good
<1>5. Is(kopen_recur, n)
  <2> HIDE DEF Is
  <2>1. kopen_recur = CHOOSE h : Is(h, n)
    BY DEF kopen_recur, Is
  <2> QED BY <1>4, <2>1
<1> DEFINE Fine == {k \in 0 .. n : OpenedWell(kopen_recur[k])}
<1>6. 0 \in Fine
  <2>1. kopen_recur[0] = [path \in Seq(Names) |-> Failed]
    BY <1>1, <1>5
  <2>2. Reached(Failed)
    <3>1. << >> \in Seq(StaticNodes)
      OBVIOUS
    <3> QED BY <3>1, TreeAssumption DEF Failed, Reached, Walk, Files
  <2> QED BY <1>1, <2>1, <2>2 DEF OpenedWell
<1>7. ASSUME NEW k \in 1 .. n, k - 1 \in Fine PROVE k \in Fine
  <2>1. PICK opened : opened = kopen_recur[k - 1]
    OBVIOUS
  <2>2. kopen_recur[k] = [path \in Seq(Names) |-> Resolve(path, {}, opened)]
    <3>1. k \in 0 .. n /\ k # 0
      BY <1>1
    <3>2. kopen_recur[k] = [path \in Seq(Names) |-> Resolve(path, {}, kopen_recur[k - 1])]
      BY <1>5, <3>1
    <3> QED BY <2>1, <3>2
  <2>3. OpenedWell(opened)
    BY <1>7, <2>1
  <2>4. \A path \in Seq(Names) : Reached(Resolve(path, {}, opened))
    BY <2>3, ResolveEnds DEF Ended
  <2>5. OpenedWell(kopen_recur[k])
    BY <2>2, <2>4 DEF OpenedWell
  <2> QED BY <1>1, <2>5
<1> HIDE DEF Fine
<1>8. n \in Fine
  BY <1>1, <1>6, <1>7, Climb
<1> QED BY <1>8 DEF Fine

\* kopen, for every path and every flags.
LEMMA KopenEnds ==
  ASSUME DiskInv, NEW cp \in Seq(Names), NEW flags
  PROVE  Ended(kopen(cp, flags))
BY CallsReach, ResolveEnds DEF kopen

-----------------------------------------------------------------------------
(* Making and removing names.                                              *)

\* t is the list s with e put at position p.
IsInsertion(t, S, s, p, e) ==
  /\ t \in Seq(S) /\ Len(t) = Len(s) + 1 /\ t[p] = e
  /\ \A j \in 1 .. p - 1 : t[j] = s[j]
  /\ \A j \in p + 1 .. Len(s) + 1 : t[j] = s[j - 1]

LEMMA Inserted ==
  ASSUME NEW S, NEW s \in Seq(S), NEW p \in 1 .. Len(s) + 1, NEW e \in S
  PROVE  IsInsertion(InsertAt(s, p, e), S, s, p, e)
<1>1. Len(s) \in Nat /\ p \in Nat /\ p >= 1 /\ p <= Len(s) + 1
  OBVIOUS
<1> DEFINE a == SubSeq(s, 1, p - 1)
           b == SubSeq(s, p, Len(s))
<1>2. a \in Seq(S) /\ Len(a) = p - 1 /\ \A j \in 1 .. p - 1 : a[j] = s[j]
  <2>1. \A j \in 1 .. p - 1 : s[j] \in S
    BY <1>1
  <2> QED BY <1>1, <2>1
<1>3. b \in Seq(S) /\ Len(b) = Len(s) - p + 1 /\ \A j \in 1 .. Len(s) - p + 1 : b[j] = s[p + j - 1]
  <2>1. \A j \in p .. Len(s) : s[j] \in S
    BY <1>1
  <2> QED BY <1>1, <2>1
<1>4. InsertAt(s, p, e) = a \o <<e>> \o b
  BY DEF InsertAt
<1> HIDE DEF a, b
<1> DEFINE c == a \o <<e>>
<1>5. c \in Seq(S) /\ Len(c) = p /\ c[p] = e /\ \A j \in 1 .. p - 1 : c[j] = s[j]
  BY <1>1, <1>2
<1>6. InsertAt(s, p, e) = c \o b
  BY <1>4
<1> HIDE DEF c
<1>7. c \o b \in Seq(S) /\ Len(c \o b) = Len(s) + 1
  <2>1. c \in Seq(S) /\ b \in Seq(S)
    BY <1>3, <1>5
  <2>2. c \o b \in Seq(S)
    BY <2>1
  <2>3. Len(c \o b) = Len(c) + Len(b)
    BY <2>1
  <2> QED BY <1>1, <1>3, <1>5, <2>2, <2>3
<1>8. (c \o b)[p] = e /\ \A j \in 1 .. p - 1 : (c \o b)[j] = s[j]
  <2>1. \A j \in 1 .. p : (c \o b)[j] = c[j]
    BY <1>1, <1>3, <1>5
  <2> QED BY <1>1, <1>5, <2>1
<1>9. ASSUME NEW j \in p + 1 .. Len(s) + 1 PROVE (c \o b)[j] = s[j - 1]
  <2>1. (c \o b)[j] = b[j - p]
    BY <1>1, <1>3, <1>5
  <2>2. j - p \in 1 .. Len(s) - p + 1 /\ p + (j - p) - 1 = j - 1
    BY <1>1
  <2>3. b[j - p] = s[p + (j - p) - 1]
    BY <1>3, <2>2
  <2> QED BY <2>1, <2>2, <2>3
<1> QED BY <1>6, <1>7, <1>8, <1>9 DEF IsInsertion

\* The types a call may change.
TypesStable(ty, ty2) ==
  \A i \in Inodes : ty[i] \notin {"free", "dir"} => ty2[i] = ty[i]

\* The disk image is sound.
LEMMA DiskInit ==
  ASSUME Init PROVE DiskInv
<1>1. dirs = DirsOnDisk /\ type = TypesOnDisk
  BY DEF Init
<1>2. ASSUME NEW i, NEW d, NEW n, NEW k, NameOf(dirs, i, d, n, k)
      PROVE  k = 1 /\ i # RootIno /\ type[i] # "free"
  <2>1. dirs[d][n] \in Seq(Inodes) /\ Len(dirs[d][n]) <= 1
    BY <1>1, <1>2, VfsAssumption DEF DiskIsSound, NameOf
  <2>2. k \in 1 .. Len(DirsOnDisk[d][n]) /\ DirsOnDisk[d][n][k] = i
    BY <1>1, <1>2 DEF NameOf
  <2>3. DirsOnDisk[d][n][k] # RootIno /\ TypesOnDisk[DirsOnDisk[d][n][k]] # "free"
    BY <1>2, <2>2, VfsAssumption DEF DiskIsSound, NameOf
  <2>4. k = 1
    BY <1>1, <2>1, <2>2
  <2> QED BY <1>1, <2>2, <2>3, <2>4
<1>3. ASSUME NEW i, NEW d, NEW n, NEW k, NEW e, NEW o, NEW j,
             NameOf(dirs, i, d, n, k), NameOf(dirs, i, e, o, j), type[i] = "dir"
      PROVE  d = e /\ n = o /\ k = j
  <2>1. k = 1 /\ j = 1
    BY <1>2, <1>3
  <2>2. i \in {DirsOnDisk[e][o][x] : x \in 1 .. Len(DirsOnDisk[e][o])}
    BY <1>1, <1>3 DEF NameOf
  <2>3. k \in 1 .. Len(DirsOnDisk[d][n]) /\ DirsOnDisk[d][n][k] = i /\ d \in Inodes /\ n \in Names
        /\ e \in Inodes /\ o \in Names
    BY <1>1, <1>3 DEF NameOf
  <2>4. e = d /\ o = n
    BY <1>1, <1>3, <2>2, <2>3, VfsAssumption DEF DiskIsSound
  <2> QED BY <2>1, <2>4
<1>4. dirs \in [Inodes -> [Names -> Seq(Inodes)]] /\ type \in [Inodes -> Types] /\ type[RootIno] = "dir"
  BY <1>1, VfsAssumption DEF DiskIsSound
<1> QED BY <1>1, <1>2, <1>3, <1>4 DEF DiskInv, DiskOK

\* ext2fs_mknod adds one entry, for an inode that had none.
LEMMA MknodEntries ==
  ASSUME NEW ds, NEW ty, DiskOK(ds, ty), NEW d \in Inodes, ty[d] = "dir", NEW name \in Names,
         NEW t, t \in {"reg", "dir", "chr", "sock"},
         NEW i \in Inodes, NEW p \in 1 .. Len(ds[d][name]) + 1,
         ty[i] = "free", NEW ty2, ty2 = [ty EXCEPT ![i] = t],
         NEW ds2, ds2 = [ds EXCEPT ![d][name] = InsertAt(@, p, i), ![i] = [n \in Names |-> << >>]]
  PROVE  /\ DiskOK(ds2, ty2) /\ TypesStable(ty, ty2)
         /\ \A e \in Inodes, o \in Names : <<e, o>> # <<d, name>> =>
              ds2[e][o] = ds[e][o] \/ ds2[e][o] = << >>
         /\ Len(ds2[d][name]) = Len(ds[d][name]) + 1
<1>1. d # i /\ ds[d][name] \in Seq(Inodes) /\ i # RootIno
  BY DEF DiskOK
<1> DEFINE s == ds[d][name]
           ins == InsertAt(s, p, i)
<1>2. /\ ins \in Seq(Inodes) /\ Len(ins) = Len(s) + 1 /\ Len(s) \in Nat
      /\ ins[p] = i /\ p \in Nat /\ p <= Len(s) + 1
      /\ \A j \in 1 .. p - 1 : ins[j] = s[j]
      /\ \A j \in p + 1 .. Len(s) + 1 : ins[j] = s[j - 1]
  <2>1. s \in Seq(Inodes) /\ p \in 1 .. Len(s) + 1 /\ Len(s) \in Nat
    BY <1>1
  <2> HIDE DEF s
  <2>2. IsInsertion(ins, Inodes, s, p, i)
    BY <2>1, Inserted
  <2> QED BY <2>1, <2>2 DEF IsInsertion
<1>3. ds2[d][name] = ins
  BY <1>1 DEF DiskOK
<1>4. ASSUME NEW e \in Inodes, NEW o \in Names, <<e, o>> # <<d, name>>
      PROVE  ds2[e][o] = IF e = i THEN << >> ELSE ds[e][o]
  BY <1>1, <1>4 DEF DiskOK
<1> HIDE DEF s, ins
<1>5. ds2 \in [Inodes -> [Names -> Seq(Inodes)]]
  <2>0. << >> \in Seq(Inodes) /\ [n \in Names |-> << >>] \in [Names -> Seq(Inodes)]
    OBVIOUS
  <2>1. ds2 = [[ds EXCEPT ![d][name] = ins] EXCEPT ![i] = [n \in Names |-> << >>]]
    BY DEF s, ins
  <2>2. [ds EXCEPT ![d][name] = ins] \in [Inodes -> [Names -> Seq(Inodes)]]
    BY <1>2 DEF DiskOK
  <2> QED BY <2>0, <2>1, <2>2
<1>6. /\ ty2 \in [Inodes -> Types] /\ ty2[RootIno] = "dir" /\ ty2[i] = t
      /\ \A e \in Inodes : e # i => ty2[e] = ty[e]
  BY <1>1 DEF DiskOK, Types
\* An entry is the new one or stood there before.
<1> DEFINE Before(k) == IF k < p THEN k ELSE k - 1
<1>7. ASSUME NEW x, NEW e, NEW o, NEW k, NameOf(ds2, x, e, o, k)
      PROVE  \/ x = i /\ e = d /\ o = name /\ k = p
             \/ /\ x # i /\ e = d /\ o = name /\ k \in Int /\ k # p /\ NameOf(ds, x, d, name, Before(k))
             \/ <<e, o>> # <<d, name>> /\ x # i /\ NameOf(ds, x, e, o, k)
  <2>1. e \in Inodes /\ o \in Names /\ k \in 1 .. Len(ds2[e][o]) /\ ds2[e][o][k] = x
    BY <1>7 DEF NameOf
  <2>2. \A y, f, q, j : NameOf(ds, y, f, q, j) => y # i
    BY DEF DiskOK
  <2>3. CASE <<e, o>> = <<d, name>>
    <3>1. k \in 1 .. Len(s) + 1 /\ ins[k] = x
      BY <1>2, <1>3, <2>1, <2>3
    <3>2. CASE k = p
      BY <1>2, <2>3, <3>1, <3>2
    <3>3. CASE k # p
      <4>1. Before(k) \in 1 .. Len(s) /\ s[Before(k)] = x /\ k \in Int
        <5>1. CASE k < p
          <6>1. k \in 1 .. p - 1 /\ Before(k) = k /\ k \in 1 .. Len(s)
            BY <1>2, <3>1, <5>1
          <6> QED BY <1>2, <3>1, <6>1
        <5>2. CASE k > p
          <6>1. k \in p + 1 .. Len(s) + 1 /\ Before(k) = k - 1 /\ k - 1 \in 1 .. Len(s)
            BY <1>2, <3>1, <5>2
          <6> QED BY <1>2, <3>1, <6>1
        <5> QED BY <1>2, <3>1, <3>3, <5>1, <5>2
      <4>2. NameOf(ds, x, d, name, Before(k))
        BY <4>1 DEF NameOf, s
      <4> QED BY <2>2, <2>3, <3>3, <4>1, <4>2
    <3> QED BY <3>2, <3>3
  <2>4. CASE <<e, o>> # <<d, name>>
    <3>1. e # i
      <4> SUFFICES ASSUME e = i PROVE FALSE
        OBVIOUS
      <4>1. ds2[e][o] = << >>
        BY <1>4, <2>1, <2>4
      <4>2. 1 .. Len(ds2[e][o]) = {}
        BY <4>1
      <4> QED BY <2>1, <4>2
    <3>2. NameOf(ds, x, e, o, k)
      BY <1>4, <2>1, <2>4, <3>1 DEF NameOf
    <3> QED BY <2>2, <2>4, <3>2
  <2> QED BY <2>3, <2>4
<1>8. ASSUME NEW x, NEW e, NEW o, NEW k, NameOf(ds2, x, e, o, k)
      PROVE  x # RootIno /\ ty2[x] # "free"
  <2>1. CASE x = i
    BY <1>1, <1>6, <2>1
  <2>2. CASE x # i
    <3>1. \E j : NameOf(ds, x, e, o, j)
      BY <1>7, <1>8, <2>2
    <3>2. x # RootIno /\ ty[x] # "free"
      BY <3>1 DEF DiskOK
    <3>3. x \in Inodes
      <4>1. e \in Inodes /\ o \in Names /\ k \in 1 .. Len(ds2[e][o]) /\ ds2[e][o][k] = x
        BY <1>8 DEF NameOf
      <4>2. ds2[e][o] \in Seq(Inodes)
        BY <1>5, <4>1
      <4> QED BY <4>1, <4>2
    <3> QED BY <1>6, <2>2, <3>2, <3>3
  <2> QED BY <2>1, <2>2
<1>9. ASSUME NEW x, NEW e, NEW o, NEW k, NEW f, NEW q, NEW j,
             NameOf(ds2, x, e, o, k), NameOf(ds2, x, f, q, j), ty2[x] = "dir"
      PROVE  e = f /\ o = q /\ k = j
  <2>1. CASE x = i
    BY <1>7, <1>9, <2>1
  <2>2. CASE x # i
    <3>1. x \in Inodes /\ ty[x] = "dir"
      <4>1. e \in Inodes /\ o \in Names /\ k \in 1 .. Len(ds2[e][o]) /\ ds2[e][o][k] = x
        BY <1>9 DEF NameOf
      <4>2. ds2[e][o] \in Seq(Inodes)
        BY <1>5, <4>1
      <4>3. x \in Inodes
        BY <4>1, <4>2
      <4> QED BY <1>6, <1>9, <2>2, <4>3
    <3>2. \A f1, q1, j1, f2, q2, j2 : NameOf(ds, x, f1, q1, j1) /\ NameOf(ds, x, f2, q2, j2) =>
            f1 = f2 /\ q1 = q2 /\ j1 = j2
      BY <3>1 DEF DiskOK
    <3>3. CASE <<e, o>> = <<d, name>>
      <4>1. k \in Int /\ k # p /\ NameOf(ds, x, d, name, Before(k))
        BY <1>7, <1>9, <2>2, <3>3
      <4>2. f = d /\ q = name /\ j \in Int /\ j # p /\ NameOf(ds, x, d, name, Before(j))
        BY <1>7, <1>9, <2>2, <3>2, <4>1
      <4>3. Before(k) = Before(j)
        BY <3>2, <4>1, <4>2
      <4> QED BY <3>3, <4>1, <4>2, <4>3
    <3>4. CASE <<e, o>> # <<d, name>>
      <4>1. NameOf(ds, x, e, o, k)
        BY <1>7, <1>9, <2>2, <3>4
      <4>2. NameOf(ds, x, f, q, j)
        BY <1>7, <1>9, <2>2, <3>2, <3>4, <4>1
      <4> QED BY <3>2, <4>1, <4>2
    <3> QED BY <3>3, <3>4
  <2> QED BY <2>1, <2>2
<1>10. \A x \in Inodes : ty2[x] = "lnk" => TypesOnDisk[x] = "lnk"
  BY <1>6 DEF DiskOK
<1>11. DiskOK(ds2, ty2)
  <2>1. \A x, e, o, k : NameOf(ds2, x, e, o, k) => x # RootIno /\ ty2[x] # "free"
    BY <1>8
  <2>2. \A x, e, o, k, f, q, j :
          NameOf(ds2, x, e, o, k) /\ NameOf(ds2, x, f, q, j) /\ ty2[x] = "dir"
          => e = f /\ o = q /\ k = j
    BY <1>9
  <2> QED BY <1>5, <1>6, <1>10, <2>1, <2>2 DEF DiskOK
<1>12. TypesStable(ty, ty2)
  BY <1>6 DEF TypesStable
<1>13. Len(ds2[d][name]) = Len(ds[d][name]) + 1
  BY <1>2, <1>3 DEF s
<1>14. \A e \in Inodes, o \in Names : <<e, o>> # <<d, name>> =>
          ds2[e][o] = ds[e][o] \/ ds2[e][o] = << >>
  <2> SUFFICES ASSUME NEW e \in Inodes, NEW o \in Names, <<e, o>> # <<d, name>>
               PROVE  ds2[e][o] = ds[e][o] \/ ds2[e][o] = << >>
    OBVIOUS
  <2>1. ds2[e][o] = IF e = i THEN << >> ELSE ds[e][o]
    BY <1>4
  <2> QED BY <2>1
<1> QED BY <1>11, <1>12, <1>13, <1>14

\* The directories and types after the first entry named so is removed.
Removal(ds, ty, d, name, i, ds2, ty2) ==
  /\ ds[d][name] # << >> /\ i = Head(ds[d][name])
  /\ ds2 = [ds EXCEPT ![d][name] = Tail(@)]
  /\ ty2 = IF ty[i] = "dir" THEN [ty EXCEPT ![i] = "free"] ELSE ty

\* ext2fs_unlink removes one entry, and with a directory's its inode.
LEMMA UnlinkEntries ==
  ASSUME NEW ds, NEW ty, DiskOK(ds, ty), NEW d \in Inodes, NEW name \in Names,
         NEW i, NEW ds2, NEW ty2, Removal(ds, ty, d, name, i, ds2, ty2)
  PROVE  /\ DiskOK(ds2, ty2) /\ TypesStable(ty, ty2)
         /\ \A e \in Inodes, o \in Names : Len(ds2[e][o]) <= Len(ds[e][o])
<1>0. /\ ds[d][name] # << >> /\ i = Head(ds[d][name])
      /\ ds2 = [ds EXCEPT ![d][name] = Tail(@)]
      /\ ty2 = IF ty[i] = "dir" THEN [ty EXCEPT ![i] = "free"] ELSE ty
  BY DEF Removal
<1> DEFINE s == ds[d][name]
<1>1. s \in Seq(Inodes) /\ s # << >>
  BY <1>0 DEF DiskOK
<1>2. /\ ds2[d][name] = Tail(s)
      /\ \A e \in Inodes, o \in Names : <<e, o>> # <<d, name>> => ds2[e][o] = ds[e][o]
  BY <1>0 DEF DiskOK
<1> HIDE DEF s
<1>3. /\ Tail(s) \in Seq(Inodes) /\ Len(Tail(s)) = Len(s) - 1 /\ Len(s) \in Nat \ {0}
      /\ \A k \in 1 .. Len(s) - 1 : Tail(s)[k] = s[k + 1]
      /\ Head(s) = s[1] /\ s[1] \in Inodes
  BY <1>1
<1>4. i \in Inodes /\ NameOf(ds, i, d, name, 1)
  BY <1>0, <1>3 DEF NameOf, s
<1>5. i # RootIno
  BY <1>4 DEF DiskOK
<1>6. ds2 \in [Inodes -> [Names -> Seq(Inodes)]]
  <2>1. ds2 = [ds EXCEPT ![d][name] = Tail(s)]
    BY <1>0 DEF s
  <2> QED BY <1>3, <2>1 DEF DiskOK
<1>7. /\ ty2 \in [Inodes -> Types] /\ ty2[RootIno] = "dir"
      /\ \A e \in Inodes : e # i \/ ty[i] # "dir" => ty2[e] = ty[e]
      /\ ty[i] = "dir" => ty2[i] = "free"
  BY <1>0, <1>4, <1>5 DEF DiskOK, Types
\* An entry stood there before.
<1> DEFINE Before(e, o, k) == IF <<e, o>> = <<d, name>> THEN k + 1 ELSE k
<1>8. ASSUME NEW x, NEW e, NEW o, NEW k, NameOf(ds2, x, e, o, k)
      PROVE  x \in Inodes /\ k \in Nat \ {0} /\ NameOf(ds, x, e, o, Before(e, o, k))
  <2>1. e \in Inodes /\ o \in Names /\ k \in 1 .. Len(ds2[e][o]) /\ ds2[e][o][k] = x
    BY <1>8 DEF NameOf
  <2>2. ds2[e][o] \in Seq(Inodes)
    BY <1>6, <2>1
  <2>3. x \in Inodes /\ k \in Nat \ {0}
    BY <2>1, <2>2
  <2>4. CASE <<e, o>> = <<d, name>>
    <3>1. k \in 1 .. Len(s) - 1 /\ Tail(s)[k] = x
      BY <1>2, <1>3, <2>1, <2>4
    <3>2. k + 1 \in 1 .. Len(s) /\ s[k + 1] = x
      BY <1>3, <3>1
    <3>3. NameOf(ds, x, e, o, k + 1)
      BY <2>1, <2>4, <3>2 DEF NameOf, s
    <3> QED BY <2>3, <2>4, <3>3
  <2>5. CASE <<e, o>> # <<d, name>>
    <3>1. NameOf(ds, x, e, o, k)
      BY <1>2, <2>1, <2>5 DEF NameOf
    <3> QED BY <2>3, <2>5, <3>1
  <2> QED BY <2>4, <2>5
<1>9. ASSUME NEW x, NEW e, NEW o, NEW k, NameOf(ds2, x, e, o, k)
      PROVE  x # RootIno /\ ty2[x] # "free"
  <2>1. x \in Inodes /\ k \in Nat \ {0} /\ NameOf(ds, x, e, o, Before(e, o, k))
    BY <1>8, <1>9
  <2>2. x # RootIno /\ ty[x] # "free"
    BY <2>1 DEF DiskOK
  <2>3. ASSUME x = i, ty[i] = "dir" PROVE FALSE
    <3>1. e = d /\ o = name /\ Before(e, o, k) = 1
      BY <1>4, <2>1, <2>3 DEF DiskOK
    <3>2. k + 1 = 1
      BY <3>1
    <3> QED BY <2>1, <3>2
  <2> QED BY <1>7, <2>1, <2>2, <2>3
<1>10. ASSUME NEW x, NEW e, NEW o, NEW k, NEW f, NEW q, NEW j,
              NameOf(ds2, x, e, o, k), NameOf(ds2, x, f, q, j), ty2[x] = "dir"
       PROVE  e = f /\ o = q /\ k = j
  <2>1. x \in Inodes /\ k \in Nat \ {0} /\ NameOf(ds, x, e, o, Before(e, o, k))
    BY <1>8, <1>10
  <2>2. x \in Inodes /\ j \in Nat \ {0} /\ NameOf(ds, x, f, q, Before(f, q, j))
    BY <1>8, <1>10
  <2>3. ty[x] = "dir"
    BY <1>7, <1>10, <2>1
  <2>4. e = f /\ o = q /\ Before(e, o, k) = Before(f, q, j)
    BY <2>1, <2>2, <2>3 DEF DiskOK
  <2> QED BY <2>1, <2>2, <2>4
<1>11. DiskOK(ds2, ty2)
  <2>1. \A x, e, o, k : NameOf(ds2, x, e, o, k) => x # RootIno /\ ty2[x] # "free"
    BY <1>9
  <2>2. \A x, e, o, k, f, q, j :
          NameOf(ds2, x, e, o, k) /\ NameOf(ds2, x, f, q, j) /\ ty2[x] = "dir"
          => e = f /\ o = q /\ k = j
    BY <1>10
  <2>3. \A x \in Inodes : ty2[x] = "lnk" => TypesOnDisk[x] = "lnk"
    BY <1>7 DEF DiskOK
  <2> QED BY <1>6, <1>7, <2>1, <2>2, <2>3 DEF DiskOK
<1>12. TypesStable(ty, ty2)
  BY <1>7 DEF TypesStable
<1>13. \A e \in Inodes, o \in Names : Len(ds2[e][o]) <= Len(ds[e][o])
  <2> SUFFICES ASSUME NEW e \in Inodes, NEW o \in Names
               PROVE  Len(ds2[e][o]) <= Len(ds[e][o])
    OBVIOUS
  <2>1. CASE <<e, o>> = <<d, name>>
    <3>1. Len(s) - 1 <= Len(s)
      BY <1>3
    <3>2. Len(ds2[e][o]) = Len(s) - 1 /\ ds[e][o] = s
      BY <1>2, <1>3, <2>1 DEF s
    <3> QED BY <3>1, <3>2
  <2>2. CASE <<e, o>> # <<d, name>>
    <3>1. ds2[e][o] = ds[e][o] /\ ds[e][o] \in Seq(Inodes)
      BY <1>2, <2>2 DEF DiskOK
    <3>2. Len(ds[e][o]) \in Nat
      BY <3>1
    <3> QED BY <3>1, <3>2
  <2> QED BY <2>1, <2>2
<1> QED BY <1>11, <1>12, <1>13

\* Nothing changes.
LEMMA DiskStays ==
  ASSUME NEW ds, NEW ty, DiskOK(ds, ty)
  PROVE  TypesStable(ty, ty)
BY DEF TypesStable

\* What a step may do to the disk.
DiskStep == DiskInv' /\ TypesStable(type, type')

\* fs_mknod.
LEMMA MknodStep ==
  ASSUME DiskInv, NEW cp \in Seq(Names), NEW self, NEW parent,
         NEW t \in {"reg", "dir", "chr", "sock"}, fs_mknod(cp, self, parent, t)
  PROVE  DiskStep
<1>1. CASE ~ MknodSucceeds(cp, self, parent)
  BY <1>1, DiskStays DEF fs_mknod, disk, DiskInv, DiskStep
<1>2. CASE MknodSucceeds(cp, self, parent)
  <2>1. PICK d : d = parent.file
    OBVIOUS
  <2>2. PICK name : name = Basename(cp)
    OBVIOUS
  <2>3. cp # << >> /\ d \in Inodes /\ type[d] = "dir"
    BY <1>2, <2>1 DEF MknodSucceeds, ParentRefused, FS_ISDIR, TypeOf
  <2>4. name \in Names
    <3>1. Len(cp) \in 1 .. Len(cp)
      BY <2>3
    <3> QED BY <2>2, <3>1 DEF Basename, Last
  <2>5. ext2fs_mknod(d, name, t)
    BY <1>2, <2>1, <2>2 DEF fs_mknod
  <2>6. PICK i \in Inodes, p \in 1 .. Len(dirs[d][name]) + 1 :
          /\ type[i] = "free"
          /\ type' = [type EXCEPT ![i] = t]
          /\ dirs' = [dirs EXCEPT ![d][name] = InsertAt(@, p, i), ![i] = [n \in Names |-> << >>]]
    BY <2>5 DEF ext2fs_mknod
  <2>7. PICK ds2 : ds2 = dirs'
    OBVIOUS
  <2>8. PICK ty2 : ty2 = type'
    OBVIOUS
  <2>9. DiskOK(ds2, ty2) /\ TypesStable(type, ty2)
    BY <2>3, <2>4, <2>6, <2>7, <2>8, MknodEntries DEF DiskInv
  <2> QED BY <2>7, <2>8, <2>9 DEF DiskStep, DiskInv
<1> QED BY <1>1, <1>2

\* fs_unlink, as far as the disk goes.
LEMMA UnlinkStep ==
  ASSUME DiskInv, NEW cp \in Seq(Names), NEW self, NEW parent, fs_unlink(cp, self, parent)
  PROVE  DiskStep
<1>1. CASE ~ UnlinkSucceeds(cp, self, parent)
  BY <1>1, DiskStays DEF fs_unlink, disk, DiskInv, DiskStep
<1>2. CASE UnlinkSucceeds(cp, self, parent)
  <2>1. PICK d : d = parent.file
    OBVIOUS
  <2>2. PICK name : name = Basename(cp)
    OBVIOUS
  <2>3. cp # << >> /\ d \in Inodes
    BY <1>2, <2>1 DEF UnlinkSucceeds, ParentRefused
  <2>4. name \in Names
    <3>1. Len(cp) \in 1 .. Len(cp)
      BY <2>3
    <3> QED BY <2>2, <3>1 DEF Basename, Last
  <2>5. ext2fs_unlink(d, name)
    BY <1>2, <2>1, <2>2 DEF fs_unlink
  <2>6. PICK i : i = Head(dirs[d][name])
    OBVIOUS
  <2>7. Removal(dirs, type, d, name, i, dirs', type')
    BY <2>5, <2>6 DEF ext2fs_unlink, Removal
  <2>8. PICK ds2 : ds2 = dirs'
    OBVIOUS
  <2>9. PICK ty2 : ty2 = type'
    OBVIOUS
  <2>10. DiskOK(ds2, ty2) /\ TypesStable(type, ty2)
    BY <2>3, <2>4, <2>6, <2>7, <2>8, <2>9, UnlinkEntries DEF DiskInv
  <2> QED BY <2>8, <2>9, <2>10 DEF DiskStep, DiskInv
<1> QED BY <1>1, <1>2

-----------------------------------------------------------------------------
(* Nodes.                                                                  *)

\* The disk image has no symbolic links.
NoLinks == \A i \in Inodes : TypesOnDisk[i] # "lnk"

LEMMA StillNoLinks ==
  ASSUME DiskInv, NoLinks PROVE NoLinkNow
BY DEF DiskInv, DiskOK, NoLinks, NoLinkNow

NodeRec == [file : Files, sz : Nat, refcount : Nat]
Heaps == [NodeIds -> NodeRec \cup {Free}]

\* Who has the nodes, own[n] being the owners of n.
Ownerships == [NodeIds -> SUBSET Nat]

\* A node that is live is counted, once for each owner at least; if the image
\* has no links it is counted once and has an owner.
Counted(nds, own, n) ==
  /\ IsFiniteSet(own[n])
  /\ own[n] # {} => nds[n] # Free /\ nds[n].refcount >= Cardinality(own[n])
  /\ nds[n] # Free => nds[n].refcount >= 1
  /\ NoLinks /\ nds[n] # Free => nds[n].refcount = 1 /\ own[n] # {}

HeapOK(nds, own) == nds \in Heaps /\ own \in Ownerships /\ \A n \in NodeIds : Counted(nds, own, n)

\* nds2 is nds but for node n.
Except(nds, n, nds2) == \A k \in NodeIds : k # n => nds2[k] = nds[k]

\* n is a block that holds no node.
Unused(nds, n) == n \in NodeIds /\ nds[n] = Free

LEMMA FreeIsNoNode == Free \notin NodeRec
BY VfsAssumption DEF NodeRec

\* kmalloc gives a block that holds no node.
LEMMA NewBlockUnused ==
  ASSUME NEW nds, \E n : Unused(nds, n)
  PROVE  Unused(nds, NewBlock(nds))
BY DEF Unused, NewBlock

\* An unused block has no owner.
LEMMA UnusedUnowned ==
  ASSUME NEW nds, NEW own, HeapOK(nds, own), NEW n, Unused(nds, n)
  PROVE  own[n] = {}
BY DEF HeapOK, Counted, Unused

\* The block b holds the node just opened for the walk r.
Fresh(nds, b, r, nds2) ==
  /\ Unused(nds, b) /\ nds2 \in Heaps /\ Except(nds, b, nds2)
  /\ nds2[b] # Free /\ nds2[b].file = r.file /\ nds2[b].refcount = r.opens

\* A walk that ended on a file.
Found(r) == r.file \in Files /\ r.opens \in Nat \ {0} /\ (NoLinks => r.opens = 1)

LEMMA EndedFound ==
  ASSUME DiskInv, NEW r, Ended(r), r.file # NoFile
  PROVE  Found(r) /\ TypeOf(r.file) # "free"
<1>1. Found(r)
  BY StillNoLinks DEF Ended, Reached, Walk, Found
<1>2. TypeOf(r.file) # "free"
  BY TreeAssumption DEF Ended, Reached, TypeOf
<1> QED BY <1>1, <1>2

\* A walk that found a file, for which a node is made.
LEMMA OpenedFresh ==
  ASSUME NEW nds \in Heaps, \E n : Unused(nds, n), NEW r, Found(r),
         r.file \notin StaticNodes, NEW sz \in [Inodes -> Nat]
  PROVE  Opened(nds, r) \in NodeIds /\ Fresh(nds, Opened(nds, r), r, WithOpened(nds, r, sz))
<1>1. PICK b : b = NewBlock(nds)
  OBVIOUS
<1>2. Unused(nds, b) /\ b \in NodeIds
  BY <1>1, NewBlockUnused DEF Unused
<1>3. PICK node : node = [file |-> r.file, sz |-> NodeSize(r.file, sz), refcount |-> r.opens]
  OBVIOUS
<1>4. r.file \in Files /\ r.opens \in Nat /\ r.file # NoFile
  BY TreeAssumption DEF Found
<1>5. NodeSize(r.file, sz) \in Nat
  BY <1>4, VfsAssumption DEF NodeSize
<1>6. node \in NodeRec
  BY <1>3, <1>4, <1>5 DEF NodeRec
<1>7. WithOpened(nds, r, sz) = [nds EXCEPT ![b] = node] /\ Opened(nds, r) = b
  BY <1>1, <1>3, <1>4 DEF WithOpened, Opened
<1>8. PICK nds2 : nds2 = [nds EXCEPT ![b] = node]
  OBVIOUS
<1>9. nds2 \in Heaps /\ nds2[b] = node /\ Except(nds, b, nds2)
  BY <1>2, <1>6, <1>8 DEF Heaps, Except
<1>10. node.file = r.file /\ node.refcount = r.opens
  BY <1>3
<1>11. Fresh(nds, b, r, nds2)
  BY <1>2, <1>6, <1>9, <1>10, FreeIsNoNode DEF Fresh
<1> QED BY <1>2, <1>7, <1>8, <1>11

\* A static node is opened without the heap, and so is nothing at all.
LEMMA OpenedStatic ==
  ASSUME NEW nds, NEW r, r.file \in StaticNodes \cup {NoFile}, NEW sz
  PROVE  /\ WithOpened(nds, r, sz) = nds
         /\ r.file \in StaticNodes => Opened(nds, r) = r.file
         /\ r.file \in StaticNodes => fs_close(nds, Opened(nds, r)) = nds
BY VfsAssumption, TreeAssumption DEF WithOpened, Opened, fs_close

\* Closing a node: its count goes down, and with the last one the node.
LEMMA Closed ==
  ASSUME NEW nds \in Heaps, NEW n \in NodeIds, nds[n] # Free, nds[n].refcount >= 1
  PROVE  /\ fs_close(nds, n) \in Heaps /\ Except(nds, n, fs_close(nds, n))
         /\ nds[n].refcount = 1 => fs_close(nds, n)[n] = Free
         /\ nds[n].refcount # 1 => /\ fs_close(nds, n)[n] # Free
                                   /\ fs_close(nds, n)[n].file = nds[n].file
                                   /\ fs_close(nds, n)[n].refcount = nds[n].refcount - 1
<1>1. nds[n] \in NodeRec /\ nds[n].refcount \in Nat
  BY DEF Heaps, NodeRec
<1>2. CASE nds[n].refcount = 1
  <2>1. fs_close(nds, n) = [nds EXCEPT ![n] = Free]
    BY <1>2 DEF fs_close
  <2> QED BY <1>2, <2>1 DEF Heaps, Except
<1>3. CASE nds[n].refcount # 1
  <2>1. fs_close(nds, n) = [nds EXCEPT ![n].refcount = @ - 1]
    BY <1>3 DEF fs_close
  <2>2. PICK node : node = [nds[n] EXCEPT !.refcount = @ - 1]
    OBVIOUS
  <2>3. node \in NodeRec /\ node.file = nds[n].file /\ node.refcount = nds[n].refcount - 1
    BY <1>1, <2>2 DEF NodeRec
  <2>4. fs_close(nds, n) = [nds EXCEPT ![n] = node]
    BY <2>1, <2>2 DEF Heaps
  <2> QED BY <1>3, <2>3, <2>4, FreeIsNoNode DEF Heaps, Except
<1> QED BY <1>2, <1>3

\* A node that was opened, and closed at once: the heap is as it was but for a
\* block nobody has, and without links it is exactly as it was.
Spared(nds, nds2) ==
  /\ nds2 \in Heaps
  /\ NoLinks => nds2 = nds
  /\ \E b : Unused(nds, b) /\ Except(nds, b, nds2) /\ (nds2[b] # Free => nds2[b].refcount >= 1)

LEMMA OpenedAndClosed ==
  ASSUME NEW nds \in Heaps, \E n : Unused(nds, n), NEW r, Found(r), NEW sz \in [Inodes -> Nat]
  PROVE  Spared(nds, fs_close(WithOpened(nds, r, sz), Opened(nds, r)))
<1>1. CASE r.file \in StaticNodes
  <2>1. fs_close(WithOpened(nds, r, sz), Opened(nds, r)) = nds
    BY <1>1, OpenedStatic
  <2>2. \E b : Unused(nds, b) /\ Except(nds, b, nds) /\ (nds[b] # Free => nds[b].refcount >= 1)
    BY DEF Unused, Except
  <2> QED BY <2>1, <2>2 DEF Spared
<1>2. CASE r.file \notin StaticNodes
  <2>1. PICK b : b = Opened(nds, r)
    OBVIOUS
  <2>2. PICK nds1 : nds1 = WithOpened(nds, r, sz)
    OBVIOUS
  <2>3. b \in NodeIds /\ Fresh(nds, b, r, nds1)
    BY <1>2, <2>1, <2>2, OpenedFresh
  <2>4. nds1 \in Heaps /\ nds1[b] # Free /\ nds1[b].refcount = r.opens
        /\ Unused(nds, b) /\ Except(nds, b, nds1)
    BY <2>3 DEF Fresh
  <2>5. r.opens >= 1 /\ r.opens \in Nat /\ (NoLinks => r.opens = 1)
    BY DEF Found
  <2>6. PICK nds2 : nds2 = fs_close(nds1, b)
    OBVIOUS
  <2>7. /\ nds2 \in Heaps /\ Except(nds1, b, nds2)
        /\ r.opens = 1 => nds2[b] = Free
        /\ r.opens # 1 => nds2[b] # Free /\ nds2[b].refcount = r.opens - 1
    BY <2>3, <2>4, <2>5, <2>6, Closed
  <2>8. Except(nds, b, nds2)
    BY <2>4, <2>7 DEF Except
  <2>9. nds2[b] # Free => nds2[b].refcount >= 1
    BY <2>5, <2>7
  <2>10. NoLinks => nds2 = nds
    <3>1. SUFFICES ASSUME NoLinks PROVE nds2 = nds
      OBVIOUS
    <3>2. \A k \in NodeIds : nds2[k] = nds[k]
      BY <2>4, <2>5, <2>7, <2>8, <3>1 DEF Except, Unused
    <3> QED BY <2>7, <3>2 DEF Heaps
  <2> QED BY <2>1, <2>2, <2>4, <2>6, <2>7, <2>8, <2>9, <2>10 DEF Spared
<1> QED BY <1>1, <1>2

LEMMA SparedKeeps ==
  ASSUME NEW nds, NEW own, HeapOK(nds, own), NEW nds2, Spared(nds, nds2)
  PROVE  HeapOK(nds2, own) /\ \A n \in NodeIds : own[n] # {} => nds2[n] = nds[n]
<1>1. PICK b : Unused(nds, b) /\ Except(nds, b, nds2) /\ (nds2[b] # Free => nds2[b].refcount >= 1)
  BY DEF Spared
<1>2. own[b] = {} /\ b \in NodeIds
  BY <1>1, UnusedUnowned DEF Unused
<1>3. \A n \in NodeIds : own[n] # {} => nds2[n] = nds[n]
  BY <1>1, <1>2 DEF Except
<1>4. ASSUME NEW n \in NodeIds PROVE Counted(nds2, own, n)
  <2>1. CASE n # b
    <3>1. nds2[n] = nds[n]
      BY <1>1, <2>1 DEF Except
    <3> QED BY <3>1 DEF HeapOK, Counted
  <2>2. CASE n = b
    <3>1. IsFiniteSet(own[n])
      BY DEF HeapOK, Counted
    <3>2. NoLinks => nds2[n] = Free
      BY <1>1, <2>2 DEF Spared, Unused
    <3> QED BY <1>1, <1>2, <2>2, <3>1, <3>2 DEF Counted
  <2> QED BY <2>1, <2>2
<1> QED BY <1>3, <1>4 DEF HeapOK, Spared

\* An owner of a fresh node.
LEMMA FreshOwned ==
  ASSUME NEW nds, NEW own, HeapOK(nds, own), NEW b, NEW r, NEW nds2, Fresh(nds, b, r, nds2), Found(r),
         NEW x \in Nat, NEW own2 \in Ownerships, own2[b] = {x}, Except(own, b, own2)
  PROVE  HeapOK(nds2, own2)
<1>1. b \in NodeIds /\ nds2 \in Heaps
  BY DEF Fresh, Unused
<1>2. ASSUME NEW n \in NodeIds PROVE Counted(nds2, own2, n)
  <2>1. CASE n # b
    <3>1. nds2[n] = nds[n] /\ own2[n] = own[n]
      BY <2>1 DEF Except, Fresh
    <3> QED BY <3>1 DEF HeapOK, Counted
  <2>2. CASE n = b
    <3>1. IsFiniteSet({x}) /\ Cardinality({x}) = 1
      BY FS_Singleton
    <3>2. nds2[n] # Free /\ nds2[n].refcount = r.opens
      BY <2>2 DEF Fresh
    <3> QED BY <2>2, <3>1, <3>2 DEF Counted, Found
  <2> QED BY <2>1, <2>2
<1> QED BY <1>1, <1>2 DEF HeapOK

\* A node loses an owner and is closed.
LEMMA OwnerLeaves ==
  ASSUME NEW nds, NEW own, HeapOK(nds, own), NEW n \in NodeIds, NEW x \in own[n],
         NEW own2 \in Ownerships, own2[n] = own[n] \ {x}, Except(own, n, own2)
  PROVE  /\ HeapOK(fs_close(nds, n), own2) /\ Except(nds, n, fs_close(nds, n))
         /\ own2[n] # {} => fs_close(nds, n)[n].file = nds[n].file
<1>1. /\ nds \in Heaps /\ IsFiniteSet(own[n]) /\ nds[n] # Free
      /\ nds[n].refcount >= Cardinality(own[n]) /\ nds[n].refcount >= 1
      /\ NoLinks => nds[n].refcount = 1
  BY DEF HeapOK, Counted
<1>2. nds[n].refcount \in Nat
  BY <1>1, FreeIsNoNode DEF Heaps, NodeRec
<1>3. PICK nds2 : nds2 = fs_close(nds, n)
  OBVIOUS
<1>4. /\ nds2 \in Heaps /\ Except(nds, n, nds2)
      /\ nds[n].refcount = 1 => nds2[n] = Free
      /\ nds[n].refcount # 1 => /\ nds2[n] # Free /\ nds2[n].file = nds[n].file
                                /\ nds2[n].refcount = nds[n].refcount - 1
  BY <1>1, <1>3, Closed
<1>5. /\ Cardinality(own[n]) \in Nat /\ Cardinality(own2[n]) = Cardinality(own[n]) - 1
      /\ IsFiniteSet(own2[n]) /\ Cardinality(own2[n]) \in Nat
  BY <1>1, FS_RemoveElement, FS_CardinalityType
<1>6. own2[n] # {} => Cardinality(own2[n]) >= 1
  BY <1>5, FS_EmptySet
<1>7. own2[n] # {} => nds[n].refcount # 1
  BY <1>1, <1>2, <1>5, <1>6
<1>8. ASSUME NEW k \in NodeIds PROVE Counted(nds2, own2, k)
  <2>1. CASE k # n
    <3>1. nds2[k] = nds[k] /\ own2[k] = own[k]
      BY <1>4, <2>1 DEF Except
    <3> QED BY <3>1 DEF HeapOK, Counted
  <2>2. CASE k = n /\ nds[n].refcount = 1
    <3>1. nds2[n] = Free /\ own2[n] = {}
      BY <1>4, <1>7, <2>2
    <3> QED BY <1>5, <2>2, <3>1 DEF Counted
  <2>3. CASE k = n /\ nds[n].refcount # 1
    <3>1. nds2[n].refcount = nds[n].refcount - 1 /\ ~ NoLinks
      BY <1>1, <1>4, <2>3
    <3>2. nds2[n].refcount >= 1 /\ nds2[n].refcount >= Cardinality(own2[n])
      BY <1>1, <1>2, <1>5, <2>3, <3>1
    <3> QED BY <1>4, <1>5, <2>3, <3>1, <3>2 DEF Counted
  <2> QED BY <2>1, <2>2, <2>3
<1>9. HeapOK(nds2, own2)
  BY <1>4, <1>8 DEF HeapOK
<1> QED BY <1>3, <1>4, <1>7, <1>9


LEMMA KopenFormula ==
  DiskInv => \A cp \in Seq(Names) : \A flags : Ended(kopen(cp, flags))
BY KopenEnds

LEMMA EndedFormula ==
  DiskInv => \A r : Ended(r) /\ r.file # NoFile => Found(r) /\ TypeOf(r.file) # "free"
BY EndedFound

\* The same after a step.
LEMMA KopenPrimed ==
  (DiskInv => \A cp \in Seq(Names) : \A flags : Ended(kopen(cp, flags)))'
BY KopenFormula, PTL

LEMMA EndedPrimed ==
  (DiskInv => \A r : Ended(r) /\ r.file # NoFile => Found(r) /\ TypeOf(r.file) # "free")'
BY EndedFormula, PTL

-----------------------------------------------------------------------------
(* The descriptors and the working directory.                              *)

Handles == NodeIds \cup StaticNodes \cup {NULL}
Entry == [node : Handles, mode : Mode, off : Nat]

\* Owners, for a table f and a working directory w.
OwnersOf(f, w, n) == {fd \in 1 .. Len(f) : f[fd].node = n} \cup (IF w = n THEN {0} ELSE {})
OwnOf(f, w) == [n \in NodeIds |-> OwnersOf(f, w, n)]

\* TypeOf, for types ty.
KindOf(ty, f) ==
  IF f \in Inodes THEN ty[f] ELSE IF f \in DOMAIN DeviceType THEN DeviceType[f] ELSE "none"

WritersOf(f, nds, ty) ==
  \A fd \in 1 .. Len(f) :
    f[fd].node \in NodeIds /\ "W_OK" \in f[fd].mode => KindOf(ty, nds[f[fd].node].file) \notin {"free", "dir"}

\* The nodes are counted, and who may write has a file.
HeldOK(f, w, nds, ty) ==
  /\ f \in Seq(Entry) /\ w \in Handles
  /\ HeapOK(nds, OwnOf(f, w))
  /\ WritersOf(f, nds, ty)

LEMMA OwnershipsOf ==
  ASSUME NEW f \in Seq(Entry), NEW w
  PROVE  /\ OwnOf(f, w) \in Ownerships
         /\ \A n \in NodeIds, fd \in 1 .. Len(f) : fd \in OwnOf(f, w)[n] <=> f[fd].node = n
         /\ \A n \in NodeIds : 0 \in OwnOf(f, w)[n] <=> w = n
         /\ \A n \in NodeIds : \A x \in OwnOf(f, w)[n] : x = 0 \/ x \in 1 .. Len(f)
<1>1. Len(f) \in Nat
  OBVIOUS
<1>2. \A n \in NodeIds : OwnOf(f, w)[n] = {fd \in 1 .. Len(f) : f[fd].node = n} \cup (IF w = n THEN {0} ELSE {})
  BY DEF OwnOf, OwnersOf
<1>3. \A n \in NodeIds : OwnOf(f, w)[n] \in SUBSET Nat
  BY <1>1, <1>2
<1> QED BY <1>1, <1>2, <1>3 DEF OwnOf, Ownerships

LEMMA StableKind ==
  ASSUME NEW ty, NEW ty2, TypesStable(ty, ty2), NEW f, KindOf(ty, f) \notin {"free", "dir"}
  PROVE  KindOf(ty2, f) = KindOf(ty, f)
BY DEF TypesStable, KindOf

\* A call that leaves the table alone.
LEMMA HeldSpared ==
  ASSUME NEW f, NEW w, NEW nds, NEW ty, HeldOK(f, w, nds, ty),
         NEW nds2, Spared(nds, nds2), NEW ty2, TypesStable(ty, ty2)
  PROVE  HeldOK(f, w, nds2, ty2)
<1>1. PICK own : own = OwnOf(f, w)
  OBVIOUS
<1>2. HeapOK(nds, own) /\ f \in Seq(Entry)
  BY <1>1 DEF HeldOK
<1>3. HeapOK(nds2, own) /\ \A n \in NodeIds : own[n] # {} => nds2[n] = nds[n]
  BY <1>2, SparedKeeps
<1>4. ASSUME NEW fd \in 1 .. Len(f), f[fd].node \in NodeIds, "W_OK" \in f[fd].mode
      PROVE  KindOf(ty2, nds2[f[fd].node].file) \notin {"free", "dir"}
  <2>1. PICK n \in NodeIds : n = f[fd].node
    BY <1>4
  <2>2. fd \in own[n]
    BY <1>1, <1>2, <2>1, OwnershipsOf
  <2>3. nds2[n] = nds[n]
    BY <1>3, <2>2
  <2>4. KindOf(ty, nds[n].file) \notin {"free", "dir"}
    BY <1>4, <2>1 DEF HeldOK, WritersOf
  <2> QED BY <2>1, <2>3, <2>4, StableKind
<1>5. WritersOf(f, nds2, ty2)
  BY <1>4 DEF WritersOf
<1> QED BY <1>1, <1>3, <1>5 DEF HeldOK

\* Only offsets change.
LEMMA HeldMoved ==
  ASSUME NEW f, NEW w, NEW nds, NEW ty, HeldOK(f, w, nds, ty),
         NEW f2 \in Seq(Entry), Len(f2) = Len(f),
         \A fd \in 1 .. Len(f) : f2[fd].node = f[fd].node /\ f2[fd].mode = f[fd].mode
  PROVE  HeldOK(f2, w, nds, ty)
<1>1. \A n \in NodeIds : OwnersOf(f2, w, n) = OwnersOf(f, w, n)
  BY DEF OwnersOf
<1>2. OwnOf(f2, w) = OwnOf(f, w)
  BY <1>1 DEF OwnOf
<1>3. WritersOf(f2, nds, ty)
  BY DEF HeldOK, WritersOf
<1> QED BY <1>2, <1>3 DEF HeldOK

\* f2 is the table f with d as its first entry that was not in use.
AddedAt(f, pos, d, f2) ==
  /\ f2 \in Seq(Entry) /\ Len(f2) >= Len(f) /\ pos \in 1 .. Len(f2) /\ f2[pos] = d
  /\ pos \in 1 .. Len(f) => f[pos].node = NULL
  /\ \A k \in 1 .. Len(f2) : k # pos => k \in 1 .. Len(f) /\ f2[k] = f[k]
  /\ \A k \in 1 .. pos - 1 : k \in 1 .. Len(f) /\ f[k].node # NULL

\* An entry for a static node.
LEMMA HeldAddedStatic ==
  ASSUME NEW f, NEW w, NEW nds, NEW ty, HeldOK(f, w, nds, ty),
         NEW pos, NEW d, NEW f2, AddedAt(f, pos, d, f2), d.node \in StaticNodes
  PROVE  HeldOK(f2, w, nds, ty)
<1>1. f \in Seq(Entry) /\ f2 \in Seq(Entry) /\ Len(f) \in Nat /\ Len(f2) \in Nat /\ Len(f2) >= Len(f)
  BY DEF HeldOK, AddedAt
<1>2. d.node \notin NodeIds /\ NULL \notin NodeIds
  BY VfsAssumption
<1>3. ASSUME NEW n \in NodeIds PROVE OwnersOf(f2, w, n) = OwnersOf(f, w, n)
  <2>1. \A k \in 1 .. Len(f2) : f2[k].node = n => k \in 1 .. Len(f) /\ f[k].node = n
    BY <1>2 DEF AddedAt
  <2>2. \A k \in 1 .. Len(f) : f[k].node = n => k \in 1 .. Len(f2) /\ f2[k].node = n
    <3> SUFFICES ASSUME NEW k \in 1 .. Len(f), f[k].node = n PROVE k \in 1 .. Len(f2) /\ f2[k].node = n
      OBVIOUS
    <3>1. k \in 1 .. Len(f2)
      BY <1>1
    <3>2. k # pos
      BY <1>2 DEF AddedAt
    <3> QED BY <3>1, <3>2 DEF AddedAt
  <2> QED BY <2>1, <2>2 DEF OwnersOf
<1>4. OwnOf(f2, w) = OwnOf(f, w)
  BY <1>3 DEF OwnOf
<1>5. WritersOf(f2, nds, ty)
  BY <1>2 DEF HeldOK, WritersOf, AddedAt
<1> QED BY <1>1, <1>4, <1>5 DEF HeldOK

\* An entry for a node that was just made.
LEMMA HeldAddedFresh ==
  ASSUME NEW f, NEW w, NEW nds, NEW ty, HeldOK(f, w, nds, ty),
         NEW pos, NEW d, NEW f2, AddedAt(f, pos, d, f2),
         NEW r, Found(r), NEW nds2, Fresh(nds, d.node, r, nds2),
         "W_OK" \in d.mode => KindOf(ty, r.file) \notin {"free", "dir"}
  PROVE  HeldOK(f2, w, nds2, ty)
<1>1. f \in Seq(Entry) /\ f2 \in Seq(Entry) /\ Len(f) \in Nat /\ Len(f2) \in Nat /\ Len(f2) >= Len(f)
  BY DEF HeldOK, AddedAt
<1>2. PICK b : b = d.node
  OBVIOUS
<1>3. b \in NodeIds /\ Unused(nds, b) /\ b # NULL /\ Except(nds, b, nds2) /\ nds2[b].file = r.file
  BY <1>2, VfsAssumption DEF Fresh, Unused
<1>4. PICK own : own = OwnOf(f, w)
  OBVIOUS
<1>5. PICK own2 : own2 = OwnOf(f2, w)
  OBVIOUS
<1>6. HeapOK(nds, own) /\ own \in Ownerships /\ own2 \in Ownerships
  BY <1>1, <1>4, <1>5, OwnershipsOf DEF HeldOK
<1>7. own[b] = {}
  BY <1>3, <1>6, UnusedUnowned
<1>8. pos \in 1 .. Len(f2) /\ pos \in Nat /\ f2[pos].node = b
  BY <1>1, <1>2 DEF AddedAt
<1>9. own2[b] = {pos}
  <2>1. pos \in own2[b]
    BY <1>1, <1>3, <1>5, <1>8, OwnershipsOf
  <2>2. ASSUME NEW x \in own2[b] PROVE x = pos
    <3>1. CASE x = 0
      <4>1. 0 \in own[b]
        BY <1>1, <1>3, <1>4, <1>5, <2>2, <3>1, OwnershipsOf
      <4> QED BY <1>7, <4>1
    <3>2. CASE x \in 1 .. Len(f2) /\ x # pos
      <4>1. f2[x].node = b
        BY <1>1, <1>3, <1>5, <2>2, <3>2, OwnershipsOf
      <4>2. x \in 1 .. Len(f) /\ f[x].node = b
        BY <3>2, <4>1 DEF AddedAt
      <4>3. x \in own[b]
        BY <1>1, <1>3, <1>4, <4>2, OwnershipsOf
      <4> QED BY <1>7, <4>3
    <3>3. x = 0 \/ x \in 1 .. Len(f2)
      BY <1>1, <1>3, <1>5, <2>2, OwnershipsOf
    <3> QED BY <3>1, <3>2, <3>3
  <2> QED BY <2>1, <2>2
<1>10. ASSUME NEW n \in NodeIds, n # b PROVE own2[n] = own[n]
  <2>1. \A k \in 1 .. Len(f2) : f2[k].node = n => k \in 1 .. Len(f) /\ f[k].node = n
    BY <1>8, <1>10 DEF AddedAt
  <2>2. \A k \in 1 .. Len(f) : f[k].node = n => k \in 1 .. Len(f2) /\ f2[k].node = n
    <3> SUFFICES ASSUME NEW k \in 1 .. Len(f), f[k].node = n PROVE k \in 1 .. Len(f2) /\ f2[k].node = n
      OBVIOUS
    <3>1. k \in 1 .. Len(f2)
      BY <1>1
    <3>2. k # pos
      BY VfsAssumption DEF AddedAt
    <3> QED BY <3>1, <3>2 DEF AddedAt
  <2> QED BY <1>4, <1>5, <2>1, <2>2 DEF OwnersOf, OwnOf
<1>11. HeapOK(nds2, own2)
  <2>1. Fresh(nds, b, r, nds2)
    BY <1>2
  <2>2. Except(own, b, own2)
    BY <1>10 DEF Except
  <2> QED BY <1>6, <1>8, <1>9, <2>1, <2>2, FreshOwned
<1>12. ASSUME NEW fd \in 1 .. Len(f2), f2[fd].node \in NodeIds, "W_OK" \in f2[fd].mode
       PROVE  KindOf(ty, nds2[f2[fd].node].file) \notin {"free", "dir"}
  <2>1. CASE fd = pos
    <3>1. f2[fd] = d
      BY <2>1 DEF AddedAt
    <3> QED BY <1>2, <1>3, <1>12, <3>1
  <2>2. CASE fd # pos
    <3>1. fd \in 1 .. Len(f) /\ f2[fd] = f[fd]
      BY <2>2 DEF AddedAt
    <3>2. PICK n \in NodeIds : n = f[fd].node
      BY <1>12, <3>1
    <3>3. n # b
      <4>1. fd \in own[n]
        BY <1>1, <1>4, <3>1, <3>2, OwnershipsOf
      <4> QED BY <1>7, <4>1
    <3>4. nds2[n] = nds[n]
      BY <1>3, <3>3 DEF Except
    <3>5. KindOf(ty, nds[n].file) \notin {"free", "dir"}
      BY <1>12, <3>1, <3>2 DEF HeldOK, WritersOf
    <3> QED BY <3>1, <3>2, <3>4, <3>5
  <2> QED BY <2>1, <2>2
<1>13. WritersOf(f2, nds2, ty)
  BY <1>12 DEF WritersOf
<1> QED BY <1>1, <1>5, <1>11, <1>13 DEF HeldOK

\* The entry of a closed descriptor.
ClosedEntry == [node |-> NULL, mode |-> {}, off |-> 0]

\* f2 is f without descriptor fd.
RemovedAt(f, fd, f2) ==
  /\ f2 \in Seq(Entry) /\ Len(f2) = Len(f) /\ fd \in 1 .. Len(f)
  /\ f2[fd].node = NULL /\ f2[fd].mode = {}
  /\ \A k \in 1 .. Len(f) : k # fd => f2[k] = f[k]

\* A descriptor of a static node goes.
LEMMA HeldRemovedStatic ==
  ASSUME NEW f, NEW w, NEW nds, NEW ty, HeldOK(f, w, nds, ty),
         NEW fd, NEW f2, RemovedAt(f, fd, f2), f[fd].node \notin NodeIds
  PROVE  HeldOK(f2, w, nds, ty)
<1>1. NULL \notin NodeIds
  BY VfsAssumption
<1>2. ASSUME NEW n \in NodeIds PROVE OwnersOf(f2, w, n) = OwnersOf(f, w, n)
  <2>1. \A k \in 1 .. Len(f) : f2[k].node = n <=> f[k].node = n
    BY <1>1 DEF RemovedAt
  <2> QED BY <2>1 DEF OwnersOf, RemovedAt
<1>3. OwnOf(f2, w) = OwnOf(f, w)
  BY <1>2 DEF OwnOf
<1>4. WritersOf(f2, nds, ty)
  BY <1>1 DEF HeldOK, WritersOf, RemovedAt
<1> QED BY <1>3, <1>4 DEF HeldOK, RemovedAt

\* A descriptor goes, and its node is closed.
LEMMA HeldRemoved ==
  ASSUME NEW f, NEW w, NEW nds, NEW ty, HeldOK(f, w, nds, ty),
         NEW fd, NEW f2, RemovedAt(f, fd, f2), NEW n \in NodeIds, f[fd].node = n
  PROVE  HeldOK(f2, w, fs_close(nds, n), ty)
<1>1. f \in Seq(Entry) /\ f2 \in Seq(Entry) /\ Len(f) \in Nat /\ Len(f2) = Len(f) /\ fd \in 1 .. Len(f)
  BY DEF HeldOK, RemovedAt
<1>2. PICK own : own = OwnOf(f, w)
  OBVIOUS
<1>3. PICK own2 : own2 = OwnOf(f2, w)
  OBVIOUS
<1>4. HeapOK(nds, own) /\ own2 \in Ownerships /\ fd \in own[n]
  BY <1>1, <1>2, <1>3, OwnershipsOf DEF HeldOK
<1>5. n # NULL /\ fd # 0 /\ fd \in Nat
  BY <1>1, VfsAssumption
<1>6. \A m \in NodeIds : /\ own2[m] = OwnersOf(f2, w, m)
                         /\ own[m] = OwnersOf(f, w, m)
  BY <1>2, <1>3 DEF OwnOf
<1>7. own2[n] = own[n] \ {fd}
  <2>1. {k \in 1 .. Len(f2) : f2[k].node = n} = {k \in 1 .. Len(f) : f[k].node = n} \ {fd}
    BY <1>1, <1>5 DEF RemovedAt
  <2> QED BY <1>5, <1>6, <2>1 DEF OwnersOf
<1>8. Except(own, n, own2)
  <2> SUFFICES ASSUME NEW m \in NodeIds, m # n PROVE own2[m] = own[m]
    BY DEF Except
  <2>1. m # NULL
    BY VfsAssumption
  <2>2. {k \in 1 .. Len(f2) : f2[k].node = m} = {k \in 1 .. Len(f) : f[k].node = m}
    BY <1>1, <2>1 DEF RemovedAt
  <2> QED BY <1>6, <2>2 DEF OwnersOf
<1>9. PICK nds2 : nds2 = fs_close(nds, n)
  OBVIOUS
<1>10. HeapOK(nds2, own2) /\ Except(nds, n, nds2) /\ (own2[n] # {} => nds2[n].file = nds[n].file)
  BY <1>4, <1>7, <1>8, <1>9, OwnerLeaves
<1>11. ASSUME NEW k \in 1 .. Len(f2), f2[k].node \in NodeIds, "W_OK" \in f2[k].mode
       PROVE  KindOf(ty, nds2[f2[k].node].file) \notin {"free", "dir"}
  <2>1. k # fd /\ f2[k] = f[k]
    BY <1>1, <1>11 DEF RemovedAt
  <2>2. PICK m \in NodeIds : m = f2[k].node
    BY <1>11
  <2>3. k \in own2[m]
    BY <1>1, <1>3, <2>2, OwnershipsOf
  <2>4. nds2[m].file = nds[m].file
    BY <1>10, <2>3 DEF Except
  <2>5. KindOf(ty, nds[m].file) \notin {"free", "dir"}
    BY <1>1, <1>11, <2>1, <2>2 DEF HeldOK, WritersOf
  <2> QED BY <2>2, <2>4, <2>5
<1>12. WritersOf(f2, nds2, ty)
  BY <1>11 DEF WritersOf
<1> QED BY <1>1, <1>3, <1>9, <1>10, <1>12 DEF HeldOK

\* The working directory moves: its new node is opened, if it is not static,
\* and the old one closed.
LEMMA HeldMovedDirectory ==
  ASSUME NEW f, NEW w, NEW nds, NEW ty, HeldOK(f, w, nds, ty),
         NEW w2, NEW nds1,
         \/ w2 \in StaticNodes /\ nds1 = nds
         \/ w2 \in NodeIds /\ \E r : Found(r) /\ Fresh(nds, w2, r, nds1)
  PROVE  HeldOK(f, w2, fs_close(nds1, w), ty)
<1>1. f \in Seq(Entry) /\ Len(f) \in Nat /\ w \in Handles
  BY DEF HeldOK
<1>2. PICK own : own = OwnOf(f, w)
  OBVIOUS
<1>3. PICK own2 : own2 = OwnOf(f, w2)
  OBVIOUS
<1>4. HeapOK(nds, own) /\ own \in Ownerships /\ own2 \in Ownerships
  BY <1>1, <1>2, <1>3, OwnershipsOf DEF HeldOK
<1>5. PICK own1 : own1 = [n \in NodeIds |-> IF n = w2 THEN own[n] \cup {0} ELSE own[n]]
  OBVIOUS
<1>6. own1 \in Ownerships
  BY <1>4, <1>5 DEF Ownerships
<1>7. /\ \A n \in NodeIds : own[n] # {} => nds1[n] = nds[n] /\ (n # w2 \/ w2 \notin NodeIds)
      /\ HeapOK(nds1, own1)
  <2>1. CASE w2 \in StaticNodes /\ nds1 = nds
    <3>1. w2 \notin NodeIds
      BY <2>1, VfsAssumption
    <3>2. own1 = own
      BY <1>4, <1>5, <3>1 DEF Ownerships
    <3> QED BY <1>4, <2>1, <3>1, <3>2
  <2>2. CASE w2 \in NodeIds /\ \E r : Found(r) /\ Fresh(nds, w2, r, nds1)
    <3>1. PICK r : Found(r) /\ Fresh(nds, w2, r, nds1)
      BY <2>2
    <3>2. Unused(nds, w2) /\ Except(nds, w2, nds1)
      BY <3>1 DEF Fresh
    <3>3. own[w2] = {}
      BY <1>4, <3>2, UnusedUnowned
    <3>4. own1[w2] = {0} /\ Except(own, w2, own1)
      BY <1>5, <2>2, <3>3 DEF Except
    <3>5. HeapOK(nds1, own1)
      <4>1. 0 \in Nat
        OBVIOUS
      <4> QED BY <1>4, <1>6, <3>1, <3>4, <4>1, FreshOwned
    <3> QED BY <3>2, <3>3, <3>5 DEF Except
  <2> QED BY <2>1, <2>2
<1>8. \A n \in NodeIds : own2[n] = {k \in 1 .. Len(f) : f[k].node = n} \cup (IF w2 = n THEN {0} ELSE {})
  BY <1>3 DEF OwnOf, OwnersOf
<1>9. \A n \in NodeIds : own[n] = {k \in 1 .. Len(f) : f[k].node = n} \cup (IF w = n THEN {0} ELSE {})
  BY <1>2 DEF OwnOf, OwnersOf
<1>10. PICK nds2 : nds2 = fs_close(nds1, w)
  OBVIOUS
<1>11. /\ HeapOK(nds2, own2)
       /\ \A n \in NodeIds, k \in 1 .. Len(f) : f[k].node = n => nds2[n].file = nds[n].file
  <2>0. 0 \notin 1 .. Len(f)
    OBVIOUS
  <2>1. CASE w \notin NodeIds
    <3>1. nds2 = nds1
      BY <1>10, <2>1 DEF fs_close
    <3>2. \A n \in NodeIds : own2[n] = own1[n]
      BY <1>5, <1>8, <1>9, <2>1
    <3>3. own2 = own1
      BY <1>4, <1>6, <3>2 DEF Ownerships
    <3>4. \A n \in NodeIds, k \in 1 .. Len(f) : f[k].node = n => own[n] # {}
      BY <1>9
    <3> QED BY <1>7, <3>1, <3>3, <3>4
  <2>2. CASE w \in NodeIds
    <3>1. 0 \in own[w] /\ w # w2
      <4>1. 0 \in own[w]
        BY <1>9, <2>2
      <4> QED BY <1>7, <2>2, <4>1
    <3>2. 0 \in own1[w]
      BY <1>5, <2>2, <3>1
    <3>3. own2[w] = own1[w] \ {0}
      BY <1>5, <1>8, <1>9, <2>0, <2>2, <3>1
    <3>4. Except(own1, w, own2)
      <4> SUFFICES ASSUME NEW n \in NodeIds, n # w PROVE own2[n] = own1[n]
        BY DEF Except
      <4>1. CASE n = w2
        BY <1>5, <1>8, <1>9, <4>1
      <4>2. CASE n # w2
        BY <1>5, <1>8, <1>9, <4>2
      <4> QED BY <4>1, <4>2
    <3>5. HeapOK(nds2, own2) /\ Except(nds1, w, nds2) /\ (own2[w] # {} => nds2[w].file = nds1[w].file)
      BY <1>4, <1>7, <1>10, <2>2, <3>2, <3>3, <3>4, OwnerLeaves
    <3>6. ASSUME NEW n \in NodeIds, NEW k \in 1 .. Len(f), f[k].node = n
          PROVE  nds2[n].file = nds[n].file
      <4>1. k \in own[n] /\ k \in own2[n]
        BY <1>8, <1>9, <3>6
      <4>2. nds1[n] = nds[n]
        BY <1>7, <4>1
      <4>3. nds2[n].file = nds1[n].file
        BY <3>5, <4>1 DEF Except
      <4> QED BY <4>2, <4>3
    <3> QED BY <3>5, <3>6
  <2> QED BY <2>1, <2>2
<1>12. WritersOf(f, nds2, ty)
  BY <1>11 DEF HeldOK, WritersOf
<1>13. w2 \in Handles
  BY DEF Handles
<1> QED BY <1>1, <1>3, <1>10, <1>11, <1>12, <1>13 DEF HeldOK

-----------------------------------------------------------------------------
(* The system calls.                                                       *)

\* The inductive invariant.
VfsInv ==
  /\ DiskInv
  /\ size \in [Inodes -> Nat]
  /\ wd_path \in Seq(Names)
  /\ HeldOK(fds, wd_node, nodes, type)

\* Whether a descriptor of the table f is in use.
UsedIn(f, fd) == fd \in 1 .. Len(f) /\ f[fd].node # NULL

\* f2 is f but for a descriptor that was in use.
ChangedAt(f, fd, f2) ==
  Len(f2) = Len(f) /\ UsedIn(f, fd) /\ \A k \in 1 .. Len(f) : k # fd => f2[k] = f[k]

\* What a call does to the descriptors.
TableStep(f, f2) ==
  \/ f2 = f
  \/ \E pos, d : AddedAt(f, pos, d, f2)
  \/ \E fd : ChangedAt(f, fd, f2)

\* process_add_fd fills the first gap, or appends.
LEMMA AddFd ==
  ASSUME fds \in Seq(Entry), NEW d \in Entry, process_add_fd(d)
  PROVE  \E pos : AddedAt(fds, pos, d, fds')
<1>1. Len(fds) \in Nat
  OBVIOUS
<1>2. CASE Gaps # {}
  <2>1. Gaps \subseteq Nat /\ Gaps \subseteq 1 .. Len(fds)
    BY <1>1 DEF Gaps
  <2>2. PICK m \in Gaps : \A k \in Gaps : m <= k
    BY <1>2, <2>1, LeastElement
  <2>3. PICK pos : pos = Min(Gaps)
    OBVIOUS
  <2>4. pos \in Gaps /\ \A k \in Gaps : pos <= k
    BY <2>2, <2>3 DEF Min
  <2>5. PICK f2 : f2 = [fds EXCEPT ![pos] = d]
    OBVIOUS
  <2>6. fds' = f2
    BY <1>2, <2>3, <2>5 DEF process_add_fd
  <2>7. pos \in 1 .. Len(fds) /\ fds[pos].node = NULL
    BY <2>4 DEF Gaps
  <2>8. f2 \in Seq(Entry) /\ Len(f2) = Len(fds) /\ f2[pos] = d
        /\ \A k \in 1 .. Len(fds) : k # pos => f2[k] = fds[k]
    BY <2>5, <2>7
  <2>9. \A k \in 1 .. pos - 1 : k \in 1 .. Len(fds) /\ fds[k].node # NULL
    <3> SUFFICES ASSUME NEW k \in 1 .. pos - 1 PROVE k \in 1 .. Len(fds) /\ fds[k].node # NULL
      OBVIOUS
    <3>1. k \in 1 .. Len(fds) /\ k < pos
      BY <1>1, <2>7
    <3>2. k \notin Gaps
      BY <2>4, <2>7, <3>1
    <3> QED BY <3>1, <3>2 DEF Gaps
  <2>10. AddedAt(fds, pos, d, f2)
    BY <1>1, <2>7, <2>8, <2>9 DEF AddedAt
  <2> QED BY <2>6, <2>10
<1>3. CASE Gaps = {}
  <2>1. PICK f2 : f2 = Append(fds, d)
    OBVIOUS
  <2>2. fds' = f2
    BY <1>3, <2>1 DEF process_add_fd
  <2>3. PICK pos : pos = Len(fds) + 1
    OBVIOUS
  <2>4. f2 \in Seq(Entry) /\ Len(f2) = pos /\ f2[pos] = d /\ \A k \in 1 .. Len(fds) : f2[k] = fds[k]
    BY <2>1, <2>3
  <2>5. \A k \in 1 .. Len(fds) : fds[k].node # NULL
    BY <1>3 DEF Gaps
  <2>6. pos \in 1 .. pos /\ pos \notin 1 .. Len(fds) /\ pos - 1 = Len(fds)
    BY <1>1, <2>3
  <2>7. \A k \in 1 .. pos : k # pos => k \in 1 .. Len(fds)
    BY <1>1, <2>3
  <2>8. AddedAt(fds, pos, d, f2)
    BY <1>1, <2>3, <2>4, <2>5, <2>6, <2>7 DEF AddedAt
  <2> QED BY <2>2, <2>8
<1> QED BY <1>2, <1>3

\* The second half of open.
LEMMA BindStep ==
  ASSUME NEW nds, NEW ty, HeldOK(fds, wd_node, nds, ty), \E n : Unused(nds, n),
         NEW r, Found(r), NEW fl, NEW isDir, NEW isReg, NEW sz \in [Inodes -> Nat],
         isDir <=> KindOf(ty, r.file) = "dir", KindOf(ty, r.file) # "free",
         Bind(fl, r, isDir, isReg, nds, sz)
  PROVE  /\ HeldOK(fds', wd_node, nodes', ty)
         /\ size' \in [Inodes -> Nat]
         /\ TableStep(fds, fds')
<1> DEFINE node == Opened(nds, r)
           with == WithOpened(nds, r, sz)
           off  == IF "O_APPEND" \in fl.set THEN NodeSize(r.file, sz) ELSE 0
           d    == [node |-> node, mode |-> Access(fl), off |-> off]
<1>1. nds \in Heaps /\ fds \in Seq(Entry)
  BY DEF HeldOK, HeapOK
<1>2. CASE Refused(fl, isDir) /\ nodes' = fs_close(with, node) /\ size' = sz /\ UNCHANGED table
  <2>1. Spared(nds, nodes')
    BY <1>1, <1>2, OpenedAndClosed
  <2>2. TypesStable(ty, ty)
    BY DEF TypesStable
  <2>3. fds' = fds
    BY <1>2 DEF table
  <2>4. PICK nds2 : nds2 = nodes'
    OBVIOUS
  <2>5. HeldOK(fds, wd_node, nds2, ty)
    BY <2>1, <2>2, <2>4, HeldSpared
  <2> QED BY <1>2, <2>3, <2>4, <2>5 DEF TableStep
<1>3. CASE /\ ~ Refused(fl, isDir) /\ nodes' = with
           /\ size' = IF "O_TRUNC" \in fl.set /\ isReg THEN [sz EXCEPT ![r.file] = 0] ELSE sz
           /\ process_add_fd(d)
  <2>1. size' \in [Inodes -> Nat]
    BY <1>3
  <2>2. r.file \notin StaticNodes => node \in NodeIds /\ Fresh(nds, node, r, with)
    BY <1>1, OpenedFresh
  <2>3. r.file \in StaticNodes => node = r.file /\ with = nds
    BY OpenedStatic
  <2>4. NodeSize(r.file, sz) \in Nat
    BY VfsAssumption DEF NodeSize
  <2>5. d \in Entry
    BY <2>2, <2>3, <2>4 DEF Entry, Handles, Mode, Access
  <2>6. PICK e : e = d
    OBVIOUS
  <2>7. e \in Entry /\ e.node = node /\ e.mode = Access(fl) /\ process_add_fd(e)
    BY <1>3, <2>5, <2>6
  <2> HIDE DEF d
  <2>8. PICK pos : AddedAt(fds, pos, e, fds')
    BY <1>1, <2>7, AddFd
  <2>9. PICK f2 : f2 = fds'
    OBVIOUS
  <2>10. PICK nds2 : nds2 = with
    OBVIOUS
  <2>11. AddedAt(fds, pos, e, f2)
    BY <2>8, <2>9
  <2>12. "W_OK" \in e.mode => KindOf(ty, r.file) \notin {"free", "dir"}
    BY <1>3, <2>7 DEF Refused
  <2>13. HeldOK(f2, wd_node, nds2, ty)
    <3>1. CASE r.file \in StaticNodes
      <4>1. e.node \in StaticNodes /\ nds2 = nds
        BY <2>3, <2>7, <2>10, <3>1
      <4> QED BY <2>11, <4>1, HeldAddedStatic
    <3>2. CASE r.file \notin StaticNodes
      <4>1. Fresh(nds, e.node, r, nds2)
        BY <2>2, <2>7, <2>10, <3>2
      <4> QED BY <2>11, <2>12, <4>1, HeldAddedFresh
    <3> QED BY <3>1, <3>2
  <2> QED BY <1>3, <2>1, <2>8, <2>9, <2>10, <2>13 DEF TableStep
<1> QED BY <1>2, <1>3 DEF Bind

\* Files only looked at.
LEMMA ProbedSpared ==
  ASSUME NEW nds \in Heaps, \E n : Unused(nds, n), NEW r, r.file # NoFile => Found(r),
         size \in [Inodes -> Nat]
  PROVE  Spared(nds, Probed(nds, r))
<1>1. CASE r.file = NoFile
  <2>1. Probed(nds, r) = nds
    BY <1>1 DEF Probed
  <2>2. \E b : Unused(nds, b) /\ Except(nds, b, nds) /\ (nds[b] # Free => nds[b].refcount >= 1)
    BY DEF Unused, Except
  <2> QED BY <2>1, <2>2 DEF Spared
<1>2. CASE r.file # NoFile
  <2>1. Probed(nds, r) = fs_close(WithOpened(nds, r, size), Opened(nds, r))
    BY <1>2 DEF Probed
  <2> QED BY <1>2, <2>1, OpenedAndClosed
<1> QED BY <1>1, <1>2

\* Two blocks are free, so one is left.
TwoUnused(nds) == \E m, n : m # n /\ Unused(nds, m) /\ Unused(nds, n)

LEMMA OneLeft ==
  ASSUME NEW nds, NEW nds2, TwoUnused(nds), Spared(nds, nds2)
  PROVE  \E n : Unused(nds2, n)
BY DEF TwoUnused, Spared, Unused, Except

LEMMA Room ==
  ASSUME RoomForNodes
  PROVE  TwoUnused(nodes) /\ \E n : Unused(nodes, n)
BY DEF RoomForNodes, TwoUnused, Unused

\* What kopen returns is a file or nothing.
LEMMA KopenFound ==
  ASSUME DiskInv, NEW cp \in Seq(Names), NEW flags
  PROVE  kopen(cp, flags).file # NoFile => Found(kopen(cp, flags)) /\ KindOf(type, kopen(cp, flags).file) # "free"
BY KopenEnds, EndedFound DEF TypeOf, KindOf

\* The directory of a path.
LEMMA ParentPath ==
  ASSUME NEW cp \in Seq(Names)
  PROVE  Parent(cp) \in Seq(Names)
<1>1. Parent(cp) = SubSeq(cp, 1, Len(cp) - 1)
  BY DEF Parent, Front
<1>2. Len(cp) \in Nat /\ \A i \in 1 .. Len(cp) - 1 : cp[i] \in Names
  OBVIOUS
<1>3. CASE Len(cp) = 0
  <2>1. Parent(cp) = << >>
    BY <1>1, <1>3
  <2> QED BY <2>1
<1>4. CASE Len(cp) # 0
  BY <1>1, <1>2, <1>4
<1> QED BY <1>3, <1>4

\* mknod leaves the heap as it was, but for an unused block.
LEMMA MknodNodes ==
  ASSUME VfsInv, RoomForNodes, NEW cp, NEW self, NEW parent,
         self.file # NoFile => Found(self), parent.file # NoFile => Found(parent)
  PROVE  Spared(nodes, mknod_nodes(cp, self, parent))
<1>1. nodes \in Heaps /\ size \in [Inodes -> Nat] /\ \E n : Unused(nodes, n)
  BY Room DEF VfsInv, HeldOK, HeapOK
<1>2. CASE cp = << >>
  <2>1. mknod_nodes(cp, self, parent) = nodes
    BY <1>2 DEF mknod_nodes
  <2>2. \E b : Unused(nodes, b) /\ Except(nodes, b, nodes) /\ (nodes[b] # Free => nodes[b].refcount >= 1)
    BY <1>1 DEF Unused, Except
  <2> QED BY <1>1, <2>1, <2>2 DEF Spared
<1>3. CASE cp # << >> /\ self.file # NoFile
  <2>1. mknod_nodes(cp, self, parent) = Probed(nodes, self)
    BY <1>3 DEF mknod_nodes
  <2> QED BY <1>1, <2>1, ProbedSpared
<1>4. CASE cp # << >> /\ self.file = NoFile
  <2>1. mknod_nodes(cp, self, parent) = Probed(nodes, parent)
    BY <1>4 DEF mknod_nodes
  <2> QED BY <1>1, <2>1, ProbedSpared
<1> QED BY <1>2, <1>3, <1>4

LEMMA SizesStay ==
  ASSUME size \in [Inodes -> Nat]
  PROVE  SizeAfterMknod \in [Inodes -> Nat]
BY DEF SizeAfterMknod

\* What a call must keep.
Kept == DiskInv' /\ size' \in [Inodes -> Nat] /\ HeldOK(fds', wd_node', nodes', type') /\ TableStep(fds, fds')

\* A call that gives the process nothing.
LEMMA NothingGiven ==
  ASSUME VfsInv, DiskStep, size' \in [Inodes -> Nat], Spared(nodes, nodes'),
         UNCHANGED fds, UNCHANGED wd_node
  PROVE  Kept
<1>1. PICK nds2 : nds2 = nodes'
  OBVIOUS
<1>2. PICK ty2 : ty2 = type'
  OBVIOUS
<1>3. HeldOK(fds, wd_node, nodes, type) /\ Spared(nodes, nds2) /\ TypesStable(type, ty2)
  BY <1>1, <1>2 DEF VfsInv, DiskStep
<1>4. HeldOK(fds, wd_node, nds2, ty2)
  BY <1>3, HeldSpared
<1> QED BY <1>1, <1>2, <1>4 DEF Kept, DiskStep, TableStep

\* Nothing happens to the heap.
LEMMA SparedAll ==
  ASSUME VfsInv, RoomForNodes PROVE Spared(nodes, nodes)
<1>1. nodes \in Heaps /\ \E n : Unused(nodes, n)
  BY Room DEF VfsInv, HeldOK, HeapOK
<1>2. \E b : Unused(nodes, b) /\ Except(nodes, b, nodes) /\ (nodes[b] # Free => nodes[b].refcount >= 1)
  BY <1>1 DEF Unused, Except
<1> QED BY <1>1, <1>2 DEF Spared

LEMMA DiskUnchanged ==
  ASSUME VfsInv, UNCHANGED disk PROVE DiskStep
BY DEF VfsInv, DiskInv, disk, DiskStep, TypesStable

\* open.
LEMMA OpenStep ==
  ASSUME VfsInv, NEW p \in Paths, NEW fl, sys_open(p, fl)
  PROVE  Kept /\ wd_path' \in Seq(Names)
<1>1. p \in Path /\ wd_path \in Seq(Names) /\ DiskInv /\ RoomForNodes /\ wd_path' = wd_path
      /\ wd_node' = wd_node /\ size \in [Inodes -> Nat] /\ HeldOK(fds, wd_node, nodes, type)
  BY VfsAssumption DEF VfsInv, sys_open, cwd
<1>2. PICK cp : cp = canonicalize_path(wd_path, p)
  OBVIOUS
<1>3. cp \in Seq(Names) /\ Parent(cp) \in Seq(Names)
  BY <1>1, <1>2, CanonicalPath, ParentPath
<1>4. PICK r : r = kopen(cp, WalkFlags(fl))
  OBVIOUS
<1>5. PICK self : self = kopen(cp, {})
  OBVIOUS
<1>6. PICK parent : parent = kopen(Parent(cp), {})
  OBVIOUS
<1>7. PICK r2 : r2 = kopen(canonicalize_path(wd_path, p), WalkFlags(fl))'
  OBVIOUS
<1>8. /\ r.file # NoFile => Found(r) /\ KindOf(type, r.file) # "free"
      /\ self.file # NoFile => Found(self)
      /\ parent.file # NoFile => Found(parent)
  BY <1>1, <1>3, <1>4, <1>5, <1>6, KopenFound
<1>9. PICK nds : nds = mknod_nodes(cp, self, parent)
  OBVIOUS
<1>10. Spared(nodes, nds)
  BY <1>1, <1>8, <1>9, MknodNodes
<1>11. SizeAfterMknod \in [Inodes -> Nat]
  BY <1>1, SizesStay
<1>12. CASE r.file # NoFile /\ UNCHANGED disk
            /\ \/ nodes' = Probed(nodes, r) /\ UNCHANGED <<size, table>>
               \/ Bind(fl, r, FS_ISDIR(r.file), TypeOf(r.file) = "reg", nodes, size)
  <2>1. DiskStep /\ type' = type
    BY <1>12, DiskUnchanged DEF disk
  <2>2. CASE nodes' = Probed(nodes, r) /\ UNCHANGED <<size, table>>
    <3>1. Spared(nodes, nodes')
      BY <1>1, <1>8, <2>2, ProbedSpared, Room DEF HeldOK, HeapOK
    <3> QED BY <1>1, <2>1, <2>2, <3>1, NothingGiven DEF table
  <2>3. CASE Bind(fl, r, FS_ISDIR(r.file), TypeOf(r.file) = "reg", nodes, size)
    <3>1. PICK isDir : isDir = FS_ISDIR(r.file)
      OBVIOUS
    <3>2. PICK isReg : isReg = (TypeOf(r.file) = "reg")
      OBVIOUS
    <3>3. Bind(fl, r, isDir, isReg, nodes, size)
      BY <2>3, <3>1, <3>2
    <3>4. isDir <=> KindOf(type, r.file) = "dir"
      BY <3>1 DEF FS_ISDIR, TypeOf, KindOf
    <3>5. /\ HeldOK(fds', wd_node, nodes', type) /\ size' \in [Inodes -> Nat] /\ TableStep(fds, fds')
      BY <1>1, <1>8, <1>12, <3>3, <3>4, BindStep, Room
    <3> QED BY <1>1, <2>1, <3>5 DEF Kept, DiskStep
  <2> QED BY <1>12, <2>2, <2>3
<1>13. CASE UNCHANGED <<fstate, nodes, table>>
  <2>1. UNCHANGED disk /\ UNCHANGED size /\ nodes' = nodes /\ fds' = fds
    BY <1>13 DEF fstate, table, disk
  <2> QED BY <1>1, <2>1, SparedAll, DiskUnchanged, NothingGiven
<1>14. CASE /\ fs_mknod(cp, self, parent, "reg")
            /\ nodes' = nds
            /\ size' = size \/ size' = SizeAfterMknod
            /\ UNCHANGED table
  <2>1. DiskStep
    BY <1>1, <1>3, <1>14, MknodStep
  <2> QED BY <1>1, <1>10, <1>11, <1>14, <2>1, NothingGiven DEF table
<1>15. CASE /\ fs_mknod(cp, self, parent, "reg")
            /\ r2.file # NoFile
            /\ Bind(fl, r2, FS_ISDIR(r2.file)', (TypeOf(r2.file) = "reg")', nds, SizeAfterMknod)
  <2>1. DiskStep
    BY <1>1, <1>3, <1>15, MknodStep
  <2>2. PICK ty2 : ty2 = type'
    OBVIOUS
  <2>3. HeldOK(fds, wd_node, nds, ty2)
    BY <1>1, <1>10, <2>1, <2>2, HeldSpared DEF DiskStep
  <2>4. \E n : Unused(nds, n)
    BY <1>1, <1>10, Room, OneLeft
  <2>5. Found(r2) /\ KindOf(ty2, r2.file) # "free"
    <3>1. PICK c : c = canonicalize_path(wd_path, p)
      OBVIOUS
    <3>2. PICK f : f = WalkFlags(fl)
      OBVIOUS
    <3>3. Ended(kopen(c, f))'
      BY <1>2, <1>3, <2>1, <3>1, KopenPrimed DEF DiskStep
    <3>4. Ended(kopen(canonicalize_path(wd_path, p), WalkFlags(fl)))'
      BY <1>1, <3>1, <3>2, <3>3
    <3>5. Ended(r2)'
      BY <1>7, <3>4
    <3>6. Found(r2)' /\ (TypeOf(r2.file) # "free")'
      BY <1>15, <2>1, <3>5, EndedPrimed DEF DiskStep
    <3> QED BY <2>2, <3>6 DEF TypeOf, KindOf, Found
  <2>6. PICK isDir : isDir = FS_ISDIR(r2.file)'
    OBVIOUS
  <2>7. PICK isReg : isReg = (TypeOf(r2.file) = "reg")'
    OBVIOUS
  <2>8. isDir <=> KindOf(ty2, r2.file) = "dir"
    BY <2>2, <2>6 DEF FS_ISDIR, TypeOf, KindOf
  <2>9. PICK sz : sz = SizeAfterMknod
    OBVIOUS
  <2>10. Bind(fl, r2, isDir, isReg, nds, sz)
    BY <1>15, <2>6, <2>7, <2>9
  <2>11. /\ HeldOK(fds', wd_node, nodes', ty2) /\ size' \in [Inodes -> Nat] /\ TableStep(fds, fds')
    BY <1>11, <2>3, <2>4, <2>5, <2>8, <2>9, <2>10, BindStep
  <2> QED BY <1>1, <2>1, <2>2, <2>11 DEF Kept, DiskStep
<1> QED
  <2>1. \/ r.file # NoFile /\ UNCHANGED disk
              /\ \/ nodes' = Probed(nodes, r) /\ UNCHANGED <<size, table>>
                 \/ Bind(fl, r, FS_ISDIR(r.file), TypeOf(r.file) = "reg", nodes, size)
        \/ UNCHANGED <<fstate, nodes, table>>
        \/ /\ fs_mknod(cp, self, parent, "reg")
           /\ nodes' = nds
           /\ size' = size \/ size' = SizeAfterMknod
           /\ UNCHANGED table
        \/ /\ fs_mknod(cp, self, parent, "reg")
           /\ r2.file # NoFile
           /\ Bind(fl, r2, FS_ISDIR(r2.file)', (TypeOf(r2.file) = "reg")', nds, SizeAfterMknod)
    BY <1>2, <1>4, <1>5, <1>6, <1>7, <1>9 DEF sys_open
  <2> QED BY <1>1, <1>12, <1>13, <1>14, <1>15, <2>1

\* close.
LEMMA CloseStep ==
  ASSUME VfsInv, NEW fd, sys_close(fd)
  PROVE  Kept /\ wd_path' \in Seq(Names)
<1>1. /\ fd \in 1 .. Len(fds) /\ fds[fd].node # NULL /\ fds \in Seq(Entry)
      /\ UNCHANGED disk /\ size' = size /\ wd_node' = wd_node /\ wd_path' = wd_path
      /\ HeldOK(fds, wd_node, nodes, type) /\ DiskInv
  BY DEF VfsInv, sys_close, FD_CHECK, fstate, disk, cwd, HeldOK
<1>2. PICK n : n = fds[fd].node
  OBVIOUS
<1>3. n \in Handles
  <2>1. fds[fd] \in Entry
    BY <1>1
  <2> QED BY <1>2, <2>1 DEF Entry
<1>4. PICK e : e = [node |-> NULL, mode |-> {}, off |-> 0]
  OBVIOUS
<1>5. e \in Entry /\ e.node = NULL /\ e.mode = {}
  BY <1>4 DEF Entry, Handles, Mode
<1>6. PICK f2 : f2 = [fds EXCEPT ![fd] = e]
  OBVIOUS
<1>7. fds' = f2
  BY <1>4, <1>6 DEF sys_close
<1>8. f2 \in Seq(Entry) /\ Len(f2) = Len(fds) /\ f2[fd] = e /\ \A k \in 1 .. Len(fds) : k # fd => f2[k] = fds[k]
  BY <1>1, <1>5, <1>6
<1>9. RemovedAt(fds, fd, f2)
  BY <1>1, <1>5, <1>8 DEF RemovedAt
<1>10. ChangedAt(fds, fd, f2)
  BY <1>1, <1>8 DEF ChangedAt, UsedIn
<1>11. PICK nds2 : nds2 = fs_close(nodes, n)
  OBVIOUS
<1>12. nodes' = nds2
  BY <1>2, <1>11 DEF sys_close
<1>13. HeldOK(f2, wd_node, nds2, type)
  <2>1. CASE n \in NodeIds
    BY <1>1, <1>2, <1>9, <1>11, <2>1, HeldRemoved
  <2>2. CASE n \notin NodeIds
    <3>1. nds2 = nodes
      BY <1>11, <2>2 DEF fs_close
    <3> QED BY <1>1, <1>2, <1>9, <2>2, <3>1, HeldRemovedStatic
  <2> QED BY <2>1, <2>2
<1>14. DiskStep /\ type' = type
  BY <1>1, DiskUnchanged DEF disk
<1> QED BY <1>1, <1>7, <1>10, <1>12, <1>13, <1>14 DEF Kept, DiskStep, TableStep, VfsInv

\* Only the offset of a descriptor changes, to a number.
LEMMA OffsetStep ==
  ASSUME VfsInv, NEW fd, FD_CHECK(fd), NEW to \in Nat, fds' = [fds EXCEPT ![fd].off = to],
         size' \in [Inodes -> Nat], UNCHANGED <<disk, nodes, cwd>>
  PROVE  Kept /\ wd_path' \in Seq(Names)
<1>1. /\ fd \in 1 .. Len(fds) /\ fds[fd].node # NULL /\ fds \in Seq(Entry)
      /\ UNCHANGED disk /\ wd_node' = wd_node /\ wd_path' = wd_path /\ nodes' = nodes
      /\ HeldOK(fds, wd_node, nodes, type) /\ DiskInv
  BY DEF VfsInv, FD_CHECK, cwd, HeldOK
<1>2. PICK e : e = [fds[fd] EXCEPT !.off = to]
  OBVIOUS
<1>3. e \in Entry /\ e.node = fds[fd].node /\ e.mode = fds[fd].mode
  <2>1. fds[fd] \in Entry
    BY <1>1
  <2> QED BY <1>2, <2>1 DEF Entry
<1>4. PICK f2 : f2 = [fds EXCEPT ![fd] = e]
  OBVIOUS
<1>5. fds' = f2
  BY <1>1, <1>2, <1>4
<1>6. f2 \in Seq(Entry) /\ Len(f2) = Len(fds) /\ f2[fd] = e /\ \A k \in 1 .. Len(fds) : k # fd => f2[k] = fds[k]
  BY <1>1, <1>3, <1>4
<1>7. \A k \in 1 .. Len(fds) : f2[k].node = fds[k].node /\ f2[k].mode = fds[k].mode
  BY <1>3, <1>6
<1>8. HeldOK(f2, wd_node, nodes, type)
  BY <1>1, <1>6, <1>7, HeldMoved
<1>9. ChangedAt(fds, fd, f2)
  BY <1>1, <1>6 DEF ChangedAt, UsedIn
<1>10. DiskStep /\ type' = type
  BY <1>1, DiskUnchanged DEF disk
<1> QED BY <1>1, <1>5, <1>8, <1>9, <1>10 DEF Kept, DiskStep, TableStep, VfsInv

\* read.
LEMMA ReadStep ==
  ASSUME VfsInv, NEW fd, NEW n \in Nat, sys_read(fd, n)
  PROVE  Kept /\ wd_path' \in Seq(Names)
<1>1. FD_CHECK(fd) /\ UNCHANGED <<disk, nodes, cwd>> /\ size' = size /\ size \in [Inodes -> Nat]
  BY DEF sys_read, fstate, heap, disk, VfsInv
<1>2. PICK out \in ReadCount(FileOf(fds[fd].node), fds[fd].off, n) : fds' = [fds EXCEPT ![fd].off = @ + out]
  BY DEF sys_read
<1>3. fds[fd] \in Entry /\ fds \in Seq(Entry) /\ fd \in 1 .. Len(fds)
  BY <1>1 DEF VfsInv, HeldOK, FD_CHECK
<1>4. fds[fd].off \in Nat
  BY <1>3 DEF Entry
<1>5. out \in Nat
  <2>1. PICK f : f = FileOf(fds[fd].node)
    OBVIOUS
  <2>2. PICK off \in Nat : off = fds[fd].off
    BY <1>4
  <2>3. out \in ReadCount(f, off, n)
    BY <1>2, <2>1, <2>2
  <2>4. CASE f \in Inodes /\ type[f] = "reg" /\ off <= size[f]
    <3>1. size[f] - off \in Nat
      BY <1>1, <2>4
    <3>2. PICK S : S = {n, size[f] - off}
      OBVIOUS
    <3>3. Min(S) \in S
      <4>1. \E x \in S : \A y \in S : x <= y
        BY <3>1, <3>2
      <4> QED BY <4>1 DEF Min
    <3>4. out = Min(S)
      BY <1>1, <2>3, <2>4, <3>2 DEF ReadCount
    <3> QED BY <3>1, <3>2, <3>3, <3>4
  <2>5. CASE ~ (f \in Inodes /\ type[f] = "reg" /\ off <= size[f])
    <3>1. out \in {0} \cup 0 .. n
      <4>1. CASE f \in Inodes
        <5>1. type[f] = "reg" => off > size[f]
          BY <1>1, <2>5, <4>1
        <5> QED BY <2>3, <4>1, <5>1 DEF ReadCount
      <4>2. CASE f \notin Inodes
        BY <2>3, <4>2 DEF ReadCount
      <4> QED BY <4>1, <4>2
    <3> QED BY <3>1
  <2> QED BY <2>4, <2>5
<1>6. PICK to : to = fds[fd].off + out
  OBVIOUS
<1>7. to \in Nat /\ fds' = [fds EXCEPT ![fd].off = to]
  BY <1>2, <1>3, <1>4, <1>5, <1>6
<1> QED BY <1>1, <1>7, OffsetStep

\* write.
LEMMA WriteStep ==
  ASSUME VfsInv, NEW fd, NEW n \in Nat, sys_write(fd, n)
  PROVE  Kept /\ wd_path' \in Seq(Names)
<1>1. FD_CHECK(fd) /\ UNCHANGED <<disk, nodes, cwd>> /\ size \in [Inodes -> Nat]
  BY DEF sys_write, heap, VfsInv
<1>2. fds[fd] \in Entry /\ fds \in Seq(Entry) /\ fd \in 1 .. Len(fds)
  BY <1>1 DEF VfsInv, HeldOK, FD_CHECK
<1>3. fds[fd].off \in Nat
  BY <1>2 DEF Entry
<1>4. PICK f : f = FileOf(fds[fd].node)
  OBVIOUS
<1>5. CASE /\ f \in Inodes
           /\ size' = [size EXCEPT ![f] = IF fds[fd].off + n > @ THEN fds[fd].off + n ELSE @]
           /\ fds' = [fds EXCEPT ![fd].off = @ + n]
  <2>1. PICK to : to = fds[fd].off + n
    OBVIOUS
  <2>2. to \in Nat /\ fds' = [fds EXCEPT ![fd].off = to]
    BY <1>2, <1>3, <1>5, <2>1
  <2>3. size' \in [Inodes -> Nat]
    BY <1>1, <1>3, <1>5
  <2> QED BY <1>1, <2>2, <2>3, OffsetStep
<1>6. CASE (\E out \in 0 .. n : fds' = [fds EXCEPT ![fd].off = @ + out]) /\ size' = size
  <2>1. PICK out \in 0 .. n : fds' = [fds EXCEPT ![fd].off = @ + out]
    BY <1>6
  <2>2. PICK to : to = fds[fd].off + out
    OBVIOUS
  <2>3. to \in Nat /\ fds' = [fds EXCEPT ![fd].off = to]
    BY <1>2, <1>3, <2>1, <2>2
  <2> QED BY <1>1, <1>6, <2>3, OffsetStep
<1> QED BY <1>4, <1>5, <1>6 DEF sys_write

\* seek.
LEMMA SeekStep ==
  ASSUME VfsInv, NEW fd, NEW off, NEW whence, sys_seek(fd, off, whence)
  PROVE  Kept /\ wd_path' \in Seq(Names)
<1>1. FD_CHECK(fd) /\ UNCHANGED <<disk, nodes, cwd>> /\ size' = size /\ size \in [Inodes -> Nat]
  BY DEF sys_seek, fstate, heap, disk, VfsInv
<1>2. PICK to \in 0 .. MaxSize : fds' = [fds EXCEPT ![fd].off = to]
  BY DEF sys_seek
<1>3. to \in Nat
  BY <1>2, VfsAssumption
<1> QED BY <1>1, <1>2, <1>3, OffsetStep

\* mknod.
LEMMA MakeStep ==
  ASSUME VfsInv, NEW p \in Paths, NEW t \in MknodTypes, sys_mknod(p, t)
  PROVE  Kept /\ wd_path' \in Seq(Names)
<1>1. /\ p \in Path /\ wd_path \in Seq(Names) /\ DiskInv /\ RoomForNodes /\ wd_path' = wd_path
      /\ wd_node' = wd_node /\ size \in [Inodes -> Nat] /\ fds' = fds /\ t \in {"reg", "dir", "chr", "sock"}
  BY VfsAssumption DEF VfsInv, sys_mknod, cwd, table
<1>2. PICK cp : cp = canonicalize_path(wd_path, p)
  OBVIOUS
<1>3. cp \in Seq(Names) /\ Parent(cp) \in Seq(Names)
  BY <1>1, <1>2, CanonicalPath, ParentPath
<1>4. PICK self : self = kopen(cp, {})
  OBVIOUS
<1>5. PICK parent : parent = kopen(Parent(cp), {})
  OBVIOUS
<1>6. (self.file # NoFile => Found(self)) /\ (parent.file # NoFile => Found(parent))
  BY <1>1, <1>3, <1>4, <1>5, KopenFound
<1>7. fs_mknod(cp, self, parent, t) /\ nodes' = mknod_nodes(cp, self, parent)
      /\ (size' = size \/ size' = SizeAfterMknod)
  BY <1>2, <1>4, <1>5 DEF sys_mknod
<1>8. DiskStep
  BY <1>1, <1>3, <1>7, MknodStep
<1>9. Spared(nodes, nodes')
  BY <1>1, <1>6, <1>7, MknodNodes
<1>10. size' \in [Inodes -> Nat]
  BY <1>1, <1>7, SizesStay
<1> QED BY <1>1, <1>8, <1>9, <1>10, NothingGiven

\* unlink, which looks at two files.
LEMMA RemoveStep ==
  ASSUME VfsInv, NEW p \in Paths, sys_unlink(p)
  PROVE  Kept /\ wd_path' \in Seq(Names)
<1>1. /\ p \in Path /\ wd_path \in Seq(Names) /\ DiskInv /\ RoomForNodes /\ wd_path' = wd_path
      /\ wd_node' = wd_node /\ size \in [Inodes -> Nat] /\ fds' = fds /\ size' = size /\ nodes \in Heaps
      /\ HeldOK(fds, wd_node, nodes, type)
  BY VfsAssumption DEF VfsInv, sys_unlink, cwd, table, HeldOK, HeapOK
<1>2. PICK cp : cp = canonicalize_path(wd_path, p)
  OBVIOUS
<1>3. cp \in Seq(Names) /\ Parent(cp) \in Seq(Names)
  BY <1>1, <1>2, CanonicalPath, ParentPath
<1>4. PICK self : self = kopen(cp, {})
  OBVIOUS
<1>5. PICK parent : parent = kopen(Parent(cp), {})
  OBVIOUS
<1>6. (self.file # NoFile => Found(self)) /\ (parent.file # NoFile => Found(parent))
  BY <1>1, <1>3, <1>4, <1>5, KopenFound
<1>7. fs_unlink(cp, self, parent)
  BY <1>2, <1>4, <1>5 DEF sys_unlink
<1>8. DiskStep
  BY <1>1, <1>3, <1>7, UnlinkStep
<1>9. CASE nodes' = nodes
  BY <1>1, <1>8, <1>9, SparedAll, NothingGiven
<1>10. CASE nodes' = Probed(Probed(nodes, self), parent)
  <2>1. PICK nds1 : nds1 = Probed(nodes, self)
    OBVIOUS
  <2>2. Spared(nodes, nds1)
    BY <1>1, <1>6, <2>1, Room, ProbedSpared
  <2>3. (\E n : Unused(nds1, n)) /\ nds1 \in Heaps
    BY <1>1, <2>2, Room, OneLeft DEF Spared
  <2>4. Spared(nds1, nodes')
    BY <1>1, <1>6, <1>10, <2>1, <2>3, ProbedSpared
  <2>5. HeldOK(fds, wd_node, nds1, type)
    BY <1>1, <2>2, HeldSpared DEF TypesStable
  <2>6. PICK nds2 : nds2 = nodes'
    OBVIOUS
  <2>7. PICK ty2 : ty2 = type'
    OBVIOUS
  <2>8. TypesStable(type, ty2) /\ Spared(nds1, nds2)
    BY <1>8, <2>4, <2>6, <2>7 DEF DiskStep
  <2>9. HeldOK(fds, wd_node, nds2, ty2)
    BY <2>5, <2>8, HeldSpared
  <2> QED BY <1>1, <1>8, <2>6, <2>7, <2>9 DEF Kept, DiskStep, TableStep
<1>11. nodes' = nodes \/ nodes' = Probed(Probed(nodes, self), parent)
  BY <1>7 DEF fs_unlink
<1> QED BY <1>1, <1>9, <1>10, <1>11

\* chdir.
LEMMA ChdirStep ==
  ASSUME VfsInv, NEW p \in Paths, sys_chdir(p)
  PROVE  Kept /\ wd_path' \in Seq(Names)
<1>1. /\ p \in Path /\ wd_path \in Seq(Names) /\ DiskInv /\ RoomForNodes
      /\ size \in [Inodes -> Nat] /\ fds' = fds /\ size' = size /\ nodes \in Heaps /\ UNCHANGED disk
      /\ HeldOK(fds, wd_node, nodes, type)
  BY VfsAssumption DEF VfsInv, sys_chdir, table, fstate, disk, HeldOK, HeapOK
<1>2. PICK cp : cp = canonicalize_path(wd_path, p)
  OBVIOUS
<1>3. cp \in Seq(Names)
  BY <1>1, <1>2, CanonicalPath
<1>4. PICK r : r = kopen(cp, {})
  OBVIOUS
<1>5. r.file # NoFile => Found(r)
  BY <1>1, <1>3, <1>4, KopenFound
<1>6. DiskStep /\ type' = type
  BY <1>1, DiskUnchanged DEF disk
<1>7. CASE /\ r.file # NoFile
           /\ nodes' = fs_close(WithOpened(nodes, r, size), wd_node)
           /\ wd_path' = cp
           /\ wd_node' = Opened(nodes, r)
  <2>1. PICK nds1 : nds1 = WithOpened(nodes, r, size)
    OBVIOUS
  <2>2. PICK w2 : w2 = Opened(nodes, r)
    OBVIOUS
  <2>3. \/ w2 \in StaticNodes /\ nds1 = nodes
        \/ w2 \in NodeIds /\ \E x : Found(x) /\ Fresh(nodes, w2, x, nds1)
    <3>1. CASE r.file \in StaticNodes
      BY <2>1, <2>2, <3>1, OpenedStatic
    <3>2. CASE r.file \notin StaticNodes
      <4>1. w2 \in NodeIds /\ Fresh(nodes, w2, r, nds1)
        BY <1>1, <1>5, <1>7, <2>1, <2>2, <3>2, Room, OpenedFresh
      <4> QED BY <1>5, <1>7, <4>1
    <3> QED BY <3>1, <3>2
  <2>4. PICK nds2 : nds2 = fs_close(nds1, wd_node)
    OBVIOUS
  <2>5. HeldOK(fds, w2, nds2, type)
    BY <1>1, <2>3, <2>4, HeldMovedDirectory
  <2>6. nodes' = nds2 /\ wd_node' = w2
    BY <1>7, <2>1, <2>2, <2>4
  <2> QED BY <1>1, <1>3, <1>6, <1>7, <2>5, <2>6 DEF Kept, DiskStep, TableStep
<1>8. CASE nodes' = Probed(nodes, r) /\ UNCHANGED cwd
  <2>1. Spared(nodes, nodes')
    BY <1>1, <1>5, <1>8, Room, ProbedSpared
  <2> QED BY <1>1, <1>6, <1>8, <2>1, NothingGiven DEF cwd
<1> QED BY <1>2, <1>4, <1>7, <1>8 DEF sys_chdir

-----------------------------------------------------------------------------
(* The theorems.                                                           *)

LEMMA InvInit == Init => VfsInv
<1> SUFFICES ASSUME Init PROVE VfsInv
  OBVIOUS
<1>1. DiskInv
  BY DiskInit
<1>2. size \in [Inodes -> Nat] /\ wd_path \in Seq(Names) /\ fds = << >> /\ wd_node = NULL
  BY DEF Init
<1>3. nodes \in Heaps /\ \A n \in NodeIds : nodes[n] = Free
  BY DEF Init, Heaps
<1>4. PICK f : f = fds
  OBVIOUS
<1>5. f = << >> /\ f \in Seq(Entry) /\ 1 .. Len(f) = {}
  BY <1>2, <1>4
<1>6. PICK own : own = OwnOf(f, NULL)
  OBVIOUS
<1>7. \A n \in NodeIds : own[n] = {}
  <2>1. \A n \in NodeIds : n # NULL
    BY VfsAssumption
  <2> QED BY <1>5, <1>6, <2>1 DEF OwnOf, OwnersOf
<1>8. own \in Ownerships
  BY <1>5, <1>6, OwnershipsOf
<1>9. HeapOK(nodes, own)
  BY <1>3, <1>7, <1>8, FS_EmptySet DEF HeapOK, Counted
<1>10. HeldOK(fds, wd_node, nodes, type)
  BY <1>2, <1>4, <1>5, <1>6, <1>9 DEF HeldOK, WritersOf, Handles
<1> QED BY <1>1, <1>2, <1>10 DEF VfsInv

\* A step keeps the invariant and changes the table in one place.
LEMMA InvStep ==
  VfsInv /\ [Next]_vars => VfsInv' /\ TableStep(fds, fds')
<1> SUFFICES ASSUME VfsInv, [Next]_vars PROVE VfsInv' /\ TableStep(fds, fds')
  OBVIOUS
<1>1. ASSUME Kept, wd_path' \in Seq(Names) PROVE VfsInv' /\ TableStep(fds, fds')
  BY <1>1 DEF Kept, VfsInv
<1>2. CASE UNCHANGED vars
  <2>1. UNCHANGED <<dirs, type, size, nodes, fds, wd_path, wd_node>>
    BY <1>2 DEF vars, fstate, heap, table, cwd
  <2>2. VfsInv'
    BY <2>1 DEF VfsInv, DiskInv
  <2> QED BY <2>1, <2>2 DEF TableStep
<1>3. ASSUME NEW p \in Paths, NEW fl \in OpenFlags, sys_open(p, fl) PROVE VfsInv' /\ TableStep(fds, fds')
  BY <1>1, <1>3, OpenStep
<1>4. ASSUME NEW fd \in 1 .. Len(fds), sys_close(fd) PROVE VfsInv' /\ TableStep(fds, fds')
  BY <1>1, <1>4, CloseStep
<1>5. ASSUME NEW fd \in 1 .. Len(fds), NEW n \in 0 .. 1, sys_read(fd, n) PROVE VfsInv' /\ TableStep(fds, fds')
  BY <1>1, <1>5, ReadStep
<1>6. ASSUME NEW fd \in 1 .. Len(fds), NEW n \in 0 .. 1, sys_write(fd, n) PROVE VfsInv' /\ TableStep(fds, fds')
  BY <1>1, <1>6, WriteStep
<1>7. ASSUME NEW fd \in 1 .. Len(fds), NEW off \in {-1, 0, 1},
             NEW whence \in {"SEEK_SET", "SEEK_CUR", "SEEK_END"}, sys_seek(fd, off, whence)
      PROVE  VfsInv' /\ TableStep(fds, fds')
  BY <1>1, <1>7, SeekStep
<1>8. ASSUME NEW p \in Paths, NEW t \in MknodTypes, sys_mknod(p, t) PROVE VfsInv' /\ TableStep(fds, fds')
  BY <1>1, <1>8, MakeStep
<1>9. ASSUME NEW p \in Paths, sys_unlink(p) PROVE VfsInv' /\ TableStep(fds, fds')
  BY <1>1, <1>9, RemoveStep
<1>10. ASSUME NEW p \in Paths, sys_chdir(p) PROVE VfsInv' /\ TableStep(fds, fds')
  BY <1>1, <1>10, ChdirStep
<1> QED BY <1>2, <1>3, <1>4, <1>5, <1>6, <1>7, <1>8, <1>9, <1>10 DEF Next

LEMMA Invariance == Spec => []VfsInv
<1>1. Init => VfsInv
  BY InvInit
<1>2. VfsInv /\ [Next]_vars => VfsInv'
  BY InvStep
<1> QED BY <1>1, <1>2, PTL DEF Spec

\* What the invariant says of the node n.
LEMMA OwnersCounted ==
  ASSUME VfsInv, NEW n \in NodeIds
  PROVE  /\ Owners(n) # {} => nodes[n] # Free /\ nodes[n].refcount >= Cardinality(Owners(n))
         /\ NoLinks /\ nodes[n] # Free => Owners(n) # {}
<1>1. PICK own : own = OwnOf(fds, wd_node)
  OBVIOUS
<1>2. Counted(nodes, own, n)
  BY <1>1 DEF VfsInv, HeldOK, HeapOK
<1>3. own[n] = Owners(n)
  BY <1>1 DEF OwnOf, OwnersOf, Owners
<1> QED BY <1>2, <1>3 DEF Counted

\* Whatever is opened, closed, linked and removed, on any disk: a node that a
\* descriptor or the working directory has is live and counted for each of them, by
\* fs_open, fs_close and their callers.
THEOREM NodesOutliveUse == Spec => []NoUseAfterFree
<1>1. VfsInv => NoUseAfterFree
  BY OwnersCounted DEF NoUseAfterFree
<1> QED BY <1>1, Invariance, PTL

\* Without symbolic links, which make kopen open a node twice, fs_close frees
\* every node that nobody has any more.
THEOREM NodesAreFreed == NoLinks /\ Spec => []NoLeak
<1>1. VfsInv /\ NoLinks => NoLeak
  BY OwnersCounted DEF NoLeak
<1>2. CASE NoLinks
  <2>1. VfsInv => NoLeak
    BY <1>1, <1>2
  <2> QED BY <2>1, Invariance, PTL
<1> QED BY <1>2

\* unlink frees a directory's inode only, and open refuses to write to one: who
\* may write designates an allocated inode that is not a directory.
THEOREM WritersAreSafe == Spec => []WritersKeepTheirFile
<1>1. VfsInv => WritersKeepTheirFile
  <2> SUFFICES ASSUME VfsInv, NEW fd \in 1 .. Len(fds), fds[fd].node \in NodeIds, "W_OK" \in fds[fd].mode
               PROVE  TypeOf(FileOf(fds[fd].node)) \notin {"free", "dir"}
    BY DEF WritersKeepTheirFile
  <2>1. KindOf(type, nodes[fds[fd].node].file) \notin {"free", "dir"}
    BY DEF VfsInv, HeldOK, WritersOf
  <2> QED BY <2>1 DEF TypeOf, FileOf, KindOf
<1> QED BY <1>1, Invariance, PTL

\* process_add_fd gives the lowest descriptor that is not in use, and no call
\* changes a descriptor in use other than the one it is given.
THEOREM DescriptorsAreLowest == Spec => LowestDescriptor
<1> DEFINE Changed(fd) == FD_CHECK(fd) /\ fds'[fd] # fds[fd]
           Lowest ==
             /\ \A fd \in 1 .. Len(fds') :
                  fds'[fd].node # NULL /\ ~ FD_CHECK(fd) =>
                    /\ \A e \in 1 .. fd - 1 : FD_CHECK(e)
                    /\ \A e \in 1 .. Len(fds) : ~ Changed(e)
             /\ \A e, f \in 1 .. Len(fds) : Changed(e) /\ Changed(f) => e = f
<1>1. ASSUME VfsInv, TableStep(fds, fds') PROVE Lowest
  <2>1. CASE fds' = fds
    BY <2>1 DEF FD_CHECK
  <2>2. ASSUME NEW pos, NEW d, AddedAt(fds, pos, d, fds') PROVE Lowest
    <3>1. /\ \A k \in 1 .. Len(fds') : k # pos => k \in 1 .. Len(fds) /\ fds'[k] = fds[k]
          /\ \A k \in 1 .. pos - 1 : k \in 1 .. Len(fds) /\ fds[k].node # NULL
          /\ pos \in 1 .. Len(fds) => fds[pos].node = NULL
          /\ Len(fds') >= Len(fds) /\ Len(fds') \in Nat /\ Len(fds) \in Nat
      BY <1>1, <2>2 DEF AddedAt, VfsInv, HeldOK
    <3>2. \A e \in 1 .. Len(fds) : ~ Changed(e)
      <4> SUFFICES ASSUME NEW e \in 1 .. Len(fds), Changed(e) PROVE FALSE
        OBVIOUS
      <4>1. e # pos /\ e \in 1 .. Len(fds')
        BY <3>1 DEF FD_CHECK
      <4> QED BY <3>1, <4>1
    <3>3. \A fd \in 1 .. Len(fds') : fds'[fd].node # NULL /\ ~ FD_CHECK(fd) => fd = pos
      BY <3>1 DEF FD_CHECK
    <3>4. \A e \in 1 .. pos - 1 : FD_CHECK(e)
      BY <3>1 DEF FD_CHECK
    <3> HIDE DEF Changed
    <3> QED BY <3>2, <3>3, <3>4
  <2>3. ASSUME NEW fd, ChangedAt(fds, fd, fds') PROVE Lowest
    <3>1. /\ \A k \in 1 .. Len(fds) : k # fd => fds'[k] = fds[k]
          /\ Len(fds') = Len(fds) /\ FD_CHECK(fd)
      BY <2>3 DEF ChangedAt, UsedIn, FD_CHECK
    <3>2. \A e \in 1 .. Len(fds) : Changed(e) => e = fd
      BY <3>1
    <3>3. \A e \in 1 .. Len(fds') : ~ (fds'[e].node # NULL /\ ~ FD_CHECK(e))
      BY <3>1 DEF FD_CHECK
    <3> HIDE DEF Changed
    <3> QED BY <3>2, <3>3
  <2> QED BY <1>1, <2>1, <2>2, <2>3 DEF TableStep
<1>2. VfsInv /\ [Next]_vars => [Lowest]_vars
  BY <1>1, InvStep
<1>3. [Lowest]_vars => [ LET used(fd)    == FD_CHECK(fd)
                            changed(fd) == used(fd) /\ fds'[fd] # fds[fd]
                        IN  /\ \A fd \in 1 .. Len(fds') :
                                 fds'[fd].node # NULL /\ ~ used(fd) =>
                                   /\ \A e \in 1 .. fd - 1 : used(e)
                                   /\ \A e \in 1 .. Len(fds) : ~ changed(e)
                            /\ \A e, f \in 1 .. Len(fds) : changed(e) /\ changed(f) => e = f ]_vars
  OBVIOUS
<1> HIDE DEF Lowest
<1> QED BY <1>2, <1>3, Invariance, PTL DEF Spec, LowestDescriptor

-----------------------------------------------------------------------------
(* Without symbolic links and sockets, a path that leads nowhere from an   *)
(* existing directory has no entry there.                                  *)

\* The searches of a walk: what a file has under a name.
Find == [f \in Files |-> [name \in Names |-> fs_finddir(f, name)]]

\* g tells the files a walk along path meets, from f after m names.
TrailFrom(find, path, m, f, g) ==
  /\ g \in [m .. Len(path) -> Files \cup {NoFile}]
  /\ g[m] = f
  /\ \A k \in m + 1 .. Len(path) :
       g[k] = IF g[k - 1] = NoFile THEN NoFile ELSE find[g[k - 1]][path[k]]

\* A walk along path ends on v.
Leads(find, path, v) ==
  \E g : /\ TrailFrom(find, path, get_mount_point(path), Mounts[SubSeq(path, 1, get_mount_point(path))], g)
         /\ v = g[Len(path)]

LEMMA FindIs ==
  ASSUME DiskInv, NEW f \in Files, NEW name \in Names
  PROVE  Find[f][name] = fs_finddir(f, name) /\ Find[f][name] \in Files \cup {NoFile}
BY FindReached DEF Find

\* The loop leaves a trail.
LEMMA LoopTrail ==
  ASSUME DiskInv, NoLinkNow, NEW path \in Seq(Names), NEW flags, NEW opened, NEW walk,
         walk = [names \in 0 .. Len(path) |->
                   IF names = 0 THEN Final ELSE Round(walk[names - 1], path, flags, opened)]
  PROVE  \A k \in 0 .. Len(path), w \in Walk :
           Reached(w) /\ w.depth + k = Len(path) =>
             \E g : TrailFrom(Find, path, w.depth, w.file, g) /\ walk[k][w].file = g[Len(path)]
<1>1. Len(path) \in Nat
  OBVIOUS
<1> DEFINE Good == {k \in 0 .. Len(path) : \A w \in Walk :
                      Reached(w) /\ w.depth + k = Len(path) =>
                        \E g : TrailFrom(Find, path, w.depth, w.file, g) /\ walk[k][w].file = g[Len(path)]}
<1>2. 0 \in Good
  <2>1. SUFFICES ASSUME NEW w \in Walk, Reached(w), w.depth = Len(path)
                 PROVE  \E g : TrailFrom(Find, path, w.depth, w.file, g) /\ walk[0][w].file = g[Len(path)]
    <3>1. \A w \in Walk : w.depth + 0 = Len(path) => w.depth = Len(path)
      BY <1>1 DEF Walk
    <3> QED BY <1>1, <3>1
  <2>2. walk[0] = Final
    BY <1>1
  <2>3. walk[0][w].file = w.file
    <3>1. PICK v : v = [w EXCEPT !.opens = @ + 1]
      OBVIOUS
    <3>2. v.file = w.file
      BY <3>1 DEF Walk
    <3>3. Final[w] = IF w.file = NoFile THEN w ELSE v
      BY <3>1 DEF Final
    <3> QED BY <2>2, <3>2, <3>3
  <2>4. w.file \in Files \cup {NoFile}
    BY DEF Walk
  <2>5. PICK n : n = Len(path)
    OBVIOUS
  <2>6. PICK g : g = [i \in n .. n |-> w.file]
    OBVIOUS
  <2>7. g \in [n .. n -> Files \cup {NoFile}] /\ g[n] = w.file
    BY <1>1, <2>4, <2>5, <2>6
  <2>8. n + 1 .. n = {}
    BY <1>1, <2>5
  <2>9. TrailFrom(Find, path, n, w.file, g)
    BY <2>5, <2>7, <2>8 DEF TrailFrom
  <2> QED BY <2>1, <2>3, <2>5, <2>7, <2>9
<1>3. ASSUME NEW k \in 1 .. Len(path), k - 1 \in Good PROVE k \in Good
  <2>1. k \in 0 .. Len(path) /\ k # 0
    BY <1>1
  <2> SUFFICES ASSUME NEW w \in Walk, Reached(w), w.depth + k = Len(path)
               PROVE  \E g : TrailFrom(Find, path, w.depth, w.file, g) /\ walk[k][w].file = g[Len(path)]
    BY <2>1
  <2>2. walk[k] = Round(walk[k - 1], path, flags, opened)
    BY <2>1
  <2>3. PICK m : m = w.depth
    OBVIOUS
  <2>4. m \in Nat /\ m < Len(path) /\ m + 1 \in 1 .. Len(path)
    BY <1>1, <2>1, <2>3 DEF Walk
  <2>5. PICK n : n = Len(path)
    OBVIOUS
  <2>6. CASE w.file = NoFile
    <3>1. walk[k][w] = w
      BY <2>2, <2>6 DEF Round
    <3>2. PICK g : g = [i \in m .. n |-> NoFile]
      OBVIOUS
    <3>3. g \in [m .. n -> Files \cup {NoFile}] /\ \A i \in m .. n : g[i] = NoFile
      BY <3>2
    <3>4. m \in m .. n /\ n \in m .. n /\ \A i \in m + 1 .. n : i \in m .. n /\ i - 1 \in m .. n
      BY <1>1, <2>4, <2>5
    <3>5. TrailFrom(Find, path, m, NoFile, g)
      BY <2>5, <3>3, <3>4 DEF TrailFrom
    <3> QED BY <2>3, <2>5, <2>6, <3>1, <3>3, <3>4, <3>5
  <2>7. CASE w.file # NoFile
    <3>1. PICK name : name = path[m + 1]
      OBVIOUS
    <3>2. name \in Names /\ w.file \in Files
      BY <2>4, <2>7, <3>1 DEF Walk
    <3>3. PICK s : s = Search(w, name)
      OBVIOUS
    <3>4. Reached(s) /\ s.depth = m + 1 /\ s.file = fs_finddir(w.file, name)
      BY <2>3, <2>7, <3>2, <3>3, SearchReached
    <3>5. Follow(path, flags, s, opened) = s
      BY NothingToFollow
    <3>6. walk[k][w] = walk[k - 1][s]
      BY <2>2, <2>3, <2>7, <3>1, <3>3, <3>5 DEF Round
    <3>7. s \in Walk /\ s.depth + (k - 1) = Len(path)
      BY <1>1, <2>1, <2>3, <2>4, <3>4 DEF Reached
    <3>8. PICK h : TrailFrom(Find, path, m + 1, s.file, h) /\ walk[k - 1][s].file = h[Len(path)]
      <4>1. \E h : TrailFrom(Find, path, s.depth, s.file, h) /\ walk[k - 1][s].file = h[Len(path)]
        BY <1>3, <3>4, <3>7
      <4> QED BY <3>4, <4>1
    <3>9. /\ h \in [m + 1 .. n -> Files \cup {NoFile}] /\ h[m + 1] = s.file
          /\ \A i \in (m + 1) + 1 .. n :
               h[i] = IF h[i - 1] = NoFile THEN NoFile ELSE Find[h[i - 1]][path[i]]
      BY <2>5, <3>8 DEF TrailFrom
    <3>10. PICK g : g = [i \in m .. n |-> IF i = m THEN w.file ELSE h[i]]
      OBVIOUS
    <3>11. /\ g[m] = w.file /\ \A i \in m + 1 .. n : g[i] = h[i]
           /\ g \in [m .. n -> Files \cup {NoFile}]
      <4>1. \A i \in m .. n : i # m => i \in m + 1 .. n
        BY <1>1, <2>4, <2>5
      <4>2. m \in m .. n /\ \A i \in m + 1 .. n : i \in m .. n /\ i # m
        BY <1>1, <2>4, <2>5
      <4> QED BY <3>2, <3>9, <3>10, <4>1, <4>2
    <3>12. ASSUME NEW i \in m + 1 .. n
           PROVE  g[i] = IF g[i - 1] = NoFile THEN NoFile ELSE Find[g[i - 1]][path[i]]
      <4>1. CASE i = m + 1
        <5>1. g[i - 1] = w.file /\ g[i] = s.file
          BY <2>4, <3>9, <3>11, <4>1
        <5>2. Find[w.file][name] = s.file
          BY <3>2, <3>4, FindIs
        <5> QED BY <2>7, <3>1, <4>1, <5>1, <5>2
      <4>2. CASE i # m + 1
        <5>1. i \in (m + 1) + 1 .. n /\ i - 1 \in m + 1 .. n
          BY <1>1, <2>4, <2>5, <4>2
        <5>2. g[i] = h[i] /\ g[i - 1] = h[i - 1]
          BY <3>11, <5>1
        <5> QED BY <3>9, <5>1, <5>2
      <4> QED BY <4>1, <4>2
    <3>13. TrailFrom(Find, path, m, w.file, g)
      BY <2>5, <3>11, <3>12 DEF TrailFrom
    <3>14. n \in m + 1 .. n
      BY <1>1, <2>4, <2>5
    <3> QED BY <2>3, <2>5, <3>6, <3>8, <3>11, <3>13, <3>14
  <2> QED BY <2>6, <2>7
<1> HIDE DEF Good
<1>4. 0 .. Len(path) \subseteq Good
  BY <1>1, <1>2, <1>3, Climb
<1> QED BY <1>4 DEF Good

\* kopen ends where the trail ends.
LEMMA KopenLeads ==
  ASSUME DiskInv, NoLinkNow, NEW cp \in Seq(Names), NEW flags
  PROVE  Leads(Find, cp, kopen(cp, flags).file)
<1>1. PICK opened : opened = kopen_recur[MAX_SYMLINK_DEPTH]
  OBVIOUS
<1>2. PICK walk : /\ walk = [names \in 0 .. Len(cp) |->
                                IF names = 0 THEN Final
                                ELSE Round(walk[names - 1], cp, flags, opened)]
                  /\ Resolve(cp, flags, opened) =
                        walk[Len(cp) - Start(cp).depth][Follow(cp, flags, Start(cp), opened)]
  BY ResolveRuns
<1>3. PICK s : s = Start(cp)
  OBVIOUS
<1>4. Reached(s) /\ s.depth \in 0 .. Len(cp) /\ s.depth = get_mount_point(cp) /\ Len(cp) \in Nat /\ s \in Walk
  BY <1>3, StartReached DEF Reached
<1>5. Follow(cp, flags, s, opened) = s
  BY NothingToFollow
<1>6. s.file = Mounts[SubSeq(cp, 1, get_mount_point(cp))]
  BY <1>3 DEF Start
<1>7. PICK k : k = Len(cp) - s.depth
  OBVIOUS
<1>8. k \in 0 .. Len(cp) /\ s.depth + k = Len(cp)
  BY <1>4, <1>7
<1>9. PICK g : TrailFrom(Find, cp, s.depth, s.file, g) /\ walk[k][s].file = g[Len(cp)]
  BY <1>2, <1>4, <1>8, LoopTrail
<1>10. kopen(cp, flags) = walk[k][s]
  BY <1>1, <1>2, <1>3, <1>5, <1>7 DEF kopen
<1> QED BY <1>4, <1>6, <1>9, <1>10 DEF Leads

LEMMA LeadsFormula ==
  DiskInv /\ NoLinkNow => \A cp \in Seq(Names) : \A flags : Leads(Find, cp, kopen(cp, flags).file)
BY KopenLeads

LEMMA LeadsPrimed ==
  (DiskInv /\ NoLinkNow => \A cp \in Seq(Names) : \A flags : Leads(Find, cp, kopen(cp, flags).file))'
BY LeadsFormula, PTL

\* What find finds, find2 finds too.
Finds(find, find2) ==
  \A f \in Files, name \in Names : find[f][name] # NoFile => find2[f][name] = find[f][name]

\* The path of a mounted file leads to it.
LEMMA MountLeads ==
  ASSUME NEW cp \in Seq(Names), Mounted(cp, Len(cp)), NEW find, NEW v, Leads(find, cp, v)
  PROVE  v # NoFile
<1>1. PICK d : d = get_mount_point(cp)
  OBVIOUS
<1>2. d \in 0 .. Len(cp) /\ LongestMounted(cp, d) /\ Len(cp) \in Nat
  BY <1>1, MountPoint
<1>3. d = Len(cp)
  <2>1. d < Len(cp) => Len(cp) \in d + 1 .. Len(cp)
    BY <1>2
  <2> QED BY <1>2, <2>1 DEF LongestMounted
<1>4. PICK g : TrailFrom(find, cp, d, Mounts[SubSeq(cp, 1, d)], g) /\ v = g[Len(cp)]
  BY <1>1 DEF Leads
<1> QED BY <1>3, <1>4 DEF TrailFrom, Mounted

\* Any other path leads where its directory has its last name.
LEMMA LastName ==
  ASSUME NEW cp \in Seq(Names), cp # << >>, ~ Mounted(cp, Len(cp)),
         NEW find, NEW find2, Finds(find, find2),
         NEW u, u # NoFile, Leads(find, Parent(cp), u),
         NEW v, Leads(find2, cp, v)
  PROVE  v = find2[u][Basename(cp)]
<1>1. PICK n : n = Len(cp)
  OBVIOUS
<1>2. n \in Nat /\ n # 0 /\ n - 1 \in Nat
  BY <1>1
<1>3. PICK pp : pp = Parent(cp)
  OBVIOUS
<1>4. pp = SubSeq(cp, 1, n - 1)
  BY <1>1, <1>3 DEF Parent, Front
<1>5. \A k \in 1 .. n : cp[k] \in Names
  BY <1>1
<1>6. pp \in Seq(Names) /\ Len(pp) = n - 1 /\ \A k \in 1 .. n - 1 : pp[k] = cp[k]
  BY <1>1, <1>2, <1>4, <1>5
<1>7. \A k \in 0 .. n - 1 : SubSeq(pp, 1, k) = SubSeq(cp, 1, k)
  <2> SUFFICES ASSUME NEW k \in 0 .. n - 1 PROVE SubSeq(pp, 1, k) = SubSeq(cp, 1, k)
    OBVIOUS
  <2>1. k \in Nat /\ \A i \in 1 .. k : pp[i] = cp[i] /\ pp[i] \in Names
    BY <1>2, <1>5, <1>6
  <2>2. PICK a : a = SubSeq(pp, 1, k)
    OBVIOUS
  <2>3. PICK b : b = SubSeq(cp, 1, k)
    OBVIOUS
  <2>4. /\ a \in Seq(Names) /\ Len(a) = k /\ \A i \in 1 .. k : a[i] = pp[i]
        /\ b \in Seq(Names) /\ Len(b) = k /\ \A i \in 1 .. k : b[i] = cp[i]
    BY <1>1, <1>2, <1>5, <1>6, <2>1, <2>2, <2>3
  <2>5. a = b
    BY <2>1, <2>4
  <2> QED BY <2>2, <2>3, <2>5
<1>8. PICK m : m = get_mount_point(cp)
  OBVIOUS
<1>9. PICK mp : mp = get_mount_point(pp)
  OBVIOUS
<1>10. /\ m \in 0 .. n /\ LongestMounted(cp, m)
       /\ mp \in 0 .. n - 1 /\ LongestMounted(pp, mp)
  BY <1>1, <1>6, <1>8, <1>9, MountPoint
<1>11. m \in 0 .. n - 1
  <2>1. m = n => m # 0 /\ Mounted(cp, n)
    BY <1>2, <1>10 DEF LongestMounted
  <2> QED BY <1>1, <1>2, <1>10, <2>1
<1>12. \A k \in 0 .. n - 1 : Mounted(pp, k) <=> Mounted(cp, k)
  BY <1>7 DEF Mounted
<1>13. m = mp
  <2>1. CASE m < mp
    <3>1. mp # 0 /\ mp \in m + 1 .. n
      BY <1>2, <1>10, <1>11, <2>1
    <3> QED BY <1>1, <1>10, <1>12, <3>1 DEF LongestMounted
  <2>2. CASE mp < m
    <3>1. m # 0 /\ m \in mp + 1 .. n - 1
      BY <1>2, <1>10, <1>11, <2>2
    <3> QED BY <1>6, <1>10, <1>11, <1>12, <3>1 DEF LongestMounted
  <2> QED BY <1>10, <2>1, <2>2
<1>14. PICK f : f = Mounts[SubSeq(cp, 1, m)]
  OBVIOUS
<1>15. PICK g : TrailFrom(find, pp, m, f, g) /\ u = g[n - 1]
  BY <1>3, <1>6, <1>7, <1>9, <1>11, <1>13, <1>14 DEF Leads
<1>16. PICK h : TrailFrom(find2, cp, m, f, h) /\ v = h[n]
  BY <1>1, <1>8, <1>14 DEF Leads
<1>17. /\ g \in [m .. n - 1 -> Files \cup {NoFile}] /\ g[m] = f
       /\ \A k \in m + 1 .. n - 1 :
            g[k] = IF g[k - 1] = NoFile THEN NoFile ELSE find[g[k - 1]][cp[k]]
  <2>1. \A k \in m + 1 .. n - 1 : pp[k] = cp[k]
    BY <1>2, <1>6, <1>11
  <2> QED BY <1>6, <1>15, <2>1 DEF TrailFrom
<1>18. /\ h[m] = f
       /\ \A k \in m + 1 .. n :
            h[k] = IF h[k - 1] = NoFile THEN NoFile ELSE find2[h[k - 1]][cp[k]]
  BY <1>1, <1>16 DEF TrailFrom
<1> DEFINE Good == {k \in 0 .. n - 1 : k >= m /\ g[k] # NoFile => h[k] = g[k]}
<1>19. 0 \in Good
  <2>1. 0 >= m => m = 0
    BY <1>11
  <2> QED BY <1>2, <1>17, <1>18, <2>1
<1>20. ASSUME NEW k \in 1 .. n - 1, k - 1 \in Good PROVE k \in Good
  <2>1. k \in 0 .. n - 1
    BY <1>2
  <2>2. SUFFICES ASSUME k >= m, g[k] # NoFile PROVE h[k] = g[k]
    BY <2>1
  <2>3. CASE k = m
    BY <1>17, <1>18, <2>3
  <2>4. CASE k # m
    <3>1. k \in m + 1 .. n - 1 /\ k \in m + 1 .. n /\ k - 1 \in m .. n - 1 /\ k - 1 >= m /\ k \in 1 .. n
      BY <1>2, <1>11, <2>2, <2>4
    <3>2. g[k - 1] # NoFile /\ g[k] = find[g[k - 1]][cp[k]] /\ g[k - 1] \in Files
      BY <1>17, <2>2, <3>1
    <3>3. h[k - 1] = g[k - 1]
      BY <1>20, <3>1, <3>2
    <3>4. find2[g[k - 1]][cp[k]] = g[k]
      BY <1>5, <2>2, <3>1, <3>2 DEF Finds
    <3> QED BY <1>18, <3>1, <3>2, <3>3, <3>4
  <2> QED BY <2>3, <2>4
<1> HIDE DEF Good
<1>21. n - 1 \in Good
  <2>1. 0 .. n - 1 \subseteq Good
    BY <1>2, <1>19, <1>20, Climb
  <2> QED BY <1>2, <2>1
<1>22. h[n - 1] = u
  BY <1>11, <1>15, <1>21 DEF Good
<1>23. n \in m + 1 .. n
  BY <1>2, <1>11
<1>24. Basename(cp) = cp[n]
  BY <1>1 DEF Basename, Last
<1> QED BY <1>16, <1>18, <1>22, <1>23, <1>24

\* There are no sockets.
NoSockets == "sock" \notin MknodTypes /\ \A i \in Inodes : TypesOnDisk[i] # "sock"

NoSocketNow == \A i \in Inodes : type[i] # "sock"

\* The invariant of a system without links and sockets.
PlainInv == VfsInv /\ NamesUnique /\ NoSocketNow

\* fs_finddir, for directories ds and types ty.
SearchIn(ds, ty, f, name) ==
  IF f \in Inodes
  THEN IF ty[f] = "dir" /\ ds[f][name] # << >> /\ ty[Head(ds[f][name])] # "sock"
       THEN Head(ds[f][name]) ELSE NoFile
  ELSE IF f = BootDir /\ name \in DOMAIN Stage THEN Stage[name] ELSE NoFile

\* Where a file can be made there is no entry of that name.
LEMMA NothingThere ==
  ASSUME DiskInv, NoLinkNow, NoSocketNow, NEW cp \in Seq(Names),
         NEW self, self = kopen(cp, {}), NEW parent, parent = kopen(Parent(cp), {}),
         MknodSucceeds(cp, self, parent)
  PROVE  /\ parent.file \in Inodes /\ type[parent.file] = "dir"
         /\ dirs[parent.file][Basename(cp)] = << >>
         /\ Basename(cp) \in Names /\ ~ Mounted(cp, Len(cp))
         /\ Leads(Find, Parent(cp), parent.file)
<1>1. PICK d : d = parent.file
  OBVIOUS
<1>2. PICK name : name = Basename(cp)
  OBVIOUS
<1>3. cp # << >> /\ self.file = NoFile /\ d \in Inodes /\ type[d] = "dir" /\ d # NoFile
  BY <1>1 DEF MknodSucceeds, ParentRefused, FS_ISDIR, TypeOf
<1>4. name \in Names
  <2>1. Len(cp) \in 1 .. Len(cp)
    BY <1>3
  <2> QED BY <1>2, <2>1 DEF Basename, Last
<1>5. Leads(Find, cp, NoFile) /\ Leads(Find, Parent(cp), d)
  BY <1>1, <1>3, KopenLeads, ParentPath
<1>6. PICK find : find = Find
  OBVIOUS
<1>7. ~ Mounted(cp, Len(cp))
  BY <1>5, <1>6, MountLeads
<1>8. Finds(find, find)
  BY DEF Finds
<1>9. NoFile = find[d][name]
  BY <1>2, <1>3, <1>5, <1>6, <1>7, <1>8, LastName
<1>10. fs_finddir(d, name) = NoFile
  BY <1>3, <1>4, <1>6, <1>9, FindIs DEF Files
<1>11. dirs[d][name] = << >>
  <2> SUFFICES ASSUME dirs[d][name] # << >> PROVE FALSE
    OBVIOUS
  <2>1. dirs[d][name] \in Seq(Inodes)
    BY <1>3, <1>4 DEF DiskInv, DiskOK
  <2>2. Head(dirs[d][name]) \in Inodes
    BY <2>1
  <2>3. fs_finddir(d, name) = Head(dirs[d][name])
    BY <1>3, <2>2 DEF fs_finddir, FS_ISDIR, TypeOf, NoSocketNow
  <2> QED BY <1>10, <2>2, <2>3, TreeAssumption DEF Files
<1> QED BY <1>1, <1>2, <1>3, <1>4, <1>5, <1>7, <1>11

\* The directories and types after inode i of type t is given a name, at place p.
Making(ds, ty, d, name, t, i, p, ds2, ty2) ==
  /\ ty[i] = "free" /\ ty2 = [ty EXCEPT ![i] = t]
  /\ ds2 = [ds EXCEPT ![d][name] = InsertAt(@, p, i), ![i] = [n \in Names |-> << >>]]

\* What mknod makes there: the one entry of its name, found by a search that
\* otherwise finds what it did.
LEMMA MknodFinds ==
  ASSUME NEW ds, NEW ty, DiskOK(ds, ty), NEW d \in Inodes, ty[d] = "dir", NEW name \in Names,
         ds[d][name] = << >>, NEW t \in {"reg", "dir", "chr"}, NEW i \in Inodes,
         NEW p \in 1 .. Len(ds[d][name]) + 1,
         NEW ds2, NEW ty2, Making(ds, ty, d, name, t, i, p, ds2, ty2)
  PROVE  /\ SearchIn(ds2, ty2, d, name) = i
         /\ \A f \in Files, n \in Names :
              SearchIn(ds, ty, f, n) # NoFile => SearchIn(ds2, ty2, f, n) = SearchIn(ds, ty, f, n)
         /\ \A e \in Inodes, o \in Names : Len(ds2[e][o]) <= 1 \/ ds2[e][o] = ds[e][o]
<1>0. /\ ty[i] = "free" /\ ty2 = [ty EXCEPT ![i] = t]
      /\ ds2 = [ds EXCEPT ![d][name] = InsertAt(@, p, i), ![i] = [n \in Names |-> << >>]]
  BY DEF Making
<1>1. d # i /\ p = 1
  <2>1. Len(ds[d][name]) = 0
    OBVIOUS
  <2> QED BY <1>0, <2>1
<1>2. InsertAt(ds[d][name], p, i) = <<i>>
  <2>1. InsertAt(<< >>, 1, i) = SubSeq(<< >>, 1, 0) \o <<i>> \o SubSeq(<< >>, 1, 0)
    BY DEF InsertAt
  <2>2. SubSeq(<< >>, 1, 0) = << >>
    OBVIOUS
  <2>3. << >> \o <<i>> \o << >> = <<i>>
    OBVIOUS
  <2> QED BY <1>1, <2>1, <2>2, <2>3
<1>3. ds2[d][name] = <<i>>
  BY <1>0, <1>1, <1>2 DEF DiskOK
<1>4. ASSUME NEW e \in Inodes, NEW o \in Names, <<e, o>> # <<d, name>>
      PROVE  ds2[e][o] = IF e = i THEN << >> ELSE ds[e][o]
  BY <1>0, <1>1, <1>4 DEF DiskOK
<1>5. /\ ty2[i] = t /\ \A e \in Inodes : e # i => ty2[e] = ty[e]
  BY <1>0 DEF DiskOK
<1>6. SearchIn(ds2, ty2, d, name) = i
  <2>1. Head(ds2[d][name]) = i /\ ds2[d][name] # << >>
    <3>1. Head(<<i>>) = i /\ Len(<<i>>) = 1 /\ Len(<< >>) = 0
      OBVIOUS
    <3> QED BY <1>3, <3>1
  <2>2. ty2[d] = "dir" /\ ty2[i] # "sock"
    BY <1>1, <1>5
  <2> QED BY <2>1, <2>2 DEF SearchIn
<1>7. ASSUME NEW f \in Files, NEW n \in Names, SearchIn(ds, ty, f, n) # NoFile
      PROVE  SearchIn(ds2, ty2, f, n) = SearchIn(ds, ty, f, n)
  <2>1. CASE f \notin Inodes
    BY <2>1 DEF SearchIn
  <2>2. CASE f \in Inodes
    <3>1. PICK x : x = Head(ds[f][n])
      OBVIOUS
    <3>2. ty[f] = "dir" /\ ds[f][n] # << >> /\ ty[x] # "sock" /\ SearchIn(ds, ty, f, n) = x
      BY <1>7, <2>2, <3>1 DEF SearchIn
    <3>3. f # i /\ <<f, n>> # <<d, name>>
      BY <1>0, <3>2
    <3>4. ds2[f][n] = ds[f][n]
      BY <1>4, <2>2, <3>3
    <3>5. x \in Inodes /\ NameOf(ds, x, f, n, 1)
      <4>1. ds[f][n] \in Seq(Inodes)
        BY <2>2 DEF DiskOK
      <4> QED BY <2>2, <3>1, <3>2, <4>1 DEF NameOf
    <3>6. x # i
      BY <1>0, <3>5 DEF DiskOK
    <3>7. ty2[f] = ty[f] /\ ty2[x] = ty[x]
      BY <1>5, <2>2, <3>3, <3>5, <3>6
    <3> QED BY <2>2, <3>1, <3>2, <3>4, <3>7 DEF SearchIn
  <2> QED BY <2>1, <2>2
<1>8. ASSUME NEW e \in Inodes, NEW o \in Names
      PROVE  Len(ds2[e][o]) <= 1 \/ ds2[e][o] = ds[e][o]
  <2>1. CASE <<e, o>> = <<d, name>>
    <3>1. Len(<<i>>) <= 1
      OBVIOUS
    <3> QED BY <1>3, <2>1, <3>1
  <2>2. CASE <<e, o>> # <<d, name>>
    <3>1. ds2[e][o] = << >> \/ ds2[e][o] = ds[e][o]
      BY <1>4, <2>2
    <3>2. Len(<< >>) <= 1
      OBVIOUS
    <3> QED BY <3>1, <3>2
  <2> QED BY <2>1, <2>2
<1> QED BY <1>6, <1>7, <1>8

\* The disk stays plain.
PlainStep == NamesUnique' /\ NoSocketNow'

\* A file that is made where a search finds nothing.
LEMMA PlainMknod ==
  ASSUME PlainInv, NoLinks, NEW cp \in Seq(Names),
         NEW self, self = kopen(cp, {}), NEW parent, parent = kopen(Parent(cp), {}),
         NEW t \in {"reg", "dir", "chr"}, fs_mknod(cp, self, parent, t)
  PROVE  /\ PlainStep
         /\ MknodSucceeds(cp, self, parent) =>
              /\ Finds(Find, Find')
              /\ (Find')[parent.file][Basename(cp)] \in Inodes
              /\ type[(Find')[parent.file][Basename(cp)]] = "free"
<1>0. DiskInv /\ NamesUnique /\ NoSocketNow /\ NoLinkNow
  BY StillNoLinks DEF PlainInv, VfsInv
<1>1. CASE ~ MknodSucceeds(cp, self, parent)
  <2>1. UNCHANGED <<dirs, type>>
    BY <1>1 DEF fs_mknod, disk
  <2> QED BY <1>0, <1>1, <2>1 DEF PlainStep, NamesUnique, NoSocketNow
<1>2. CASE MknodSucceeds(cp, self, parent)
  <2>1. PICK d : d = parent.file
    OBVIOUS
  <2>2. PICK name : name = Basename(cp)
    OBVIOUS
  <2>3. d \in Inodes /\ type[d] = "dir" /\ dirs[d][name] = << >> /\ name \in Names
    BY <1>0, <1>2, <2>1, <2>2, NothingThere
  <2>4. ext2fs_mknod(d, name, t)
    BY <1>2, <2>1, <2>2 DEF fs_mknod
  <2>5. PICK i \in Inodes, p \in 1 .. Len(dirs[d][name]) + 1 :
          /\ type[i] = "free"
          /\ type' = [type EXCEPT ![i] = t]
          /\ dirs' = [dirs EXCEPT ![d][name] = InsertAt(@, p, i), ![i] = [n \in Names |-> << >>]]
    BY <2>4 DEF ext2fs_mknod
  <2>6. PICK ds2 : ds2 = dirs'
    OBVIOUS
  <2>7. PICK ty2 : ty2 = type'
    OBVIOUS
  <2>8. /\ SearchIn(ds2, ty2, d, name) = i
        /\ \A f \in Files, n \in Names :
             SearchIn(dirs, type, f, n) # NoFile => SearchIn(ds2, ty2, f, n) = SearchIn(dirs, type, f, n)
        /\ \A e \in Inodes, o \in Names : Len(ds2[e][o]) <= 1 \/ ds2[e][o] = dirs[e][o]
    <3>1. Making(dirs, type, d, name, t, i, p, ds2, ty2)
      BY <2>5, <2>6, <2>7 DEF Making
    <3>2. DiskOK(dirs, type)
      BY <1>0 DEF DiskInv
    <3> QED BY <2>3, <3>1, <3>2, MknodFinds
  <2>9. NamesUnique'
    BY <1>0, <2>6, <2>8 DEF NamesUnique
  <2>10. NoSocketNow'
    BY <1>0, <2>5 DEF NoSocketNow, DiskInv, DiskOK
  <2>11. PICK find2 : find2 = Find'
    OBVIOUS
  <2>12. \A f \in Files, n \in Names :
           Find[f][n] = SearchIn(dirs, type, f, n) /\ find2[f][n] = SearchIn(ds2, ty2, f, n)
    <3>1. \A f \in Files, n \in Names : Find[f][n] = SearchIn(dirs, type, f, n)
      BY DEF Find, fs_finddir, FS_ISDIR, TypeOf, SearchIn
    <3>2. \A f \in Files, n \in Names : (Find')[f][n] = SearchIn(ds2, ty2, f, n)
      BY <2>6, <2>7 DEF Find, fs_finddir, FS_ISDIR, TypeOf, SearchIn
    <3> QED BY <2>11, <3>1, <3>2
  <2>13. Finds(Find, find2)
    BY <2>8, <2>12 DEF Finds
  <2>14. find2[d][name] = i
    BY <2>3, <2>8, <2>12 DEF Files
  <2> QED BY <2>1, <2>2, <2>5, <2>9, <2>10, <2>11, <2>13, <2>14 DEF PlainStep
<1> QED BY <1>1, <1>2

LEMMA PlainUnlink ==
  ASSUME PlainInv, NEW cp \in Seq(Names), NEW self, NEW parent, fs_unlink(cp, self, parent)
  PROVE  PlainStep
<1>0. DiskInv /\ NamesUnique /\ NoSocketNow
  BY DEF PlainInv, VfsInv
<1>1. CASE ~ UnlinkSucceeds(cp, self, parent)
  <2>1. UNCHANGED <<dirs, type>>
    BY <1>1 DEF fs_unlink, disk
  <2> QED BY <1>0, <2>1 DEF PlainStep, NamesUnique, NoSocketNow
<1>2. CASE UnlinkSucceeds(cp, self, parent)
  <2>1. PICK d : d = parent.file
    OBVIOUS
  <2>2. PICK name : name = Basename(cp)
    OBVIOUS
  <2>3. cp # << >> /\ d \in Inodes
    BY <1>2, <2>1 DEF UnlinkSucceeds, ParentRefused
  <2>4. name \in Names
    <3>1. Len(cp) \in 1 .. Len(cp)
      BY <2>3
    <3> QED BY <2>2, <3>1 DEF Basename, Last
  <2>5. ext2fs_unlink(d, name)
    BY <1>2, <2>1, <2>2 DEF fs_unlink
  <2>6. PICK i : i = Head(dirs[d][name])
    OBVIOUS
  <2>7. PICK ds2 : ds2 = dirs'
    OBVIOUS
  <2>8. PICK ty2 : ty2 = type'
    OBVIOUS
  <2>9. Removal(dirs, type, d, name, i, ds2, ty2)
    BY <2>5, <2>6, <2>7, <2>8 DEF ext2fs_unlink, Removal
  <2>10. DiskOK(ds2, ty2) /\ \A e \in Inodes, o \in Names : Len(ds2[e][o]) <= Len(dirs[e][o])
    BY <1>0, <2>3, <2>4, <2>9, UnlinkEntries DEF DiskInv
  <2>11. NamesUnique'
    <3>1. ASSUME NEW e \in Inodes, NEW o \in Names PROVE Len(ds2[e][o]) <= 1
      <4>1. dirs[e][o] \in Seq(Inodes) /\ ds2[e][o] \in Seq(Inodes)
        BY <1>0, <2>10 DEF DiskInv, DiskOK
      <4>2. Len(dirs[e][o]) \in Nat /\ Len(ds2[e][o]) \in Nat
        BY <4>1
      <4> QED BY <1>0, <2>10, <4>2 DEF NamesUnique
    <3> QED BY <2>7, <3>1 DEF NamesUnique
  <2>12. NoSocketNow'
    BY <1>0, <2>8, <2>9 DEF NoSocketNow, Removal, DiskInv, DiskOK
  <2> QED BY <2>11, <2>12 DEF PlainStep
<1> QED BY <1>1, <1>2

LEMMA PlainUnchanged ==
  ASSUME PlainInv, UNCHANGED disk PROVE PlainStep
BY DEF PlainInv, disk, PlainStep, NamesUnique, NoSocketNow

LEMMA PlainOpen ==
  ASSUME PlainInv, NoLinks, NEW p \in Paths, NEW fl, sys_open(p, fl)
  PROVE  PlainStep
<1>1. p \in Path /\ wd_path \in Seq(Names)
  BY VfsAssumption DEF PlainInv, VfsInv
<1>2. PICK cp : cp = canonicalize_path(wd_path, p)
  OBVIOUS
<1>3. PICK self : self = kopen(cp, {})
  OBVIOUS
<1>4. PICK parent : parent = kopen(Parent(cp), {})
  OBVIOUS
<1>5. cp \in Seq(Names)
  BY <1>1, <1>2, CanonicalPath
<1>6. UNCHANGED disk \/ fs_mknod(cp, self, parent, "reg")
  BY <1>2, <1>3, <1>4 DEF sys_open, fstate, disk
<1>7. fs_mknod(cp, self, parent, "reg") => PlainStep
  <2>1. PICK t \in {"reg", "dir", "chr"} : t = "reg"
    OBVIOUS
  <2>2. fs_mknod(cp, self, parent, t) => PlainStep
    BY <1>3, <1>4, <1>5, PlainMknod
  <2> QED BY <2>1, <2>2
<1> QED BY <1>6, <1>7, PlainUnchanged

LEMMA PlainMake ==
  ASSUME PlainInv, NoLinks, NoSockets, NEW p \in Paths, NEW t \in MknodTypes, sys_mknod(p, t)
  PROVE  PlainStep
<1>1. p \in Path /\ wd_path \in Seq(Names) /\ t \in {"reg", "dir", "chr"}
  BY VfsAssumption DEF PlainInv, VfsInv, NoSockets
<1>2. PICK cp : cp = canonicalize_path(wd_path, p)
  OBVIOUS
<1>3. PICK self : self = kopen(cp, {})
  OBVIOUS
<1>4. PICK parent : parent = kopen(Parent(cp), {})
  OBVIOUS
<1>5. cp \in Seq(Names)
  BY <1>1, <1>2, CanonicalPath
<1>6. fs_mknod(cp, self, parent, t)
  BY <1>2, <1>3, <1>4 DEF sys_mknod
<1> QED BY <1>1, <1>3, <1>4, <1>5, <1>6, PlainMknod

LEMMA PlainRemove ==
  ASSUME PlainInv, NEW p \in Paths, sys_unlink(p)
  PROVE  PlainStep
<1>1. p \in Path /\ wd_path \in Seq(Names)
  BY VfsAssumption DEF PlainInv, VfsInv
<1>2. PICK cp : cp = canonicalize_path(wd_path, p)
  OBVIOUS
<1>3. PICK self : self = kopen(cp, {})
  OBVIOUS
<1>4. PICK parent : parent = kopen(Parent(cp), {})
  OBVIOUS
<1>5. cp \in Seq(Names)
  BY <1>1, <1>2, CanonicalPath
<1>6. fs_unlink(cp, self, parent)
  BY <1>2, <1>3, <1>4 DEF sys_unlink
<1> QED BY <1>5, <1>6, PlainUnlink

LEMMA PlainInvInit ==
  ASSUME NoSockets, Init PROVE PlainInv
<1>1. NamesUnique /\ NoSocketNow
  BY VfsAssumption DEF Init, NamesUnique, NoSocketNow, NoSockets, DiskIsSound
<1> QED BY <1>1, InvInit DEF PlainInv

LEMMA PlainInvStep ==
  ASSUME NoLinks, NoSockets, PlainInv, [Next]_vars
  PROVE  PlainInv'
<1>1. VfsInv'
  BY InvStep DEF PlainInv
<1>2. PlainStep
  <2>1. CASE UNCHANGED vars
    BY <2>1, PlainUnchanged DEF vars, fstate, disk
  <2>2. ASSUME NEW p \in Paths, NEW fl \in OpenFlags, sys_open(p, fl) PROVE PlainStep
    BY <2>2, PlainOpen
  <2>3. ASSUME NEW fd \in 1 .. Len(fds), sys_close(fd) PROVE PlainStep
    BY <2>3, PlainUnchanged DEF sys_close, fstate, disk
  <2>4. ASSUME NEW fd \in 1 .. Len(fds), NEW n \in 0 .. 1, sys_read(fd, n) PROVE PlainStep
    BY <2>4, PlainUnchanged DEF sys_read, fstate, disk
  <2>5. ASSUME NEW fd \in 1 .. Len(fds), NEW n \in 0 .. 1, sys_write(fd, n) PROVE PlainStep
    BY <2>5, PlainUnchanged DEF sys_write
  <2>6. ASSUME NEW fd \in 1 .. Len(fds), NEW off \in {-1, 0, 1},
               NEW whence \in {"SEEK_SET", "SEEK_CUR", "SEEK_END"}, sys_seek(fd, off, whence)
        PROVE  PlainStep
    BY <2>6, PlainUnchanged DEF sys_seek, fstate, disk
  <2>7. ASSUME NEW p \in Paths, NEW t \in MknodTypes, sys_mknod(p, t) PROVE PlainStep
    BY <2>7, PlainMake
  <2>8. ASSUME NEW p \in Paths, sys_unlink(p) PROVE PlainStep
    BY <2>8, PlainRemove
  <2>9. ASSUME NEW p \in Paths, sys_chdir(p) PROVE PlainStep
    BY <2>9, PlainUnchanged DEF sys_chdir, fstate, disk
  <2> QED BY <2>1, <2>2, <2>3, <2>4, <2>5, <2>6, <2>7, <2>8, <2>9 DEF Next
<1> QED BY <1>1, <1>2 DEF PlainInv, PlainStep

LEMMA PlainInvariance == NoLinks /\ NoSockets /\ Spec => []PlainInv
<1> SUFFICES ASSUME NoLinks /\ NoSockets PROVE Spec => []PlainInv
  OBVIOUS
<1>1. Init => PlainInv
  BY PlainInvInit
<1>2. PlainInv /\ [Next]_vars => PlainInv'
  BY PlainInvStep
<1> QED BY <1>1, <1>2, PTL DEF Spec

\* Without links and sockets, the files a path can lead to and kopen not return,
\* fs_mknod's test for the path keeps the names of a directory apart.
THEOREM NamesStayUnique == NoLinks /\ NoSockets /\ Spec => []NamesUnique
<1>1. PlainInv => NamesUnique
  BY DEF PlainInv
<1> QED BY <1>1, PlainInvariance, PTL

LEMMA NoLinksFormula == DiskInv /\ NoLinks => NoLinkNow
BY StillNoLinks

LEMMA NoLinksPrimed == (DiskInv /\ NoLinks => NoLinkNow)'
BY NoLinksFormula, PTL

\* A new descriptor of an exclusive open has a node of a file that was free.
LEMMA ExclusiveStep ==
  ASSUME PlainInv, NoLinks, NEW p \in Paths, NEW fl, {"O_CREAT", "O_EXCL"} \subseteq fl.set,
         sys_open(p, fl), NEW fd \in 1 .. Len(fds'), fds'[fd].node # NULL, ~ FD_CHECK(fd)
  PROVE  fds'[fd].node \in NodeIds /\ type[nodes'[fds'[fd].node].file] = "free"
<1>0. /\ p \in Path /\ wd_path \in Seq(Names) /\ DiskInv /\ RoomForNodes /\ NoSocketNow /\ NoLinkNow
      /\ wd_path' = wd_path /\ size \in [Inodes -> Nat] /\ fds \in Seq(Entry)
      /\ HeldOK(fds, wd_node, nodes, type) /\ VfsInv /\ nodes \in Heaps
  BY VfsAssumption, StillNoLinks DEF PlainInv, VfsInv, HeldOK, HeapOK, sys_open, cwd
<1>1. fds' # fds
  BY DEF FD_CHECK
<1>2. PICK cp : cp = canonicalize_path(wd_path, p)
  OBVIOUS
<1>3. cp \in Seq(Names) /\ Parent(cp) \in Seq(Names)
  BY <1>0, <1>2, CanonicalPath, ParentPath
<1>4. PICK flags : flags = WalkFlags(fl)
  OBVIOUS
<1>5. PICK self : self = kopen(cp, {})
  OBVIOUS
<1>6. PICK parent : parent = kopen(Parent(cp), {})
  OBVIOUS
<1>7. PICK r2 : r2 = kopen(canonicalize_path(wd_path, p), WalkFlags(fl))'
  OBVIOUS
<1>8. PICK nds : nds = mknod_nodes(cp, self, parent)
  OBVIOUS
<1>9. Exclusive(fl) /\ "O_CREAT" \in fl.set
  BY DEF Exclusive
<1>10. /\ fs_mknod(cp, self, parent, "reg") /\ MknodSucceeds(cp, self, parent)
       /\ r2.file # NoFile
       /\ Bind(fl, r2, FS_ISDIR(r2.file)', (TypeOf(r2.file) = "reg")', nds, SizeAfterMknod)
  BY <1>1, <1>2, <1>5, <1>6, <1>7, <1>8, <1>9 DEF sys_open, table
<1>11. PICK isDir : isDir = FS_ISDIR(r2.file)'
  OBVIOUS
<1>12. PICK isReg : isReg = (TypeOf(r2.file) = "reg")'
  OBVIOUS
<1>13. PICK sz : sz = SizeAfterMknod
  OBVIOUS
<1>14. Bind(fl, r2, isDir, isReg, nds, sz)
  BY <1>10, <1>11, <1>12, <1>13
<1>15. PICK off : off = (IF "O_APPEND" \in fl.set THEN NodeSize(r2.file, sz) ELSE 0)
  OBVIOUS
<1>16. /\ nodes' = WithOpened(nds, r2, sz)
       /\ process_add_fd([node |-> Opened(nds, r2), mode |-> Access(fl), off |-> off])
  BY <1>1, <1>14, <1>15 DEF Bind, table
\* The file is the one that was made.
<1>17. DiskInv'
  BY <1>0, <1>3, <1>10, MknodStep DEF DiskStep
<1>18. PICK t \in {"reg", "dir", "chr"} : t = "reg"
  OBVIOUS
<1>19. fs_mknod(cp, self, parent, t)
  BY <1>10, <1>18
<1>20. PICK d : d = parent.file
  OBVIOUS
<1>21. PICK find2 : find2 = Find'
  OBVIOUS
<1>22. /\ Finds(Find, find2) /\ find2[d][Basename(cp)] \in Inodes
       /\ type[find2[d][Basename(cp)]] = "free"
  BY <1>3, <1>5, <1>6, <1>10, <1>19, <1>20, <1>21, PlainMknod
<1>23. d \in Inodes /\ ~ Mounted(cp, Len(cp)) /\ Leads(Find, Parent(cp), d)
  BY <1>0, <1>3, <1>5, <1>6, <1>10, <1>20, NothingThere
<1>24. r2 = kopen(cp, flags)'
  BY <1>0, <1>2, <1>4, <1>7
<1>25. Leads(find2, cp, r2.file)
  <2>1. NoLinkNow'
    BY <1>17, NoLinksPrimed
  <2>2. Leads(Find, cp, kopen(cp, flags).file)'
    BY <1>3, <1>17, <2>1, LeadsPrimed
  <2>3. Leads(Find', cp, r2.file)
    BY <1>24, <2>2
  <2> QED BY <1>21, <2>3
<1>26. r2.file = find2[d][Basename(cp)]
  <2>1. cp # << >> /\ d # NoFile
    BY <1>10, <1>20 DEF MknodSucceeds, ParentRefused
  <2>2. PICK find : find = Find
    OBVIOUS
  <2> QED BY <1>3, <1>22, <1>23, <1>25, <2>1, <2>2, LastName
<1>27. r2.file \in Inodes /\ type[r2.file] = "free" /\ r2.file \notin StaticNodes
  BY <1>22, <1>26, TreeAssumption
\* Its node is new, and it is what the descriptor has.
<1>28. Found(r2)
  <2>1. Ended(kopen(cp, flags))'
    BY <1>3, <1>17, KopenPrimed
  <2>2. Ended(r2)'
    BY <1>24, <2>1
  <2>3. Found(r2)'
    BY <1>10, <1>17, <2>2, EndedPrimed
  <2> QED BY <2>3 DEF Found
<1>29. (\E n : Unused(nds, n)) /\ nds \in Heaps /\ sz \in [Inodes -> Nat]
  <2>1. self.file # NoFile => Found(self)
    BY <1>0, <1>3, <1>5, KopenFound
  <2>2. parent.file # NoFile => Found(parent)
    BY <1>0, <1>3, <1>6, KopenFound
  <2>3. Spared(nodes, nds)
    BY <1>0, <1>8, <2>1, <2>2, MknodNodes
  <2> QED BY <1>0, <1>13, <2>3, Room, OneLeft, SizesStay DEF Spared
<1>30. Opened(nds, r2) \in NodeIds /\ Fresh(nds, Opened(nds, r2), r2, nodes')
  BY <1>16, <1>27, <1>28, <1>29, OpenedFresh
<1>31. nodes'[Opened(nds, r2)].file = r2.file
  BY <1>30 DEF Fresh
<1>32. PICK e : e = [node |-> Opened(nds, r2), mode |-> Access(fl), off |-> off]
  OBVIOUS
<1>33. off \in Nat
  BY <1>15, <1>29, VfsAssumption DEF NodeSize
<1>34. e \in Entry /\ e.node = Opened(nds, r2) /\ process_add_fd(e)
  BY <1>16, <1>30, <1>32, <1>33 DEF Entry, Handles, Mode, Access
<1>35. PICK pos : AddedAt(fds, pos, e, fds')
  BY <1>0, <1>34, AddFd
<1>36. fds'[fd] = e
  BY <1>35 DEF AddedAt, FD_CHECK
<1> QED BY <1>27, <1>30, <1>31, <1>34, <1>36

\* On such a disk an open with O_CREAT and O_EXCL that succeeds returns the file
\* it made, which its second walk finds although mknod changed the directory.
THEOREM ExclusiveIsFresh == NoLinks /\ NoSockets /\ Spec => ExclusiveOpenIsFresh
<1> DEFINE IsNew ==
      \A fd \in 1 .. Len(fds') :
        /\ fds'[fd].node # NULL /\ ~ FD_CHECK(fd)
        /\ fds'[fd].node \notin NodeIds \/ type[nodes'[fds'[fd].node].file] # "free"
        => ~ \E p \in Paths, fl \in OpenFlags :
               {"O_CREAT", "O_EXCL"} \subseteq fl.set /\ sys_open(p, fl)
<1> SUFFICES ASSUME NoLinks /\ NoSockets PROVE Spec => ExclusiveOpenIsFresh
  OBVIOUS
<1>1. PlainInv => IsNew
  BY ExclusiveStep
<1>2. PlainInv /\ [Next]_vars => [IsNew]_vars
  BY <1>1
<1> HIDE DEF IsNew
<1>3. Spec => [][IsNew]_vars
  BY <1>2, PlainInvariance, PTL DEF Spec
<1> QED BY <1>3 DEF ExclusiveOpenIsFresh, IsNew
=============================================================================
