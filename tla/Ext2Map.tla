------------------------------- MODULE Ext2Map -------------------------------
(***************************************************************************)
(* Where the blocks of an ext2 inode are: the arithmetic of                *)
(* src/kernel/fs/ext2fs.c on direct, singly, doubly and triply indirect    *)
(* blocks.  A block of an inode is named by the path of indices that leads *)
(* to it: <<i>> for i_block[i], <<i, j>> for entry j of the indirect block *)
(* i_block[i], and so on.  i_blocks is counted in blocks, not in disk      *)
(* sectors.                                                                *)
(***************************************************************************)
EXTENDS Integers, Sequences

CONSTANTS NDIR,   \* EXT2_NDIR_BLOCKS
          P       \* block numbers per block, fs->block_sz / sizeof(uint32_t)

ASSUME MapAssumption == NDIR \in Nat \ {0} /\ P \in Nat \ {0}

SIND == NDIR
DIND == NDIR + 1
TIND == NDIR + 2

\* Content blocks reachable without the doubly, and without the triply
\* indirect block.
UpToSind == NDIR + P
UpToDind == NDIR + P + P * P
UpToTind == NDIR + P + P * P + P * P * P

CeilDiv(a, b) == (a + b - 1) \div b

\* Mutant: the doubly indirect block itself is not counted.
get_block_count_NoDind(n) ==
  CASE n <= NDIR     -> n
    [] NDIR < n /\ n <= UpToSind -> n + 1
    [] OTHER         -> n + 1 + CeilDiv(n - UpToSind, P)

\* The blocks an inode with n content blocks takes up.
get_block_count(n) ==
  CASE n <= NDIR                     -> n
    [] NDIR < n /\ n <= UpToSind     -> n + 1
    [] UpToSind < n /\ n <= UpToDind -> n + 1 + 1 + CeilDiv(n - UpToSind, P)
    [] OTHER ->
         LET a == n - UpToDind
             b == CeilDiv(a, P * P)
             c == 1 + ((a - 1) % (P * P))
         IN  n + 1 + 1 + P + 1 + b + (b - 1) * P + CeilDiv(c, P)

\* The content blocks of an inode that takes up this many.
get_content_blocks(blocks) ==
  CASE blocks <= NDIR                                           -> blocks
    [] NDIR < blocks /\ blocks <= UpToSind + 1                  -> blocks - 1
    [] UpToSind + 1 < blocks /\ blocks <= UpToDind + 1 + 1 + P  ->
         LET a == blocks - NDIR - P - 1 - 1 - 1
         IN  blocks - (1 + 1 + 1 + a \div (P + 1))
    [] OTHER ->
         LET a == blocks - UpToDind - 1 - 1 - P - 1 - 1
             full == P * P + P + 1
         IN  blocks - (1 + 1 + P + 1 + 1 + 1 + (P + 1) * (a \div full)
                         + ((a % full) - 1) \div (P + 1))

\* Where get_real_block and set_real_block find content block n.
RealPath(n) ==
  CASE n < NDIR                       -> <<n>>
    [] NDIR <= n /\ n < UpToSind      -> <<SIND, n - NDIR>>
    [] UpToSind <= n /\ n < UpToDind  ->
         LET a == n - UpToSind IN <<DIND, a \div P, a % P>>
    [] OTHER ->
         LET a == n - UpToDind
             r == a % (P * P)
         IN  <<TIND, a \div (P * P), r \div P, r % P>>

\* Mutant: the singly indirect block is passed over.
FreePath_NoSind(k) ==
  IF k < NDIR THEN <<k>> ELSE <<SIND, k - NDIR>>

\* What free_inode_block(k) frees, k counting indirect blocks too: in the doubly
\* and triply indirect ranges the code divides by P * P + P (and by P more for
\* each level), as if an indirect block were P blocks larger than it is.
FreePath(k) ==
  LET dind == k - NDIR - P - 1
      a == dind - 1
      tind == k - UpToDind - 1 - 1 - P
      t == tind - 1
      big == P * P * P + P * P + P
      small == P * P + P
      u == t % big
      v == (u - 1) % small
  IN  CASE k < NDIR                                          -> <<k>>
        [] k = NDIR                                          -> <<SIND>>
        [] NDIR < k /\ k < NDIR + P + 1                      -> <<SIND, k - NDIR - 1>>
        [] dind = 0                                          -> <<DIND>>
        [] dind > 0 /\ tind < 0 /\ a % small = 0             -> <<DIND, a \div small>>
        [] dind > 0 /\ tind < 0 /\ a % small # 0             ->
             <<DIND, a \div small, (a % small) - 1>>
        [] tind = 0                                          -> <<TIND>>
        [] tind > 0 /\ u = 0                                 -> <<TIND, t \div big>>
        [] tind > 0 /\ u # 0 /\ v = 0                        ->
             <<TIND, t \div big, (u - 1) \div small>>
        [] OTHER ->
             <<TIND, t \div big, (u - 1) \div small, v - 1>>
=============================================================================
