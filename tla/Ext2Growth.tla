----------------------------- MODULE Ext2Growth -----------------------------
(***************************************************************************)
(* A file that grows one content block at a time, as write_block_inode and *)
(* ext2fs_truncate make it grow, and shrinks from its end as               *)
(* free_inode_blocks does: does the arithmetic of Ext2Map agree with the   *)
(* tree of blocks that is really there?                                    *)
(***************************************************************************)
EXTENDS Ext2Map, FiniteSets

CONSTANTS MaxBlocks,   \* bound on the content blocks of the file
          Shrinkable   \* how many blocks free_inode_blocks gets right

VARIABLES i_blocks,    \* ino->i_blocks
          tree         \* the paths of its blocks, indirect ones too

\* A path has at most four indices; MaxBlocks is below what they reach.
ASSUME GrowthAssumption == MaxBlocks \in 0 .. UpToTind /\ Shrinkable \in Nat

growthVars == <<i_blocks, tree>>

Larger(a, b) == IF a < b THEN b ELSE a
Content == get_content_blocks(i_blocks)

\* Every indirect block on the way is there, or is allocated.
Ancestors(path) == {SubSeq(path, 1, k) : k \in 1 .. Len(path)}

GrowthInit == i_blocks = 0 /\ tree = {}

\* alloc_inode_block for the first block behind the content.
Grow ==
  /\ Content < MaxBlocks
  /\ tree' = tree \union Ancestors(RealPath(Content))
  /\ i_blocks' = Larger(i_blocks, get_block_count(Content + 1))

\* free_inode_blocks(n): the last blocks go, one by one.
Shrink ==
  /\ i_blocks <= Shrinkable
  /\ \E n \in 0 .. Content - 1 :
       LET left == get_block_count(n)
       IN  /\ tree' = tree \ {FreePath(k) : k \in left .. i_blocks - 1}
           /\ i_blocks' = left

GrowthNext == Grow \/ Shrink

GrowthSpec == GrowthInit /\ [][GrowthNext]_growthVars

-----------------------------------------------------------------------------
\* Type correctness: a path has one to four indices.
GrowthTypeOK ==
  /\ i_blocks \in 0 .. get_block_count(MaxBlocks)
  /\ \A path \in tree : Len(path) \in 1 .. 4 /\ \A k \in 1 .. Len(path) : path[k] \in Nat

\* i_blocks counts the blocks that are there, content and indirect: what
\* get_block_count computes when blocks are allocated and free_inode_blocks
\* subtracts when they are freed.
CountIsTree == i_blocks = Cardinality(tree)

\* get_content_blocks is "essentially the inverse of get_block_count": it finds
\* in i_blocks how many of the blocks hold content, and these are the first ones.
ContentIsPrefix ==
  LET leaves == {path \in tree : ~ \E q \in tree : Len(q) > Len(path)
                                     /\ SubSeq(q, 1, Len(path)) = path}
  IN  leaves = {RealPath(n) : n \in 0 .. Content - 1}

=============================================================================
