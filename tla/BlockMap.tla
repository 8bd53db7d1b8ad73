------------------------------ MODULE BlockMap ------------------------------
(***************************************************************************)
(* The block pointers of an inode of kernel/fs/fs.c: direct ones and three *)
(* levels of blocks of pointers.  Files grow block by block and are        *)
(* released, sharing one bitmap of blocks.                                 *)
(***************************************************************************)
EXTENDS Integers, Sequences, FiniteSets, FiniteSetsExt, Functions

CONSTANTS
  Files,
  FIRST_POINTER,      \* MAX_DIRECT_NUM, 12
  POINTER_PER_BLOCK,  \* 1024
  BLOCK_NUM,          \* the blocks are 1..BLOCK_NUM
  MaxBlocks,          \* bound: blocks of a file
  MaxReleases         \* bound: files released

P == POINTER_PER_BLOCK
SECOND_POINTER == FIRST_POINTER + P
THIRD_POINTER == SECOND_POINTER + P * P
Blocks == 1..BLOCK_NUM

\* No file grows past the last pointer of the third level.
ASSUME BlockMapAssumption ==
  /\ {FIRST_POINTER, POINTER_PER_BLOCK, BLOCK_NUM, MaxBlocks, MaxReleases}
       \subseteq Nat \ {0}
  /\ MaxBlocks <= THIRD_POINTER + P * (P * P)

VARIABLES
  inode,  \* per file: direct and indirect pointers
  blk,    \* blocks of pointers
  used,   \* the bitmap of blocks
  want,   \* per file, the blocks it was given, in order
  gone    \* how many files have been released

vars == <<inode, blk, used, want, gone>>

ZeroInode == [direct |-> [k \in 0..FIRST_POINTER-1 |-> 0],
              indirect |-> [l \in 1..3 |-> 0]]
ZeroBlock == [k \in 0..P-1 |-> 0]

Init ==
  /\ inode = [f \in Files |-> ZeroInode]
  /\ blk = [b \in Blocks |-> ZeroBlock]
  /\ used = {}
  /\ want = [f \in Files |-> <<>>]
  /\ gone = 0

-----------------------------------------------------------------------------
\* The level of an index and the positions in the blocks of pointers on the
\* way to it.
Level(idx) ==
  IF idx < FIRST_POINTER THEN 0
  ELSE IF idx < SECOND_POINTER THEN 1
  ELSE IF idx < THIRD_POINTER THEN 2 ELSE 3

Positions(idx) ==
  CASE Level(idx) = 1 -> <<idx - FIRST_POINTER>>
    [] Level(idx) = 2 -> <<(idx - SECOND_POINTER) \div P,
                           (idx - SECOND_POINTER) % P>>
    [] Level(idx) = 3 -> <<(idx - THIRD_POINTER) \div (P * P),
                           ((idx - THIRD_POINTER) % (P * P)) \div P,
                           (idx - THIRD_POINTER) % P>>

\* Bug: the second and later pointers of a block are looked up one too far.
Mutant_get_block_index_in_inode(b, ino, idx) ==
  IF Level(idx) = 0 THEN ino.direct[idx]
  ELSE IF ino.indirect[1] = 0 THEN -1
  ELSE b[ino.indirect[1]][(idx + 1 - FIRST_POINTER) % P]

\* All three levels start from i_indirect_block_1_ptr.
get_block_index_in_inode(b, ino, idx) ==
  LET Down(at, pos) == IF at \in Blocks THEN b[at][pos] ELSE -1
      root == ino.indirect[1]
      pos == Positions(idx)
  IN  CASE Level(idx) = 0 -> ino.direct[idx]
        [] Level(idx) = 1 -> Down(root, pos[1])
        [] Level(idx) = 2 -> Down(Down(root, pos[1]), pos[2])
        [] Level(idx) = 3 -> Down(Down(Down(root, pos[1]), pos[2]), pos[3])

\* r = [ino, blk, used].  A block of pointers is taken where one is missing.
FreeBlock(r) == Min(Blocks \ r.used)

\* Bug: the new block of pointers is not marked as used.
MutantTakeIndexBlock(r) == [r EXCEPT !.blk[FreeBlock(r)] = ZeroBlock]

TakeIndexBlock(r) ==
  [r EXCEPT !.used = @ \cup {FreeBlock(r)}, !.blk[FreeBlock(r)] = ZeroBlock]

\* Block at is written with the pointers q.
WritePointers(r, at, q) == [r EXCEPT !.blk[at] = q]

WritePointer(r, at, pos, b) ==
  WritePointers(r, at, [r.blk[at] EXCEPT ![pos] = b])

SetRoot(r, level, b) == [r EXCEPT !.ino.indirect[level] = b]

RootOf(r, level) ==
  IF r.ino.indirect[level] # 0 THEN r
  ELSE SetRoot(TakeIndexBlock(r), level, FreeBlock(r))

\* Pointer pos of block at leads to a block of pointers.  The new pointer is
\* written to the block `to`, together with the rest of block `at`.
ChildOf(r, at, pos, to) ==
  IF r.blk[at][pos] # 0 THEN r
  ELSE WritePointers(TakeIndexBlock(r), to, [r.blk[at] EXCEPT ![pos] = FreeBlock(r)])

Level1(r, idx, b) ==
  LET r1 == RootOf(r, 1)
  IN  WritePointer(r1, r1.ino.indirect[1], Positions(idx)[1], b)

Level2(r, idx, b) ==
  LET pos == Positions(idx)
      r1 == RootOf(r, 2)
      top == r1.ino.indirect[2]
      r2 == ChildOf(r1, top, pos[1], top)
  IN  WritePointer(r2, r2.blk[top][pos[1]], pos[2], b)

\* After an index of level 2 the code goes on into the part for level 3, where
\* idx - THIRD_POINTER wraps and the first position is past the end of buffer1.
\* If the word there is 0, two more blocks are taken, the pointers of level 3's
\* first block replace those of level 2's, and b is stored a second time; the
\* word may be overwritten meanwhile, and then the block in the middle does not
\* get its pointer.  If it is not 0, it is a number outside the card.
Level2Wraps(r, idx, b) ==
  LET r1 == RootOf(Level2(r, idx, b), 3)
      low == (idx - THIRD_POINTER) % (P * P)
      mid == FreeBlock(r1)
      r2 == WritePointers(TakeIndexBlock(r1), r1.ino.indirect[2],
                          r1.blk[r1.ino.indirect[3]])
      leaf == FreeBlock(r2)
      r3 == WritePointer(TakeIndexBlock(r2), leaf, low % P, b)
  IN  {r1, r3, WritePointer(r3, mid, low \div P, leaf)}

\* A new pointer of the first block goes to i_indirect_block_2_ptr's block
\* instead; the walk goes on with the pointer in memory.
Level3(r, idx, b) ==
  LET pos == Positions(idx)
      r1 == RootOf(r, 3)
      top == r1.ino.indirect[3]
      mid == IF r1.blk[top][pos[1]] # 0 THEN r1.blk[top][pos[1]]
             ELSE FreeBlock(r1)
      r2 == ChildOf(r1, top, pos[1], r1.ino.indirect[2])
      r3 == ChildOf(r2, mid, pos[2], mid)
  IN  WritePointer(r3, r3.blk[mid][pos[2]], pos[3], b)

\* The results of write_block_index_in_inode.
write_block_index_in_inode(r, idx, b) ==
  CASE Level(idx) = 0 -> {[r EXCEPT !.ino.direct[idx] = b]}
    [] Level(idx) = 1 -> {Level1(r, idx, b)}
    [] Level(idx) = 2 -> Level2Wraps(r, idx, b)
    [] Level(idx) = 3 -> {Level3(r, idx, b)}

-----------------------------------------------------------------------------
\* Blocks below pointer b at a depth, up to the first missing pointer, as the
\* nested loops of release_inode_block meet them; full tells that none was
\* missing.  buf is the content of the card.
Full(buf, b) == \A k \in 0..P-1 : buf[b][k] # 0
UpToGap(buf, b) ==
  {buf[b][k] : k \in {k \in 0..P-1 : \A l \in 0..k : buf[b][l] # 0}}

Below1(buf, b) == {b} \cup UpToGap(buf, b)
Full2(buf, b) == Full(buf, b) /\ \A c \in UpToGap(buf, b) : Full(buf, c)

\* The children of b up to and including the first that is not full.
Below2(buf, b) ==
  LET kids == {k \in 0..P-1 : /\ \A l \in 0..k : buf[b][l] # 0
                              /\ \A l \in 0..k-1 : Full(buf, buf[b][l])}
  IN  {b} \cup UNION {Below1(buf, buf[b][k]) : k \in kids}
Below3(buf, b) ==
  LET kids == {k \in 0..P-1 : /\ \A l \in 0..k : buf[b][l] # 0
                              /\ \A l \in 0..k-1 : Full2(buf, buf[b][l])}
  IN  {b} \cup UNION {Below2(buf, buf[b][k]) : k \in kids}

\* Bug: the block of pointers itself is kept.
Mutant_release_inode_block(r) ==
  LET i1 == r.ino.indirect[1]
      direct == {r.ino.direct[k] : k \in 0..FIRST_POINTER-1}
  IN  r.used \ (direct \cup IF i1 = 0 THEN {} ELSE UpToGap(r.blk, i1))

\* A level is released only when all before it is full.
release_inode_block(r) ==
  LET gap(k) == \E l \in 0..k : r.ino.direct[l] = 0
      i == r.ino.indirect
      direct == {r.ino.direct[k] : k \in {k \in 0..FIRST_POINTER-1 : ~gap(k)}}
      go1 == ~gap(FIRST_POINTER - 1) /\ i[1] # 0
      go2 == go1 /\ Full(r.blk, i[1]) /\ i[2] # 0
      go3 == go2 /\ Full2(r.blk, i[2]) /\ i[3] # 0
  IN  r.used \ (direct \cup (IF go1 THEN Below1(r.blk, i[1]) ELSE {})
                       \cup (IF go2 THEN Below2(r.blk, i[2]) ELSE {})
                       \cup (IF go3 THEN Below3(r.blk, i[3]) ELSE {}))

-----------------------------------------------------------------------------
\* As write_dentry: a block is taken, then its number is stored.
Grow(f) ==
  LET idx == Len(want[f])
      b == Min(Blocks \ used)
  IN  /\ idx < MaxBlocks
      /\ Cardinality(Blocks \ used) >= <<1, 2, 6, 4>>[Level(idx) + 1]
      /\ \E r \in write_block_index_in_inode(
                    [ino |-> inode[f], blk |-> blk, used |-> used \cup {b}],
                    idx, b) :
           /\ inode' = [inode EXCEPT ![f] = r.ino]
           /\ blk' = r.blk
           /\ used' = r.used
      /\ want' = [want EXCEPT ![f] = Append(@, b)]
      /\ UNCHANGED gone

\* As do_rmdir; the number of the inode is then given to a new file.
Release(f) ==
  /\ gone < MaxReleases /\ gone' = gone + 1
  /\ used' = release_inode_block([ino |-> inode[f], blk |-> blk,
                                  used |-> used])
  /\ inode' = [inode EXCEPT ![f] = ZeroInode]
  /\ want' = [want EXCEPT ![f] = <<>>]
  /\ UNCHANGED blk

Next == \E f \in Files : Grow(f) \/ Release(f)

Spec == Init /\ [][Next]_vars

-----------------------------------------------------------------------------
\* The blocks a file was given are found again under the indices they were
\* stored for, direct and of the first level, in whatever order files grow and
\* go: get_block_index_in_inode reads what write_block_index_in_inode wrote,
\* even where pointers of the other levels get lost.
GetFindsWritten ==
  \A f \in Files : \A k \in DOMAIN want[f] : k <= SECOND_POINTER =>
    get_block_index_in_inode(blk, inode[f], k - 1) = want[f][k]

IndexBlocks(f) == {inode[f].indirect[l] : l \in 1..3} \ {0}

\* No block holds the data of two places, or data and pointers, even where
\* pointers get lost and files are released by what is left of them.
GivenOnce ==
  \A f, g \in Files : \A k \in DOMAIN want[f] :
    /\ want[f][k] \notin IndexBlocks(g)
    /\ \A l \in DOMAIN want[g] : want[f][k] = want[g][l] => f = g /\ k = l

\* release_inode_block gives back all blocks of a file with one level of
\* pointers, and nothing else.
ReleaseGivesBack ==
  [][\A f \in Files : (Release(f) /\ Len(want[f]) <= SECOND_POINTER) =>
       used' = used \ (Range(want[f]) \cup IndexBlocks(f))]_vars
=============================================================================
