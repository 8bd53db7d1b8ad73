------------------------------- MODULE FsDisk -------------------------------
(***************************************************************************)
(* The layers of kernel/fs/fs.c below the system calls: block writes,      *)
(* bitmaps, inodes, directory entries and name lookup.                     *)
(*                                                                         *)
(* A system call runs with interrupts closed, so it is a function on       *)
(* records s = [d, m, log]: the card, the kernel's buffers, and the states *)
(* the card has gone through, one per block written.  The power may fail   *)
(* between any two of them.                                                *)
(***************************************************************************)
EXTENDS Integers, Sequences, FiniteSets, SequencesExt

CONSTANTS
  Names,                 \* file names, without "." and ".."
  INODE_NUM,             \* 8192
  BLOCK_NUM,             \* 262144
  DENTRY_NUM_PER_BLOCK,  \* 32
  MAX_DIRECT_NUM,        \* 12
  BLOCK_SIZE             \* 4096, in units of file data

ASSUME FsDiskAssumption ==
  /\ INODE_NUM \in Nat \ {0}
  /\ BLOCK_NUM \in Nat /\ BLOCK_NUM > 4
  /\ DENTRY_NUM_PER_BLOCK \in Nat /\ DENTRY_NUM_PER_BLOCK > 2
  /\ MAX_DIRECT_NUM \in Nat \ {0}
  /\ BLOCK_SIZE \in Nat \ {0}

\* One block for each of superblock, block bitmap, inode bitmap, inode table.
DATA_BLOCK_INDEX == 4

\* Callers use the error codes, and -1 for a name that is not found, as inode
\* and block numbers.  Modulo 2^32 inodes -1 and -2 lie in the unused end of
\* the inode bitmap's block and block -3 just below the file system: storage
\* of the card, which is zero at first.
ERROR_NO_FREE_INODE == -2
ERROR_NO_FREE_BLOCK == -3

Inodes == 0..INODE_NUM-1
InodeSlots == -2..INODE_NUM-1
DataBlocks == (DATA_BLOCK_INDEX..BLOCK_NUM-1) \cup {ERROR_NO_FREE_BLOCK}
Slots == 0..DENTRY_NUM_PER_BLOCK-1

\* The words of an inode from i_direct_table on: the direct pointers, the
\* three indirect pointers and i_num, next to each other in memory.
I_NUM == MAX_DIRECT_NUM + 3
ZeroInode == [fmode |-> "none", links_cnt |-> 0, fnum |-> 0,
              ptr |-> [k \in 0..I_NUM |-> 0]]

ZeroDentry == [inum |-> 0, name |-> ""]

\* A block seen as directory entries, as file data and, past the first two
\* entries, as the path of a symbolic link.
ZeroBlock == [den |-> [j \in Slots |-> ZeroDentry],
              txt |-> [k \in 0..BLOCK_SIZE-1 |-> 0],
              path |-> <<>>]

\* The superblock read as a directory: one entry with a number and no name.
SuperblockAsBlock == [ZeroBlock EXCEPT !.den[0] = [inum |-> 1, name |-> ""]]

ZeroFd == [inum |-> 0, mode |-> 0, r_offset |-> 0, w_offset |-> 0]

-----------------------------------------------------------------------------
\* Block input and output.  A block number outside the data area occurs only
\* for the pointer 0, the superblock, and for numbers outside the card.
read_block(s, b) ==
  IF b \in DataBlocks THEN s.d.blk[b]
  ELSE IF b = 0 THEN SuperblockAsBlock ELSE ZeroBlock

Written(s, d) == [s EXCEPT !.d = d, !.log = Append(@, d)]

write_block(s, b, c) ==
  Written(s, IF b \in DataBlocks THEN [s.d EXCEPT !.blk[b] = c] ELSE s.d)

sync_to_disk_block_bmp(s) == Written(s, [s.d EXCEPT !.bbmp = s.m.bbmp])
sync_to_disk_inode_bmp(s) == Written(s, [s.d EXCEPT !.ibmp = s.m.ibmp])
sync_to_disk_superblock(s) == Written(s, [s.d EXCEPT !.sb = s.m.sb])

sync_from_disk_bmps(s) ==
  [s EXCEPT !.m.bbmp = s.d.bbmp, !.m.ibmp = s.d.ibmp]

\* A bitmap is the set of the indices of its 1 bits.
check_bitmap(bmp, i) == i \in bmp

\* For an error code as index the write is outside the bitmap.
set_bitmap(bmp, i) == bmp \cup ({i} \cap (Inodes \cup 0..BLOCK_NUM-1))

unset_bitmap(bmp, i) == bmp \ {i}

check_block_bmp(s, b) == check_bitmap(s.m.bbmp, b)
check_inode_bmp(s, i) == check_bitmap(s.m.ibmp, i)
set_block_bmp(s, b) == [s EXCEPT !.m.bbmp = set_bitmap(@, b)]
set_inode_bmp(s, i) == [s EXCEPT !.m.ibmp = set_bitmap(@, i)]
unset_block_bmp(s, b) == [s EXCEPT !.m.bbmp = unset_bitmap(@, b)]
unset_inode_bmp(s, i) == [s EXCEPT !.m.ibmp = unset_bitmap(@, i)]

sync_from_disk_inode(s, inum) == s.d.ino[inum]

\* The block of the inode table is read, changed at i_num and written back.
sync_to_disk_inode(s, inode) ==
  LET num == inode.ptr[I_NUM]
  IN  Written(s, IF num \in InodeSlots THEN [s.d EXCEPT !.ino[num] = inode]
                 ELSE s.d)

-----------------------------------------------------------------------------
\* The lowest clear bit of the bitmap in memory.
find_free_inode(s) ==
  LET free == {i \in Inodes : ~check_inode_bmp(s, i)}
  IN  IF free = {} THEN ERROR_NO_FREE_INODE ELSE Min(free)

find_free_block(s) ==
  LET free == {b \in 0..BLOCK_NUM-1 : ~check_block_bmp(s, b)}
  IN  IF free = {} THEN ERROR_NO_FREE_BLOCK ELSE Min(free)

\* Bug: the bit is not set.
MutantTakeBlock(s, b) == [s EXCEPT !.m.sb.free_blocks_cnt = @ - 1]

\* Take inode i or block b: set the bit, write the bitmap, count, write the
\* superblock.
TakeInode(s, i) ==
  LET s1 == sync_to_disk_inode_bmp(set_inode_bmp(s, i))
  IN  sync_to_disk_superblock([s1 EXCEPT !.m.sb.free_inode_cnt = @ - 1])

TakeBlock(s, b) ==
  LET s1 == sync_to_disk_block_bmp(set_block_bmp(s, b))
  IN  sync_to_disk_superblock([s1 EXCEPT !.m.sb.free_blocks_cnt = @ - 1])

\* Bug: the first block is forgotten.
Mutant_release_inode_block(s, inode) ==
  [s EXCEPT !.m.bbmp = @ \ {inode.ptr[k] : k \in 1..MAX_DIRECT_NUM-1}]

\* The direct blocks up to the first empty pointer lose their bits, in memory.
\* Files whose direct table is full are the subject of module BlockMap.
release_inode_block(s, inode) ==
  LET last == {k \in 0..MAX_DIRECT_NUM-1 :
                 \A l \in 0..k : inode.ptr[l] # 0}
  IN  FoldLeft(unset_block_bmp, s, SetToSeq({inode.ptr[k] : k \in last}))

-----------------------------------------------------------------------------
\* Bug: the search ends at the first empty entry.
MutantMatch(s, inode, name) ==
  LET den == read_block(s, inode.ptr[0]).den
      hits == {j \in Slots : den[j].name = name
                             /\ \A l \in 0..j : den[l] # ZeroDentry}
  IN  IF hits = {} THEN -1 ELSE Min(hits)

\* Lookup.  The index j of the inner loop is not reset, so that the loops over
\* the blocks of a directory compare the entries of its first block only.
Match(s, inode, name) ==
  LET den == read_block(s, inode.ptr[0]).den
      hits == {j \in Slots : den[j].name = name}
  IN  IF hits = {} THEN -1 ELSE Min(hits)

find_dentry(s, inode, name) == Match(s, inode, name)

find_file(s, inode, name) ==
  LET j == Match(s, inode, name)
  IN  IF j = -1 THEN -1 ELSE read_block(s, inode.ptr[0]).den[j].inum

\* find_file component by component from an inode.  An empty component, from
\* a leading slash, matches the first empty entry, whose number is 0: the root.
parse_path(s, path, inode) ==
  LET Step(at, name) ==
        LET inum == find_file(s, at.inode, name)
        IN  [inum |-> inum, inode |-> sync_from_disk_inode(s, inum)]
  IN  FoldLeft(Step, [inum |-> -1, inode |-> inode], path).inum

\* separate_path cuts at the last slash.  The parent is one name when the path
\* has one slash; with more it contains slashes and with none it is the first
\* letter of the name: a text, written "/", that names no entry.
ParentName(path) == IF Len(path) = 2 THEN path[1] ELSE "/"
LeafName(path) == IF Len(path) = 1 THEN "/" ELSE Last(path)

-----------------------------------------------------------------------------
\* dnum > i_fnum + 2, for unsigned numbers of which -1 is the largest.
Beyond(dnum, fnum) ==
  fnum + 2 >= 0 /\ (dnum < 0 \/ dnum > fnum + 2)

\* Put a directory entry into slot dnum of the directory: in a new block if
\* the slot's block does not exist.  Both cases count one more file.
write_dentry(s, inode, dnum, dentry) ==
  LET major == dnum \div DENTRY_NUM_PER_BLOCK
      minor == dnum % DENTRY_NUM_PER_BLOCK
      new == inode.ptr[major] = 0
      b == IF new THEN find_free_block(s) ELSE inode.ptr[major]
      inode1 == [inode EXCEPT !.ptr[major] = b]
      inode2 == [inode1 EXCEPT !.fnum = @ + 1]
      s1 == IF new THEN sync_to_disk_inode(TakeBlock(s, b), inode1) ELSE s
      s2 == sync_to_disk_inode(s1, inode2)
      old == IF new THEN ZeroBlock ELSE read_block(s2, b)
  IN  IF dnum \in {0, 1} \/ Beyond(dnum, inode.fnum)
      THEN [s |-> s, inode |-> inode]
      ELSE [s |-> write_block(s2, b, [old EXCEPT !.den[minor] = dentry]),
            inode |-> inode2]

Append_dentry(s, inode, dentry) ==
  write_dentry(s, inode, inode.fnum + 2, dentry).s

\* Bug: the count is the number of files that are left.
Mutant_remove_dentry(s, inode, dnum) ==
  LET w == write_dentry(s, inode, dnum, ZeroDentry)
      new == [w.inode EXCEPT !.fnum = @ - 2]
  IN  [s |-> sync_to_disk_inode(w.s, new), inode |-> new]

\* An empty entry is written, which counts a file, and the count is taken back.
remove_dentry(s, inode, dnum) ==
  LET w == write_dentry(s, inode, dnum, ZeroDentry)
      inode1 == [w.inode EXCEPT !.fnum = @ - 1]
  IN  [s |-> sync_to_disk_inode(w.s, inode1), inode |-> inode1]

\* A new inode, and the first block of a new directory or symbolic link.
NewInode(fmode, inum, b) ==
  [ZeroInode EXCEPT !.fmode = fmode, !.links_cnt = 1,
                    !.ptr[0] = b, !.ptr[I_NUM] = inum]

DotBlock(inum, parent) ==
  [ZeroBlock EXCEPT !.den[0] = [inum |-> inum, name |-> "."],
                    !.den[1] = [inum |-> parent, name |-> ".."]]
=============================================================================
