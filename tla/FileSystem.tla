----------------------------- MODULE FileSystem -----------------------------
(***************************************************************************)
(* The system calls of kernel/fs/fs.c: the commands of the shell on        *)
(* directories, and the file functions of the programs, which share one    *)
(* table of open files and one current directory.  The power may fail      *)
(* between any two block writes; the next start runs init_fs.              *)
(***************************************************************************)
EXTENDS FsDisk

CONSTANTS
  MAX_FILE_DESCRIPTOR_NUM,  \* 32
  Tasks,       \* the programs that use the file functions
  Workloads,   \* sets of calls: those of one are made in a behaviour, and
               \* with "loss" the power may fail
  Makes,       \* the paths given to mkdir
  Removes,     \* the paths given to rmdir
  Visits,      \* the paths given to cd
  Sources,     \* the paths given to ln and ln -s as what to link to
  Lengths,     \* the lengths of reads and writes
  Documented,  \* whether commands are used as their documentation says
  MaxFnum,     \* bound: entries ever appended to a directory
  MaxReused,   \* bound: inodes in use where rmdir frees and reuses them
  MaxData,     \* bound: units written to or read from a file
  MaxLosses    \* bound: power losses

ASSUME FileSystemAssumption ==
  /\ MAX_FILE_DESCRIPTOR_NUM \in Nat \ {0}
  /\ Documented \in BOOLEAN
  /\ Lengths \subseteq Nat \ {0}
  /\ {MaxFnum, MaxReused, MaxData, MaxLosses} \subseteq Nat

FDs == 0..MAX_FILE_DESCRIPTOR_NUM-1

VARIABLES
  disk,    \* the card
  mem,     \* superblock_buffer, the bitmaps, root_inode, current_dir and
           \* file_descriptor_table
  on,      \* whether init_fs has run since the power came on
  losses,  \* how often the power has failed
  fd,      \* what each program holds as the descriptor of its open file
  sent,    \* per inode, what the programs wrote since it was opened
  calls    \* the workload

vars == <<disk, mem, on, losses, fd, sent, calls>>

ZeroSuperblock == [magic |-> FALSE, free_inode_cnt |-> 0,
                   free_blocks_cnt |-> 0]
ZeroMem == [sb |-> ZeroSuperblock, bbmp |-> {}, ibmp |-> {},
            root_inode |-> ZeroInode, current_dir |-> ZeroInode,
            fdt |-> [f \in FDs |-> ZeroFd]]
BlankDisk == [sb |-> ZeroSuperblock, bbmp |-> {}, ibmp |-> {},
              ino |-> [i \in InodeSlots |-> ZeroInode],
              blk |-> [b \in DataBlocks |-> ZeroBlock]]

S == [d |-> disk, m |-> mem, log |-> <<disk>>]

-----------------------------------------------------------------------------
\* Making and finding the file system.

\* The writes of do_mkfs, in their order.  The inode bitmap's block is cleared
\* as a whole, the inode table and the data blocks are not.
do_mkfs(s) ==
  LET root == NewInode("dir", 0, DATA_BLOCK_INDEX)
      s1 == sync_to_disk_block_bmp(
              [s EXCEPT !.m.bbmp = {}, !.m.ibmp = {},
                        !.m.fdt = [f \in FDs |-> ZeroFd]])
      s2 == Written(s1, [s1.d EXCEPT !.ibmp = {}, !.ino[-1] = ZeroInode,
                                     !.ino[-2] = ZeroInode])
      s3 == sync_to_disk_superblock(
              [s2 EXCEPT !.m.sb = [magic |-> TRUE,
                           free_inode_cnt |-> INODE_NUM,
                           free_blocks_cnt |-> BLOCK_NUM - DATA_BLOCK_INDEX]])
      s4 == sync_to_disk_block_bmp(
              [s3 EXCEPT !.m.bbmp = 0..DATA_BLOCK_INDEX-1])
      s5 == TakeBlock(TakeInode(s4, 0), DATA_BLOCK_INDEX)
      s6 == sync_to_disk_inode([s5 EXCEPT !.m.root_inode = root], root)
      s7 == write_block(s6, DATA_BLOCK_INDEX, DotBlock(0, 0))
  IN  [s7 EXCEPT !.m.current_dir = root]

\* Bug: the bitmaps are not read.
Mutant_init_fs(s) ==
  LET root == sync_from_disk_inode(s, 0)
  IN  IF s.d.sb.magic
      THEN [s EXCEPT !.m.sb = s.d.sb, !.m.root_inode = root,
                     !.m.current_dir = root]
      ELSE do_mkfs(s)

init_fs(s) ==
  LET s1 == [s EXCEPT !.m.sb = s.d.sb]
      root == sync_from_disk_inode(s, 0)
  IN  IF s.d.sb.magic
      THEN [sync_from_disk_bmps(s1) EXCEPT !.m.root_inode = root,
                                           !.m.current_dir = root]
      ELSE do_mkfs(s1)

do_statfs(s) == [s EXCEPT !.m.sb = s.d.sb]

-----------------------------------------------------------------------------
\* Directories.

ParentOf(s, path) == find_file(s, s.m.current_dir, ParentName(path))

\* Bug: the entry is added to the parent before the new inode is taken, so
\* that a power failure leaves a name for an inode that is free.
Mutant_do_mkdir(s0, path) ==
  LET s == sync_from_disk_bmps(s0)
      pnum == ParentOf(s, path)
      parent == sync_from_disk_inode(s, pnum)
      inum == find_free_inode(s)
      b == find_free_block(s)
      s1 == Append_dentry(s, parent, [inum |-> inum, name |-> LeafName(path)])
      s2 == TakeBlock(TakeInode(s1, inum), b)
      s3 == sync_to_disk_inode(s2, NewInode("dir", inum, b))
  IN  IF find_dentry(s, parent, LeafName(path)) # -1 THEN s
      ELSE write_block(s3, b, DotBlock(inum, pnum))

do_mkdir(s0, path) ==
  LET s == sync_from_disk_bmps(s0)
      pnum == ParentOf(s, path)
      parent == sync_from_disk_inode(s, pnum)
      inum == find_free_inode(s)
      b == find_free_block(s)
      s1 == TakeBlock(TakeInode(s, inum), b)
      s2 == sync_to_disk_inode(s1, NewInode("dir", inum, b))
      s3 == write_block(s2, b, DotBlock(inum, pnum))
  IN  IF find_dentry(s, parent, LeafName(path)) # -1 THEN s
      ELSE Append_dentry(s3, parent, [inum |-> inum, name |-> LeafName(path)])

\* touch ./name: an inode without blocks.
do_touch(s0, name) ==
  LET s == sync_from_disk_bmps(s0)
      parent == sync_from_disk_inode(s, ParentOf(s, <<".", name>>))
      inum == find_free_inode(s)
      s1 == sync_to_disk_inode(TakeInode(s, inum), NewInode("reg", inum, 0))
  IN  IF find_dentry(s, parent, name) # -1 THEN s
      ELSE Append_dentry(s1, parent, [inum |-> inum, name |-> name])

\* The child's inode and blocks are given back, without counting them, and its
\* entry is cleared.  Nothing is asked about the child.
do_rmdir(s0, path) ==
  LET s == sync_from_disk_bmps(s0)
      parent == sync_from_disk_inode(s, ParentOf(s, path))
      cnum == find_file(s, parent, LeafName(path))
      child == sync_from_disk_inode(s, cnum)
      s1 == sync_to_disk_inode_bmp(unset_inode_bmp(s, cnum))
      s2 == sync_to_disk_block_bmp(release_inode_block(s1, child))
      r == remove_dentry(s2, parent, find_dentry(s2, parent, LeafName(path)))
  IN  sync_to_disk_inode(r.s, r.inode)

\* The entry of old_name is written again under the new name.
do_rename(s, old_name, new_name) ==
  LET parent == sync_from_disk_inode(s, ParentOf(s, <<".", old_name>>))
      cnum == find_file(s, parent, old_name)
  IN  write_dentry(s, parent, find_dentry(s, parent, old_name),
                   [inum |-> cnum, name |-> new_name]).s

\* Down the path, up to three names; a name that is missing ends the walk but
\* not what has been walked.
Walk(s, path) ==
  LET Step(at, name) ==
        LET inum == find_file(s, at.inode, name)
        IN  IF at.found /\ inum # -1
            THEN [found |-> TRUE, inode |-> sync_from_disk_inode(s, inum)]
            ELSE [at EXCEPT !.found = FALSE]
  IN  FoldLeft(Step, [found |-> TRUE, inode |-> s.m.current_dir], path)

do_cd(s, path) ==
  IF Len(path) > 3 THEN s
  ELSE [s EXCEPT !.m.current_dir = Walk(s, path).inode]

\* Whether the file exists.  The name is looked at only when the path is a
\* single name, which is then ignored.
do_find(s, path, name) ==
  IF Len(path) = 1 THEN find_file(s, s.m.current_dir, name) # -1
  ELSE Walk(s, path).found

\* Bug: the path of the link is followed from the current directory.
Mutant_do_ls(s, past) ==
  LET cur == s.m.current_dir
      link == <<".">> \o read_block(s, cur.ptr[0]).path
      dir == sync_from_disk_inode(s, parse_path(s, link, cur))
  IN  {read_block(s, dir.ptr[0]).den[j].name : j \in Slots}

\* The names do_ls collects: those of the current directory, or of what the
\* path of the symbolic link leads to from the root, up to three empty entries
\* in a row.  p[j+1] and p[j+2] may lie past the end of the block: past says
\* whether what is there looks empty.
do_ls(s, past) ==
  LET cur == s.m.current_dir
      link == <<".">> \o read_block(s, cur.ptr[0]).path
      dir == IF cur.fmode = "lnk"
             THEN sync_from_disk_inode(s, parse_path(s, link, s.m.root_inode))
             ELSE cur
      all == 0..(MAX_DIRECT_NUM * DENTRY_NUM_PER_BLOCK - 1)
      at == [k \in all |-> read_block(s, dir.ptr[k \div DENTRY_NUM_PER_BLOCK])
                              .den[k % DENTRY_NUM_PER_BLOCK]]
      empty(k, j) ==
        IF (k % DENTRY_NUM_PER_BLOCK) + j < DENTRY_NUM_PER_BLOCK
        THEN at[k + j] = ZeroDentry ELSE past
      stops == {k \in all : \A j \in 0..2 : empty(k, j)}
  IN  {at[k].name : k \in {k \in all : /\ at[k] # ZeroDentry
                                       /\ \A l \in stops : k < l}}

\* Bug: the link is not counted.
Mutant_do_link(s, src_path, new_path) ==
  Append_dentry(s, sync_from_disk_inode(s,
                     parse_path(s, Front(new_path), s.m.current_dir)),
                [inum |-> parse_path(s, src_path, s.m.current_dir),
                 name |-> Last(new_path)])

\* A second name for a file.
do_link(s, src_path, new_path) ==
  LET inum == parse_path(s, src_path, s.m.current_dir)
      src == sync_from_disk_inode(s, inum)
      parent == sync_from_disk_inode(s,
                  parse_path(s, Front(new_path), s.m.current_dir))
      s1 == sync_to_disk_inode(s, [src EXCEPT !.links_cnt = @ + 1])
  IN  IF src.fmode = "dir" THEN s
      ELSE Append_dentry(s1, parent,
                         [inum |-> inum, name |-> Last(new_path)])

\* A symbolic link with the last name of src_path in the directory new_path.
do_symlink(s0, src_path, new_path) ==
  LET s == sync_from_disk_bmps(s0)
      pnum == parse_path(s, new_path, s.m.current_dir)
      parent == sync_from_disk_inode(s, pnum)
      inum == find_free_inode(s)
      b == find_free_block(s)
      s1 == TakeBlock(TakeInode(s, inum), b)
      s2 == sync_to_disk_inode(s1, NewInode("lnk", inum, b))
      s3 == write_block(s2, b, DotBlock(inum, pnum))
      s4 == write_block(s3, b, [read_block(s3, b) EXCEPT !.path = src_path])
  IN  Append_dentry(s4, parent, [inum |-> inum, name |-> Last(src_path)])

-----------------------------------------------------------------------------
\* Files.

\* The open entry of the inode, or the first empty one.  Past the end of the
\* table the loop runs into other memory: bounded away by HasFd.
do_fopen(s, name) ==
  LET parent == sync_from_disk_inode(s, ParentOf(s, <<".", name>>))
      inum == find_file(s, parent, name)
      same == {f \in FDs : s.m.fdt[f].inum = inum}
      empty == {f \in FDs : s.m.fdt[f] = ZeroFd}
  IN  IF same # {} THEN [s |-> s, fd |-> Min(same)]
      ELSE [s |-> [s EXCEPT !.m.fdt[Min(empty)] =
                     [inum |-> inum, mode |-> 2, r_offset |-> 0,
                      w_offset |-> 0]],
            fd |-> Min(empty)]

\* Past the direct table the last block given to the file by do_fwrite is read
\* as a table of block numbers.
get_block_index_in_inode(s, inode, k) ==
  IF k < MAX_DIRECT_NUM THEN inode.ptr[k]
  ELSE read_block(s, inode.ptr[MAX_DIRECT_NUM]).txt[k - MAX_DIRECT_NUM]

\* A new block for position k of a file.  The pointer is stored without a test
\* that k is within the direct table.
AddBlock(a, k) ==
  LET b == find_free_block(a.s)
      inode == [a.inode EXCEPT !.ptr[MAX_DIRECT_NUM] = b, !.ptr[k] = b]
      s1 == write_block(TakeBlock(a.s, b), b, ZeroBlock)
  IN  [s |-> sync_to_disk_inode(s1, inode), inode |-> inode]

\* The data goes to the blocks begin_block_index .. end_block_index of the card,
\* as if the blocks of the file were next to each other.
do_fwrite(s, f, length, v) ==
  LET e == s.m.fdt[f]
      begin_block == e.w_offset \div BLOCK_SIZE
      end_block == (e.w_offset + length) \div BLOCK_SIZE
      lo == IF e.w_offset = 0 THEN begin_block ELSE begin_block + 1
      a == FoldLeft(AddBlock,
                    [s |-> s, inode |-> sync_from_disk_inode(s, e.inum)],
                    [k \in 1..(end_block - lo + 1) |-> lo + k - 1])
      b == get_block_index_in_inode(a.s, a.inode, begin_block)
      last == get_block_index_in_inode(a.s, a.inode, end_block)
      from == e.w_offset % BLOCK_SIZE
      Put(x, k) ==
        write_block(x, k,
          [read_block(x, k) EXCEPT !.txt =
             [p \in 0..BLOCK_SIZE-1 |->
                IF (k - b) * BLOCK_SIZE + p \in from..(from + length - 1)
                THEN v ELSE @[p]]])
      s1 == [a.s EXCEPT !.m.fdt[f].w_offset = @ + length]
  IN  FoldLeft(Put, s1, [k \in 1..(last - b + 1) |-> b + k - 1])

\* Bug: the offset within the block is forgotten.
Mutant_fread_buffer(s, f, length) ==
  LET e == s.m.fdt[f]
      b == sync_from_disk_inode(s, e.inum).ptr[e.r_offset \div BLOCK_SIZE]
  IN  [k \in 1..length |-> read_block(s, b).txt[(k - 1) % BLOCK_SIZE]]

\* What do_fread copies to the program.
fread_buffer(s, f, length) ==
  LET e == s.m.fdt[f]
      inode == sync_from_disk_inode(s, e.inum)
      b == get_block_index_in_inode(s, inode, e.r_offset \div BLOCK_SIZE)
      last == get_block_index_in_inode(s, inode,
                (e.r_offset + length) \div BLOCK_SIZE)
      from == e.r_offset % BLOCK_SIZE
  IN  [k \in 1..length |->
         LET i == b + (from + k - 1) \div BLOCK_SIZE
         IN  IF i <= last THEN read_block(s, i).txt[(from + k - 1) % BLOCK_SIZE]
             ELSE 0]

do_fread(s, f, length) == [s EXCEPT !.m.fdt[f].r_offset = @ + length]

do_fclose(s, f) == [s EXCEPT !.m.fdt[f] = ZeroFd]

\* cat opens the file, rewinds and reads; it does not close.
do_cat(s, name, length) ==
  LET o == do_fopen(s, name)
  IN  do_fread([o.s EXCEPT !.m.fdt[o.fd].r_offset = 0], o.fd, length)

-----------------------------------------------------------------------------
\* Actions.  A call completes, or the power fails after some of its writes.

Init ==
  /\ disk = BlankDisk
  /\ mem = ZeroMem
  /\ on = FALSE
  /\ losses = 0
  /\ fd = [t \in Tasks |-> -1]
  /\ sent = [i \in InodeSlots |-> <<>>]
  /\ calls \in Workloads

\* init_fs will find a file system on the card.
Made == disk.sb.magic

PowerLoss(log) ==
  /\ "loss" \in calls /\ losses < MaxLosses
  /\ losses' = losses + 1
  /\ disk' \in {log[k] : k \in DOMAIN log}
  /\ mem' = ZeroMem
  /\ on' = FALSE
  /\ fd' = [t \in Tasks |-> -1]
  /\ sent' = [i \in InodeSlots |-> <<>>]
  /\ UNCHANGED calls

Done(s) == disk' = s.d /\ mem' = s.m /\ on' = TRUE /\ UNCHANGED <<losses, calls>>

Command(call, s) ==
  /\ on
  /\ call \in calls
  /\ \/ Done(s) /\ UNCHANGED <<fd, sent>>
     \/ PowerLoss(s.log)

\* The power may fail while the file system is made only if mkfs is among the
\* calls: nothing below survives that, see RootExists.
Boot ==
  /\ ~on
  /\ \/ Done(init_fs(S)) /\ UNCHANGED <<fd, sent>>
     \/ (Made \/ "mkfs" \in calls) /\ PowerLoss(init_fs(S).log)

Mkfs == Command("mkfs", do_mkfs(S)) /\ \A t \in Tasks : fd[t] = -1
Statfs == Command("statfs", do_statfs(S))

\* The bounds on a directory that grows and on the tree; used as documented, files are made in
\* a directory, not in a link that cd went to, and the card has room for one
\* more file with one more directory block.
Room(inum) ==
  /\ disk.ino[inum].fnum < MaxFnum
  /\ "rmdir" \in calls => Cardinality(mem.ibmp) < MaxReused
  /\ Documented => /\ disk.ino[inum].fmode = "dir"
                   /\ Cardinality(Inodes \ mem.ibmp) >= 1
                   /\ Cardinality((0..BLOCK_NUM-1) \ mem.bbmp) >= 2

Mkdir(path) == Room(ParentOf(S, path)) /\ Command("mkdir", do_mkdir(S, path))
Touch(name) == Room(ParentOf(S, <<".", name>>))
               /\ Command("touch", do_touch(S, name))

\* The entries of a directory on the card, all its direct blocks together,
\* without "." and "..".
Entries(d, inum) ==
  LET inode == d.ino[inum]
      at == {x \in (0..MAX_DIRECT_NUM-1) \X Slots :
               inode.ptr[x[1]] \in DataBlocks /\ x \notin {<<0, 0>>, <<0, 1>>}}
  IN  {d.blk[inode.ptr[x[1]]].den[x[2]] : x \in at} \ {ZeroDentry}

\* rmdir as documented: of an empty directory, or of a file, that is there.
Removable(path) ==
  LET inum == find_file(S, disk.ino[ParentOf(S, path)], LeafName(path))
  IN  /\ inum # -1
      /\ disk.ino[inum].fmode = "dir" => Entries(disk, inum) = {}
      /\ \A f \in FDs : mem.fdt[f].inum # inum

Rmdir(path) == (Documented => Removable(path))
               /\ Command("rmdir", do_rmdir(S, path))

\* rename as documented: of a file that is there, to a name that is not.
Rename(old_name, new_name) ==
  /\ Room(ParentOf(S, <<".", old_name>>))
  /\ Documented => /\ find_file(S, mem.current_dir, old_name) # -1
                   /\ find_file(S, mem.current_dir, new_name) = -1
  /\ Command("rename", do_rename(S, old_name, new_name))

\* cd as documented: to a directory, or to a symbolic link for ls.
Cd(path) ==
  /\ Documented => Walk(S, path).inode.fmode # "reg"
  /\ Command("cd", do_cd(S, path))

\* ln and ln -s as documented: of a path that is there, to a new name.
Link(src_path, name) ==
  /\ Room(ParentOf(S, <<".", name>>))
  /\ Documented => /\ parse_path(S, src_path, mem.current_dir) # -1
                   /\ find_file(S, mem.current_dir, name) = -1
  /\ Command("link", do_link(S, src_path, <<".", name>>))

Symlink(src_path) ==
  /\ Room(ParentOf(S, <<".", "">>))
  /\ Documented => /\ parse_path(S, src_path, mem.root_inode) # -1
                   /\ find_file(S, mem.current_dir, Last(src_path)) = -1
  /\ Command("symlink", do_symlink(S, src_path, <<".">>))

IsFile(name) ==
  LET inum == find_file(S, mem.current_dir, name)
  IN  inum # -1 /\ disk.ino[inum].fmode = "reg"

HasFd == \E f \in FDs : mem.fdt[f] = ZeroFd

Fopen(t, name) ==
  LET o == do_fopen(S, name)
  IN  /\ on /\ "fopen" \in calls
      /\ fd[t] = -1
      /\ IsFile(name) /\ HasFd
      /\ Done(o.s)
      /\ fd' = [fd EXCEPT ![t] = o.fd]
      /\ UNCHANGED sent

\* The bounds: space on the card, and files that start within the direct table.
HasSpace(f, length) ==
  LET e == mem.fdt[f]
  IN  /\ e.w_offset + length <= MaxData
      /\ e.w_offset \div BLOCK_SIZE < MAX_DIRECT_NUM
      /\ Cardinality((0..BLOCK_NUM-1) \ mem.bbmp) >
           (e.w_offset + length) \div BLOCK_SIZE

Appended(f, length, v) ==
  LET e == mem.fdt[f]
      new == [k \in 1..length |-> v]
  IN  [sent EXCEPT ![e.inum] = IF e.w_offset = 0 THEN new ELSE @ \o new]

Fwrite(t, length, v) ==
  LET s == do_fwrite(S, fd[t], length, v)
  IN  /\ on /\ "fwrite" \in calls
      /\ fd[t] # -1 /\ HasSpace(fd[t], length)
      /\ \/ /\ Done(s)
            /\ sent' = Appended(fd[t], length, v)
            /\ UNCHANGED fd
         \/ PowerLoss(s.log)

Fread(t, length) ==
  /\ on /\ "fread" \in calls
  /\ fd[t] # -1
  /\ mem.fdt[fd[t]].r_offset + length <= MaxData
  /\ Done(do_fread(S, fd[t], length))
  /\ UNCHANGED <<fd, sent>>

Fclose(t) ==
  /\ on /\ "fclose" \in calls
  /\ fd[t] # -1
  /\ Done(do_fclose(S, fd[t]))
  /\ fd' = [fd EXCEPT ![t] = -1]
  /\ UNCHANGED sent

Cat(name, length) ==
  /\ IsFile(name) /\ HasFd
  /\ Command("cat", do_cat(S, name, length))

Next ==
  \/ Boot \/ Mkfs \/ Statfs
  \/ \E path \in Makes : Mkdir(path)
  \/ \E path \in Removes : Rmdir(path)
  \/ \E path \in Visits : Cd(path)
  \/ \E name \in Names : Touch(name)
  \/ \E name \in Names, length \in Lengths : Cat(name, length)
  \/ \E old_name, new_name \in Names : Rename(old_name, new_name)
  \/ \E src_path \in Sources : Symlink(src_path)
  \/ \E src_path \in Sources, name \in Names : Link(src_path, name)
  \/ \E t \in Tasks, name \in Names : Fopen(t, name)
  \/ \E t \in Tasks, length \in Lengths, v \in 1..2 : Fwrite(t, length, v)
  \/ \E t \in Tasks, length \in Lengths : Fread(t, length)
  \/ \E t \in Tasks : Fclose(t)

Spec == Init /\ [][Next]_vars

-----------------------------------------------------------------------------
\* Properties.

\* The inodes that can be reached from the root.
Live(d) ==
  LET Children(I) == {e.inum : e \in UNION {Entries(d, i) : i \in
                        {i \in I : d.ino[i].fmode = "dir"}}}
      R[n \in Nat] == IF n = 0 THEN {0}
                      ELSE R[n - 1] \cup Children(R[n - 1])
  IN  R[INODE_NUM]

BlocksOf(d, i) == {d.ino[i].ptr[k] : k \in 0..MAX_DIRECT_NUM-1} \ {0}

\* Every inode that a directory names, and every block of it, is marked as used
\* in the bitmaps on the card, so that find_free_inode and find_free_block never
\* give it out again; also after a power failure in the middle of a call.
LiveIsMarked ==
  Made => \A i \in Live(disk) :
            i \in disk.ibmp /\ BlocksOf(disk, i) \subseteq disk.bbmp

\* Every block belongs to at most one file, none to a file and to the file
\* system's own tables; and between two calls, when the power has not failed,
\* exactly the inodes that are named and their blocks are marked: rmdir gives
\* back all that mkdir, touch and ln took.
BlocksAccounted ==
  /\ Made => \A i \in Live(disk) :
       /\ BlocksOf(disk, i) \subseteq DATA_BLOCK_INDEX..BLOCK_NUM-1
       /\ \A j \in Live(disk) \ {i} : BlocksOf(disk, i) \cap BlocksOf(disk, j) = {}
  /\ (on /\ losses = 0) =>
       /\ disk.ibmp = Live(disk)
       /\ disk.bbmp = 0..DATA_BLOCK_INDEX-1 \cup
                      UNION {BlocksOf(disk, i) : i \in Live(disk)}

\* Every file that a directory has an entry for is found under its name by
\* find_file, as cat [file name] and cd [directory name] need, and a directory
\* has itself as "." and, as "..", the one that names it, as cd .. needs.
\* do_find, given the current directory, tells whether it has an entry of the
\* name, although it searches by the kernel's copy of the directory's inode.
EntriesAreFound ==
  LET cur == mem.current_dir
  IN  on =>
        /\ \A i \in Live(disk) : disk.ino[i].fmode = "dir" =>
             \A e \in Entries(disk, i) :
               /\ find_file(S, disk.ino[i], e.name) = e.inum
               /\ disk.ino[e.inum].fmode = "dir" =>
                    /\ find_file(S, disk.ino[e.inum], ".") = e.inum
                    /\ find_file(S, disk.ino[e.inum], "..") = i
        /\ cur.fmode = "dir" => \A n \in Names :
             do_find(S, <<".">>, n) <=>
               \E e \in Entries(disk, cur.ptr[I_NUM]) : e.name = n

\* What the kernel keeps in memory between two calls agrees with the card: the
\* bitmaps and the superblock, by which do_fwrite takes blocks without reading
\* them again; and the inode of the current directory, copied by cd and by
\* start-up and never refreshed, still is a live one with the same first block.
BuffersAreCurrent ==
  on => LET i == mem.current_dir.ptr[I_NUM]
        IN  /\ mem.bbmp = disk.bbmp /\ mem.ibmp = disk.ibmp /\ mem.sb = disk.sb
            /\ i \in Live(disk) /\ disk.ino[i].ptr[0] = mem.current_dir.ptr[0]

\* A call changes no entry of a directory but its own: mkdir and touch put theirs
\* where no live entry was, whatever rmdir and rename have done to i_fnum before;
\* rmdir takes the entry it is given out of its directory, and no other; and a
\* power failure in a call takes none away that was there before the call.
OnlyItsEntry ==
  [][/\ (on /\ \/ ~on'
               \/ \E path \in Makes : Mkdir(path)
               \/ \E name \in Names : Touch(name)) =>
          \A i \in Live(disk) : Entries(disk, i) \subseteq Entries(disk', i)
     /\ \A path \in Removes : (on /\ on' /\ Rmdir(path)) =>
          \A i \in Live(disk) \cap Live(disk') :
            {e.name : e \in Entries(disk, i) \ Entries(disk', i)} =
              IF i = ParentOf(S, path) THEN {LeafName(path)} ELSE {}]_vars

\* When the kernel starts with a file system, its root is a directory.
RootExists ==
  on => disk.ino[0].fmode = "dir" /\ find_file(S, mem.root_inode, ".") = 0

\* s_free_inode_cnt and s_free_blocks_cnt count the free inodes and blocks.
FreeCountsAreRight ==
  on => /\ disk.sb.free_inode_cnt = Cardinality(Inodes \ disk.ibmp)
        /\ disk.sb.free_blocks_cnt =
             Cardinality((0..BLOCK_NUM-1) \ disk.bbmp)

\* i_links_cnt is the number of names of a file.
LinksAreCounted ==
  on => \A i \in Live(disk) : disk.ino[i].fmode = "reg" =>
    disk.ino[i].links_cnt =
      Cardinality({x \in Live(disk) \X Names :
                     disk.ino[x[1]].fmode = "dir" /\
                     [inum |-> i, name |-> x[2]] \in Entries(disk, x[1])})

\* ls prints the directory entries in the current directory.
LsShowsAll ==
  (on /\ mem.current_dir.fmode = "dir") =>
    \A past \in BOOLEAN : {e.name : e \in
        Entries(disk, mem.current_dir.ptr[I_NUM])} \subseteq do_ls(S, past)

\* ls in a symbolic link shows what the link leads to, as long as it is there.
LsFollowsLink ==
  (on /\ mem.current_dir.fmode = "lnk") =>
    LET path == <<".">> \o disk.blk[mem.current_dir.ptr[0]].path
        inum == parse_path(S, path, mem.root_inode)
    IN  inum # -1 /\ disk.ino[inum].fmode = "dir" =>
          {e.name : e \in Entries(disk, inum)} \subseteq do_ls(S, TRUE)

\* find [path] [name] finds out whether the file exists in the directory.
FindTells ==
  on => \A path \in Visits, name \in Names :
    Walk(S, path).found =>
      (do_find(S, path, name) <=>
         \E e \in Entries(disk, Walk(S, path).inode.ptr[I_NUM]) : e.name = name)

\* mkdir [directory name] makes a directory of that name where the user is.
MkdirMakesIt ==
  [][\A path \in Makes : (on' /\ Mkdir(path)) =>
       \E e \in Entries(disk', mem.current_dir.ptr[I_NUM]) :
         e.name = Last(path)]_vars

\* When find_free_inode or find_free_block reports that there is none, no file
\* is made of the error code.
NoFileWithoutInode == on => Live(disk) \subseteq Inodes

\* Writing to a file stores no inode but the file's own.
WritesKeepOtherInodes ==
  [][\A t \in Tasks, length \in Lengths, v \in 1..2 : Fwrite(t, length, v) =>
       \A i \in InodeSlots \ {mem.fdt[fd[t]].inum} :
         disk'.ino[i] = disk.ino[i]]_vars

\* Unit k of a file, by its block pointers.
Unit(i, k) ==
  read_block(S, disk.ino[i].ptr[k \div BLOCK_SIZE]).txt[k % BLOCK_SIZE]

\* An open file holds what was written to it since it was opened, all of it and
\* in order, whatever is done to other files.
FileHoldsWrites ==
  \A f \in FDs :
    LET e == mem.fdt[f]
    IN  (on /\ e.inum # 0 /\ e.w_offset > 0) =>
          /\ Len(sent[e.inum]) = e.w_offset
          /\ \A k \in 0..e.w_offset-1 : Unit(e.inum, k) = sent[e.inum][k + 1]

\* A program that reads a file after writing it gets what it wrote.
ReadsWhatWasWritten ==
  \A f \in FDs, length \in Lengths :
    LET e == mem.fdt[f]
    IN  (on /\ e.inum # 0 /\ e.r_offset + length <= e.w_offset) =>
          fread_buffer(S, f, length) =
            SubSeq(sent[e.inum], e.r_offset + 1, e.r_offset + length)

\* Writing to a file never changes a directory.
WritesKeepDirectories ==
  [][(\E t \in Tasks, length \in Lengths, v \in 1..2 : Fwrite(t, length, v)) =>
       \A i \in Live(disk) : disk.ino[i].fmode = "dir" =>
         disk'.ino[i] = disk.ino[i] /\ Entries(disk', i) = Entries(disk, i)]_vars
=============================================================================
