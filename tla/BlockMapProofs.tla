--------------------------- MODULE BlockMapProofs ---------------------------
(***************************************************************************)
(* Proofs about the block pointers of fs.c for any number of files, of     *)
(* blocks and of pointers in a block: get_block_index_in_inode finds what  *)
(* write_block_index_in_inode wrote with the direct pointers and those of  *)
(* the first level, no block is given twice, and a file with one level of  *)
(* pointers is released completely.                                        *)
(*                                                                         *)
(* The code loses blocks of pointers at the levels 2 and 3.  That the      *)
(* others are safe all the same rests on who owns what: whatever can be    *)
(* reached from an inode was taken for its file and is used, and the files *)
(* reach different blocks.                                                 *)
(***************************************************************************)
EXTENDS BlockMap, TLAPS

Numbers == 0..BLOCK_NUM
Pointers == [0..P-1 -> Numbers]
Inodes == [direct : [0..FIRST_POINTER-1 -> Numbers], indirect : [1..3 -> Numbers]]
Cards == [Blocks -> Pointers]

\* The blocks that a block of pointers points to.
Entries(q) == {q[k] : k \in 0..P-1} \ {0}

Roots(ino) == {ino.indirect[l] : l \in 1..3} \ {0}

\* The pointers of level 2, and what is behind them.
Second(b, ino) == IF ino.indirect[2] = 0 THEN {} ELSE Entries(b[ino.indirect[2]])
Reached(b, ino) ==
  Roots(ino) \cup Second(b, ino) \cup UNION {Entries(b[c]) : c \in Second(b, ino)}

\* What belongs to a file that was given the data blocks w.
Owned(b, ino, w) == Reached(b, ino) \cup Range(w)
Own(f) == Owned(blk, inode[f], want[f])

\* The pointers of one inode, when its file has the data blocks D.
Shape(b, ino, D) ==
  /\ \A l, m \in 1..3 : ino.indirect[l] = ino.indirect[m] /\ ino.indirect[l] # 0 => l = m
  /\ Roots(ino) \cap D = {}
  /\ Second(b, ino) \cap Roots(ino) = {}
  /\ ino.indirect[3] # 0 => b[ino.indirect[3]] = ZeroBlock

\* What is stored for the data blocks w with the direct pointers and with those
\* of the first level.
Stored(b, ino, w) ==
  /\ \A k \in 0..FIRST_POINTER-1 : ino.direct[k] = IF k < Len(w) THEN w[k + 1] ELSE 0
  /\ ino.indirect[1] # 0 <=> Len(w) > FIRST_POINTER
  /\ ino.indirect[1] # 0 =>
       \A j \in 0..P-1 : b[ino.indirect[1]][j] =
         IF FIRST_POINTER + j < Len(w) THEN w[FIRST_POINTER + j + 1] ELSE 0
  /\ Len(w) <= SECOND_POINTER => ino.indirect[2] = 0 /\ ino.indirect[3] = 0

Types ==
  /\ inode \in [Files -> Inodes]
  /\ blk \in Cards
  /\ used \subseteq Blocks
  /\ want \in [Files -> Seq(Blocks)]

\* u are the blocks in use.
FileInv(b, ino, w, u) ==
  /\ Len(w) <= MaxBlocks
  /\ Owned(b, ino, w) \subseteq u
  /\ Shape(b, ino, Range(w))
  /\ Stored(b, ino, w)
  /\ \A k, l \in 1..Len(w) : w[k] = w[l] => k = l

BlockInv ==
  /\ Types
  /\ \A f \in Files : FileInv(blk, inode[f], want[f], used)
  /\ \A f, g \in Files : f # g => Own(f) \cap Own(g) = {}

-----------------------------------------------------------------------------
(* Numbers                                                                 *)

LEMMA Sizes ==
  /\ FIRST_POINTER \in Nat /\ FIRST_POINTER > 0 /\ P \in Nat /\ P > 0
  /\ BLOCK_NUM \in Nat /\ MaxBlocks \in Nat /\ P * P \in Nat /\ P * P > 0
  /\ SECOND_POINTER = FIRST_POINTER + P /\ THIRD_POINTER = SECOND_POINTER + P * P
  /\ MaxBlocks <= THIRD_POINTER + P * (P * P)
  /\ 0 \notin Blocks /\ Blocks \subseteq Numbers /\ Numbers = Blocks \cup {0}
BY BlockMapAssumption DEF P, SECOND_POINTER, THIRD_POINTER, Blocks, Numbers

LEMMA Quotient ==
  ASSUME NEW m \in Nat, NEW d \in Nat \ {0}, NEW x \in 0 .. m * d - 1
  PROVE  x \div d \in 0..m-1
<1> DEFINE e == x \div d
<1>1. m * d \in Int /\ x \in Nat /\ x < m * d
  OBVIOUS
<1>2. e \in Int /\ d * e <= x /\ e >= 0
  BY <1>1
<1> HIDE DEF e
<1>3. ~(e >= m)
  <2> SUFFICES ASSUME e >= m PROVE FALSE
    OBVIOUS
  <2>1. e - m \in Nat
    BY <1>2
  <2>2. d * (e - m) \in Nat
    BY <2>1
  <2>3. d * (e - m) = d * e - m * d
    BY <1>2
  <2>4. d * e \in Int
    BY <1>2
  <2> QED
    BY <1>1, <1>2, <2>2, <2>3, <2>4
<1> QED
  BY <1>2, <1>3 DEF e

LEMMA Remainder ==
  ASSUME NEW x \in Int, NEW d \in Nat \ {0}
  PROVE  x % d \in 0..d-1
OBVIOUS

\* The positions of an index are positions of pointers.
LEMMA PositionsInBlock ==
  ASSUME NEW idx \in Nat, idx < MaxBlocks
  PROVE  /\ Level(idx) \in 0..3
         /\ Level(idx) = 0 => idx \in 0..FIRST_POINTER-1
         /\ Level(idx) = 1 => /\ idx >= FIRST_POINTER /\ idx < SECOND_POINTER
                              /\ Positions(idx)[1] = idx - FIRST_POINTER
                              /\ idx - FIRST_POINTER \in 0..P-1
         /\ Level(idx) = 2 => /\ idx >= SECOND_POINTER
                              /\ Positions(idx)[1] \in 0..P-1
                              /\ Positions(idx)[2] \in 0..P-1
         /\ Level(idx) = 3 => /\ idx >= SECOND_POINTER
                              /\ Positions(idx)[1] \in 0..P-1
                              /\ Positions(idx)[2] \in 0..P-1
                              /\ Positions(idx)[3] \in 0..P-1
<1>0. /\ FIRST_POINTER \in Nat /\ SECOND_POINTER \in Nat /\ THIRD_POINTER \in Nat
      /\ P \in Nat \ {0} /\ P * P \in Nat \ {0} /\ P * (P * P) \in Nat
  BY Sizes
<1>1. CASE Level(idx) = 0
  BY <1>0, <1>1 DEF Level
<1>2. CASE Level(idx) = 1
  <2>1. idx >= FIRST_POINTER /\ idx < SECOND_POINTER
    BY <1>0, <1>2 DEF Level
  <2>2. Positions(idx)[1] = idx - FIRST_POINTER
    BY <1>2 DEF Positions
  <2> QED
    BY <1>0, <1>2, <2>1, <2>2, Sizes
<1>3. CASE Level(idx) = 2
  <2>1. idx >= SECOND_POINTER /\ idx < THIRD_POINTER
    BY <1>0, <1>3 DEF Level
  <2>2. Positions(idx) = <<(idx - SECOND_POINTER) \div P, (idx - SECOND_POINTER) % P>>
    BY <1>3 DEF Positions
  <2> DEFINE x == idx - SECOND_POINTER
  <2>3. x \in 0 .. P * P - 1 /\ x \in Int
    BY <1>0, <2>1, Sizes
  <2> HIDE DEF x
  <2>4. x \div P \in 0..P-1 /\ x % P \in 0..P-1
    BY Zenon, <1>0, <2>3, Quotient, Remainder
  <2>5. Positions(idx)[1] = x \div P /\ Positions(idx)[2] = x % P
    BY <2>2 DEF x
  <2> QED
    BY <1>3, <2>1, <2>4, <2>5
<1>4. CASE Level(idx) = 3
  <2>1. idx >= THIRD_POINTER
    BY <1>0, <1>4 DEF Level
  <2>2. Positions(idx) = <<(idx - THIRD_POINTER) \div (P * P),
                           ((idx - THIRD_POINTER) % (P * P)) \div P,
                           (idx - THIRD_POINTER) % P>>
    BY <1>4 DEF Positions
  <2> DEFINE x == idx - THIRD_POINTER
             y == x % (P * P)
  <2>3. x \in 0 .. P * (P * P) - 1 /\ x \in Int
    BY <1>0, <2>1, Sizes
  <2> HIDE DEF x
  <2>4. y \in 0 .. P * P - 1
    BY Zenon, <1>0, <2>3, Remainder
  <2>5. Positions(idx)[1] = x \div (P * P) /\ Positions(idx)[2] = y \div P
        /\ Positions(idx)[3] = x % P
    BY <2>2 DEF x
  <2> HIDE DEF y
  <2>6. x \div (P * P) \in 0..P-1 /\ y \div P \in 0..P-1 /\ x % P \in 0..P-1
    BY Zenon, <1>0, <2>3, <2>4, Quotient, Remainder
  <2>7. idx >= SECOND_POINTER
    BY <1>0, <2>1, Sizes
  <2> QED
    BY <1>4, <2>5, <2>6, <2>7
<1> QED
  BY <1>1, <1>2, <1>3, <1>4 DEF Level

LEMMA LevelNumbers == 1 \in 1..3 /\ 2 \in 1..3 /\ 3 \in 1..3
OBVIOUS

\* The free blocks: there is a least one, and taking one leaves one less.  The
\* facts on finite sets behind it are brought in at the end, for the theorems.
FreeCounts ==
  \A u : /\ Cardinality(Blocks \ u) \in Nat
         /\ Cardinality(Blocks \ u) = 0 <=> Blocks \ u = {}
         /\ Blocks \ u # {} => Min(Blocks \ u) \in Blocks \ u
         /\ \A c \in Blocks \ u :
              Cardinality(Blocks \ (u \cup {c})) = Cardinality(Blocks \ u) - 1

\* Cardinality, spelled out.
SizeOf(S) ==
  LET CS[T \in SUBSET S] == IF T = {} THEN 0 ELSE 1 + CS[T \ {CHOOSE x : x \in T}]
  IN  CS[S]

LEMMA SizeIs == \A S : Cardinality(S) = SizeOf(S)
BY Zenon DEF Cardinality, SizeOf

LEMMA MinFree ==
  ASSUME FreeCounts, NEW u, Blocks \ u # {}
  PROVE  Min(Blocks \ u) \in Blocks \ u
BY Zenon DEF FreeCounts

-----------------------------------------------------------------------------
(* The assignments to the card, the bitmap and the inode                   *)

Rec == [ino : Inodes, blk : Cards, used : SUBSET Blocks]

LEMMA WriteFields ==
  ASSUME NEW r \in Rec, NEW at, NEW q \in Pointers
  PROVE  LET t == WritePointers(r, at, q)
         IN  /\ t \in Rec /\ t.ino = r.ino /\ t.used = r.used
             /\ \A x \in Blocks : t.blk[x] = IF x = at THEN q ELSE r.blk[x]
<1> DEFINE b == [r.blk EXCEPT ![at] = q]
           t == WritePointers(r, at, q)
<1>1. r.blk \in Cards /\ r.ino \in Inodes /\ r.used \in SUBSET Blocks
  BY DEF Rec
<1>2. b \in Cards /\ \A x \in Blocks : b[x] = IF x = at THEN q ELSE r.blk[x]
  BY Zenon, <1>1 DEF Cards
<1> HIDE DEF b
<1>3. t = [ino |-> r.ino, blk |-> b, used |-> r.used]
  BY DEF WritePointers, Rec, b
<1> HIDE DEF t
<1>4. t \in Rec /\ t.ino = r.ino /\ t.used = r.used /\ t.blk = b
  BY <1>1, <1>2, <1>3 DEF Rec
<1> QED
  BY <1>2, <1>4 DEF t

LEMMA ZeroFacts ==
  /\ ZeroBlock \in Pointers /\ Entries(ZeroBlock) = {}
  /\ \A k \in 0..P-1 : ZeroBlock[k] = 0
BY Sizes DEF ZeroBlock, Pointers, Entries

\* A pointer is added to a block of them.
Added(q, pos, b) == [q EXCEPT ![pos] = b]

IsAdded(t, q, pos, b) ==
  /\ t \in Pointers /\ Entries(t) \subseteq Entries(q) \cup {b}
  /\ t[pos] = b /\ \A k \in 0..P-1 : k # pos => t[k] = q[k]

LEMMA PointerAdded ==
  ASSUME NEW q \in Pointers, NEW pos \in 0..P-1, NEW b \in Blocks
  PROVE  IsAdded(Added(q, pos, b), q, pos, b)
<1> DEFINE t == Added(q, pos, b)
<1>1. t \in Pointers /\ \A k \in 0..P-1 : t[k] = IF k = pos THEN b ELSE q[k]
  BY Zenon, Sizes DEF Pointers, Added
<1> HIDE DEF t
<1>2. Entries(t) \subseteq Entries(q) \cup {b}
  BY <1>1 DEF Entries
<1> QED
  BY Zenon, <1>1, <1>2 DEF t, IsAdded

LEMMA TakeFields ==
  ASSUME FreeCounts, NEW r \in Rec, Blocks \ r.used # {}
  PROVE  LET t == TakeIndexBlock(r)
             c == FreeBlock(r)
         IN  /\ c \in Blocks /\ c \notin r.used
             /\ t \in Rec /\ t.ino = r.ino /\ t.used = r.used \cup {c}
             /\ \A x \in Blocks : t.blk[x] = IF x = c THEN ZeroBlock ELSE r.blk[x]
<1> DEFINE c == FreeBlock(r)
           u == r.used \cup {c}
           s == [r EXCEPT !.used = u]
           b == [r.blk EXCEPT ![c] = ZeroBlock]
           t == TakeIndexBlock(r)
<1>1. r.blk \in Cards /\ r.ino \in Inodes /\ r.used \in SUBSET Blocks
  BY DEF Rec
<1>2. c \in Blocks /\ c \notin r.used
  BY Zenon, MinFree DEF FreeBlock
<1>3. t = [s EXCEPT !.blk[c] = ZeroBlock]
  BY DEF TakeIndexBlock
<1> HIDE DEF c
<1>4. u \in SUBSET Blocks
  BY <1>1, <1>2
<1>5. b \in Cards /\ \A x \in Blocks : b[x] = IF x = c THEN ZeroBlock ELSE r.blk[x]
  BY Zenon, <1>1, ZeroFacts DEF Cards
<1> HIDE DEF u
<1>6. s = [ino |-> r.ino, blk |-> r.blk, used |-> u]
  BY DEF Rec
<1> HIDE DEF s
<1>7. t = [ino |-> r.ino, blk |-> b, used |-> u]
  BY <1>3, <1>6
<1> HIDE DEF t, b
<1>8. t \in Rec /\ t.ino = r.ino /\ t.used = u /\ t.blk = b
  BY <1>1, <1>4, <1>5, <1>7 DEF Rec
<1> QED
  BY <1>2, <1>5, <1>8 DEF t, u, c

LEMMA RootFields ==
  ASSUME NEW r \in Rec, NEW l \in 1..3, NEW c \in Blocks
  PROVE  LET t == SetRoot(r, l, c)
         IN  /\ t \in Rec /\ t.blk = r.blk /\ t.used = r.used
             /\ t.ino.direct = r.ino.direct
             /\ \A m \in 1..3 : t.ino.indirect[m] = IF m = l THEN c ELSE r.ino.indirect[m]
<1> DEFINE i == [r.ino.indirect EXCEPT ![l] = c]
           n == [r.ino EXCEPT !.indirect[l] = c]
           t == SetRoot(r, l, c)
<1>1. r.blk \in Cards /\ r.ino \in Inodes /\ r.used \in SUBSET Blocks
  BY DEF Rec
<1>2. /\ i \in [1..3 -> Numbers]
      /\ \A m \in 1..3 : i[m] = IF m = l THEN c ELSE r.ino.indirect[m]
  BY <1>1, Sizes DEF Inodes
<1>3. n = [direct |-> r.ino.direct, indirect |-> i]
  BY <1>1 DEF Inodes
<1> HIDE DEF i
<1>4. n \in Inodes /\ n.direct = r.ino.direct /\ n.indirect = i
  BY <1>1, <1>2, <1>3 DEF Inodes
<1>5. t = [ino |-> n, blk |-> r.blk, used |-> r.used]
  BY DEF SetRoot, Rec
<1> HIDE DEF n, t
<1>6. t \in Rec /\ t.blk = r.blk /\ t.used = r.used /\ t.ino = n
  BY <1>1, <1>4, <1>5 DEF Rec
<1> QED
  BY <1>2, <1>4, <1>6 DEF t

\* How many blocks are left.
Room(r) == Cardinality(Blocks \ r.used)

LEMMA RoomLeft ==
  ASSUME FreeCounts, NEW r \in Rec
  PROVE  /\ Room(r) \in Nat
         /\ Room(r) > 0 => Blocks \ r.used # {}
         /\ \A t \in Rec : t.used = r.used => Room(t) = Room(r)
         /\ \A t \in Rec, c \in Blocks \ r.used :
              t.used = r.used \cup {c} => Room(t) = Room(r) - 1
<1>1. /\ Room(r) \in Nat
      /\ Room(r) = 0 <=> Blocks \ r.used = {}
      /\ \A c \in Blocks \ r.used : Cardinality(Blocks \ (r.used \cup {c})) = Room(r) - 1
  BY Zenon DEF FreeCounts, Room
<1>2. Room(r) > 0 => Blocks \ r.used # {}
  BY <1>1
<1> QED
  BY Zenon, <1>1, <1>2 DEF Room

-----------------------------------------------------------------------------
(* The steps of write_block_index_in_inode                                 *)
(*                                                                         *)
(* r is what a step finds, t what it leaves; X are the blocks of the other *)
(* files and D the data blocks of this one.                                *)

Within(b, ino, S) ==
  /\ Roots(ino) \subseteq S
  /\ Second(b, ino) \subseteq S
  /\ \A c \in Second(b, ino) : Entries(b[c]) \subseteq S

LEMMA ReachedWithin ==
  ASSUME NEW b, NEW ino, NEW S
  PROVE  Reached(b, ino) \subseteq S <=> Within(b, ino, S)
BY Zenon DEF Reached, Within

Good(r, X, D) ==
  /\ r \in Rec /\ X \subseteq r.used /\ D \subseteq r.used \ X
  /\ Within(r.blk, r.ino, r.used \ X)
  /\ Shape(r.blk, r.ino, D)

\* The step leaves the other files, the direct pointers and the pointers of the
\* first level alone.
Keeps(r, t, X) ==
  /\ r.used \subseteq t.used
  /\ t.ino.direct = r.ino.direct
  /\ t.ino.indirect[1] = r.ino.indirect[1]
  /\ \A x \in X : t.blk[x] = r.blk[x]
  /\ r.ino.indirect[1] # 0 => t.blk[r.ino.indirect[1]] = r.blk[r.ino.indirect[1]]

LEMMA KeepsTransitive ==
  ASSUME NEW r, NEW s, NEW t, NEW X, Keeps(r, s, X), Keeps(s, t, X)
  PROVE  Keeps(r, t, X)
BY DEF Keeps

LEMMA GoodFacts ==
  ASSUME NEW r, NEW X, NEW D, Good(r, X, D)
  PROVE  /\ r.blk \in Cards /\ r.used \subseteq Blocks
         /\ \A x \in Blocks : r.blk[x] \in Pointers
         /\ \A l \in 1..3 : /\ r.ino.indirect[l] \in Numbers
                            /\ r.ino.indirect[l] # 0 =>
                                 /\ r.ino.indirect[l] \in Blocks
                                 /\ r.ino.indirect[l] \in r.used \ X
                                 /\ r.ino.indirect[l] \notin D
         /\ \A l, m \in 1..3 :
              r.ino.indirect[l] = r.ino.indirect[m] /\ r.ino.indirect[l] # 0 => l = m
<1>1. r.blk \in Cards /\ r.ino \in Inodes /\ r.used \subseteq Blocks
  BY DEF Good, Rec
<1>2. \A x \in Blocks : r.blk[x] \in Pointers
  BY <1>1 DEF Cards
<1>3. \A l \in 1..3 : r.ino.indirect[l] \in Numbers
  BY <1>1 DEF Inodes
<1>4. \A l \in 1..3 : r.ino.indirect[l] # 0 => r.ino.indirect[l] \in Roots(r.ino)
  BY DEF Roots
<1>5. \A x \in Roots(r.ino) : x \in r.used \ X /\ x \notin D
  BY DEF Good, Within, Shape
<1> QED
  BY <1>1, <1>2, <1>3, <1>4, <1>5 DEF Good, Shape

LEMMA GoodRoots ==
  ASSUME NEW r, NEW X, NEW D, Good(r, X, D)
  PROVE  /\ r.used \subseteq Blocks /\ X \subseteq r.used
         /\ r.ino.indirect[1] # 0 => r.ino.indirect[1] \in r.used \ X
         /\ r.ino.indirect[2] # 0 => r.ino.indirect[2] \in r.used \ X
         /\ r.ino.indirect[3] # 0 => /\ r.ino.indirect[3] \in r.used \ X
                                     /\ r.blk[r.ino.indirect[3]] = ZeroBlock
<1>1. r.used \subseteq Blocks /\ X \subseteq r.used
  BY DEF Good, Rec
<1>2. \A x \in Roots(r.ino) : x \in r.used \ X
  BY DEF Good, Within
<1>3. r.ino.indirect[3] # 0 => r.blk[r.ino.indirect[3]] = ZeroBlock
  BY DEF Good, Shape
<1> QED
  BY <1>1, <1>2, <1>3 DEF Roots

\* A block is taken for pointers.
LEMMA GoodTake ==
  ASSUME FreeCounts, NEW r, NEW X, NEW D, Good(r, X, D), Room(r) > 0
  PROVE  LET t == TakeIndexBlock(r)
             c == FreeBlock(r)
         IN  /\ Good(t, X, D) /\ Keeps(r, t, X) /\ Room(t) = Room(r) - 1
             /\ c \in Blocks /\ c \in t.used /\ c \notin r.used
             /\ t.ino = r.ino /\ t.blk[c] = ZeroBlock
             /\ \A x \in Blocks \ {c} : t.blk[x] = r.blk[x]
<1> DEFINE t == TakeIndexBlock(r)
           c == FreeBlock(r)
<1>1. r \in Rec /\ Blocks \ r.used # {}
  BY RoomLeft DEF Good
<1>2. /\ c \in Blocks /\ c \notin r.used
      /\ t \in Rec /\ t.ino = r.ino /\ t.used = r.used \cup {c}
      /\ \A x \in Blocks : t.blk[x] = IF x = c THEN ZeroBlock ELSE r.blk[x]
  BY Zenon, <1>1, TakeFields
<1> HIDE DEF t, c
<1>3. \A x \in r.used : t.blk[x] = r.blk[x]
  BY <1>2, GoodFacts
<1>4. Second(t.blk, t.ino) = Second(r.blk, r.ino)
  BY <1>2, <1>3, GoodFacts DEF Second
<1>5. Within(t.blk, t.ino, t.used \ X)
  <2>1. \A x \in Second(r.blk, r.ino) : t.blk[x] = r.blk[x]
    BY <1>3 DEF Good, Within
  <2>2. c \notin X /\ r.used \ X \subseteq t.used \ X
    BY <1>2 DEF Good
  <2> QED
    BY <1>2, <1>4, <2>1, <2>2 DEF Good, Within
<1>6. Shape(t.blk, t.ino, D)
  <2>1. t.ino.indirect[3] # 0 => t.blk[t.ino.indirect[3]] = ZeroBlock
    BY <1>2, <1>3, GoodRoots
  <2> QED
    BY <1>2, <1>4, <2>1 DEF Good, Shape
<1>7. Good(t, X, D)
  BY <1>2, <1>5, <1>6 DEF Good
<1>8. Keeps(r, t, X)
  BY <1>2, <1>3, GoodRoots DEF Keeps
<1>9. Room(t) = Room(r) - 1
  BY Zenon, <1>1, <1>2, RoomLeft
<1> QED
  BY <1>2, <1>7, <1>8, <1>9 DEF t, c

\* A block that belongs to nobody becomes the first one of a level.
LEMMA GoodRoot ==
  ASSUME NEW r, NEW X, NEW D, Good(r, X, D), NEW l \in 1..3, r.ino.indirect[l] = 0,
         NEW c \in Blocks, c \in r.used \ X, c \notin D, r.blk[c] = ZeroBlock,
         c \notin Roots(r.ino), c \notin Second(r.blk, r.ino)
  PROVE  LET t == SetRoot(r, l, c)
         IN  /\ Good(t, X, D) /\ Room(t) = Room(r)
             /\ t.blk = r.blk /\ t.used = r.used /\ t.ino.direct = r.ino.direct
             /\ \A m \in 1..3 : t.ino.indirect[m] = IF m = l THEN c ELSE r.ino.indirect[m]
<1> DEFINE t == SetRoot(r, l, c)
<1>1. r \in Rec
  BY DEF Good
<1>2. /\ t \in Rec /\ t.blk = r.blk /\ t.used = r.used
      /\ t.ino.direct = r.ino.direct
      /\ \A m \in 1..3 : t.ino.indirect[m] = IF m = l THEN c ELSE r.ino.indirect[m]
  BY <1>1, RootFields
<1> HIDE DEF t
<1>3. Roots(t.ino) \subseteq Roots(r.ino) \cup {c}
  BY <1>2 DEF Roots
<1>4. Second(t.blk, t.ino) = Second(r.blk, r.ino)
  <2>1. CASE l = 2
    <3>1. Second(r.blk, r.ino) = {}
      BY <2>1 DEF Second
    <3>2. Second(t.blk, t.ino) = Entries(ZeroBlock)
      BY <1>2, <2>1, Sizes DEF Second
    <3> QED
      BY <3>1, <3>2, ZeroFacts
  <2>2. CASE l # 2
    BY <1>2, <2>2 DEF Second
  <2> QED
    BY <2>1, <2>2
<1>5. Within(t.blk, t.ino, t.used \ X)
  BY <1>2, <1>3, <1>4 DEF Good, Within
<1>6. \A m \in 1..3 : r.ino.indirect[m] # 0 => r.ino.indirect[m] # c
  BY DEF Roots
<1>7. \A m, n \in 1..3 : t.ino.indirect[m] = t.ino.indirect[n] /\ t.ino.indirect[m] # 0
         => m = n
  BY <1>2, <1>6, GoodFacts
<1>8. t.ino.indirect[3] # 0 => t.blk[t.ino.indirect[3]] = ZeroBlock
  BY <1>2 DEF Good, Shape
<1>9. Roots(t.ino) \cap D = {} /\ Second(t.blk, t.ino) \cap Roots(t.ino) = {}
  BY <1>3, <1>4 DEF Good, Shape
<1>10. Good(t, X, D)
  BY <1>2, <1>5, <1>7, <1>8, <1>9 DEF Good, Shape
<1>11. Room(t) = Room(r)
  BY <1>2 DEF Room
<1> QED
  BY <1>2, <1>10, <1>11 DEF t

\* t has a first block at level l, and is r otherwise.
Rooted(r, l, t) ==
  /\ Room(t) >= Room(r) - 1
  /\ r.used \subseteq t.used /\ \A x \in r.used : t.blk[x] = r.blk[x]
  /\ t.ino.direct = r.ino.direct
  /\ \A m \in 1..3 : m # l => t.ino.indirect[m] = r.ino.indirect[m]
  /\ t.ino.indirect[l] # 0
  /\ r.ino.indirect[l] # 0 => t = r
  /\ r.ino.indirect[l] = 0 => t.blk[t.ino.indirect[l]] = ZeroBlock

LEMMA GoodRootOf ==
  ASSUME FreeCounts, NEW r, NEW X, NEW D, Good(r, X, D), Room(r) > 0, NEW l \in 1..3
  PROVE  Good(RootOf(r, l), X, D) /\ Rooted(r, l, RootOf(r, l))
<1>0. Room(r) \in Nat
  BY RoomLeft DEF Good
<1>1. CASE r.ino.indirect[l] # 0
  BY <1>0, <1>1 DEF RootOf, Rooted
<1>2. CASE r.ino.indirect[l] = 0
  <2> DEFINE s == TakeIndexBlock(r)
             c == FreeBlock(r)
             t == SetRoot(s, l, c)
  <2>1. /\ Good(s, X, D) /\ Keeps(r, s, X) /\ Room(s) = Room(r) - 1
        /\ c \in Blocks /\ c \in s.used /\ c \notin r.used
        /\ s.ino = r.ino /\ s.blk[c] = ZeroBlock
        /\ \A x \in Blocks \ {c} : s.blk[x] = r.blk[x]
    BY Zenon, GoodTake
  <2>2. RootOf(r, l) = t
    BY <1>2 DEF RootOf
  <2> HIDE DEF s, c
  <2>3. c \in s.used \ X /\ c \notin D
    BY <2>1 DEF Good
  <2>4. c \notin Roots(s.ino) /\ c \notin Second(s.blk, s.ino)
    <3>1. c \notin Roots(r.ino) /\ c \notin Second(r.blk, r.ino)
      BY <2>1 DEF Good, Within
    <3>2. Second(s.blk, s.ino) = Second(r.blk, r.ino)
      BY <2>1, GoodFacts DEF Second
    <3> QED
      BY <2>1, <3>1, <3>2
  <2>5. /\ Good(t, X, D) /\ Room(t) = Room(s)
        /\ t.blk = s.blk /\ t.used = s.used /\ t.ino.direct = s.ino.direct
        /\ \A m \in 1..3 : t.ino.indirect[m] = IF m = l THEN c ELSE s.ino.indirect[m]
    BY <1>2, <2>1, <2>3, <2>4, GoodRoot
  <2> HIDE DEF t
  <2>6. \A x \in r.used : t.blk[x] = r.blk[x]
    BY <2>1, <2>5, GoodFacts
  <2>7. r.used \subseteq t.used
    BY <2>1, <2>5 DEF Keeps
  <2> QED
    BY <1>0, <1>2, <2>1, <2>2, <2>5, <2>6, <2>7, Sizes DEF Rooted
<1> QED
  BY <1>1, <1>2

\* Pointers are written to a block that is not of another file.
LEMMA GoodWrite ==
  ASSUME NEW r, NEW X, NEW D, Good(r, X, D), NEW q \in Pointers, NEW at, at \notin X,
         at # r.ino.indirect[3], Entries(q) \subseteq r.used \ X,
         at = r.ino.indirect[2] =>
           /\ Entries(q) \cap Roots(r.ino) = {}
           /\ \A e \in Entries(q) : Entries(r.blk[e]) \subseteq r.used \ X
  PROVE  LET t == WritePointers(r, at, q)
         IN  /\ Good(t, X, D) /\ Room(t) = Room(r)
             /\ t.ino = r.ino /\ t.used = r.used
             /\ \A x \in Blocks : t.blk[x] = IF x = at THEN q ELSE r.blk[x]
             /\ at # r.ino.indirect[1] => Keeps(r, t, X)
<1> DEFINE t == WritePointers(r, at, q)
<1>1. r \in Rec
  BY DEF Good
<1>2. /\ t \in Rec /\ t.ino = r.ino /\ t.used = r.used
      /\ \A x \in Blocks : t.blk[x] = IF x = at THEN q ELSE r.blk[x]
  BY <1>1, WriteFields
<1> HIDE DEF t
<1>3. Roots(t.ino) \subseteq t.used \ X /\ t.used \subseteq Blocks
  BY Zenon, <1>2, GoodRoots DEF Good, Within
<1>4. ASSUME at = r.ino.indirect[2], at # 0
      PROVE  /\ Second(t.blk, t.ino) = Entries(q)
             /\ \A e \in Second(t.blk, t.ino) : Entries(t.blk[e]) \subseteq t.used \ X
  <2>1. at \in Blocks /\ at \in Roots(r.ino)
    BY <1>4, GoodFacts DEF Roots
  <2>2. Second(t.blk, t.ino) = Entries(q)
    BY <1>2, <1>4, <2>1 DEF Second
  <2>3. \A e \in Entries(q) : e # at /\ e \in Blocks
    BY <1>2, <1>3, <1>4, <2>1
  <2> QED
    BY <1>2, <1>4, <2>2, <2>3
<1>5. ASSUME ~(at = r.ino.indirect[2] /\ at # 0)
      PROVE  /\ Second(t.blk, t.ino) = Second(r.blk, r.ino)
             /\ \A e \in Second(t.blk, t.ino) : Entries(t.blk[e]) \subseteq t.used \ X
  <2>1. Second(t.blk, t.ino) = Second(r.blk, r.ino)
    BY <1>2, <1>5, GoodFacts DEF Second
  <2>2. \A e \in Second(r.blk, r.ino) : e \in Blocks /\ Entries(r.blk[e]) \subseteq r.used \ X
    BY <1>2, <1>3 DEF Good, Within
  <2> QED
    BY <1>2, <2>1, <2>2
<1>6. /\ Second(t.blk, t.ino) \subseteq t.used \ X
      /\ Second(t.blk, t.ino) \cap Roots(t.ino) = {}
      /\ \A e \in Second(t.blk, t.ino) : Entries(t.blk[e]) \subseteq t.used \ X
  <2>1. CASE at = r.ino.indirect[2] /\ at # 0
    BY <1>2, <1>4, <2>1
  <2>2. CASE ~(at = r.ino.indirect[2] /\ at # 0)
    BY <1>2, <1>5, <2>2 DEF Good, Within, Shape
  <2> QED
    BY <2>1, <2>2
<1>7. t.ino.indirect[3] # 0 => t.blk[t.ino.indirect[3]] = ZeroBlock
  BY <1>2, GoodRoots
<1>8. Good(t, X, D)
  BY <1>2, <1>3, <1>6, <1>7 DEF Good, Within, Shape
<1>9. Room(t) = Room(r)
  BY <1>2 DEF Room
<1>10. at # r.ino.indirect[1] => Keeps(r, t, X)
  BY <1>2, GoodRoots DEF Keeps
<1> QED
  BY <1>2, <1>8, <1>9, <1>10 DEF t

\* The block that is taken is nobody's.
LEMMA Fresh ==
  ASSUME FreeCounts, NEW r, NEW X, NEW D, Good(r, X, D), Room(r) > 0
  PROVE  LET t == TakeIndexBlock(r)
             c == FreeBlock(r)
         IN  /\ c \in t.used \ X /\ c \notin Roots(t.ino) /\ c \notin Second(t.blk, t.ino)
             /\ c # 0
<1> DEFINE t == TakeIndexBlock(r)
           c == FreeBlock(r)
<1>1. /\ c \in Blocks /\ c \in t.used /\ c \notin r.used
      /\ t.ino = r.ino
      /\ \A x \in Blocks \ {c} : t.blk[x] = r.blk[x]
  BY Zenon, GoodTake
<1> HIDE DEF t, c
<1>2. c \notin Roots(r.ino) /\ c \notin Second(r.blk, r.ino) /\ c \notin X
  BY <1>1 DEF Good, Within
<1>3. Second(t.blk, t.ino) = Second(r.blk, r.ino)
  BY <1>1, GoodRoots DEF Second
<1> QED
  BY <1>1, <1>2, <1>3, Sizes DEF t, c

\* A pointer is written to a block that is not the first one of a level.
LEMMA GoodPointer ==
  ASSUME NEW r, NEW X, NEW D, Good(r, X, D), NEW at, at \in r.used \ X,
         at \notin Roots(r.ino), Entries(r.blk[at]) \subseteq r.used \ X,
         NEW pos \in 0..P-1, NEW b \in Blocks, b \in r.used \ X
  PROVE  LET t == WritePointer(r, at, pos, b)
         IN  /\ Good(t, X, D) /\ Keeps(r, t, X) /\ Room(t) = Room(r)
             /\ t.ino = r.ino /\ t.used = r.used
             /\ t.blk[at][pos] = b
             /\ \A x \in Blocks \ {at} : t.blk[x] = r.blk[x]
<1> DEFINE q == Added(r.blk[at], pos, b)
           t == WritePointers(r, at, q)
<1>0. at \in Blocks /\ r.blk[at] \in Pointers /\ at # 0
  BY GoodRoots, GoodFacts, Sizes
<1>1. q \in Pointers /\ Entries(q) \subseteq Entries(r.blk[at]) \cup {b} /\ q[pos] = b
  <2>1. IsAdded(q, r.blk[at], pos, b)
    BY Zenon, <1>0, PointerAdded
  <2> QED
    BY <2>1 DEF IsAdded
<1>2. WritePointer(r, at, pos, b) = t
  BY DEF WritePointer, Added
<1> HIDE DEF q
<1>3. /\ at \notin X /\ Entries(q) \subseteq r.used \ X
      /\ at # r.ino.indirect[1] /\ at # r.ino.indirect[2] /\ at # r.ino.indirect[3]
  BY <1>0, <1>1 DEF Roots
<1>4. /\ Good(t, X, D) /\ Room(t) = Room(r)
      /\ t.ino = r.ino /\ t.used = r.used
      /\ \A x \in Blocks : t.blk[x] = IF x = at THEN q ELSE r.blk[x]
      /\ Keeps(r, t, X)
  BY <1>1, <1>3, GoodWrite
<1> HIDE DEF t
<1> QED
  BY <1>0, <1>1, <1>2, <1>4

AtFirstLevel(r, X, pos, b, t) ==
  /\ r.used \subseteq t.used
  /\ t.ino.direct = r.ino.direct
  /\ t.ino.indirect[1] # 0
  /\ t.ino.indirect[2] = r.ino.indirect[2]
  /\ t.ino.indirect[3] = r.ino.indirect[3]
  /\ \A x \in X : t.blk[x] = r.blk[x]
  /\ \A j \in 0..P-1 : t.blk[t.ino.indirect[1]][j] =
       IF j = pos THEN b
       ELSE IF r.ino.indirect[1] = 0 THEN 0 ELSE r.blk[r.ino.indirect[1]][j]

LEMMA GoodLevel1 ==
  ASSUME FreeCounts, NEW r, NEW X, NEW D, Good(r, X, D), Room(r) > 0,
         NEW idx \in Nat, idx < MaxBlocks, Level(idx) = 1, NEW b \in D,
         r.ino.indirect[1] # 0 => Entries(r.blk[r.ino.indirect[1]]) \subseteq D
  PROVE  /\ Good(Level1(r, idx, b), X, D)
         /\ AtFirstLevel(r, X, idx - FIRST_POINTER, b, Level1(r, idx, b))
<1> DEFINE s == RootOf(r, 1)
           at == s.ino.indirect[1]
           pos == Positions(idx)[1]
           q == Added(s.blk[at], pos, b)
           t == WritePointers(s, at, q)
<1>0. pos = idx - FIRST_POINTER /\ pos \in 0..P-1
  BY Zenon, PositionsInBlock
<1>1. /\ Good(s, X, D)
      /\ r.used \subseteq s.used /\ \A x \in r.used : s.blk[x] = r.blk[x]
      /\ s.ino.direct = r.ino.direct
      /\ s.ino.indirect[2] = r.ino.indirect[2] /\ s.ino.indirect[3] = r.ino.indirect[3]
      /\ at # 0
      /\ r.ino.indirect[1] # 0 => s = r
      /\ r.ino.indirect[1] = 0 => s.blk[at] = ZeroBlock
  <2>1. Good(s, X, D) /\ Rooted(r, 1, s)
    BY Zenon, LevelNumbers, GoodRootOf
  <2> HIDE DEF s
  <2> QED
    BY <2>1 DEF Rooted
<1>2. Level1(r, idx, b) = t
  BY DEF Level1, WritePointer, Added
<1> HIDE DEF s
<1>3. at \in s.used \ X /\ at \in Blocks
  BY <1>1, GoodRoots
<1>4. s.blk[at] \in Pointers
  BY <1>1, <1>3, GoodFacts
<1>5. Entries(s.blk[at]) \subseteq D
  BY <1>1, ZeroFacts
<1>6. b \in Blocks /\ b \in s.used \ X /\ D \subseteq s.used \ X
  BY Zenon, <1>1, GoodRoots DEF Good
<1>7. /\ q \in Pointers /\ Entries(q) \subseteq Entries(s.blk[at]) \cup {b}
      /\ q[pos] = b /\ \A k \in 0..P-1 : k # pos => q[k] = s.blk[at][k]
  <2>1. IsAdded(q, s.blk[at], pos, b)
    BY Zenon, <1>0, <1>4, <1>6, PointerAdded
  <2> HIDE DEF q, at, pos
  <2> QED
    BY <2>1 DEF IsAdded
<1> HIDE DEF q
<1>8. at # s.ino.indirect[2] /\ at # s.ino.indirect[3]
  BY <1>1, GoodFacts
<1> HIDE DEF at
<1>9. /\ Good(t, X, D)
      /\ t.ino = s.ino /\ t.used = s.used
      /\ \A x \in Blocks : t.blk[x] = IF x = at THEN q ELSE s.blk[x]
  <2>1. at \notin X /\ Entries(q) \subseteq s.used \ X
    BY <1>3, <1>5, <1>6, <1>7
  <2> QED
    BY <1>1, <1>7, <1>8, <2>1, GoodWrite
<1> HIDE DEF t
<1>10. \A x \in X : t.blk[x] = r.blk[x]
  BY <1>1, <1>3, <1>9, GoodRoots
<1>11. \A j \in 0..P-1 : s.blk[at][j] =
         IF r.ino.indirect[1] = 0 THEN 0 ELSE r.blk[r.ino.indirect[1]][j]
  BY <1>1, ZeroFacts DEF at
<1>12. t.blk[at] = q
  BY <1>3, <1>9
<1>13. t.ino.indirect[1] = at
  BY <1>9 DEF at
<1> HIDE DEF pos
<1> QED
  BY <1>0, <1>1, <1>2, <1>7, <1>9, <1>10, <1>11, <1>12, <1>13 DEF AtFirstLevel

LEMMA GoodLevel2 ==
  ASSUME FreeCounts, NEW r, NEW X, NEW D, Good(r, X, D), Room(r) > 1,
         NEW idx \in Nat, idx < MaxBlocks, Level(idx) = 2, NEW b \in D
  PROVE  LET t == Level2(r, idx, b)
         IN  Good(t, X, D) /\ Keeps(r, t, X) /\ Room(t) >= Room(r) - 2
<1> DEFINE p1 == Positions(idx)[1]
           p2 == Positions(idx)[2]
           s == RootOf(r, 2)
           top == s.ino.indirect[2]
           u == ChildOf(s, top, p1, top)
           c == u.blk[top][p1]
           t == WritePointer(u, c, p2, b)
<1>0. p1 \in 0..P-1 /\ p2 \in 0..P-1 /\ Room(r) \in Nat
  BY PositionsInBlock, RoomLeft DEF Good
<1>1. /\ Good(s, X, D) /\ Room(s) >= Room(r) - 1
      /\ r.used \subseteq s.used /\ \A x \in r.used : s.blk[x] = r.blk[x]
      /\ s.ino.direct = r.ino.direct
      /\ s.ino.indirect[1] = r.ino.indirect[1]
      /\ top # 0
  <2>0. Room(r) > 0
    BY <1>0
  <2>1. Good(s, X, D) /\ Rooted(r, 2, s)
    BY Zenon, <2>0, LevelNumbers, GoodRootOf
  <2> HIDE DEF s
  <2> QED
    BY <2>1 DEF Rooted
<1>2. Level2(r, idx, b) = t
  BY DEF Level2
<1> HIDE DEF s
<1>3. Keeps(r, s, X)
  BY <1>1, GoodRoots DEF Keeps
<1>4. /\ top \in s.used \ X /\ top \in Blocks /\ s.blk[top] \in Pointers
      /\ top # s.ino.indirect[1] /\ top # s.ino.indirect[3]
  BY <1>1, GoodRoots, GoodFacts
<1>5. /\ Good(u, X, D) /\ Keeps(s, u, X) /\ Room(u) >= Room(s) - 1
      /\ c \in Second(u.blk, u.ino)
  <2>1. CASE s.blk[top][p1] # 0
    <3>1. u = s
      BY <2>1 DEF ChildOf
    <3>2. c \in Second(s.blk, s.ino)
      BY Zenon, <1>0, <1>1, <2>1, <3>1 DEF Second, Entries
    <3>3. Room(s) \in Nat
      BY <1>1, RoomLeft DEF Good
    <3> HIDE DEF u, c, top
    <3> QED
      BY <1>1, <3>1, <3>2, <3>3 DEF Keeps
  <2>2. CASE s.blk[top][p1] = 0
    <3> DEFINE n == FreeBlock(s)
               v == TakeIndexBlock(s)
               q == Added(s.blk[top], p1, n)
               w == WritePointers(v, top, q)
    <3>0. Room(s) > 0 /\ Room(s) \in Nat
      BY <1>0, <1>1, RoomLeft DEF Good
    <3>1. /\ Good(v, X, D) /\ Keeps(s, v, X) /\ Room(v) = Room(s) - 1
          /\ n \in Blocks /\ n \in v.used /\ n \notin s.used
          /\ v.ino = s.ino /\ v.blk[n] = ZeroBlock
          /\ \A x \in Blocks \ {n} : v.blk[x] = s.blk[x]
      BY Zenon, <1>1, <3>0, GoodTake
    <3>2. n \in v.used \ X /\ n \notin Roots(v.ino) /\ n # 0
      BY Zenon, <1>1, <3>0, Fresh
    <3>3. u = w
      BY <2>2 DEF ChildOf, Added
    <3> HIDE DEF n, v, u
    <3>4. /\ q \in Pointers /\ Entries(q) \subseteq Entries(s.blk[top]) \cup {n}
          /\ q[p1] = n
      <4>1. IsAdded(q, s.blk[top], p1, n)
        BY Zenon, <1>0, <1>4, <3>1, PointerAdded
      <4> HIDE DEF q, top, p1
      <4> QED
        BY <4>1 DEF IsAdded
    <3> HIDE DEF q
    <3>5. Entries(s.blk[top]) = Second(v.blk, v.ino)
      BY <1>1, <1>4, <3>1 DEF Second
    <3>6. /\ Entries(q) \subseteq v.used \ X
          /\ Entries(q) \cap Roots(v.ino) = {}
          /\ \A e \in Entries(q) : Entries(v.blk[e]) \subseteq v.used \ X
      BY <3>1, <3>2, <3>4, <3>5, ZeroFacts DEF Good, Within, Shape
    <3>7. /\ top \notin X /\ top # v.ino.indirect[3] /\ top # v.ino.indirect[1]
          /\ top = v.ino.indirect[2]
      BY <1>4, <3>1
    <3> HIDE DEF top
    <3>8. /\ Good(w, X, D) /\ Room(w) = Room(v) /\ w.ino = v.ino
          /\ \A x \in Blocks : w.blk[x] = IF x = top THEN q ELSE v.blk[x]
          /\ Keeps(v, w, X)
      BY <3>1, <3>4, <3>6, <3>7, GoodWrite
    <3> HIDE DEF w, c
    <3>9. Keeps(s, w, X)
      BY Zenon, <3>1, <3>8, KeepsTransitive
    <3>10. w.blk[top] = q /\ c = n
      BY <1>4, <3>3, <3>4, <3>8 DEF c
    <3>11. n \in Entries(q)
      BY <1>0, <3>2, <3>4 DEF Entries
    <3>12. c \in Second(w.blk, w.ino)
      BY <1>1, <3>7, <3>8, <3>10, <3>11 DEF Second, top
    <3> QED
      BY <3>0, <3>1, <3>3, <3>8, <3>9, <3>12
  <2> QED
    BY Zenon, <2>1, <2>2
<1> HIDE DEF u, c
<1>6. /\ c \in u.used \ X /\ c \notin Roots(u.ino)
      /\ Entries(u.blk[c]) \subseteq u.used \ X
  BY <1>5 DEF Good, Within, Shape
<1>7. b \in Blocks /\ b \in u.used \ X
  BY Zenon, <1>5, GoodRoots DEF Good
<1>8. Good(t, X, D) /\ Keeps(u, t, X) /\ Room(t) = Room(u)
  <2> HIDE DEF p2
  <2> QED
    BY <1>0, <1>5, <1>6, <1>7, GoodPointer
<1> HIDE DEF t
<1>9. Keeps(r, t, X)
  BY Zenon, <1>3, <1>5, <1>8, KeepsTransitive
<1>10. Room(s) \in Nat /\ Room(u) \in Nat
  BY <1>1, <1>5, RoomLeft DEF Good
<1> QED
  BY <1>0, <1>1, <1>2, <1>5, <1>8, <1>9, <1>10

\* The steps above, as relations between what they find and what they leave.
Takes(r, X, c, t) ==
  /\ Keeps(r, t, X) /\ Room(t) = Room(r) - 1
  /\ c \in Blocks /\ c \in t.used \ X /\ c \notin r.used /\ c \notin Roots(t.ino)
  /\ c # 0 /\ t.ino = r.ino /\ t.blk[c] = ZeroBlock
  /\ \A x \in Blocks : x # c => t.blk[x] = r.blk[x]

LEMMA Take ==
  ASSUME FreeCounts, NEW r, NEW X, NEW D, Good(r, X, D), Room(r) > 0
  PROVE  Good(TakeIndexBlock(r), X, D) /\ Takes(r, X, FreeBlock(r), TakeIndexBlock(r))
<1> DEFINE t == TakeIndexBlock(r)
           c == FreeBlock(r)
<1>1. /\ Good(t, X, D) /\ Keeps(r, t, X) /\ Room(t) = Room(r) - 1
      /\ c \in Blocks /\ c \in t.used /\ c \notin r.used
      /\ t.ino = r.ino /\ t.blk[c] = ZeroBlock
      /\ \A x \in Blocks \ {c} : t.blk[x] = r.blk[x]
  BY Zenon, GoodTake
<1>2. c \in t.used \ X /\ c \notin Roots(t.ino) /\ c # 0
  BY Zenon, Fresh
<1> HIDE DEF t, c
<1> QED
  BY <1>1, <1>2 DEF Takes, t, c

Points(r, X, at, pos, b, t) ==
  /\ Keeps(r, t, X) /\ Room(t) = Room(r)
  /\ t.ino = r.ino /\ t.used = r.used /\ t.blk[at][pos] = b
  /\ \A x \in Blocks : x # at => t.blk[x] = r.blk[x]

LEMMA Point ==
  ASSUME NEW r, NEW X, NEW D, Good(r, X, D), NEW at, at \in r.used \ X,
         at \notin Roots(r.ino), r.blk[at] = ZeroBlock,
         NEW pos \in 0..P-1, NEW b, b \in r.used \ X
  PROVE  /\ Good(WritePointer(r, at, pos, b), X, D)
         /\ Points(r, X, at, pos, b, WritePointer(r, at, pos, b))
<1> DEFINE t == WritePointer(r, at, pos, b)
<1>1. b \in Blocks
  BY GoodRoots
<1>2. Entries(r.blk[at]) \subseteq r.used \ X
  BY ZeroFacts
<1>3. /\ Good(t, X, D) /\ Keeps(r, t, X) /\ Room(t) = Room(r)
      /\ t.ino = r.ino /\ t.used = r.used
      /\ t.blk[at][pos] = b
      /\ \A x \in Blocks \ {at} : t.blk[x] = r.blk[x]
  BY <1>1, <1>2, GoodPointer
<1> HIDE DEF t
<1> QED
  BY <1>3 DEF Points, t

\* A block of pointers is cleared.
IsCleared(r, at, X, D, t) ==
  /\ Good(t, X, D) /\ Room(t) = Room(r) /\ t.ino = r.ino /\ t.used = r.used
  /\ \A x \in Blocks : t.blk[x] = IF x = at THEN ZeroBlock ELSE r.blk[x]

LEMMA Clear ==
  ASSUME NEW r, NEW X, NEW D, Good(r, X, D), NEW at, at \notin X, at # r.ino.indirect[3]
  PROVE  IsCleared(r, at, X, D, WritePointers(r, at, ZeroBlock))
<1>1. ZeroBlock \in Pointers /\ Entries(ZeroBlock) = {}
  BY ZeroFacts
<1> QED
  BY <1>1, GoodWrite DEF IsCleared

LEMMA GoodLevel2Wraps ==
  ASSUME FreeCounts, NEW r, NEW X, NEW D, Good(r, X, D), Room(r) > 4,
         NEW idx \in Nat, idx < MaxBlocks, Level(idx) = 2, NEW b \in D,
         NEW t \in Level2Wraps(r, idx, b)
  PROVE  Good(t, X, D) /\ Keeps(r, t, X)
<1> DEFINE l == Level2(r, idx, b)
           s == RootOf(l, 3)
           low == (idx - THIRD_POINTER) % (P * P)
           mid == FreeBlock(s)
           v == TakeIndexBlock(s)
           at == s.ino.indirect[2]
           w == WritePointers(v, at, s.blk[s.ino.indirect[3]])
           leaf == FreeBlock(w)
           y == TakeIndexBlock(w)
           z == WritePointer(y, leaf, low % P, b)
           e == WritePointer(z, mid, low \div P, leaf)
<1>0. t \in {s, z, e}
  BY Zenon DEF Level2Wraps
<1>1. low \div P \in 0..P-1 /\ low % P \in 0..P-1
  <2>1. P \in Nat \ {0} /\ P * P \in Nat \ {0} /\ idx - THIRD_POINTER \in Int
    BY Sizes
  <2>2. low \in 0 .. P * P - 1
    BY Zenon, <2>1, Remainder
  <2>3. low \in Int
    BY <2>1, <2>2
  <2> HIDE DEF low
  <2> QED
    BY Zenon, <2>1, <2>2, <2>3, Quotient, Remainder
<1> HIDE DEF low
<1>2. Good(l, X, D) /\ Keeps(r, l, X) /\ Room(l) > 2
  <2>0. Room(r) \in Nat
    BY RoomLeft DEF Good
  <2>1. Room(r) > 1
    BY <2>0
  <2>2. Good(l, X, D) /\ Keeps(r, l, X) /\ Room(l) >= Room(r) - 2
    BY Zenon, <2>1, GoodLevel2
  <2>3. Room(l) \in Nat
    BY <2>2, RoomLeft DEF Good
  <2> HIDE DEF l
  <2> QED
    BY <2>0, <2>2, <2>3
<1> HIDE DEF l
<1>3. Good(s, X, D) /\ Keeps(l, s, X) /\ Room(s) > 1 /\ s.ino.indirect[3] # 0
  <2>0. Room(l) \in Nat /\ Room(l) > 0
    BY <1>2, RoomLeft DEF Good
  <2>1. Good(s, X, D) /\ Rooted(l, 3, s)
    BY Zenon, <1>2, <2>0, LevelNumbers, GoodRootOf
  <2>2. Room(s) \in Nat
    BY <2>1, RoomLeft DEF Good
  <2> HIDE DEF s
  <2>3. Room(s) > 1 /\ s.ino.indirect[3] # 0
    BY <1>2, <2>0, <2>1, <2>2 DEF Rooted
  <2>4. Keeps(l, s, X)
    BY <1>2, <2>1, GoodRoots DEF Keeps, Rooted
  <2> QED
    BY <2>1, <2>3, <2>4
<1> HIDE DEF s
<1>4. Good(v, X, D) /\ Takes(s, X, mid, v) /\ Room(s) \in Nat /\ Room(s) > 0
  <2>1. Room(s) \in Nat /\ Room(s) > 0
    BY <1>3, RoomLeft DEF Good
  <2> QED
    BY Zenon, <1>3, <2>1, Take
<1> HIDE DEF v, mid
<1>5. s.blk[s.ino.indirect[3]] = ZeroBlock
  BY <1>3, GoodRoots
<1>6. /\ Good(w, X, D) /\ Room(w) = Room(v) /\ w.ino = v.ino /\ w.used = v.used
      /\ Keeps(v, w, X) /\ w.blk[mid] = ZeroBlock /\ Room(w) > 0
  <2>1. /\ at # v.ino.indirect[1] \/ at = 0
        /\ at # v.ino.indirect[3] \/ at = 0
        /\ at = v.ino.indirect[2] /\ at \notin X
    BY <1>3, <1>4, GoodRoots, GoodFacts, Sizes DEF Takes
  <2>2. at = v.ino.indirect[2] /\ at # v.ino.indirect[3]
    BY <1>3, <1>4, <2>1 DEF Takes
  <2>3. at # mid
    BY <1>4, <2>2 DEF Takes, Roots
  <2>4. at # v.ino.indirect[1] \/ v.ino.indirect[1] = 0
    BY <2>1
  <2>5. w = WritePointers(v, at, ZeroBlock)
    BY <1>5
  <2> HIDE DEF w, at
  <2>6. /\ Good(w, X, D) /\ Room(w) = Room(v)
        /\ w.ino = v.ino /\ w.used = v.used
        /\ \A x \in Blocks : w.blk[x] = IF x = at THEN ZeroBlock ELSE v.blk[x]
    <3>1. IsCleared(v, at, X, D, w)
      BY Zenon, <1>4, <2>1, <2>2, <2>5, Clear
    <3> QED
      BY Zenon, <3>1 DEF IsCleared
  <2>7. Keeps(v, w, X)
    BY <1>4, <2>1, <2>4, <2>6, GoodRoots DEF Keeps
  <2> QED
    BY <1>3, <1>4, <2>3, <2>6, <2>7 DEF Takes
<1> HIDE DEF w, at
<1>7. Good(y, X, D) /\ Takes(w, X, leaf, y)
  BY Zenon, <1>6, Take
<1> HIDE DEF y, leaf
<1>8. b \in y.used \ X
  BY <1>7 DEF Good
<1>9. Good(z, X, D) /\ Points(y, X, leaf, low % P, b, z)
  <2>1. leaf \in y.used \ X /\ leaf \notin Roots(y.ino) /\ y.blk[leaf] = ZeroBlock
    BY <1>7 DEF Takes
  <2> QED
    BY Zenon, <1>1, <1>7, <1>8, <2>1, Point
<1> HIDE DEF z
<1>10. Good(e, X, D) /\ Points(z, X, mid, low \div P, leaf, e)
  <2>1. mid \in Blocks /\ mid \in w.used \ X /\ mid \notin Roots(w.ino)
    BY <1>4, <1>6 DEF Takes
  <2>2. mid # leaf /\ mid \in y.used \ X /\ mid \notin Roots(y.ino)
    BY <1>7, <2>1 DEF Takes, Keeps
  <2>3. y.blk[mid] = ZeroBlock
    BY <1>6, <1>7, <2>1, <2>2 DEF Takes
  <2>4. mid \in z.used \ X /\ mid \notin Roots(z.ino) /\ z.blk[mid] = ZeroBlock
    BY <1>9, <2>1, <2>2, <2>3 DEF Points
  <2>5. leaf \in z.used \ X
    BY <1>7, <1>9 DEF Takes, Points
  <2> QED
    BY Zenon, <1>1, <1>9, <2>4, <2>5, Point
<1> HIDE DEF e
<1>11. Keeps(r, s, X)
  BY Zenon, <1>2, <1>3, KeepsTransitive
<1>12. Keeps(s, v, X) /\ Keeps(w, y, X) /\ Keeps(y, z, X) /\ Keeps(z, e, X)
  BY <1>4, <1>7, <1>9, <1>10 DEF Takes, Points
<1>13. Keeps(r, w, X)
  BY Zenon, <1>6, <1>11, <1>12, KeepsTransitive
<1>14. Keeps(r, z, X) /\ Keeps(r, e, X)
  BY Zenon, <1>12, <1>13, KeepsTransitive
<1> QED
  BY <1>0, <1>3, <1>9, <1>10, <1>11, <1>14

LEMMA GoodLevel3 ==
  ASSUME FreeCounts, NEW r, NEW X, NEW D, Good(r, X, D), Room(r) > 2,
         NEW idx \in Nat, idx < MaxBlocks, Level(idx) = 3, NEW b \in D
  PROVE  Good(Level3(r, idx, b), X, D) /\ Keeps(r, Level3(r, idx, b), X)
<1> DEFINE p1 == Positions(idx)[1]
           p2 == Positions(idx)[2]
           p3 == Positions(idx)[3]
           s == RootOf(r, 3)
           top == s.ino.indirect[3]
           at == s.ino.indirect[2]
           mid == FreeBlock(s)
           v == TakeIndexBlock(s)
           q == Added(ZeroBlock, p1, mid)
           w == WritePointers(v, at, q)
           leaf == FreeBlock(w)
           y == TakeIndexBlock(w)
           z == WritePointer(y, mid, p2, leaf)
           e == WritePointer(z, leaf, p3, b)
<1>0. p1 \in 0..P-1 /\ p2 \in 0..P-1 /\ p3 \in 0..P-1
  BY PositionsInBlock
<1>1. Good(s, X, D) /\ Keeps(r, s, X) /\ Room(s) > 1 /\ top # 0
  <2>0. Room(r) \in Nat /\ Room(r) > 0
    BY RoomLeft DEF Good
  <2>1. Good(s, X, D) /\ Rooted(r, 3, s)
    BY Zenon, <2>0, LevelNumbers, GoodRootOf
  <2>2. Room(s) \in Nat
    BY <2>1, RoomLeft DEF Good
  <2> HIDE DEF s
  <2>3. Room(s) > 1 /\ top # 0
    BY <2>0, <2>1, <2>2 DEF Rooted
  <2>4. Keeps(r, s, X)
    BY <2>1, GoodRoots DEF Keeps, Rooted
  <2> QED
    BY <2>1, <2>3, <2>4
<1>2. s.blk[top] = ZeroBlock
  BY <1>1, GoodRoots
<1>3. Good(v, X, D) /\ Takes(s, X, mid, v) /\ Room(s) \in Nat /\ Room(s) > 0
  <2>1. Room(s) \in Nat /\ Room(s) > 0
    BY <1>1, RoomLeft DEF Good
  <2> HIDE DEF s
  <2> QED
    BY Zenon, <1>1, <2>1, Take
<1>4. q \in Pointers /\ Entries(q) \subseteq {mid}
  <2>1. mid \in Blocks
    BY <1>3 DEF Takes
  <2>2. IsAdded(q, ZeroBlock, p1, mid)
    BY Zenon, <1>0, <2>1, ZeroFacts, PointerAdded
  <2> HIDE DEF q, mid, p1
  <2> QED
    BY <2>2, ZeroFacts DEF IsAdded
<1>5. ChildOf(s, top, p1, at) = w
  <2>1. s.blk[top][p1] = 0
    BY Zenon, <1>0, <1>2, ZeroFacts
  <2> QED
    BY Zenon, <1>2, <2>1 DEF ChildOf, Added
<1>6. /\ Good(w, X, D) /\ Room(w) = Room(v) /\ w.ino = v.ino /\ w.used = v.used
      /\ Keeps(v, w, X) /\ w.blk[mid] = ZeroBlock /\ Room(w) > 0
  <2> HIDE DEF s, v, mid, q
  <2>1. at \notin X /\ (at # v.ino.indirect[1] \/ v.ino.indirect[1] = 0)
        /\ at = v.ino.indirect[2] /\ at # v.ino.indirect[3]
    <3>1. at \notin X
      BY <1>1, GoodRoots, Sizes
    <3>2. s.ino = v.ino
      BY <1>3 DEF Takes
    <3> QED
      BY <1>1, <3>1, <3>2, GoodFacts
  <2>2. at # mid
    BY <1>3, <2>1 DEF Takes, Roots
  <2>3. /\ Entries(q) \subseteq v.used \ X /\ Entries(q) \cap Roots(v.ino) = {}
        /\ \A x \in Entries(q) : Entries(v.blk[x]) \subseteq v.used \ X
    BY <1>3, <1>4, ZeroFacts DEF Takes
  <2> HIDE DEF w, at
  <2>4. /\ Good(w, X, D) /\ Room(w) = Room(v)
        /\ w.ino = v.ino /\ w.used = v.used
        /\ \A x \in Blocks : w.blk[x] = IF x = at THEN q ELSE v.blk[x]
    BY <1>3, <1>4, <2>1, <2>3, GoodWrite DEF w
  <2>5. Keeps(v, w, X)
    BY <1>3, <2>1, <2>4, GoodRoots DEF Keeps
  <2> QED
    BY <1>1, <1>3, <2>2, <2>4, <2>5 DEF Takes
<1>7. Good(y, X, D) /\ Takes(w, X, leaf, y)
  <2> HIDE DEF w
  <2> QED
    BY Zenon, <1>6, Take
<1>8. y.blk[mid] = ZeroBlock /\ mid # leaf /\ mid \in y.used \ X /\ mid \notin Roots(y.ino)
  <2> HIDE DEF w, y, v, mid, leaf
  <2>1. mid \in w.used \ X /\ mid \in Blocks /\ mid \notin Roots(w.ino)
    BY <1>3, <1>6 DEF Takes
  <2>2. mid # leaf
    BY <1>7, <2>1 DEF Takes
  <2> QED
    BY <1>6, <1>7, <2>1, <2>2 DEF Takes, Keeps
<1>9. w.blk[mid] = ZeroBlock
  BY Zenon, <1>6
<1>10. ChildOf(w, mid, p2, mid) = z
  <2> HIDE DEF w, mid, p2
  <2>1. w.blk[mid][p2] = 0
    BY Zenon, <1>0, <1>9, ZeroFacts
  <2> QED
    BY <1>8, <1>9, <2>1 DEF ChildOf, WritePointer
<1>11. Good(z, X, D) /\ Points(y, X, mid, p2, leaf, z)
  <2> HIDE DEF y, mid, leaf, p2, w
  <2>1. leaf \in y.used \ X
    BY <1>7 DEF Takes
  <2> QED
    BY Zenon, <1>0, <1>7, <1>8, <2>1, Point
<1>12. Good(e, X, D) /\ Points(z, X, leaf, p3, b, e)
  <2> HIDE DEF y, mid, leaf, p2, p3, z, w
  <2>1. leaf \in z.used \ X /\ leaf \notin Roots(z.ino) /\ z.blk[leaf] = ZeroBlock
    BY <1>7, <1>8, <1>11 DEF Takes, Points
  <2>2. b \in z.used \ X
    BY <1>11 DEF Good
  <2> QED
    BY Zenon, <1>0, <1>11, <2>1, <2>2, Point
<1>13. Level3(r, idx, b) = e
  <2>1. z.blk[mid][p2] = leaf
    <3> HIDE DEF z, mid, leaf, p2, y
    <3> QED
      BY <1>11 DEF Points
  <2>2. s.blk[top][p1] = 0
    BY Zenon, <1>0, <1>2, ZeroFacts
  <2> HIDE DEF z, w
  <2>3. Level3(r, idx, b) =
          WritePointer(ChildOf(w, mid, p2, mid), ChildOf(w, mid, p2, mid).blk[mid][p2], p3, b)
    BY Zenon, <1>5, <2>2 DEF Level3
  <2> QED
    BY Zenon, <1>10, <2>1, <2>3
<1> HIDE DEF s, v, w, y, z, e, mid, leaf
<1>14. Keeps(s, v, X) /\ Keeps(w, y, X) /\ Keeps(y, z, X) /\ Keeps(z, e, X)
  BY <1>3, <1>7, <1>11, <1>12 DEF Takes, Points
<1>15. Keeps(r, w, X)
  BY Zenon, <1>1, <1>6, <1>14, KeepsTransitive
<1>16. Keeps(r, e, X)
  BY Zenon, <1>14, <1>15, KeepsTransitive
<1> QED
  BY Zenon, <1>12, <1>13, <1>16

-----------------------------------------------------------------------------
(* A file grows                                                            *)

LEMMA Appended ==
  ASSUME NEW w \in Seq(Blocks), NEW b \in Blocks
  PROVE  /\ Append(w, b) \in Seq(Blocks) /\ Len(w) \in Nat
         /\ Len(Append(w, b)) = Len(w) + 1
         /\ \A k \in 1..Len(w) : Append(w, b)[k] = w[k] /\ w[k] \in Blocks
         /\ Append(w, b)[Len(w) + 1] = b
         /\ Range(Append(w, b)) = Range(w) \cup {b}
         /\ Range(w) = {w[k] : k \in 1..Len(w)}
<1>1. DOMAIN w = 1..Len(w) /\ DOMAIN Append(w, b) = 1..Len(w)+1
  OBVIOUS
<1>2. /\ Append(w, b) \in Seq(Blocks) /\ Len(w) \in Nat
      /\ Len(Append(w, b)) = Len(w) + 1
      /\ \A k \in 1..Len(w) : Append(w, b)[k] = w[k] /\ w[k] \in Blocks
      /\ Append(w, b)[Len(w) + 1] = b
  OBVIOUS
<1>3. Range(w) = {w[k] : k \in 1..Len(w)}
  BY <1>1 DEF Range
<1>4. Range(Append(w, b)) = {Append(w, b)[k] : k \in 1..Len(w)+1}
  BY <1>1 DEF Range
<1>5. \A k : k \in 1..Len(w)+1 <=> k \in 1..Len(w) \/ k = Len(w) + 1
  BY <1>2
<1>6. Range(Append(w, b)) = Range(w) \cup {b}
  BY <1>2, <1>3, <1>4, <1>5
<1> QED
  BY <1>2, <1>3, <1>6

SetDirect(r, idx, b) == [r EXCEPT !.ino.direct[idx] = b]

IsSetDirect(r, idx, b, t) ==
  /\ t \in Rec /\ t.blk = r.blk /\ t.used = r.used
  /\ t.ino.indirect = r.ino.indirect
  /\ \A k \in 0..FIRST_POINTER-1 :
       t.ino.direct[k] = IF k = idx THEN b ELSE r.ino.direct[k]

LEMMA DirectFields ==
  ASSUME NEW r \in Rec, NEW idx \in 0..FIRST_POINTER-1, NEW b \in Blocks
  PROVE  IsSetDirect(r, idx, b, SetDirect(r, idx, b))
<1> DEFINE d == [r.ino.direct EXCEPT ![idx] = b]
           n == [r.ino EXCEPT !.direct[idx] = b]
           t == SetDirect(r, idx, b)
<1>1. r.blk \in Cards /\ r.ino \in Inodes /\ r.used \in SUBSET Blocks
  BY DEF Rec
<1>2. /\ d \in [0..FIRST_POINTER-1 -> Numbers]
      /\ \A k \in 0..FIRST_POINTER-1 : d[k] = IF k = idx THEN b ELSE r.ino.direct[k]
  BY <1>1, Sizes DEF Inodes
<1>3. n = [direct |-> d, indirect |-> r.ino.indirect]
  BY <1>1 DEF Inodes
<1> HIDE DEF d
<1>4. n \in Inodes /\ n.direct = d /\ n.indirect = r.ino.indirect
  BY <1>1, <1>2, <1>3 DEF Inodes
<1>5. t = [ino |-> n, blk |-> r.blk, used |-> r.used]
  BY DEF Rec, SetDirect
<1> HIDE DEF n, t
<1>6. t \in Rec /\ t.blk = r.blk /\ t.used = r.used /\ t.ino = n
  BY <1>1, <1>4, <1>5 DEF Rec
<1> QED
  BY Zenon, <1>2, <1>4, <1>6 DEF t, IsSetDirect

\* What write_block_index_in_inode leaves when b is the next block of a file.
Grown(r, w, b, X, t) ==
  /\ Good(t, X, Range(w) \cup {b}) /\ r.used \subseteq t.used
  /\ \A x \in X : t.blk[x] = r.blk[x]
  /\ Stored(t.blk, t.ino, Append(w, b))

LEMMA GrowDirect ==
  ASSUME NEW r, NEW X, NEW w \in Seq(Blocks), NEW b \in Blocks,
         Good(r, X, Range(w) \cup {b}), Stored(r.blk, r.ino, w),
         Len(w) < MaxBlocks, Level(Len(w)) = 0
  PROVE  Grown(r, w, b, X, SetDirect(r, Len(w), b))
<1> DEFINE t == SetDirect(r, Len(w), b)
<1>1. Len(w) \in 0..FIRST_POINTER-1 /\ r \in Rec /\ Len(w) \in Nat
  BY PositionsInBlock DEF Good
<1>2. /\ t \in Rec /\ t.blk = r.blk /\ t.used = r.used
      /\ t.ino.indirect = r.ino.indirect
      /\ \A k \in 0..FIRST_POINTER-1 :
           t.ino.direct[k] = IF k = Len(w) THEN b ELSE r.ino.direct[k]
  <2>1. IsSetDirect(r, Len(w), b, t)
    BY Zenon, <1>1, DirectFields
  <2> HIDE DEF t
  <2> QED
    BY <2>1 DEF IsSetDirect
<1> HIDE DEF t
<1>3. Good(t, X, Range(w) \cup {b})
  <2>1. Roots(t.ino) = Roots(r.ino)
    BY <1>2 DEF Roots
  <2>2. Second(t.blk, t.ino) = Second(r.blk, r.ino)
    BY <1>2 DEF Second
  <2>3. Within(t.blk, t.ino, t.used \ X)
    BY <1>2, <2>1, <2>2 DEF Good, Within
  <2>4. Shape(t.blk, t.ino, Range(w) \cup {b})
    BY <1>2, <2>1, <2>2 DEF Good, Shape
  <2> QED
    BY <1>2, <2>3, <2>4 DEF Good
<1>4. r.ino.indirect[1] = 0 /\ r.ino.indirect[2] = 0 /\ r.ino.indirect[3] = 0
  <2>1. Len(w) <= SECOND_POINTER /\ ~(Len(w) > FIRST_POINTER)
    BY <1>1, Sizes
  <2> QED
    BY Zenon, <2>1 DEF Stored
<1>5. \A k \in 0..FIRST_POINTER-1 : t.ino.direct[k] =
        IF k < Len(Append(w, b)) THEN Append(w, b)[k + 1] ELSE 0
  <2> SUFFICES ASSUME NEW k \in 0..FIRST_POINTER-1
               PROVE  t.ino.direct[k] =
                        IF k < Len(Append(w, b)) THEN Append(w, b)[k + 1] ELSE 0
    OBVIOUS
  <2>1. r.ino.direct[k] = IF k < Len(w) THEN w[k + 1] ELSE 0
    BY DEF Stored
  <2>2. k \in Nat
    BY Sizes
  <2>3. CASE k < Len(w)
    <3>1. k + 1 \in 1..Len(w) /\ k # Len(w)
      BY <1>1, <2>2, <2>3
    <3> QED
      BY <1>1, <1>2, <2>1, <2>2, <2>3, <3>1, Appended
  <2>4. CASE k = Len(w)
    BY <1>1, <1>2, <2>4, Appended
  <2>5. CASE k > Len(w)
    BY <1>1, <1>2, <2>1, <2>2, <2>5, Appended
  <2> QED
    BY <1>1, <2>2, <2>3, <2>4, <2>5
<1>6. Stored(t.blk, t.ino, Append(w, b))
  BY <1>1, <1>2, <1>4, <1>5, Appended, Sizes DEF Stored
<1> QED
  BY <1>2, <1>3, <1>6 DEF Grown, t

LEMMA GrowFirst ==
  ASSUME FreeCounts, NEW r, NEW X, NEW w \in Seq(Blocks), NEW b \in Blocks,
         Good(r, X, Range(w) \cup {b}), Stored(r.blk, r.ino, w),
         Len(w) < MaxBlocks, Level(Len(w)) = 1, Room(r) > 0
  PROVE  Grown(r, w, b, X, Level1(r, Len(w), b))
<1> DEFINE D == Range(w) \cup {b}
           t == Level1(r, Len(w), b)
           root == r.ino.indirect[1]
           new == t.ino.indirect[1]
<1>0. Len(w) \in Nat
  OBVIOUS
<1>1. Len(w) >= FIRST_POINTER /\ Len(w) < SECOND_POINTER
  BY <1>0, PositionsInBlock
<1>2. root # 0 => Entries(r.blk[root]) \subseteq D
  <2> SUFFICES ASSUME root # 0, NEW j \in 0..P-1, r.blk[root][j] # 0
               PROVE  r.blk[root][j] \in Range(w)
    BY DEF Entries
  <2>1. FIRST_POINTER + j < Len(w) /\ r.blk[root][j] = w[FIRST_POINTER + j + 1]
    BY DEF Stored
  <2>2. FIRST_POINTER + j + 1 \in 1..Len(w)
    <3>1. FIRST_POINTER \in Nat /\ j \in Nat
      BY Sizes
    <3> QED
      BY <1>0, <2>1, <3>1
  <2> QED
    BY <2>1, <2>2, Appended
<1>3. /\ Good(t, X, D) /\ r.used \subseteq t.used
      /\ t.ino.direct = r.ino.direct
      /\ new # 0
      /\ t.ino.indirect[2] = r.ino.indirect[2]
      /\ t.ino.indirect[3] = r.ino.indirect[3]
      /\ \A x \in X : t.blk[x] = r.blk[x]
      /\ \A j \in 0..P-1 : t.blk[new][j] =
           IF j = Len(w) - FIRST_POINTER THEN b ELSE IF root = 0 THEN 0 ELSE r.blk[root][j]
  <2>1. b \in D
    OBVIOUS
  <2> HIDE DEF D, root
  <2>2. root = r.ino.indirect[1]
    BY DEF root
  <2>3. Good(r, X, D)
    BY DEF D
  <2>4. Good(t, X, D) /\ AtFirstLevel(r, X, Len(w) - FIRST_POINTER, b, t)
    BY Zenon, <1>0, <1>2, <2>1, <2>2, <2>3, GoodLevel1
  <2> HIDE DEF t
  <2> QED
    BY <2>2, <2>4 DEF AtFirstLevel
<1> HIDE DEF t
<1>4. \A k \in 0..FIRST_POINTER-1 : t.ino.direct[k] =
        IF k < Len(Append(w, b)) THEN Append(w, b)[k + 1] ELSE 0
  <2> SUFFICES ASSUME NEW k \in 0..FIRST_POINTER-1
               PROVE  t.ino.direct[k] =
                        IF k < Len(Append(w, b)) THEN Append(w, b)[k + 1] ELSE 0
    OBVIOUS
  <2>1. k + 1 \in 1..Len(w) /\ k < Len(w) /\ k < Len(w) + 1
    BY <1>0, <1>1, Sizes
  <2>2. t.ino.direct[k] = w[k + 1]
    BY <1>3, <2>1 DEF Stored
  <2> QED
    BY <2>1, <2>2, Appended
<1>5. \A j \in 0..P-1 : t.blk[new][j] =
        IF FIRST_POINTER + j < Len(Append(w, b)) THEN Append(w, b)[FIRST_POINTER + j + 1] ELSE 0
  <2> SUFFICES ASSUME NEW j \in 0..P-1
               PROVE  t.blk[new][j] = IF FIRST_POINTER + j < Len(Append(w, b))
                                      THEN Append(w, b)[FIRST_POINTER + j + 1] ELSE 0
    BY Zenon
  <2>0. j \in Nat /\ FIRST_POINTER \in Nat
    BY Sizes
  <2>1. t.blk[new][j] =
          IF j = Len(w) - FIRST_POINTER THEN b ELSE IF root = 0 THEN 0 ELSE r.blk[root][j]
    BY Zenon, <1>3
  <2>2. /\ root # 0 <=> Len(w) > FIRST_POINTER
        /\ root # 0 => r.blk[root][j] =
             IF FIRST_POINTER + j < Len(w) THEN w[FIRST_POINTER + j + 1] ELSE 0
    BY DEF Stored
  <2> HIDE DEF root, new
  <2>3. CASE j = Len(w) - FIRST_POINTER
    BY <1>0, <2>0, <2>1, <2>3, Appended
  <2>4. CASE j < Len(w) - FIRST_POINTER
    <3>1. FIRST_POINTER + j + 1 \in 1..Len(w) /\ FIRST_POINTER + j < Len(w)
          /\ Len(w) > FIRST_POINTER /\ j # Len(w) - FIRST_POINTER
      BY <1>0, <2>0, <2>4
    <3>2. t.blk[new][j] = w[FIRST_POINTER + j + 1]
      BY <2>1, <2>2, <3>1
    <3> QED
      BY <1>0, <2>0, <3>1, <3>2, Appended
  <2>5. CASE j > Len(w) - FIRST_POINTER
    BY <1>0, <2>0, <2>1, <2>2, <2>5, Appended
  <2> QED
    BY <1>0, <2>0, <2>3, <2>4, <2>5
<1>6. Stored(t.blk, t.ino, Append(w, b))
  <2>1. r.ino.indirect[2] = 0 /\ r.ino.indirect[3] = 0
    BY <1>0, <1>1, Sizes DEF Stored
  <2>2. Len(Append(w, b)) > FIRST_POINTER
    BY <1>0, <1>1, Sizes, Appended
  <2> QED
    BY Zenon, <1>3, <1>4, <1>5, <2>1, <2>2 DEF Stored
<1> QED
  BY Zenon, <1>3, <1>6 DEF Grown, t

\* Above the first level what was stored is kept.
LEMMA GrowAbove ==
  ASSUME NEW r, NEW X, NEW w \in Seq(Blocks), NEW b \in Blocks,
         Stored(r.blk, r.ino, w), Len(w) >= SECOND_POINTER,
         NEW t, Good(t, X, Range(w) \cup {b}), Keeps(r, t, X)
  PROVE  Grown(r, w, b, X, t)
<1> DEFINE root == r.ino.indirect[1]
<1>0. Len(w) \in Nat /\ FIRST_POINTER \in Nat /\ SECOND_POINTER = FIRST_POINTER + P /\ P \in Nat
      /\ P > 0
  BY Sizes
<1>1. root # 0 /\ t.ino.indirect[1] = root /\ t.blk[root] = r.blk[root]
      /\ t.ino.direct = r.ino.direct
  BY <1>0 DEF Stored, Keeps
<1>2. \A k \in 0..FIRST_POINTER-1 : t.ino.direct[k] =
        IF k < Len(Append(w, b)) THEN Append(w, b)[k + 1] ELSE 0
  <2> SUFFICES ASSUME NEW k \in 0..FIRST_POINTER-1
               PROVE  t.ino.direct[k] =
                        IF k < Len(Append(w, b)) THEN Append(w, b)[k + 1] ELSE 0
    OBVIOUS
  <2>1. k + 1 \in 1..Len(w) /\ k < Len(w) /\ k < Len(w) + 1
    BY <1>0
  <2>2. t.ino.direct[k] = w[k + 1]
    BY <1>1, <2>1 DEF Stored
  <2> QED
    BY <2>1, <2>2, Appended
<1>3. \A j \in 0..P-1 : t.blk[root][j] =
        IF FIRST_POINTER + j < Len(Append(w, b)) THEN Append(w, b)[FIRST_POINTER + j + 1] ELSE 0
  <2> SUFFICES ASSUME NEW j \in 0..P-1
               PROVE  t.blk[root][j] = IF FIRST_POINTER + j < Len(Append(w, b))
                                       THEN Append(w, b)[FIRST_POINTER + j + 1] ELSE 0
    BY Zenon
  <2>1. FIRST_POINTER + j + 1 \in 1..Len(w) /\ FIRST_POINTER + j < Len(w)
        /\ FIRST_POINTER + j < Len(w) + 1
    BY <1>0
  <2>2. t.blk[root][j] = w[FIRST_POINTER + j + 1]
    BY <1>1, <2>1 DEF Stored
  <2> QED
    BY <2>1, <2>2, Appended
<1>4. Len(Append(w, b)) > FIRST_POINTER /\ ~(Len(Append(w, b)) <= SECOND_POINTER)
  BY <1>0, Appended
<1>5. Stored(t.blk, t.ino, Append(w, b))
  BY Zenon, <1>1, <1>2, <1>3, <1>4 DEF Stored
<1> QED
  BY <1>5 DEF Grown, Keeps

\* The state of one file, with its new block b, before the block is stored.
Before(B, ino, U, b) == [ino |-> ino, blk |-> B, used |-> U \cup {b}]

IsBefore(r, U, w, b, X) ==
  /\ Good(r, X, Range(w) \cup {b}) /\ Stored(r.blk, r.ino, w)
  /\ Room(r) = Cardinality(Blocks \ U) - 1

LEMMA GoodBefore ==
  ASSUME FreeCounts, NEW B \in Cards, NEW ino \in Inodes, NEW U, U \subseteq Blocks,
         NEW w \in Seq(Blocks), FileInv(B, ino, w, U),
         NEW X, X \subseteq U, Owned(B, ino, w) \cap X = {},
         NEW b \in Blocks \ U
  PROVE  IsBefore(Before(B, ino, U, b), U, w, b, X)
<1> DEFINE r == Before(B, ino, U, b)
           D == Range(w) \cup {b}
           r0 == [ino |-> ino, blk |-> B, used |-> U]
<1>1. r.blk = B /\ r.ino = ino /\ r.used = U \cup {b} /\ r \in Rec
  BY DEF Before, Rec
<1>2. r0 \in Rec /\ r0.used = U
  BY DEF Rec
<1> HIDE DEF r, r0
<1>3. Room(r) = Room(r0) - 1
  BY <1>1, <1>2, RoomLeft
<1>4. Room(r) = Cardinality(Blocks \ U) - 1
  BY <1>2, <1>3 DEF Room
<1>5. Reached(B, ino) \subseteq U \ X /\ Range(w) \subseteq U \ X
  BY DEF FileInv, Owned
<1>6. Within(B, ino, U \ X)
  BY Zenon, <1>5, ReachedWithin
<1>7. Within(r.blk, r.ino, r.used \ X)
  BY <1>1, <1>6 DEF Within
<1>8. Shape(B, ino, D)
  <2>1. Roots(ino) \subseteq U
    BY <1>6 DEF Within
  <2>2. Roots(ino) \cap Range(w) = {}
    BY DEF FileInv, Shape
  <2>3. Roots(ino) \cap D = {}
    BY <2>1, <2>2
  <2> HIDE DEF D
  <2> QED
    BY <2>3 DEF FileInv, Shape
<1>9. Good(r, X, D)
  BY <1>1, <1>5, <1>7, <1>8 DEF Good
<1>10. Stored(r.blk, r.ino, w)
  BY <1>1 DEF FileInv
<1> QED
  BY Zenon, <1>4, <1>9, <1>10 DEF r, IsBefore

LEMMA GrowFile ==
  ASSUME FreeCounts, NEW B \in Cards, NEW ino \in Inodes, NEW U, U \subseteq Blocks,
         NEW w \in Seq(Blocks), FileInv(B, ino, w, U),
         NEW X, X \subseteq U, Owned(B, ino, w) \cap X = {}, Len(w) < MaxBlocks,
         NEW b \in Blocks \ U,
         Cardinality(Blocks \ U) >= <<1, 2, 6, 4>>[Level(Len(w)) + 1],
         NEW t \in write_block_index_in_inode(Before(B, ino, U, b), Len(w), b)
  PROVE  Grown(Before(B, ino, U, b), w, b, X, t)
<1> DEFINE r == Before(B, ino, U, b)
           D == Range(w) \cup {b}
           n == Cardinality(Blocks \ U)
<1>1. Good(r, X, D) /\ Stored(r.blk, r.ino, w) /\ Room(r) = n - 1
  <2>1. IsBefore(r, U, w, b, X)
    BY Zenon, GoodBefore
  <2> HIDE DEF r
  <2> QED
    BY Zenon, <2>1 DEF IsBefore
<1> HIDE DEF r
<1>2. Room(r) \in Nat
  BY Zenon, <1>1, RoomLeft DEF Good
<1>3. n \in Int
  <2>1. n \in Nat
    BY Zenon DEF FreeCounts
  <2> QED
    BY <2>1
<1> HIDE DEF n
<1>4. Len(w) \in Nat
  OBVIOUS
<1>5. CASE Level(Len(w)) = 0
  <2>1. t = SetDirect(r, Len(w), b)
    BY <1>5 DEF write_block_index_in_inode, SetDirect, r
  <2> QED
    BY Zenon, <1>1, <1>5, <2>1, GrowDirect DEF r
<1>6. CASE Level(Len(w)) = 1
  <2>1. t = Level1(r, Len(w), b)
    BY <1>6 DEF write_block_index_in_inode, r
  <2>2. Room(r) > 0
    BY <1>1, <1>3, <1>6 DEF n
  <2> QED
    BY Zenon, <1>1, <1>6, <2>1, <2>2, GrowFirst DEF r
<1>7. b \in D
  OBVIOUS
<1> HIDE DEF D
<1>8. CASE Level(Len(w)) = 2
  <2>1. t \in Level2Wraps(r, Len(w), b)
    BY <1>8 DEF write_block_index_in_inode, r
  <2>2. Room(r) > 4
    BY <1>1, <1>3, <1>8 DEF n
  <2>3. Good(t, X, D) /\ Keeps(r, t, X)
    BY Zenon, <1>1, <1>4, <1>7, <1>8, <2>1, <2>2, GoodLevel2Wraps
  <2>4. Len(w) >= SECOND_POINTER
    BY Zenon, <1>4, <1>8, PositionsInBlock
  <2> QED
    BY Zenon, <1>1, <2>3, <2>4, GrowAbove DEF r, D
<1>9. CASE Level(Len(w)) = 3
  <2>1. t = Level3(r, Len(w), b)
    BY <1>9 DEF write_block_index_in_inode, r
  <2>2. Room(r) > 2
    BY <1>1, <1>3, <1>9 DEF n
  <2>3. Good(t, X, D) /\ Keeps(r, t, X)
    BY Zenon, <1>1, <1>4, <1>7, <1>9, <2>1, <2>2, GoodLevel3
  <2>4. Len(w) >= SECOND_POINTER
    BY Zenon, <1>4, <1>9, PositionsInBlock
  <2> QED
    BY Zenon, <1>1, <2>3, <2>4, GrowAbove DEF r, D
<1>10. Level(Len(w)) = 0 \/ Level(Len(w)) = 1 \/ Level(Len(w)) = 2 \/ Level(Len(w)) = 3
  BY DEF Level
<1> QED
  BY Zenon, <1>5, <1>6, <1>8, <1>9, <1>10

\* B and C have the same pointers in the blocks X.
Agree(B, C, X) == \A x \in X : C[x] = B[x]

HasGrown(B, U, w, X, t) ==
  /\ t.ino \in Inodes /\ t.blk \in Cards /\ t.used \subseteq Blocks
  /\ U \subseteq t.used /\ Agree(B, t.blk, X)
  /\ FileInv(t.blk, t.ino, w, t.used)
  /\ Owned(t.blk, t.ino, w) \cap X = {}

LEMMA GrownFile ==
  ASSUME NEW B \in Cards, NEW ino \in Inodes, NEW U, U \subseteq Blocks,
         NEW w \in Seq(Blocks), FileInv(B, ino, w, U), Len(w) < MaxBlocks,
         NEW X, NEW b \in Blocks \ U, NEW t, Grown(Before(B, ino, U, b), w, b, X, t)
  PROVE  HasGrown(B, U, Append(w, b), X, t)
<1> DEFINE v == Append(w, b)
           D == Range(w) \cup {b}
<1>1. U \subseteq t.used /\ \A x \in X : t.blk[x] = B[x]
  BY DEF Grown, Before
<1>2. Good(t, X, D) /\ Stored(t.blk, t.ino, v)
  BY DEF Grown
<1>3. t.ino \in Inodes /\ t.blk \in Cards /\ t.used \subseteq Blocks
  BY <1>2 DEF Good, Rec
<1>4. /\ Len(w) \in Nat /\ Len(v) = Len(w) + 1 /\ v[Len(w) + 1] = b
      /\ \A k \in 1..Len(w) : v[k] = w[k] /\ w[k] \in Range(w)
      /\ Range(v) = D
  BY Appended
<1> HIDE DEF v, D
<1>5. Owned(t.blk, t.ino, v) \subseteq t.used \ X
  <2>1. Reached(t.blk, t.ino) \subseteq t.used \ X
    BY Zenon, <1>2, ReachedWithin DEF Good
  <2> QED
    BY <1>2, <1>4, <2>1 DEF Owned, Good
<1>6. \A k, l \in 1..Len(v) : v[k] = v[l] => k = l
  <2>1. \A k \in 1..Len(w) : w[k] # b
    BY <1>4 DEF FileInv, Owned
  <2>2. \A k \in 1..Len(v) : k \in 1..Len(w) \/ k = Len(w) + 1
    BY <1>4
  <2>3. \A k, l \in 1..Len(w) : w[k] = w[l] => k = l
    BY DEF FileInv
  <2> QED
    BY <1>4, <2>1, <2>2, <2>3
<1>7. Len(v) <= MaxBlocks
  BY <1>4, Sizes
<1>8. Shape(t.blk, t.ino, Range(v))
  BY Zenon, <1>2, <1>4 DEF Good
<1>9. FileInv(t.blk, t.ino, v, t.used)
  BY <1>2, <1>5, <1>6, <1>7, <1>8 DEF FileInv
<1> QED
  BY <1>1, <1>3, <1>5, <1>9 DEF v, HasGrown, Agree

\* The other files see no difference.
StaysFile(B, C, ino, w, V) ==
  FileInv(C, ino, w, V) /\ Owned(C, ino, w) = Owned(B, ino, w)

LEMMA Frozen ==
  ASSUME NEW B, NEW C, NEW ino, NEW w, NEW U, NEW V, NEW X, FileInv(B, ino, w, U),
         Owned(B, ino, w) \subseteq X, Agree(B, C, X), Owned(B, ino, w) \subseteq V
  PROVE  StaysFile(B, C, ino, w, V)
<1>0. \A x \in X : C[x] = B[x]
  BY DEF Agree
<1>1. \A l \in 1..3 : ino.indirect[l] # 0 => ino.indirect[l] \in Roots(ino)
  BY DEF Roots
<1>2. Roots(ino) \subseteq X /\ Second(B, ino) \subseteq X
  BY DEF Owned, Reached
<1>3. \A l \in 1..3 : ino.indirect[l] # 0 => C[ino.indirect[l]] = B[ino.indirect[l]]
  BY <1>0, <1>1, <1>2
<1>4. Second(C, ino) = Second(B, ino)
  BY <1>3, LevelNumbers DEF Second
<1>5. \A c \in Second(B, ino) : C[c] = B[c]
  BY <1>0, <1>2
<1>6. Reached(C, ino) = Reached(B, ino)
  BY <1>4, <1>5 DEF Reached
<1>7. Shape(C, ino, Range(w))
  BY <1>3, <1>4, LevelNumbers DEF FileInv, Shape
<1>8. Stored(C, ino, w)
  BY Zenon, <1>3, LevelNumbers DEF FileInv, Stored
<1> QED
  BY <1>6, <1>7, <1>8 DEF FileInv, Owned, StaysFile

LEMMA GrowKeepsInv ==
  ASSUME FreeCounts, BlockInv, NEW f \in Files, Grow(f)
  PROVE  BlockInv'
<1>1. PICK B, ino, U, w :
        /\ B = blk /\ ino = inode[f] /\ U = used /\ w = want[f]
        /\ B \in Cards /\ ino \in Inodes /\ U \subseteq Blocks /\ w \in Seq(Blocks)
  BY DEF BlockInv, Types
<1> DEFINE X == UNION {Own(g) : g \in Files \ {f}}
           b == Min(Blocks \ U)
<1>2. FileInv(B, ino, w, U)
  BY Zenon, <1>1 DEF BlockInv
<1>3. PICK Y : Y = X
  BY Zenon
<1>4. Y \subseteq U /\ Owned(B, ino, w) \cap Y = {}
  <2>1. \A g \in Files : Own(g) \subseteq U
    BY Zenon, <1>1 DEF BlockInv, FileInv, Own
  <2>2. \A g \in Files \ {f} : Own(f) \cap Own(g) = {}
    BY Zenon DEF BlockInv
  <2>3. Own(f) = Owned(B, ino, w)
    BY Zenon, <1>1 DEF Own
  <2> QED
    BY <1>3, <2>1, <2>2, <2>3
<1> HIDE DEF X
<1>5. /\ Len(w) < MaxBlocks
      /\ Cardinality(Blocks \ U) >= <<1, 2, 6, 4>>[Level(Len(w)) + 1]
      /\ \E r \in write_block_index_in_inode(Before(B, ino, U, b), Len(w), b) :
           inode' = [inode EXCEPT ![f] = r.ino] /\ blk' = r.blk /\ used' = r.used
      /\ want' = [want EXCEPT ![f] = Append(w, b)]
  BY Zenon, <1>1 DEF Grow, Before
<1>6. b \in Blocks \ U
  <2>1. Level(Len(w)) \in 0..3
    BY DEF Level
  <2>2. <<1, 2, 6, 4>>[Level(Len(w)) + 1] \in Nat \ {0}
    BY <2>1
  <2>3. Cardinality(Blocks \ U) # 0
    BY <1>5, <2>2
  <2>4. Blocks \ U # {}
    BY Zenon, <2>3 DEF FreeCounts
  <2> QED
    BY Zenon, <2>4, MinFree
<1> HIDE DEF b
<1>7. PICK t \in write_block_index_in_inode(Before(B, ino, U, b), Len(w), b) :
        inode' = [inode EXCEPT ![f] = t.ino] /\ blk' = t.blk /\ used' = t.used
  BY Zenon, <1>5
<1>8. Grown(Before(B, ino, U, b), w, b, Y, t)
  BY Zenon, <1>1, <1>2, <1>4, <1>5, <1>6, GrowFile
<1>9. /\ t.ino \in Inodes /\ t.blk \in Cards /\ t.used \subseteq Blocks
      /\ U \subseteq t.used /\ Agree(B, t.blk, Y)
      /\ FileInv(t.blk, t.ino, Append(w, b), t.used)
      /\ Owned(t.blk, t.ino, Append(w, b)) \cap Y = {}
  <2>1. HasGrown(B, U, Append(w, b), Y, t)
    BY Zenon, <1>1, <1>2, <1>5, <1>6, <1>8, GrownFile
  <2> QED
    BY Zenon, <2>1 DEF HasGrown
<1>10. Append(w, b) \in Seq(Blocks)
  BY <1>1, <1>6
<1>11. PICK v : v = Append(w, b)
  BY Zenon
<1>12. PICK i : i = t.ino
  OBVIOUS
<1>13. /\ inode' = [inode EXCEPT ![f] = i] /\ want' = [want EXCEPT ![f] = v]
       /\ inode \in [Files -> Inodes] /\ want \in [Files -> Seq(Blocks)]
       /\ i \in Inodes /\ v \in Seq(Blocks)
  BY Zenon, <1>5, <1>7, <1>9, <1>10, <1>11, <1>12 DEF BlockInv, Types
<1>14. /\ inode' \in [Files -> Inodes] /\ want' \in [Files -> Seq(Blocks)]
       /\ inode'[f] = i /\ want'[f] = v
       /\ \A g \in Files : g # f => inode'[g] = inode[g] /\ want'[g] = want[g]
  BY Zenon, <1>13
<1>15. Types'
  BY Zenon, <1>7, <1>9, <1>14 DEF Types
<1>16. \A g \in Files : g # f => FileInv(blk, inode[g], want[g], used) /\ Own(g) \subseteq Y
  BY Zenon, <1>3 DEF BlockInv, X
<1>17. ASSUME NEW g \in Files, g # f
       PROVE  FileInv(blk', inode'[g], want'[g], used') /\ Own(g)' = Own(g)
  <2>1. PICK j, u : j = inode[g] /\ u = want[g]
    OBVIOUS
  <2>2. FileInv(B, j, u, U) /\ Owned(B, j, u) \subseteq Y
    BY Zenon, <1>1, <1>16, <1>17, <2>1 DEF Own
  <2>3. Owned(B, j, u) \subseteq t.used
    BY <1>4, <1>9, <2>2
  <2>4. FileInv(t.blk, j, u, t.used) /\ Owned(t.blk, j, u) = Owned(B, j, u)
    <3>1. Agree(B, t.blk, Y)
      BY Zenon, <1>9
    <3>2. StaysFile(B, t.blk, j, u, t.used)
      BY Zenon, <2>2, <2>3, <3>1, Frozen
    <3> QED
      BY Zenon, <3>2 DEF StaysFile
  <2>5. inode'[g] = j /\ want'[g] = u
    BY Zenon, <1>14, <1>17, <2>1
  <2>6. Own(g) = Owned(B, j, u)
    BY Zenon, <1>1, <2>1 DEF Own
  <2>7. Own(g)' = Owned(t.blk, j, u)
    BY <1>7, <2>5 DEF Own
  <2> QED
    BY <1>7, <2>4, <2>5, <2>6, <2>7
<1>18. FileInv(blk', inode'[f], want'[f], used') /\ Own(f)' \cap Y = {}
  <2>1. Own(f)' = Owned(t.blk, i, v)
    BY <1>7, <1>14 DEF Own
  <2> QED
    BY Zenon, <1>7, <1>9, <1>11, <1>12, <1>14, <2>1
<1>19. \A g \in Files : FileInv(blk, inode[g], want[g], used)'
  BY Zenon, <1>17, <1>18
<1>20. \A g, h \in Files : g # h => (Own(g) \cap Own(h) = {})'
  <2> SUFFICES ASSUME NEW g \in Files, NEW h \in Files, g # h
               PROVE  Own(g)' \cap Own(h)' = {}
    BY Zenon
  <2>1. CASE g # f /\ h # f
    BY Zenon, <1>17, <2>1 DEF BlockInv
  <2>2. CASE g = f
    BY <1>16, <1>17, <1>18, <2>2
  <2>3. CASE h = f
    BY <1>16, <1>17, <1>18, <2>3
  <2> QED
    BY Zenon, <2>1, <2>2, <2>3
<1> QED
  BY Zenon, <1>15, <1>19, <1>20 DEF BlockInv

-----------------------------------------------------------------------------
(* A file is released                                                      *)

Released(B, ino) ==
  LET gap(k) == \E l \in 0..k : ino.direct[l] = 0
      i == ino.indirect
      go1 == ~gap(FIRST_POINTER - 1) /\ i[1] # 0
      go2 == go1 /\ Full(B, i[1]) /\ i[2] # 0
      go3 == go2 /\ Full2(B, i[2]) /\ i[3] # 0
  IN  {ino.direct[k] : k \in {k \in 0..FIRST_POINTER-1 : ~gap(k)}}
        \cup (IF go1 THEN Below1(B, i[1]) ELSE {})
        \cup (IF go2 THEN Below2(B, i[2]) ELSE {})
        \cup (IF go3 THEN Below3(B, i[3]) ELSE {})

LEMMA ReleasedIs ==
  ASSUME NEW B, NEW ino, NEW U
  PROVE  release_inode_block([ino |-> ino, blk |-> B, used |-> U]) = U \ Released(B, ino)
BY Zenon DEF release_inode_block, Released

LEMMA PointersBelow ==
  ASSUME NEW B, NEW b
  PROVE  /\ UpToGap(B, b) \subseteq Entries(B[b])
         /\ Below1(B, b) \subseteq {b} \cup Entries(B[b])
<1>1. \A k \in 0..P-1 : k \in 0..k
  BY Sizes
<1>2. UpToGap(B, b) \subseteq Entries(B[b])
  BY Zenon, <1>1 DEF UpToGap, Entries
<1> QED
  BY Zenon, <1>2 DEF Below1

\* Only blocks of the file are released.
LEMMA ReleasesOwn ==
  ASSUME NEW B \in Cards, NEW ino \in Inodes, NEW w \in Seq(Blocks), NEW U,
         FileInv(B, ino, w, U)
  PROVE  Released(B, ino) \subseteq Owned(B, ino, w)
<1> DEFINE i1 == ino.indirect[1]
           i2 == ino.indirect[2]
           i3 == ino.indirect[3]
<1>0. Stored(B, ino, w) /\ Shape(B, ino, Range(w)) /\ Len(w) \in Nat
  BY DEF FileInv
<1>1. \A k \in 1..Len(w) : w[k] \in Range(w)
  BY Appended, Sizes DEF Range
<1>2. \A k \in 0..FIRST_POINTER-1 : ino.direct[k] # 0 => ino.direct[k] \in Range(w)
  <2> SUFFICES ASSUME NEW k \in 0..FIRST_POINTER-1, ino.direct[k] # 0
               PROVE  ino.direct[k] \in Range(w)
    BY Zenon
  <2>1. k < Len(w) /\ ino.direct[k] = w[k + 1]
    BY Zenon, <1>0 DEF Stored
  <2>2. k + 1 \in 1..Len(w)
    BY <1>0, <2>1, Sizes
  <2> QED
    BY Zenon, <1>1, <2>1, <2>2
<1>3. i1 # 0 => Entries(B[i1]) \subseteq Range(w)
  <2> SUFFICES ASSUME i1 # 0, NEW j \in 0..P-1, B[i1][j] # 0
               PROVE  B[i1][j] \in Range(w)
    BY Zenon DEF Entries
  <2>1. FIRST_POINTER + j < Len(w) /\ B[i1][j] = w[FIRST_POINTER + j + 1]
    BY <1>0 DEF Stored
  <2>2. FIRST_POINTER + j + 1 \in 1..Len(w)
    <3>1. FIRST_POINTER \in Nat /\ j \in Nat
      BY Sizes
    <3> QED
      BY <1>0, <2>1, <3>1
  <2> QED
    BY Zenon, <1>1, <2>1, <2>2
<1>4. /\ i1 # 0 => i1 \in Roots(ino)
      /\ i2 # 0 => i2 \in Roots(ino)
      /\ i3 # 0 => i3 \in Roots(ino)
  BY DEF Roots
<1>5. i1 # 0 => Below1(B, i1) \subseteq Owned(B, ino, w)
  BY Zenon, <1>3, <1>4, PointersBelow DEF Owned, Reached
<1>6. i2 # 0 => Below2(B, i2) \subseteq Owned(B, ino, w)
  <2> SUFFICES ASSUME i2 # 0 PROVE Below2(B, i2) \subseteq Owned(B, ino, w)
    OBVIOUS
  <2>1. Second(B, ino) = Entries(B[i2])
    BY DEF Second
  <2>2. \A k \in 0..P-1 : k \in 0..k
    BY Sizes
  <2>3. ASSUME NEW k \in 0..P-1, \A l \in 0..k : B[i2][l] # 0
        PROVE  Below1(B, B[i2][k]) \subseteq Owned(B, ino, w)
    <3>1. B[i2][k] \in Second(B, ino)
      BY Zenon, <2>1, <2>2, <2>3 DEF Entries
    <3>2. Below1(B, B[i2][k]) \subseteq {B[i2][k]} \cup Entries(B[B[i2][k]])
      BY Zenon, PointersBelow
    <3>3. {B[i2][k]} \cup Entries(B[B[i2][k]]) \subseteq Reached(B, ino)
      BY Zenon, <3>1 DEF Reached
    <3> QED
      BY <3>2, <3>3 DEF Owned
  <2>4. i2 \in Owned(B, ino, w)
    BY Zenon, <1>4 DEF Owned, Reached
  <2> QED
    BY Zenon, <2>3, <2>4 DEF Below2
<1>7. i3 # 0 => Below3(B, i3) \subseteq Owned(B, ino, w)
  <2> SUFFICES ASSUME i3 # 0 PROVE Below3(B, i3) \subseteq Owned(B, ino, w)
    OBVIOUS
  <2>1. B[i3] = ZeroBlock
    BY <1>0 DEF Shape
  <2>2. \A k \in 0..P-1 : k \in 0..k /\ B[i3][k] = 0
    BY <2>1, ZeroFacts, Sizes
  <2>3. i3 \in Owned(B, ino, w)
    BY Zenon, <1>4 DEF Owned, Reached
  <2>4. Below3(B, i3) \subseteq {i3}
    BY Zenon, <2>2 DEF Below3
  <2> QED
    BY <2>3, <2>4
<1>8. {ino.direct[k] : k \in {k \in 0..FIRST_POINTER-1 : ~(\E l \in 0..k : ino.direct[l] = 0)}}
        \subseteq Owned(B, ino, w)
  <2>1. \A k \in 0..FIRST_POINTER-1 : k \in 0..k
    BY Sizes
  <2> QED
    BY Zenon, <1>2, <2>1 DEF Owned
<1> QED
  BY Zenon, <1>5, <1>6, <1>7, <1>8 DEF Released

\* All blocks of a file with one level of pointers are released.
LEMMA ReleasesAll ==
  ASSUME NEW B \in Cards, NEW ino \in Inodes, NEW w \in Seq(Blocks), NEW U,
         FileInv(B, ino, w, U), Len(w) <= SECOND_POINTER
  PROVE  Range(w) \cup Roots(ino) \subseteq Released(B, ino)
<1> DEFINE i1 == ino.indirect[1]
           gap(k) == \E l \in 0..k : ino.direct[l] = 0
<1>0. Stored(B, ino, w) /\ Len(w) \in Nat /\ FIRST_POINTER \in Nat /\ P \in Nat
      /\ FIRST_POINTER > 0 /\ SECOND_POINTER = FIRST_POINTER + P
  BY Sizes DEF FileInv
<1>1. \A k \in 1..Len(w) : w[k] # 0
  BY Sizes
<1>2. \A k \in 0..FIRST_POINTER-1 : k < Len(w) => ino.direct[k] = w[k + 1] /\ ~gap(k)
  <2> SUFFICES ASSUME NEW k \in 0..FIRST_POINTER-1, k < Len(w)
               PROVE  ino.direct[k] = w[k + 1] /\ ~gap(k)
    BY Zenon
  <2>1. ASSUME NEW l \in 0..k
        PROVE  ino.direct[l] = w[l + 1] /\ ino.direct[l] # 0
    <3>1. l \in 0..FIRST_POINTER-1 /\ l < Len(w) /\ l + 1 \in 1..Len(w)
      BY <1>0
    <3>2. ino.direct[l] = w[l + 1]
      BY <1>0, <3>1 DEF Stored
    <3> QED
      BY Zenon, <1>1, <3>1, <3>2
  <2>2. k \in 0..k
    BY <1>0
  <2> QED
    BY Zenon, <2>1, <2>2
<1>3. \A k \in 0..FIRST_POINTER-1 : k < Len(w) => w[k + 1] \in Released(B, ino)
  BY Zenon, <1>2 DEF Released
<1>4. ASSUME Len(w) > FIRST_POINTER
      PROVE  /\ i1 # 0 /\ Below1(B, i1) \subseteq Released(B, ino)
             /\ \A j \in 0..P-1 : FIRST_POINTER + j < Len(w) =>
                  w[FIRST_POINTER + j + 1] \in UpToGap(B, i1)
  <2>1. i1 # 0
    BY <1>0, <1>4 DEF Stored
  <2>2. ~gap(FIRST_POINTER - 1)
    <3>1. FIRST_POINTER - 1 \in 0..FIRST_POINTER-1 /\ FIRST_POINTER - 1 < Len(w)
      BY <1>0, <1>4
    <3> QED
      BY Zenon, <1>2, <3>1
  <2>3. Below1(B, i1) \subseteq Released(B, ino)
    BY Zenon, <2>1, <2>2 DEF Released
  <2>4. ASSUME NEW j \in 0..P-1, FIRST_POINTER + j < Len(w)
        PROVE  w[FIRST_POINTER + j + 1] \in UpToGap(B, i1)
    <3>1. ASSUME NEW l \in 0..j
          PROVE  B[i1][l] = w[FIRST_POINTER + l + 1] /\ B[i1][l] # 0
      <4>1. l \in 0..P-1 /\ FIRST_POINTER + l < Len(w)
            /\ FIRST_POINTER + l + 1 \in 1..Len(w)
        BY <1>0, <2>4
      <4>2. B[i1][l] = w[FIRST_POINTER + l + 1]
        BY <1>0, <2>1, <4>1 DEF Stored
      <4> QED
        BY Zenon, <1>1, <4>1, <4>2
    <3>2. j \in 0..j
      BY <1>0
    <3>3. B[i1][j] = w[FIRST_POINTER + j + 1]
      BY Zenon, <3>1, <3>2
    <3>4. B[i1][j] \in UpToGap(B, i1)
      BY Zenon, <3>1 DEF UpToGap
    <3> QED
      BY Zenon, <3>3, <3>4
  <2> QED
    BY Zenon, <2>1, <2>3, <2>4
<1>5. ASSUME NEW k \in 1..Len(w)
      PROVE  w[k] \in Released(B, ino)
  <2>1. CASE k <= FIRST_POINTER
    <3>1. k - 1 \in 0..FIRST_POINTER-1 /\ k - 1 < Len(w) /\ (k - 1) + 1 = k
      BY <1>0, <2>1
    <3>2. PICK m : m = k - 1
      OBVIOUS
    <3>3. m \in 0..FIRST_POINTER-1 /\ m < Len(w) /\ m + 1 = k
      BY <3>1, <3>2
    <3>4. w[m + 1] \in Released(B, ino)
      BY Zenon, <1>3, <3>3
    <3> QED
      BY <3>3, <3>4
  <2>2. CASE k > FIRST_POINTER
    <3>1. PICK j : j = k - FIRST_POINTER - 1
      OBVIOUS
    <3>2. /\ j \in 0..P-1 /\ FIRST_POINTER + j < Len(w) /\ FIRST_POINTER + j + 1 = k
          /\ Len(w) > FIRST_POINTER
      BY <1>0, <2>2, <3>1
    <3>3. w[FIRST_POINTER + j + 1] \in UpToGap(B, i1)
      BY Zenon, <1>4, <3>2
    <3>4. w[k] \in UpToGap(B, i1)
      BY <3>2, <3>3
    <3> QED
      BY Zenon, <1>4, <3>2, <3>4 DEF Below1
  <2> QED
    BY <1>0, <2>1, <2>2
<1>6. Range(w) \subseteq Released(B, ino)
  <2>1. Range(w) = {w[k] : k \in 1..Len(w)}
    BY DEF Range
  <2> QED
    BY Zenon, <1>5, <2>1
<1>7. Roots(ino) \subseteq Released(B, ino)
  <2>1. ino.indirect[2] = 0 /\ ino.indirect[3] = 0
    BY <1>0 DEF Stored
  <2>2. Roots(ino) \subseteq {i1} \ {0}
    BY <2>1 DEF Roots
  <2>3. i1 # 0 => Len(w) > FIRST_POINTER
    BY <1>0 DEF Stored
  <2>4. i1 # 0 => i1 \in Released(B, ino)
    BY Zenon, <1>4, <2>3 DEF Below1
  <2> QED
    BY <2>2, <2>4
<1> QED
  BY <1>6, <1>7

\* A file with one level of pointers owns its data blocks and that level.
LEMMA OwnedOneLevel ==
  ASSUME NEW B, NEW ino, NEW w, NEW U, FileInv(B, ino, w, U), Len(w) <= SECOND_POINTER
  PROVE  Owned(B, ino, w) = Range(w) \cup Roots(ino)
<1>1. ino.indirect[2] = 0
  BY DEF FileInv, Stored
<1>2. Second(B, ino) = {}
  BY <1>1 DEF Second
<1> QED
  BY <1>2 DEF Owned, Reached

LEMMA ReleaseFrees ==
  ASSUME BlockInv, NEW f \in Files, Release(f)
  PROVE  /\ used' \subseteq used /\ used \ Own(f) \subseteq used'
         /\ Len(want[f]) <= SECOND_POINTER =>
              used' = used \ (Range(want[f]) \cup IndexBlocks(f))
<1>1. PICK B, ino, U, w :
        /\ B = blk /\ ino = inode[f] /\ U = used /\ w = want[f]
        /\ B \in Cards /\ ino \in Inodes /\ U \subseteq Blocks /\ w \in Seq(Blocks)
  BY DEF BlockInv, Types
<1>2. FileInv(B, ino, w, U)
  BY Zenon, <1>1 DEF BlockInv
<1>3. used' = release_inode_block([ino |-> ino, blk |-> B, used |-> U])
  BY Zenon, <1>1 DEF Release
<1>4. used' = U \ Released(B, ino)
  BY Zenon, <1>3, ReleasedIs
<1>5. Released(B, ino) \subseteq Owned(B, ino, w)
  BY Zenon, <1>1, <1>2, ReleasesOwn
<1>6. Own(f) = Owned(B, ino, w) /\ IndexBlocks(f) = Roots(ino)
  BY <1>1 DEF Own, IndexBlocks, Roots
<1>7. ASSUME Len(w) <= SECOND_POINTER
      PROVE  U \ Released(B, ino) = U \ (Range(w) \cup Roots(ino))
  <2>1. Range(w) \cup Roots(ino) \subseteq Released(B, ino)
    BY Zenon, <1>1, <1>2, <1>7, ReleasesAll
  <2>2. Owned(B, ino, w) = Range(w) \cup Roots(ino)
    BY Zenon, <1>2, <1>7, OwnedOneLevel
  <2> QED
    BY <1>5, <2>1, <2>2
<1> QED
  BY <1>1, <1>4, <1>5, <1>6, <1>7

LEMMA EmptyFile ==
  ASSUME NEW B, NEW U
  PROVE  FileInv(B, ZeroInode, <<>>, U) /\ Owned(B, ZeroInode, <<>>) = {}
         /\ ZeroInode \in Inodes
<1>1. \A l \in 1..3 : ZeroInode.indirect[l] = 0
  BY DEF ZeroInode
<1>2. \A k \in 0..FIRST_POINTER-1 : ZeroInode.direct[k] = 0
  BY DEF ZeroInode
<1>3. Roots(ZeroInode) = {} /\ Second(B, ZeroInode) = {}
  BY <1>1, LevelNumbers DEF Roots, Second
<1>4. Range(<<>>) = {}
  BY DEF Range
<1>5. Owned(B, ZeroInode, <<>>) = {}
  BY <1>3, <1>4 DEF Owned, Reached
<1>6. Shape(B, ZeroInode, Range(<<>>))
  BY <1>1, <1>3, LevelNumbers DEF Shape
<1>7. Len(<<>>) = 0
  OBVIOUS
<1>8. /\ \A k \in 0..FIRST_POINTER-1 : ~(k < Len(<<>>))
      /\ ~(Len(<<>>) > FIRST_POINTER) /\ Len(<<>>) <= MaxBlocks
      /\ \A k, l \in 1..Len(<<>>) : <<>>[k] = <<>>[l] => k = l
  BY <1>7, Sizes
<1>9. Stored(B, ZeroInode, <<>>)
  BY Zenon, <1>1, <1>2, <1>8, LevelNumbers DEF Stored
<1>10. ZeroInode \in Inodes
  BY Sizes DEF ZeroInode, Inodes
<1>11. FileInv(B, ZeroInode, <<>>, U)
  BY <1>5, <1>6, <1>8, <1>9 DEF FileInv
<1> QED
  BY <1>5, <1>10, <1>11

LEMMA ReleaseKeepsInv ==
  ASSUME BlockInv, NEW f \in Files, Release(f)
  PROVE  BlockInv'
<1>1. used' \subseteq used /\ used \ Own(f) \subseteq used'
  BY Zenon, ReleaseFrees
<1>2. PICK z, e : z = ZeroInode /\ e = <<>>
  OBVIOUS
<1>3. /\ inode' = [inode EXCEPT ![f] = z] /\ want' = [want EXCEPT ![f] = e]
      /\ blk' = blk
      /\ inode \in [Files -> Inodes] /\ want \in [Files -> Seq(Blocks)]
      /\ z \in Inodes /\ e \in Seq(Blocks)
  <2>1. z \in Inodes
    BY Zenon, <1>2, EmptyFile
  <2>2. e \in Seq(Blocks)
    BY <1>2
  <2> QED
    BY Zenon, <1>2, <2>1, <2>2 DEF Release, BlockInv, Types
<1>4. /\ inode' \in [Files -> Inodes] /\ want' \in [Files -> Seq(Blocks)]
      /\ inode'[f] = z /\ want'[f] = e
      /\ \A g \in Files : g # f => inode'[g] = inode[g] /\ want'[g] = want[g]
  BY Zenon, <1>3
<1>5. Types'
  BY <1>1, <1>3, <1>4 DEF Types, BlockInv
<1>6. ASSUME NEW g \in Files, g # f
      PROVE  FileInv(blk', inode'[g], want'[g], used') /\ Own(g)' = Own(g)
  <2>1. inode'[g] = inode[g] /\ want'[g] = want[g]
    BY Zenon, <1>4, <1>6
  <2>2. Own(g)' = Own(g)
    BY <1>3, <2>1 DEF Own
  <2>3. FileInv(blk, inode[g], want[g], used) /\ Own(g) \subseteq used
    BY Zenon DEF BlockInv, FileInv, Own
  <2>4. Own(g) \cap Own(f) = {}
    BY Zenon, <1>6 DEF BlockInv
  <2>5. Owned(blk, inode[g], want[g]) \subseteq used'
    BY <1>1, <2>3, <2>4 DEF Own
  <2>6. FileInv(blk, inode[g], want[g], used')
    BY Zenon, <2>3, <2>5 DEF FileInv
  <2> QED
    BY <1>3, <2>1, <2>2, <2>6
<1>7. FileInv(blk', inode'[f], want'[f], used') /\ Own(f)' = {}
  <2>1. PICK C, V : C = blk' /\ V = used'
    OBVIOUS
  <2>2. FileInv(C, z, e, V) /\ Owned(C, z, e) = {}
    BY Zenon, <1>2, EmptyFile
  <2> QED
    BY <1>4, <2>1, <2>2 DEF Own
<1>8. \A g \in Files : FileInv(blk, inode[g], want[g], used)'
  BY Zenon, <1>6, <1>7
<1>9. \A g, h \in Files : g # h => (Own(g) \cap Own(h) = {})'
  <2> SUFFICES ASSUME NEW g \in Files, NEW h \in Files, g # h
               PROVE  Own(g)' \cap Own(h)' = {}
    BY Zenon
  <2>1. CASE g # f /\ h # f
    BY Zenon, <1>6, <2>1 DEF BlockInv
  <2>2. CASE g = f \/ h = f
    BY <1>7, <2>2
  <2> QED
    BY Zenon, <2>1, <2>2
<1> QED
  BY Zenon, <1>5, <1>8, <1>9 DEF BlockInv

-----------------------------------------------------------------------------
(* The invariant and the theorems                                          *)

LEMMA BlockInvInit == Init => BlockInv
<1> SUFFICES ASSUME Init PROVE BlockInv
  OBVIOUS
<1>1. PICK z, e, B : z = ZeroInode /\ e = <<>> /\ B = blk
  OBVIOUS
<1>2. FileInv(B, z, e, {}) /\ Owned(B, z, e) = {} /\ z \in Inodes /\ e \in Seq(Blocks)
  BY <1>1, EmptyFile
<1>3. \A f \in Files : inode[f] = z /\ want[f] = e
  BY <1>1 DEF Init
<1>4. Types
  <2>1. blk \in Cards /\ used \subseteq Blocks
    BY ZeroFacts DEF Init, Cards
  <2>2. inode = [f \in Files |-> z] /\ want = [f \in Files |-> e]
    BY <1>1 DEF Init
  <2> QED
    BY <1>2, <2>1, <2>2 DEF Types
<1>5. used = {}
  BY DEF Init
<1>6. \A f \in Files : FileInv(blk, inode[f], want[f], used) /\ Own(f) = {}
  BY <1>1, <1>2, <1>3, <1>5 DEF Own
<1> QED
  BY <1>4, <1>6 DEF BlockInv

LEMMA BlockInvNext ==
  ASSUME FreeCounts, BlockInv, [Next]_vars
  PROVE  BlockInv'
<1>1. CASE UNCHANGED vars
  BY <1>1 DEF BlockInv, Types, Own, vars
<1>2. CASE Next
  BY Zenon, <1>2, GrowKeepsInv, ReleaseKeepsInv DEF Next
<1> QED
  BY Zenon, <1>1, <1>2

LEMMA GetStored ==
  ASSUME NEW b, NEW ino, NEW idx
  PROVE  /\ Level(idx) = 0 => get_block_index_in_inode(b, ino, idx) = ino.direct[idx]
         /\ Level(idx) = 1 /\ ino.indirect[1] \in Blocks =>
              get_block_index_in_inode(b, ino, idx) = b[ino.indirect[1]][Positions(idx)[1]]
<1> DEFINE Down(at, pos) == IF at \in Blocks THEN b[at][pos] ELSE -1
           pos == Positions(idx)
           root == ino.indirect[1]
           e0 == ino.direct[idx]
           e1 == Down(root, pos[1])
           e2 == Down(e1, pos[2])
           e3 == Down(e2, pos[3])
<1>1. get_block_index_in_inode(b, ino, idx) =
        CASE Level(idx) = 0 -> e0 [] Level(idx) = 1 -> e1
          [] Level(idx) = 2 -> e2 [] Level(idx) = 3 -> e3
  BY Zenon DEF get_block_index_in_inode
<1>2. root \in Blocks => e1 = b[root][pos[1]]
  OBVIOUS
<1> HIDE DEF e0, e1, e2, e3
<1>3. /\ Level(idx) = 0 => get_block_index_in_inode(b, ino, idx) = e0
      /\ Level(idx) = 1 => get_block_index_in_inode(b, ino, idx) = e1
  BY <1>1
<1> QED
  BY <1>2, <1>3 DEF e0

LEMMA WrittenIsFound == BlockInv => GetFindsWritten
<1> SUFFICES ASSUME BlockInv, NEW f \in Files, NEW k \in DOMAIN want[f],
                    k <= SECOND_POINTER
             PROVE  get_block_index_in_inode(blk, inode[f], k - 1) = want[f][k]
  BY Zenon DEF GetFindsWritten
<1>1. PICK B, ino, w : /\ B = blk /\ ino = inode[f] /\ w = want[f]
                       /\ ino \in Inodes /\ w \in Seq(Blocks) /\ Stored(B, ino, w)
  BY DEF BlockInv, Types, FileInv
<1>2. /\ k \in 1..Len(w) /\ Len(w) \in Nat /\ FIRST_POINTER \in Nat /\ P \in Nat
      /\ SECOND_POINTER = FIRST_POINTER + P
  <2>1. k \in DOMAIN w
    BY Zenon, <1>1
  <2>2. DOMAIN w = 1..Len(w) /\ Len(w) \in Nat
    BY <1>1
  <2> QED
    BY <2>1, <2>2, Sizes
<1>3. CASE k <= FIRST_POINTER
  <2>1. Level(k - 1) = 0 /\ k - 1 \in 0..FIRST_POINTER-1 /\ k - 1 < Len(w)
        /\ (k - 1) + 1 = k
    BY <1>2, <1>3 DEF Level
  <2>2. ino.direct[k - 1] = w[k]
    BY <1>1, <2>1 DEF Stored
  <2> QED
    <3>1. PICK idx : idx = k - 1 /\ Level(idx) = 0
      BY Zenon, <2>1
    <3>2. get_block_index_in_inode(B, ino, idx) = ino.direct[idx]
      BY <3>1, GetStored
    <3>3. get_block_index_in_inode(blk, inode[f], k - 1) = get_block_index_in_inode(B, ino, idx)
      BY Zenon, <1>1, <3>1
    <3> QED
      BY <1>1, <2>2, <3>1, <3>2, <3>3
<1>4. CASE k > FIRST_POINTER
  <2>1. Level(k - 1) = 1
    BY <1>2, <1>4 DEF Level
  <2>2. PICK j : j = (k - 1) - FIRST_POINTER
    OBVIOUS
  <2>3. /\ j \in 0..P-1 /\ FIRST_POINTER + j < Len(w) /\ FIRST_POINTER + j + 1 = k
        /\ Len(w) > FIRST_POINTER
    BY <1>2, <1>4, <2>2
  <2>4. ino.indirect[1] # 0 /\ B[ino.indirect[1]][j] = w[k]
    BY <1>1, <2>3 DEF Stored
  <2>5. ino.indirect[1] \in Blocks
    BY <1>1, <2>4, Sizes DEF Inodes
  <2>6. Positions(k - 1)[1] = j
    BY <2>1, <2>2 DEF Positions
  <2> QED
    <3>1. PICK idx : idx = k - 1 /\ Level(idx) = 1
      BY Zenon, <2>1
    <3>2. get_block_index_in_inode(B, ino, idx) = B[ino.indirect[1]][Positions(idx)[1]]
      BY <2>5, <3>1, GetStored
    <3>3. get_block_index_in_inode(blk, inode[f], k - 1) = get_block_index_in_inode(B, ino, idx)
      BY Zenon, <1>1, <3>1
    <3> QED
      BY <1>1, <2>4, <2>6, <3>1, <3>2, <3>3
<1> QED
  BY <1>2, <1>3, <1>4

LEMMA OwnedIsGivenOnce == BlockInv => GivenOnce
<1> SUFFICES ASSUME BlockInv, NEW f \in Files, NEW g \in Files, NEW k \in DOMAIN want[f]
             PROVE  /\ want[f][k] \notin IndexBlocks(g)
                    /\ \A l \in DOMAIN want[g] : want[f][k] = want[g][l] => f = g /\ k = l
  BY Zenon DEF GivenOnce
<1>1. IndexBlocks(g) = Roots(inode[g])
  BY DEF IndexBlocks, Roots
<1>2. want[f][k] \in Range(want[f]) /\ \A l \in DOMAIN want[g] : want[g][l] \in Range(want[g])
  BY Zenon DEF Range
<1>3. want[f][k] \in Own(f) /\ (\A l \in DOMAIN want[g] : want[g][l] \in Own(g))
      /\ Roots(inode[g]) \subseteq Own(g)
  BY Zenon, <1>2 DEF Own, Owned, Reached
<1>4. CASE f # g
  <2>1. Own(f) \cap Own(g) = {}
    BY Zenon, <1>4 DEF BlockInv
  <2> QED
    BY <1>1, <1>3, <2>1
<1>5. CASE f = g
  <2>1. Roots(inode[f]) \cap Range(want[f]) = {}
    BY Zenon DEF BlockInv, FileInv, Shape
  <2>2. DOMAIN want[f] = 1..Len(want[f])
    BY DEF BlockInv, Types
  <2>3. \A a, c \in 1..Len(want[f]) : want[f][a] = want[f][c] => a = c
    BY Zenon DEF BlockInv, FileInv
  <2> QED
    BY <1>1, <1>2, <1>5, <2>1, <2>2, <2>3
<1> QED
  BY Zenon, <1>4, <1>5

LEMMA ReleaseStep ==
  BlockInv /\ [Next]_vars =>
    [\A f \in Files : (Release(f) /\ Len(want[f]) <= SECOND_POINTER) =>
       used' = used \ (Range(want[f]) \cup IndexBlocks(f))]_vars
BY Zenon, ReleaseFrees

-----------------------------------------------------------------------------
(* The facts on finite sets come from the library, which is brought in     *)
(* only here: its theorems would be in the way of all the steps above.     *)
LOCAL INSTANCE FiniteSetTheorems

LEMMA SizeIsCardinality == \A S : Cardinality(S) = SizeOf(S)
BY Zenon DEF Cardinality, SizeOf

LEMMA Least ==
  ASSUME NEW S, S \subseteq Nat, S # {}
  PROVE  \E n \in S : \A m \in S : n <= m
<1> DEFINE R == OpToRel(<, Nat)
<1>1. PICK n \in S : \A m \in S : ~(<<m, n>> \in R)
  BY Zenon, NatLessThanWellFounded, WFMin
<1>2. \A m \in S : m < n => <<m, n>> \in R
  BY <1>1 DEF OpToRel
<1> HIDE DEF R
<1>3. \A m \in S : ~(m < n)
  BY Zenon, <1>1, <1>2
<1>4. \A m \in S : n <= m
  BY <1>3
<1> QED
  BY Zenon, <1>4

LEMMA FreeBlocksCount == FreeCounts
<1> SUFFICES ASSUME NEW u
             PROVE  /\ SizeOf(Blocks \ u) \in Nat
                    /\ SizeOf(Blocks \ u) = 0 <=> Blocks \ u = {}
                    /\ Blocks \ u # {} => Min(Blocks \ u) \in Blocks \ u
                    /\ \A c \in Blocks \ u :
                         SizeOf(Blocks \ (u \cup {c})) = SizeOf(Blocks \ u) - 1
  BY Zenon, SizeIs DEF FreeCounts
<1>1. IsFiniteSet(Blocks) /\ Blocks \subseteq Nat
  BY Sizes, FS_Interval DEF Blocks
<1>2. IsFiniteSet(Blocks \ u) /\ Blocks \ u \subseteq Nat
  BY Zenon, <1>1, FS_Subset
<1>3. Cardinality(Blocks \ u) \in Nat
  BY Zenon, <1>2, FS_CardinalityType
<1>4. Cardinality(Blocks \ u) = 0 <=> Blocks \ u = {}
  BY Zenon, <1>2, FS_EmptySet
<1>5. ASSUME Blocks \ u # {} PROVE Min(Blocks \ u) \in Blocks \ u
  <2>1. \E n \in Blocks \ u : \A m \in Blocks \ u : n <= m
    BY Zenon, <1>2, <1>5, Least
  <2> QED
    BY Zenon, <2>1 DEF Min
<1>6. ASSUME NEW c \in Blocks \ u
      PROVE  Cardinality(Blocks \ (u \cup {c})) = Cardinality(Blocks \ u) - 1
  <2>1. Blocks \ (u \cup {c}) = (Blocks \ u) \ {c}
    OBVIOUS
  <2>2. Cardinality((Blocks \ u) \ {c}) = Cardinality(Blocks \ u) - 1
    BY Zenon, <1>2, FS_RemoveElement
  <2> QED
    BY <2>1, <2>2
<1> QED
  BY Zenon, <1>3, <1>4, <1>5, <1>6, SizeIsCardinality

\* In every state of the card and the inodes: each file owns its blocks alone,
\* its inode has the shape the code relies on, and its direct pointers and those
\* of the first level are the blocks it was given.
THEOREM BlocksAreOwned == Spec => []BlockInv
<1>1. BlockInv /\ [Next]_vars => BlockInv'
  BY Zenon, FreeBlocksCount, BlockInvNext
<1> QED
  BY <1>1, BlockInvInit, PTL DEF Spec

\* get_block_index_in_inode finds what write_block_index_in_inode wrote, for any
\* number of files and any sizes, under every index below SECOND_POINTER.
THEOREM BlocksAreFound == Spec => []GetFindsWritten
BY WrittenIsFound, BlocksAreOwned, PTL

\* No block is given to two files, twice to one, or as data and for pointers,
\* although the levels 2 and 3 lose blocks of pointers.
THEOREM BlocksGivenOnce == Spec => []GivenOnce
BY OwnedIsGivenOnce, BlocksAreOwned, PTL

\* release_inode_block gives back exactly the blocks of a file with one level of
\* pointers: its data blocks and that block of pointers.
THEOREM ReleaseIsExact == Spec => ReleaseGivesBack
BY ReleaseStep, BlocksAreOwned, PTL DEF Spec, ReleaseGivesBack

=============================================================================
