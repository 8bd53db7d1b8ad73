---------------------------- MODULE MailboxProofs ----------------------------
(***************************************************************************)
(* Proofs about the two sides of libs/mailbox.c.                           *)
(*                                                                         *)
(* A mailbox that is in use, for any finite set of tasks, every length of  *)
(* the mailbox (32 in the code) and every set of messages, if no task is   *)
(* killed: the mutex and the two semaphores together keep ptr equal to the *)
(* number of messages, no place of the mailbox is lost or made up, and     *)
(* every step is a step of the bounded stack.  The strengthening adds that *)
(* the queues of the semaphores hold tasks that wait, each once, and in    *)
(* the queue of the call they are in.                                      *)
(*                                                                         *)
(* The table of mailboxes, for every set of names and every number of      *)
(* mailboxes (32 in the code), if the programs open and close one after    *)
(* the other: the programs that have a mailbox open are exactly the ones   *)
(* that gave its name, and count is their number.                          *)
(***************************************************************************)
EXTENDS MCMailbox, TLAPS

-----------------------------------------------------------------------------
(***************************************************************************)
(* The facts on finite sets that the proofs need, stated of the            *)
(* definitions of module FiniteSets written out.  The library's theorems   *)
(* on them would be in the way of every step of a proof, so that they are  *)
(* brought in only at the end of this module, where FiniteFacts is shown   *)
(* to hold.                                                                *)
(***************************************************************************)
IsFin(S) == \E l \in Seq(S) : \A x \in S : \E n \in 1..Len(l) : l[n] = x

SizeOf(S) ==
  LET CS[T \in SUBSET S] == IF T = {} THEN 0 ELSE 1 + CS[T \ {CHOOSE x : x \in T}]
  IN  CS[S]

FiniteFacts ==
  /\ \A S : IsFin(S) => SizeOf(S) \in Nat
  /\ IsFin({}) /\ \A S : IsFin(S) => (SizeOf(S) = 0 <=> S = {})
  /\ \A x : IsFin({x}) /\ SizeOf({x}) = 1
  /\ \A S, x : IsFin(S) =>
       /\ IsFin(S \cup {x})
       /\ SizeOf(S \cup {x}) = IF x \in S THEN SizeOf(S) ELSE SizeOf(S) + 1
  /\ \A S, x : IsFin(S) =>
       /\ IsFin(S \ {x})
       /\ SizeOf(S \ {x}) = IF x \in S THEN SizeOf(S) - 1 ELSE SizeOf(S)
  /\ \A S : IsFin(S) => \A T \in SUBSET S :
       IsFin(T) /\ SizeOf(T) <= SizeOf(S) /\ (SizeOf(S) = SizeOf(T) => S = T)

LEMMA FinIs == \A S : IsFiniteSet(S) <=> IsFin(S)
BY Zenon DEF IsFiniteSet, IsFin

LEMMA SizeIs == \A S : Cardinality(S) = SizeOf(S)
BY Zenon DEF Cardinality, SizeOf

\* Sizes are numbers.
LEMMA SizeIsNat ==
  ASSUME FiniteFacts, NEW S, IsFiniteSet(S)
  PROVE  Cardinality(S) \in Nat
BY Zenon, FinIs, SizeIs DEF FiniteFacts

\* The empty set is the one with no element.
LEMMA SizeOfEmpty ==
  ASSUME FiniteFacts
  PROVE  /\ IsFiniteSet({}) /\ Cardinality({}) = 0
         /\ \A S : IsFiniteSet(S) => (Cardinality(S) = 0 <=> S = {})
BY Zenon, FinIs, SizeIs DEF FiniteFacts

\* A set with one element.
LEMMA SizeOfOne ==
  ASSUME FiniteFacts
  PROVE  \A x : IsFiniteSet({x}) /\ Cardinality({x}) = 1
BY Zenon, FinIs, SizeIs DEF FiniteFacts

\* One more element.
LEMMA SizePlusOne ==
  ASSUME FiniteFacts, NEW S, NEW x, IsFiniteSet(S)
  PROVE  /\ IsFiniteSet(S \cup {x})
         /\ Cardinality(S \cup {x}) = IF x \in S THEN Cardinality(S) ELSE Cardinality(S) + 1
BY Zenon, FinIs, SizeIs DEF FiniteFacts

\* One element less.
LEMMA SizeMinusOne ==
  ASSUME FiniteFacts, NEW S, NEW x, IsFiniteSet(S)
  PROVE  /\ IsFiniteSet(S \ {x})
         /\ Cardinality(S \ {x}) = IF x \in S THEN Cardinality(S) - 1 ELSE Cardinality(S)
BY Zenon, FinIs, SizeIs DEF FiniteFacts

\* A part is finite, and smaller unless it is the whole.
LEMMA SizeOfPart ==
  ASSUME FiniteFacts, NEW S, IsFiniteSet(S), NEW T \in SUBSET S
  PROVE  /\ IsFiniteSet(T) /\ Cardinality(T) <= Cardinality(S)
         /\ Cardinality(S) = Cardinality(T) => S = T
BY Zenon, FinIs, SizeIs DEF FiniteFacts

-----------------------------------------------------------------------------
(***************************************************************************)
(* The table.  The invariant says what mbox_open has found out about it up *)
(* to the statement that it has reached, which nobody else changes in the  *)
(* meantime.                                                               *)
(***************************************************************************)

Boxes == 0..MAX_NUM_BOX-1

Quiet == {"out", "open", "lost"}

TablePlaces == Quiet \cup {"find", "take", "name", "new", "newing", "reset",
                           "join", "joining", "close", "closing"}

\* The programs that count[b] counts.
Has(b) ==
  {p \in Tasks : at[p] \in {"open", "close", "closing", "reset"} /\ index[p] = b}

TableTypes ==
  /\ name \in [Boxes -> Names \cup {"none"}]
  /\ count \in [Boxes -> Nat]
  /\ ready \in [Boxes -> BOOLEAN]
  /\ at \in [Tasks -> TablePlaces]
  /\ index \in [Tasks -> 0..MAX_NUM_BOX]
  /\ want \in [Tasks -> Names \cup {"none"}]
  /\ loaded \in [Tasks -> Nat]
  /\ opens \in [Tasks -> Nat]

\* One call at a time.
OneCaller == \A p, q \in Tasks : at[p] \notin Quiet /\ at[q] \notin Quiet => p = q

CountInv == \A b \in Boxes : count[b] = Cardinality(Has(b))

\* No two mailboxes in use have the same name.
NamesApart ==
  \A b, c \in Boxes : count[b] > 0 /\ count[c] > 0 /\ name[b] = name[c] => b = c

\* A mailbox that is in use has been set up, or is being set up.
ReadyInv ==
  \A b \in Boxes : count[b] > 0 =>
    ready[b] \/ \E p \in Tasks : at[p] = "reset" /\ index[p] = b

\* The mailbox that a program has.
OwnBox(p) ==
  at[p] \in {"open", "close", "closing", "reset"} =>
    /\ index[p] \in Boxes
    /\ name[index[p]] = want[p]
    /\ at[p] # "reset" => ready[index[p]]

\* No mailbox in use below b has the name that p wants.
NotBelow(p, b) == \A c \in Boxes : c < b /\ name[c] = want[p] => count[c] = 0

\* What a call knows of the table.
Knows(p) ==
  /\ at[p] = "find" => NotBelow(p, index[p])
  /\ at[p] \in {"take", "name", "new", "newing"} => NotBelow(p, MAX_NUM_BOX)
  /\ at[p] \in {"name", "new", "newing"} =>
       index[p] \in Boxes /\ count[index[p]] = 0
  /\ at[p] \in {"new", "newing"} => name[index[p]] = want[p]
  /\ at[p] \in {"join", "joining"} =>
       index[p] \in Boxes /\ count[index[p]] > 0 /\ name[index[p]] = want[p]
  /\ at[p] \in {"newing", "joining", "closing"} => loaded[p] = count[index[p]]

TableInv ==
  /\ TableTypes /\ OneCaller /\ CountInv /\ NamesApart /\ ReadyInv
  /\ \A p \in Tasks : OwnBox(p) /\ Knows(p)

-----------------------------------------------------------------------------
InUse == {"open", "close", "closing", "reset"}

LEMMA TableInit ==
  ASSUME FiniteFacts, Table!Init
  PROVE  TableInv
<1>1. MAX_NUM_BOX \in Nat
  BY TableAssumption
<1>2. TableTypes
  BY <1>1 DEF Table!Init, Table!Boxes, TableTypes, Boxes, TablePlaces, Quiet
<1>3. CountInv
  <2>1. \A b \in Boxes : Has(b) = {} /\ count[b] = 0
    BY DEF Table!Init, Table!Boxes, Has, Boxes
  <2> QED BY <2>1, SizeOfEmpty DEF CountInv
<1>4. OneCaller /\ NamesApart /\ ReadyInv
  BY DEF Table!Init, Table!Boxes, Boxes, OneCaller, NamesApart, ReadyInv, Quiet
<1>5. \A p \in Tasks : OwnBox(p) /\ Knows(p)
  BY DEF Table!Init, OwnBox, Knows
<1> QED BY <1>2, <1>3, <1>4, <1>5 DEF TableInv

\* Task p is in a call, or is about to begin one.
Turn(p) == at[p] \notin Quiet \/ \A q \in Tasks : at[q] \in Quiet

\* The others are where they were.
Others(p) ==
  \A q \in Tasks \ {p} :
    at'[q] = at[q] /\ index'[q] = index[q] /\ want'[q] = want[q] /\ at[q] \in Quiet

LEMMA OthersQuiet ==
  ASSUME TableInv, NEW p \in Tasks, Turn(p)
  PROVE  \A q \in Tasks \ {p} : at[q] \in Quiet
BY DEF TableInv, OneCaller, Turn

\* A step that moves p on and changes nothing of the mailboxes.
LEMMA MoveOnly ==
  ASSUME TableInv, NEW p \in Tasks, Others(p), TableTypes',
         UNCHANGED <<name, count, ready>>,
         at[p] \in InUse <=> at'[p] \in InUse,
         at'[p] \in InUse => index'[p] = index[p],
         at[p] # "reset", OwnBox(p)', Knows(p)'
  PROVE  TableInv'
<1>1. \A b \in Boxes : Has(b)' = Has(b)
  BY DEF Has, Others, InUse
<1>2. CountInv'
  BY <1>1 DEF CountInv, TableInv, Boxes
<1>3. OneCaller'
  BY DEF OneCaller, Others
<1>4. NamesApart'
  BY DEF TableInv, NamesApart, Boxes
<1>5. ReadyInv'
  BY DEF TableInv, ReadyInv, Others, Boxes, Quiet
<1>6. \A q \in Tasks \ {p} : OwnBox(q)' /\ Knows(q)'
  <2> SUFFICES ASSUME NEW q \in Tasks \ {p} PROVE OwnBox(q)' /\ Knows(q)'
    OBVIOUS
  <2>1. OwnBox(q) /\ at'[q] = at[q] /\ index'[q] = index[q] /\ want'[q] = want[q]
        /\ at[q] \in Quiet
    BY DEF TableInv, Others
  <2>2. OwnBox(q)'
    BY <2>1 DEF OwnBox, Boxes
  <2> QED BY <2>1, <2>2 DEF Knows, Quiet
<1> QED BY <1>2, <1>3, <1>4, <1>5, <1>6 DEF TableInv

LEMMA OpenKeeps ==
  ASSUME TableInv, NEW p \in Tasks, NEW n \in Names, Table!Open(p, n)
  PROVE  TableInv'
<1>1. /\ at[p] = "out" /\ \A q \in Tasks : at[q] \in Quiet
      /\ opens' = [opens EXCEPT ![p] = @ + 1]
      /\ want' = [want EXCEPT ![p] = n]
      /\ at' = [at EXCEPT ![p] = "find"] /\ index' = [index EXCEPT ![p] = 0]
      /\ UNCHANGED <<name, count, ready, loaded>>
  BY DEF Table!Open, Table!Goto, Table!MayBegin, Quiet
<1>2. TableTypes
  BY DEF TableInv
<1>3. TableTypes'
  BY <1>1, <1>2, TableAssumption DEF TableTypes, TablePlaces, Boxes
<1>4. Others(p) /\ at'[p] = "find" /\ index'[p] = 0
  BY <1>1, <1>2 DEF Others, TableTypes
<1>5. OwnBox(p)' /\ Knows(p)'
  BY <1>4, TableAssumption DEF OwnBox, Knows, NotBelow, Boxes
<1> QED BY <1>1, <1>3, <1>4, <1>5, MoveOnly DEF InUse

\* A step of p that only sets its position, its index and what it has loaded.
LEMMA GotoKeeps ==
  ASSUME TableInv, NEW p \in Tasks, Turn(p), at[p] # "reset",
         NEW w \in TablePlaces, NEW b \in 0..MAX_NUM_BOX, Table!Goto(p, w, b),
         at[p] \in InUse <=> w \in InUse, w \in InUse => b = index[p],
         UNCHANGED <<name, count, ready, want, opens>>,
         loaded' \in [Tasks -> Nat], Knows(p)'
  PROVE  TableInv'
<1>1. at' = [at EXCEPT ![p] = w] /\ index' = [index EXCEPT ![p] = b]
  BY DEF Table!Goto
<1>2. TableTypes /\ OwnBox(p)
  BY DEF TableInv
<1>3. TableTypes'
  BY <1>1, <1>2 DEF TableTypes, Boxes
<1>4. \A q \in Tasks \ {p} : at[q] \in Quiet
  BY OthersQuiet
<1>5. Others(p) /\ at'[p] = w /\ index'[p] = b
  BY <1>1, <1>2, <1>4 DEF Others, TableTypes
<1>6. OwnBox(p)'
  BY <1>2, <1>5 DEF OwnBox, InUse, Boxes
<1> QED BY <1>3, <1>5, <1>6, MoveOnly

\* What Goto does to the position of p.
LEMMA GotoFacts ==
  ASSUME TableTypes, NEW p \in Tasks, NEW w, NEW b, Table!Goto(p, w, b)
  PROVE  at'[p] = w /\ index'[p] = b
BY DEF Table!Goto, TableTypes

LEMMA FindKeeps ==
  ASSUME TableInv, NEW p \in Tasks, Table!Find(p)
  PROVE  TableInv'
<1>1. /\ at[p] = "find" /\ UNCHANGED <<name, count, ready, want, loaded, opens>>
      /\ TableTypes /\ MAX_NUM_BOX \in Nat /\ index[p] \in 0..MAX_NUM_BOX
      /\ NotBelow(p, index[p]) /\ Turn(p) /\ loaded' \in [Tasks -> Nat]
  BY TableAssumption DEF Table!Find, TableInv, TableTypes, Knows, Turn, Quiet
<1>2. ASSUME NEW w \in {"find", "take", "join"}, NEW b \in 0..MAX_NUM_BOX,
             Table!Goto(p, w, b), Knows(p)'
      PROVE  TableInv'
  BY <1>1, <1>2, GotoKeeps DEF InUse, TablePlaces, Quiet
<1>3. CASE index[p] = MAX_NUM_BOX
  <2>1. Table!Goto(p, "take", 0)
    BY <1>3 DEF Table!Find
  <2>2. Knows(p)'
    BY <1>1, <1>3, <2>1, GotoFacts DEF Knows, NotBelow, Boxes
  <2> QED BY <1>1, <1>2, <2>1, <2>2
<1>4. CASE index[p] # MAX_NUM_BOX /\ name[index[p]] = want[p] /\ count[index[p]] > 0
  <2>1. Table!Goto(p, "join", index[p])
    BY <1>4 DEF Table!Find
  <2>2. Knows(p)'
    BY <1>1, <1>4, <2>1, GotoFacts DEF Knows, Boxes
  <2> QED BY <1>1, <1>2, <2>1, <2>2
<1>5. CASE index[p] # MAX_NUM_BOX /\ ~(name[index[p]] = want[p] /\ count[index[p]] > 0)
  <2>1. Table!Goto(p, "find", index[p] + 1)
    BY Zenon, <1>5 DEF Table!Find
  <2>2. name[index[p]] = want[p] => count[index[p]] = 0
    BY <1>1, <1>5 DEF TableTypes, Boxes
  <2>3. Knows(p)'
    BY <1>1, <2>1, <2>2, GotoFacts DEF Knows, NotBelow, Boxes
  <2> QED BY <1>1, <1>2, <1>5, <2>1, <2>3
<1> QED BY <1>3, <1>4, <1>5

LEMMA TakeKeeps ==
  ASSUME TableInv, NEW p \in Tasks, Table!Take(p)
  PROVE  TableInv'
<1>1. /\ at[p] = "take" /\ UNCHANGED <<name, count, ready, want, loaded, opens>>
      /\ TableTypes /\ MAX_NUM_BOX \in Nat /\ index[p] \in 0..MAX_NUM_BOX
      /\ NotBelow(p, MAX_NUM_BOX) /\ Turn(p) /\ loaded' \in [Tasks -> Nat]
  BY TableAssumption DEF Table!Take, TableInv, TableTypes, Knows, Turn, Quiet
<1>2. ASSUME NEW w \in {"lost", "name", "take"}, NEW b \in 0..MAX_NUM_BOX,
             Table!Goto(p, w, b), w = "name" => b \in Boxes /\ count[b] = 0
      PROVE  TableInv'
  <2>1. Knows(p)'
    BY <1>1, <1>2, GotoFacts DEF Knows, NotBelow, Boxes
  <2> QED BY <1>1, <1>2, <2>1, GotoKeeps DEF InUse, TablePlaces, Quiet
<1>3. CASE index[p] = MAX_NUM_BOX
  BY <1>1, <1>2, <1>3 DEF Table!Take
<1>4. CASE index[p] # MAX_NUM_BOX /\ count[index[p]] = 0
  BY <1>1, <1>2, <1>4 DEF Table!Take, Boxes
<1>5. CASE index[p] # MAX_NUM_BOX /\ count[index[p]] # 0
  BY <1>1, <1>2, <1>5 DEF Table!Take
<1> QED BY <1>3, <1>4, <1>5

LEMMA LoadKeeps ==
  ASSUME TableInv, NEW p \in Tasks, Table!Load(p)
  PROVE  TableInv'
<1> DEFINE w == CASE at[p] = "join" -> "joining" [] at[p] = "new" -> "newing"
                  [] OTHER -> "closing"
<1>1. /\ at[p] \in {"join", "new", "close"} /\ UNCHANGED <<name, count, ready, want, opens>>
      /\ loaded' = [loaded EXCEPT ![p] = count[index[p]]]
      /\ Table!Goto(p, w, index[p])
  BY DEF Table!Load
<1>2. /\ TableTypes /\ OwnBox(p) /\ Knows(p) /\ Turn(p)
      /\ index[p] \in 0..MAX_NUM_BOX
  BY <1>1 DEF TableInv, Turn, Quiet, TableTypes
<1>3. index[p] \in Boxes
  BY <1>1, <1>2 DEF OwnBox, Knows
<1>4. loaded' \in [Tasks -> Nat] /\ loaded'[p] = count[index[p]]
  BY <1>1, <1>2, <1>3 DEF TableTypes
<1>5. /\ at[p] = "join" => w = "joining"
      /\ at[p] = "new" => w = "newing"
      /\ at[p] = "close" => w = "closing"
  OBVIOUS
<1>6. at'[p] = w /\ index'[p] = index[p]
  BY <1>1, <1>2, GotoFacts
<1> HIDE DEF w
<1>7. Knows(p)'
  BY <1>1, <1>2, <1>4, <1>5, <1>6 DEF Knows, NotBelow, Boxes
<1> QED BY <1>1, <1>2, <1>4, <1>5, <1>7, GotoKeeps DEF InUse, TablePlaces, Quiet

LEMMA CloseKeeps ==
  ASSUME TableInv, NEW p \in Tasks, Table!Close(p)
  PROVE  TableInv'
<1>1. /\ at[p] = "open" /\ UNCHANGED <<name, count, ready, want, loaded, opens>>
      /\ Turn(p) /\ Table!Goto(p, "close", index[p])
      /\ TableTypes /\ index[p] \in 0..MAX_NUM_BOX /\ loaded' \in [Tasks -> Nat]
  BY DEF Table!Close, Table!MayBegin, Turn, Quiet, TableInv, TableTypes
<1>2. Knows(p)'
  BY <1>1, GotoFacts DEF Knows
<1> QED BY <1>1, <1>2, GotoKeeps DEF InUse, TablePlaces, Quiet

\* What the other tasks keep if the mailboxes that they have open stay as they
\* are.
LEMMA OthersKeep ==
  ASSUME TableInv, NEW p \in Tasks, Others(p),
         \A q \in Tasks \ {p} : at[q] = "open" =>
           name'[index[q]] = name[index[q]] /\ ready'[index[q]] = ready[index[q]]
  PROVE  OneCaller' /\ \A q \in Tasks \ {p} : OwnBox(q)' /\ Knows(q)'
<1>1. OneCaller'
  BY DEF OneCaller, Others
<1>2. ASSUME NEW q \in Tasks \ {p} PROVE OwnBox(q)' /\ Knows(q)'
  <2>1. OwnBox(q) /\ at'[q] = at[q] /\ index'[q] = index[q] /\ want'[q] = want[q]
        /\ at[q] \in Quiet
    BY DEF TableInv, Others
  <2>2. OwnBox(q)'
    BY <2>1 DEF OwnBox, Boxes, Quiet
  <2> QED BY <2>1, <2>2 DEF Knows, Quiet
<1> QED BY <1>1, <1>2

\* The only task that can be setting up a mailbox is the one in a call.
LEMMA ReadyUnlessReset ==
  ASSUME TableInv, NEW p \in Tasks, at[p] \notin Quiet, at[p] # "reset",
         NEW b \in Boxes, count[b] > 0
  PROVE  ready[b]
BY DEF TableInv, ReadyInv, OneCaller, Quiet

LEMMA HasFinite ==
  ASSUME FiniteFacts
  PROVE  \A b : IsFiniteSet(Has(b)) /\ Cardinality(Has(b)) \in Nat
BY MailboxAssumption, SizeOfPart, SizeIsNat DEF Has

LEMMA SetNameKeeps ==
  ASSUME FiniteFacts, TableInv, NEW p \in Tasks, Table!SetName(p)
  PROVE  TableInv'
<1> DEFINE b == index[p]
<1>1. /\ at[p] = "name" /\ UNCHANGED <<count, want, loaded, opens>>
      /\ name' = [name EXCEPT ![b] = want[p]]
      /\ ready' = [ready EXCEPT ![b] = FALSE]
      /\ Table!Goto(p, "new", b)
      /\ at' = [at EXCEPT ![p] = "new"] /\ index' = [index EXCEPT ![p] = b]
  BY DEF Table!SetName, Table!Goto
<1>2. /\ TableTypes /\ Knows(p) /\ Turn(p) /\ b \in Boxes /\ count[b] = 0
      /\ NotBelow(p, MAX_NUM_BOX)
  BY <1>1 DEF TableInv, Turn, Quiet, Knows
<1> HIDE DEF b
<1>3. TableTypes'
  <2>1. b \in 0..MAX_NUM_BOX
    BY <1>2, TableAssumption DEF Boxes
  <2>2. name' \in [Boxes -> Names \cup {"none"}] /\ ready' \in [Boxes -> BOOLEAN]
    BY <1>1, <1>2 DEF TableTypes
  <2>3. at' \in [Tasks -> TablePlaces] /\ index' \in [Tasks -> 0..MAX_NUM_BOX]
    BY <1>1, <1>2, <2>1 DEF TableTypes, TablePlaces
  <2> QED BY Zenon, <1>1, <1>2, <2>2, <2>3 DEF TableTypes, Boxes
<1>4. Others(p) /\ at'[p] = "new" /\ index'[p] = b
  BY <1>1, <1>2, OthersQuiet DEF Others, TableTypes
<1>5. \A c \in Boxes : Has(c)' = Has(c)
  BY <1>1, <1>4 DEF Has, Others
<1>6. CountInv'
  BY <1>1, <1>5 DEF CountInv, TableInv, Boxes
<1>7. Has(b) = {}
  BY <1>2, HasFinite, SizeOfEmpty DEF TableInv, CountInv
<1>8. /\ \A c \in Boxes \ {b} : name'[c] = name[c] /\ ready'[c] = ready[c]
      /\ name'[b] = want[p]
  BY <1>1, <1>2 DEF TableTypes
<1>9. NamesApart' /\ ReadyInv'
  BY <1>1, <1>2, <1>4, <1>8 DEF TableInv, NamesApart, ReadyInv, Boxes, Others, Quiet
<1>10. OneCaller' /\ \A q \in Tasks \ {p} : OwnBox(q)' /\ Knows(q)'
  <2>1. \A q \in Tasks \ {p} : at[q] = "open" => index[q] \in Boxes \ {b}
    BY <1>7 DEF TableInv, OwnBox, Has
  <2> QED BY Zenon, <1>4, <1>8, <2>1, OthersKeep
<1>11. OwnBox(p)' /\ Knows(p)'
  BY <1>1, <1>2, <1>4, <1>8 DEF OwnBox, Knows, NotBelow, Boxes
<1> QED BY <1>3, <1>6, <1>9, <1>10, <1>11 DEF TableInv

LEMMA ResetKeeps ==
  ASSUME TableInv, NEW p \in Tasks, Table!Reset(p)
  PROVE  TableInv'
<1> DEFINE b == index[p]
<1>1. /\ at[p] = "reset" /\ UNCHANGED <<name, count, want, loaded, opens>>
      /\ ready' = [ready EXCEPT ![b] = TRUE]
      /\ at' = [at EXCEPT ![p] = "open"] /\ index' = [index EXCEPT ![p] = b]
  BY DEF Table!Reset, Table!Goto
<1>2. /\ TableTypes /\ OwnBox(p) /\ Turn(p) /\ b \in Boxes /\ name[b] = want[p]
  BY <1>1 DEF TableInv, Turn, Quiet, OwnBox
<1>3. b = index[p]
  OBVIOUS
<1> HIDE DEF b
<1>4. TableTypes'
  <2>1. b \in 0..MAX_NUM_BOX
    BY <1>2, TableAssumption DEF Boxes
  <2>2. ready' \in [Boxes -> BOOLEAN]
    BY Zenon, <1>1, <1>2 DEF TableTypes
  <2>3. at' \in [Tasks -> TablePlaces] /\ index' \in [Tasks -> 0..MAX_NUM_BOX]
    BY <1>1, <1>2, <2>1 DEF TableTypes, TablePlaces, Quiet
  <2> QED BY <1>1, <1>2, <2>2, <2>3 DEF TableTypes, Boxes
<1>5. Others(p) /\ at'[p] = "open" /\ index'[p] = b
  BY <1>1, <1>2, OthersQuiet DEF Others, TableTypes
<1>6. \A c \in Boxes : Has(c)' = Has(c)
  BY <1>1, <1>3, <1>5 DEF Has, Others
<1>7. CountInv'
  BY <1>1, <1>6 DEF CountInv, TableInv, Boxes
<1>8. /\ \A c \in Boxes \ {b} : ready'[c] = ready[c]
      /\ ready'[b] = TRUE
  BY <1>1, <1>2 DEF TableTypes
<1>9. NamesApart'
  BY <1>1 DEF TableInv, NamesApart, Boxes
<1>10. ReadyInv'
  <2>1. \A q \in Tasks : at[q] = "reset" => index[q] = b
    BY <1>3, <1>5 DEF Others, Quiet
  <2> QED BY <1>1, <1>8, <2>1 DEF TableInv, ReadyInv, Boxes
<1>11. OneCaller' /\ \A q \in Tasks \ {p} : OwnBox(q)' /\ Knows(q)'
  <2>1. \A q \in Tasks \ {p} : at[q] = "open" => index[q] \in Boxes /\ ready[index[q]] = TRUE
    BY <1>2 DEF TableInv, OwnBox, TableTypes
  <2> QED BY Zenon, <1>1, <1>5, <1>8, <2>1, OthersKeep
<1>12. OwnBox(p)' /\ Knows(p)'
  BY <1>1, <1>2, <1>5, <1>8 DEF OwnBox, Knows, Boxes
<1> QED BY <1>4, <1>7, <1>9, <1>10, <1>11, <1>12 DEF TableInv

LEMMA StoreKeeps ==
  ASSUME FiniteFacts, TableInv, NEW p \in Tasks, Table!Store(p)
  PROVE  TableInv'
<1>0. /\ at[p] \in {"joining", "newing", "closing"} /\ UNCHANGED <<name, ready, opens>>
      /\ TableTypes /\ OwnBox(p) /\ Knows(p) /\ Turn(p)
      /\ \A q \in Tasks \ {p} : at[q] \in Quiet
  BY OthersQuiet DEF Table!Store, TableInv, Turn, Quiet
<1>00. index[p] \in Boxes
  BY Zenon, <1>0 DEF OwnBox, Knows
<1>000. PICK b \in Boxes : b = index[p]
  BY Zenon, <1>00
<1> DEFINE n == IF at[p] = "closing" THEN count[b] - 1 ELSE count[b] + 1
<1>1. /\ b = index[p] /\ loaded[p] = count[b] /\ name[b] = want[p]
      /\ b \in 0..MAX_NUM_BOX /\ MAX_NUM_BOX \in Nat
      /\ at[p] = "joining" => count[b] > 0
      /\ at[p] = "newing" => count[b] = 0 /\ NotBelow(p, MAX_NUM_BOX)
  BY <1>0, <1>000, TableAssumption DEF OwnBox, Knows, Boxes
<1>2. CountInv /\ NamesApart /\ ReadyInv
  BY DEF TableInv
<1>3. /\ count' = [count EXCEPT ![b] = n]
      /\ at'[p] = CASE at[p] = "closing" -> "out" [] at[p] = "joining" -> "open"
                    [] OTHER -> "reset"
      /\ at[p] # "closing" => index'[p] = b /\ want'[p] = want[p]
      /\ Others(p)
  BY <1>0, <1>1 DEF Table!Store, Table!AfterStore, Table!Goto, TableTypes, Others
<1>4. p \in Has(b) <=> at[p] = "closing"
  BY Zenon, <1>0, <1>1 DEF Has
<1>5. n \in Nat
  <2>1. at[p] = "closing" => Cardinality(Has(b)) # 0
    BY <1>4, HasFinite, SizeOfEmpty
  <2>2. count[b] \in Nat /\ count[b] = Cardinality(Has(b))
    BY <1>0, <1>1, <1>2 DEF TableTypes, CountInv
  <2> QED BY <2>1, <2>2
<1>6. TableTypes'
  <2>1. count' \in [Boxes -> Nat]
    BY Zenon, <1>0, <1>3, <1>5 DEF TableTypes
  <2>2. /\ loaded' \in [Tasks -> Nat] /\ want' \in [Tasks -> Names \cup {"none"}]
    BY <1>0 DEF Table!Store, Table!AfterStore, TableTypes
  <2>3. at' \in [Tasks -> TablePlaces] /\ index' \in [Tasks -> 0..MAX_NUM_BOX]
    BY <1>0, <1>1 DEF Table!Store, Table!AfterStore, Table!Goto, TableTypes,
       TablePlaces, Quiet
  <2> QED BY <1>0, <2>1, <2>2, <2>3 DEF TableTypes, Boxes
<1>7. /\ \A c \in Boxes \ {b} : count'[c] = count[c]
      /\ count'[b] = n /\ count[b] \in Nat
      /\ at[p] = "closing" => n = count[b] - 1
      /\ at[p] # "closing" => n = count[b] + 1
  BY <1>0, <1>1, <1>3 DEF TableTypes
<1> HIDE DEF n
<1>8. CountInv'
  <2>1. \A c \in Boxes \ {b} : Has(c)' = Has(c)
    BY <1>0, <1>1, <1>3 DEF Has, Others
  <2>2. Has(b)' = IF at[p] = "closing" THEN Has(b) \ {p} ELSE Has(b) \cup {p}
    BY <1>0, <1>1, <1>3 DEF Has, Others
  <2>3. IsFiniteSet(Has(b)) /\ Cardinality(Has(b)) = count[b]
    BY Zenon, <1>1, <1>2, HasFinite DEF CountInv
  <2>4. Cardinality(Has(b)') = n
    <3>1. CASE at[p] = "closing"
      <4>1. Cardinality(Has(b) \ {p}) = count[b] - 1
        BY Zenon, <1>4, <2>3, <3>1, SizeMinusOne
      <4> QED BY Zenon, <1>7, <2>2, <3>1, <4>1
    <3>2. CASE at[p] # "closing"
      <4>1. Cardinality(Has(b) \cup {p}) = count[b] + 1
        BY Zenon, <1>4, <2>3, <3>2, SizePlusOne
      <4> QED BY <1>7, <2>2, <3>2, <4>1
    <3> QED BY <3>1, <3>2
  <2> QED BY <1>2, <1>7, <2>1, <2>4 DEF CountInv, Boxes
<1>9. \A c \in Boxes \ {b} : count'[c] = count[c]
        /\ (at[p] = "newing" /\ count[c] > 0 => name[c] # name[b])
  <2>1. \A c \in Boxes : count[c] \in Nat /\ c < MAX_NUM_BOX
    BY <1>0, <1>1 DEF TableTypes, Boxes
  <2> QED BY <1>1, <1>7, <2>1 DEF NotBelow
<1>10. at[p] # "newing" => \A c \in Boxes : count'[c] > 0 => count[c] > 0
  BY <1>0, <1>1, <1>7
<1>11. NamesApart'
  <2>1. CASE at[p] = "newing"
    BY <1>0, <1>2, <1>9, <2>1 DEF NamesApart, Boxes
  <2>2. CASE at[p] # "newing"
    BY <1>0, <1>2, <1>10, <2>2 DEF NamesApart, Boxes
  <2> QED BY <2>1, <2>2
<1>12. \A c \in Boxes : count[c] > 0 => ready[c]
  BY <1>0, ReadyUnlessReset DEF Quiet
<1>13. ReadyInv'
  <2>1. CASE at[p] = "newing"
    <3>1. at'[p] = "reset" /\ index'[p] = b
      BY <1>3, <2>1
    <3> QED BY Zenon, <1>0, <1>9, <1>12, <3>1 DEF ReadyInv, Boxes
  <2>2. CASE at[p] # "newing"
    BY <1>0, <1>10, <1>12, <2>2 DEF ReadyInv, Boxes
  <2> QED BY <2>1, <2>2
<1>14. OneCaller' /\ \A q \in Tasks \ {p} : OwnBox(q)' /\ Knows(q)'
  BY <1>0, <1>3, OthersKeep
<1>15. OwnBox(p)' /\ Knows(p)'
  BY <1>0, <1>1, <1>3, <1>12 DEF OwnBox, Knows, Boxes
<1> QED BY <1>6, <1>8, <1>11, <1>13, <1>14, <1>15 DEF TableInv

LEMMA TableNext ==
  ASSUME FiniteFacts, TableInv, [Table!Next]_(Table!vars)
  PROVE  TableInv'
<1>1. CASE UNCHANGED Table!vars
  BY <1>1 DEF Table!vars, TableInv, TableTypes, OneCaller, CountInv, NamesApart,
     ReadyInv, OwnBox, Knows, NotBelow, Has, Boxes
<1>2. CASE Table!Next
  BY <1>2, OpenKeeps, FindKeeps, TakeKeeps, SetNameKeeps, LoadKeeps, StoreKeeps,
     ResetKeeps, CloseKeeps DEF Table!Next
<1> QED BY Zenon, <1>1, <1>2

\* The invariant says what OpenersMeet promises.
LEMMA TableServes ==
  ASSUME FiniteFacts, TableInv
  PROVE  OpenersMeet
<1>1. \A p \in Tasks : at[p] = "open" =>
        /\ index[p] \in Boxes /\ name[index[p]] = want[p] /\ ready[index[p]]
        /\ count[index[p]] > 0
  <2> SUFFICES ASSUME NEW p \in Tasks, at[p] = "open"
               PROVE  /\ index[p] \in Boxes /\ name[index[p]] = want[p]
                      /\ ready[index[p]] /\ count[index[p]] > 0
    OBVIOUS
  <2>1. OwnBox(p)
    BY DEF TableInv
  <2>2. index[p] \in Boxes /\ name[index[p]] = want[p] /\ ready[index[p]]
    BY <2>1 DEF OwnBox
  <2>3. Has(index[p]) # {}
    BY DEF Has
  <2>4. Cardinality(Has(index[p])) # 0
    BY <2>3, HasFinite, SizeOfEmpty
  <2>5. count[index[p]] = Cardinality(Has(index[p])) /\ count[index[p]] \in Nat
    BY <2>2 DEF TableInv, CountInv, TableTypes
  <2> QED BY <2>2, <2>4, <2>5
<1>2. Table!OpenersMeet
  BY <1>1 DEF Table!OpenersMeet, TableInv, NamesApart
<1>3. Table!UsableWhileOpen
  BY <1>1 DEF Table!UsableWhileOpen
<1>4. Table!CountIsOpeners
  <2>1. ASSUME \A p \in Tasks : at[p] \in {"out", "open", "lost"},
               NEW b \in Boxes
        PROVE  count[b] = Cardinality(Table!OpenOf(b))
    <3>1. Table!OpenOf(b) = Has(b)
      BY <2>1 DEF Table!OpenOf, Has
    <3> QED BY <3>1 DEF TableInv, CountInv
  <2>2. \A S : Table!Cardinality(S) = Cardinality(S)
    BY Zenon DEF Table!Cardinality, Cardinality
  <2> QED BY <2>1, <2>2 DEF Table!CountIsOpeners, Boxes, Table!Boxes
<1> QED BY <1>2, <1>3, <1>4 DEF OpenersMeet

-----------------------------------------------------------------------------
(* A mailbox in use                                                        *)

Ops == {"send", "recv"}

Places == {"out", "down", "waiting", "acquire", "blocked", "first", "second",
           "release", "up"}

InMutex(p) == pc[p] \in {"first", "second", "release"}

\* Exclusive, task by task.
MutexInv ==
  /\ \A p, q \in Tasks : InMutex(p) /\ InMutex(q) => p = q
  /\ lock = "LOCKED" <=> \E p \in Tasks : InMutex(p)

\* The queues of the semaphores.
WaitInv ==
  \A o \in Ops :
    /\ \A i \in 1..Len(waiting[o]) :
         pc[waiting[o][i]] = "waiting" /\ op[waiting[o][i]] = o
    /\ \A i, j \in 1..Len(waiting[o]) : waiting[o][i] = waiting[o][j] => i = j

\* The tasks between the two statements inside the mutex.
Between == At({"second"})

IInv ==
  /\ TypeOK
  /\ MutexInv
  /\ WaitInv
  /\ TokenAccount
  /\ PtrCounts

-----------------------------------------------------------------------------
(* Counting                                                                *)

LEMMA SetsFinite ==
  ASSUME FiniteFacts
  PROVE  /\ IsFiniteSet(Holders) /\ IsFiniteSet(Counted) /\ IsFiniteSet(Between)
         /\ Cardinality(Holders) \in Nat
         /\ Cardinality(Counted) \in Nat
         /\ Cardinality(Between) \in Nat
<1>1. Holders \in SUBSET Tasks /\ Counted \in SUBSET Tasks /\ Between \in SUBSET Tasks
  BY DEF Holders, Counted, Between, At
<1>2. IsFiniteSet(Tasks)
  BY MailboxAssumption
<1>3. IsFiniteSet(Holders) /\ IsFiniteSet(Counted) /\ IsFiniteSet(Between)
  BY <1>1, <1>2, SizeOfPart
<1> QED
  BY <1>3, SizeIsNat

LEMMA AddOne ==
  ASSUME FiniteFacts, NEW S, NEW T, NEW x, IsFiniteSet(S), x \notin S, T = S \cup {x}
  PROVE  Cardinality(T) = Cardinality(S) + 1
BY SizePlusOne

LEMMA DropOne ==
  ASSUME FiniteFacts, NEW S, NEW T, NEW x, IsFiniteSet(S), x \in S, T = S \ {x}
  PROVE  Cardinality(T) = Cardinality(S) - 1
BY SizeMinusOne

LEMMA SwapOne ==
  ASSUME FiniteFacts, NEW S, NEW T, NEW x, NEW y, IsFiniteSet(S), x \in S, y \notin S,
         T = (S \ {x}) \cup {y}
  PROVE  Cardinality(T) = Cardinality(S)
<1> DEFINE R == S \ {x}
<1>1. IsFiniteSet(R) /\ Cardinality(R) = Cardinality(S) - 1
  BY SizeMinusOne
<1>2. Cardinality(T) = Cardinality(R) + 1
  BY <1>1, SizePlusOne
<1>3. Cardinality(S) \in Nat
  BY SizeIsNat
<1> QED
  BY <1>1, <1>2, <1>3

\* A task at "second" is the only one.
LEMMA BetweenOne ==
  ASSUME FiniteFacts, MutexInv, NEW p \in Tasks, InMutex(p)
  PROVE  /\ pc[p] = "second" => Between = {p} /\ Cardinality(Between) = 1
         /\ pc[p] # "second" => Between = {} /\ Cardinality(Between) = 0
<1>1. \A q \in Tasks : pc[q] = "second" => q = p
  BY DEF MutexInv, InMutex
<1>2. pc[p] = "second" => Between = {p}
  BY <1>1 DEF Between, At
<1>3. pc[p] # "second" => Between = {}
  BY <1>1 DEF Between, At
<1> QED
  BY Zenon, <1>2, <1>3, SizeOfOne, SizeOfEmpty

\* A task with a token that is not counted leaves room for one more message.
LEMMA RoomForOne ==
  ASSUME FiniteFacts, IInv, NEW p \in Holders, p \notin Counted
  PROVE  Stored \in Nat /\ Stored + 1 <= N
<1>1. Counted \in SUBSET (Holders \ {p})
  BY DEF Counted, Holders, At
<1>2. IsFiniteSet(Holders \ {p}) /\ Cardinality(Holders \ {p}) = Cardinality(Holders) - 1
  BY SetsFinite, SizeMinusOne
<1>3. Cardinality(Counted) <= Cardinality(Holders) - 1
  BY <1>1, <1>2, SizeOfPart
<1>4. value["send"] \in Nat /\ value["recv"] \in Nat /\ N \in Nat
  BY MailboxAssumption DEF IInv, TypeOK, N
<1> QED
  BY <1>3, <1>4, SetsFinite DEF IInv, TokenAccount, Stored

\* Remainders.
LEMMA Remainders ==
  /\ N \in Nat /\ N > 0
  /\ \A k \in 0..N-1 : k % N = k /\ (k + N) % N = k
  /\ N % N = 0
BY MailboxAssumption DEF N

-----------------------------------------------------------------------------
(* The invariant is kept                                                   *)

LEMMA InitIInv ==
  ASSUME FiniteFacts, Init
  PROVE  IInv
<1>1. TypeOK
  <2>1. ptr \in 0..N-1 /\ lock \in {"LOCKED", "UNLOCKED"}
    BY Remainders DEF Init
  <2>2. msg \in [0..N-1 -> Messages] /\ buf \in [Tasks -> Messages]
    BY DEF Init
  <2>3. value \in [{"send", "recv"} -> Nat]
    BY Remainders DEF Init
  <2>4. waiting \in [{"send", "recv"} -> Seq(Tasks)]
    <3>1. <<>> \in Seq(Tasks)
      OBVIOUS
    <3>2. waiting = [o \in {"send", "recv"} |-> <<>>]
      BY DEF Init
    <3> QED
      BY <3>1, <3>2
  <2>5. pc \in [Tasks -> Places] /\ op \in [Tasks -> {"send", "recv"}]
    BY DEF Init, Places
  <2>6. calls \in [Tasks -> 0..MaxCalls]
    BY MailboxAssumption DEF Init
  <2> QED
    BY <2>1, <2>2, <2>3, <2>4, <2>5, <2>6 DEF TypeOK, Places
<1>2. Holders = {} /\ Counted = {} /\ Between = {}
  BY DEF Init, Holders, Counted, Between, At
<1>3. Cardinality(Holders) = 0 /\ Cardinality(Counted) = 0 /\ Cardinality(Between) = 0
  BY <1>2, SizeOfEmpty
<1>4. TokenAccount
  BY <1>3, Remainders DEF Init, TokenAccount
<1>5. PtrCounts
  BY <1>3, Remainders DEF Init, PtrCounts, Stored, Between
<1>6. MutexInv /\ WaitInv
  BY DEF Init, MutexInv, InMutex, WaitInv, Ops
<1> QED
  BY <1>1, <1>4, <1>5, <1>6 DEF IInv

\* A step that changes none of the three sets and no number.
LEMMA SameCounts ==
  ASSUME IInv, Holders' = Holders, Counted' = Counted, Between' = Between,
         value' = value, ptr' = ptr
  PROVE  (TokenAccount /\ PtrCounts)'
BY DEF IInv, TokenAccount, PtrCounts, Stored, Between

\* A step that takes no waiting task away from where it waits.
LEMMA WaitKept ==
  ASSUME IInv, waiting' = waiting,
         \A q \in Tasks : pc[q] = "waiting" => pc'[q] = "waiting" /\ op'[q] = op[q]
  PROVE  WaitInv'
<1> SUFFICES ASSUME NEW o \in Ops
             PROVE  /\ \A i \in 1..Len(waiting[o]) :
                         pc'[waiting[o][i]] = "waiting" /\ op'[waiting[o][i]] = o
                    /\ \A i, j \in 1..Len(waiting[o]) : waiting[o][i] = waiting[o][j] => i = j
  BY DEF WaitInv
<1>1. waiting[o] \in Seq(Tasks)
  BY DEF IInv, TypeOK, Ops
<1>2. \A i \in 1..Len(waiting[o]) : waiting[o][i] \in Tasks
  BY <1>1
<1> QED
  BY <1>2 DEF IInv, WaitInv

LEMMA CallIInv ==
  ASSUME IInv, NEW p \in Tasks, NEW o \in Ops, NEW m \in Messages, Call(p, o, m)
  PROVE  IInv' /\ Stored' = Stored
<1> USE DEF Ops
<1>1. TypeOK'
  <2>1. calls[p] \in 0..MaxCalls /\ calls[p] < MaxCalls /\ MaxCalls \in Nat
    BY MailboxAssumption DEF IInv, TypeOK, Call
  <2>2. calls' \in [Tasks -> 0..MaxCalls]
    BY <2>1 DEF IInv, TypeOK, Call
  <2>3. pc' \in [Tasks -> Places] /\ op' \in [Tasks -> {"send", "recv"}] /\ buf' \in [Tasks -> Messages]
    BY DEF IInv, TypeOK, Call, Places
  <2> QED
    BY <2>2, <2>3 DEF IInv, TypeOK, Call, Places
<1>2. \A q \in Tasks : q # p => pc'[q] = pc[q] /\ op'[q] = op[q]
  BY DEF IInv, TypeOK, Call
<1>3. pc[p] = "out" /\ pc'[p] = "down"
  BY DEF IInv, TypeOK, Call
<1>4. MutexInv'
  BY <1>2, <1>3 DEF IInv, MutexInv, InMutex, Call
<1>5. WaitInv'
  BY <1>2, <1>3, WaitKept DEF Call
<1>6. Holders' = Holders /\ Counted' = Counted /\ Between' = Between
  BY <1>2, <1>3 DEF Holders, Counted, Between, At
<1> QED
  BY <1>1, <1>4, <1>5, <1>6, SameCounts DEF IInv, Call, Stored

LEMMA DownIInv ==
  ASSUME FiniteFacts, IInv, NEW p \in Tasks, Down(p)
  PROVE  IInv' /\ Stored' = Stored
<1>0. op[p] \in Ops /\ pc[p] = "down" /\ op' = op /\ lock' = lock /\ ptr' = ptr
  BY DEF IInv, TypeOK, Down, Ops
<1>1. CASE value[op[p]] = 0
  <2>1. /\ waiting' = [waiting EXCEPT ![op[p]] = Append(@, p)]
        /\ pc' = [pc EXCEPT ![p] = "waiting"]
        /\ value' = value
    BY <1>1 DEF Down
  <2>2. /\ \A q \in Tasks : q # p => pc'[q] = pc[q]
        /\ pc'[p] = "waiting"
    BY <2>1 DEF IInv, TypeOK
  <2>3. TypeOK'
    BY <1>0, <2>1 DEF IInv, TypeOK, Down, Ops
  <2>4. MutexInv'
    BY <1>0, <2>2 DEF IInv, MutexInv, InMutex
  <2>5. WaitInv'
    <3> SUFFICES ASSUME NEW o \in Ops
                 PROVE  /\ \A i \in 1..Len(waiting'[o]) :
                             pc'[waiting'[o][i]] = "waiting" /\ op[waiting'[o][i]] = o
                        /\ \A i, j \in 1..Len(waiting'[o]) :
                             waiting'[o][i] = waiting'[o][j] => i = j
      BY <1>0 DEF WaitInv
    <3>1. waiting[o] \in Seq(Tasks) /\ \A i \in 1..Len(waiting[o]) :
             /\ waiting[o][i] \in Tasks /\ waiting[o][i] # p
             /\ pc'[waiting[o][i]] = "waiting" /\ op[waiting[o][i]] = o
      BY <1>0, <2>2 DEF IInv, TypeOK, WaitInv, Ops
    <3>2. CASE o # op[p]
      <4>1. waiting'[o] = waiting[o]
        BY <2>1, <3>2 DEF IInv, TypeOK, Ops
      <4> QED
        BY <3>1, <4>1 DEF IInv, WaitInv
    <3>3. CASE o = op[p]
      <4>1. waiting'[o] = Append(waiting[o], p)
        BY <2>1, <3>3 DEF IInv, TypeOK, Ops
      <4>2. /\ Len(waiting'[o]) = Len(waiting[o]) + 1
            /\ \A i \in 1..Len(waiting[o]) : waiting'[o][i] = waiting[o][i]
            /\ waiting'[o][Len(waiting[o]) + 1] = p
        BY <3>1, <4>1
      <4>3. \A i, j \in 1..Len(waiting[o]) : waiting[o][i] = waiting[o][j] => i = j
        BY DEF IInv, WaitInv
      <4>4. \A i \in 1..Len(waiting'[o]) : i \in 1..Len(waiting[o]) \/ i = Len(waiting[o]) + 1
        BY <3>1, <4>2
      <4>5. \A i \in 1..Len(waiting'[o]) :
               pc'[waiting'[o][i]] = "waiting" /\ op[waiting'[o][i]] = o
        <5> SUFFICES ASSUME NEW i \in 1..Len(waiting'[o])
                     PROVE  pc'[waiting'[o][i]] = "waiting" /\ op[waiting'[o][i]] = o
          OBVIOUS
        <5>1. CASE i \in 1..Len(waiting[o])
          BY <3>1, <4>2, <5>1
        <5>2. CASE i = Len(waiting[o]) + 1
          BY <2>2, <3>3, <4>2, <5>2
        <5> QED
          BY <4>4, <5>1, <5>2
      <4>6. \A i, j \in 1..Len(waiting'[o]) : waiting'[o][i] = waiting'[o][j] => i = j
        BY <3>1, <4>2, <4>3, <4>4
      <4> QED
        BY <4>5, <4>6
    <3> QED
      BY <3>2, <3>3
  <2>6. Holders' = Holders /\ Counted' = Counted /\ Between' = Between
    BY <1>0, <2>2 DEF Holders, Counted, Between, At
  <2> QED
    BY <1>0, <2>1, <2>3, <2>4, <2>5, <2>6, SameCounts DEF IInv, Stored
<1>2. CASE value[op[p]] # 0
  <2>1. /\ value' = [value EXCEPT ![op[p]] = @ - 1]
        /\ pc' = [pc EXCEPT ![p] = "acquire"]
        /\ waiting' = waiting
    BY <1>2 DEF Down
  <2>2. /\ \A q \in Tasks : q # p => pc'[q] = pc[q]
        /\ pc'[p] = "acquire"
    BY <2>1 DEF IInv, TypeOK
  <2>3. value \in [Ops -> Nat] /\ value' \in [Ops -> Nat] /\ value'[op[p]] = value[op[p]] - 1
        /\ \A o \in Ops : o # op[p] => value'[o] = value[o]
    BY <1>0, <1>2, <2>1 DEF IInv, TypeOK, Ops
  <2>4. TypeOK'
    BY <1>0, <2>1, <2>3 DEF IInv, TypeOK, Down, Ops
  <2>5. MutexInv'
    BY <1>0, <2>2 DEF IInv, MutexInv, InMutex
  <2>6. WaitInv'
    BY Zenon, <1>0, <2>1, <2>2, WaitKept
  <2>7. /\ Holders' = Holders \cup {p} /\ p \notin Holders
        /\ p \notin Counted /\ Between' = Between
        /\ op[p] = "send" => Counted' = Counted
        /\ op[p] = "recv" => Counted' = Counted \cup {p}
    BY Zenon, <1>0, <2>2 DEF Holders, Counted, Between, At
  <2>8. Cardinality(Holders') = Cardinality(Holders) + 1
    BY <2>7, SetsFinite, AddOne
  <2>9. op[p] = "recv" => Cardinality(Counted') = Cardinality(Counted) + 1
    BY <2>7, SetsFinite, AddOne
  <2>10. TokenAccount'
    BY <1>0, <2>3, <2>8, SetsFinite DEF IInv, TokenAccount, Ops
  <2>11. Stored' = Stored
    BY <1>0, <2>3, <2>7, <2>9, SetsFinite DEF Stored, Ops
  <2> QED
    BY <1>0, <2>4, <2>5, <2>6, <2>7, <2>10, <2>11 DEF IInv, PtrCounts, Between
<1> QED
  BY <1>1, <1>2

LEMMA AcquireIInv ==
  ASSUME IInv, NEW p \in Tasks, Acquire(p)
  PROVE  IInv' /\ Stored' = Stored
<1>0. /\ pc[p] = "acquire" /\ op' = op /\ waiting' = waiting /\ value' = value /\ ptr' = ptr
      /\ \A q \in Tasks : q # p => pc'[q] = pc[q]
      /\ pc'[p] = IF lock = "LOCKED" THEN "blocked" ELSE "first"
      /\ lock' = "LOCKED"
  BY DEF IInv, TypeOK, Acquire
<1>1. TypeOK'
  BY DEF IInv, TypeOK, Acquire
<1>2. MutexInv'
  BY <1>0 DEF IInv, MutexInv, InMutex
<1>3. WaitInv'
  BY <1>0, WaitKept
<1>4. Holders' = Holders /\ Counted' = Counted /\ Between' = Between
  BY <1>0 DEF Holders, Counted, Between, At
<1> QED
  BY <1>0, <1>1, <1>2, <1>3, <1>4, SameCounts DEF IInv, Stored

\* The messages in the mailbox before and after the statements in the mutex.
LEMMA InsideStored ==
  ASSUME FiniteFacts, IInv, NEW p \in Tasks, Inside(p)
  PROVE  /\ Stored \in Nat
         /\ pc[p] = "first" /\ op[p] = "send" => Stored' = Stored /\ Stored < N
         /\ pc[p] = "first" /\ op[p] = "recv" => Stored' = Stored - 1 /\ Stored' \in Nat
         /\ pc[p] = "second" /\ op[p] = "send" => Stored' = Stored + 1 /\ Stored < N
         /\ pc[p] = "second" /\ op[p] = "recv" => Stored' = Stored /\ Stored < N
<1>0. /\ op' = op /\ value' = value /\ value["recv"] \in Nat /\ N \in Nat
      /\ \A q \in Tasks : q # p => pc'[q] = pc[q]
      /\ pc'[p] = IF pc[p] = "first" THEN "second" ELSE "release"
      /\ pc[p] \in {"first", "second"} /\ op[p] \in Ops
  BY Remainders DEF IInv, TypeOK, Inside, Ops
<1>1. Stored \in Nat
  BY <1>0, SetsFinite DEF Stored
<1>2. ~(pc[p] = "first" /\ op[p] = "recv") => Stored < N
  <2>1. ~(pc[p] = "first" /\ op[p] = "recv") => p \in Holders /\ p \notin Counted
    BY <1>0 DEF Holders, Counted, At
  <2> QED
    BY <1>0, <1>1, <2>1, RoomForOne
<1>3. pc[p] = "first" /\ op[p] = "recv" => Stored' = Stored - 1 /\ Stored' \in Nat
  <2> SUFFICES ASSUME pc[p] = "first", op[p] = "recv"
               PROVE  Stored' = Stored - 1 /\ Stored' \in Nat
    OBVIOUS
  <2>1. Counted' = Counted \ {p} /\ p \in Counted
    BY <1>0 DEF Counted
  <2>2. Cardinality(Counted') = Cardinality(Counted) - 1
    BY <2>1, SetsFinite, DropOne
  <2>3. Cardinality(Counted) # 0
    BY <2>1, SetsFinite, SizeOfEmpty
  <2> QED
    BY <1>0, <2>2, <2>3, SetsFinite DEF Stored
<1>4. pc[p] = "second" /\ op[p] = "send" => Stored' = Stored + 1
  <2> SUFFICES ASSUME pc[p] = "second", op[p] = "send"
               PROVE  Stored' = Stored + 1
    OBVIOUS
  <2>1. Counted' = Counted \cup {p} /\ p \notin Counted
    BY <1>0 DEF Counted
  <2>2. Cardinality(Counted') = Cardinality(Counted) + 1
    BY <2>1, SetsFinite, AddOne
  <2> QED
    BY <1>0, <2>2, SetsFinite DEF Stored
<1>5. (pc[p] = "first" /\ op[p] = "send") \/ (pc[p] = "second" /\ op[p] = "recv") =>
        Stored' = Stored
  <2> SUFFICES ASSUME \/ pc[p] = "first" /\ op[p] = "send"
                      \/ pc[p] = "second" /\ op[p] = "recv"
               PROVE  Stored' = Stored
    OBVIOUS
  <2>1. Counted' = Counted
    BY <1>0 DEF Counted
  <2> QED
    BY <1>0, <2>1 DEF Stored
<1> QED
  BY <1>1, <1>2, <1>3, <1>4, <1>5

LEMMA InsideIInv ==
  ASSUME FiniteFacts, IInv, NEW p \in Tasks, Inside(p)
  PROVE  IInv'
<1>0. /\ InMutex(p) /\ op' = op /\ waiting' = waiting /\ value' = value /\ lock' = lock
      /\ \A q \in Tasks : q # p => pc'[q] = pc[q]
      /\ pc'[p] = IF pc[p] = "first" THEN "second" ELSE "release"
      /\ pc[p] \in {"first", "second"} /\ op[p] \in Ops
  BY DEF IInv, TypeOK, Inside, InMutex, Ops
<1>1. TypeOK'
  <2>1. (ptr + 1) % N \in 0..N-1 /\ (ptr + N - 1) % N \in 0..N-1 /\ ptr \in 0..N-1
    BY Remainders DEF IInv, TypeOK
  <2>2. ptr' \in 0..N-1
    BY <2>1 DEF Inside, First, Second
  <2>3. msg' \in [0..N-1 -> Messages]
    BY <2>1 DEF IInv, TypeOK, Inside, First, Second
  <2>4. buf' \in [Tasks -> Messages]
    BY Zenon, <2>1 DEF IInv, TypeOK, Inside, First, Second
  <2>5. pc' \in [Tasks -> Places]
    BY Zenon DEF IInv, TypeOK, Inside, Places
  <2> QED
    BY <1>0, <2>2, <2>3, <2>4, <2>5 DEF IInv, TypeOK, Inside, Places
<1>2. MutexInv'
  BY <1>0 DEF IInv, MutexInv, InMutex
<1>3. WaitInv'
  BY Zenon, <1>0, WaitKept DEF InMutex
<1>4. Holders' = Holders
  BY <1>0 DEF Holders, At
<1>5. TokenAccount'
  BY <1>0, <1>4 DEF IInv, TokenAccount
<1>6. /\ pc[p] = "second" => Cardinality(Between) = 1 /\ Cardinality(Between') = 0
      /\ pc[p] = "first" => Cardinality(Between) = 0 /\ Cardinality(Between') = 1
  <2>1. /\ pc[p] = "second" => Between = {p} /\ Between' = {}
        /\ pc[p] = "first" => Between = {} /\ Between' = {p}
    BY <1>0 DEF IInv, MutexInv, InMutex, Between, At
  <2> QED
    BY <2>1, SizeOfOne, SizeOfEmpty
<1>7. PtrCounts'
  <2>0. ptr = (Stored + Cardinality(Between)) % N /\ Stored \in Nat /\ N \in Nat /\ N > 0
    BY SetsFinite, Remainders DEF IInv, PtrCounts, Between, Stored, TypeOK
  <2>1. CASE pc[p] = "first" /\ op[p] = "send"
    <3>1. ptr' = (ptr + 1) % N
      BY <1>0, <2>1 DEF Inside, First
    <3>3. Stored' = Stored
      BY <2>1, InsideStored
    <3>4. Stored \in 0..N-1
      BY <2>0, <2>1, InsideStored
    <3>5. ptr = Stored
      BY <1>6, <2>0, <2>1, <3>4, Remainders
    <3> QED
      BY <1>6, <2>0, <2>1, <3>1, <3>3, <3>5 DEF PtrCounts, Between
  <2>2. CASE pc[p] = "first" /\ op[p] = "recv"
    <3>1. ptr' = ptr
      BY <1>0, <2>2 DEF Inside, First
    <3>3. Stored' = Stored - 1
      BY <2>2, InsideStored
    <3> QED
      BY <1>6, <2>0, <2>2, <3>1, <3>3 DEF PtrCounts, Between
  <2>3. CASE pc[p] = "second" /\ op[p] = "send"
    <3>1. ptr' = ptr
      BY <1>0, <2>3 DEF Inside, Second
    <3>3. Stored' = Stored + 1
      BY <2>3, InsideStored
    <3> QED
      BY <1>6, <2>0, <2>3, <3>1, <3>3 DEF PtrCounts, Between
  <2>4. CASE pc[p] = "second" /\ op[p] = "recv"
    <3>1. ptr' = (ptr + N - 1) % N
      BY <1>0, <2>4 DEF Inside, Second
    <3>3. Stored' = Stored
      BY <2>4, InsideStored
    <3>4. Stored \in 0..N-1
      BY <2>0, <2>4, InsideStored
    <3>5. ptr = (Stored + 1) % N
      BY <1>6, <2>0, <2>4
    <3>6. CASE Stored + 1 = N
      <4>1. ptr = 0
        BY <3>5, <3>6, Remainders
      <4> QED
        BY <1>6, <2>0, <2>4, <3>1, <3>3, <3>6, <4>1 DEF PtrCounts, Between
    <3>7. CASE Stored + 1 # N
      <4>1. ptr = Stored + 1
        BY <2>0, <3>4, <3>5, <3>7, Remainders
      <4>2. ptr' = (Stored + N) % N
        BY <2>0, <3>1, <4>1
      <4>3. ptr' = Stored
        BY <3>4, <4>2, Remainders
      <4> QED
        BY <1>6, <2>0, <2>4, <3>3, <3>4, <4>3, Remainders DEF PtrCounts, Between
    <3> QED
      BY <3>6, <3>7
  <2> QED
    BY <1>0, <2>1, <2>2, <2>3, <2>4 DEF Ops
<1> QED
  BY <1>1, <1>2, <1>3, <1>5, <1>7 DEF IInv

LEMMA ReleaseIInv ==
  ASSUME IInv, NEW p \in Tasks, Release(p)
  PROVE  IInv' /\ Stored' = Stored
<1>0. /\ pc[p] = "release" /\ InMutex(p) /\ lock' = "UNLOCKED"
      /\ op' = op /\ waiting' = waiting /\ value' = value /\ ptr' = ptr
      /\ \A q \in Tasks : q # p =>
            pc'[q] = IF pc[q] = "blocked" THEN "acquire" ELSE pc[q]
      /\ pc'[p] = "up"
  BY DEF IInv, TypeOK, Release, InMutex, Unblocked
<1>1. TypeOK'
  <2>1. pc' \in [Tasks -> Places]
    BY DEF IInv, TypeOK, Release, Unblocked, Places
  <2> QED
    BY <2>1 DEF IInv, TypeOK, Release, Places
<1>2. MutexInv'
  BY <1>0 DEF IInv, MutexInv, InMutex
<1>3. WaitInv'
  BY <1>0, WaitKept
<1>4. Holders' = Holders /\ Counted' = Counted /\ Between' = Between
  BY <1>0 DEF Holders, Counted, Between, At
<1> QED
  BY <1>0, <1>1, <1>2, <1>3, <1>4, SameCounts DEF IInv, Stored

LEMMA Moved ==
  ASSUME NEW a \in Nat, NEW b \in Nat, NEW c \in Nat
  PROVE  /\ a + (b + 1) + (c - 1) = a + b + c
         /\ (a + 1) + b + (c - 1) = a + b + c
OBVIOUS

LEMMA UpIInv ==
  ASSUME FiniteFacts, IInv, NEW p \in Tasks, Up(p)
  PROVE  IInv' /\ Stored' = Stored
<1> DEFINE o == Other(op[p])
<1>0. /\ op[p] \in Ops /\ o \in Ops /\ o # op[p]
      /\ pc[p] = "up" /\ op' = op /\ lock' = lock /\ ptr' = ptr
      /\ (op[p] = "send" /\ o = "recv") \/ (op[p] = "recv" /\ o = "send")
      /\ waiting[o] \in Seq(Tasks)
      /\ value["send"] \in Nat /\ value["recv"] \in Nat
  BY DEF IInv, TypeOK, Up, Ops, Other
<1> HIDE DEF o
<1>1. CASE waiting[o] = <<>>
  <2>1. /\ value' = [value EXCEPT ![o] = @ + 1]
        /\ pc' = [pc EXCEPT ![p] = "out"]
        /\ waiting' = waiting
    BY <1>1 DEF Up, o
  <2>2. /\ \A q \in Tasks : q # p => pc'[q] = pc[q]
        /\ pc'[p] = "out"
    BY <2>1 DEF IInv, TypeOK
  <2>3. /\ value' \in [Ops -> Nat] /\ value'[o] = value[o] + 1
        /\ value'[op[p]] = value[op[p]]
    BY <1>0, <2>1 DEF IInv, TypeOK, Ops
  <2>4. TypeOK'
    BY Zenon, <1>0, <2>1, <2>3 DEF IInv, TypeOK, Up, Ops
  <2>5. MutexInv'
    BY <1>0, <2>2 DEF IInv, MutexInv, InMutex
  <2>6. WaitInv'
    BY <1>0, <2>1, <2>2, WaitKept
  <2>7. /\ Holders' = Holders \ {p} /\ p \in Holders /\ Between' = Between
        /\ op[p] = "send" => Counted' = Counted \ {p} /\ p \in Counted
        /\ op[p] = "recv" => Counted' = Counted
    BY <1>0, <2>2 DEF Holders, Counted, Between, At
  <2>8. Cardinality(Holders') = Cardinality(Holders) - 1
    BY <2>7, SetsFinite, DropOne
  <2>9. op[p] = "send" => Cardinality(Counted') = Cardinality(Counted) - 1
    BY <2>7, SetsFinite, DropOne
  <2>a. /\ op[p] = "send" => value'["recv"] = value["recv"] + 1 /\ value'["send"] = value["send"]
        /\ op[p] = "recv" => value'["send"] = value["send"] + 1 /\ value'["recv"] = value["recv"]
    BY <1>0, <2>3 DEF Ops
  <2>10. TokenAccount'
    <3>0. value["send"] + value["recv"] + Cardinality(Holders) = N
      BY DEF IInv, TokenAccount
    <3>1. CASE op[p] = "send"
      <4>2. value'["recv"] = value["recv"] + 1 /\ value'["send"] = value["send"]
        BY <2>a, <3>1
      <4>3. value["send"] + (value["recv"] + 1) + (Cardinality(Holders) - 1) = N
        BY Zenon, <1>0, <3>0, Moved, SetsFinite
      <4>1. value'["send"] + value'["recv"] + Cardinality(Holders') = N
        BY <2>8, <4>2, <4>3, Zenon
      <4> QED
        BY <4>1 DEF TokenAccount, N
    <3>2. CASE op[p] = "recv"
      <4>2. value'["send"] = value["send"] + 1 /\ value'["recv"] = value["recv"]
        BY <2>a, <3>2
      <4>3. (value["send"] + 1) + value["recv"] + (Cardinality(Holders) - 1) = N
        BY Zenon, <1>0, <3>0, Moved, SetsFinite
      <4>1. value'["send"] + value'["recv"] + Cardinality(Holders') = N
        BY <2>8, <4>2, <4>3, Zenon
      <4> QED
        BY <4>1 DEF TokenAccount, N
    <3> QED
      BY <1>0, <3>1, <3>2 DEF Ops
  <2>11. Stored' = Stored
    <3>1. CASE op[p] = "send"
      BY <1>0, <2>a, <2>9, <3>1, SetsFinite DEF Stored
    <3>2. CASE op[p] = "recv"
      BY <2>a, <2>7, <3>2 DEF Stored
    <3> QED
      BY <1>0, <3>1, <3>2 DEF Ops
  <2> QED
    BY <1>0, <2>4, <2>5, <2>6, <2>7, <2>10, <2>11 DEF IInv, PtrCounts, Between
<1>2. CASE waiting[o] # <<>>
  <2> DEFINE h == Head(waiting[o])
  <2>1. /\ waiting' = [waiting EXCEPT ![o] = Tail(@)]
        /\ pc' = [pc EXCEPT ![p] = "out", ![h] = "acquire"]
        /\ value' = value
    BY <1>2 DEF Up, o
  <2>2. /\ h = waiting[o][1] /\ Len(waiting[o]) >= 1 /\ h \in Tasks
        /\ Len(waiting[o]) \in Nat
    BY <1>0, <1>2
  <2>3. pc[h] = "waiting" /\ op[h] = o /\ h # p
    BY <1>0, <2>2 DEF IInv, WaitInv
  <2> HIDE DEF h
  <2>4. /\ \A q \in Tasks : q # p /\ q # h => pc'[q] = pc[q]
        /\ pc'[p] = "out" /\ pc'[h] = "acquire"
    BY <2>1, <2>2, <2>3 DEF IInv, TypeOK
  <2>5. TypeOK'
    <3>1. waiting' \in [Ops -> Seq(Tasks)]
      <4>1. Tail(waiting[o]) \in Seq(Tasks)
        BY <1>0, <1>2
      <4> QED
        BY <1>0, <2>1, <4>1 DEF IInv, TypeOK, Ops
    <3>2. pc' \in [Tasks -> Places]
      BY Zenon, <2>1 DEF IInv, TypeOK, Places
    <3> QED
      BY Zenon, <2>1, <3>1, <3>2 DEF IInv, TypeOK, Up, Ops, Places
  <2>6. MutexInv'
    BY Zenon, <1>0, <2>2, <2>3, <2>4 DEF IInv, MutexInv, InMutex
  <2>7. WaitInv'
    <3> SUFFICES ASSUME NEW x \in Ops
                 PROVE  /\ \A i \in 1..Len(waiting'[x]) :
                             pc'[waiting'[x][i]] = "waiting" /\ op[waiting'[x][i]] = x
                        /\ \A i, j \in 1..Len(waiting'[x]) :
                             waiting'[x][i] = waiting'[x][j] => i = j
      BY Zenon, <1>0 DEF WaitInv
    <3>1. waiting[x] \in Seq(Tasks) /\ \A i \in 1..Len(waiting[x]) :
             /\ waiting[x][i] \in Tasks
             /\ pc[waiting[x][i]] = "waiting" /\ op[waiting[x][i]] = x
      BY DEF IInv, TypeOK, WaitInv, Ops
    <3>2. \A i, j \in 1..Len(waiting[x]) : waiting[x][i] = waiting[x][j] => i = j
      BY DEF IInv, WaitInv
    <3>3. CASE x # o
      <4>1. waiting'[x] = waiting[x]
        BY <2>1, <3>3 DEF IInv, TypeOK, Ops
      <4>2. \A i \in 1..Len(waiting[x]) : waiting[x][i] # p /\ waiting[x][i] # h
        BY <1>0, <2>3, <3>1, <3>3
      <4> QED
        BY <2>4, <3>1, <3>2, <4>1, <4>2
    <3>4. CASE x = o
      <4>1. waiting'[x] = Tail(waiting[x])
        BY <2>1, <3>4 DEF IInv, TypeOK, Ops
      <4>2. /\ Len(waiting'[x]) = Len(waiting[x]) - 1
            /\ \A i \in 1..Len(waiting'[x]) :
                  i + 1 \in 1..Len(waiting[x]) /\ waiting'[x][i] = waiting[x][i + 1]
        BY <1>2, <3>1, <3>4, <4>1
      <4>3. \A i \in 1..Len(waiting'[x]) : waiting'[x][i] # p /\ waiting'[x][i] # h
        <5> SUFFICES ASSUME NEW i \in 1..Len(waiting'[x])
                     PROVE  waiting'[x][i] # p /\ waiting'[x][i] # h
          OBVIOUS
        <5>1. i + 1 \in 1..Len(waiting[x]) /\ waiting'[x][i] = waiting[x][i + 1]
          BY <4>2
        <5>2. 1 \in 1..Len(waiting[x]) /\ i + 1 # 1
          BY <2>2, <3>4
        <5> QED
          BY <1>0, <2>2, <3>1, <3>2, <3>4, <5>1, <5>2
      <4>4. \A i \in 1..Len(waiting'[x]) :
               pc'[waiting'[x][i]] = "waiting" /\ op[waiting'[x][i]] = x
        BY <2>4, <3>1, <4>2, <4>3
      <4>5. \A i, j \in 1..Len(waiting'[x]) : waiting'[x][i] = waiting'[x][j] => i = j
        <5> SUFFICES ASSUME NEW i \in 1..Len(waiting'[x]), NEW j \in 1..Len(waiting'[x]),
                            waiting'[x][i] = waiting'[x][j]
                     PROVE  i = j
          OBVIOUS
        <5>1. waiting[x][i + 1] = waiting[x][j + 1]
          BY <4>2
        <5>2. i + 1 = j + 1
          BY <3>2, <4>2, <5>1
        <5>3. i \in Int /\ j \in Int
          BY <3>1, <4>2
        <5> QED
          BY <5>2, <5>3
      <4> QED
        BY <4>4, <4>5
    <3> QED
      BY Zenon, <3>3, <3>4
  <2>8. /\ Holders' = (Holders \ {p}) \cup {h} /\ p \in Holders /\ h \notin Holders
        /\ Between' = Between
    BY Zenon, <1>0, <2>2, <2>3, <2>4 DEF Holders, Between, At
  <2>9. /\ op[p] = "send" => /\ Counted' = (Counted \ {p}) \cup {h}
                             /\ p \in Counted /\ h \notin Counted
        /\ op[p] = "recv" => Counted' = Counted
    BY <1>0, <2>2, <2>3, <2>4 DEF Counted
  <2>10. Cardinality(Holders') = Cardinality(Holders)
    BY <2>8, SetsFinite, SwapOne
  <2>11. Cardinality(Counted') = Cardinality(Counted)
    BY Zenon, <1>0, <2>9, SetsFinite, SwapOne
  <2>12. TokenAccount' /\ PtrCounts'
    BY <1>0, <2>1, <2>8, <2>10, <2>11 DEF IInv, TokenAccount, PtrCounts, Stored, Between
  <2>13. Stored' = Stored
    BY Zenon, <2>1, <2>11 DEF Stored
  <2> QED
    BY <2>5, <2>6, <2>7, <2>12, <2>13 DEF IInv
<1> QED
  BY <1>1, <1>2

LEMMA NextIInv ==
  ASSUME FiniteFacts, IInv, [Next]_vars
  PROVE  IInv'
<1>1. CASE UNCHANGED vars
  <2>1. WaitInv'
    BY <1>1, WaitKept DEF vars
  <2> QED
    BY <1>1, <2>1 DEF vars, IInv, TypeOK, MutexInv, InMutex, TokenAccount, PtrCounts, Stored,
       Holders, Counted, At
<1>2. CASE Next
  BY Zenon, <1>2, CallIInv, DownIInv, AcquireIInv, InsideIInv, ReleaseIInv, UpIInv
     DEF Next, Step, Ops
<1> QED
  BY <1>1, <1>2

-----------------------------------------------------------------------------
(* Nobody waits for a token that is there                                  *)

WaitsForToken == \A o \in Ops : waiting[o] # <<>> => value[o] = 0

\* semaphore_down waits only at zero, and semaphore_up gives its token to a
\* waiter rather than to the value.
LEMMA WaitsForTokenInit ==
  ASSUME Init
  PROVE  WaitsForToken
BY DEF Init, WaitsForToken, Ops

LEMMA WaitsForTokenKept ==
  ASSUME IInv, WaitsForToken, [Next]_vars
  PROVE  WaitsForToken'
<1>1. waiting \in [Ops -> Seq(Tasks)] /\ value \in [Ops -> Nat] /\ op \in [Tasks -> Ops]
  BY DEF IInv, TypeOK, Ops
<1>2. CASE UNCHANGED <<value, waiting>>
  BY <1>2 DEF WaitsForToken
<1>3. ASSUME NEW p \in Tasks, Down(p) PROVE WaitsForToken'
  BY <1>1, <1>3 DEF WaitsForToken, Down
<1>4. ASSUME NEW p \in Tasks, Up(p) PROVE WaitsForToken'
  <2> DEFINE o == Other(op[p])
  <2>1. o \in Ops
    BY DEF Ops, Other
  <2>2. \/ waiting[o] = <<>> /\ waiting' = waiting /\ value' = [value EXCEPT ![o] = @ + 1]
        \/ waiting[o] # <<>> /\ value' = value /\ waiting' = [waiting EXCEPT ![o] = Tail(@)]
    BY Zenon, <1>4 DEF Up
  <2> HIDE DEF o
  <2> QED
    BY <1>1, <2>1, <2>2 DEF WaitsForToken
<1>5. CASE Next
  BY <1>2, <1>3, <1>4, <1>5 DEF Next, Step, Call, Acquire, Inside, Release
<1> QED
  BY <1>2, <1>5 DEF vars

\* With no call under way every place is a token of send or of recv.
LEMMA RestIsEmptyOrFull ==
  ASSUME FiniteFacts, IInv, WaitsForToken
  PROVE  NoMessageStuck
<1> SUFFICES ASSUME Holders = {}
             PROVE  /\ waiting["recv"] # <<>> => ptr = 0
                    /\ waiting["send"] # <<>> => ptr = 0
  BY DEF NoMessageStuck
<1>1. Counted = {} /\ Between = {}
  BY DEF Holders, Counted, Between, At
<1>2. Cardinality(Holders) = 0 /\ Cardinality(Counted) = 0 /\ Cardinality(Between) = 0
  BY <1>1, SizeOfEmpty
<1>3. value["send"] \in Nat /\ value["recv"] \in Nat
  BY DEF IInv, TypeOK
<1>4. ptr = value["recv"] % N
  BY <1>2, <1>3 DEF IInv, PtrCounts, Stored, Between
<1>5. value["send"] + value["recv"] = N
  BY <1>2, <1>3 DEF IInv, TokenAccount
<1>6. waiting["recv"] # <<>> => value["recv"] = 0
  BY DEF WaitsForToken, Ops
<1>7. waiting["send"] # <<>> => value["recv"] = N
  BY <1>3, <1>5 DEF WaitsForToken, Ops
<1> QED
  BY <1>4, <1>6, <1>7, Remainders

-----------------------------------------------------------------------------
(* The mailbox implements the bounded stack of module MailboxStack.  The   *)
(* stack's messages lie at positions 1, 2, ... of msg, the one after the   *)
(* last position being position 0.                                         *)

Phase(place, o) ==
  IF place = "out" THEN "out"
  ELSE IF place \in {"release", "up"} \/ (place = "second" /\ o = "recv") THEN "done"
  ELSE "todo"

\* The phase of one task.
LEMMA PhaseOf ==
  /\ phaseOf = [q \in Tasks |-> Phase(pc[q], op[q])]
  /\ phaseOf' = [q \in Tasks |-> Phase(pc'[q], op'[q])]
BY DEF phaseOf, Phase

LEMMA PhaseSame ==
  ASSUME \A q \in Tasks : Phase(pc'[q], op'[q]) = Phase(pc[q], op[q])
  PROVE  phaseOf' = phaseOf
BY PhaseOf

LEMMA PhaseChange ==
  ASSUME NEW p \in Tasks, NEW f, Phase(pc'[p], op'[p]) = f,
         \A q \in Tasks \ {p} : Phase(pc'[q], op'[q]) = Phase(pc[q], op[q])
  PROVE  phaseOf' = [phaseOf EXCEPT ![p] = f] /\ phaseOf[p] = Phase(pc[p], op[p])
BY PhaseOf

\* Positions of different messages are different.
LEMMA Positions ==
  /\ \A k \in 1..N : k % N \in 0..N-1
  /\ \A j, k \in 1..N : j % N = k % N => j = k
<1>1. \A k \in 1..N : k % N = IF k = N THEN 0 ELSE k
  BY Remainders
<1> QED
  BY <1>1, Remainders

\* The stack is a sequence of Stored messages.
LEMMA StackSeq ==
  ASSUME TypeOK, Stored \in 0..N
  PROVE  /\ stackOf \in Seq(Messages)
         /\ Len(stackOf) = Stored
         /\ \A k \in 1..Stored : stackOf[k] = msg[k % N]
<1>1. \A k \in 1..Stored : k % N \in 0..N-1
  BY Positions, Remainders
<1>2. \A k \in 1..Stored : msg[k % N] \in Messages
  BY <1>1 DEF TypeOK
<1>3. stackOf \in [1..Stored -> Messages]
  BY <1>2 DEF stackOf
<1>4. stackOf \in Seq(Messages)
  BY <1>3, Remainders
<1>5. DOMAIN stackOf = 1..Stored /\ DOMAIN stackOf = 1..Len(stackOf) /\ Len(stackOf) \in Nat
  BY <1>3, <1>4
<1>6. Len(stackOf) = Stored
  BY <1>5
<1> QED
  BY <1>4, <1>6 DEF stackOf

LEMMA StoredBound ==
  ASSUME FiniteFacts, IInv
  PROVE  Stored \in 0..N
<1>1. Counted \in SUBSET Holders
  BY DEF Counted, Holders, At
<1>2. Cardinality(Counted) <= Cardinality(Holders)
  BY <1>1, SetsFinite, SizeOfPart
<1>3. value["send"] \in Nat /\ value["recv"] \in Nat /\ N \in Nat
  BY Remainders DEF IInv, TypeOK
<1>4. value["send"] + value["recv"] + Cardinality(Holders) = N
  BY DEF IInv, TokenAccount
<1> QED
  BY <1>2, <1>3, <1>4, SetsFinite DEF Stored

LEMMA StackSame ==
  ASSUME Stored' = Stored, msg' = msg
  PROVE  stackOf' = stackOf
BY DEF stackOf, N

\* The copy of mbox_send pushes.
LEMMA PushStep ==
  ASSUME FiniteFacts, IInv, IInv', NEW p \in Tasks, Inside(p), pc[p] = "second", op[p] = "send"
  PROVE  Stack!Push(p)
<1>0. /\ op' = op /\ buf' = buf /\ msg' = [msg EXCEPT ![ptr] = buf[p]]
      /\ \A q \in Tasks : q # p => pc'[q] = pc[q]
      /\ pc'[p] = "release" /\ buf[p] \in Messages
      /\ msg \in [0..N-1 -> Messages] /\ ptr \in 0..N-1
  BY Zenon DEF IInv, TypeOK, Inside, Second
<1>1. Stored \in Nat /\ Stored' = Stored + 1 /\ Stored < N /\ N \in Nat /\ N > 0
  BY InsideStored, Remainders
<1>2. ptr = (Stored + 1) % N
  <2>1. Cardinality(At({"second"})) = 1
    BY BetweenOne DEF IInv, InMutex, Between
  <2> QED
    BY <2>1 DEF IInv, PtrCounts
<1>3. /\ stackOf \in Seq(Messages) /\ Len(stackOf) = Stored
      /\ \A k \in 1..Stored : stackOf[k] = msg[k % N]
  BY <1>1, StackSeq DEF IInv
<1>4. /\ (stackOf') \in Seq(Messages) /\ Len(stackOf') = Stored + 1
      /\ \A k \in 1..Stored + 1 : (stackOf')[k] = (msg')[k % N]
  <2>1. TypeOK' /\ Stored' \in 0..N
    BY <1>1 DEF IInv
  <2>2. \A k \in 1..Stored' : k % N \in 0..N-1
    BY <1>1, Positions
  <2>3. stackOf' = [k \in 1..Stored' |-> (msg')[k % N]]
    BY DEF stackOf, N
  <2>4. \A k \in 1..Stored' : (msg')[k % N] \in Messages
    BY <2>1, <2>2 DEF TypeOK, N
  <2>5. (stackOf') \in [1..Stored' -> Messages]
    BY <2>3, <2>4
  <2>6. (stackOf') \in Seq(Messages)
    BY <1>1, <2>5
  <2>7. Len(stackOf') = Stored'
    BY <1>1, <2>5, <2>6
  <2> QED
    BY <1>1, <2>3, <2>6, <2>7
<1>5. \A k \in 1..Stored : (msg')[k % N] = msg[k % N]
  <2> SUFFICES ASSUME NEW k \in 1..Stored
               PROVE  (msg')[k % N] = msg[k % N]
    OBVIOUS
  <2>1. k \in 1..N /\ Stored + 1 \in 1..N /\ k # Stored + 1
    BY <1>1
  <2>2. k % N # ptr /\ k % N \in 0..N-1
    BY <1>2, <2>1, Positions
  <2> QED
    BY <1>0, <2>2
<1>6. (msg')[(Stored + 1) % N] = buf[p]
  BY <1>0, <1>2
<1>7. stackOf' = Append(stackOf, buf[p])
  <2>1. /\ Append(stackOf, buf[p]) \in Seq(Messages)
        /\ Len(Append(stackOf, buf[p])) = Stored + 1
        /\ \A k \in 1..Stored : Append(stackOf, buf[p])[k] = stackOf[k]
        /\ Append(stackOf, buf[p])[Stored + 1] = buf[p]
    BY <1>0, <1>1, <1>3
  <2>2. \A k \in 1..Stored + 1 : k \in 1..Stored \/ k = Stored + 1
    BY <1>1
  <2>3. \A k \in 1..Stored + 1 : (stackOf')[k] = Append(stackOf, buf[p])[k]
    BY Zenon, <1>3, <1>4, <1>5, <1>6, <2>1, <2>2
  <2> QED
    BY <1>4, <2>1, <2>3
<1>8. phaseOf[p] = "todo" /\ phaseOf' = [phaseOf EXCEPT ![p] = "done"]
  BY <1>0, PhaseChange DEF Phase
<1>9. Len(stackOf) < MAX_MBOX_LENGTH
  BY Zenon, <1>1, <1>3 DEF N
<1> QED
  BY Zenon, <1>0, <1>7, <1>8, <1>9 DEF Stack!Push

\* The read of mbox_recv pops.
LEMMA PopStep ==
  ASSUME FiniteFacts, IInv, NEW p \in Tasks, Inside(p), pc[p] = "first", op[p] = "recv"
  PROVE  Stack!Pop(p)
<1>0. /\ op' = op /\ msg' = msg /\ buf' = [buf EXCEPT ![p] = msg[ptr]]
      /\ \A q \in Tasks : q # p => pc'[q] = pc[q]
      /\ pc'[p] = "second"
  BY DEF IInv, TypeOK, Inside, First
<1>1. Stored \in Nat /\ Stored' = Stored - 1 /\ Stored' \in Nat /\ Stored \in 0..N /\ N \in Nat
  BY InsideStored, StoredBound, Remainders
<1>2. ptr = Stored % N
  <2>1. Cardinality(At({"second"})) = 0
    BY BetweenOne DEF IInv, InMutex, Between
  <2> QED
    BY <1>1, <2>1 DEF IInv, PtrCounts
<1>3. /\ stackOf \in Seq(Messages) /\ Len(stackOf) = Stored
      /\ \A k \in 1..Stored : stackOf[k] = msg[k % N]
  BY <1>1, StackSeq DEF IInv
<1>4. stackOf # <<>> /\ stackOf[Len(stackOf)] = msg[ptr]
  BY <1>1, <1>2, <1>3
<1>5. stackOf' = SubSeq(stackOf, 1, Len(stackOf) - 1)
  <2>1. stackOf' = [k \in 1..Stored - 1 |-> msg[k % N]]
    BY <1>0, <1>1 DEF stackOf, N
  <2>2. \A k \in 1..Stored - 1 : k \in 1..Stored
    BY <1>1
  <2>3. stackOf' = [k \in 1..Stored - 1 |-> stackOf[k]]
    BY <1>3, <2>1, <2>2
  <2>4. SubSeq(stackOf, 1, Stored - 1) = [k \in 1..Stored - 1 |-> stackOf[k]]
    BY <1>1, <1>3
  <2> QED
    BY <1>3, <2>3, <2>4
<1>6. phaseOf[p] = "todo" /\ phaseOf' = [phaseOf EXCEPT ![p] = "done"]
  BY <1>0, PhaseChange DEF Phase
<1> QED
  BY <1>0, <1>4, <1>5, <1>6 DEF Stack!Pop

\* The other statements inside the mutex change nothing of the stack.
LEMMA InsideStutters ==
  ASSUME FiniteFacts, IInv, NEW p \in Tasks, Inside(p),
         \/ pc[p] = "first" /\ op[p] = "send"
         \/ pc[p] = "second" /\ op[p] = "recv"
  PROVE  UNCHANGED <<stackOf, phaseOf, op, buf>>
<1>0. /\ op' = op /\ msg' = msg /\ buf' = buf
      /\ \A q \in Tasks : q # p => pc'[q] = pc[q]
      /\ pc'[p] = IF pc[p] = "first" THEN "second" ELSE "release"
  BY Zenon DEF IInv, TypeOK, Inside, First, Second
<1>1. stackOf' = stackOf
  BY <1>0, InsideStored, StackSame
<1>2. phaseOf' = phaseOf
  BY Zenon, <1>0, PhaseSame DEF Phase
<1> QED
  BY <1>0, <1>1, <1>2

\* A call begins.
LEMMA CallStep ==
  ASSUME IInv, NEW p \in Tasks, NEW o \in Ops, NEW m \in Messages, Call(p, o, m)
  PROVE  Stack!Call(p, o, m)
<1>0. /\ op' = [op EXCEPT ![p] = o] /\ msg' = msg
      /\ buf' = IF o = "send" THEN [buf EXCEPT ![p] = m] ELSE buf
      /\ \A q \in Tasks : q # p => pc'[q] = pc[q] /\ op'[q] = op[q]
      /\ pc[p] = "out" /\ pc'[p] = "down"
  BY Zenon DEF IInv, TypeOK, Call
<1>1. stackOf' = stackOf
  BY Zenon, <1>0, CallIInv, StackSame
<1>2. phaseOf[p] = "out" /\ phaseOf' = [phaseOf EXCEPT ![p] = "todo"]
  BY <1>0, PhaseChange DEF Phase
<1> QED
  BY <1>0, <1>1, <1>2 DEF Stack!Call

\* The semaphore and the mutex on the way in, and the mutex on the way out.
LEMMA WaitStutters ==
  ASSUME FiniteFacts, IInv, NEW p \in Tasks, Down(p) \/ Acquire(p) \/ Release(p)
  PROVE  UNCHANGED <<stackOf, phaseOf, op, buf>>
<1>0. op' = op /\ msg' = msg /\ buf' = buf
  BY Zenon DEF Down, Acquire, Release
<1>1. stackOf' = stackOf
  BY Zenon, <1>0, DownIInv, AcquireIInv, ReleaseIInv, StackSame
<1>2. \A q \in Tasks : Phase(pc'[q], op[q]) = Phase(pc[q], op[q])
  <2>1. CASE Down(p)
    BY <2>1 DEF IInv, TypeOK, Down, Phase
  <2>2. CASE Acquire(p)
    BY <2>2 DEF IInv, TypeOK, Acquire, Phase
  <2>3. CASE Release(p)
    BY <2>3 DEF IInv, TypeOK, Release, Unblocked, Phase
  <2> QED
    BY Zenon, <2>1, <2>2, <2>3
<1>3. phaseOf' = phaseOf
  BY <1>0, <1>2, PhaseSame
<1> QED
  BY Zenon, <1>0, <1>1, <1>3

\* The semaphore on the way out: the call returns.
LEMMA ReturnStep ==
  ASSUME FiniteFacts, IInv, NEW p \in Tasks, Up(p)
  PROVE  Stack!Return(p)
<1>0. op' = op /\ msg' = msg /\ buf' = buf /\ pc[p] = "up"
  BY DEF Up
<1>1. stackOf' = stackOf
  BY Zenon, <1>0, UpIInv, StackSame
<1>2. /\ pc'[p] = "out"
      /\ \A q \in Tasks \ {p} : pc'[q] = pc[q] \/ (pc[q] = "waiting" /\ pc'[q] = "acquire")
  <2> DEFINE o == Other(op[p])
  <2>1. o \in Ops /\ waiting[o] \in Seq(Tasks) /\ pc \in [Tasks -> Places]
    BY DEF IInv, TypeOK, Ops, Other, Places
  <2> HIDE DEF o
  <2>2. CASE waiting[o] = <<>>
    BY <2>1, <2>2 DEF Up, o
  <2>3. CASE waiting[o] # <<>>
    <3>1. pc' = [pc EXCEPT ![p] = "out", ![Head(waiting[o])] = "acquire"]
      BY Zenon, <2>3 DEF Up, o
    <3>2. Head(waiting[o]) = waiting[o][1] /\ 1 \in 1..Len(waiting[o])
      BY <2>1, <2>3
    <3>3. pc[Head(waiting[o])] = "waiting"
      BY <2>1, <3>2 DEF IInv, WaitInv
    <3> QED
      BY Zenon, <1>0, <2>1, <3>1, <3>3
  <2> QED
    BY <2>2, <2>3
<1>3. phaseOf[p] = "done" /\ phaseOf' = [phaseOf EXCEPT ![p] = "out"]
  BY <1>0, <1>2, PhaseChange DEF Phase
<1> QED
  BY <1>0, <1>1, <1>3 DEF Stack!Return

LEMMA InitRefines ==
  ASSUME FiniteFacts, Init
  PROVE  Stack!Init
<1>1. IInv
  BY InitIInv
<1>2. Counted = {}
  BY Zenon DEF Init, Counted
<1>3. Stored = 0
  BY <1>2, SizeOfEmpty DEF Init, Stored
<1>4. stackOf \in Seq(Messages) /\ Len(stackOf) = 0
  BY <1>1, <1>3, StackSeq, StoredBound DEF IInv
<1>5. stackOf = <<>>
  BY <1>4
<1>6. phaseOf = [p \in Tasks |-> "out"]
  BY DEF Init, phaseOf
<1> QED
  BY <1>5, <1>6 DEF Init, Stack!Init

LEMMA NextRefines ==
  ASSUME FiniteFacts, IInv, [Next]_vars
  PROVE  [Stack!Next]_(Stack!vars)
<1>0. IInv'
  BY NextIInv
<1>1. CASE UNCHANGED vars
  <2>1. stackOf' = stackOf
    BY Zenon, <1>1, StackSame DEF vars, Stored, Counted
  <2>2. phaseOf' = phaseOf
    BY <1>1, PhaseSame DEF vars
  <2> QED
    BY <1>1, <2>1, <2>2 DEF vars, Stack!vars
<1>2. CASE Next
  <2>1. PICK p \in Tasks : (\E o \in Ops, m \in Messages : Call(p, o, m)) \/ Step(p)
    BY <1>2 DEF Next, Ops
  <2>2. CASE \E o \in Ops, m \in Messages : Call(p, o, m)
    BY <2>2, CallStep DEF Stack!Next, Ops
  <2>3. CASE Down(p) \/ Acquire(p) \/ Release(p)
    BY <2>3, WaitStutters DEF Stack!vars
  <2>4. CASE Up(p)
    BY <2>4, ReturnStep DEF Stack!Next
  <2>5. CASE Inside(p)
    <3>1. pc[p] \in {"first", "second"} /\ op[p] \in Ops
      BY Zenon, <2>5 DEF Inside, IInv, TypeOK, Ops
    <3>2. CASE pc[p] = "second" /\ op[p] = "send"
      BY Zenon, <1>0, <2>5, <3>2, PushStep DEF Stack!Next
    <3>3. CASE pc[p] = "first" /\ op[p] = "recv"
      BY <2>5, <3>3, PopStep DEF Stack!Next
    <3>4. CASE (pc[p] = "first" /\ op[p] = "send") \/ (pc[p] = "second" /\ op[p] = "recv")
      BY <2>5, <3>4, InsideStutters DEF Stack!vars
    <3> QED
      BY <3>1, <3>2, <3>3, <3>4 DEF Ops
  <2> QED
    BY <2>1, <2>2, <2>3, <2>4, <2>5 DEF Step
<1> QED
  BY <1>1, <1>2

-----------------------------------------------------------------------------
(* The library, and the theorems                                           *)
LOCAL INSTANCE FiniteSetTheorems

LEMMA FiniteFactsHold == FiniteFacts
<1>1. \A S : IsFiniteSet(S) <=> IsFin(S)
  BY Zenon DEF IsFiniteSet, IsFin
<1>2. \A S : Cardinality(S) = SizeOf(S)
  BY Zenon DEF Cardinality, SizeOf
<1>3. \A S : IsFin(S) => SizeOf(S) \in Nat
  BY Zenon, <1>1, <1>2, FS_CardinalityType
<1>4. IsFin({}) /\ \A S : IsFin(S) => (SizeOf(S) = 0 <=> S = {})
  BY Zenon, <1>1, <1>2, FS_EmptySet
<1>5. \A x : IsFin({x}) /\ SizeOf({x}) = 1
  BY Zenon, <1>1, <1>2, FS_Singleton
<1>6. \A S, x : IsFin(S) =>
        /\ IsFin(S \cup {x})
        /\ SizeOf(S \cup {x}) = IF x \in S THEN SizeOf(S) ELSE SizeOf(S) + 1
  BY Zenon, <1>1, <1>2, FS_AddElement
<1>7. \A S, x : IsFin(S) =>
        /\ IsFin(S \ {x})
        /\ SizeOf(S \ {x}) = IF x \in S THEN SizeOf(S) - 1 ELSE SizeOf(S)
  BY Zenon, <1>1, <1>2, FS_RemoveElement
<1>8. \A S : IsFin(S) => \A T \in SUBSET S :
        IsFin(T) /\ SizeOf(T) <= SizeOf(S) /\ (SizeOf(S) = SizeOf(T) => S = T)
  BY Zenon, <1>1, <1>2, FS_Subset
<1> QED
  BY Zenon, <1>3, <1>4, <1>5, <1>6, <1>7, <1>8 DEF FiniteFacts

(* For any finite set of tasks, every length of the mailbox and every set  *)
(* of messages, as long as no task is killed: only one is between the lock *)
(* and the unlock of mbox_send and mbox_recv, the places of the mailbox    *)
(* are all accounted for, and ptr is the number of messages.               *)
THEOREM MailboxSafe == Spec => [](TypeOK /\ Exclusive /\ TokenAccount /\ PtrCounts)
<1>1. IInv => TypeOK /\ Exclusive /\ TokenAccount /\ PtrCounts
  BY DEF IInv, MutexInv, InMutex, Exclusive, At
<1>2. IInv /\ [Next]_vars => IInv'
  BY FiniteFactsHold, NextIInv
<1>3. Init => IInv
  BY FiniteFactsHold, InitIInv
<1> QED
  BY <1>1, <1>2, <1>3, PTL DEF Spec

(* Again for every instance in which no task is killed: when no call is    *)
(* under way, a task waits in mbox_recv only if the mailbox is empty, and  *)
(* in mbox_send only if it is full.  No message is left behind.            *)
THEOREM NothingLeftBehind == Spec => []NoMessageStuck
<1>1. Init => WaitsForToken
  BY WaitsForTokenInit
<1>2. IInv /\ WaitsForToken /\ [Next]_vars => IInv' /\ WaitsForToken'
  BY FiniteFactsHold, NextIInv, WaitsForTokenKept
<1>3. IInv /\ WaitsForToken => NoMessageStuck
  BY Zenon, FiniteFactsHold, RestIsEmptyOrFull
<1>4. Init => IInv
  BY FiniteFactsHold, InitIInv
<1> QED
  BY <1>1, <1>2, <1>3, <1>4, PTL DEF Spec

(* For any finite set of tasks, every length of the mailbox and every set  *)
(* of messages, if no task is killed, mbox_send and mbox_recv act as       *)
(* pushes and pops of one bounded stack, each at one moment between its    *)
(* call and its return: the copy into msg, and the read from it.           *)
THEOREM MailboxIsStack == Spec => ImplementsStack
<1>1. Init => Stack!Init
  BY FiniteFactsHold, InitRefines
<1>2. IInv /\ [Next]_vars => IInv' /\ [Stack!Next]_(Stack!vars)
  BY Zenon, FiniteFactsHold, NextIInv, NextRefines
<1>3. Init => IInv
  BY FiniteFactsHold, InitIInv
<1> QED
  BY <1>1, <1>2, <1>3, PTL DEF Spec, ImplementsStack, Stack!Spec

(* For any finite set of tasks, every set of names and every number of     *)
(* mailboxes, if the programs open and close one after the other: two that *)
(* have opened mailboxes share one exactly if they gave the same name to   *)
(* mbox_open, it has been set up, and between calls its count is the       *)
(* number of programs that have it open.                                   *)
THEOREM TableServesByName == Table!Spec => []OpenersMeet
<1>1. TableInv /\ [Table!Next]_(Table!vars) => TableInv'
  BY FiniteFactsHold, TableNext
<1>2. TableInv => OpenersMeet
  BY FiniteFactsHold, TableServes
<1>3. Table!Init => TableInv
  BY FiniteFactsHold, TableInit
<1> QED BY <1>1, <1>2, <1>3, PTL DEF Table!Spec

=============================================================================
