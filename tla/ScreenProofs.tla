---------------------------- MODULE ScreenProofs ----------------------------
(***************************************************************************)
(* Proofs about the screen of drivers/screen.c for every size of it, any   *)
(* processes and any texts: the terminal shows new_screen although only    *)
(* the cells that differ from old_screen are printed, and a process finds  *)
(* the cursor where it left it, inside the screen.                         *)
(*                                                                         *)
(* The invariant is on every state that screen_write passes through: what  *)
(* old_screen holds for a cell is what the terminal shows, or '\0', which  *)
(* no cell of new_screen ever holds.                                       *)
(***************************************************************************)
EXTENDS Screen, TLAPS

\* (The provers do not know that a literal is a string.)
Chars == STRING \cup {Nul, Blank}
Image == [Cells -> Chars]

Screens == [new : Image, old : Image, term : Image, x : Int, y : Int,
            tx : Int, ty : Int]

\* What is not printed is what the terminal shows.
Current(s) ==
    \A c \in Cells : s.new[c] # Nul /\ (s.old[c] = Nul \/ s.old[c] = s.term[c])

OnScreen(s) == s.x \in Columns /\ s.y \in Lines

Sound(s) == s \in Screens /\ Current(s) /\ OnScreen(s)

\* Between two calls the terminal shows new_screen.
Shows(s) == Sound(s) /\ s.term = s.new

\* A cursor that has been put away.
CursorInv ==
    /\ Shell \in Procs /\ running \in alive /\ alive \subseteq Procs
    /\ at \in [Procs -> Positions] /\ saved \in [Procs -> Positions]
    /\ Cursor(scr) = at[running]
    /\ \A p \in alive \ {running} : saved[p] = at[p]
    /\ kept # NoCursor => kept = at[Shell]

ScreenInv == Shows(scr) /\ CursorInv

-----------------------------------------------------------------------------
(* Arithmetic and induction                                                *)

W == SCREEN_WIDTH
H == SCREEN_HEIGHT

LEMMA Sizes ==
    /\ W \in Nat /\ W > 0 /\ H \in Nat /\ H > 0
    /\ Columns = 0 .. W - 1 /\ Lines = 0 .. H - 1 /\ Cells = 0 .. H * W - 1
    /\ 0 \in Columns /\ 0 \in Lines /\ H - 1 \in Lines
BY ScreenAssumption DEF W, H, Columns, Lines, Cells

LEMMA Characters == Nul \in Chars /\ Blank \in Chars /\ Blank # Nul
BY DEF Chars, Nul, Blank

\* The cell below a cell that is not on the last line.
LEMMA CellBelow ==
    ASSUME NEW c \in Cells, LineOf(c) < H - 1
    PROVE  c + W \in Cells
<1> DEFINE d == c \div W
<1>1. c \in Nat /\ W \in Nat /\ W > 0 /\ H \in Nat /\ d < H - 1
    BY Sizes DEF LineOf, W
<1>2. d \in Int /\ c < W * (d + 1)
    BY <1>1
<1> HIDE DEF d
<1>3. W * (d + 1) <= W * (H - 1)
    <2>1. H - 1 - (d + 1) \in Nat
        BY <1>1, <1>2
    <2>2. W * (H - 1 - (d + 1)) \in Nat
        BY <1>1, <2>1
    <2>3. W * (H - 1 - (d + 1)) = W * (H - 1) - W * (d + 1)
        BY <1>1, <1>2
    <2>4. W * (H - 1) \in Int /\ W * (d + 1) \in Int
        BY <1>1, <1>2
    <2> QED BY <2>2, <2>3, <2>4
<1>4. W * (H - 1) = H * W - W
    BY <1>1
<1>5. H * W \in Int /\ W * (d + 1) \in Int
    BY <1>1, <1>2
<1> QED BY <1>1, <1>2, <1>3, <1>4, <1>5, Sizes

-----------------------------------------------------------------------------
(* The assignments to the fields                                           *)

Make(n, o, m, x, y, tx, ty) ==
    [new |-> n, old |-> o, term |-> m, x |-> x, y |-> y, tx |-> tx, ty |-> ty]

Has(t, n, o, m, x, y) ==
    /\ t \in Screens
    /\ t.new = n /\ t.old = o /\ t.term = m /\ t.x = x /\ t.y = y

LEMMA MakeHas ==
    ASSUME NEW n \in Image, NEW o \in Image, NEW m \in Image,
           NEW x \in Int, NEW y \in Int, NEW tx \in Int, NEW ty \in Int
    PROVE  Has(Make(n, o, m, x, y, tx, ty), n, o, m, x, y)
BY DEF Has, Make, Screens

LEMMA SetCursor ==
    ASSUME NEW s \in Screens, NEW v \in Int, NEW w \in Int
    PROVE  Has([s EXCEPT !.x = v, !.y = w], s.new, s.old, s.term, v, w)
<1> DEFINE t == [s EXCEPT !.x = v]
<1>1. t = Make(s.new, s.old, s.term, v, s.y, s.tx, s.ty)
    BY DEF Screens, Make
<1> HIDE DEF t
<1> DEFINE u == [t EXCEPT !.y = w]
<1>2. u = Make(s.new, s.old, s.term, v, w, s.tx, s.ty)
    BY <1>1 DEF Make
<1> HIDE DEF u
<1>3. Has(u, s.new, s.old, s.term, v, w)
    <2>1. /\ s.new \in Image /\ s.old \in Image /\ s.term \in Image
          /\ s.tx \in Int /\ s.ty \in Int
        BY DEF Screens
    <2> QED BY Zenon, <1>2, <2>1, MakeHas
<1> QED BY <1>3 DEF t, u

LEMMA SetCell ==
    ASSUME NEW s \in Screens, NEW v \in Int, NEW e, NEW g \in Chars
    PROVE  Has([s EXCEPT !.x = v, !.new[e] = g],
               [s.new EXCEPT ![e] = g], s.old, s.term, v, s.y)
<1> DEFINE t == [s EXCEPT !.x = v]
           f == [s.new EXCEPT ![e] = g]
<1>1. t = Make(s.new, s.old, s.term, v, s.y, s.tx, s.ty)
    BY DEF Screens, Make
<1> HIDE DEF t
<1> DEFINE u == [t EXCEPT !.new[e] = g]
<1>2. u = Make(f, s.old, s.term, v, s.y, s.tx, s.ty)
    BY <1>1 DEF Make
<1> HIDE DEF u
<1>3. Has(u, f, s.old, s.term, v, s.y)
    <2>1. /\ s.new \in Image /\ s.old \in Image /\ s.term \in Image
          /\ s.y \in Int /\ s.tx \in Int /\ s.ty \in Int
        BY DEF Screens
    <2>2. f \in Image
        BY Zenon, <2>1 DEF Image
    <2> HIDE DEF f
    <2> QED BY Zenon, <1>2, <2>1, <2>2, MakeHas
<1> QED BY <1>3 DEF t, u

LEMMA SetBuffers ==
    ASSUME NEW s \in Screens, NEW o \in Image, NEW n \in Image
    PROVE  Has([s EXCEPT !.old = o, !.new = n], n, o, s.term, s.x, s.y)
<1> DEFINE t == [s EXCEPT !.old = o]
<1>1. t = Make(s.new, o, s.term, s.x, s.y, s.tx, s.ty)
    BY DEF Screens, Make
<1> HIDE DEF t
<1> DEFINE u == [t EXCEPT !.new = n]
<1>2. u = Make(n, o, s.term, s.x, s.y, s.tx, s.ty)
    BY <1>1 DEF Make
<1> HIDE DEF u
<1>3. Has(u, n, o, s.term, s.x, s.y)
    <2>1. /\ s.term \in Image /\ s.x \in Int /\ s.y \in Int
          /\ s.tx \in Int /\ s.ty \in Int
        BY DEF Screens
    <2> QED BY Zenon, <1>2, <2>1, MakeHas
<1> QED BY <1>3 DEF t, u

-----------------------------------------------------------------------------
(* A character                                                             *)

LEMMA PutCharKeeps ==
    ASSUME NEW s, Sound(s), NEW ch \in STRING \ {Nul}
    PROVE  /\ PutChar(s, ch) \in Screens /\ Current(PutChar(s, ch))
           /\ PutChar(s, ch).x \in 0 .. W /\ PutChar(s, ch).y \in 0 .. H
           /\ PutChar(s, ch).x = W => PutChar(s, ch).y < H
<1>1. s \in Screens /\ Current(s) /\ s.x \in 0 .. W - 1 /\ s.y \in 0 .. H - 1
    BY Sizes DEF Sound, OnScreen
<1>2. CASE PutChar(s, ch) = NextLine(s)
    <2>1. Has(NextLine(s), s.new, s.old, s.term, 0, s.y + 1)
        <3>1. 0 \in Int /\ s.y + 1 \in Int
            BY <1>1, Sizes
        <3> QED BY Zenon, <1>1, <3>1, SetCursor DEF NextLine
    <2> QED BY <1>1, <1>2, <2>1, Sizes DEF Current, Has
<1>3. CASE PutChar(s, ch) = s
    BY <1>1, <1>3, Sizes
<1>4. ASSUME NEW x \in 0 .. W, NEW d, NEW g \in Chars \ {Nul},
             PutChar(s, ch) = Store(s, d, g, x)
      PROVE  /\ PutChar(s, ch) \in Screens /\ Current(PutChar(s, ch))
             /\ PutChar(s, ch).x \in 0 .. W /\ PutChar(s, ch).y \in 0 .. H
             /\ PutChar(s, ch).x = W => PutChar(s, ch).y < H
    <2> DEFINE t == Store(s, d, g, x)
               e == s.y * SCREEN_WIDTH + s.x + d
    <2>1. Has(t, [s.new EXCEPT ![e] = g], s.old, s.term, x, s.y)
        <3>1. x \in Int
            BY Sizes
        <3> QED BY Zenon, <1>1, <3>1, SetCell DEF Store
    <2> HIDE DEF t, e
    <2>2. \A c \in Cells : t.new[c] # Nul
        BY <1>1, <2>1 DEF Current, Screens, Image, Has
    <2>3. Current(t)
        BY <1>1, <2>1, <2>2 DEF Current, Has
    <2> QED BY <1>1, <1>4, <2>1, <2>3, Sizes DEF Has, t
<1>5. \/ PutChar(s, ch) = NextLine(s) \/ PutChar(s, ch) = s
      \/ s.x > 0 /\ PutChar(s, ch) = Store(s, -1, Blank, s.x - 1)
      \/ PutChar(s, ch) = Store(s, 0, ch, s.x + 1)
    BY DEF PutChar
<1>6. ch \in Chars \ {Nul} /\ Blank \in Chars \ {Nul}
    BY Zenon, Characters DEF Chars
<1>7. s.x + 1 \in 0 .. W /\ (s.x > 0 => s.x - 1 \in 0 .. W)
    BY <1>1, Sizes
<1> QED BY <1>2, <1>3, <1>4, <1>5, <1>6, <1>7

\* Scrolling to the last line moves only characters of new_screen, and marks
\* what it moves.
LEMMA ScrollKeeps ==
    ASSUME NEW s \in Screens, Current(s), NEW a \in Int
    PROVE  LET t == screen_scroll(s, a, H - 1)
           IN  t \in Screens /\ Current(t)
<1> DEFINE o == [c \in Cells |-> IF LineOf(c) \in a .. H - 1 THEN Nul ELSE s.old[c]]
           n == [c \in Cells |->
                    IF LineOf(c) = H - 1 THEN Blank
                    ELSE IF LineOf(c) \in a .. H - 1 - 1 THEN s.new[c + W]
                    ELSE s.new[c]]
           t == screen_scroll(s, a, H - 1)
<1>1. s.old \in Image /\ s.new \in Image
    BY DEF Screens
<1>2. \A c \in Cells : s.new[c] \in Chars \ {Nul} /\ s.old[c] \in Chars
    BY <1>1 DEF Current, Image
<1>3. \A c \in Cells : LineOf(c) \in a .. H - 1 - 1 => c + W \in Cells
    BY CellBelow, Sizes
<1>4. \A c \in Cells : n[c] \in Chars \ {Nul}
    BY <1>2, <1>3, Characters
<1>5. \A c \in Cells : o[c] = Nul \/ o[c] = s.old[c]
    OBVIOUS
<1>6. o \in Image
    <2>1. \A c \in Cells : o[c] \in Chars
        BY Zenon, <1>2, <1>5, Characters
    <2> QED BY <2>1 DEF Image
<1>7. n \in Image
    BY <1>4 DEF Image
<1>8. t = [s EXCEPT !.old = o, !.new = n]
    BY DEF screen_scroll, W
<1> HIDE DEF o, n, t
<1>9. Has(t, n, o, s.term, s.x, s.y)
    BY Zenon, <1>6, <1>7, <1>8, SetBuffers
<1>10. Current(t)
    BY <1>4, <1>5, <1>9 DEF Has, Current
<1> QED BY <1>9, <1>10 DEF Has, t

\* screen_write_ch leaves the cursor on the screen.
LEMMA WriteChKeeps ==
    ASSUME NEW s, Sound(s), NEW ch \in STRING \ {Nul}
    PROVE  Sound(screen_write_ch(s, ch))
<1> DEFINE t == PutChar(s, ch)
           u == WrapLine(t)
<1>1. /\ t \in Screens /\ Current(t) /\ t.x \in 0 .. W /\ t.y \in 0 .. H
      /\ t.x = W => t.y < H
    BY PutCharKeeps
<1> HIDE DEF t
<1>2. u \in Screens /\ Current(u) /\ u.x \in Columns /\ u.y \in 0 .. H
    <2>1. CASE t.x >= SCREEN_WIDTH
        <3>1. t.x = W /\ t.y + 1 \in 0 .. H
            BY <1>1, <2>1, Sizes DEF W
        <3>2. Has(NextLine(t), t.new, t.old, t.term, 0, t.y + 1)
            <4>1. 0 \in Int /\ t.y + 1 \in Int
                BY <1>1, Sizes
            <4> QED BY Zenon, <1>1, <4>1, SetCursor DEF NextLine
        <3>3. u = NextLine(t)
            BY <2>1 DEF WrapLine
        <3> QED BY <1>1, <3>1, <3>2, <3>3, Sizes DEF Has, Current
    <2>2. CASE ~(t.x >= SCREEN_WIDTH)
        BY <1>1, <2>2, Sizes DEF WrapLine, W
    <2> QED BY <2>1, <2>2
<1> HIDE DEF u
<1>3. Sound(ScrollAtEnd(u))
    <2>1. CASE u.y >= SCREEN_HEIGHT
        <3> DEFINE v == screen_scroll(u, (SCREEN_HEIGHT \div 2) + 1, H - 1)
        <3>1. v \in Screens /\ Current(v)
            <4>1. (SCREEN_HEIGHT \div 2) + 1 \in Int
                BY Sizes DEF H
            <4> QED BY Zenon, <1>2, <4>1, ScrollKeeps
        <3>2. ScrollAtEnd(u) = [v EXCEPT !.x = 0, !.y = H - 1]
            BY <2>1 DEF ScrollAtEnd, H
        <3> HIDE DEF v
        <3>3. Has(ScrollAtEnd(u), v.new, v.old, v.term, 0, H - 1)
            <4>1. 0 \in Int /\ H - 1 \in Int
                BY Sizes
            <4> QED BY Zenon, <3>1, <3>2, <4>1, SetCursor
        <3> QED BY <3>1, <3>3, Sizes DEF Has, Current, Sound, OnScreen
    <2>2. CASE ~(u.y >= SCREEN_HEIGHT)
        <3>1. ScrollAtEnd(u) = u
            BY <2>2 DEF ScrollAtEnd
        <3>2. u.y \in Lines
            BY <1>2, <2>2, Sizes DEF H
        <3> QED BY <1>2, <3>1, <3>2 DEF Sound, OnScreen
    <2> QED BY <2>1, <2>2
<1> QED BY <1>3 DEF screen_write_ch, t, u

-----------------------------------------------------------------------------
(* A text                                                                  *)

LOCAL INSTANCE WellFoundedInduction

\* A set of numbers has a least one.
LEMMA Least ==
  ASSUME NEW S, S \subseteq Nat, S # {}
  PROVE  \E n \in S : \A m \in S : n <= m
<1> DEFINE R == OpToRel(<, Nat)
<1>1. PICK n \in S : \A m \in S : ~(<<m, n>> \in R)
  BY Zenon, NatLessThanWellFounded, WFMin
<1>2. \A m \in S : m < n => <<m, n>> \in R
  BY <1>1 DEF OpToRel
<1> HIDE DEF R
<1>3. \A m \in S : ~(m < n)
  BY Zenon, <1>1, <1>2
<1>4. \A m \in S : n <= m
  BY <1>3
<1> QED BY Zenon, <1>4

LEMMA WriteKeeps ==
    ASSUME NEW s, Sound(s), NEW buff \in Seq(STRING \ {Nul})
    PROVE  Sound(screen_write(s, buff))
<1> DEFINE L == Len(buff)
           Step(f, k) == IF k = 0 THEN s ELSE screen_write_ch(f[k - 1], buff[k])
           Writes(f, m) == f = [k \in 0 .. m |-> Step(f, k)]
<1>1. L \in Nat /\ \A k \in 1 .. L : buff[k] \in STRING \ {Nul}
    OBVIOUS
<1>2. \E f : Writes(f, 0)
    <2> DEFINE g == [k \in 0 .. 0 |-> s]
    <2>1. Writes(g, 0)
        OBVIOUS
    <2> QED BY Zenon, <2>1
<1>3. ASSUME NEW m \in Nat, NEW f, Writes(f, m)
      PROVE  \E g : Writes(g, m + 1)
    <2> DEFINE g == [k \in 0 .. m + 1 |-> IF k = m + 1 THEN Step(f, k) ELSE f[k]]
    <2>1. \A k \in 0 .. m : g[k] = f[k] /\ f[k] = Step(f, k)
        BY <1>3
    <2>2. \A k \in 0 .. m + 1 : g[k] = Step(f, k)
        <3> TAKE k \in 0 .. m + 1
        <3>1. CASE k = m + 1
            BY Zenon, <3>1
        <3>2. CASE k # m + 1
            <4>1. k \in 0 .. m
                BY <3>2
            <4> QED BY Zenon, <2>1, <4>1
        <3> QED BY <3>1, <3>2
    <2>3. \A k \in 0 .. m + 1 : Step(g, k) = Step(f, k)
        BY <2>1
    <2>4. Writes(g, m + 1)
        BY <2>2, <2>3
    <2> QED BY Zenon, <2>4
<1>4. \A m \in Nat : \E f : Writes(f, m)
    <2> DEFINE Bad == {m \in Nat : ~\E f : Writes(f, m)}
    <2> HIDE DEF Writes
    <2>1. SUFFICES ASSUME Bad # {} PROVE FALSE
        BY Zenon
    <2>2. PICK m \in Bad : \A k \in Bad : m <= k
        BY Zenon, <2>1, Least
    <2>3. m # 0
        BY Zenon, <1>2
    <2>4. m - 1 \in Nat /\ m - 1 \notin Bad /\ (m - 1) + 1 = m
        BY <2>2, <2>3
    <2>5. PICK f : Writes(f, m - 1)
        BY Zenon, <2>4
    <2>6. \E g : Writes(g, (m - 1) + 1)
        BY Zenon, <1>3, <2>4, <2>5
    <2> QED BY Zenon, <2>4, <2>6
<1> DEFINE after == CHOOSE f : Writes(f, L)
<1>5. Writes(after, L)
    <2> HIDE DEF Writes
    <2> QED BY Zenon, <1>1, <1>4
<1>6. screen_write(s, buff) = after[L]
    BY DEF screen_write
<1> HIDE DEF after, L
<1>7. after[0] = s /\ \A k \in 1 .. L : after[k] = screen_write_ch(after[k - 1], buff[k])
    BY <1>1, <1>5
<1>8. \A k \in 0 .. L : Sound(after[k])
    <2> DEFINE Bad == {k \in 0 .. L : ~Sound(after[k])}
    <2>1. SUFFICES ASSUME Bad # {} PROVE FALSE
        BY Zenon
    <2>2. PICK k \in Bad : \A j \in Bad : k <= j
        <3>1. Bad \subseteq Nat
            BY <1>1
        <3> QED BY Zenon, <2>1, <3>1, Least
    <2>3. k # 0
        BY Zenon, <1>7
    <2>4. k \in 1 .. L /\ k - 1 \in 0 .. L /\ k - 1 \notin Bad
        BY <1>1, <2>2, <2>3
    <2>5. Sound(after[k - 1])
        BY Zenon, <2>4
    <2>6. Sound(screen_write_ch(after[k - 1], buff[k]))
        BY Zenon, <1>1, <2>4, <2>5, WriteChKeeps
    <2> QED BY Zenon, <1>7, <2>4, <2>6
<1>9. L \in 0 .. L
    BY <1>1
<1> QED BY Zenon, <1>6, <1>8, <1>9

-----------------------------------------------------------------------------
(* The calls                                                               *)

\* After screen_reflush the terminal shows new_screen.
LEMMA ReflushShows ==
    ASSUME NEW s \in Screens, Current(s)
    PROVE  LET t == screen_reflush(s)
           IN  /\ t \in Screens /\ Current(t) /\ t.term = t.new
               /\ t.x = s.x /\ t.y = s.y
<1> DEFINE m == [c \in Cells |-> IF s.new[c] # s.old[c] THEN s.new[c] ELSE s.term[c]]
           r == [s EXCEPT !.term = m]
           u == [r EXCEPT !.old = s.new]
           v == [u EXCEPT !.tx = IF s.x = 0 THEN 0 ELSE s.x - 1]
           w == [v EXCEPT !.ty = IF s.y = 0 THEN 0 ELSE s.y - 1]
           tx == IF s.x = 0 THEN 0 ELSE s.x - 1
           ty == IF s.y = 0 THEN 0 ELSE s.y - 1
<1>1. s.new \in Image /\ s.old \in Image /\ s.term \in Image /\ s.x \in Int /\ s.y \in Int
    BY DEF Screens
<1>2. m = s.new
    <2>1. \A c \in Cells : m[c] = s.new[c]
        BY DEF Current
    <2> QED BY <1>1, <2>1 DEF Image
<1>3. tx \in Int /\ ty \in Int
    BY <1>1
<1>4. screen_reflush(s) = w
    BY DEF screen_reflush, vt100_move_cursor
<1> HIDE DEF m, tx, ty
<1>5. r = Make(s.new, s.old, s.new, s.x, s.y, s.tx, s.ty)
    BY <1>2 DEF Screens, Make
<1> HIDE DEF r
<1>6. u = Make(s.new, s.new, s.new, s.x, s.y, s.tx, s.ty)
    BY <1>5 DEF Make
<1> HIDE DEF u
<1>7. v = Make(s.new, s.new, s.new, s.x, s.y, tx, s.ty)
    BY <1>6 DEF Make, tx
<1> HIDE DEF v
<1>8. w = Make(s.new, s.new, s.new, s.x, s.y, tx, ty)
    BY <1>7 DEF Make, ty
<1> HIDE DEF w
<1>9. Has(w, s.new, s.new, s.new, s.x, s.y)
    BY Zenon, <1>1, <1>3, <1>8, MakeHas
<1> QED BY <1>4, <1>9 DEF Has, Current

\* screen_clear does not need anything of the state it is called in.
LEMMA ClearShows ==
    ASSUME NEW s \in Screens, NEW a, NEW b
    PROVE  LET t == screen_clear(s, a, b)
           IN  Sound(t) /\ t.term = t.new /\ Cursor(t) = Origin
<1> DEFINE n == [c \in Cells |-> Blank]
           o == [c \in Cells |-> Nul]
           r == [s EXCEPT !.new = n]
           u == [r EXCEPT !.old = o]
           v == [u EXCEPT !.x = 0]
           w == [v EXCEPT !.y = 0]
<1>1. n \in Image /\ o \in Image
    BY Characters DEF Image
<1>2. \A c \in Cells : n[c] # Nul /\ o[c] = Nul
    BY Characters
<1>3. screen_clear(s, a, b) = screen_reflush(w)
    BY Zenon DEF screen_clear
<1> HIDE DEF n, o
<1>4. r = Make(n, s.old, s.term, s.x, s.y, s.tx, s.ty)
    BY DEF Screens, Make
<1> HIDE DEF r
<1>5. u = Make(n, o, s.term, s.x, s.y, s.tx, s.ty)
    BY <1>4 DEF Make
<1> HIDE DEF u
<1>6. v = Make(n, o, s.term, 0, s.y, s.tx, s.ty)
    BY <1>5 DEF Make
<1> HIDE DEF v
<1>7. w = Make(n, o, s.term, 0, 0, s.tx, s.ty)
    BY <1>6 DEF Make
<1> HIDE DEF w
<1>8. Has(w, n, o, s.term, 0, 0)
    <2>1. s.term \in Image /\ s.tx \in Int /\ s.ty \in Int /\ 0 \in Int
        BY DEF Screens
    <2> QED BY Zenon, <1>1, <1>7, <2>1, MakeHas
<1>9. w \in Screens /\ Current(w) /\ w.x = 0 /\ w.y = 0
    BY <1>2, <1>8 DEF Has, Current
<1>10. LET t == screen_reflush(w)
       IN  /\ t \in Screens /\ Current(t) /\ t.term = t.new
           /\ t.x = w.x /\ t.y = w.y
    BY Zenon, <1>9, ReflushShows
<1> QED BY <1>3, <1>9, <1>10, Sizes DEF Sound, OnScreen, Cursor, Origin

LEMMA WriteShows ==
    ASSUME NEW s, Sound(s), NEW buff \in Texts
    PROVE  Shows(do_write(s, buff))
<1>1. Sound(screen_write(s, buff))
    BY Zenon, WriteKeeps, ScreenAssumption
<1> DEFINE t == screen_write(s, buff)
           u == screen_reflush(t)
<1>2. u \in Screens /\ Current(u) /\ u.term = u.new /\ u.x = t.x /\ u.y = t.y
    BY Zenon, <1>1, ReflushShows DEF Sound
<1>3. do_write(s, buff) = u
    BY DEF do_write
<1> HIDE DEF t, u
<1>4. OnScreen(t)
    BY <1>1 DEF Sound, t
<1> QED BY <1>2, <1>3, <1>4 DEF Shows, Sound, OnScreen

\* The cursor is set to a position of the screen.
LEMMA PlaceShows ==
    ASSUME NEW s, Shows(s), NEW x \in Columns, NEW y \in Lines
    PROVE  LET t == screen_move_cursor(s, x, y)
           IN  Shows(t) /\ Cursor(t) = [x |-> x, y |-> y]
<1>1. Has(screen_move_cursor(s, x, y), s.new, s.old, s.term, x, y)
    <2>1. x \in Int /\ y \in Int
        BY Sizes
    <2> QED BY Zenon, <2>1, SetCursor DEF Shows, Sound, screen_move_cursor
<1> QED BY <1>1 DEF Has, Shows, Sound, OnScreen, Current, Cursor

-----------------------------------------------------------------------------
(* The steps                                                               *)

LEMMA CursorOn ==
    ASSUME NEW s, Shows(s)
    PROVE  Cursor(s) \in Positions
BY DEF Shows, Sound, OnScreen, Cursor, Positions

LEMMA InitKeeps == Init => ScreenInv
<1> SUFFICES ASSUME Init PROVE ScreenInv
    OBVIOUS
<1> DEFINE o == [c \in Cells |-> Nul]
           m == [c \in Cells |-> Blank]
           s == [new |-> o, old |-> o, term |-> m, x |-> 0, y |-> 0, tx |-> 0, ty |-> 0]
<1>1. o \in Image /\ m \in Image
    BY Characters DEF Image
<1>2. scr = screen_clear(s, 0, SCREEN_HEIGHT - 1)
    BY DEF Init, init_screen
<1> HIDE DEF o, m
<1>3. s \in Screens
    BY <1>1 DEF Screens
<1> HIDE DEF s
<1>4. Shows(scr) /\ Cursor(scr) = Origin
    BY Zenon, <1>2, <1>3, ClearShows DEF Shows
<1>5. Origin \in Positions
    BY <1>4, CursorOn
<1>6. CursorInv
    BY <1>4, <1>5, ScreenAssumption DEF CursorInv, Init
<1> QED BY <1>4, <1>6 DEF ScreenInv

LEMMA CallKeeps ==
    ASSUME ScreenInv, NEW s, Shows(s), Call(s)
    PROVE  ScreenInv'
<1>1. Cursor(s) \in Positions
    BY CursorOn
<1>2. Cursor(scr)' = Cursor(s) /\ Shows(scr)'
    BY Zenon DEF Call
<1>3. CursorInv'
    <2>1. (Shell \in Procs /\ running \in alive /\ alive \subseteq Procs)'
        BY DEF ScreenInv, CursorInv, Call
    <2>2. (at \in [Procs -> Positions] /\ saved \in [Procs -> Positions])'
        BY <1>1 DEF ScreenInv, CursorInv, Call
    <2>3. \A p \in Procs : at'[p] = IF p = running THEN Cursor(s) ELSE at[p]
        BY DEF ScreenInv, CursorInv, Call
    <2>4. (Cursor(scr) = at[running])'
        BY <1>2, <2>1, <2>3 DEF Call
    <2>5. (\A p \in alive \ {running} : saved[p] = at[p])'
        BY <2>1, <2>3 DEF ScreenInv, CursorInv, Call
    <2>6. (kept # NoCursor => kept = at[Shell])'
        BY <2>1, <2>3 DEF ScreenInv, CursorInv, Call, InExec
    <2> QED BY Zenon, <2>1, <2>2, <2>4, <2>5, <2>6 DEF CursorInv
<1> QED BY Zenon, <1>2, <1>3 DEF ScreenInv

\* The cursor is set to a position that was put away.
LEMMA RestoredShows ==
    ASSUME NEW s, Shows(s), NEW c \in Positions
    PROVE  LET t == screen_move_cursor(s, c.x, c.y)
           IN  Shows(t) /\ Cursor(t) = c
<1>1. PICK x \in Columns, y \in Lines : c = [x |-> x, y |-> y]
    BY DEF Positions
<1>2. c.x = x /\ c.y = y
    BY <1>1
<1>3. /\ Shows(screen_move_cursor(s, x, y))
      /\ Cursor(screen_move_cursor(s, x, y)) = [x |-> x, y |-> y]
    BY Zenon, PlaceShows
<1> QED BY Zenon, <1>1, <1>2, <1>3

\* scheduler() and do_exit: p runs with the cursor that was saved for it.
LEMMA SwitchKeeps ==
    ASSUME ScreenInv, NEW p \in alive \ {running},
           saved' = [saved EXCEPT ![running] = Cursor(scr)],
           running' = p,
           scr' = [scr EXCEPT !.x = saved[p].x, !.y = saved[p].y],
           alive' \in {alive, alive \ {running}},
           UNCHANGED <<kept, at>>
    PROVE  ScreenInv'
<1>1. PICK c \in Positions : c = saved[p] /\ c = at[p]
    BY DEF ScreenInv, CursorInv
<1>2. Shows(scr)' /\ Cursor(scr)' = c
    <2>1. scr' = screen_move_cursor(scr, c.x, c.y)
        BY Zenon, <1>1 DEF screen_move_cursor
    <2>2. PICK t : t = screen_move_cursor(scr, c.x, c.y)
        OBVIOUS
    <2>3. Shows(t) /\ Cursor(t) = c
        BY Zenon, <2>2, RestoredShows DEF ScreenInv
    <2>4. scr' = t
        BY Zenon, <2>1, <2>2
    <2> QED BY Zenon, <2>3, <2>4
<1>3. Cursor(scr) \in Positions /\ Cursor(scr) = at[running]
    BY Zenon, CursorOn DEF ScreenInv, CursorInv
<1>4. CursorInv'
    <2>1. (Shell \in Procs /\ running \in alive /\ alive \subseteq Procs)'
        BY DEF ScreenInv, CursorInv
    <2>2. (at \in [Procs -> Positions] /\ saved \in [Procs -> Positions])'
        BY <1>3 DEF ScreenInv, CursorInv
    <2>3. \A q \in Procs : saved'[q] = IF q = running THEN Cursor(scr) ELSE saved[q]
        BY DEF ScreenInv, CursorInv
    <2>4. (Cursor(scr) = at[running])'
        BY <1>1, <1>2
    <2>5. (\A q \in alive \ {running} : saved[q] = at[q])'
        BY <1>3, <2>3 DEF ScreenInv, CursorInv
    <2>6. (kept # NoCursor => kept = at[Shell])'
        BY DEF ScreenInv, CursorInv
    <2> QED BY Zenon, <2>1, <2>2, <2>4, <2>5, <2>6 DEF CursorInv
<1> QED BY Zenon, <1>2, <1>4 DEF ScreenInv

LEMMA SpawnKeeps ==
    ASSUME ScreenInv, Spawn
    PROVE  ScreenInv'
<1>1. PICK p \in Procs \ alive :
        /\ running = Shell /\ ~InExec
        /\ alive' = alive \cup {p}
        /\ saved' = [saved EXCEPT ![p] = Origin]
        /\ at' = [at EXCEPT ![p] = Origin]
        /\ kept' = Cursor(scr)
        /\ UNCHANGED <<scr, running, calls>>
    BY Zenon DEF Spawn
<1>2. Shows(scr)' /\ Cursor(scr)' = Cursor(scr)
    BY Zenon, <1>1 DEF ScreenInv
<1>3. Origin \in Positions
    BY Sizes DEF Origin, Positions
<1>4. CursorInv'
    <2>1. (Shell \in Procs /\ running \in alive /\ alive \subseteq Procs)'
        BY <1>1 DEF ScreenInv, CursorInv
    <2>2. (at \in [Procs -> Positions] /\ saved \in [Procs -> Positions])'
        BY <1>1, <1>3 DEF ScreenInv, CursorInv
    <2>3. \A q \in Procs : /\ saved'[q] = IF q = p THEN Origin ELSE saved[q]
                           /\ at'[q] = IF q = p THEN Origin ELSE at[q]
        BY <1>1 DEF ScreenInv, CursorInv
    <2>4. (Cursor(scr) = at[running])'
        BY <1>1, <1>2, <2>3 DEF ScreenInv, CursorInv
    <2>5. (\A q \in alive \ {running} : saved[q] = at[q])'
        BY <1>1, <2>3 DEF ScreenInv, CursorInv
    <2>6. (kept # NoCursor => kept = at[Shell])'
        BY <1>1, <1>2, <2>4
    <2> QED BY Zenon, <2>1, <2>2, <2>4, <2>5, <2>6 DEF CursorInv
<1> QED BY Zenon, <1>2, <1>4 DEF ScreenInv

LEMMA RestoreKeeps ==
    ASSUME ScreenInv, RestoreAfterExec
    PROVE  ScreenInv'
<1>1. PICK c \in Positions : c = kept /\ c = at[running]
    BY DEF ScreenInv, CursorInv, RestoreAfterExec, InExec
<1>2. Shows(scr)' /\ Cursor(scr)' = c
    <2>1. scr' = screen_move_cursor(scr, c.x, c.y)
        BY Zenon, <1>1 DEF RestoreAfterExec, screen_move_cursor
    <2>2. PICK t : t = screen_move_cursor(scr, c.x, c.y)
        OBVIOUS
    <2>3. Shows(t) /\ Cursor(t) = c
        BY Zenon, <2>2, RestoredShows DEF ScreenInv
    <2>4. scr' = t
        BY Zenon, <2>1, <2>2
    <2> QED BY Zenon, <2>3, <2>4
<1>3. CursorInv'
    BY <1>1, <1>2 DEF ScreenInv, CursorInv, RestoreAfterExec
<1> QED BY Zenon, <1>2, <1>3 DEF ScreenInv

LEMMA NextKeeps ==
    ASSUME ScreenInv, [Next]_vars
    PROVE  ScreenInv'
<1>1. Shows(scr) /\ Sound(scr) /\ scr \in Screens /\ Current(scr)
    BY Zenon DEF ScreenInv, Shows, Sound
<1>2. CASE Write
    <2>1. PICK buff \in Texts : Call(do_write(scr, buff))
        BY Zenon, <1>2 DEF Write
    <2>2. PICK s : s = do_write(scr, buff)
        OBVIOUS
    <2>3. Shows(s)
        BY Zenon, <1>1, <2>2, WriteShows
    <2>4. Call(s)
        BY Zenon, <2>1, <2>2
    <2> QED BY Zenon, <2>3, <2>4, CallKeeps
<1>3. CASE MoveCursor
    <2>1. PICK x \in Columns, y \in Lines : Call(screen_move_cursor(scr, x, y))
        BY Zenon, <1>3 DEF MoveCursor
    <2>2. PICK s : s = screen_move_cursor(scr, x, y)
        OBVIOUS
    <2>3. Shows(s)
        BY Zenon, <1>1, <2>2, PlaceShows
    <2>4. Call(s)
        BY Zenon, <2>1, <2>2
    <2> QED BY Zenon, <2>3, <2>4, CallKeeps
<1>4. CASE Clear
    <2>1. PICK s : s = screen_clear(scr, 0, 0)
        OBVIOUS
    <2>2. Shows(s)
        BY Zenon, <1>1, <2>1, ClearShows DEF Shows
    <2>3. Call(s)
        BY Zenon, <1>4, <2>1 DEF Clear
    <2> QED BY Zenon, <2>2, <2>3, CallKeeps
<1>5. CASE Reflush
    <2>1. PICK s : s = screen_reflush(scr)
        OBVIOUS
    <2>2. /\ s \in Screens /\ Current(s) /\ s.term = s.new
          /\ s.x = scr.x /\ s.y = scr.y
        BY Zenon, <1>1, <2>1, ReflushShows
    <2>3. Shows(s)
        BY <1>1, <2>2 DEF Shows, Sound, OnScreen
    <2>4. Call(s)
        BY Zenon, <1>5, <2>1 DEF Reflush
    <2> QED BY Zenon, <2>3, <2>4, CallKeeps
<1>6. CASE scheduler
    <2>1. PICK p \in alive \ {running} :
            /\ saved' = [saved EXCEPT ![running] = Cursor(scr)]
            /\ running' = p
            /\ scr' = [scr EXCEPT !.x = saved[p].x, !.y = saved[p].y]
            /\ UNCHANGED <<alive, kept, calls, at>>
        BY Zenon, <1>6 DEF scheduler
    <2>2. alive' \in {alive, alive \ {running}} /\ UNCHANGED <<kept, at>>
        BY <2>1
    <2> QED BY Zenon, <2>1, <2>2, SwitchKeeps
<1>7. CASE Exit
    <2>1. PICK p \in alive \ {running} :
            /\ alive' = alive \ {running}
            /\ saved' = [saved EXCEPT ![running] = Cursor(scr)]
            /\ running' = p
            /\ scr' = [scr EXCEPT !.x = saved[p].x, !.y = saved[p].y]
            /\ UNCHANGED <<kept, calls, at>>
        BY Zenon, <1>7 DEF Exit
    <2>2. alive' \in {alive, alive \ {running}} /\ UNCHANGED <<kept, at>>
        BY <2>1
    <2> QED BY Zenon, <2>1, <2>2, SwitchKeeps
<1>8. CASE UNCHANGED vars
    BY <1>8 DEF vars, ScreenInv, CursorInv, Cursor
<1> QED BY Zenon, <1>2, <1>3, <1>4, <1>5, <1>6, <1>7, <1>8, SpawnKeeps, RestoreKeeps
    DEF Next

(* The cursor and the buffers: in every behaviour the terminal and         *)
(* new_screen agree after every call, and the positions put away by        *)
(* scheduler() and by the shell are the ones their processes left.         *)
THEOREM ScreenIsSound == Spec => []ScreenInv
BY InitKeeps, NextKeeps, PTL DEF Spec

(* screen_reflush prints only the cells that differ from old_screen; for   *)
(* every size of the screen and every text the terminal then shows         *)
(* new_screen.                                                             *)
THEOREM TerminalShowsScreen == Spec => []Shown
<1>1. ScreenInv => Shown
    BY Zenon DEF ScreenInv, Shows, Shown
<1> QED BY <1>1, ScreenIsSound, PTL

(* However the scheduler interleaves the processes, each one finds the     *)
(* one cursor of screen.c where its own calls have left it, and never      *)
(* outside the screen.                                                     *)
THEOREM CursorFollowsProcess == Spec => []CursorOfProcess
<1>1. ScreenInv => CursorOfProcess
    BY Zenon, CursorOn DEF ScreenInv, CursorInv, CursorOfProcess
<1> QED BY <1>1, ScreenIsSound, PTL

=============================================================================
