--------------------------- MODULE ConsoleProofs ---------------------------
(***************************************************************************)
(* The console is right on a grid of any size, for any number of terminals *)
(* and whatever is written.                                                *)
(*                                                                         *)
(* For the cursor (CInv), CursorNear says how far a writer may have gone   *)
(* off the grid at each step: one row for a writer that has gone to the    *)
(* next row since its check, one column for one in the middle of a wrap,   *)
(* and both the program of a terminal and the echo may be there.           *)
(* ArgsFresh says that a position fetched for the display is still that of *)
(* the cursor, or its writer is among those passed by a change.            *)
(*                                                                         *)
(* For the text (SInv), the page of the typewriter is the final one as     *)
(* soon as a writer begins; Stage says what the grid and the cursor are    *)
(* meanwhile, at each step of putc, against the page there was before.     *)
(*                                                                         *)
(* Part 2 is about printf, with words of any width: itoa writes a numeral  *)
(* of its value (by complete induction, a quotient being smaller), a       *)
(* format is the spellings of its items joined, and the loop puts at each  *)
(* spelling the piece that shows the item's own argument.                  *)
(***************************************************************************)
EXTENDS Console, Printf, FiniteSetTheorems, SequenceTheorems,
        WellFoundedInduction, TLAPS

Quiet == {"idle", "args", "set"}
Pcs == Quiet \cup {"check", "write", "advance", "wrap", "line", "linefeed",
                   "return", "back", "clear"}
Glyphs == Chars \cup {Blank}

TypeOK == /\ current_terminal \in Terminals
          /\ screen_x \in [Terminals -> Nat]
          /\ screen_y \in [Terminals -> Nat]
          /\ pc \in [Writers -> Pcs]
          /\ op \in [Writers -> Chars \cup {"newline", "back", "clear", "none"}]
          /\ args \in [Writers -> Int]
          /\ torn \in BOOLEAN

\* What a writer is writing fits the step it is at.
Fits(at, o) ==
    /\ at = "check" => o \in Chars \cup {"newline", "clear"}
    /\ at \in {"write", "advance", "wrap"} => o \in Chars \cup {"clear"}
    /\ at \in {"line", "linefeed", "return"} => o = "newline"
    /\ at = "back" => o = "back"
    /\ at = "clear" => o = "clear"
OpFits == \A w \in Writers : Fits(pc[w], op[w])

\* Rows and columns a writer at this step may have gone too far: each one that
\* has gone to the next row since its check, and one in the middle of a wrap.
TooLow(at)  == IF at \in {"write", "advance", "wrap", "line"} THEN 0 ELSE 1
TooWide(at) == IF at = "wrap" THEN 1 ELSE 0
EchoAt(t) == IF current_terminal = t THEN pc[Echo] ELSE "idle"

CursorNear ==
    \A t \in Terminals :
        /\ screen_x[t] <= Cols - 1 + TooWide(pc[t]) + TooWide(EchoAt(t))
        /\ screen_y[t] <= Rows - 1 + TooLow(pc[t]) + TooLow(EchoAt(t))

\* Arguments that are not outdated are those of the cursor on display.
ArgsFresh ==
    \A w \in Writers : pc[w] = "set" /\ w \notin passed =>
        args[w] = Position(current_terminal) % (Rows * Cols)

CInv == TypeOK /\ OpFits /\ CursorNear /\ ArgsFresh /\ CursorShown

----------------------------------------------------------------------------
\* Products

LEMMA ProductMonotonic ==
    ASSUME NEW a \in Nat, NEW b \in Nat, NEW c \in Nat, a <= b PROVE c * a <= c * b
<1>1. PICK d \in Nat : b = a + d
  <2>1. b - a \in Nat /\ b = a + (b - a)
    OBVIOUS
  <2>. QED BY <2>1
<1>2. c * b = c * a + c * d
  BY <1>1
<1>3. c * d \in Nat /\ c * a \in Nat
  OBVIOUS
<1>. QED BY <1>2, <1>3

\* Whether a position is past the last row is decided by its row.
LEMMA PastGrid ==
    ASSUME NEW x \in Nat, NEW y \in Nat
    PROVE  /\ Cols * y + x \in Nat
           /\ y >= Rows => Cols * y + x >= Rows * Cols
           /\ y < Rows => Cols * y + Cols <= Rows * Cols
<1>1. Cols \in Nat /\ Rows \in Nat /\ Cols * y \in Nat /\ Rows * Cols = Cols * Rows
  BY ConsoleAssumption
<1>2. ASSUME y >= Rows PROVE Cols * Rows <= Cols * y
  BY <1>1, <1>2, ProductMonotonic
<1>3. ASSUME y < Rows PROVE Cols * (y + 1) <= Cols * Rows
  <2>1. y + 1 \in Nat /\ y + 1 <= Rows
    BY <1>1, <1>3
  <2>. QED BY <1>1, <2>1, ProductMonotonic
<1>4. Cols * (y + 1) = Cols * y + Cols
  BY <1>1
<1>. HIDE DEF Position
<1>. QED BY <1>1, <1>2, <1>3, <1>4

----------------------------------------------------------------------------
\* Where the cursor may be

\* The step of the other writer on the target of w.
OtherAt(w) == IF w = Echo THEN pc[current_terminal] ELSE EchoAt(w)

LEMMA TargetTyped ==
    ASSUME TypeOK, NEW w \in Writers PROVE Target(w) \in Terminals
  BY DEF TypeOK, Target, Writers

LEMMA EchoNoTerminal == Echo \notin Terminals /\ Echo \in Writers
  BY DEF Echo, Terminals, Writers

\* Both writers of a terminal count for its cursor.
LEMMA CursorOfTarget ==
    ASSUME TypeOK, CursorNear, NEW w \in Writers, NEW t, t = Target(w)
    PROVE  /\ screen_x[t] \in Nat /\ screen_y[t] \in Nat
           /\ screen_x[t] <= Cols - 1 + TooWide(pc[w]) + TooWide(OtherAt(w))
           /\ screen_y[t] <= Rows - 1 + TooLow(pc[w]) + TooLow(OtherAt(w))
<1>1. t \in Terminals
  BY TargetTyped
<1>2. screen_x[t] \in Nat /\ screen_y[t] \in Nat
  BY <1>1 DEF TypeOK
<1>3. /\ screen_x[t] <= Cols - 1 + TooWide(pc[t]) + TooWide(EchoAt(t))
      /\ screen_y[t] <= Rows - 1 + TooLow(pc[t]) + TooLow(EchoAt(t))
  BY <1>1 DEF CursorNear
<1>4. \A at : TooWide(at) \in {0, 1} /\ TooLow(at) \in {0, 1}
  BY DEF TooWide, TooLow
<1>5. CASE w = Echo
  <2>1. t = current_terminal /\ EchoAt(t) = pc[w] /\ OtherAt(w) = pc[t]
    BY <1>5 DEF Target, OtherAt, EchoAt
  <2>. QED BY <1>2, <1>3, <1>4, <2>1, ConsoleAssumption
<1>6. CASE w # Echo
  <2>1. t = w /\ OtherAt(w) = EchoAt(t)
    BY <1>6 DEF Target, OtherAt
  <2>. QED BY <1>2, <1>3, <2>1
<1>. QED BY <1>5, <1>6

\* What Moves and Clear do but for the cells and the history.
CursorMoves(w, x, y, next) ==
    /\ screen_x' = [screen_x EXCEPT ![Target(w)] = x]
    /\ screen_y' = [screen_y EXCEPT ![Target(w)] = y]
    /\ pc' = [pc EXCEPT ![w] = next]
    /\ Passes(w, Target(w))
    /\ torn' \in BOOLEAN
    /\ UNCHANGED <<current_terminal, crtc, op, args, late>>

LEMMA MovesNear ==
    ASSUME TypeOK, CursorNear, NEW w \in Writers, NEW x \in Nat, NEW y \in Nat,
           NEW next \in Pcs, CursorMoves(w, x, y, next),
           x <= Cols - 1 + TooWide(next) + TooWide(OtherAt(w)),
           y <= Rows - 1 + TooLow(next) + TooLow(OtherAt(w))
    PROVE  CursorNear'
<1>1. PICK t \in Terminals : t = Target(w)
  BY TargetTyped
<1>2. /\ screen_x' = [screen_x EXCEPT ![t] = x]
      /\ screen_y' = [screen_y EXCEPT ![t] = y]
      /\ pc' = [pc EXCEPT ![w] = next]
      /\ current_terminal' = current_terminal
  BY <1>1 DEF CursorMoves
<1>3. \A at : TooWide(at) \in {0, 1} /\ TooLow(at) \in {0, 1}
  BY DEF TooWide, TooLow
<1>. SUFFICES ASSUME NEW u \in Terminals
     PROVE  /\ screen_x'[u] <= Cols - 1 + TooWide(pc'[u]) + TooWide(EchoAt(u)')
            /\ screen_y'[u] <= Rows - 1 + TooLow(pc'[u]) + TooLow(EchoAt(u)')
  BY DEF CursorNear, TooWide, TooLow
<1>4. CASE u # t
  <2>1. pc'[u] = pc[u] /\ EchoAt(u)' = EchoAt(u)
    BY <1>1, <1>2, <1>4, EchoNoTerminal DEF TypeOK, Target, EchoAt, Writers
  <2>2. screen_x'[u] = screen_x[u] /\ screen_y'[u] = screen_y[u]
    BY <1>2, <1>4 DEF TypeOK
  <2>. QED BY <2>1, <2>2 DEF CursorNear
<1>5. CASE u = t
  <2>1. screen_x'[u] = x /\ screen_y'[u] = y
    BY <1>2, <1>5 DEF TypeOK
  <2>2. CASE w = Echo
    <3>1. pc'[u] = OtherAt(w) /\ EchoAt(u)' = next
      BY <1>1, <1>2, <1>5, <2>2, EchoNoTerminal DEF TypeOK, Target, EchoAt, OtherAt, Writers
    <3>. QED BY <1>3, <2>1, <3>1, ConsoleAssumption
  <2>3. CASE w # Echo
    <3>1. pc'[u] = next /\ EchoAt(u)' = OtherAt(w)
      BY <1>1, <1>2, <1>5, <2>3, EchoNoTerminal DEF TypeOK, Target, EchoAt, OtherAt, Writers
    <3>. QED BY <1>3, <2>1, <3>1, ConsoleAssumption
  <2>. QED BY <2>2, <2>3
<1>. QED BY <1>4, <1>5

\* A position is that of the cursor it is computed from.
LEMMA PositionSame ==
    ASSUME NEW t, screen_x'[t] = screen_x[t], screen_y'[t] = screen_y[t]
    PROVE  Position(t)' = Position(t)
  BY DEF Position

\* What a step of putc or of the echo owes to the invariant.
LEMMA CursorMovesKeeps ==
    ASSUME CInv, NEW w \in Writers, NEW x \in Nat, NEW y \in Nat,
           NEW next \in Pcs \ {"idle", "set"}, CursorMoves(w, x, y, next),
           Fits(next, op[w]),
           x <= Cols - 1 + TooWide(next) + TooWide(OtherAt(w)),
           y <= Rows - 1 + TooLow(next) + TooLow(OtherAt(w))
    PROVE  CInv'
<1>1. PICK t \in Terminals : t = Target(w)
  BY TargetTyped DEF CInv
<1>2. /\ screen_x' = [screen_x EXCEPT ![t] = x]
      /\ screen_y' = [screen_y EXCEPT ![t] = y]
      /\ pc' = [pc EXCEPT ![w] = next]
      /\ passed' = IF t = current_terminal
                   THEN passed \cup {v \in Writers \ {w} : pc[v] = "set"} ELSE passed
      /\ UNCHANGED <<current_terminal, crtc, op, args, late>>
      /\ torn' \in BOOLEAN
  BY <1>1 DEF CursorMoves, Passes
<1>3. TypeOK'
  BY <1>2 DEF CInv, TypeOK
<1>4. OpFits'
  BY <1>2 DEF CInv, TypeOK, OpFits
<1>5. CursorNear'
  BY MovesNear DEF CInv
<1>6. t # current_terminal => Position(current_terminal)' = Position(current_terminal)
  <2>. SUFFICES ASSUME t # current_terminal
       PROVE  Position(current_terminal)' = Position(current_terminal)
    OBVIOUS
  <2>1. /\ screen_x'[current_terminal] = screen_x[current_terminal]
        /\ screen_y'[current_terminal] = screen_y[current_terminal]
    BY <1>2 DEF CInv, TypeOK
  <2>. QED BY <1>2, <2>1 DEF Position
<1>7. \A v \in Writers : pc'[v] \in {"idle", "set"} => v # w /\ pc'[v] = pc[v]
  BY <1>2 DEF CInv, TypeOK
<1>8. ArgsFresh'
  <2>. SUFFICES ASSUME NEW v \in Writers, pc'[v] = "set", v \notin passed'
       PROVE  args'[v] = (Position(current_terminal) % (Rows * Cols))'
    BY DEF ArgsFresh
  <2>1. pc[v] = "set" /\ v # w
    BY <1>7
  <2>2. t # current_terminal /\ v \notin passed
    BY <1>2, <2>1
  <2>3. args[v] = Position(current_terminal) % (Rows * Cols)
    BY <2>1, <2>2 DEF CInv, ArgsFresh
  <2>. QED BY <1>2, <1>6, <2>2, <2>3
<1>9. CursorShown'
  <2>. SUFFICES ASSUME (\A v \in Writers : Target(v) = current_terminal => pc[v] = "idle")',
                       ~late'
       PROVE  (crtc = Position(current_terminal) % (Rows * Cols))'
    BY DEF CursorShown
  <2>1. \A v \in Writers : Target(v)' = Target(v)
    BY <1>2 DEF Target
  <2>2. t # current_terminal
    BY <1>1, <1>2, <1>7, <2>1
  <2>3. \A v \in Writers : Target(v) = current_terminal => pc[v] = "idle"
    BY <1>2, <1>7, <2>1
  <2>4. crtc = Position(current_terminal) % (Rows * Cols)
    BY <1>2, <2>3 DEF CInv, CursorShown
  <2>. QED BY <1>2, <1>6, <2>2, <2>4
<1>. QED BY <1>3, <1>4, <1>5, <1>8, <1>9 DEF CInv

LEMMA MovesKeeps ==
    ASSUME CInv, NEW w \in Writers, NEW x \in Nat, NEW y \in Nat, NEW cells,
           NEW next \in Pcs \ {"idle", "set"}, Moves(w, x, y, cells, next),
           Fits(next, op[w]),
           x <= Cols - 1 + TooWide(next) + TooWide(OtherAt(w)),
           y <= Rows - 1 + TooLow(next) + TooLow(OtherAt(w))
    PROVE  CInv'
<1>1. CursorMoves(w, x, y, next)
  BY DEF Moves, CursorMoves, CInv, TypeOK
<1>. QED BY <1>1, CursorMovesKeeps

\* A writer begins: it is past no check and has set no cursor.
LEMMA BeginKeeps ==
    ASSUME CInv, NEW w \in Writers, NEW o \in Chars \cup {"newline", "back", "clear"},
           NEW first \in {"check", "back"}, Fits(first, o), Begin(w, o, first)
    PROVE  CInv'
<1>1. /\ pc[w] = "idle"
      /\ pc' = [pc EXCEPT ![w] = first]
      /\ op' = [op EXCEPT ![w] = o]
      /\ torn' \in BOOLEAN
      /\ UNCHANGED <<current_terminal, screen_x, screen_y, crtc, args, passed, late>>
  BY DEF Begin, cursor, CInv, TypeOK
<1>2. TypeOK'
  BY <1>1 DEF CInv, TypeOK, Pcs
<1>3. OpFits'
  BY <1>1 DEF CInv, TypeOK, OpFits
<1>4. CursorNear'
  <2>1. \A v \in Writers : TooLow(pc'[v]) = TooLow(pc[v]) /\ TooWide(pc'[v]) = TooWide(pc[v])
    BY <1>1 DEF TooLow, TooWide, CInv, TypeOK
  <2>2. \A t \in Terminals : /\ TooLow(EchoAt(t)') = TooLow(EchoAt(t))
                             /\ TooWide(EchoAt(t)') = TooWide(EchoAt(t))
    BY <1>1, <2>1, EchoNoTerminal DEF EchoAt, TooLow, TooWide
  <2>3. Terminals \subseteq Writers
    BY DEF Writers
  <2>4. ASSUME NEW t \in Terminals
        PROVE  /\ screen_x'[t] <= Cols - 1 + TooWide(pc'[t]) + TooWide(EchoAt(t)')
               /\ screen_y'[t] <= Rows - 1 + TooLow(pc'[t]) + TooLow(EchoAt(t)')
    BY <1>1, <2>1, <2>2, <2>3 DEF CInv, CursorNear
  <2>. QED BY <2>4 DEF CursorNear, TooLow, TooWide
<1>5. Position(current_terminal)' = Position(current_terminal)
  BY <1>1 DEF Position
<1>6. ArgsFresh'
  BY <1>1, <1>5 DEF CInv, TypeOK, ArgsFresh
<1>7. CursorShown'
  <2>1. \A v \in Writers : Target(v)' = Target(v)
    BY <1>1 DEF Target
  <2>2. \A v \in Writers : pc'[v] = "idle" => pc[v] = "idle"
    BY <1>1 DEF CInv, TypeOK
  <2>. QED BY <1>1, <1>5, <2>1, <2>2 DEF CInv, CursorShown
<1>. QED BY <1>2, <1>3, <1>4, <1>6, <1>7 DEF CInv

\* The steps of a writer, one by one.  What each owes is where it leaves the
\* cursor.
LEMMA CheckKeeps == ASSUME CInv, NEW w \in Writers, Check(w) PROVE CInv'
<1>1. PICK t \in Terminals : t = Target(w)
  BY TargetTyped DEF CInv
<1>2. /\ screen_x[t] \in Nat /\ screen_y[t] \in Nat
      /\ screen_x[t] <= Cols - 1 + TooWide("check") + TooWide(OtherAt(w))
  BY <1>1, CursorOfTarget DEF CInv, Check
<1>3. /\ AfterCheck(w) \in {"line", "write"}
      /\ Fits(AfterCheck(w), op[w])
  BY DEF Check, AfterCheck, CInv, OpFits, Fits
<1>4. /\ TooWide(AfterCheck(w)) = 0 /\ TooLow(AfterCheck(w)) = 0 /\ TooWide("check") = 0
      /\ TooWide(OtherAt(w)) \in Nat /\ TooLow(OtherAt(w)) \in Nat
      /\ Cols - 1 \in Nat /\ Rows - 1 \in Nat /\ AfterCheck(w) \in Pcs \ {"idle", "set"}
  BY <1>3, ConsoleAssumption DEF TooWide, TooLow, Pcs
<1>5. CASE Position(t) >= Rows * Cols
  <2>1. Moves(w, 0, Rows - 1, Scrolled(grid), AfterCheck(w))
    BY <1>1, <1>5 DEF Check
  <2>. QED BY <2>1, <1>3, <1>4, MovesKeeps
<1>6. CASE ~(Position(t) >= Rows * Cols)
  <2>1. Moves(w, screen_x[t], screen_y[t], grid, AfterCheck(w))
    BY <1>1, <1>6 DEF Check
  <2>2. screen_y[t] <= Rows - 1
    <3>1. PICK x \in Nat, y \in Nat : x = screen_x[t] /\ y = screen_y[t]
      BY <1>2
    <3>2. Cols * y + x \in Nat /\ (y >= Rows => Cols * y + x >= Rows * Cols)
      BY PastGrid
    <3>. QED BY <1>6, <3>1, <3>2, ConsoleAssumption DEF Position
  <2>3. /\ screen_x[t] <= Cols - 1 + TooWide(AfterCheck(w)) + TooWide(OtherAt(w))
        /\ screen_y[t] <= Rows - 1 + TooLow(AfterCheck(w)) + TooLow(OtherAt(w))
    BY <1>2, <1>4, <2>2
  <2>. QED BY <2>1, <2>3, <1>2, <1>3, <1>4, MovesKeeps
<1>. QED BY <1>5, <1>6

LEMMA WriteKeeps == ASSUME CInv, NEW w \in Writers, Write(w) PROVE CInv'
<1>1. PICK t \in Terminals : t = Target(w)
  BY TargetTyped DEF CInv
<1>2. /\ screen_x[t] \in Nat /\ screen_y[t] \in Nat
      /\ screen_x[t] <= Cols - 1 + TooWide("write") + TooWide(OtherAt(w))
      /\ screen_y[t] <= Rows - 1 + TooLow("write") + TooLow(OtherAt(w))
  BY <1>1, CursorOfTarget DEF CInv, Write
<1>3. \E cells : Moves(w, screen_x[t], screen_y[t], cells, "advance")
  BY <1>1 DEF Write
<1>4. TooWide("write") = TooWide("advance") /\ TooLow("write") = TooLow("advance")
  BY DEF TooWide, TooLow
<1>5. Fits("advance", op[w]) /\ "advance" \in Pcs \ {"idle", "set"}
  BY DEF Write, CInv, OpFits, Fits, Pcs
<1>. QED BY <1>2, <1>3, <1>4, <1>5, MovesKeeps

LEMMA AdvanceKeeps == ASSUME CInv, NEW w \in Writers, Advance(w) PROVE CInv'
<1>1. PICK t \in Terminals : t = Target(w)
  BY TargetTyped DEF CInv
<1>2. /\ screen_x[t] \in Nat /\ screen_y[t] \in Nat
      /\ screen_x[t] <= Cols - 1 + TooWide("advance") + TooWide(OtherAt(w))
      /\ screen_y[t] <= Rows - 1 + TooLow("advance") + TooLow(OtherAt(w))
  BY <1>1, CursorOfTarget DEF CInv, Advance
<1>3. \E cells : Moves(w, screen_x[t] + 1, screen_y[t], cells, "wrap")
  BY <1>1 DEF Advance
<1>4. /\ TooWide("advance") = 0 /\ TooWide("wrap") = 1 /\ TooLow("wrap") = TooLow("advance")
      /\ TooWide(OtherAt(w)) \in Nat /\ Cols - 1 \in Nat
  BY ConsoleAssumption DEF TooWide, TooLow
<1>5. Fits("wrap", op[w]) /\ "wrap" \in Pcs \ {"idle", "set"}
  BY DEF Advance, CInv, OpFits, Fits, Pcs
<1>6. /\ screen_x[t] + 1 \in Nat
      /\ screen_x[t] + 1 <= Cols - 1 + TooWide("wrap") + TooWide(OtherAt(w))
  BY <1>2, <1>4
<1>. QED BY <1>2, <1>3, <1>4, <1>5, <1>6, MovesKeeps

LEMMA WrapKeeps == ASSUME CInv, NEW w \in Writers, Wrap(w) PROVE CInv'
<1>1. PICK t \in Terminals : t = Target(w)
  BY TargetTyped DEF CInv
<1>2. /\ screen_x[t] \in Nat /\ screen_y[t] \in Nat
      /\ screen_y[t] <= Rows - 1 + TooLow("wrap") + TooLow(OtherAt(w))
  BY <1>1, CursorOfTarget DEF CInv, Wrap
<1>3. /\ AfterChar(w) \in {"clear", "args"}
      /\ Fits(AfterChar(w), op[w]) /\ AfterChar(w) \in Pcs \ {"idle", "set"}
  BY DEF Wrap, AfterChar, CInv, OpFits, Fits, Pcs, Quiet
<1>4. /\ TooWide(AfterChar(w)) = 0 /\ TooLow(AfterChar(w)) = 1 /\ TooLow("wrap") = 0
      /\ TooWide(OtherAt(w)) \in Nat /\ TooLow(OtherAt(w)) \in Nat
      /\ Cols - 1 \in Nat /\ Rows - 1 \in Nat
  BY <1>3, ConsoleAssumption DEF TooWide, TooLow
<1>5. CASE screen_x[t] >= Cols
  <2>1. \E cells : Moves(w, 0, screen_y[t] + 1, cells, AfterChar(w))
    BY <1>1, <1>5 DEF Wrap
  <2>2. /\ screen_y[t] + 1 \in Nat
        /\ screen_y[t] + 1 <= Rows - 1 + TooLow(AfterChar(w)) + TooLow(OtherAt(w))
        /\ 0 <= Cols - 1 + TooWide(AfterChar(w)) + TooWide(OtherAt(w))
    BY <1>2, <1>4
  <2>. QED BY <2>1, <2>2, <1>3, MovesKeeps
<1>6. CASE ~(screen_x[t] >= Cols)
  <2>1. \E cells : Moves(w, screen_x[t], screen_y[t], cells, AfterChar(w))
    BY <1>1, <1>6 DEF Wrap
  <2>2. /\ screen_y[t] <= Rows - 1 + TooLow(AfterChar(w)) + TooLow(OtherAt(w))
        /\ screen_x[t] <= Cols - 1 + TooWide(AfterChar(w)) + TooWide(OtherAt(w))
    BY <1>2, <1>4, <1>6, ConsoleAssumption
  <2>. QED BY <2>1, <2>2, <1>2, <1>3, MovesKeeps
<1>. QED BY <1>5, <1>6

LEMMA LineKeeps == ASSUME CInv, NEW w \in Writers, Line(w) PROVE CInv'
<1>1. PICK t \in Terminals : t = Target(w)
  BY TargetTyped DEF CInv
<1>2. /\ screen_x[t] \in Nat /\ screen_y[t] \in Nat
      /\ screen_x[t] <= Cols - 1 + TooWide("line") + TooWide(OtherAt(w))
      /\ screen_y[t] <= Rows - 1 + TooLow("line") + TooLow(OtherAt(w))
  BY <1>1, CursorOfTarget DEF CInv, Line
<1>3. \E cells : Moves(w, screen_x[t], screen_y[t] + 1, cells, "linefeed")
  BY <1>1 DEF Line
<1>4. /\ TooWide("linefeed") = TooWide("line") /\ TooLow("linefeed") = 1 /\ TooLow("line") = 0
      /\ TooLow(OtherAt(w)) \in Nat /\ Rows - 1 \in Nat
  BY ConsoleAssumption DEF TooWide, TooLow
<1>5. Fits("linefeed", op[w]) /\ "linefeed" \in Pcs \ {"idle", "set"}
  BY DEF Line, CInv, OpFits, Fits, Pcs
<1>6. /\ screen_y[t] + 1 \in Nat
      /\ screen_y[t] + 1 <= Rows - 1 + TooLow("linefeed") + TooLow(OtherAt(w))
  BY <1>2, <1>4
<1>. QED BY <1>2, <1>3, <1>4, <1>5, <1>6, MovesKeeps

LEMMA LineFeedKeeps == ASSUME CInv, NEW w \in Writers, LineFeed(w) PROVE CInv'
<1>1. PICK t \in Terminals : t = Target(w)
  BY TargetTyped DEF CInv
<1>2. /\ screen_x[t] \in Nat /\ screen_y[t] \in Nat
      /\ screen_x[t] <= Cols - 1 + TooWide("linefeed") + TooWide(OtherAt(w))
      /\ screen_y[t] <= Rows - 1 + TooLow("linefeed") + TooLow(OtherAt(w))
  BY <1>1, CursorOfTarget DEF CInv, LineFeed
<1>3. /\ TooWide("return") = TooWide("linefeed") /\ TooLow("return") = TooLow("linefeed")
      /\ TooLow("return") = 1 /\ TooLow(OtherAt(w)) \in Nat /\ Rows - 1 \in Nat
  BY ConsoleAssumption DEF TooWide, TooLow
<1>4. Fits("return", op[w]) /\ "return" \in Pcs \ {"idle", "set"}
  BY DEF LineFeed, CInv, OpFits, Fits, Pcs
<1>5. \/ \E cells : Moves(w, screen_x[t], Rows - 1, cells, "return")
      \/ \E cells : Moves(w, screen_x[t], screen_y[t], cells, "return")
  BY <1>1 DEF LineFeed
<1>6. Rows - 1 <= Rows - 1 + TooLow("return") + TooLow(OtherAt(w))
  BY <1>3
<1>. QED BY <1>2, <1>3, <1>4, <1>5, <1>6, MovesKeeps

LEMMA ReturnKeeps == ASSUME CInv, NEW w \in Writers, Return(w) PROVE CInv'
<1>1. PICK t \in Terminals : t = Target(w)
  BY TargetTyped DEF CInv
<1>2. /\ screen_y[t] \in Nat
      /\ screen_y[t] <= Rows - 1 + TooLow("return") + TooLow(OtherAt(w))
  BY <1>1, CursorOfTarget DEF CInv, Return
<1>3. TooWide("args") = 0 /\ TooWide(OtherAt(w)) \in Nat /\ TooLow("args") = TooLow("return")
  BY DEF TooWide, TooLow
<1>4. Fits("args", op[w]) /\ "args" \in Pcs \ {"idle", "set"}
  BY DEF Fits, Pcs, Quiet
<1>5. \E cells : Moves(w, 0, screen_y[t], cells, "args")
  BY <1>1 DEF Return
<1>6. 0 <= Cols - 1 + TooWide("args") + TooWide(OtherAt(w))
  BY <1>3, ConsoleAssumption
<1>. QED BY <1>2, <1>3, <1>4, <1>5, <1>6, MovesKeeps

LEMMA BackKeeps == ASSUME CInv, NEW w \in Writers, Back(w) PROVE CInv'
<1>1. PICK t \in Terminals : t = Target(w)
  BY TargetTyped DEF CInv
<1>2. /\ screen_x[t] \in Nat /\ screen_y[t] \in Nat
      /\ screen_x[t] <= Cols - 1 + TooWide("back") + TooWide(OtherAt(w))
      /\ screen_y[t] <= Rows - 1 + TooLow("back") + TooLow(OtherAt(w))
  BY <1>1, CursorOfTarget DEF CInv, Back
<1>3. /\ TooWide("args") = TooWide("back") /\ TooWide("args") = 0
      /\ TooLow("args") = TooLow("back") /\ TooLow("args") = 1
      /\ TooWide(OtherAt(w)) \in Nat /\ TooLow(OtherAt(w)) \in Nat
      /\ Cols - 1 \in Nat /\ Rows - 1 \in Nat
  BY ConsoleAssumption DEF TooWide, TooLow
<1>4. Fits("args", op[w]) /\ "args" \in Pcs \ {"idle", "set"}
  BY DEF Fits, Pcs, Quiet
<1>5. PICK x, y, cells : /\ Moves(w, x, y, cells, "args")
                         /\ \/ x = 0 /\ y = 0
                            \/ /\ screen_x[t] = 0 /\ ~(Cols * screen_y[t] - 1 < 0)
                               /\ x = Cols - 1 /\ y = screen_y[t] - 1
                            \/ /\ screen_x[t] # 0 /\ x = screen_x[t] - 1 /\ y = screen_y[t]
  BY <1>1 DEF Back
<1>6. ~(Cols * screen_y[t] - 1 < 0) => screen_y[t] # 0
  BY ConsoleAssumption
<1>7. /\ x \in Nat /\ y \in Nat
      /\ x <= Cols - 1 + TooWide("args") + TooWide(OtherAt(w))
      /\ y <= Rows - 1 + TooLow("args") + TooLow(OtherAt(w))
  BY <1>2, <1>3, <1>5, <1>6
<1>. QED BY <1>4, <1>5, <1>7, MovesKeeps

LEMMA ClearKeeps == ASSUME CInv, NEW w \in Writers, Clear(w) PROVE CInv'
<1>1. CursorMoves(w, 0, 0, "args")
  BY DEF Clear, CursorMoves, CInv, TypeOK
<1>2. /\ 0 <= Cols - 1 + TooWide("args") + TooWide(OtherAt(w))
      /\ 0 <= Rows - 1 + TooLow("args") + TooLow(OtherAt(w))
  BY ConsoleAssumption DEF TooWide, TooLow
<1>3. Fits("args", op[w]) /\ "args" \in Pcs \ {"idle", "set"}
  BY DEF Fits, Pcs, Quiet
<1>. QED BY <1>1, <1>2, <1>3, CursorMovesKeeps

\* Steps that leave the cursors alone and no writer past its check.
LEMMA QuietKeepsNear ==
    ASSUME CInv, NEW w \in Writers, pc[w] \in Quiet, NEW next \in Quiet,
           pc' = [pc EXCEPT ![w] = next],
           UNCHANGED <<screen_x, screen_y, current_terminal>>
    PROVE  CursorNear'
<1>1. \A v \in Writers : TooLow(pc'[v]) = TooLow(pc[v]) /\ TooWide(pc'[v]) = TooWide(pc[v])
  BY DEF TooLow, TooWide, CInv, TypeOK, Quiet
<1>2. \A t \in Terminals : /\ TooLow(EchoAt(t)') = TooLow(EchoAt(t))
                           /\ TooWide(EchoAt(t)') = TooWide(EchoAt(t))
  BY <1>1, EchoNoTerminal DEF EchoAt, TooLow, TooWide
<1>3. Terminals \subseteq Writers
  BY DEF Writers
<1>4. ASSUME NEW t \in Terminals
      PROVE  /\ screen_x'[t] <= Cols - 1 + TooWide(pc'[t]) + TooWide(EchoAt(t)')
             /\ screen_y'[t] <= Rows - 1 + TooLow(pc'[t]) + TooLow(EchoAt(t)')
  BY <1>1, <1>2, <1>3 DEF CInv, CursorNear
<1>. QED BY <1>4 DEF CursorNear, TooLow, TooWide

\* What is set is the position of a cursor on the grid.
LEMMA PositionTyped ==
    ASSUME TypeOK, NEW t \in Terminals
    PROVE  Position(t) % (Rows * Cols) \in Int
<1>1. Position(t) \in Nat
  BY PastGrid DEF Position, TypeOK
<1>2. Rows * Cols \in Nat \ {0}
  BY ConsoleAssumption
<1>. QED BY <1>1, <1>2

LEMMA ArgsKeeps == ASSUME CInv, NEW w \in Writers, Args(w) PROVE CInv'
<1>1. /\ pc[w] = "args" /\ pc' = [pc EXCEPT ![w] = "set"]
      /\ args' = [args EXCEPT ![w] = Position(current_terminal) % (Rows * Cols)]
      /\ op' = [op EXCEPT ![w] = "none"] /\ passed' = passed \ {w}
      /\ UNCHANGED <<current_terminal, screen_x, screen_y, crtc, torn, late>>
  BY DEF Args, cursor
<1>2. Position(current_terminal) % (Rows * Cols) \in Int
  BY PositionTyped DEF CInv, TypeOK
<1>3. TypeOK'
  BY <1>1, <1>2 DEF CInv, TypeOK, Pcs, Quiet
<1>4. OpFits'
  BY <1>1 DEF CInv, TypeOK, OpFits, Fits
<1>5. CursorNear'
  BY <1>1, QuietKeepsNear DEF Quiet
<1>6. Position(current_terminal)' = Position(current_terminal)
  BY <1>1 DEF Position
<1>7. ArgsFresh'
  BY <1>1, <1>6 DEF CInv, TypeOK, ArgsFresh
<1>8. CursorShown'
  <2>1. \A v \in Writers : Target(v)' = Target(v)
    BY <1>1 DEF Target
  <2>2. \A v \in Writers : pc'[v] = "idle" => pc[v] = "idle"
    BY <1>1 DEF CInv, TypeOK
  <2>. QED BY <1>1, <1>6, <2>1, <2>2 DEF CInv, CursorShown
<1>. QED BY <1>3, <1>4, <1>5, <1>7, <1>8 DEF CInv

LEMMA SetCursorKeeps == ASSUME CInv, NEW w \in Writers, SetCursor(w) PROVE CInv'
<1>1. /\ pc[w] = "set" /\ pc' = [pc EXCEPT ![w] = "idle"]
      /\ args' = [args EXCEPT ![w] = 0]
      /\ crtc' = args[w] /\ late' = (w \in passed) /\ passed' = passed \ {w}
      /\ UNCHANGED <<current_terminal, screen_x, screen_y, op, torn>>
  BY DEF SetCursor, cursor
<1>2. TypeOK'
  BY <1>1 DEF CInv, TypeOK, Pcs, Quiet
<1>3. OpFits'
  BY <1>1 DEF CInv, TypeOK, OpFits, Fits
<1>4. CursorNear'
  BY <1>1, QuietKeepsNear DEF Quiet
<1>5. Position(current_terminal)' = Position(current_terminal)
  BY <1>1 DEF Position
<1>6. ArgsFresh'
  BY <1>1, <1>5 DEF CInv, TypeOK, ArgsFresh
<1>7. CursorShown'
  BY <1>1, <1>5 DEF CInv, ArgsFresh, CursorShown
<1>. QED BY <1>2, <1>3, <1>4, <1>6, <1>7 DEF CInv

LEMMA SwitchKeeps == ASSUME CInv, NEW t \in Terminals, SwitchTerminal(t) PROVE CInv'
<1>1. /\ pc[Echo] = "idle" /\ current_terminal' = t
      /\ crtc' = Position(t) % (Rows * Cols)
      /\ passed' = {v \in Writers : pc[v] = "set"}
      /\ UNCHANGED <<screen_x, screen_y, pc, op, args, torn>>
  BY DEF SwitchTerminal, cursor
<1>2. TypeOK' /\ OpFits'
  BY <1>1 DEF CInv, TypeOK, OpFits
<1>3. CursorNear'
  BY <1>1 DEF CInv, CursorNear, EchoAt
<1>4. Position(t)' = Position(t)
  BY <1>1 DEF Position
<1>5. ArgsFresh'
  BY <1>1 DEF ArgsFresh
<1>6. CursorShown'
  BY <1>1, <1>4 DEF CursorShown
<1>. QED BY <1>2, <1>3, <1>5, <1>6 DEF CInv

LEMMA NextKeepsCInv == CInv /\ [Next]_vars => CInv'
<1>. SUFFICES ASSUME CInv, [Next]_vars PROVE CInv'
  OBVIOUS
<1>1. ASSUME NEW t \in Terminals, Newline(t) PROVE CInv'
  BY <1>1, BeginKeeps DEF Newline, Writers, Fits
<1>2. ASSUME NEW t \in Terminals, SwitchTerminal(t) PROVE CInv'
  BY <1>2, SwitchKeeps
<1>3. ASSUME NEW t \in Terminals, NEW c \in Chars, Putc(t, c) PROVE CInv'
  BY <1>3, BeginKeeps DEF Putc, Writers, Fits
<1>4. ASSUME NEW c \in Chars, EchoKey(c) PROVE CInv'
  BY <1>4, BeginKeeps, EchoNoTerminal DEF EchoKey, Fits
<1>5. CASE EchoEnter \/ EchoBack \/ EchoClear
  BY <1>5, BeginKeeps, EchoNoTerminal DEF EchoEnter, EchoBack, EchoClear, Fits
<1>6. ASSUME NEW w \in Writers, WriterStep(w) PROVE CInv'
  BY <1>6, CheckKeeps, WriteKeeps, AdvanceKeeps, WrapKeeps, LineKeeps, LineFeedKeeps,
     ReturnKeeps, BackKeeps, ClearKeeps, ArgsKeeps, SetCursorKeeps DEF WriterStep
<1>7. CASE UNCHANGED vars
  <2>1. UNCHANGED <<current_terminal, screen_x, screen_y, crtc, pc, op, args, torn, passed, late>>
    BY <1>7 DEF vars, cursor, hist
  <2>. QED BY <2>1 DEF CInv, TypeOK, OpFits, CursorNear, EchoAt, ArgsFresh, CursorShown,
              Position, Target
<1>. QED BY <1>1, <1>2, <1>3, <1>4, <1>5, <1>6, <1>7 DEF Next

LEMMA InitCInv == Init => CInv
<1>. SUFFICES ASSUME Init PROVE CInv
  OBVIOUS
<1>1. TypeOK
  <2>1. pc \in [Writers -> Pcs]
    BY DEF Init, Pcs, Quiet
  <2>2. op \in [Writers -> Chars \cup {"newline", "back", "clear", "none"}]
    BY DEF Init
  <2>3. args \in [Writers -> Int] /\ screen_x \in [Terminals -> Nat]
    BY DEF Init
  <2>4. torn \in BOOLEAN
    BY DEF Init
  <2>5. screen_y \in [Terminals -> Nat] /\ current_terminal \in Terminals
    BY DEF Init
  <2>. QED BY <2>1, <2>2, <2>3, <2>4, <2>5 DEF TypeOK
<1>11. OpFits
  BY DEF Init, OpFits, Fits
<1>2. CursorNear
  BY ConsoleAssumption, EchoNoTerminal DEF Init, CursorNear, TooLow, TooWide, EchoAt, Writers
<1>3. Position(current_terminal) = 0
  BY ConsoleAssumption DEF Init, Position
<1>4. ArgsFresh
  BY DEF Init, ArgsFresh
<1>5. CursorShown
  <2>1. Rows * Cols \in Nat \ {0}
    BY ConsoleAssumption
  <2>2. 0 % (Rows * Cols) = 0
    BY <2>1
  <2>. QED BY <1>3, <2>2 DEF Init, CursorShown
<1>. QED BY <1>1, <1>11, <1>2, <1>4, <1>5 DEF CInv

LEMMA NearFromCInv == ASSUME CInv PROVE WritesNearGrid
<1>. SUFFICES ASSUME NEW w \in Writers, pc[w] = "write"
     PROVE  Position(Target(w)) \in 0 .. (Rows + 1) * Cols - 1
  BY DEF WritesNearGrid
<1>1. PICK t \in Terminals : t = Target(w)
  BY TargetTyped DEF CInv
<1>2. PICK x \in Nat, y \in Nat : x = screen_x[t] /\ y = screen_y[t]
  BY <1>1 DEF CInv, TypeOK
<1>3. /\ x <= Cols - 1 + TooWide("write") + TooWide(OtherAt(w))
      /\ y <= Rows - 1 + TooLow("write") + TooLow(OtherAt(w))
  BY <1>1, <1>2, CursorOfTarget DEF CInv
<1>4. \/ x <= Cols - 1 /\ y <= Rows
      \/ x <= Cols /\ y <= Rows - 1
  BY <1>3, ConsoleAssumption DEF TooWide, TooLow
<1>5. /\ Cols \in Nat \ {0} /\ Rows \in Nat \ {0} /\ Cols * y \in Nat
      /\ (Rows + 1) * Cols = Cols * Rows + Cols /\ Cols * (Rows - 1) = Cols * Rows - Cols
  BY ConsoleAssumption
<1>6. y <= Rows => Cols * y <= Cols * Rows
  BY <1>5, ProductMonotonic
<1>7. y <= Rows - 1 => Cols * y <= Cols * (Rows - 1)
  <2>1. Rows - 1 \in Nat
    BY <1>5
  <2>. QED BY <1>5, <2>1, ProductMonotonic
<1>8. Cols * Rows \in Nat
  BY <1>5
<1>9. Cols * y + x \in 0 .. (Rows + 1) * Cols - 1
  BY <1>4, <1>5, <1>6, <1>7, <1>8
<1>. QED BY <1>1, <1>2, <1>9 DEF Position

\* On a grid of any size, with any number of terminals and however ticks and
\* keys fall between the steps of putc and of the echo (lib.c), no character is
\* written further than one row past the grid.
THEOREM NoWriteFarOff == Spec => []WritesNearGrid
<1>1. CInv => WritesNearGrid
  BY NearFromCInv
<1>. QED BY <1>1, InitCInv, NextKeepsCInv, PTL DEF Spec

\* The display's cursor is where the terminal on display has its own, whoever
\* called set_cursor_position last, unless from arguments fetched before a change.
THEOREM CursorStaysShown == Spec => []CursorShown
<1>1. CInv => CursorShown
  BY DEF CInv
<1>. QED BY <1>1, InitCInv, NextKeepsCInv, PTL DEF Spec

----------------------------------------------------------------------------
\* Cells and pages

RowOf(c) == 1 + (c \div Cols)
ColOf(c) == 1 + (c % Cols)

\* Cells are numbered row by row.
LEMMA CellFacts ==
    ASSUME NEW c \in Cells
    PROVE  /\ c \in Nat /\ RowOf(c) \in 1 .. Rows /\ ColOf(c) \in 1 .. Cols
           /\ c = Cols * (RowOf(c) - 1) + (ColOf(c) - 1)
<1>1. Cols \in Nat \ {0} /\ Rows \in Nat \ {0} /\ c \in Nat /\ c < Rows * Cols
  BY ConsoleAssumption DEF Cells
<1>2. c = (c \div Cols) * Cols + (c % Cols)
  BY <1>1, SMT
<1>3. (c \div Cols) \in Nat /\ (c % Cols) \in 0 .. Cols - 1
  BY <1>1
<1>4. PICK d \in Nat, m \in 0 .. Cols - 1 : d = c \div Cols /\ m = c % Cols
  BY <1>3
<1>5. d < Rows
  <2>1. d >= Rows => Cols * d + m >= Rows * Cols
    BY <1>4, PastGrid
  <2>. QED BY <1>1, <1>2, <1>4, <2>1
<1>. QED BY <1>1, <1>2, <1>4, <1>5 DEF RowOf, ColOf

LEMMA CellUnique ==
    ASSUME NEW c \in Cells, NEW y \in Nat, NEW x \in 0 .. Cols - 1
    PROVE  c = Cols * y + x <=> RowOf(c) = y + 1 /\ ColOf(c) = x + 1
<1>1. PICK d \in Nat, m \in 0 .. Cols - 1 : d = RowOf(c) - 1 /\ m = ColOf(c) - 1
  BY CellFacts, ConsoleAssumption
<1>2. RowOf(c) = d + 1 /\ ColOf(c) = m + 1 /\ c = Cols * d + m
  BY <1>1, CellFacts
<1>3. ASSUME Cols * d + m = Cols * y + x PROVE d = y /\ m = x
  BY <1>3, ConsoleAssumption
<1>. QED BY <1>2, <1>3

\* The cell below.
LEMMA CellBelow ==
    ASSUME NEW c \in Cells
    PROVE  /\ c + Cols \in Cells <=> RowOf(c) < Rows
           /\ c + Cols \in Cells => /\ RowOf(c + Cols) = RowOf(c) + 1
                                    /\ ColOf(c + Cols) = ColOf(c)
<1>1. PICK d \in Nat, m \in 0 .. Cols - 1 : d = RowOf(c) - 1 /\ m = ColOf(c) - 1
  BY CellFacts, ConsoleAssumption
<1>2. RowOf(c) = d + 1 /\ ColOf(c) = m + 1 /\ c = Cols * d + m /\ c \in Nat
  BY <1>1, CellFacts
<1>3. Cols \in Nat \ {0} /\ Rows \in Nat \ {0} /\ d + 1 \in Nat
  BY ConsoleAssumption
<1>4. c + Cols = Cols * (d + 1) + m
  BY <1>2, <1>3
<1>5. ASSUME d + 1 < Rows PROVE c + Cols \in Cells
  <2>1. Cols * (d + 1) + Cols <= Rows * Cols
    BY <1>3, <1>5, PastGrid
  <2>. QED BY <1>2, <1>3, <1>4, <2>1 DEF Cells
<1>6. ASSUME c + Cols \in Cells PROVE d + 1 < Rows
  <2>1. d + 1 >= Rows => Cols * (d + 1) + m >= Rows * Cols
    BY <1>3, PastGrid
  <2>. QED BY <1>3, <1>4, <1>6, <2>1 DEF Cells
<1>7. ASSUME c + Cols \in Cells
      PROVE  RowOf(c + Cols) = d + 1 + 1 /\ ColOf(c + Cols) = m + 1
  <2>1. PICK b \in Cells, e \in Nat : b = c + Cols /\ e = d + 1
    BY <1>3, <1>7
  <2>2. b = Cols * e + m <=> RowOf(b) = e + 1 /\ ColOf(b) = m + 1
    BY CellUnique
  <2>. QED BY <1>4, <2>1, <2>2
<1>. QED BY <1>2, <1>3, <1>5, <1>6, <1>7

\* What a page has in a row and a column.
Glyph(p, r, k) == IF r \in DOMAIN p /\ k \in DOMAIN p[r] THEN p[r][k] ELSE Blank
Lines == Seq(Glyphs)

GridShows(g, p) == \A c \in Cells : g[c] = Glyph(p, RowOf(c), ColOf(c))
Shows(x, y, g, p) == /\ x = Len(Last(p))
                     /\ y = Len(p) - 1
                     /\ GridShows(g, p)

\* Pages a typewriter on this grid can have: one line may be below the grid,
\* and is empty then.
Good(p) ==
    /\ p \in Seq(Lines)
    /\ Len(p) \in 1 .. Rows + 1
    /\ \A i \in 1 .. Len(p) : Len(p[i]) <= Cols
    /\ Len(Last(p)) < Cols
    /\ Len(p) = Rows + 1 => Last(p) = << >>

Put(q, c) == Front(q) \o <<Append(Last(q), c)>>

\* The page with its last line replaced.
LEMMA LastReplaced ==
    ASSUME NEW p \in Seq(Lines), Len(p) # 0, NEW l \in Lines
    PROVE  /\ Front(p) \o <<l>> \in Seq(Lines)
           /\ Len(Front(p) \o <<l>>) = Len(p)
           /\ \A i \in 1 .. Len(p) : (Front(p) \o <<l>>)[i] = IF i = Len(p) THEN l ELSE p[i]
           /\ Last(p) \in Lines /\ Last(p) = p[Len(p)]
           /\ Last(Front(p) \o <<l>>) = l
<1>1. PICK n \in Nat \ {0} : n = Len(p)
  BY LenProperties
<1>2. /\ Front(p) \in Seq(Lines) /\ Len(Front(p)) = n - 1
      /\ \A i \in 1 .. n - 1 : Front(p)[i] = p[i]
  <2>1. n - 1 \in Int /\ \A i \in 1 .. n - 1 : p[i] \in Lines
    BY <1>1, ElementOfSeq
  <2>2. /\ SubSeq(p, 1, n - 1) \in Seq(Lines)
        /\ Len(SubSeq(p, 1, n - 1)) = IF 1 <= n - 1 THEN n - 1 - 1 + 1 ELSE 0
        /\ \A i \in 1 .. n - 1 - 1 + 1 : SubSeq(p, 1, n - 1)[i] = p[1 + i - 1]
    BY <2>1, SubSeqProperties
  <2>3. n - 1 - 1 + 1 = n - 1 /\ (~(1 <= n - 1) => n - 1 = 0)
    OBVIOUS
  <2>4. \A i \in 1 .. n - 1 : 1 + i - 1 = i
    OBVIOUS
  <2>. QED BY <1>1, <2>2, <2>3, <2>4 DEF Front
<1>3. <<l>> \in Seq(Lines) /\ Len(<<l>>) = 1 /\ <<l>>[1] = l
  OBVIOUS
<1>4. /\ Front(p) \o <<l>> \in Seq(Lines)
      /\ Len(Front(p) \o <<l>>) = n - 1 + 1
      /\ \A i \in 1 .. n - 1 + 1 : (Front(p) \o <<l>>)[i] =
                IF i <= n - 1 THEN Front(p)[i] ELSE <<l>>[i - (n - 1)]
  BY <1>2, <1>3, ConcatProperties
<1>5. n - 1 + 1 = n
  OBVIOUS
<1>6. ASSUME NEW i \in 1 .. n PROVE (Front(p) \o <<l>>)[i] = IF i = n THEN l ELSE p[i]
  <2>1. CASE i = n
    BY <1>3, <1>4, <1>5, <2>1
  <2>2. CASE i # n
    <3>1. i \in 1 .. n - 1
      BY <2>2
    <3>. QED BY <1>2, <1>4, <1>5, <2>2, <3>1
  <2>. QED BY <2>1, <2>2
<1>7. p[n] \in Lines
  BY <1>1, ElementOfSeq
<1>. QED BY <1>1, <1>4, <1>5, <1>6, <1>7 DEF Last

LEMMA AppendLine ==
    ASSUME NEW p \in Seq(Lines)
    PROVE  /\ Append(p, << >>) \in Seq(Lines)
           /\ Len(Append(p, << >>)) = Len(p) + 1
           /\ \A i \in 1 .. Len(p) : Append(p, << >>)[i] = p[i]
           /\ Last(Append(p, << >>)) = << >>
           /\ Append(p, << >>)[Len(p) + 1] = << >>
  BY AppendProperties, EmptySeq DEF Last, Lines

LEMMA TailPage ==
    ASSUME NEW p \in Seq(Lines), Len(p) > 1
    PROVE  /\ Tail(p) \in Seq(Lines) /\ Len(Tail(p)) = Len(p) - 1
           /\ \A i \in 1 .. Len(p) - 1 : Tail(p)[i] = p[i + 1]
           /\ Last(Tail(p)) = Last(p)
<1>1. p # << >>
  OBVIOUS
<1>2. /\ Tail(p) \in Seq(Lines) /\ Len(Tail(p)) = Len(p) - 1
      /\ \A i \in 1 .. Len(p) - 1 : Tail(p)[i] = p[i + 1]
  BY <1>1, HeadTailProperties
<1>3. Len(p) - 1 \in 1 .. Len(p) - 1 /\ (Len(p) - 1) + 1 = Len(p)
  BY LenProperties
<1>. QED BY <1>2, <1>3 DEF Last

\* Lines of a page are sequences.
LEMMA LineTyped ==
    ASSUME NEW p \in Seq(Lines), NEW i \in 1 .. Len(p)
    PROVE  /\ p[i] \in Lines /\ Len(p[i]) \in Nat /\ DOMAIN p[i] = 1 .. Len(p[i])
           /\ DOMAIN p = 1 .. Len(p) /\ Len(p) \in Nat
<1>1. p[i] \in Lines
  BY ElementOfSeq
<1>. QED BY <1>1, LenProperties DEF Lines

\* An empty line at the end shows nothing.
LEMMA ShowsAppended ==
    ASSUME NEW p \in Seq(Lines), NEW g, GridShows(g, p)
    PROVE  GridShows(g, Append(p, << >>))
<1>. DEFINE a == Append(p, << >>)
<1>1. a \in Seq(Lines) /\ Len(a) = Len(p) + 1 /\ a[Len(p) + 1] = << >>
  BY AppendLine
<1>2. \A i \in 1 .. Len(p) : a[i] = p[i]
  BY AppendLine
<1>3. DOMAIN p = 1 .. Len(p) /\ DOMAIN a = 1 .. Len(p) + 1 /\ Len(p) \in Nat
  BY <1>1, LenProperties
<1>. HIDE DEF a
<1>4. ASSUME NEW r \in Nat, NEW k PROVE Glyph(a, r, k) = Glyph(p, r, k)
  <2>1. CASE r = Len(p) + 1
    BY <1>1, <1>3, <2>1 DEF Glyph
  <2>2. CASE r # Len(p) + 1
    <3>1. r \in DOMAIN a <=> r \in DOMAIN p
      BY <1>3, <2>2
    <3>. QED BY <1>2, <1>3, <3>1 DEF Glyph
  <2>. QED BY <2>1, <2>2
<1>5. \A c \in Cells : RowOf(c) \in Nat
  BY CellFacts
<1>. QED BY <1>4, <1>5 DEF GridShows, a

\* Scrolling a full page: the first row goes, the empty line comes in.
LEMMA ShowsScrolled ==
    ASSUME NEW p \in Seq(Lines), Len(p) = Rows + 1, Last(p) = << >>,
           NEW g, GridShows(g, p)
    PROVE  GridShows(Scrolled(g), Tail(p))
<1>1. Rows \in Nat \ {0}
  BY ConsoleAssumption
<1>2. /\ Tail(p) \in Seq(Lines) /\ Len(Tail(p)) = Rows
      /\ \A i \in 1 .. Rows : Tail(p)[i] = p[i + 1]
  BY <1>1, TailPage
<1>3. DOMAIN p = 1 .. Rows + 1 /\ DOMAIN Tail(p) = 1 .. Rows
  BY <1>2, LenProperties
<1>4. ASSUME NEW r \in 1 .. Rows, NEW k PROVE Glyph(Tail(p), r, k) = Glyph(p, r + 1, k)
  <2>1. r + 1 \in 1 .. Rows + 1 /\ Tail(p)[r] = p[r + 1]
    BY <1>1, <1>2
  <2>. QED BY <1>3, <2>1 DEF Glyph
<1>5. ASSUME NEW k PROVE Glyph(p, Rows + 1, k) = Blank
  <2>1. p[Rows + 1] = << >>
    BY DEF Last
  <2>. QED BY <2>1 DEF Glyph
<1>6. ASSUME NEW c \in Cells
      PROVE  Scrolled(g)[c] = Glyph(Tail(p), RowOf(c), ColOf(c))
  <2>1. /\ RowOf(c) \in 1 .. Rows
        /\ Glyph(Tail(p), RowOf(c), ColOf(c)) = Glyph(p, RowOf(c) + 1, ColOf(c))
    BY <1>4, CellFacts
  <2>2. CASE c + Cols \in Cells
    <3>1. RowOf(c + Cols) = RowOf(c) + 1 /\ ColOf(c + Cols) = ColOf(c)
      BY <2>2, CellBelow
    <3>2. g[c + Cols] = Glyph(p, RowOf(c + Cols), ColOf(c + Cols))
      BY <2>2 DEF GridShows
    <3>3. Scrolled(g)[c] = g[c + Cols]
      BY <2>2 DEF Scrolled
    <3>. QED BY <2>1, <3>1, <3>2, <3>3
  <2>3. CASE c + Cols \notin Cells
    <3>1. ~(RowOf(c) < Rows)
      BY <2>3, CellBelow
    <3>2. RowOf(c) + 1 = Rows + 1
      BY <1>1, <2>1, <3>1
    <3>3. Scrolled(g)[c] = Blank
      BY <2>3 DEF Scrolled
    <3>. QED BY <1>5, <2>1, <3>2, <3>3
  <2>. QED BY <2>2, <2>3
<1>. QED BY <1>6 DEF GridShows

\* The pages p and q differ in one place of the grid, where q has v.
OneChanged(p, q, x, y, v) ==
    \A r \in 1 .. Rows, k \in 1 .. Cols :
        Glyph(q, r, k) = IF r = y + 1 /\ k = x + 1 THEN v ELSE Glyph(p, r, k)

LEMMA ShowsOneChanged ==
    ASSUME NEW p, NEW q, NEW g, GridShows(g, p), NEW x \in 0 .. Cols - 1, NEW y \in Nat,
           NEW v, OneChanged(p, q, x, y, v)
    PROVE  GridShows([c \in Cells |-> IF c = Cols * y + x THEN v ELSE g[c]], q)
<1>. SUFFICES ASSUME NEW c \in Cells
     PROVE  (IF c = Cols * y + x THEN v ELSE g[c]) = Glyph(q, RowOf(c), ColOf(c))
  BY DEF GridShows
<1>1. RowOf(c) \in 1 .. Rows /\ ColOf(c) \in 1 .. Cols
  BY CellFacts
<1>2. c = Cols * y + x <=> RowOf(c) = y + 1 /\ ColOf(c) = x + 1
  BY CellUnique
<1>3. g[c] = Glyph(p, RowOf(c), ColOf(c))
  BY DEF GridShows
<1>. QED BY <1>1, <1>2, <1>3 DEF OneChanged

\* A character is put at the end of the last line.
LEMMA PutFacts ==
    ASSUME NEW q \in Seq(Lines), Len(q) # 0, NEW c \in Glyphs
    PROVE  /\ Put(q, c) \in Seq(Lines) /\ Len(Put(q, c)) = Len(q)
           /\ \A i \in 1 .. Len(q) : i # Len(q) => Put(q, c)[i] = q[i]
           /\ Last(Put(q, c)) = Append(Last(q), c)
           /\ Len(Append(Last(q), c)) = Len(Last(q)) + 1
           /\ \A r, k \in Nat : Glyph(Put(q, c), r, k) =
                  IF r = Len(q) /\ k = Len(Last(q)) + 1 THEN c ELSE Glyph(q, r, k)
<1>1. PICK l : l = Append(Last(q), c)
  OBVIOUS
<1>2. Last(q) \in Lines /\ Last(q) = q[Len(q)]
  BY LastReplaced, EmptySeq DEF Lines
<1>3. PICK n \in Nat : n = Len(Last(q))
  BY <1>2, LenProperties DEF Lines
<1>4. /\ l \in Lines /\ Len(l) = n + 1 /\ l[n + 1] = c
      /\ \A k \in 1 .. n : l[k] = Last(q)[k]
  BY <1>1, <1>2, <1>3, AppendProperties DEF Lines
<1>5. PICK m \in Nat \ {0} : m = Len(q)
  BY LenProperties
<1>6. PICK a : a = Put(q, c)
  OBVIOUS
<1>7. /\ a \in Seq(Lines) /\ Len(a) = m /\ Last(a) = l
      /\ \A i \in 1 .. m : a[i] = IF i = m THEN l ELSE q[i]
  BY <1>1, <1>4, <1>5, <1>6, LastReplaced DEF Put
<1>8. DOMAIN a = 1 .. m /\ DOMAIN q = 1 .. m
  BY <1>5, <1>7, LenProperties
<1>9. DOMAIN l = 1 .. n + 1 /\ DOMAIN Last(q) = 1 .. n
  BY <1>2, <1>3, <1>4, LenProperties DEF Lines
<1>10. ASSUME NEW r \in Nat, NEW k \in Nat
       PROVE  Glyph(a, r, k) = IF r = m /\ k = n + 1 THEN c ELSE Glyph(q, r, k)
  <2>1. CASE r = m
    <3>1. a[r] = l /\ q[r] = Last(q) /\ r \in 1 .. m
      BY <1>2, <1>5, <1>7, <2>1
    <3>2. CASE k = n + 1
      BY <1>4, <1>8, <1>9, <2>1, <3>1, <3>2 DEF Glyph
    <3>3. CASE k # n + 1
      <4>1. k \in 1 .. n + 1 <=> k \in 1 .. n
        BY <3>3
      <4>. QED BY <1>4, <1>8, <1>9, <3>1, <3>3, <4>1 DEF Glyph
    <3>. QED BY <3>2, <3>3
  <2>2. CASE r # m
    BY <1>7, <1>8, <2>2 DEF Glyph
  <2>. QED BY <2>1, <2>2
<1>11. \A i \in 1 .. m : i # m => a[i] = q[i]
  BY <1>7
<1>. QED BY <1>1, <1>3, <1>4, <1>5, <1>6, <1>7, <1>10, <1>11

----------------------------------------------------------------------------
\* What the typewriter does to a page

LEMMA GoodFacts ==
    ASSUME NEW p, Good(p)
    PROVE  /\ p \in Seq(Lines) /\ Len(p) \in Nat /\ Len(p) # 0
           /\ Len(p) >= 1 /\ Len(p) <= Rows + 1
           /\ Last(p) \in Lines /\ Len(Last(p)) \in 0 .. Cols - 1 /\ Last(p) = p[Len(p)]
<1>1. p \in Seq(Lines) /\ Len(p) \in 1 .. Rows + 1 /\ Len(Last(p)) < Cols
  BY DEF Good
<1>2. Len(p) \in Nat /\ Len(p) # 0 /\ Len(p) >= 1 /\ Len(p) <= Rows + 1
  BY <1>1, ConsoleAssumption
<1>3. Last(p) \in Lines /\ Last(p) = p[Len(p)]
  BY <1>1, <1>2, ElementOfSeq DEF Last
<1>4. Len(Last(p)) \in Nat
  BY <1>3, LenProperties DEF Lines
<1>. QED BY <1>1, <1>2, <1>3, <1>4, ConsoleAssumption

\* Check scrolls exactly when the page has a line below the grid.
LEMMA CheckScrolls ==
    ASSUME NEW p, Good(p), NEW g, Shows(Len(Last(p)), Len(p) - 1, g, p)
    PROVE  /\ Good(LastRows(p)) /\ Len(LastRows(p)) <= Rows
           /\ IF Cols * (Len(p) - 1) + Len(Last(p)) >= Rows * Cols
              THEN Shows(0, Rows - 1, Scrolled(g), LastRows(p))
              ELSE LastRows(p) = p
<1>1. Rows \in Nat \ {0} /\ Cols \in Nat \ {0}
  BY ConsoleAssumption
<1>2. PICK n \in Nat, x \in 0 .. Cols - 1 : n = Len(p) /\ x = Len(Last(p)) /\ n >= 1 /\ n <= Rows + 1
  BY GoodFacts
<1>3. CASE n = Rows + 1
  <2>1. Last(p) = << >> /\ x = 0
    BY <1>2, <1>3 DEF Good
  <2>2. LastRows(p) = Tail(p)
    BY <1>1, <1>2, <1>3 DEF LastRows
  <2>3. p \in Seq(Lines) /\ Len(p) > 1
    BY <1>1, <1>2, <1>3 DEF Good
  <2>4. /\ Tail(p) \in Seq(Lines) /\ Len(Tail(p)) = Rows /\ Last(Tail(p)) = << >>
        /\ \A i \in 1 .. Rows : Tail(p)[i] = p[i + 1]
    <3>1. /\ Tail(p) \in Seq(Lines) /\ Len(Tail(p)) = Len(p) - 1
          /\ \A i \in 1 .. Len(p) - 1 : Tail(p)[i] = p[i + 1]
          /\ Last(Tail(p)) = Last(p)
      BY <2>3, TailPage
    <3>2. Len(p) - 1 = Rows
      BY <1>1, <1>2, <1>3
    <3>. QED BY <2>1, <3>1, <3>2
  <2>5. \A i \in 1 .. Rows : Len(Tail(p)[i]) <= Cols
    <3>1. \A i \in 1 .. Rows : i + 1 \in 1 .. Len(p)
      BY <1>1, <1>2, <1>3
    <3>. QED BY <2>4, <3>1 DEF Good
  <2>6. Rows \in 1 .. Rows + 1 /\ Rows # Rows + 1 /\ Len(Last(Tail(p))) < Cols
    BY <1>1, <2>4
  <2>7. Good(Tail(p))
    BY <2>4, <2>5, <2>6 DEF Good
  <2>8. GridShows(Scrolled(g), Tail(p))
    BY <1>2, <1>3, <2>1, <2>3, ShowsScrolled DEF Shows
  <2>9. Cols * (n - 1) + x >= Rows * Cols
    BY <1>1, <1>3, <2>1
  <2>10. Shows(0, Rows - 1, Scrolled(g), Tail(p))
    BY <2>4, <2>8 DEF Shows
  <2>. QED BY <1>1, <1>2, <2>2, <2>4, <2>7, <2>9, <2>10
<1>4. CASE n # Rows + 1
  <2>1. LastRows(p) = p /\ n <= Rows
    BY <1>1, <1>2, <1>4 DEF LastRows
  <2>2. ~(Cols * (n - 1) + x >= Rows * Cols)
    <3>1. PICK y \in Nat : y = n - 1
      BY <1>2
    <3>2. Cols * y + Cols <= Rows * Cols /\ Cols * y \in Nat
      BY <1>1, <2>1, <3>1, PastGrid
    <3>. QED BY <1>1, <3>1, <3>2
  <2>. QED BY <1>2, <2>1, <2>2
<1>. QED BY <1>3, <1>4

\* A character is written in the first free cell of the last line.
LEMMA WriteShows ==
    ASSUME NEW q, Good(q), Len(q) <= Rows, NEW c \in Glyphs, NEW g, GridShows(g, q)
    PROVE  GridShows([k \in Cells |-> IF k = Cols * (Len(q) - 1) + Len(Last(q)) THEN c
                                      ELSE g[k]], Put(q, c))
<1>1. PICK y \in Nat, x \in 0 .. Cols - 1 : y = Len(q) - 1 /\ x = Len(Last(q))
  <2>1. Len(q) \in Nat /\ Len(q) >= 1 /\ Len(Last(q)) \in 0 .. Cols - 1
    BY GoodFacts
  <2>2. Len(q) - 1 \in Nat
    BY <2>1
  <2>. QED BY <2>1, <2>2
<1>2. q \in Seq(Lines) /\ Len(q) # 0 /\ Len(q) = y + 1
  BY <1>1, GoodFacts
<1>3. \A r, k \in Nat : Glyph(Put(q, c), r, k) =
          IF r = y + 1 /\ k = x + 1 THEN c ELSE Glyph(q, r, k)
  BY <1>1, <1>2, PutFacts
<1>4. OneChanged(q, Put(q, c), x, y, c)
  <2>1. \A r \in 1 .. Rows, k \in 1 .. Cols : r \in Nat /\ k \in Nat
    OBVIOUS
  <2>. QED BY <1>3, <2>1 DEF OneChanged
<1>5. GridShows([k \in Cells |-> IF k = Cols * y + x THEN c ELSE g[k]], Put(q, c))
  BY <1>4, ShowsOneChanged
<1>. QED BY <1>1, <1>5

\* Then the cursor moves on, to the next line if this one is full.
LEMMA WrapShows ==
    ASSUME NEW p, Good(p), Good(LastRows(p)), Len(LastRows(p)) <= Rows, NEW c \in Glyphs,
           NEW g, GridShows(g, Put(LastRows(p), c)),
           NEW x, NEW y, x = Len(Last(LastRows(p))) + 1, y = Len(LastRows(p)) - 1
    PROVE  /\ Good(TypeChar(p, c))
           /\ IF x >= Cols THEN Shows(0, y + 1, g, TypeChar(p, c))
              ELSE Shows(x, y, g, TypeChar(p, c))
<1>1. PICK q : q = LastRows(p)
  OBVIOUS
<1>2. PICK r : r = Put(q, c)
  OBVIOUS
<1>3. PICK n \in Nat, k \in 0 .. Cols - 1 : n = Len(q) /\ k = Len(Last(q)) /\ n >= 1 /\ n <= Rows
  BY <1>1, GoodFacts
<1>4. q \in Seq(Lines) /\ Len(q) # 0
  BY <1>1, GoodFacts
<1>5. /\ r \in Seq(Lines) /\ Len(r) = n /\ Last(r) = Append(Last(q), c)
      /\ Len(Last(r)) = k + 1
      /\ \A i \in 1 .. n : i # n => r[i] = q[i]
  BY <1>2, <1>3, <1>4, PutFacts
<1>6. TypeChar(p, c) = IF k + 1 = Cols THEN Append(r, << >>) ELSE r
  BY <1>1, <1>2, <1>3, <1>5 DEF TypeChar, Put
<1>7. Rows \in Nat \ {0} /\ Cols \in Nat \ {0} /\ x = k + 1 /\ y = n - 1
  BY <1>1, <1>3, ConsoleAssumption
<1>8. \A i \in 1 .. n : Len(r[i]) <= Cols
  <2>. SUFFICES ASSUME NEW i \in 1 .. n PROVE Len(r[i]) <= Cols
    OBVIOUS
  <2>1. CASE i = n
    <3>1. Len(r[n]) = k + 1
      BY <1>5 DEF Last
    <3>. QED BY <1>7, <2>1, <3>1
  <2>2. CASE i # n
    BY <1>1, <1>3, <1>5, <2>2 DEF Good
  <2>. QED BY <2>1, <2>2
<1>9. CASE k + 1 = Cols
  <2>1. PICK a : a = Append(r, << >>)
    OBVIOUS
  <2>2. /\ a \in Seq(Lines) /\ Len(a) = n + 1 /\ Last(a) = << >> /\ a[n + 1] = << >>
        /\ \A i \in 1 .. n : a[i] = r[i]
    BY <1>5, <2>1, AppendLine
  <2>3. GridShows(g, a)
    BY <1>1, <1>2, <1>5, <2>1, ShowsAppended
  <2>4. \A i \in 1 .. n + 1 : Len(a[i]) <= Cols
    <3>1. ASSUME NEW i \in 1 .. n + 1, i # n + 1 PROVE i \in 1 .. n
      BY <3>1
    <3>2. Len(a[n + 1]) <= Cols
      BY <1>7, <2>2
    <3>. QED BY <1>8, <2>2, <3>1, <3>2
  <2>5. n + 1 \in 1 .. Rows + 1 /\ Len(Last(a)) < Cols /\ Len(Last(a)) = 0
    BY <1>3, <1>7, <2>2
  <2>6. Good(a)
    BY <2>2, <2>4, <2>5 DEF Good
  <2>7. Shows(0, y + 1, g, a)
    BY <1>7, <2>2, <2>3, <2>5 DEF Shows
  <2>. QED BY <1>6, <1>7, <1>9, <2>1, <2>6, <2>7
<1>10. CASE k + 1 # Cols
  <2>1. n \in 1 .. Rows + 1 /\ n # Rows + 1 /\ k + 1 < Cols /\ ~(x >= Cols)
    BY <1>3, <1>7, <1>10
  <2>2. Good(r)
    BY <1>5, <1>8, <2>1 DEF Good
  <2>3. Shows(x, y, g, r)
    BY <1>1, <1>2, <1>5, <1>7 DEF Shows
  <2>. QED BY <1>6, <1>10, <2>1, <2>2, <2>3
<1>. QED BY <1>9, <1>10

\* A newline begins a line, and scrolls if there is no row for it.
LEMMA LineShows ==
    ASSUME NEW p, NEW q, q = LastRows(p), Good(q), Len(q) <= Rows, NEW g, GridShows(g, q)
    PROVE  /\ Good(TypeLine(p))
           /\ IF Len(q) >= Rows THEN Shows(0, Rows - 1, Scrolled(g), TypeLine(p))
              ELSE Shows(0, Len(q), g, TypeLine(p))
<1>1. Rows \in Nat \ {0} /\ Cols \in Nat \ {0}
  BY ConsoleAssumption
<1>2. PICK n \in Nat : n = Len(q) /\ n >= 1 /\ n <= Rows
  BY GoodFacts
<1>3. PICK a : a = Append(q, << >>)
  OBVIOUS
<1>4. /\ a \in Seq(Lines) /\ Len(a) = n + 1 /\ Last(a) = << >> /\ a[n + 1] = << >>
      /\ \A i \in 1 .. n : a[i] = q[i]
  BY <1>2, <1>3, GoodFacts, AppendLine
<1>5. Good(a)
  <2>1. ASSUME NEW i \in 1 .. n + 1 PROVE Len(a[i]) <= Cols
    <3>1. CASE i = n + 1
      BY <1>1, <1>4, <3>1
    <3>2. CASE i # n + 1
      <4>1. i \in 1 .. n
        BY <3>2
      <4>. QED BY <1>2, <1>4, <4>1 DEF Good
    <3>. QED BY <3>1, <3>2
  <2>2. n + 1 \in 1 .. Rows + 1 /\ Len(Last(a)) < Cols
    BY <1>1, <1>2, <1>4
  <2>. QED BY <1>4, <2>1, <2>2 DEF Good
<1>6. GridShows(g, a)
  BY <1>3, GoodFacts, ShowsAppended
<1>7. Len(Last(a)) = 0 /\ Len(a) - 1 = n
  BY <1>2, <1>4
<1>8. Shows(Len(Last(a)), Len(a) - 1, g, a)
  BY <1>6 DEF Shows
<1>9. /\ Good(LastRows(a))
      /\ IF Cols * n + 0 >= Rows * Cols THEN Shows(0, Rows - 1, Scrolled(g), LastRows(a))
         ELSE LastRows(a) = a
  BY <1>5, <1>7, <1>8, CheckScrolls
<1>10. Cols * n + 0 >= Rows * Cols <=> n >= Rows
  <2>1. /\ n >= Rows => Cols * n + 0 >= Rows * Cols
        /\ n < Rows => Cols * n + Cols <= Rows * Cols
        /\ Cols * n + 0 \in Nat
    BY PastGrid
  <2>. QED BY <1>1, <1>2, <2>1
<1>11. TypeLine(p) = LastRows(a)
  BY <1>3 DEF TypeLine
<1>. QED BY <1>2, <1>7, <1>8, <1>9, <1>10, <1>11

LEMMA FrontFacts ==
    ASSUME NEW S, NEW s \in Seq(S), Len(s) # 0
    PROVE  /\ Front(s) \in Seq(S) /\ Len(Front(s)) = Len(s) - 1
           /\ \A i \in 1 .. Len(s) - 1 : Front(s)[i] = s[i]
<1>1. PICK n \in Nat \ {0} : n = Len(s)
  BY LenProperties
<1>2. n - 1 \in Int /\ \A i \in 1 .. n - 1 : s[i] \in S
  BY <1>1, ElementOfSeq
<1>3. /\ SubSeq(s, 1, n - 1) \in Seq(S)
      /\ Len(SubSeq(s, 1, n - 1)) = IF 1 <= n - 1 THEN n - 1 - 1 + 1 ELSE 0
      /\ \A i \in 1 .. n - 1 - 1 + 1 : SubSeq(s, 1, n - 1)[i] = s[1 + i - 1]
  BY <1>2, SubSeqProperties
<1>4. n - 1 - 1 + 1 = n - 1 /\ (~(1 <= n - 1) => n - 1 = 0)
  OBVIOUS
<1>5. \A i \in 1 .. n - 1 : 1 + i - 1 = i
  OBVIOUS
<1>. QED BY <1>1, <1>3, <1>4, <1>5 DEF Front

LEMMA FunctionIsSeq ==
    ASSUME NEW G, NEW n \in Nat, NEW l \in [1 .. n -> G]
    PROVE  l \in Seq(G) /\ Len(l) = n
  OBVIOUS

\* A row filled with blanks up to the last column but one.
Filled(l) == [i \in 1 .. Cols - 1 |-> IF i <= Len(l) THEN l[i] ELSE Blank]

\* Backspace within a line.
LEMMA BackInLine ==
    ASSUME NEW p, Good(p), Last(p) # << >>
    PROVE  /\ Good(TypeBack(p)) /\ Len(TypeBack(p)) = Len(p)
           /\ Len(Last(TypeBack(p))) = Len(Last(p)) - 1 /\ Len(Last(p)) # 0
           /\ OneChanged(p, TypeBack(p), Len(Last(p)) - 1, Len(p) - 1, Blank)
<1>1. PICK n \in Nat, k \in 0 .. Cols - 1 : n = Len(p) /\ k = Len(Last(p)) /\ n >= 1 /\ n <= Rows + 1
  BY GoodFacts
<1>2. p \in Seq(Lines) /\ Len(p) # 0 /\ Last(p) \in Lines /\ Last(p) = p[n]
  BY <1>1, GoodFacts
<1>3. k # 0
  BY <1>1, <1>2 DEF Lines
<1>4. PICK l : l = Front(Last(p))
  OBVIOUS
<1>5. l \in Lines /\ Len(l) = k - 1 /\ \A i \in 1 .. k - 1 : l[i] = Last(p)[i]
  BY <1>1, <1>2, <1>3, <1>4, FrontFacts DEF Lines
<1>6. PICK b : b = Front(p) \o <<l>>
  OBVIOUS
<1>7. /\ b \in Seq(Lines) /\ Len(b) = n /\ Last(b) = l
      /\ \A i \in 1 .. n : b[i] = IF i = n THEN l ELSE p[i]
  BY <1>1, <1>2, <1>5, <1>6, LastReplaced
<1>8. TypeBack(p) = b
  <2>1. Last(NewPage) = << >>
    BY DEF NewPage, Last
  <2>2. p # NewPage
    BY <2>1
  <2>. QED BY <1>4, <1>6, <2>2 DEF TypeBack
<1>9. Cols \in Nat \ {0} /\ Rows \in Nat \ {0}
  BY ConsoleAssumption
<1>10. Good(b)
  <2>1. ASSUME NEW i \in 1 .. n PROVE Len(b[i]) <= Cols
    <3>1. CASE i = n
      BY <1>5, <1>7, <1>9, <3>1
    <3>2. CASE i # n
      BY <1>1, <1>7, <3>2 DEF Good
    <3>. QED BY <3>1, <3>2
  <2>2. n \in 1 .. Rows + 1 /\ Len(Last(b)) < Cols
    BY <1>1, <1>5, <1>7, <1>9
  <2>3. n # Rows + 1
    BY <1>1 DEF Good
  <2>. QED BY <1>7, <2>1, <2>2, <2>3 DEF Good
<1>11. DOMAIN p = 1 .. n /\ DOMAIN b = 1 .. n
  BY <1>1, <1>2, <1>7, LenProperties
<1>12. DOMAIN l = 1 .. k - 1 /\ DOMAIN Last(p) = 1 .. k
  BY <1>1, <1>2, <1>5, LenProperties DEF Lines
<1>13. ASSUME NEW r \in 1 .. Rows, NEW c \in 1 .. Cols
       PROVE  Glyph(b, r, c) = IF r = n - 1 + 1 /\ c = k - 1 + 1 THEN Blank ELSE Glyph(p, r, c)
  <2>1. CASE r = n
    <3>1. b[r] = l /\ p[r] = Last(p) /\ r \in 1 .. n
      BY <1>1, <1>2, <1>7, <2>1
    <3>2. CASE c = k
      BY <1>12, <2>1, <3>1, <3>2 DEF Glyph
    <3>3. CASE c # k
      <4>1. c \in 1 .. k - 1 <=> c \in 1 .. k
        BY <3>3
      <4>2. c # k - 1 + 1
        BY <3>3
      <4>. QED BY <1>5, <1>11, <1>12, <3>1, <4>1, <4>2 DEF Glyph
    <3>. QED BY <3>2, <3>3
  <2>2. CASE r # n
    <3>1. r # n - 1 + 1
      BY <2>2
    <3>. QED BY <1>7, <1>11, <2>2, <3>1 DEF Glyph
  <2>. QED BY <2>1, <2>2
<1>14. OneChanged(p, b, k - 1, n - 1, Blank)
  BY <1>13 DEF OneChanged
<1>. QED BY <1>1, <1>3, <1>5, <1>7, <1>8, <1>10, <1>14

\* Backspace at the start of a line, to the end of the one above.
LEMMA BackToLineAbove ==
    ASSUME NEW p, Good(p), Last(p) = << >>, Len(p) > 1
    PROVE  /\ Good(TypeBack(p)) /\ Len(TypeBack(p)) = Len(p) - 1
           /\ Len(Last(TypeBack(p))) = Cols - 1
           /\ OneChanged(p, TypeBack(p), Cols - 1, Len(p) - 2, Blank)
<1>1. PICK y \in Nat : Len(p) = y + 1 /\ y >= 1 /\ y <= Rows
  <2>1. Len(p) \in Nat /\ Len(p) <= Rows + 1
    BY GoodFacts
  <2>2. Len(p) - 1 \in Nat /\ Len(p) = (Len(p) - 1) + 1 /\ Len(p) - 1 >= 1 /\ Len(p) - 1 <= Rows
    BY <2>1, ConsoleAssumption
  <2>. QED BY <2>2
<1>2. p \in Seq(Lines) /\ Len(p) # 0 /\ p[y + 1] = << >>
  BY <1>1, GoodFacts
<1>3. Cols \in Nat \ {0} /\ Rows \in Nat \ {0}
  BY ConsoleAssumption
<1>4. PICK q : q = Front(p)
  OBVIOUS
<1>5. q \in Seq(Lines) /\ Len(q) = y /\ \A i \in 1 .. y : q[i] = p[i]
  <2>1. Len(p) - 1 = y
    BY <1>1
  <2>. QED BY <1>2, <1>4, <2>1, FrontFacts
<1>6. PICK m \in Nat : m = Len(Last(q)) /\ m <= Cols /\ Last(q) = p[y] /\ Last(q) \in Lines
  <2>1. y \in 1 .. y /\ y \in 1 .. Len(p)
    BY <1>1
  <2>2. Last(q) = p[y]
    BY <1>5, <2>1 DEF Last
  <2>3. p[y] \in Lines /\ Len(p[y]) <= Cols
    BY <1>2, <2>1, ElementOfSeq DEF Good
  <2>4. Len(p[y]) \in Nat
    BY <2>3, LenProperties DEF Lines
  <2>. QED BY <2>2, <2>3, <2>4
<1>7. PICK l : l = Filled(Last(q))
  OBVIOUS
<1>8. /\ l \in Lines /\ Len(l) = Cols - 1
      /\ \A i \in 1 .. Cols - 1 : l[i] = IF i <= m THEN Last(q)[i] ELSE Blank
  <2>1. ASSUME NEW i \in 1 .. Cols - 1
        PROVE  (IF i <= m THEN Last(q)[i] ELSE Blank) \in Glyphs
    <3>1. CASE i <= m
      <4>1. i \in 1 .. Len(Last(q))
        BY <1>3, <1>6, <3>1
      <4>2. Last(q)[i] \in Glyphs
        BY <1>6, <4>1, ElementOfSeq DEF Lines
      <4>. QED BY <3>1, <4>2
    <3>2. CASE ~(i <= m)
      BY <3>2 DEF Glyphs
    <3>. QED BY <3>1, <3>2
  <2>2. l = [i \in 1 .. Cols - 1 |-> IF i <= m THEN Last(q)[i] ELSE Blank]
    BY <1>6, <1>7 DEF Filled
  <2>3. PICK n \in Nat : n = Cols - 1
    BY <1>3
  <2>4. l \in [1 .. n -> Glyphs]
    BY <2>1, <2>2, <2>3
  <2>5. l \in Seq(Glyphs) /\ Len(l) = Cols - 1
    BY <2>3, <2>4, FunctionIsSeq
  <2>. QED BY <2>2, <2>5 DEF Lines
<1>9. PICK b : b = Front(q) \o <<l>>
  OBVIOUS
<1>10. Len(q) # 0
  BY <1>1, <1>5
<1>11. /\ b \in Seq(Lines) /\ Len(b) = y /\ Last(b) = l
       /\ \A i \in 1 .. y : b[i] = IF i = y THEN l ELSE q[i]
  BY <1>5, <1>8, <1>9, <1>10, LastReplaced
<1>12. TypeBack(p) = b
  <2>1. Len(NewPage) = 1
    BY DEF NewPage
  <2>2. p # NewPage
    <3>1. Len(p) # 1
      BY <1>1
    <3>. QED BY <2>1, <3>1
  <2>3. l = [i \in 1 .. Cols - 1 |-> IF i <= Len(Last(q)) THEN Last(q)[i] ELSE Blank]
    BY <1>7 DEF Filled
  <2>. QED BY <1>4, <1>9, <2>2, <2>3 DEF TypeBack
<1>13. Good(b)
  <2>1. ASSUME NEW i \in 1 .. y PROVE Len(b[i]) <= Cols
    <3>1. CASE i = y
      BY <1>3, <1>8, <1>11, <3>1
    <3>2. CASE i # y
      <4>1. b[i] = p[i] /\ i \in 1 .. Len(p)
        BY <1>1, <1>5, <1>11, <3>2
      <4>. QED BY <4>1 DEF Good
    <3>. QED BY <3>1, <3>2
  <2>2. y \in 1 .. Rows + 1 /\ Len(Last(b)) < Cols /\ y # Rows + 1
    BY <1>1, <1>3, <1>8, <1>11
  <2>. QED BY <1>11, <2>1, <2>2 DEF Good
<1>14. DOMAIN p = 1 .. y + 1 /\ DOMAIN b = 1 .. y
  BY <1>1, <1>2, <1>11, LenProperties
<1>15. DOMAIN l = 1 .. Cols - 1 /\ DOMAIN Last(q) = 1 .. m
  BY <1>6, <1>8, LenProperties DEF Lines
<1>16. ASSUME NEW r \in 1 .. Rows, NEW c \in 1 .. Cols
       PROVE  Glyph(b, r, c) = IF r = y /\ c = Cols THEN Blank ELSE Glyph(p, r, c)
  <2>1. CASE r = y
    <3>1. b[r] = l /\ p[r] = Last(q) /\ r \in 1 .. y /\ r \in 1 .. y + 1
      BY <1>1, <1>6, <1>11, <2>1
    <3>2. CASE c = Cols
      <4>1. c \notin DOMAIN l
        BY <1>3, <1>15, <3>2
      <4>. QED BY <2>1, <3>1, <3>2, <4>1 DEF Glyph
    <3>3. CASE c # Cols
      <4>1. c \in DOMAIN l
        BY <1>3, <1>15, <3>3
      <4>2. Glyph(b, r, c) = l[c]
        BY <1>14, <3>1, <4>1 DEF Glyph
      <4>3. c \in DOMAIN Last(q) <=> c <= m
        BY <1>6, <1>15
      <4>4. Glyph(p, r, c) = IF c <= m THEN Last(q)[c] ELSE Blank
        BY <1>14, <3>1, <4>3 DEF Glyph
      <4>. QED BY <1>8, <1>15, <3>3, <4>1, <4>2, <4>4
    <3>. QED BY <3>2, <3>3
  <2>2. CASE r = y + 1
    <3>1. Glyph(p, r, c) = Blank
      BY <1>2, <2>2 DEF Glyph
    <3>2. Glyph(b, r, c) = Blank
      BY <1>14, <2>2 DEF Glyph
    <3>. QED BY <2>2, <3>1, <3>2
  <2>3. CASE r # y /\ r # y + 1
    <3>1. r \in 1 .. y <=> r \in 1 .. y + 1
      BY <2>3
    <3>2. r \in 1 .. y => b[r] = p[r]
      BY <1>5, <1>11, <2>3
    <3>. QED BY <1>14, <2>3, <3>1, <3>2 DEF Glyph
  <2>. QED BY <2>1, <2>2, <2>3
<1>17. OneChanged(p, b, Cols - 1, Len(p) - 2, Blank)
  <2>1. Len(p) - 2 + 1 = y /\ Cols - 1 + 1 = Cols
    BY <1>1, <1>3
  <2>. QED BY <1>16, <2>1 DEF OneChanged
<1>18. Len(p) - 1 = y
  BY <1>1
<1>. QED BY <1>8, <1>11, <1>12, <1>13, <1>17, <1>18

\* Where backspace erases: p of current_terminal_back_putc.
LEMMA BackShows ==
    ASSUME NEW p, Good(p), NEW x, NEW y, NEW g, Shows(x, y, g, p), NEW pos,
           pos = IF x = 0 THEN Cols * y - 1 ELSE Cols * y + x - 1
    PROVE  /\ Good(TypeBack(p))
           /\ IF pos < 0 THEN Shows(0, 0, g, TypeBack(p))
              ELSE Shows(IF x = 0 THEN Cols - 1 ELSE x - 1, IF x = 0 THEN y - 1 ELSE y,
                         [c \in Cells |-> IF c = pos THEN Blank ELSE g[c]], TypeBack(p))
<1>1. /\ x \in 0 .. Cols - 1 /\ x = Len(Last(p)) /\ y \in Nat /\ Len(p) = y + 1
      /\ Last(p) \in Lines /\ Last(p) = p[Len(p)] /\ p \in Seq(Lines)
  <2>1. /\ x = Len(Last(p)) /\ y = Len(p) - 1 /\ Len(p) \in Nat /\ Len(p) >= 1
        /\ Last(p) \in Lines /\ Len(Last(p)) \in 0 .. Cols - 1 /\ Last(p) = p[Len(p)]
        /\ p \in Seq(Lines)
    BY GoodFacts DEF Shows
  <2>. QED BY <2>1
<1>2. Cols \in Nat \ {0} /\ Cols * y \in Nat
  BY <1>1, ConsoleAssumption
<1>3. x = 0 <=> Last(p) = << >>
  BY <1>1, EmptySeq DEF Lines
<1>4. GridShows(g, p)
  BY DEF Shows
<1>5. CASE x # 0
  <2>1. /\ Good(TypeBack(p)) /\ Len(TypeBack(p)) = Len(p)
        /\ Len(Last(TypeBack(p))) = Len(Last(p)) - 1
        /\ OneChanged(p, TypeBack(p), Len(Last(p)) - 1, Len(p) - 1, Blank)
    BY <1>3, <1>5, BackInLine
  <2>2. PICK z \in 0 .. Cols - 1 : z = x - 1
    BY <1>1, <1>2, <1>5
  <2>3. pos = Cols * y + z /\ ~(pos < 0) /\ Len(p) - 1 = y
    <3>1. pos = Cols * y + x - 1
      BY <1>5
    <3>2. PICK m \in Nat : m = Cols * y
      BY <1>2
    <3>3. x \in Nat /\ x - 1 \in Nat
      BY <1>1, <1>5, <2>2, <1>2
    <3>. QED BY <1>1, <2>2, <3>1, <3>2, <3>3
  <2>4. OneChanged(p, TypeBack(p), z, y, Blank)
    BY <1>1, <2>1, <2>2, <2>3
  <2>5. GridShows([c \in Cells |-> IF c = pos THEN Blank ELSE g[c]], TypeBack(p))
    BY <1>1, <1>4, <2>3, <2>4, ShowsOneChanged
  <2>6. Shows(z, y, [c \in Cells |-> IF c = pos THEN Blank ELSE g[c]], TypeBack(p))
    BY <1>1, <2>1, <2>2, <2>3, <2>5 DEF Shows
  <2>. QED BY <1>5, <2>1, <2>2, <2>3, <2>6
<1>6. CASE x = 0 /\ y # 0
  <2>1. Last(p) = << >> /\ Len(p) > 1
    BY <1>1, <1>3, <1>6
  <2>2. /\ Good(TypeBack(p)) /\ Len(TypeBack(p)) = Len(p) - 1
        /\ Len(Last(TypeBack(p))) = Cols - 1
        /\ OneChanged(p, TypeBack(p), Cols - 1, Len(p) - 2, Blank)
    BY <2>1, BackToLineAbove
  <2>3. PICK z \in 0 .. Cols - 1, u \in Nat : z = Cols - 1 /\ u = y - 1
    BY <1>1, <1>2, <1>6
  <2>4. pos = Cols * u + z /\ ~(pos < 0) /\ Len(p) - 2 = u /\ Len(p) - 1 = u + 1
    <3>1. Cols * y = Cols * u + Cols /\ Cols * u \in Nat
      BY <1>1, <1>2, <2>3
    <3>2. pos = Cols * y - 1
      BY <1>6
    <3>3. PICK m \in Nat : m = Cols * u
      BY <3>1
    <3>4. pos = m + z /\ ~(pos < 0)
      BY <1>2, <2>3, <3>1, <3>2, <3>3
    <3>5. Len(p) - 2 = u /\ Len(p) - 1 = u + 1
      BY <1>1, <2>3
    <3>. QED BY <3>3, <3>4, <3>5
  <2>5. OneChanged(p, TypeBack(p), z, u, Blank)
    BY <2>2, <2>3, <2>4
  <2>6. GridShows([c \in Cells |-> IF c = pos THEN Blank ELSE g[c]], TypeBack(p))
    BY <1>4, <2>4, <2>5, ShowsOneChanged
  <2>7. Len(TypeBack(p)) - 1 = u
    BY <2>2, <2>4
  <2>8. Shows(z, u, [c \in Cells |-> IF c = pos THEN Blank ELSE g[c]], TypeBack(p))
    BY <2>2, <2>3, <2>6, <2>7 DEF Shows
  <2>. QED BY <1>6, <2>2, <2>3, <2>4, <2>8
<1>7. CASE x = 0 /\ y = 0
  <2>1. pos < 0
    BY <1>2, <1>7
  <2>2. p = NewPage
    <3>1. Len(p) = 1 /\ p[1] = << >>
      BY <1>1, <1>3, <1>7
    <3>2. NewPage \in Seq(Lines) /\ Len(NewPage) = 1 /\ NewPage[1] = << >>
      BY EmptySeq DEF NewPage, Lines
    <3>. QED BY <1>1, <3>1, <3>2, SeqEqual
  <2>3. TypeBack(p) = p
    BY <2>2 DEF TypeBack
  <2>. QED BY <1>7, <2>1, <2>3
<1>. QED BY <1>1, <1>5, <1>6, <1>7

LEMMA LastRowsGood ==
    ASSUME NEW p, Good(p) PROVE Good(LastRows(p)) /\ Len(LastRows(p)) <= Rows
<1>1. PICK g : g = [c \in Cells |-> Glyph(p, RowOf(c), ColOf(c))]
  OBVIOUS
<1>2. Shows(Len(Last(p)), Len(p) - 1, g, p)
  BY <1>1 DEF Shows, GridShows
<1>. QED BY <1>2, CheckScrolls

----------------------------------------------------------------------------
\* The screen while a character is being written

OnScreen(w) == Busy(w) /\ Target(w) = Followed
Alone == \A v, w \in Writers : OnScreen(v) /\ OnScreen(w) => v = w

\* What the grid and the cursor are at a step of putc, or of an echo, of o on
\* what was the page p.
TextAt(at, o, p, x, y, g) ==
    LET q == LastRows(p)
    IN /\ at \in {"check", "back"} => Shows(x, y, g, p)
       /\ at \in {"write", "line"} => Shows(x, y, g, q)
       /\ at = "advance" => /\ GridShows(g, Put(q, o))
                            /\ x = Len(Last(q)) /\ y = Len(q) - 1
       /\ at = "wrap" => /\ GridShows(g, Put(q, o))
                         /\ x = Len(Last(q)) + 1 /\ y = Len(q) - 1
       /\ at = "linefeed" => GridShows(g, q) /\ y = Len(q)
       /\ at = "return" => Good(TypeLine(p)) /\ Shows(0, y, g, TypeLine(p))

\* The page is already the one there will be when o has been written; ctrl-L
\* throws both away.
Stage(at, o, pg, x, y, g) ==
    IF at \in Quiet THEN Good(pg) /\ Shows(x, y, g, pg)
    ELSE o = "clear" \/ \E p : Good(p) /\ pg = Typed(p, o) /\ TextAt(at, o, p, x, y, g)

StageOf(w) == Stage(pc[w], op[w], page, screen_x[Followed], screen_y[Followed], grid)
TextShown == Good(page) /\ Shows(screen_x[Followed], screen_y[Followed], grid, page)

TextInv ==
    ~torn => /\ Alone
             /\ (\A w \in Writers : ~OnScreen(w)) => TextShown
             /\ \A w \in Writers : OnScreen(w) => StageOf(w)

SInv == CInv /\ TextInv

LEMMA FollowedIsTerminal == Followed \in Terminals /\ Followed \in Writers
  BY ConsoleAssumption DEF Followed, Terminals, Writers

\* A step of a writer that is under way.
LEMMA MovesText ==
    ASSUME SInv, NEW w \in Writers, Busy(w), NEW x, NEW y, NEW cells,
           NEW next \in Pcs \ {"idle", "set"}, Moves(w, x, y, cells, next),
           Target(w) = Followed /\ ~torn => Stage(next, op[w], page, x, y, cells)
    PROVE  TextInv'
<1>1. PICK t \in Terminals : t = Target(w)
  BY TargetTyped DEF SInv, CInv
<1>2. /\ screen_x' = [screen_x EXCEPT ![t] = x]
      /\ screen_y' = [screen_y EXCEPT ![t] = y]
      /\ pc' = [pc EXCEPT ![w] = next]
      /\ grid' = IF t = Followed /\ ~torn THEN cells ELSE grid
      /\ UNCHANGED <<current_terminal, op, page, torn>>
  BY <1>1 DEF Moves
<1>3. \A v \in Writers : Target(v)' = Target(v)
  BY <1>2 DEF Target
<1>4. \A v \in Writers : v # w => pc'[v] = pc[v]
  BY <1>2 DEF SInv, CInv, TypeOK
<1>5. \A v \in Writers : v # w => (OnScreen(v)' <=> OnScreen(v))
  BY <1>3, <1>4 DEF OnScreen, Busy
<1>. SUFFICES ASSUME ~torn
     PROVE  /\ Alone'
            /\ (\A v \in Writers : ~OnScreen(v)') => TextShown'
            /\ \A v \in Writers : OnScreen(v)' => StageOf(v)'
  BY <1>2 DEF TextInv
<1>6. CASE t # Followed
  <2>1. ~OnScreen(w)' /\ ~OnScreen(w)
    BY <1>1, <1>3, <1>6 DEF OnScreen
  <2>2. screen_x'[Followed] = screen_x[Followed] /\ screen_y'[Followed] = screen_y[Followed]
    BY <1>2, <1>6, FollowedIsTerminal DEF SInv, CInv, TypeOK
  <2>3. grid' = grid
    BY <1>2, <1>6
  <2>4. TextShown' <=> TextShown
    BY <1>2, <2>2, <2>3 DEF TextShown
  <2>5. \A v \in Writers : v # w => (StageOf(v)' <=> StageOf(v))
    BY <1>2, <1>4, <2>2, <2>3 DEF StageOf
  <2>6. Alone'
    BY <1>5, <2>1 DEF Alone, SInv, TextInv
  <2>. QED BY <1>5, <2>1, <2>4, <2>5, <2>6 DEF SInv, TextInv
<1>7. CASE t = Followed
  <2>1. OnScreen(w)
    BY <1>1, <1>7 DEF OnScreen
  <2>2. \A v \in Writers : v # w => ~OnScreen(v) /\ ~OnScreen(v)'
    BY <1>5, <2>1 DEF SInv, TextInv, Alone
  <2>3. /\ screen_x'[Followed] = x /\ screen_y'[Followed] = y
        /\ grid' = cells /\ pc'[w] = next
    BY <1>2, <1>7, FollowedIsTerminal DEF SInv, CInv, TypeOK
  <2>4. Stage(next, op[w], page, x, y, cells)
    BY <1>1, <1>7
  <2>5. StageOf(w)'
    BY <1>2, <2>3, <2>4 DEF StageOf
  <2>6. next \in Quiet => TextShown'
    BY <1>2, <2>3, <2>4 DEF TextShown, Stage
  <2>7. OnScreen(w)' <=> next \notin Quiet
    BY <1>1, <1>3, <1>7, <2>3 DEF OnScreen, Busy, Quiet
  <2>8. Alone'
    BY <2>2 DEF Alone
  <2>. QED BY <2>2, <2>5, <2>6, <2>7, <2>8
<1>. QED BY <1>6, <1>7

\* A busy writer on the followed screen is at its stage: on the way to write a
\* page, unless it is ctrl-L.
StageKnown(at, o, x, y) ==
    \/ o = "clear"
    \/ \E p : /\ Good(p) /\ page = Typed(p, o) /\ TextAt(at, o, p, x, y, grid)
              /\ Good(LastRows(p)) /\ Len(LastRows(p)) <= Rows

LEMMA StageFacts ==
    ASSUME SInv, NEW w \in Writers, pc[w] \notin Quiet, Target(w) = Followed, ~torn
    PROVE  StageKnown(pc[w], op[w], screen_x[Followed], screen_y[Followed])
<1>1. OnScreen(w)
  BY DEF OnScreen, Busy, Quiet
<1>2. StageOf(w)
  BY <1>1 DEF SInv, TextInv
<1>. QED BY <1>2, LastRowsGood DEF StageOf, Stage, StageKnown

LEMMA TypedCases ==
    ASSUME NEW p, NEW c \in Chars
    PROVE  /\ Typed(p, c) = TypeChar(p, c) /\ c \in Glyphs /\ c # "clear"
           /\ Typed(p, "newline") = TypeLine(p)
           /\ Typed(p, "back") = TypeBack(p)
<1>1. c # "newline" /\ c # "back" /\ c # "clear"
  BY ConsoleAssumption
<1>. QED BY <1>1 DEF Typed, Glyphs

LEMMA TypedLine == ASSUME NEW p PROVE Typed(p, "newline") = TypeLine(p)
  BY DEF Typed

LEMMA TypedBack == ASSUME NEW p PROVE Typed(p, "back") = TypeBack(p)
  BY DEF Typed

LEMMA CheckText == ASSUME SInv, NEW w \in Writers, Check(w) PROVE TextInv'
<1>1. PICK t \in Terminals : t = Target(w)
  BY TargetTyped DEF SInv, CInv
<1>2. pc[w] = "check" /\ Busy(w) /\ pc[w] \notin Quiet
  BY DEF Check, Busy, Quiet
<1>3. AfterCheck(w) \in {"line", "write"} /\ AfterCheck(w) \notin Quiet
  BY DEF AfterCheck, Quiet
<1>4. AfterCheck(w) \in Pcs \ {"idle", "set"}
  BY <1>3 DEF Pcs
<1>5. PICK x, y, cells :
        /\ Moves(w, x, y, cells, AfterCheck(w))
        /\ IF Cols * screen_y[t] + screen_x[t] >= Rows * Cols
           THEN x = 0 /\ y = Rows - 1 /\ cells = Scrolled(grid)
           ELSE x = screen_x[t] /\ y = screen_y[t] /\ cells = grid
  BY <1>1 DEF Check, Position
<1>6. ASSUME t = Followed, ~torn
      PROVE  Stage(AfterCheck(w), op[w], page, x, y, cells)
  <2>1. CASE op[w] = "clear"
    BY <1>3, <2>1 DEF Stage
  <2>2. CASE op[w] # "clear"
    <3>1. PICK p : /\ Good(p) /\ page = Typed(p, op[w])
                   /\ TextAt("check", op[w], p, screen_x[t], screen_y[t], grid)
      BY <1>1, <1>2, <1>6, <2>2, StageFacts DEF StageKnown
    <3>2. Shows(screen_x[t], screen_y[t], grid, p)
      BY <3>1 DEF TextAt
    <3>3. screen_x[t] = Len(Last(p)) /\ screen_y[t] = Len(p) - 1
      BY <3>2 DEF Shows
    <3>4. IF Cols * screen_y[t] + screen_x[t] >= Rows * Cols
          THEN Shows(0, Rows - 1, Scrolled(grid), LastRows(p))
          ELSE LastRows(p) = p
      BY <3>1, <3>2, <3>3, CheckScrolls
    <3>5. Shows(x, y, cells, LastRows(p))
      BY <1>5, <3>2, <3>4
    <3>6. TextAt(AfterCheck(w), op[w], p, x, y, cells)
      BY <1>3, <3>5 DEF TextAt
    <3>. QED BY <1>3, <3>1, <3>6 DEF Stage
  <2>. QED BY <2>1, <2>2
<1>. QED BY <1>1, <1>2, <1>4, <1>5, <1>6, MovesText

LEMMA WriteText == ASSUME SInv, NEW w \in Writers, Write(w) PROVE TextInv'
<1>1. PICK t \in Terminals : t = Target(w)
  BY TargetTyped DEF SInv, CInv
<1>2. pc[w] = "write" /\ Busy(w) /\ pc[w] \notin Quiet
  BY DEF Write, Busy, Quiet
<1>3. "advance" \in Pcs \ {"idle", "set"} /\ "advance" \notin Quiet
  BY DEF Pcs, Quiet
<1>4. op[w] \in Chars \cup {"clear"}
  BY <1>2 DEF SInv, CInv, OpFits, Fits
<1>5. PICK cells :
        /\ Moves(w, screen_x[t], screen_y[t], cells, "advance")
        /\ cells = [c \in Cells |-> IF c = Cols * screen_y[t] + screen_x[t] THEN op[w]
                                    ELSE grid[c]]
  BY <1>1 DEF Write, Position
<1>6. ASSUME t = Followed, ~torn
      PROVE  Stage("advance", op[w], page, screen_x[t], screen_y[t], cells)
  <2>1. CASE op[w] = "clear"
    BY <1>3, <2>1 DEF Stage
  <2>2. CASE op[w] # "clear"
    <3>1. PICK p : /\ Good(p) /\ page = Typed(p, op[w])
                   /\ TextAt("write", op[w], p, screen_x[t], screen_y[t], grid)
                   /\ Good(LastRows(p)) /\ Len(LastRows(p)) <= Rows
      BY <1>1, <1>2, <1>6, <2>2, StageFacts DEF StageKnown
    <3>2. PICK q : q = LastRows(p)
      OBVIOUS
    <3>3. screen_x[t] = Len(Last(q)) /\ screen_y[t] = Len(q) - 1 /\ GridShows(grid, q)
      BY <3>1, <3>2 DEF TextAt, Shows
    <3>4. op[w] \in Glyphs
      BY <1>4, <2>2 DEF Glyphs
    <3>5. GridShows(cells, Put(q, op[w]))
      BY <1>5, <3>1, <3>2, <3>3, <3>4, WriteShows
    <3>6. TextAt("advance", op[w], p, screen_x[t], screen_y[t], cells)
      BY <3>2, <3>3, <3>5 DEF TextAt
    <3>. QED BY <1>3, <3>1, <3>6 DEF Stage
  <2>. QED BY <2>1, <2>2
<1>. QED BY <1>1, <1>2, <1>3, <1>5, <1>6, MovesText

LEMMA AdvanceText == ASSUME SInv, NEW w \in Writers, Advance(w) PROVE TextInv'
<1>1. PICK t \in Terminals : t = Target(w)
  BY TargetTyped DEF SInv, CInv
<1>2. pc[w] = "advance" /\ Busy(w) /\ pc[w] \notin Quiet
  BY DEF Advance, Busy, Quiet
<1>3. "wrap" \in Pcs \ {"idle", "set"} /\ "wrap" \notin Quiet
  BY DEF Pcs, Quiet
<1>4. Moves(w, screen_x[t] + 1, screen_y[t], grid, "wrap")
  BY <1>1 DEF Advance
<1>5. ASSUME t = Followed, ~torn
      PROVE  Stage("wrap", op[w], page, screen_x[t] + 1, screen_y[t], grid)
  <2>1. CASE op[w] = "clear"
    BY <1>3, <2>1 DEF Stage
  <2>2. CASE op[w] # "clear"
    <3>1. PICK p : /\ Good(p) /\ page = Typed(p, op[w])
                   /\ TextAt("advance", op[w], p, screen_x[t], screen_y[t], grid)
      BY <1>1, <1>2, <1>5, <2>2, StageFacts DEF StageKnown
    <3>2. TextAt("wrap", op[w], p, screen_x[t] + 1, screen_y[t], grid)
      BY <3>1 DEF TextAt
    <3>. QED BY <1>3, <3>1, <3>2 DEF Stage
  <2>. QED BY <2>1, <2>2
<1>. QED BY <1>1, <1>2, <1>3, <1>4, <1>5, MovesText

LEMMA WrapText == ASSUME SInv, NEW w \in Writers, Wrap(w) PROVE TextInv'
<1>1. PICK t \in Terminals : t = Target(w)
  BY TargetTyped DEF SInv, CInv
<1>2. pc[w] = "wrap" /\ Busy(w) /\ pc[w] \notin Quiet
  BY DEF Wrap, Busy, Quiet
<1>3. AfterChar(w) \in Pcs \ {"idle", "set"}
  BY DEF AfterChar, Pcs, Quiet
<1>4. op[w] \in Chars \cup {"clear"}
  BY <1>2 DEF SInv, CInv, OpFits, Fits
<1>5. PICK x, y : /\ Moves(w, x, y, grid, AfterChar(w))
                  /\ IF screen_x[t] >= Cols THEN x = 0 /\ y = screen_y[t] + 1
                     ELSE x = screen_x[t] /\ y = screen_y[t]
  BY <1>1 DEF Wrap
<1>6. ASSUME t = Followed, ~torn PROVE Stage(AfterChar(w), op[w], page, x, y, grid)
  <2>1. CASE op[w] = "clear"
    BY <2>1 DEF Stage, AfterChar, Quiet
  <2>2. CASE op[w] # "clear"
    <3>1. PICK p : /\ Good(p) /\ page = Typed(p, op[w])
                   /\ TextAt("wrap", op[w], p, screen_x[t], screen_y[t], grid)
                   /\ Good(LastRows(p)) /\ Len(LastRows(p)) <= Rows
      BY <1>1, <1>2, <1>6, <2>2, StageFacts DEF StageKnown
    <3>2. PICK c \in Chars : c = op[w]
      BY <1>4, <2>2
    <3>3. page = TypeChar(p, c) /\ c \in Glyphs
      BY <3>1, <3>2, TypedCases
    <3>4. /\ screen_x[t] = Len(Last(LastRows(p))) + 1 /\ screen_y[t] = Len(LastRows(p)) - 1
          /\ GridShows(grid, Put(LastRows(p), c))
      BY <3>1, <3>2 DEF TextAt
    <3>5. /\ Good(TypeChar(p, c))
          /\ IF screen_x[t] >= Cols THEN Shows(0, screen_y[t] + 1, grid, TypeChar(p, c))
             ELSE Shows(screen_x[t], screen_y[t], grid, TypeChar(p, c))
      BY <3>1, <3>3, <3>4, WrapShows
    <3>6. Good(page) /\ Shows(x, y, grid, page)
      BY <1>5, <3>3, <3>5
    <3>. QED BY <2>2, <3>6 DEF Stage, AfterChar, Quiet
  <2>. QED BY <2>1, <2>2
<1>. QED BY <1>1, <1>2, <1>3, <1>5, <1>6, MovesText

LEMMA LineText == ASSUME SInv, NEW w \in Writers, Line(w) PROVE TextInv'
<1>1. PICK t \in Terminals : t = Target(w)
  BY TargetTyped DEF SInv, CInv
<1>2. pc[w] = "line" /\ Busy(w) /\ pc[w] \notin Quiet
  BY DEF Line, Busy, Quiet
<1>3. "linefeed" \in Pcs \ {"idle", "set"} /\ "linefeed" \notin Quiet
  BY DEF Pcs, Quiet
<1>4. op[w] = "newline"
  BY <1>2 DEF SInv, CInv, OpFits, Fits
<1>5. Moves(w, screen_x[t], screen_y[t] + 1, grid, "linefeed")
  BY <1>1 DEF Line
<1>6. ASSUME t = Followed, ~torn
      PROVE  Stage("linefeed", op[w], page, screen_x[t], screen_y[t] + 1, grid)
  <2>1. PICK p : /\ Good(p) /\ page = Typed(p, op[w])
                 /\ TextAt("line", op[w], p, screen_x[t], screen_y[t], grid)
                 /\ Good(LastRows(p))
    BY <1>1, <1>2, <1>4, <1>6, StageFacts DEF StageKnown
  <2>2. screen_y[t] = Len(LastRows(p)) - 1 /\ GridShows(grid, LastRows(p))
    BY <2>1 DEF TextAt, Shows
  <2>3. screen_y[t] + 1 = Len(LastRows(p))
    BY <2>1, <2>2, GoodFacts
  <2>4. TextAt("linefeed", op[w], p, screen_x[t], screen_y[t] + 1, grid)
    BY <2>2, <2>3 DEF TextAt
  <2>. QED BY <1>3, <2>1, <2>4 DEF Stage
<1>. QED BY <1>1, <1>2, <1>3, <1>5, <1>6, MovesText

LEMMA LineFeedText == ASSUME SInv, NEW w \in Writers, LineFeed(w) PROVE TextInv'
<1>1. PICK t \in Terminals : t = Target(w)
  BY TargetTyped DEF SInv, CInv
<1>2. pc[w] = "linefeed" /\ Busy(w) /\ pc[w] \notin Quiet
  BY DEF LineFeed, Busy, Quiet
<1>3. "return" \in Pcs \ {"idle", "set"} /\ "return" \notin Quiet
  BY DEF Pcs, Quiet
<1>4. op[w] = "newline"
  BY <1>2 DEF SInv, CInv, OpFits, Fits
<1>5. PICK y, cells : /\ Moves(w, screen_x[t], y, cells, "return")
                      /\ IF screen_y[t] >= Rows THEN y = Rows - 1 /\ cells = Scrolled(grid)
                         ELSE y = screen_y[t] /\ cells = grid
  BY <1>1 DEF LineFeed
<1>6. ASSUME t = Followed, ~torn
      PROVE  Stage("return", op[w], page, screen_x[t], y, cells)
  <2>1. PICK p : /\ Good(p) /\ page = Typed(p, op[w])
                 /\ TextAt("linefeed", op[w], p, screen_x[t], screen_y[t], grid)
                 /\ Good(LastRows(p)) /\ Len(LastRows(p)) <= Rows
    BY <1>1, <1>2, <1>4, <1>6, StageFacts DEF StageKnown
  <2>2. screen_y[t] = Len(LastRows(p)) /\ GridShows(grid, LastRows(p))
    BY <2>1 DEF TextAt
  <2>3. /\ Good(TypeLine(p))
        /\ IF screen_y[t] >= Rows THEN Shows(0, Rows - 1, Scrolled(grid), TypeLine(p))
           ELSE Shows(0, screen_y[t], grid, TypeLine(p))
    BY <2>1, <2>2, LineShows
  <2>4. TextAt("return", op[w], p, screen_x[t], y, cells)
    BY <1>5, <2>3 DEF TextAt
  <2>. QED BY <1>3, <2>1, <2>4 DEF Stage
<1>. QED BY <1>1, <1>2, <1>3, <1>5, <1>6, MovesText

LEMMA ReturnText == ASSUME SInv, NEW w \in Writers, Return(w) PROVE TextInv'
<1>1. PICK t \in Terminals : t = Target(w)
  BY TargetTyped DEF SInv, CInv
<1>2. pc[w] = "return" /\ Busy(w) /\ pc[w] \notin Quiet
  BY DEF Return, Busy, Quiet
<1>3. "args" \in Pcs \ {"idle", "set"} /\ "args" \in Quiet
  BY DEF Pcs, Quiet
<1>4. op[w] = "newline"
  BY <1>2 DEF SInv, CInv, OpFits, Fits
<1>5. Moves(w, 0, screen_y[t], grid, "args")
  BY <1>1 DEF Return
<1>6. ASSUME t = Followed, ~torn PROVE Stage("args", op[w], page, 0, screen_y[t], grid)
  <2>1. PICK p : /\ Good(p) /\ page = Typed(p, op[w])
                 /\ TextAt("return", op[w], p, screen_x[t], screen_y[t], grid)
    BY <1>1, <1>2, <1>4, <1>6, StageFacts DEF StageKnown
  <2>2. Good(TypeLine(p)) /\ Shows(0, screen_y[t], grid, TypeLine(p))
    BY <2>1 DEF TextAt
  <2>. QED BY <1>3, <1>4, <2>1, <2>2, TypedLine DEF Stage
<1>. QED BY <1>1, <1>2, <1>3, <1>5, <1>6, MovesText

LEMMA BackText == ASSUME SInv, NEW w \in Writers, Back(w) PROVE TextInv'
<1>1. PICK t \in Terminals : t = Target(w)
  BY TargetTyped DEF SInv, CInv
<1>2. pc[w] = "back" /\ Busy(w) /\ pc[w] \notin Quiet
  BY DEF Back, Busy, Quiet
<1>3. "args" \in Pcs \ {"idle", "set"} /\ "args" \in Quiet
  BY DEF Pcs, Quiet
<1>4. op[w] = "back"
  BY <1>2 DEF SInv, CInv, OpFits, Fits
<1>5. PICK pos : pos = IF screen_x[t] = 0 THEN Cols * screen_y[t] - 1
                       ELSE Cols * screen_y[t] + screen_x[t] - 1
  OBVIOUS
<1>6. PICK x, y, cells :
        /\ Moves(w, x, y, cells, "args")
        /\ IF pos < 0 THEN x = 0 /\ y = 0 /\ cells = grid
           ELSE /\ x = IF screen_x[t] = 0 THEN Cols - 1 ELSE screen_x[t] - 1
                /\ y = IF screen_x[t] = 0 THEN screen_y[t] - 1 ELSE screen_y[t]
                /\ cells = [c \in Cells |-> IF c = pos THEN Blank ELSE grid[c]]
  <2>1. pos = IF screen_x[t] = 0 THEN Cols * screen_y[t] - 1 ELSE Position(t) - 1
    <3>1. screen_x[t] \in Nat /\ screen_y[t] \in Nat /\ Cols \in Nat
      BY <1>1, ConsoleAssumption DEF SInv, CInv, TypeOK
    <3>2. Cols * screen_y[t] \in Nat
      BY <3>1
    <3>. QED BY <1>5, <3>1, <3>2 DEF Position
  <2>2. CASE pos < 0
    <3>1. Moves(w, 0, 0, grid, "args")
      BY <1>1, <2>1, <2>2 DEF Back
    <3>. QED BY <2>2, <3>1
  <2>3. CASE ~(pos < 0)
    <3>1. Moves(w, IF screen_x[t] = 0 THEN Cols - 1 ELSE screen_x[t] - 1,
                   IF screen_x[t] = 0 THEN screen_y[t] - 1 ELSE screen_y[t],
                   [c \in Cells |-> IF c = pos THEN Blank ELSE grid[c]], "args")
      BY <1>1, <2>1, <2>3 DEF Back
    <3>. QED BY <2>3, <3>1
  <2>. QED BY <2>2, <2>3
<1>7. ASSUME t = Followed, ~torn PROVE Stage("args", op[w], page, x, y, cells)
  <2>1. PICK p : /\ Good(p) /\ page = Typed(p, op[w])
                 /\ TextAt("back", op[w], p, screen_x[t], screen_y[t], grid)
    BY <1>1, <1>2, <1>4, <1>7, StageFacts DEF StageKnown
  <2>2. Shows(screen_x[t], screen_y[t], grid, p)
    BY <2>1 DEF TextAt
  <2>3. /\ Good(TypeBack(p))
        /\ IF pos < 0 THEN Shows(0, 0, grid, TypeBack(p))
           ELSE Shows(IF screen_x[t] = 0 THEN Cols - 1 ELSE screen_x[t] - 1,
                      IF screen_x[t] = 0 THEN screen_y[t] - 1 ELSE screen_y[t],
                      [c \in Cells |-> IF c = pos THEN Blank ELSE grid[c]], TypeBack(p))
    BY <1>5, <2>1, <2>2, BackShows
  <2>4. Shows(x, y, cells, TypeBack(p))
    BY <1>6, <2>3
  <2>. QED BY <1>3, <1>4, <2>1, <2>3, <2>4, TypedBack DEF Stage
<1>. QED BY <1>1, <1>2, <1>3, <1>6, <1>7, MovesText

\* A page no one has written on.
LEMMA FreshShown == Good(NewPage) /\ Shows(0, 0, Empty, NewPage)
<1>1. /\ NewPage \in Seq(Lines) /\ Len(NewPage) = 1 /\ NewPage[1] = << >>
      /\ Last(NewPage) = << >>
  BY EmptySeq DEF NewPage, Lines, Last
<1>2. Cols \in Nat \ {0} /\ Rows \in Nat \ {0}
  BY ConsoleAssumption
<1>3. Good(NewPage)
  BY <1>1, <1>2 DEF Good
<1>4. \A r, k : Glyph(NewPage, r, k) = Blank
  <2>1. DOMAIN NewPage = 1 .. 1
    BY <1>1, LenProperties
  <2>2. ASSUME NEW r \in DOMAIN NewPage PROVE NewPage[r] = << >>
    BY <1>1, <2>1
  <2>. QED BY <2>2 DEF Glyph
<1>5. GridShows(Empty, NewPage)
  BY <1>4 DEF GridShows, Empty
<1>. QED BY <1>1, <1>3, <1>5 DEF Shows

LEMMA ClearText == ASSUME SInv, NEW w \in Writers, Clear(w) PROVE TextInv'
<1>1. PICK t \in Terminals : t = Target(w)
  BY TargetTyped DEF SInv, CInv
<1>2. /\ pc[w] = "clear" /\ pc' = [pc EXCEPT ![w] = "args"]
      /\ screen_x' = [screen_x EXCEPT ![t] = 0]
      /\ screen_y' = [screen_y EXCEPT ![t] = 0]
      /\ UNCHANGED <<current_terminal, op>>
  BY <1>1 DEF Clear
<1>3. \A v \in Writers : Target(v)' = Target(v)
  BY <1>2 DEF Target
<1>4. \A v \in Writers : v # w => pc'[v] = pc[v]
  BY <1>2 DEF SInv, CInv, TypeOK
<1>5. \A v \in Writers : v # w => (OnScreen(v)' <=> OnScreen(v))
  BY <1>3, <1>4 DEF OnScreen, Busy
<1>6. ~OnScreen(w)'
  BY <1>2 DEF OnScreen, Busy, SInv, CInv, TypeOK
<1>7. CASE t # Followed
  <2>1. UNCHANGED <<torn, page, grid>>
    BY <1>1, <1>7 DEF Clear
  <2>2. ~OnScreen(w)
    BY <1>1, <1>7 DEF OnScreen
  <2>3. screen_x'[Followed] = screen_x[Followed] /\ screen_y'[Followed] = screen_y[Followed]
    BY <1>2, <1>7, FollowedIsTerminal DEF SInv, CInv, TypeOK
  <2>4. TextShown' <=> TextShown
    BY <2>1, <2>3 DEF TextShown
  <2>5. \A v \in Writers : v # w => (StageOf(v)' <=> StageOf(v))
    BY <1>2, <1>4, <2>1, <2>3 DEF StageOf
  <2>6. torn' = torn
    BY <2>1
  <2>7. ~torn => Alone'
    BY <1>5, <1>6 DEF SInv, TextInv, Alone
  <2>. QED BY <1>5, <1>6, <2>2, <2>4, <2>5, <2>6, <2>7 DEF SInv, TextInv
<1>8. CASE t = Followed
  <2>1. torn' = (Others(w) # {}) /\ page' = NewPage /\ grid' = Empty
    BY <1>1, <1>8 DEF Clear
  <2>. SUFFICES ASSUME ~torn'
       PROVE  /\ Alone'
              /\ (\A v \in Writers : ~OnScreen(v)') => TextShown'
              /\ \A v \in Writers : OnScreen(v)' => StageOf(v)'
    BY DEF TextInv
  <2>2. \A v \in Writers : v # w => ~OnScreen(v)
    BY <1>1, <1>8, <2>1 DEF Others, OnScreen
  <2>3. screen_x'[Followed] = 0 /\ screen_y'[Followed] = 0
    BY <1>2, <1>8, FollowedIsTerminal DEF SInv, CInv, TypeOK
  <2>4. TextShown'
    BY <2>1, <2>3, FreshShown DEF TextShown
  <2>5. \A v \in Writers : ~OnScreen(v)'
    BY <1>5, <1>6, <2>2
  <2>6. Alone'
    BY <2>5 DEF Alone
  <2>. QED BY <2>4, <2>5, <2>6
<1>. QED BY <1>7, <1>8

LEMMA BeginText ==
    ASSUME SInv, NEW w \in Writers, NEW o, NEW first \in {"check", "back"}, Begin(w, o, first)
    PROVE  TextInv'
<1>1. /\ pc[w] = "idle" /\ pc' = [pc EXCEPT ![w] = first] /\ op' = [op EXCEPT ![w] = o]
      /\ UNCHANGED <<current_terminal, screen_x, screen_y>>
  BY DEF Begin, cursor
<1>2. \A v \in Writers : Target(v)' = Target(v)
  BY <1>1 DEF Target
<1>3. \A v \in Writers : v # w => pc'[v] = pc[v] /\ op'[v] = op[v]
  BY <1>1 DEF SInv, CInv, TypeOK
<1>4. \A v \in Writers : v # w => (OnScreen(v)' <=> OnScreen(v))
  BY <1>2, <1>3 DEF OnScreen, Busy
<1>5. ~OnScreen(w)
  BY <1>1 DEF OnScreen, Busy
<1>6. CASE Target(w) # Followed
  <2>1. UNCHANGED <<torn, page, grid>>
    BY <1>6 DEF Begin
  <2>2. ~OnScreen(w)'
    BY <1>2, <1>6 DEF OnScreen
  <2>3. TextShown' <=> TextShown
    BY <1>1, <2>1 DEF TextShown
  <2>4. \A v \in Writers : v # w => (StageOf(v)' <=> StageOf(v))
    BY <1>1, <1>3, <2>1 DEF StageOf
  <2>5. torn' = torn
    BY <2>1
  <2>6. ~torn => Alone'
    BY <1>4, <2>2 DEF SInv, TextInv, Alone
  <2>. QED BY <1>4, <1>5, <2>2, <2>3, <2>4, <2>5, <2>6 DEF SInv, TextInv
<1>7. CASE Target(w) = Followed
  <2>1. /\ torn' = (torn \/ Others(w) # {})
        /\ page' = IF torn \/ Others(w) # {} THEN NewPage ELSE Typed(page, o)
        /\ grid' = IF torn \/ Others(w) # {} THEN Empty ELSE grid
    BY <1>7 DEF Begin
  <2>. SUFFICES ASSUME ~torn'
       PROVE  /\ Alone'
              /\ (\A v \in Writers : ~OnScreen(v)') => TextShown'
              /\ \A v \in Writers : OnScreen(v)' => StageOf(v)'
    BY DEF TextInv
  <2>2. ~torn /\ Others(w) = {} /\ page' = Typed(page, o) /\ grid' = grid
    BY <2>1
  <2>3. \A v \in Writers : v # w => ~OnScreen(v) /\ ~OnScreen(v)'
    BY <1>4, <1>7, <2>2 DEF Others, OnScreen
  <2>4. TextShown
    BY <1>5, <2>2, <2>3 DEF SInv, TextInv
  <2>5. pc'[w] = first /\ op'[w] = o
    BY <1>1 DEF SInv, CInv, TypeOK
  <2>6. OnScreen(w)'
    BY <1>2, <1>7, <2>5 DEF OnScreen, Busy
  <2>7. TextAt(first, o, page, screen_x[Followed], screen_y[Followed], grid)
    BY <2>4 DEF TextShown, TextAt
  <2>8. first \notin Quiet
    BY DEF Quiet
  <2>9. Stage(first, o, page', screen_x[Followed], screen_y[Followed], grid)
    BY <2>2, <2>4, <2>7, <2>8 DEF Stage, TextShown
  <2>10. StageOf(w)'
    BY <1>1, <2>2, <2>5, <2>9 DEF StageOf
  <2>11. Alone'
    BY <2>3 DEF Alone
  <2>. QED BY <2>3, <2>6, <2>10, <2>11
<1>. QED BY <1>6, <1>7

\* Steps that neither begin nor end anything on the screen.
LEMMA QuietText ==
    ASSUME SInv, UNCHANGED <<screen_x, screen_y, grid, page, torn>>,
           \A v \in Writers : OnScreen(v)' <=> OnScreen(v),
           \A v \in Writers : OnScreen(v) => pc'[v] = pc[v] /\ op'[v] = op[v]
    PROVE  TextInv'
<1>1. TextShown' <=> TextShown
  BY DEF TextShown
<1>2. \A v \in Writers : OnScreen(v) => (StageOf(v)' <=> StageOf(v))
  BY DEF StageOf
<1>3. Alone' <=> Alone
  BY DEF Alone
<1>4. torn' = torn
  OBVIOUS
<1>. QED BY <1>1, <1>2, <1>3, <1>4 DEF SInv, TextInv

LEMMA ArgsText == ASSUME SInv, NEW w \in Writers, Args(w) \/ SetCursor(w) PROVE TextInv'
<1>1. /\ pc[w] \in Quiet /\ pc'[w] \in Quiet
      /\ \A v \in Writers : v # w => pc'[v] = pc[v] /\ op'[v] = op[v]
      /\ UNCHANGED <<current_terminal, screen_x, screen_y, grid, page, torn>>
  BY DEF Args, SetCursor, cursor, Quiet, SInv, CInv, TypeOK
<1>2. ~OnScreen(w) /\ ~OnScreen(w)'
  BY <1>1 DEF OnScreen, Busy, Quiet
<1>3. \A v \in Writers : v # w => (OnScreen(v)' <=> OnScreen(v))
  BY <1>1 DEF OnScreen, Busy, Target
<1>4. \A v \in Writers : OnScreen(v)' <=> OnScreen(v)
  BY <1>2, <1>3
<1>5. \A v \in Writers : OnScreen(v) => pc'[v] = pc[v] /\ op'[v] = op[v]
  BY <1>1, <1>2
<1>. QED BY <1>1, <1>4, <1>5, QuietText

LEMMA SwitchText == ASSUME SInv, NEW t \in Terminals, SwitchTerminal(t) PROVE TextInv'
<1>1. /\ pc[Echo] = "idle"
      /\ UNCHANGED <<screen_x, screen_y, grid, page, torn, pc, op>>
  BY DEF SwitchTerminal, cursor
<1>2. ASSUME NEW v \in Writers PROVE OnScreen(v)' <=> OnScreen(v)
  <2>1. CASE v = Echo
    BY <1>1, <2>1 DEF OnScreen, Busy
  <2>2. CASE v # Echo
    BY <1>1, <2>2 DEF OnScreen, Busy, Target
  <2>. QED BY <2>1, <2>2
<1>3. \A v \in Writers : OnScreen(v) => pc'[v] = pc[v] /\ op'[v] = op[v]
  BY <1>1
<1>. QED BY <1>1, <1>2, <1>3, QuietText

LEMMA NextKeepsSInv == SInv /\ [Next]_vars => SInv'
<1>. SUFFICES ASSUME SInv, [Next]_vars PROVE TextInv'
  BY NextKeepsCInv DEF SInv
<1>1. ASSUME NEW t \in Terminals, Newline(t) PROVE TextInv'
  BY <1>1, BeginText DEF Newline, Writers
<1>2. ASSUME NEW t \in Terminals, SwitchTerminal(t) PROVE TextInv'
  BY <1>2, SwitchText
<1>3. ASSUME NEW t \in Terminals, NEW c \in Chars, Putc(t, c) PROVE TextInv'
  BY <1>3, BeginText DEF Putc, Writers
<1>4. ASSUME NEW c \in Chars, EchoKey(c) PROVE TextInv'
  BY <1>4, BeginText, EchoNoTerminal DEF EchoKey
<1>5. CASE EchoEnter \/ EchoBack \/ EchoClear
  BY <1>5, BeginText, EchoNoTerminal DEF EchoEnter, EchoBack, EchoClear
<1>6. ASSUME NEW w \in Writers, WriterStep(w) PROVE TextInv'
  BY <1>6, CheckText, WriteText, AdvanceText, WrapText, LineText, LineFeedText,
     ReturnText, BackText, ClearText, ArgsText DEF WriterStep
<1>7. CASE UNCHANGED vars
  <2>1. UNCHANGED <<current_terminal, screen_x, screen_y, grid, page, torn, pc, op>>
    BY <1>7 DEF vars, cursor, hist
  <2>2. \A v \in Writers : OnScreen(v)' <=> OnScreen(v)
    BY <2>1 DEF OnScreen, Busy, Target
  <2>. QED BY <2>1, <2>2, QuietText
<1>. QED BY <1>1, <1>2, <1>3, <1>4, <1>5, <1>6, <1>7 DEF Next

LEMMA InitSInv == Init => SInv
<1>. SUFFICES ASSUME Init PROVE TextInv
  BY InitCInv DEF SInv
<1>1. \A w \in Writers : ~OnScreen(w)
  BY DEF Init, OnScreen, Busy
<1>2. TextShown
  BY FreshShown, FollowedIsTerminal DEF Init, TextShown
<1>. QED BY <1>1, <1>2 DEF TextInv, Alone

LEMMA TextFromSInv == ASSUME SInv PROVE ScreenShowsText
<1>. SUFFICES ASSUME ~torn, \A w \in Writers : Target(w) = Followed => ~Busy(w)
     PROVE  /\ screen_x[Followed] = Len(Last(page))
            /\ screen_y[Followed] = Len(page) - 1
            /\ \A c \in Cells : grid[c] = Glyph(page, RowOf(c), ColOf(c))
  BY DEF ScreenShowsText, Glyph, RowOf, ColOf
<1>1. TextShown
  BY DEF SInv, TextInv, OnScreen
<1>. QED BY <1>1 DEF TextShown, Shows, GridShows

\* On a grid of any size and for any text, a screen shows the last rows of what
\* was typed and printed on its terminal, backspaces and scrolling included,
\* unless putc and the echo overlapped since the last ctrl-L.
THEOREM ScreenIsText == Spec => []ScreenShowsText
<1>1. SInv => ScreenShowsText
  BY TextFromSInv
<1>. QED BY <1>1, InitSInv, NextKeepsSInv, PTL DEF Spec

----------------------------------------------------------------------------
\* Part 2: printf

\* Powers of two are positive, and double with the exponent.
LEMMA PowerOfTwo ==
    ASSUME NEW n \in Nat
    PROVE  2 ^ n \in Nat \ {0} /\ 2 ^ (n + 1) = 2 * 2 ^ n
  <1>. DEFINE S == SUBSET (1 .. n)
  <1>. DEFINE T == {X \cup {n + 1} : X \in S}
  <1>1. IsFiniteSet(S) /\ Cardinality(S) = 2 ^ n
    <2>1. IsFiniteSet(1 .. n) /\ Cardinality(1 .. n) = n
      BY FS_Interval
    <2>2. QED BY <2>1, FS_SUBSET
  <1>2. IsFiniteSet(SUBSET (1 .. n + 1)) /\ Cardinality(SUBSET (1 .. n + 1)) = 2 ^ (n + 1)
    <2>1. IsFiniteSet(1 .. n + 1) /\ Cardinality(1 .. n + 1) = n + 1
      BY FS_Interval
    <2>2. QED BY <2>1, FS_SUBSET
  <1>3. IsFiniteSet(T) /\ Cardinality(T) = Cardinality(S)
    <2>. DEFINE f == [X \in S |-> X \cup {n + 1}]
    <2>1. f \in [S -> T]
      OBVIOUS
    <2>2. ASSUME NEW X \in S, NEW Y \in S, X # Y PROVE f[X] # f[Y]
      <3>1. n + 1 \notin X /\ n + 1 \notin Y
        OBVIOUS
      <3>2. QED BY <2>2, <3>1
    <2>3. f \in Bijection(S, T)
      <3>1. f \in Injection(S, T)
        BY <2>1, <2>2 DEF Injection, IsInjective
      <3>2. f \in Surjection(S, T)
        BY <2>1 DEF Surjection
      <3>3. QED BY <3>1, <3>2 DEF Bijection
    <2>. HIDE DEF f, S, T
    <2>4. ExistsBijection(S, T)
      BY <2>3 DEF ExistsBijection
    <2>5. QED BY <2>4, <1>1, FS_Bijection
  <1>4. SUBSET (1 .. n + 1) = S \cup T
    <2>1. ASSUME NEW X \in SUBSET (1 .. n + 1), X \notin S PROVE X \in T
      <3>1. n + 1 \in X
        BY <2>1
      <3>2. X \ {n + 1} \subseteq 1 .. n
        OBVIOUS
      <3>3. X = (X \ {n + 1}) \cup {n + 1}
        BY <3>1
      <3>4. \E Y \in S : X = Y \cup {n + 1}
        <4>. DEFINE Y == X \ {n + 1}
        <4>1. Y \in S /\ X = Y \cup {n + 1}
          BY <3>2, <3>3
        <4>. HIDE DEF Y, S
        <4>2. QED BY <4>1
      <3>5. QED BY <3>4
    <2>2. S \subseteq SUBSET (1 .. n + 1) /\ T \subseteq SUBSET (1 .. n + 1)
      <3>1. ASSUME NEW Y \in S PROVE Y \subseteq 1 .. n + 1 /\ Y \cup {n + 1} \subseteq 1 .. n + 1
        OBVIOUS
      <3>2. QED BY <3>1
    <2>3. QED
      <3>. HIDE DEF S, T
      <3>1. QED BY <2>1, <2>2
  <1>5. S \cap T = {}
    OBVIOUS
  <1>6. {} \in S
    OBVIOUS
  <1>. HIDE DEF S, T
  <1>7. Cardinality(S \cup T) = (Cardinality(S) + Cardinality(T)) - 0
    BY <1>1, <1>3, <1>5, FS_Union, FS_EmptySet
  <1>8. Cardinality(S) \in Nat /\ Cardinality(S) # 0
    BY <1>1, <1>6, FS_CardinalityType, FS_EmptySet
  <1>9. 2 ^ (n + 1) = Cardinality(S) + Cardinality(S)
    <2>1. Cardinality(S \cup T) = Cardinality(S) + Cardinality(S)
      BY <1>3, <1>7, <1>8
    <2>2. QED BY <2>1, <1>2, <1>4
  <1>10. QED BY <1>1, <1>8, <1>9

\* A hexadecimal digit is four bits.
LEMMA PowerOfSixteen ==
    ASSUME NEW n \in Nat
    PROVE  2 ^ (4 * (n + 1)) = 16 * 2 ^ (4 * n)
  <1>. PICK m \in Nat : m = 4 * n
    OBVIOUS
  <1>1. 2 ^ (m + 1) = 2 * 2 ^ m /\ 2 ^ m \in Nat
    BY PowerOfTwo
  <1>2. 2 ^ ((m + 1) + 1) = 2 * 2 ^ (m + 1)
    BY PowerOfTwo, m + 1 \in Nat
  <1>3. 2 ^ (((m + 1) + 1) + 1) = 2 * 2 ^ ((m + 1) + 1)
    BY PowerOfTwo, (m + 1) + 1 \in Nat
  <1>4. 2 ^ ((((m + 1) + 1) + 1) + 1) = 2 * 2 ^ (((m + 1) + 1) + 1)
    BY PowerOfTwo, ((m + 1) + 1) + 1 \in Nat
  <1>5. (((m + 1) + 1) + 1) + 1 = 4 * (n + 1)
    OBVIOUS
  <1>6. 2 ^ (4 * (n + 1)) = 2 * (2 * (2 * (2 * 2 ^ m)))
    BY <1>1, <1>2, <1>3, <1>4, <1>5
  <1>7. QED BY <1>6, <1>1

\* The least-number principle, for a set of numbers.
LEMMA LeastNat ==
    ASSUME NEW T, T \subseteq Nat, T # {}
    PROVE  \E m \in T : \A k \in T : m <= k
  <1> DEFINE R == {ss \in Nat \X Nat : ss[1] < ss[2]}
  <1>1. OpToRel(<, Nat) = R
    BY Zenon DEF OpToRel
  <1>2. IsWellFoundedOn(R, Nat)
    BY <1>1, NatLessThanWellFounded, Zenon
  <1>3. \E x \in T : \A y \in T : ~ (<<y, x>> \in R)
    <2> HIDE DEF R
    <2> QED BY <1>2, WFMin
  <1>4. PICK m \in T : \A y \in T : ~ (<<y, m>> \in R)
    BY <1>3
  <1>5. \A k \in T : ~ (k < m)
    <2> SUFFICES ASSUME NEW k \in T, k < m PROVE FALSE
      OBVIOUS
    <2>1. <<k, m>> \in Nat \X Nat /\ <<k, m>>[1] < <<k, m>>[2]
      OBVIOUS
    <2>2. <<k, m>> \in R
      BY <2>1
    <2>3. QED
      BY <1>4, <2>2
  <1>6. QED BY <1>5

\* Induction over the numbers up to n, downwards from n, and over all numbers
\* with the hypothesis for all smaller ones.
Rises(T, n) == 0 \in T /\ \A i \in 1 .. n : i - 1 \in T => i \in T
LEMMA UpTo ==
    ASSUME NEW n \in Nat, NEW T, Rises(T, n)
    PROVE  \A i \in 0 .. n : i \in T
  <1>. DEFINE B == {i \in 0 .. n : i \notin T}
  <1>1. ASSUME B # {} PROVE FALSE
    <2>1. PICK m \in B : \A k \in B : m <= k
      <3>1. B \subseteq Nat
        OBVIOUS
      <3>. HIDE DEF B
      <3>2. QED BY <3>1, <1>1, LeastNat
    <2>2. m # 0
      BY DEF Rises
    <2>3. m \in 1 .. n /\ m - 1 \in 0 .. n
      BY <2>2
    <2>4. m - 1 \in T
      BY <2>1, <2>3
    <2>5. QED BY <2>3, <2>4 DEF Rises
  <1>2. QED BY <1>1

Falls(T, n) == n \in T /\ \A i \in 1 .. n : i \in T => i - 1 \in T
LEMMA DownFrom ==
    ASSUME NEW n \in Nat, NEW T, Falls(T, n)
    PROVE  \A i \in 0 .. n : i \in T
  <1>. DEFINE U == {i \in 0 .. n : n - i \in T}
  <1>1. Rises(U, n)
    <2>1. 0 \in U
      BY DEF Falls
    <2>2. ASSUME NEW i \in 1 .. n, i - 1 \in U PROVE i \in U
      <3>1. (n - i) + 1 \in 1 .. n /\ (n - i) + 1 \in T /\ ((n - i) + 1) - 1 = n - i
        BY <2>2
      <3>2. n - i \in T
        BY <3>1 DEF Falls
      <3>3. QED BY <3>2
    <2>. HIDE DEF U
    <2>3. QED BY <2>1, <2>2 DEF Rises
  <1>2. \A i \in 0 .. n : i \in U
    <2>. HIDE DEF U
    <2>1. QED BY <1>1, UpTo
  <1>3. ASSUME NEW i \in 0 .. n PROVE i \in T
    <2>1. n - i \in 0 .. n /\ n - (n - i) = i
      OBVIOUS
    <2>2. n - i \in U
      BY <1>2, <2>1
    <2>3. QED BY <2>1, <2>2
  <1>4. QED BY <1>3

Follows(T, n) == \A i \in 0 .. n : (\A k \in 0 .. i - 1 : k \in T) => i \in T
LEMMA Complete ==
    ASSUME NEW n \in Nat, NEW T, Follows(T, n)
    PROVE  \A i \in 0 .. n : i \in T
  <1>. DEFINE B == {i \in 0 .. n : i \notin T}
  <1>1. ASSUME B # {} PROVE FALSE
    <2>1. PICK m \in B : \A k \in B : m <= k
      <3>1. B \subseteq Nat
        OBVIOUS
      <3>. HIDE DEF B
      <3>2. QED BY <3>1, <1>1, LeastNat
    <2>2. ASSUME NEW k \in 0 .. m - 1 PROVE k \in T
      <3>1. k \in 0 .. n /\ ~(m <= k)
        OBVIOUS
      <3>2. QED BY <2>1, <3>1
    <2>3. QED BY <2>2 DEF Follows
  <1>2. QED BY <1>1

\* A function that is defined at i from its value at i - 1 exists.
Runs(f, a, next, n) == f[0] = a /\ \A i \in 1 .. n : f[i] = next[i][f[i - 1]]
LEMMA RunExists ==
    ASSUME NEW n \in Nat, NEW X, NEW a \in X, NEW next \in [1 .. n -> [X -> X]]
    PROVE  \E f \in [0 .. n -> X] : Runs(f, a, next, n)
  <1>. DEFINE T == {m \in 0 .. n : \E f \in [0 .. n -> X] : Runs(f, a, next, m)}
  <1>1. 0 \in T
    <2>1. [i \in 0 .. n |-> a] \in [0 .. n -> X] /\ Runs([i \in 0 .. n |-> a], a, next, 0)
      BY DEF Runs
    <2>2. QED BY <2>1
  <1>2. ASSUME NEW m \in 1 .. n, m - 1 \in T PROVE m \in T
    <2>1. PICK f \in [0 .. n -> X] : Runs(f, a, next, m - 1)
      BY <1>2
    <2>. DEFINE g == [f EXCEPT ![m] = next[m][f[m - 1]]]
    <2>2. g \in [0 .. n -> X]
      <3>1. f[m - 1] \in X /\ next[m] \in [X -> X]
        OBVIOUS
      <3>2. QED BY <3>1
    <2>3. Runs(g, a, next, m)
      <3>1. g[0] = a
        BY <2>1 DEF Runs
      <3>2. ASSUME NEW i \in 1 .. m PROVE g[i] = next[i][g[i - 1]]
        <4>1. CASE i = m
          BY <4>1
        <4>2. CASE i # m
          BY <4>2, <2>1 DEF Runs
        <4>3. QED BY <4>1, <4>2
      <3>. HIDE DEF g
      <3>3. QED BY <3>1, <3>2 DEF Runs
    <2>. HIDE DEF g
    <2>4. QED BY <2>2, <2>3
  <1>3. n \in T
    <2>. HIDE DEF T
    <2>1. Rises(T, n)
      BY <1>1, <1>2 DEF Rises
    <2>2. QED BY <2>1, UpTo
  <1>4. QED BY <1>3

----------------------------------------------------------------------------
(* Numerals *)

DigitChars(radix) == {lookup[d] : d \in 1 .. radix}

\* The sixteen digits differ.
LEMMA LookupDistinct ==
    ASSUME NEW i \in 1 .. 16, NEW j \in 1 .. 16, lookup[i] = lookup[j]
    PROVE  i = j
  BY DEF lookup

\* A digit of the table is worth its place.
LEMMA DigitOf ==
    ASSUME NEW d \in 1 .. 16
    PROVE  Digit(lookup[d]) = d - 1
  <1>1. \E i \in 1 .. 16 : lookup[i] = lookup[d]
    OBVIOUS
  <1>. DEFINE j == CHOOSE i \in 1 .. 16 : lookup[i] = lookup[d]
  <1>2. j \in 1 .. 16 /\ lookup[j] = lookup[d]
    BY <1>1
  <1>3. Digit(lookup[d]) = j - 1
    BY DEF Digit
  <1>. HIDE DEF j
  <1>4. j = d
    BY <1>2, LookupDistinct
  <1>5. QED BY <1>3, <1>4

LEMMA DigitTyped ==
    ASSUME NEW radix \in 2 .. 16, NEW c \in DigitChars(radix)
    PROVE  /\ Digit(c) \in 0 .. radix - 1
           /\ c \in DigitChars(16)
  <1>1. PICK d \in 1 .. radix : c = lookup[d]
    BY DEF DigitChars
  <1>2. d \in 1 .. 16
    OBVIOUS
  <1>3. QED BY <1>1, <1>2, DigitOf DEF DigitChars

\* What Value adds up.
Adds(v, s, radix) == /\ v[0] = 0
                     /\ \A i \in 1 .. Len(s) : v[i] = v[i - 1] * radix + Digit(s[i])

\* The recursive function of Value exists, with natural values.
LEMMA ValueIs ==
    ASSUME NEW radix \in 2 .. 16, NEW s \in Seq(DigitChars(radix))
    PROVE  \E v \in [0 .. Len(s) -> Nat] : Adds(v, s, radix) /\ Value(s, radix) = v[Len(s)]
  <1>. PICK n \in Nat : n = Len(s)
    OBVIOUS
  <1>0. \A i \in 1 .. n : Digit(s[i]) \in Nat
    <2>1. ASSUME NEW i \in 1 .. n PROVE Digit(s[i]) \in Nat
      <3>1. s[i] \in DigitChars(radix)
        OBVIOUS
      <3>2. Digit(s[i]) \in 0 .. radix - 1
        BY <3>1, DigitTyped
      <3>3. QED BY <3>2
    <2>2. QED BY <2>1
  <1>. DEFINE next == [i \in 1 .. n |-> [x \in Nat |-> x * radix + Digit(s[i])]]
  <1>1. next \in [1 .. n -> [Nat -> Nat]]
    BY <1>0
  <1>. DEFINE Sum(v) == [i \in 0 .. n |-> IF i = 0 THEN 0 ELSE v[i - 1] * radix + Digit(s[i])]
  <1>2. \E v : v = Sum(v)
    <2>1. PICK f \in [0 .. n -> Nat] : Runs(f, 0, next, n)
      <3>. HIDE DEF next
      <3>1. QED BY <1>1, RunExists
    <2>2. ASSUME NEW i \in 1 .. n PROVE f[i] = f[i - 1] * radix + Digit(s[i])
      <3>1. f[i - 1] \in Nat
        OBVIOUS
      <3>2. QED BY <2>1, <3>1 DEF Runs
    <2>3. f[0] = 0
      BY <2>1 DEF Runs
    <2>. HIDE DEF next
    <2>4. f = Sum(f)
      BY <2>2, <2>3
    <2>5. QED BY <2>4
  <1>. DEFINE v == CHOOSE w : w = Sum(w)
  <1>3. v = Sum(v)
    <2>. HIDE DEF Sum
    <2>1. QED BY <1>2
  <1>4. Value(s, radix) = v[n]
    BY DEF Value
  <1>. HIDE DEF v, next
  <1>5. Adds(v, s, radix)
    BY <1>3 DEF Adds
  <1>6. \A i \in 0 .. n : i \in {k \in 0 .. n : v[k] \in Nat}
    <2>. DEFINE T == {k \in 0 .. n : v[k] \in Nat}
    <2>1. 0 \in T
      BY <1>5 DEF Adds
    <2>2. ASSUME NEW i \in 1 .. n, i - 1 \in T PROVE i \in T
      BY <2>2, <1>0, <1>5 DEF Adds
    <2>. HIDE DEF T
    <2>3. Rises(T, n)
      BY <2>1, <2>2 DEF Rises
    <2>4. \A i \in 0 .. n : i \in T
      BY <2>3, UpTo
    <2>5. QED BY <2>4 DEF T
  <1>7. v \in [0 .. n -> Nat]
    <2>1. v = [i \in 0 .. n |-> v[i]]
      BY <1>3
    <2>. HIDE DEF Sum
    <2>2. QED BY <2>1, <1>6
  <1>8. QED BY <1>4, <1>5, <1>7

\* No digits are worth nothing.
LEMMA ValueEmpty ==
    ASSUME NEW radix \in 2 .. 16
    PROVE  Value(<< >>, radix) = 0
  <1>1. << >> \in Seq(DigitChars(radix)) /\ Len(<< >>) = 0
    OBVIOUS
  <1>2. PICK v \in [0 .. Len(<< >>) -> Nat] :
            Adds(v, << >>, radix) /\ Value(<< >>, radix) = v[Len(<< >>)]
    BY <1>1, ValueIs
  <1>3. v[0] = 0
    BY <1>2 DEF Adds
  <1>4. QED BY <1>1, <1>2, <1>3

\* Equal digits have equal sums.
SameDigits(s, k, t, n) == \A i \in 1 .. n : s[k + i] = t[i]
Continues(v, s, w, t, k, n, radix) ==
    /\ n \in Nat /\ k \in Nat /\ Len(s) \in Nat /\ Len(t) \in Nat
    /\ v[k] = w[0] /\ Len(s) >= k + n /\ Len(t) >= n
    /\ Adds(v, s, radix) /\ Adds(w, t, radix) /\ SameDigits(s, k, t, n)
LEMMA SameSums ==
    ASSUME NEW radix, NEW s, NEW t, NEW v, NEW w, NEW n, NEW k,
           Continues(v, s, w, t, k, n, radix)
    PROVE  v[k + n] = w[n]
  <1>. USE DEF Continues
  <1>. DEFINE T == {i \in 0 .. n : v[k + i] = w[i]}
  <1>1. 0 \in T
    OBVIOUS
  <1>2. ASSUME NEW i \in 1 .. n, i - 1 \in T PROVE i \in T
    <2>1. k + i \in 1 .. Len(s) /\ i \in 1 .. Len(t) /\ (k + i) - 1 = k + (i - 1)
      OBVIOUS
    <2>2. v[k + i] = v[(k + i) - 1] * radix + Digit(s[k + i])
      BY <2>1 DEF Adds
    <2>3. w[i] = w[i - 1] * radix + Digit(t[i])
      BY <2>1 DEF Adds
    <2>4. v[(k + i) - 1] = w[i - 1]
      BY <1>2, <2>1
    <2>5. s[k + i] = t[i]
      BY DEF SameDigits
    <2>6. QED BY <2>2, <2>3, <2>4, <2>5
  <1>3. n \in T
    <2>. HIDE DEF T
    <2>1. Rises(T, n)
      BY <1>1, <1>2 DEF Rises
    <2>2. QED BY <2>1, UpTo
  <1>4. QED BY <1>3

\* A digit behind a numeral: the value times the radix, plus the digit.
LEMMA ValueAppend ==
    ASSUME NEW radix \in 2 .. 16, NEW s \in Seq(DigitChars(radix)), NEW c \in DigitChars(radix)
    PROVE  Value(Append(s, c), radix) = Value(s, radix) * radix + Digit(c)
  <1>. DEFINE t == Append(s, c)
  <1>1. t \in Seq(DigitChars(radix)) /\ Len(s) \in Nat /\ Len(t) = Len(s) + 1
        /\ t[Len(s) + 1] = c /\ \A i \in 1 .. Len(s) : t[i] = s[i]
    OBVIOUS
  <1>. HIDE DEF t
  <1>2. PICK v \in [0 .. Len(s) -> Nat] : Adds(v, s, radix) /\ Value(s, radix) = v[Len(s)]
    BY ValueIs
  <1>3. PICK w \in [0 .. Len(t) -> Nat] : Adds(w, t, radix) /\ Value(t, radix) = w[Len(t)]
    BY <1>1, ValueIs
  <1>4. w[0 + Len(s)] = v[Len(s)]
    <2>1. w[0] = v[0]
      BY <1>2, <1>3 DEF Adds
    <2>2. SameDigits(t, 0, s, Len(s))
      BY <1>1 DEF SameDigits
    <2>3. Len(t) >= 0 + Len(s) /\ Len(s) >= Len(s) /\ Len(t) \in Nat /\ 0 \in Nat
      BY <1>1
    <2>4. Continues(w, t, v, s, 0, Len(s), radix)
      BY <1>1, <1>2, <1>3, <2>1, <2>2, <2>3 DEF Continues
    <2>5. QED BY <2>4, SameSums
  <1>5. w[Len(s) + 1] = w[(Len(s) + 1) - 1] * radix + Digit(t[Len(s) + 1])
    BY <1>1, <1>3 DEF Adds
  <1>6. (Len(s) + 1) - 1 = Len(s) /\ 0 + Len(s) = Len(s)
    BY <1>1
  <1>7. Value(t, radix) = Value(s, radix) * radix + Digit(c)
    BY <1>1, <1>2, <1>3, <1>4, <1>5, <1>6
  <1>8. QED BY <1>7 DEF t

\* Zeros in front count nothing.
LEMMA ValuePadded ==
    ASSUME NEW radix \in 2 .. 16, NEW s \in Seq(DigitChars(radix)), NEW k \in Nat
    PROVE  Value([i \in 1 .. k |-> "0"] \o s, radix) = Value(s, radix)
  <1>. DEFINE z == [i \in 1 .. k |-> "0"]
  <1>. DEFINE t == z \o s
  <1>0. "0" \in DigitChars(radix) /\ Digit("0") = 0
    <2>1. lookup[1] = "0"
      BY DEF lookup
    <2>2. 1 \in 1 .. radix /\ 1 \in 1 .. 16
      OBVIOUS
    <2>3. lookup[1] \in DigitChars(radix)
      BY <2>2 DEF DigitChars
    <2>4. Digit(lookup[1]) = 1 - 1
      BY <2>2, DigitOf
    <2>5. QED BY <2>1, <2>3, <2>4
  <1>1. z \in Seq(DigitChars(radix)) /\ Len(z) = k /\ \A i \in 1 .. k : z[i] = "0"
    BY <1>0
  <1>. HIDE DEF z
  <1>2. /\ t \in Seq(DigitChars(radix)) /\ Len(s) \in Nat /\ Len(t) = k + Len(s)
        /\ \A i \in 1 .. k : t[i] = "0"
        /\ SameDigits(t, k, s, Len(s))
    <2>1. /\ t \in Seq(DigitChars(radix)) /\ Len(t) = Len(z) + Len(s) /\ Len(s) \in Nat
          /\ \A i \in 1 .. Len(z) + Len(s) : t[i] = IF i <= Len(z) THEN z[i] ELSE s[i - Len(z)]
      <3>1. Len(s) \in Nat
        OBVIOUS
      <3>2. QED BY <1>1, <3>1, ConcatProperties, Zenon
    <2>. HIDE DEF t
    <2>2. ASSUME NEW i \in 1 .. k PROVE t[i] = "0"
      BY <2>1, <1>1
    <2>3. ASSUME NEW i \in 1 .. Len(s) PROVE t[k + i] = s[i]
      <3>1. k + i \in 1 .. Len(z) + Len(s) /\ ~(k + i <= Len(z)) /\ (k + i) - Len(z) = i
        BY <2>1, <1>1
      <3>2. QED BY <2>1, <3>1
    <2>4. QED BY <1>1, <2>1, <2>2, <2>3 DEF SameDigits
  <1>. HIDE DEF t
  <1>3. PICK v \in [0 .. Len(s) -> Nat] : Adds(v, s, radix) /\ Value(s, radix) = v[Len(s)]
    BY ValueIs
  <1>4. PICK w \in [0 .. Len(t) -> Nat] : Adds(w, t, radix) /\ Value(t, radix) = w[Len(t)]
    BY <1>2, ValueIs
  <1>5. w[k] = 0
    <2>. DEFINE T == {i \in 0 .. k : w[i] = 0}
    <2>1. 0 \in T
      BY <1>4 DEF Adds
    <2>2. ASSUME NEW i \in 1 .. k, i - 1 \in T PROVE i \in T
      <3>1. i \in 1 .. Len(t) /\ t[i] = "0"
        BY <1>2
      <3>2. w[i] = w[i - 1] * radix + Digit("0")
        BY <3>1, <1>4 DEF Adds
      <3>3. QED BY <2>2, <3>2, <1>0
    <2>. HIDE DEF T
    <2>3. Rises(T, k)
      BY <2>1, <2>2 DEF Rises
    <2>4. k \in T
      BY <2>3, UpTo
    <2>5. QED BY <2>4 DEF T
  <1>6. w[k + Len(s)] = v[Len(s)]
    <2>1. w[k] = v[0]
      BY <1>3, <1>5 DEF Adds
    <2>2. Len(t) >= k + Len(s) /\ Len(s) >= Len(s) /\ Len(t) \in Nat
      BY <1>2
    <2>3. Continues(w, t, v, s, k, Len(s), radix)
      BY <1>2, <1>3, <1>4, <2>1, <2>2 DEF Continues
    <2>4. QED BY <2>3, SameSums
  <1>7. Value(t, radix) = Value(s, radix)
    BY <1>2, <1>3, <1>4, <1>6
  <1>8. QED BY <1>7 DEF t, z

\* Reversing puts the first character last.
LEMMA StrrevFacts ==
    ASSUME NEW C, NEW s \in Seq(C)
    PROVE  /\ strrev(s) \in Seq(C) /\ Len(strrev(s)) = Len(s) /\ Len(s) \in Nat
           /\ \A i \in 1 .. Len(s) : strrev(s)[i] = s[(Len(s) + 1) - i]
  <1>. PICK n \in Nat : n = Len(s)
    OBVIOUS
  <1>1. strrev(s) = [i \in 1 .. n |-> s[(n + 1) - i]]
    BY DEF strrev
  <1>2. \A i \in 1 .. n : s[(n + 1) - i] \in C
    OBVIOUS
  <1>3. QED BY <1>1, <1>2

\* The reverse of a digit before the others is theirs, and the digit behind it.
LEMMA StrrevFirst ==
    ASSUME NEW C, NEW s \in Seq(C), NEW c \in C
    PROVE  strrev(<<c>> \o s) = Append(strrev(s), c)
  <1>. PICK n \in Nat : n = Len(s)
    OBVIOUS
  <1>. DEFINE t == <<c>> \o s
  <1>1. t \in Seq(C) /\ Len(t) = n + 1 /\ t[1] = c /\ \A i \in 1 .. n : t[i + 1] = s[i]
    OBVIOUS
  <1>. HIDE DEF t
  <1>2. /\ strrev(t) \in Seq(C) /\ Len(strrev(t)) = n + 1
        /\ \A i \in 1 .. n + 1 : strrev(t)[i] = t[((n + 1) + 1) - i]
    BY <1>1, StrrevFacts
  <1>3. /\ strrev(s) \in Seq(C) /\ Len(strrev(s)) = n
        /\ \A i \in 1 .. n : strrev(s)[i] = s[(n + 1) - i]
    BY StrrevFacts
  <1>. DEFINE r == strrev(t)
  <1>. DEFINE q == strrev(s)
  <1>. HIDE DEF r, q
  <1>4. /\ Append(q, c) \in Seq(C) /\ Len(Append(q, c)) = n + 1
        /\ Append(q, c)[n + 1] = c /\ \A i \in 1 .. n : Append(q, c)[i] = q[i]
    BY <1>3 DEF q
  <1>5. ASSUME NEW i \in 1 .. n + 1 PROVE r[i] = Append(q, c)[i]
    <2>1. CASE i = n + 1
      BY <2>1, <1>1, <1>2, <1>4 DEF r
    <2>2. CASE i # n + 1
      <3>1. i \in 1 .. n /\ (n + 1) - i \in 1 .. n /\ ((n + 1) + 1) - i = ((n + 1) - i) + 1
        BY <2>2
      <3>2. r[i] = t[((n + 1) - i) + 1]
        BY <3>1, <1>2 DEF r
      <3>3. t[((n + 1) - i) + 1] = s[(n + 1) - i]
        BY <3>1, <1>1
      <3>4. q[i] = s[(n + 1) - i]
        BY <3>1, <1>3 DEF q
      <3>5. QED BY <3>1, <3>2, <3>3, <3>4, <1>4
    <2>3. QED BY <2>1, <2>2
  <1>6. r = Append(q, c)
    BY <1>2, <1>4, <1>5, SeqEqual DEF r
  <1>7. QED BY <1>6 DEF r, q, t

\* A quotient is smaller.
LEMMA Quotient ==
    ASSUME NEW n \in Nat, n > 0, NEW radix \in 2 .. 16
    PROVE  /\ n \div radix \in 0 .. n - 1 /\ n % radix \in 0 .. radix - 1
           /\ n = (n \div radix) * radix + (n % radix)
  <1>1. PICK q \in Int, m \in 0 .. radix - 1 : q = n \div radix /\ m = n % radix /\ n = radix * q + m
    <2>1. n \div radix \in Int /\ n % radix \in 0 .. radix - 1
          /\ n = radix * (n \div radix) + (n % radix)
      OBVIOUS
    <2>2. QED BY <2>1
  <1>2. q >= 0
    <2>1. ASSUME q <= -1 PROVE FALSE
      <3>1. radix * q <= -radix
        BY <2>1
      <3>2. QED BY <3>1, <1>1
    <2>2. QED BY <2>1
  <1>3. q < n
    <2>1. ASSUME q >= n PROVE FALSE
      <3>1. radix * q >= q + q
        BY <1>2
      <3>2. QED BY <3>1, <2>1, <1>1
    <2>2. QED BY <2>1
  <1>4. radix * q = q * radix
    OBVIOUS
  <1>5. QED BY <1>1, <1>2, <1>3, <1>4

\* The loop of itoa.
Lowest(n, radix) == lookup[1 + (n % radix)]
IsLow(f, m, radix) ==
    /\ f[0] = << >>
    /\ \A n \in 1 .. m : f[n] = <<Lowest(n, radix)>> \o f[n \div radix]

\* The recursive function of Digits exists: n \div radix is smaller than n.
LEMMA LowExists ==
    ASSUME NEW m \in Nat, NEW radix \in 2 .. 16
    PROVE  \E f : IsLow(f, m, radix)
  <1>. DEFINE T == {k \in 0 .. m : \E f : IsLow(f, k, radix)}
  <1>1. 0 \in T
    <2>1. IsLow([i \in {0} |-> << >>], 0, radix)
      BY DEF IsLow
    <2>2. QED BY <2>1
  <1>2. ASSUME NEW k \in 1 .. m, k - 1 \in T PROVE k \in T
    <2>1. PICK f : IsLow(f, k - 1, radix)
      BY <1>2
    <2>. DEFINE g == [i \in 0 .. k |-> IF i = k THEN <<Lowest(k, radix)>> \o f[k \div radix]
                                       ELSE f[i]]
    <2>2. \A i \in 0 .. k - 1 : g[i] = f[i]
      OBVIOUS
    <2>3. g[k] = <<Lowest(k, radix)>> \o f[k \div radix]
      OBVIOUS
    <2>. HIDE DEF g
    <2>4. g[0] = << >>
      BY <2>1, <2>2 DEF IsLow
    <2>5. ASSUME NEW n \in 1 .. k PROVE g[n] = <<Lowest(n, radix)>> \o g[n \div radix]
      <3>1. n \div radix \in 0 .. n - 1
        BY Quotient
      <3>2. g[n \div radix] = f[n \div radix]
        BY <3>1, <2>2
      <3>3. CASE n = k
        BY <3>2, <3>3, <2>3
      <3>4. CASE n # k
        <4>1. g[n] = f[n] /\ n \in 1 .. k - 1
          BY <3>4, <2>2
        <4>2. f[n] = <<Lowest(n, radix)>> \o f[n \div radix]
          BY <4>1, <2>1 DEF IsLow
        <4>3. QED BY <3>2, <4>1, <4>2
      <3>5. QED BY <3>3, <3>4
    <2>6. IsLow(g, k, radix)
      BY <2>4, <2>5 DEF IsLow
    <2>7. QED BY <2>6
  <1>3. m \in T
    <2>. HIDE DEF T
    <2>1. Rises(T, m)
      BY <1>1, <1>2 DEF Rises
    <2>2. QED BY <2>1, UpTo
  <1>4. QED BY <1>3

LowAt(f, n, radix) == IF n = 0 THEN << >>
                      ELSE <<lookup[1 + (n % radix)]>> \o f[n \div radix]

\* Digits unfolds by one digit.
LEMMA DigitsIs ==
    ASSUME NEW m \in Nat, NEW radix \in 2 .. 16
    PROVE  \E f : IsLow(f, m, radix) /\ Digits(m, radix) = f[m]
  <1>. DEFINE Low(f) == [n \in 0 .. m |-> LowAt(f, n, radix)]
  <1>1. \E f : f = Low(f)
    <2>1. PICK f : IsLow(f, m, radix)
      BY LowExists
    <2>. DEFINE g == [n \in 0 .. m |-> f[n]]
    <2>2. ASSUME NEW n \in 0 .. m PROVE g[n] = LowAt(g, n, radix)
      <3>1. CASE n = 0
        BY <3>1, <2>1 DEF IsLow, LowAt
      <3>2. CASE n # 0
        <4>1. n \div radix \in 0 .. n - 1
          BY <3>2, Quotient
        <4>2. n \in 1 .. m /\ n \div radix \in 0 .. m
          BY <3>2, <4>1
        <4>3. f[n] = <<lookup[1 + (n % radix)]>> \o f[n \div radix]
          BY <4>2, <2>1 DEF IsLow, Lowest
        <4>4. g[n] = f[n] /\ g[n \div radix] = f[n \div radix]
          BY <4>2
        <4>. HIDE DEF g
        <4>5. QED BY <3>2, <4>3, <4>4 DEF LowAt
      <3>3. QED BY <3>1, <3>2
    <2>3. g = [n \in 0 .. m |-> g[n]]
      OBVIOUS
    <2>. HIDE DEF g
    <2>4. g = Low(g)
      BY <2>2, <2>3
    <2>5. QED BY <2>4
  <1>. DEFINE f == CHOOSE g : g = Low(g)
  <1>2. f = Low(f)
    <2>. HIDE DEF Low
    <2>1. QED BY <1>1
  <1>3. Digits(m, radix) = f[m]
    BY DEF Digits, LowAt
  <1>. HIDE DEF f
  <1>4. ASSUME NEW n \in 0 .. m PROVE f[n] = LowAt(f, n, radix)
    BY <1>2
  <1>5. f[0] = << >>
    <2>1. f[0] = LowAt(f, 0, radix)
      BY <1>4
    <2>2. LowAt(f, 0, radix) = << >>
      BY Zenon DEF LowAt
    <2>3. QED BY <2>1, <2>2
  <1>6. ASSUME NEW n \in 1 .. m PROVE f[n] = <<Lowest(n, radix)>> \o f[n \div radix]
    <2>1. f[n] = LowAt(f, n, radix) /\ n # 0
      BY <1>4
    <2>2. LowAt(f, n, radix) = <<Lowest(n, radix)>> \o f[n \div radix]
      BY <2>1, Zenon DEF LowAt, Lowest
    <2>3. QED BY <2>1, <2>2
  <1>7. IsLow(f, m, radix)
    BY <1>5, <1>6 DEF IsLow
  <1>8. QED BY <1>3, <1>7

\* The digits of n, and how many there are.
Written(t, n, radix) ==
    /\ t \in Seq(DigitChars(radix)) /\ Value(t, radix) = n
    /\ n > 0 => t # << >> /\ t[1] # "0"
    /\ n = 0 => t = << >>
Short(s, n) == \A h \in Nat : n < 2 ^ (4 * h) => Len(s) <= h

\* The lowest digit is a digit of the radix, worth the remainder.
LEMMA LowestDigit ==
    ASSUME NEW n \in Nat, NEW radix \in 2 .. 16
    PROVE  /\ Lowest(n, radix) \in DigitChars(radix)
           /\ Digit(Lowest(n, radix)) = n % radix
           /\ n % radix > 0 => Lowest(n, radix) # "0"
  <1>. PICK m \in 0 .. radix - 1 : m = n % radix
    OBVIOUS
  <1>1. Lowest(n, radix) = lookup[1 + m]
    BY DEF Lowest
  <1>2. 1 + m \in 1 .. radix /\ 1 + m \in 1 .. 16 /\ (1 + m) - 1 = m
    OBVIOUS
  <1>3. lookup[1 + m] \in DigitChars(radix)
    BY <1>2 DEF DigitChars
  <1>4. Digit(lookup[1 + m]) = m
    BY <1>2, DigitOf
  <1>5. ASSUME m > 0, lookup[1 + m] = "0" PROVE FALSE
    <2>1. lookup[1] = "0"
      BY DEF lookup
    <2>2. 1 + m = 1
      BY <1>2, <1>5, <2>1, LookupDistinct
    <2>3. QED BY <2>2, <1>5
  <1>6. QED BY <1>1, <1>3, <1>4, <1>5

\* One more digit writes the larger number.
LEMMA WrittenStep ==
    ASSUME NEW n \in Nat, n > 0, NEW radix \in 2 .. 16, NEW s \in Seq(DigitChars(radix)),
           Written(strrev(s), n \div radix, radix)
    PROVE  /\ <<Lowest(n, radix)>> \o s \in Seq(DigitChars(radix))
           /\ Written(strrev(<<Lowest(n, radix)>> \o s), n, radix)
  <1>. PICK q \in 0 .. n - 1 : q = n \div radix
    BY Quotient
  <1>. PICK m \in 0 .. radix - 1 : m = n % radix
    BY Quotient
  <1>1. n = q * radix + m
    BY Quotient
  <1>. DEFINE c == Lowest(n, radix)
  <1>. DEFINE t == strrev(s)
  <1>2. c \in DigitChars(radix) /\ Digit(c) = m /\ (m > 0 => c # "0")
    BY LowestDigit
  <1>3. t \in Seq(DigitChars(radix)) /\ Value(t, radix) = q /\ (q > 0 => t # << >> /\ t[1] # "0")
        /\ (q = 0 => t = << >>)
    BY DEF Written
  <1>4. strrev(<<c>> \o s) = Append(t, c)
    BY <1>2, StrrevFirst
  <1>. HIDE DEF c, t
  <1>5. Value(Append(t, c), radix) = n
    BY <1>1, <1>2, <1>3, ValueAppend
  <1>6. Append(t, c) \in Seq(DigitChars(radix)) /\ Append(t, c) # << >>
    BY <1>2, <1>3
  <1>7. Append(t, c)[1] # "0"
    <2>1. CASE t = << >>
      <3>1. Value(t, radix) = 0
        BY <2>1, ValueEmpty
      <3>2. q = 0 /\ q * radix = 0
        BY <3>1, <1>3
      <3>3. m > 0
        BY <3>2, <1>1
      <3>4. Append(t, c)[1] = c
        BY <2>1
      <3>5. QED BY <3>3, <3>4, <1>2
    <2>2. CASE t # << >>
      <3>1. Append(t, c)[1] = t[1]
        BY <2>2, <1>3
      <3>2. CASE q > 0
        BY <3>1, <3>2, <1>3
      <3>3. CASE q = 0
        BY <3>3, <2>2, <1>3
      <3>4. QED BY <3>2, <3>3
    <2>3. QED BY <2>1, <2>2
  <1>8. <<c>> \o s \in Seq(DigitChars(radix))
    BY <1>2
  <1>9. Written(Append(t, c), n, radix)
    BY <1>5, <1>6, <1>7 DEF Written
  <1>10. Written(strrev(<<c>> \o s), n, radix)
    BY <1>4, <1>9
  <1>11. QED BY <1>8, <1>10 DEF c

\* With its lowest digit a number below 16^h still has at most h digits.
LEMMA ShortStep ==
    ASSUME NEW n \in Nat, n > 0, NEW C, NEW s \in Seq(C), Short(s, n \div 16), NEW c
    PROVE  Short(<<c>> \o s, n)
  <1>. PICK q \in 0 .. n - 1 : q = n \div 16
    BY Quotient, 16 \in 2 .. 16
  <1>. PICK m \in 0 .. 15 : m = n % 16
    BY Quotient, 16 \in 2 .. 16
  <1>1. n = q * 16 + m
    BY Quotient, 16 \in 2 .. 16
  <1>2. Len(<<c>> \o s) = Len(s) + 1 /\ Len(s) \in Nat
    <2>1. s \in Seq(C \cup {c}) /\ <<c>> \in Seq(C \cup {c}) /\ Len(<<c>>) = 1
      OBVIOUS
    <2>2. QED BY <2>1, ConcatProperties
  <1>3. ASSUME NEW h \in Nat, n < 2 ^ (4 * h) PROVE Len(s) + 1 <= h
    <2>1. h # 0
      <3>1. ASSUME h = 0 PROVE FALSE
        <4>1. 2 ^ (4 * h) = 1
          BY <3>1
        <4>2. QED BY <4>1, <1>3
      <3>2. QED BY <3>1
    <2>2. PICK k \in Nat : h = k + 1
      <3>1. h - 1 \in Nat /\ h = (h - 1) + 1
        BY <2>1
      <3>2. QED BY <3>1
    <2>3. PICK p \in Nat : p = 2 ^ (4 * k)
      BY PowerOfTwo, 4 * k \in Nat
    <2>4. n < 16 * p
      BY <1>3, <2>2, <2>3, PowerOfSixteen
    <2>5. q < p
      BY <2>4, <1>1
    <2>6. Len(s) <= k
      BY <2>5, <2>3 DEF Short
    <2>7. QED BY <2>2, <2>6, <1>2
  <1>4. QED BY <1>2, <1>3 DEF Short

\* The digits of a number, highest first, write it.
LEMMA DigitsWritten ==
    ASSUME NEW m \in Nat, NEW radix \in 2 .. 16
    PROVE  /\ Written(strrev(Digits(m, radix)), m, radix)
           /\ radix = 16 => Short(strrev(Digits(m, radix)), m)
  <1>1. PICK f : IsLow(f, m, radix) /\ Digits(m, radix) = f[m]
    BY DigitsIs
  <1>. DEFINE Ok(n) == /\ f[n] \in Seq(DigitChars(radix))
                       /\ Written(strrev(f[n]), n, radix)
                       /\ radix = 16 => Short(f[n], n)
  <1>. DEFINE T == {n \in 0 .. m : Ok(n)}
  <1>2. 0 \in T
    <2>1. f[0] = << >>
      BY <1>1 DEF IsLow
    <2>2. << >> \in Seq(DigitChars(radix)) /\ Len(<< >>) = 0
      OBVIOUS
    <2>3. strrev(<< >>) = << >>
      BY DEF strrev
    <2>4. Written(<< >>, 0, radix)
      BY <2>2, ValueEmpty DEF Written
    <2>5. Short(<< >>, 0)
      BY <2>2 DEF Short
    <2>6. /\ f[0] \in Seq(DigitChars(radix)) /\ Written(strrev(f[0]), 0, radix)
          /\ radix = 16 => Short(f[0], 0)
      BY <2>1, <2>2, <2>3, <2>4, <2>5, Zenon
    <2>7. 0 \in 0 .. m
      OBVIOUS
    <2>8. QED BY <2>6, <2>7, Zenon
  <1>3. ASSUME NEW n \in 0 .. m, \A k \in 0 .. n - 1 : k \in T PROVE n \in T
    <2>1. CASE n = 0
      BY <1>2, <2>1
    <2>2. CASE n # 0
      <3>1. n \in 1 .. m /\ n > 0 /\ n \in Nat
        BY <2>2
      <3>2. n \div radix \in 0 .. n - 1
        BY <3>1, Quotient
      <3>3. Ok(n \div radix)
        BY <1>3, <3>2
      <3>4. f[n] = <<Lowest(n, radix)>> \o f[n \div radix]
        BY <3>1, <1>1 DEF IsLow
      <3>. DEFINE s == f[n \div radix]
      <3>5. s \in Seq(DigitChars(radix)) /\ Written(strrev(s), n \div radix, radix)
            /\ (radix = 16 => Short(s, n \div radix))
        BY <3>3
      <3>. HIDE DEF s
      <3>6. <<Lowest(n, radix)>> \o s \in Seq(DigitChars(radix))
            /\ Written(strrev(<<Lowest(n, radix)>> \o s), n, radix)
        BY <3>1, <3>5, WrittenStep
      <3>7. ASSUME radix = 16 PROVE Short(<<Lowest(n, radix)>> \o s, n)
        <4>1. Short(s, n \div 16)
          BY <3>5, <3>7
        <4>2. QED BY <3>1, <3>5, <4>1, ShortStep
      <3>8. Ok(n)
        BY <3>4, <3>6, <3>7 DEF s
      <3>9. QED BY <3>8
    <2>3. QED BY <2>1, <2>2
  <1>4. m \in T
    <2>. HIDE DEF T
    <2>1. Follows(T, m)
      BY <1>3 DEF Follows
    <2>2. QED BY <2>1, Complete
  <1>5. Ok(m)
    BY <1>4
  <1>6. Len(strrev(f[m])) = Len(f[m])
    BY <1>5, StrrevFacts
  <1>7. QED BY <1>1, <1>5, <1>6 DEF Short

\* What itoa leaves is a numeral of the value.
LEMMA ItoaNumeral ==
    ASSUME NEW m \in Nat, NEW radix \in 2 .. 16
    PROVE  /\ itoa(m, radix) \in Seq(DigitChars(radix)) /\ IsDigits(itoa(m, radix), radix)
           /\ Plain(itoa(m, radix)) /\ Value(itoa(m, radix), radix) = m
           /\ radix = 16 => \A h \in Nat : h > 0 /\ m < 2 ^ (4 * h) => Len(itoa(m, radix)) <= h
  <1>0. \A t \in Seq(DigitChars(radix)) : t # << >> => IsDigits(t, radix)
    <2>1. ASSUME NEW t \in Seq(DigitChars(radix)), t # << >> PROVE IsDigits(t, radix)
      <3>1. ASSUME NEW i \in DOMAIN t PROVE \E d \in 1 .. radix : t[i] = lookup[d]
        <4>1. t[i] \in DigitChars(radix)
          OBVIOUS
        <4>2. QED BY <4>1 DEF DigitChars
      <3>2. QED BY <2>1, <3>1 DEF IsDigits
    <2>2. QED BY <2>1
  <1>1. CASE m = 0
    <2>1. itoa(m, radix) = <<"0">>
      BY <1>1 DEF itoa
    <2>2. "0" \in DigitChars(radix) /\ Digit("0") = 0
      <3>1. lookup[1] = "0"
        BY DEF lookup
      <3>2. 1 \in 1 .. radix /\ 1 \in 1 .. 16
        OBVIOUS
      <3>3. lookup[1] \in DigitChars(radix)
        BY <3>2 DEF DigitChars
      <3>4. Digit(lookup[1]) = 1 - 1
        BY <3>2, DigitOf
      <3>5. QED BY <3>1, <3>3, <3>4
    <2>. DEFINE z == "0"
    <2>. HIDE DEF z
    <2>3. <<z>> = Append(<< >>, z) /\ << >> \in Seq(DigitChars(radix))
      OBVIOUS
    <2>4. Value(<<z>>, radix) = 0
      <3>1. z \in DigitChars(radix) /\ Digit(z) = 0
        BY <2>2 DEF z
      <3>2. Value(Append(<< >>, z), radix) = Value(<< >>, radix) * radix + Digit(z)
        BY <2>3, <3>1, ValueAppend
      <3>3. Value(Append(<< >>, z), radix) = 0
        BY <3>1, <3>2, ValueEmpty
      <3>4. QED BY <3>3, <2>3, Zenon
    <2>5. <<z>> \in Seq(DigitChars(radix)) /\ <<z>> # << >> /\ Len(<<z>>) = 1
      BY <2>2 DEF z
    <2>6. IsDigits(<<z>>, radix) /\ Plain(<<z>>)
      BY <2>5, <1>0 DEF Plain
    <2>7. itoa(m, radix) = <<z>>
      BY <2>1 DEF z
    <2>8. \A h \in Nat : h > 0 => Len(<<z>>) <= h
      BY <2>5
    <2>9. QED BY <1>1, <2>4, <2>5, <2>6, <2>7, <2>8, Zenon
  <1>2. CASE m # 0
    <2>. DEFINE t == strrev(Digits(m, radix))
    <2>1. itoa(m, radix) = t
      BY <1>2 DEF itoa
    <2>2. Written(t, m, radix) /\ (radix = 16 => Short(t, m))
      BY DigitsWritten
    <2>. HIDE DEF t
    <2>3. t \in Seq(DigitChars(radix)) /\ Value(t, radix) = m /\ t # << >> /\ t[1] # "0"
      BY <2>2, <1>2 DEF Written
    <2>4. IsDigits(t, radix) /\ Plain(t)
      BY <2>3, <1>0 DEF Plain
    <2>5. QED BY <2>1, <2>2, <2>3, <2>4 DEF Short
  <1>3. QED BY <1>1, <1>2

----------------------------------------------------------------------------
(* Formats *)

FormatChars == Literals \cup {"%", "#", "x", "u", "d", "c", "s"}
Values == Words \cup Strings \cup Literals

\* The four kinds of items and their arguments.
LEMMA ItemKinds ==
    ASSUME NEW item \in Items
    PROVE  \/ item[1] \in Numeric /\ item[2] \in Words
           \/ item[1] = "s" /\ item[2] \in Strings
           \/ item[1] = "%"
           \/ item[1] \in {"c", "literal"} /\ item[2] \in Literals
  BY DEF Items

\* An item is spelled in the characters of formats.
LEMMA SpelledTyped ==
    ASSUME NEW item \in Items
    PROVE  Spelled(item) \in Seq(FormatChars)
  <1>1. CASE item[1] = "literal"
    <2>1. item[2] \in FormatChars
      BY <1>1, ItemKinds DEF FormatChars, Numeric
    <2>2. Spelled(item) = <<item[2]>>
      BY <1>1 DEF Spelled
    <2>3. QED BY <2>1, <2>2
  <1>2. CASE item[1] = "#x"
    <2>1. {"%", "#", "x"} \subseteq FormatChars
      BY DEF FormatChars
    <2>2. Spelled(item) = <<"%", "#", "x">>
      BY <1>2 DEF Spelled
    <2>3. QED BY <2>1, <2>2
  <1>3. CASE item[1] # "literal" /\ item[1] # "#x"
    <2>1. item[1] \in FormatChars /\ "%" \in FormatChars
      BY <1>3, ItemKinds DEF FormatChars, Numeric
    <2>2. Spelled(item) = <<"%", item[1]>>
      BY <1>3 DEF Spelled
    <2>3. QED BY <2>1, <2>2
  <1>4. QED BY <1>1, <1>2, <1>3

\* A sequence that begins another one.
Starts(s, t) == Len(s) <= Len(t) /\ \A x \in 1 .. Len(s) : t[x] = s[x]

\* What starts with s \o r starts with s, and has r behind it.
LEMMA StartsConcat ==
    ASSUME NEW C, NEW s \in Seq(C), NEW r \in Seq(C), NEW t \in Seq(C), Starts(s \o r, t)
    PROVE  Starts(s, t) /\ SubSeq(t, Len(s) + 1, Len(s \o r)) = r
  <1>1. /\ s \o r \in Seq(C) /\ Len(s \o r) = Len(s) + Len(r)
        /\ \A i \in 1 .. Len(s) + Len(r) :
               (s \o r)[i] = IF i <= Len(s) THEN s[i] ELSE r[i - Len(s)]
    BY ConcatProperties
  <1>. PICK a \in Nat : a = Len(s)
    OBVIOUS
  <1>. PICK b \in Nat : b = Len(r)
    OBVIOUS
  <1>. PICK c \in Nat : c = Len(t)
    OBVIOUS
  <1>2. a + b <= c /\ \A i \in 1 .. a + b : t[i] = (s \o r)[i]
    BY <1>1 DEF Starts
  <1>3. ASSUME NEW i \in 1 .. a PROVE t[i] = s[i]
    BY <1>1, <1>2
  <1>4. Starts(s, t)
    BY <1>2, <1>3 DEF Starts
  <1>. DEFINE u == SubSeq(t, a + 1, a + b)
  <1>5. u \in Seq(C) /\ Len(u) = b /\ \A i \in 1 .. b : u[i] = t[a + i]
    <2>1. \A i \in a + 1 .. a + b : t[i] \in C
      BY <1>2
    <2>2. /\ u \in Seq(C) /\ Len(u) = IF a + 1 <= a + b THEN ((a + b) - (a + 1)) + 1 ELSE 0
          /\ \A i \in 1 .. ((a + b) - (a + 1)) + 1 : u[i] = t[((a + 1) + i) - 1]
      BY <2>1, SubSeqProperties, a + 1 \in Int, a + b \in Int
    <2>. HIDE DEF u
    <2>3. ((a + b) - (a + 1)) + 1 = b /\ Len(u) = b
      BY <2>2
    <2>4. ASSUME NEW i \in 1 .. b PROVE u[i] = t[a + i]
      <3>1. ((a + 1) + i) - 1 = a + i
        OBVIOUS
      <3>2. QED BY <2>2, <2>3, <3>1
    <2>5. QED BY <2>2, <2>3, <2>4
  <1>. HIDE DEF u
  <1>6. ASSUME NEW i \in 1 .. b PROVE u[i] = r[i]
    <2>1. a + i \in 1 .. a + b /\ ~(a + i <= a) /\ (a + i) - a = i
      OBVIOUS
    <2>2. t[a + i] = r[i]
      BY <2>1, <1>1, <1>2
    <2>3. QED BY <2>2, <1>5
  <1>7. u = r
    BY <1>5, <1>6, SeqEqual
  <1>8. QED BY <1>1, <1>4, <1>7 DEF u

\* A sequence starts with itself.
LEMMA StartsItself ==
    ASSUME NEW C, NEW s \in Seq(C) PROVE Starts(s, s)
  BY DEF Starts

\* A sequence put together piece by piece: every stage begins the last one.
Joins(d, piece, n) == d[0] = << >> /\ \A j \in 1 .. n : d[j] = d[j - 1] \o piece[j]

\* A joined sequence starts with each of its parts.
LEMMA JoinStarts ==
    ASSUME NEW C, NEW n \in Nat, NEW piece \in [1 .. n -> Seq(C)], NEW d \in [0 .. n -> Seq(C)],
           Joins(d, piece, n)
    PROVE  \A j \in 0 .. n : Starts(d[j], d[n])
  <1>. DEFINE T == {j \in 0 .. n : Starts(d[j], d[n])}
  <1>1. n \in T
    <2>1. d[n] \in Seq(C) /\ n \in 0 .. n
      OBVIOUS
    <2>2. QED BY <2>1, StartsItself
  <1>2. ASSUME NEW j \in 1 .. n, j \in T PROVE j - 1 \in T
    <2>1. d[j - 1] \in Seq(C) /\ piece[j] \in Seq(C) /\ d[n] \in Seq(C) /\ j - 1 \in 0 .. n
      OBVIOUS
    <2>2. d[j] = d[j - 1] \o piece[j]
      BY DEF Joins
    <2>3. Starts(d[j - 1] \o piece[j], d[n])
      BY <1>2, <2>2
    <2>4. Starts(d[j - 1], d[n])
      BY <2>1, <2>3, StartsConcat
    <2>5. QED BY <2>1, <2>4
  <1>3. \A j \in 0 .. n : j \in T
    <2>. HIDE DEF T
    <2>1. Falls(T, n)
      BY <1>1, <1>2 DEF Falls
    <2>2. QED BY <2>1, DownFrom
  <1>4. QED BY <1>3

\* In t, a piece r lies between the ends of s and of s1.
LiesIn(t, s, s1, r) == /\ SubSeq(t, Len(s) + 1, Len(s1)) = r
                       /\ Len(s1) = Len(s) + Len(r) /\ Len(s1) <= Len(t)
                       /\ Len(s) \in Nat /\ Len(r) \in Nat /\ Len(t) \in Nat
LEMMA JoinPieces ==
    ASSUME NEW C, NEW n \in Nat, NEW piece \in [1 .. n -> Seq(C)], NEW d \in [0 .. n -> Seq(C)],
           Joins(d, piece, n), NEW j \in 1 .. n
    PROVE  LiesIn(d[n], d[j - 1], d[j], piece[j])
  <1>1. d[j - 1] \in Seq(C) /\ piece[j] \in Seq(C) /\ d[n] \in Seq(C) /\ j \in 0 .. n
    OBVIOUS
  <1>2. d[j] = d[j - 1] \o piece[j]
    BY DEF Joins
  <1>3. Starts(d[j], d[n])
    BY <1>1, JoinStarts
  <1>4. SubSeq(d[n], Len(d[j - 1]) + 1, Len(d[j])) = piece[j]
    BY <1>1, <1>2, <1>3, StartsConcat
  <1>5. Len(d[j]) = Len(d[j - 1]) + Len(piece[j])
    BY <1>1, <1>2, ConcatProperties
  <1>6. QED BY <1>1, <1>3, <1>4, <1>5, LenProperties DEF Starts, LiesIn

\* Any pieces can be joined.
LEMMA JoinExists ==
    ASSUME NEW C, NEW n \in Nat, NEW piece \in [1 .. n -> Seq(C)]
    PROVE  \E d \in [0 .. n -> Seq(C)] : Joins(d, piece, n)
  <1>. DEFINE next == [i \in 1 .. n |-> [x \in Seq(C) |-> x \o piece[i]]]
  <1>1. next \in [1 .. n -> [Seq(C) -> Seq(C)]]
    <2>1. ASSUME NEW i \in 1 .. n, NEW x \in Seq(C) PROVE x \o piece[i] \in Seq(C)
      <3>1. piece[i] \in Seq(C)
        OBVIOUS
      <3>2. QED BY <3>1, ConcatProperties
    <2>2. QED BY <2>1
  <1>2. << >> \in Seq(C)
    OBVIOUS
  <1>3. PICK d \in [0 .. n -> Seq(C)] : Runs(d, << >>, next, n)
    <2>. HIDE DEF next
    <2>1. QED BY <1>1, <1>2, RunExists
  <1>4. ASSUME NEW i \in 1 .. n PROVE d[i] = d[i - 1] \o piece[i]
    <2>1. d[i - 1] \in Seq(C)
      OBVIOUS
    <2>2. d[i] = next[i][d[i - 1]]
      BY <1>3 DEF Runs
    <2>3. QED BY <2>1, <2>2
  <1>5. Joins(d, piece, n)
    BY <1>3, <1>4 DEF Runs, Joins
  <1>6. QED BY <1>5

\* A piece, character by character.
Holds(t, p, r) == /\ p + Len(r) <= Len(t)
                  /\ \A i \in 1 .. Len(r) : t[p + i] = r[i]

\* A joined sequence has each piece at its place.
LEMMA JoinHolds ==
    ASSUME NEW C, NEW n \in Nat, NEW piece \in [1 .. n -> Seq(C)], NEW d \in [0 .. n -> Seq(C)],
           Joins(d, piece, n), NEW j \in 1 .. n
    PROVE  Holds(d[n], Len(d[j - 1]), piece[j])
  <1>. DEFINE s == d[j - 1]
  <1>. DEFINE r == piece[j]
  <1>. DEFINE t == d[n]
  <1>1. s \in Seq(C) /\ r \in Seq(C) /\ t \in Seq(C) /\ d[j] = s \o r /\ j \in 0 .. n
    <2>1. j \in 0 .. n /\ j - 1 \in 0 .. n /\ n \in 0 .. n
      OBVIOUS
    <2>2. s \in Seq(C) /\ r \in Seq(C) /\ t \in Seq(C)
      BY <2>1
    <2>3. d[j] = s \o r
      BY DEF Joins
    <2>4. QED BY <2>1, <2>2, <2>3, Zenon
  <1>2. Starts(d[j], t)
    <2>1. \A i \in 0 .. n : Starts(d[i], d[n])
      BY JoinStarts
    <2>2. QED BY <1>1, <2>1, Zenon
  <1>3. /\ Len(s \o r) = Len(s) + Len(r)
        /\ \A i \in 1 .. Len(s) + Len(r) :
               (s \o r)[i] = IF i <= Len(s) THEN s[i] ELSE r[i - Len(s)]
    BY <1>1, ConcatProperties
  <1>4. Starts(s \o r, t)
    BY <1>1, <1>2
  <1>. HIDE DEF s, r, t
  <1>5. Len(s) \in Nat /\ Len(r) \in Nat /\ Len(t) \in Nat
    BY <1>1
  <1>6. ASSUME NEW i \in 1 .. Len(r) PROVE t[Len(s) + i] = r[i]
    <2>1. Len(s) + i \in 1 .. Len(s) + Len(r) /\ ~(Len(s) + i <= Len(s))
          /\ (Len(s) + i) - Len(s) = i
      BY <1>5
    <2>2. (s \o r)[Len(s) + i] = r[i]
      BY <2>1, <1>3
    <2>3. QED BY <2>1, <2>2, <1>3, <1>4 DEF Starts
  <1>7. Holds(t, Len(s), r)
    BY <1>3, <1>4, <1>6 DEF Starts, Holds
  <1>8. QED BY <1>7 DEF s, r, t

Spellings(items) == [j \in 1 .. Len(items) |-> Spelled(items[j])]
FormatUpto(u, items, j) == IF j = 0 THEN << >> ELSE u[j - 1] \o Spelled(items[j])

\* A format is the spellings of its items, joined.
LEMMA FormatIs ==
    ASSUME NEW items \in Seq(Items)
    PROVE  /\ Spellings(items) \in [1 .. Len(items) -> Seq(FormatChars)]
           /\ \E u \in [0 .. Len(items) -> Seq(FormatChars)] :
                  Joins(u, Spellings(items), Len(items)) /\ Format(items) = u[Len(items)]
  <1>. PICK n \in Nat : n = Len(items)
    OBVIOUS
  <1>. DEFINE piece == Spellings(items)
  <1>1. piece \in [1 .. n -> Seq(FormatChars)] /\ \A j \in 1 .. n : piece[j] = Spelled(items[j])
    <2>1. ASSUME NEW j \in 1 .. n PROVE Spelled(items[j]) \in Seq(FormatChars)
      <3>1. items[j] \in Items
        OBVIOUS
      <3>2. QED BY <3>1, SpelledTyped
    <2>2. QED BY <2>1 DEF Spellings
  <1>. HIDE DEF piece
  <1>. DEFINE Upto(u) == [j \in 0 .. n |-> FormatUpto(u, items, j)]
  <1>2. \E u : u = Upto(u)
    <2>1. PICK d \in [0 .. n -> Seq(FormatChars)] : Joins(d, piece, n)
      BY <1>1, JoinExists
    <2>2. ASSUME NEW j \in 0 .. n PROVE d[j] = FormatUpto(d, items, j)
      <3>1. CASE j = 0
        BY <2>1, <3>1 DEF Joins, FormatUpto
      <3>2. CASE j # 0
        <4>1. j \in 1 .. n
          BY <3>2
        <4>2. d[j] = d[j - 1] \o Spelled(items[j])
          BY <4>1, <2>1, <1>1 DEF Joins
        <4>3. QED BY <3>2, <4>2 DEF FormatUpto
      <3>3. QED BY <3>1, <3>2
    <2>3. d = [j \in 0 .. n |-> d[j]]
      OBVIOUS
    <2>4. d = Upto(d)
      BY <2>2, <2>3
    <2>5. QED BY <2>4
  <1>. DEFINE u == CHOOSE d : d = Upto(d)
  <1>3. u = Upto(u)
    <2>. HIDE DEF Upto
    <2>1. QED BY <1>2
  <1>4. Format(items) = u[n]
    BY DEF Format, FormatUpto
  <1>. HIDE DEF u
  <1>5. ASSUME NEW j \in 0 .. n PROVE u[j] = FormatUpto(u, items, j)
    BY <1>3
  <1>6. u[0] = << >>
    <2>1. u[0] = FormatUpto(u, items, 0)
      BY <1>5
    <2>2. QED BY <2>1, Zenon DEF FormatUpto
  <1>7. ASSUME NEW j \in 1 .. n PROVE u[j] = u[j - 1] \o piece[j]
    <2>1. u[j] = FormatUpto(u, items, j) /\ j # 0
      BY <1>5
    <2>2. u[j] = u[j - 1] \o Spelled(items[j])
      BY <2>1, Zenon DEF FormatUpto
    <2>3. piece[j] = Spelled(items[j])
      BY <1>1
    <2>4. QED BY <2>2, <2>3, Zenon
  <1>8. Joins(u, piece, n)
    BY <1>6, <1>7 DEF Joins
  <1>. DEFINE T == {j \in 0 .. n : u[j] \in Seq(FormatChars)}
  <1>9. 0 \in T
    <2>1. << >> \in Seq(FormatChars) /\ 0 \in 0 .. n
      OBVIOUS
    <2>2. u[0] \in Seq(FormatChars)
      BY <2>1, <1>6, Zenon
    <2>3. QED BY <2>1, <2>2, Zenon
  <1>10. ASSUME NEW j \in 1 .. n, j - 1 \in T PROVE j \in T
    <2>1. u[j - 1] \in Seq(FormatChars) /\ piece[j] \in Seq(FormatChars)
      BY <1>10, <1>1
    <2>2. u[j] \in Seq(FormatChars)
      BY <2>1, <1>7, ConcatProperties
    <2>3. QED BY <2>2
  <1>11. \A j \in 0 .. n : j \in T
    <2>. HIDE DEF T
    <2>1. Rises(T, n)
      BY <1>9, <1>10 DEF Rises
    <2>2. QED BY <2>1, UpTo
  <1>12. u \in [0 .. n -> Seq(FormatChars)]
    <2>1. u = [j \in 0 .. n |-> u[j]]
      BY <1>3
    <2>2. \A j \in 0 .. n : u[j] \in Seq(FormatChars)
      BY <1>11
    <2>. HIDE DEF T, Upto
    <2>3. QED BY <2>1, <2>2
  <1>13. QED BY <1>1, <1>4, <1>8, <1>12 DEF piece

Passed(item) == IF item[1] \in Taking THEN <<item[2]>> ELSE << >>
Passings(items) == [j \in 1 .. Len(items) |-> Passed(items[j])]
ArgumentsUpto(u, items, j) == IF j = 0 THEN << >>
                              ELSE IF items[j][1] \in Taking
                              THEN Append(u[j - 1], items[j][2])
                              ELSE u[j - 1]

\* What an item passes is what Arguments appends for it.
LEMMA PassedAppends ==
    ASSUME NEW item \in Items, NEW s \in Seq(Values)
    PROVE  /\ Passed(item) \in Seq(Values)
           /\ s \o Passed(item) = IF item[1] \in Taking THEN Append(s, item[2]) ELSE s
  <1>1. CASE item[1] \in Taking
    <2>1. item[2] \in Values
      <3>1. item[1] # "%" /\ item[1] # "literal"
        BY <1>1 DEF Taking, Numeric
      <3>2. QED BY <3>1, ItemKinds DEF Values
    <2>2. Passed(item) = <<item[2]>>
      BY <1>1 DEF Passed
    <2>3. Append(s, item[2]) = s \o <<item[2]>>
      BY <2>1, AppendIsConcat
    <2>4. QED BY <1>1, <2>1, <2>2, <2>3
  <1>2. CASE item[1] \notin Taking
    <2>1. Passed(item) = << >>
      BY <1>2 DEF Passed
    <2>2. s \o << >> = s /\ << >> \in Seq(Values)
      BY ConcatEmptySeq
    <2>3. QED BY <1>2, <2>1, <2>2
  <1>3. QED BY <1>1, <1>2

\* The words behind the format are those its items take, joined.
LEMMA ArgumentsIs ==
    ASSUME NEW items \in Seq(Items)
    PROVE  /\ Passings(items) \in [1 .. Len(items) -> Seq(Values)]
           /\ \E u \in [0 .. Len(items) -> Seq(Values)] :
                  Joins(u, Passings(items), Len(items)) /\ Arguments(items) = u[Len(items)]
  <1>. PICK n \in Nat : n = Len(items)
    OBVIOUS
  <1>0. \A j \in 1 .. n : items[j] \in Items
    OBVIOUS
  <1>. DEFINE piece == Passings(items)
  <1>1. piece \in [1 .. n -> Seq(Values)] /\ \A j \in 1 .. n : piece[j] = Passed(items[j])
    <2>1. ASSUME NEW j \in 1 .. n PROVE Passed(items[j]) \in Seq(Values)
      <3>1. items[j] \in Items /\ << >> \in Seq(Values)
        OBVIOUS
      <3>2. QED BY <3>1, PassedAppends
    <2>2. QED BY <2>1 DEF Passings
  <1>. HIDE DEF piece
  <1>2. ASSUME NEW u, NEW j \in 1 .. n, u[j - 1] \in Seq(Values)
        PROVE  ArgumentsUpto(u, items, j) = u[j - 1] \o piece[j]
    <2>. DEFINE s == u[j - 1]
    <2>1. s \o Passed(items[j]) = IF items[j][1] \in Taking THEN Append(s, items[j][2]) ELSE s
      BY <1>0, <1>2, PassedAppends
    <2>2. j # 0
      OBVIOUS
    <2>3. ArgumentsUpto(u, items, j) = IF items[j][1] \in Taking THEN Append(s, items[j][2]) ELSE s
      BY <2>2, Zenon DEF ArgumentsUpto
    <2>4. piece[j] = Passed(items[j])
      BY <1>1
    <2>. HIDE DEF s
    <2>5. ArgumentsUpto(u, items, j) = s \o piece[j]
      BY <2>1, <2>3, <2>4, Zenon
    <2>6. QED BY <2>5 DEF s
  <1>3. \A u : ArgumentsUpto(u, items, 0) = << >>
    BY Zenon DEF ArgumentsUpto
  <1>. DEFINE Upto(u) == [j \in 0 .. n |-> ArgumentsUpto(u, items, j)]
  <1>4. \E u : u = Upto(u)
    <2>1. PICK d \in [0 .. n -> Seq(Values)] : Joins(d, piece, n)
      BY <1>1, JoinExists
    <2>2. ASSUME NEW j \in 0 .. n PROVE d[j] = ArgumentsUpto(d, items, j)
      <3>1. CASE j = 0
        BY <2>1, <3>1, <1>3 DEF Joins
      <3>2. CASE j # 0
        <4>1. j \in 1 .. n /\ d[j - 1] \in Seq(Values)
          BY <3>2
        <4>2. d[j] = d[j - 1] \o piece[j]
          BY <4>1, <2>1 DEF Joins
        <4>3. QED BY <4>1, <4>2, <1>2
      <3>3. QED BY <3>1, <3>2
    <2>3. d = [j \in 0 .. n |-> d[j]]
      OBVIOUS
    <2>4. d = Upto(d)
      BY <2>2, <2>3
    <2>5. QED BY <2>4
  <1>. DEFINE u == CHOOSE d : d = Upto(d)
  <1>5. u = Upto(u)
    <2>. HIDE DEF Upto
    <2>1. QED BY <1>4
  <1>6. Arguments(items) = u[n]
    BY DEF Arguments, ArgumentsUpto
  <1>. HIDE DEF u
  <1>7. ASSUME NEW j \in 0 .. n PROVE u[j] = ArgumentsUpto(u, items, j)
    BY <1>5
  <1>8. u[0] = << >>
    BY <1>3, <1>7
  <1>. DEFINE T == {j \in 0 .. n : u[j] \in Seq(Values)}
  <1>9. 0 \in T
    <2>1. << >> \in Seq(Values) /\ 0 \in 0 .. n
      OBVIOUS
    <2>2. u[0] \in Seq(Values)
      BY <2>1, <1>8, Zenon
    <2>3. QED BY <2>1, <2>2, Zenon
  <1>10. ASSUME NEW j \in 1 .. n, j - 1 \in T PROVE j \in T
    <2>1. u[j - 1] \in Seq(Values) /\ piece[j] \in Seq(Values) /\ j \in 0 .. n
      BY <1>10, <1>1
    <2>2. u[j] = u[j - 1] \o piece[j]
      BY <2>1, <1>2, <1>7
    <2>3. u[j] \in Seq(Values)
      BY <2>1, <2>2, ConcatProperties
    <2>4. QED BY <2>3
  <1>11. \A j \in 0 .. n : j \in T
    <2>. HIDE DEF T
    <2>1. Rises(T, n)
      BY <1>9, <1>10 DEF Rises
    <2>2. QED BY <2>1, UpTo
  <1>12. \A j \in 0 .. n : u[j] \in Seq(Values)
    BY <1>11
  <1>. HIDE DEF T
  <1>13. u \in [0 .. n -> Seq(Values)]
    <2>1. u = [j \in 0 .. n |-> u[j]]
      BY <1>5
    <2>. HIDE DEF Upto
    <2>2. QED BY <2>1, <1>12
  <1>14. ASSUME NEW j \in 1 .. n PROVE u[j] = u[j - 1] \o piece[j]
    <2>1. u[j - 1] \in Seq(Values) /\ j \in 0 .. n
      BY <1>12
    <2>2. QED BY <2>1, <1>2, <1>7
  <1>15. Joins(u, piece, n)
    BY <1>8, <1>14 DEF Joins
  <1>16. QED BY <1>1, <1>6, <1>13, <1>15 DEF piece

----------------------------------------------------------------------------
(* The loop of printf *)

IsConversion(format, i, j) ==
    /\ j \in i + 1 .. Len(format) + 1
    /\ j <= Len(format) => format[j] # "#"
    /\ \A h \in i + 1 .. j - 1 : format[h] = "#"

\* There is exactly one place for the conversion behind a percent sign.
LEMMA ConversionFound ==
    ASSUME NEW format, Len(format) \in Nat, NEW i \in 1 .. Len(format)
    PROVE  /\ IsConversion(format, i, ConversionAt(format, i))
           /\ \A j : IsConversion(format, i, j) => ConversionAt(format, i) = j
  <1>. PICK n \in Nat : n = Len(format)
    OBVIOUS
  <1>. DEFINE B == {j \in i + 1 .. n + 1 : j <= n => format[j] # "#"}
  <1>1. B \subseteq Nat /\ n + 1 \in B
    OBVIOUS
  <1>2. PICK b \in B : \A k \in B : b <= k
    <2>. HIDE DEF B
    <2>1. QED BY <1>1, LeastNat
  <1>3. IsConversion(format, i, b)
    <2>1. b \in i + 1 .. n + 1 /\ (b <= n => format[b] # "#")
      BY <1>2
    <2>2. ASSUME NEW h \in i + 1 .. b - 1 PROVE format[h] = "#"
      <3>1. h \in i + 1 .. n + 1 /\ ~(b <= h)
        BY <2>1
      <3>2. h \notin B
        BY <3>1, <1>2
      <3>3. QED BY <3>1, <3>2
    <2>3. QED BY <2>1, <2>2 DEF IsConversion
  <1>4. IsConversion(format, i, ConversionAt(format, i))
    <2>1. \E j \in i + 1 .. Len(format) + 1 :
              /\ j <= Len(format) => format[j] # "#"
              /\ \A h \in i + 1 .. j - 1 : format[h] = "#"
      BY <1>3 DEF IsConversion
    <2>2. QED BY <2>1, Zenon DEF ConversionAt, IsConversion
  <1>5. ASSUME NEW j, NEW k, IsConversion(format, i, j), IsConversion(format, i, k), j < k
        PROVE  FALSE
    <2>1. j \in i + 1 .. k - 1 /\ j <= n
      BY <1>5 DEF IsConversion
    <2>2. QED BY <1>5, <2>1 DEF IsConversion
  <1>6. ASSUME NEW j, IsConversion(format, i, j) PROVE ConversionAt(format, i) = j
    <2>1. j \in Int /\ ConversionAt(format, i) \in Int
      BY <1>4, <1>6 DEF IsConversion
    <2>. DEFINE c == ConversionAt(format, i)
    <2>2. IsConversion(format, i, c)
      BY <1>4
    <2>. HIDE DEF c
    <2>3. ~(c < j) /\ ~(j < c)
      BY <1>5, <1>6, <2>2, Zenon
    <2>4. c \in Int
      BY <2>1 DEF c
    <2>5. c = j
      BY <2>1, <2>3, <2>4
    <2>6. QED BY <2>5 DEF c
  <1>7. QED BY <1>4, <1>6

\* What put is at i and k, from what it is further on.
PutAt(put, format, words, i, k) ==
    LET j == ConversionAt(format, i)
    IN IF i > Len(format) THEN << >>
       ELSE IF format[i] # "%" THEN <<format[i]>> \o put[i + 1][k]
       ELSE IF j > Len(format) THEN << >>
       ELSE IF format[j] = "%" THEN <<"%">> \o put[j + 1][k]
       ELSE IF format[j] \in {"x", "u", "d", "c", "s"}
       THEN Converted(format[j], format[i + 1] = "#", words[k + 1]) \o put[j + 1][k + 1]
       ELSE put[j + 1][k]

Agree(f, g, first, last) == \A h \in first .. last : \A k \in Nat : f[h][k] = g[h][k]

\* What the loop puts at i depends only on what it puts further on.
LEMMA PutLocal ==
    ASSUME NEW f, NEW g, NEW format, Len(format) \in Nat, NEW words,
           NEW i \in 1 .. Len(format) + 1, NEW k \in Nat,
           Agree(f, g, i + 1, Len(format) + 1)
    PROVE  PutAt(f, format, words, i, k) = PutAt(g, format, words, i, k)
  <1>1. CASE i > Len(format)
    BY <1>1, Zenon DEF PutAt
  <1>2. CASE ~(i > Len(format))
    <2>. DEFINE j == ConversionAt(format, i)
    <2>0. i \in 1 .. Len(format)
      BY <1>2
    <2>1. j \in i + 1 .. Len(format) + 1
      BY <2>0, ConversionFound DEF IsConversion
    <2>2. f[i + 1][k] = g[i + 1][k]
      <3>1. i + 1 \in i + 1 .. Len(format) + 1
        BY <2>0
      <3>2. QED BY <3>1 DEF Agree
    <2>3. ASSUME ~(j > Len(format))
          PROVE  f[j + 1][k] = g[j + 1][k] /\ f[j + 1][k + 1] = g[j + 1][k + 1]
      <3>. HIDE DEF j
      <3>1. j + 1 \in i + 1 .. Len(format) + 1 /\ k + 1 \in Nat
        BY <2>0, <2>1, <2>3
      <3>2. QED BY <3>1 DEF Agree
    <2>4. QED BY <2>2, <2>3, Zenon DEF PutAt
  <1>3. QED BY <1>1, <1>2

Puts(put, format, words, m) ==
    \A i \in m + 1 .. Len(format) + 1 : \A k \in Nat : put[i][k] = PutAt(put, format, words, i, k)

\* The recursive function of printf exists: it is built from the end of the format.
LEMMA PutExists ==
    ASSUME NEW format, Len(format) \in Nat, NEW words
    PROVE  \E put : Puts(put, format, words, 0)
  <1>. PICK n \in Nat : n = Len(format)
    OBVIOUS
  <1>. DEFINE T == {m \in 0 .. n : \E put : Puts(put, format, words, m)}
  <1>1. n \in T
    <2>. DEFINE g == [i \in {n + 1} |-> [k \in Nat |-> PutAt(format, format, words, i, k)]]
    <2>1. ASSUME NEW i \in n + 1 .. n + 1, NEW k \in Nat
          PROVE  g[i][k] = PutAt(g, format, words, i, k)
      <3>1. i = n + 1 /\ i \in 1 .. Len(format) + 1
        OBVIOUS
      <3>2. g[i][k] = PutAt(format, format, words, i, k)
        BY <3>1
      <3>. HIDE DEF g
      <3>3. Agree(format, g, i + 1, Len(format) + 1)
        BY <3>1 DEF Agree
      <3>4. PutAt(format, format, words, i, k) = PutAt(g, format, words, i, k)
        BY <3>1, <3>3, PutLocal
      <3>5. QED BY <3>2, <3>4
    <2>. HIDE DEF g
    <2>2. Puts(g, format, words, n)
      BY <2>1 DEF Puts
    <2>3. QED BY <2>2
  <1>2. ASSUME NEW m \in 1 .. n, m \in T PROVE m - 1 \in T
    <2>1. PICK f : Puts(f, format, words, m)
      BY <1>2
    <2>. DEFINE g == [i \in 1 .. n + 1 |->
                          IF i = m THEN [k \in Nat |-> PutAt(f, format, words, i, k)] ELSE f[i]]
    <2>2. /\ \A h \in m + 1 .. n + 1 : f[h] = g[h]
          /\ \A k \in Nat : g[m][k] = PutAt(f, format, words, m, k)
      OBVIOUS
    <2>. HIDE DEF g
    <2>3. ASSUME NEW i \in m .. n + 1, NEW k \in Nat
          PROVE  g[i][k] = PutAt(g, format, words, i, k)
      <3>1. i \in 1 .. Len(format) + 1
        OBVIOUS
      <3>2. Agree(f, g, i + 1, Len(format) + 1)
        BY <2>2 DEF Agree
      <3>3. PutAt(f, format, words, i, k) = PutAt(g, format, words, i, k)
        BY <3>1, <3>2, PutLocal
      <3>4. CASE i = m
        BY <3>3, <3>4, <2>2
      <3>5. CASE i # m
        <4>1. i \in m + 1 .. n + 1
          BY <3>5
        <4>2. g[i] = f[i]
          BY <4>1, <2>2
        <4>3. f[i][k] = PutAt(f, format, words, i, k)
          BY <4>1, <2>1 DEF Puts
        <4>4. QED BY <3>3, <4>2, <4>3
      <3>6. QED BY <3>4, <3>5
    <2>4. (m - 1) + 1 = m /\ m - 1 \in 0 .. n
      OBVIOUS
    <2>5. Puts(g, format, words, m - 1)
      BY <2>3, <2>4 DEF Puts
    <2>6. QED BY <2>4, <2>5
  <1>3. 0 \in T
    <2>. HIDE DEF T
    <2>1. Falls(T, n)
      BY <1>1, <1>2 DEF Falls
    <2>2. QED BY <2>1, DownFrom
  <1>4. QED BY <1>3

\* printf is what its loop puts from the start.
LEMMA PrintfIs ==
    ASSUME NEW format, Len(format) \in Nat, NEW words
    PROVE  \E put : Puts(put, format, words, 0) /\ printf(format, words) = put[1][0]
  <1>. PICK n \in Nat : n = Len(format)
    OBVIOUS
  <1>. DEFINE All(put) == [i \in 1 .. n + 1 |-> [k \in Nat |-> PutAt(put, format, words, i, k)]]
  <1>1. \E put : put = All(put)
    <2>1. PICK f : Puts(f, format, words, 0)
      BY PutExists
    <2>. DEFINE g == [i \in 1 .. n + 1 |-> [k \in Nat |-> f[i][k]]]
    <2>2. ASSUME NEW i \in 1 .. n + 1, NEW k \in Nat PROVE f[i][k] = PutAt(f, format, words, i, k)
      BY <2>1 DEF Puts
    <2>3. g = All(f)
      BY <2>2
    <2>4. ASSUME NEW i \in 1 .. n + 1, NEW k \in Nat
          PROVE  PutAt(f, format, words, i, k) = PutAt(g, format, words, i, k)
      <3>1. Agree(f, g, i + 1, Len(format) + 1)
        BY DEF Agree
      <3>. HIDE DEF g
      <3>2. QED BY <3>1, PutLocal
    <2>5. All(f) = All(g)
      BY <2>4
    <2>6. QED BY <2>3, <2>5
  <1>. DEFINE put == CHOOSE g : g = All(g)
  <1>2. put = All(put)
    <2>. HIDE DEF All
    <2>1. QED BY <1>1
  <1>3. printf(format, words) = put[1][0]
    BY DEF printf, PutAt
  <1>. HIDE DEF put
  <1>4. ASSUME NEW i \in 0 + 1 .. n + 1, NEW k \in Nat
        PROVE  put[i][k] = PutAt(put, format, words, i, k)
    <2>1. i \in 1 .. n + 1
      OBVIOUS
    <2>2. put[i] = [x \in Nat |-> PutAt(put, format, words, i, x)]
      BY <1>2, <2>1
    <2>. HIDE DEF All
    <2>3. QED BY <2>2
  <1>. HIDE DEF All
  <1>5. Puts(put, format, words, 0)
    BY <1>4 DEF Puts
  <1>6. QED BY <1>3, <1>5

\* What an item of the format puts.
Piece(item) == IF item[1] = "literal" THEN <<item[2]>>
               ELSE IF item[1] = "%" THEN <<"%">>
               ELSE IF item[1] = "#x" THEN Padded(itoa(item[2], 16))
               ELSE Converted(item[1], FALSE, item[2])

\* The flag of a conversion is the character behind the percent sign.
LEMMA ConvertedBy ==
    ASSUME NEW c, NEW w, NEW x
    PROVE  /\ x # "#" => Converted(c, x = "#", w) = Converted(c, FALSE, w)
           /\ x = "#" => Converted("x", x = "#", w) = Padded(itoa(w, 16))
  BY Zenon DEF Converted

Given(words, k, item) == item[1] \in Taking => words[k + 1] = item[2]
PutsItem(put, p, k, item) ==
    put[p + 1][k] = Piece(item) \o put[(p + Len(Spelled(item))) + 1][k + Len(Passed(item))]

\* At the spelling of an item the loop puts the item's piece, takes its word and goes on
\* behind it.
LEMMA ItemPut ==
    ASSUME NEW format \in Seq(FormatChars), NEW words, NEW put, Puts(put, format, words, 0),
           NEW item \in Items, NEW p \in Nat, NEW k \in Nat, Holds(format, p, Spelled(item)),
           Given(words, k, item)
    PROVE  PutsItem(put, p, k, item)
  <1>. item[1] \in Taking => words[k + 1] = item[2]
    BY DEF Given
  <1>. SUFFICES put[p + 1][k]
                    = Piece(item) \o put[(p + Len(Spelled(item))) + 1][k + Len(Passed(item))]
    BY DEF PutsItem
  <1>. PICK n \in Nat : n = Len(format)
    OBVIOUS
  <1>0. ASSUME p + 1 <= n PROVE put[p + 1][k] = PutAt(put, format, words, p + 1, k)
    <2>1. p + 1 \in 0 + 1 .. Len(format) + 1
      BY <1>0
    <2>2. QED BY <2>1 DEF Puts
  <1>1. CASE item[1] = "literal"
    <2>. DEFINE w == item[2]
    <2>1. w \in Literals /\ w # "%" /\ item[1] # "%" /\ item[1] \notin Taking
      BY <1>1, ItemKinds, PrintfAssumption DEF Numeric, Taking
    <2>2. Spelled(item) = <<w>> /\ Len(<<w>>) = 1 /\ <<w>>[1] = w
      BY <1>1 DEF Spelled
    <2>3. Piece(item) = <<w>>
      BY <1>1, Zenon DEF Piece
    <2>4. Passed(item) = << >> /\ Len(<< >>) = 0
      BY <2>1 DEF Passed
    <2>. HIDE DEF w
    <2>5. p + 1 <= n /\ format[p + 1] = w
      BY <2>2 DEF Holds
    <2>6. ~(p + 1 > Len(format))
      BY <2>5
    <2>7. PutAt(put, format, words, p + 1, k) = <<w>> \o put[(p + 1) + 1][k]
      BY <2>1, <2>5, <2>6, Zenon DEF PutAt
    <2>8. k + 0 = k
      OBVIOUS
    <2>9. put[p + 1][k] = <<w>> \o put[(p + 1) + 1][k]
      BY <1>0, <2>5, <2>7, Zenon
    <2>10. QED BY <2>2, <2>3, <2>4, <2>8, <2>9, Zenon
  <1>2. CASE item[1] = "#x"
    <2>. DEFINE w == item[2]
    <2>1. item[1] \in Taking /\ item[1] # "literal" /\ item[1] # "%"
      BY <1>2 DEF Taking, Numeric
    <2>2. /\ Spelled(item) = <<"%", "#", "x">> /\ Len(<<"%", "#", "x">>) = 3
          /\ <<"%", "#", "x">>[1] = "%" /\ <<"%", "#", "x">>[2] = "#"
          /\ <<"%", "#", "x">>[3] = "x"
      BY <1>2 DEF Spelled
    <2>3. Piece(item) = Padded(itoa(w, 16))
      BY <1>2, <2>1, Zenon DEF Piece
    <2>4. Passed(item) = <<w>> /\ Len(<<w>>) = 1 /\ words[k + 1] = w
      BY <2>1 DEF Passed
    <2>. HIDE DEF w
    <2>5. p + 3 <= n /\ format[p + 1] = "%" /\ format[p + 2] = "#" /\ format[p + 3] = "x"
      BY <2>2 DEF Holds
    <2>6. ~(p + 1 > Len(format)) /\ ~(p + 3 > Len(format)) /\ p + 1 <= n /\ (p + 1) + 1 = p + 2
      BY <2>5
    <2>7. ConversionAt(format, p + 1) = p + 3
      <3>1. IsConversion(format, p + 1, p + 3)
        <4>1. p + 3 \in (p + 1) + 1 .. Len(format) + 1
          BY <2>5
        <4>2. ASSUME NEW h \in (p + 1) + 1 .. (p + 3) - 1 PROVE format[h] = "#"
          <5>1. h = p + 2
            OBVIOUS
          <5>2. QED BY <5>1, <2>5
        <4>3. format[p + 3] # "#"
          BY <2>5
        <4>4. QED BY <4>1, <4>2, <4>3 DEF IsConversion
      <3>2. p + 1 \in 1 .. Len(format)
        BY <2>6
      <3>3. QED BY <3>1, <3>2, ConversionFound
    <2>8. PutAt(put, format, words, p + 1, k)
              = Converted(format[p + 3], format[p + 2] = "#", words[k + 1]) \o put[(p + 3) + 1][k + 1]
      <3>1. format[p + 3] # "%" /\ format[p + 3] \in {"x", "u", "d", "c", "s"}
        BY <2>5
      <3>2. QED BY <2>5, <2>6, <2>7, <3>1, Zenon DEF PutAt
    <2>9. Converted(format[p + 3], format[p + 2] = "#", words[k + 1]) = Padded(itoa(w, 16))
      BY <2>4, <2>5, ConvertedBy, Zenon
    <2>10. put[p + 1][k] = Padded(itoa(w, 16)) \o put[(p + 3) + 1][k + 1]
      BY <1>0, <2>6, <2>8, <2>9, Zenon
    <2>11. QED BY <2>2, <2>3, <2>4, <2>10, Zenon
  <1>3. CASE item[1] # "literal" /\ item[1] # "#x"
    <2>. DEFINE c == item[1]
    <2>. DEFINE w == item[2]
    <2>1. /\ Spelled(item) = <<"%", c>> /\ Len(<<"%", c>>) = 2
          /\ <<"%", c>>[1] = "%" /\ <<"%", c>>[2] = c
      BY <1>3 DEF Spelled
    <2>2. c = "%" \/ c \in {"x", "u", "d", "c", "s"}
      BY <1>3, ItemKinds DEF Numeric
    <2>3. c # "#" /\ (c # "%" => c \in Taking) /\ (c = "%" => c \notin Taking)
      BY <2>2 DEF Taking, Numeric
    <2>4. c # "%" => Passed(item) = <<w>> /\ Len(<<w>>) = 1 /\ words[k + 1] = w
      BY <2>3 DEF Passed
    <2>5. c = "%" => Passed(item) = << >> /\ Len(<< >>) = 0
      BY <2>3 DEF Passed
    <2>6. c = "%" => Piece(item) = <<"%">>
      BY <1>3, Zenon DEF Piece
    <2>7. c # "%" => Piece(item) = Converted(c, FALSE, w)
      BY <1>3, Zenon DEF Piece
    <2>8. p + 2 <= n /\ format[p + 1] = "%" /\ format[p + 2] = c
      BY <2>1 DEF Holds
    <2>. HIDE DEF c, w
    <2>9. ~(p + 1 > Len(format)) /\ ~(p + 2 > Len(format)) /\ p + 1 <= n /\ (p + 1) + 1 = p + 2
          /\ k + 0 = k
      BY <2>8
    <2>10. ConversionAt(format, p + 1) = p + 2
      <3>1. IsConversion(format, p + 1, p + 2)
        <4>1. p + 2 \in (p + 1) + 1 .. Len(format) + 1
          BY <2>8
        <4>2. ASSUME NEW h \in (p + 1) + 1 .. (p + 2) - 1 PROVE format[h] = "#"
          OBVIOUS
        <4>3. format[p + 2] # "#"
          BY <2>3, <2>8
        <4>4. QED BY <4>1, <4>2, <4>3 DEF IsConversion
      <3>2. p + 1 \in 1 .. Len(format)
        BY <2>9
      <3>3. QED BY <3>1, <3>2, ConversionFound
    <2>11. CASE c = "%"
      <3>1. PutAt(put, format, words, p + 1, k) = <<"%">> \o put[(p + 2) + 1][k]
        BY <2>8, <2>9, <2>10, <2>11, Zenon DEF PutAt
      <3>2. put[p + 1][k] = <<"%">> \o put[(p + 2) + 1][k]
        BY <1>0, <2>9, <3>1, Zenon
      <3>3. QED BY <2>1, <2>5, <2>6, <2>9, <2>11, <3>2, Zenon
    <2>12. CASE c # "%"
      <3>1. format[p + 2] # "%" /\ format[p + 2] \in {"x", "u", "d", "c", "s"}
        BY <2>2, <2>8, <2>12
      <3>2. PutAt(put, format, words, p + 1, k)
                = Converted(format[p + 2], format[p + 2] = "#", words[k + 1]) \o put[(p + 2) + 1][k + 1]
        BY <2>8, <2>9, <2>10, <3>1, Zenon DEF PutAt
      <3>3. Converted(format[p + 2], format[p + 2] = "#", words[k + 1]) = Converted(c, FALSE, w)
        BY <2>3, <2>4, <2>8, <2>12, ConvertedBy, Zenon
      <3>4. put[p + 1][k] = Converted(c, FALSE, w) \o put[(p + 2) + 1][k + 1]
        BY <1>0, <2>9, <3>2, <3>3, Zenon
      <3>5. QED BY <2>1, <2>4, <2>7, <2>12, <3>4, Zenon
    <2>13. QED BY <2>11, <2>12
  <1>4. QED BY <1>1, <1>2, <1>3

----------------------------------------------------------------------------
(* What is put can be read *)

OutChars == DigitChars(16) \cup Literals \cup {"%", "-"}

\* Digits may be put.
LEMMA DigitsAreOut ==
    ASSUME NEW radix \in 2 .. 16, NEW s \in Seq(DigitChars(radix))
    PROVE  s \in Seq(OutChars)
  <1>1. DigitChars(radix) \subseteq OutChars
    BY DigitTyped DEF OutChars
  <1>2. QED BY <1>1, SeqMonotonic

\* Words are four bits per hexadecimal digit.
LEMMA WordFacts ==
    ASSUME NEW w \in Words
    PROVE  /\ w \in Nat /\ HexDigits \in Nat /\ HexDigits > 0 /\ w < 2 ^ (4 * HexDigits)
           /\ 2 ^ WordBits \in Nat /\ w < 2 ^ WordBits
           /\ 2 ^ (WordBits - 1) \in Nat /\ 2 ^ (WordBits - 1) > 0
  <1>1. WordBits \in Nat /\ WordBits > 0 /\ WordBits % 4 = 0
    BY PrintfAssumption
  <1>2. HexDigits \in Nat /\ WordBits = 4 * HexDigits
    <2>1. WordBits \div 4 \in Nat /\ WordBits = 4 * (WordBits \div 4)
      BY <1>1
    <2>2. QED BY <2>1 DEF HexDigits
  <1>3. HexDigits > 0
    BY <1>1, <1>2
  <1>4. 2 ^ WordBits \in Nat /\ WordBits - 1 \in Nat
    BY <1>1, PowerOfTwo
  <1>5. 2 ^ (WordBits - 1) \in Nat /\ 2 ^ (WordBits - 1) > 0
    <2>1. 2 ^ (WordBits - 1) \in Nat \ {0}
      BY <1>4, PowerOfTwo
    <2>2. QED BY <2>1
  <1>6. w \in 0 .. 2 ^ WordBits - 1
    BY PrintfAssumption
  <1>7. w \in Nat /\ w < 2 ^ WordBits
    BY <1>4, <1>6
  <1>8. w < 2 ^ (4 * HexDigits)
    BY <1>2, <1>7
  <1>9. QED BY <1>2, <1>3, <1>4, <1>5, <1>7, <1>8

\* The digits of a word in hexadecimal and in decimal.
LEMMA WordDigits ==
    ASSUME NEW w \in Nat, NEW radix \in {10, 16}
    PROVE  /\ itoa(w, radix) \in Seq(OutChars) /\ itoa(w, radix) \in Seq(DigitChars(radix))
           /\ IsDigits(itoa(w, radix), radix)
           /\ Plain(itoa(w, radix)) /\ Value(itoa(w, radix), radix) = w
  <1>1. radix \in 2 .. 16
    OBVIOUS
  <1>2. QED BY <1>1, ItoaNumeral, DigitsAreOut

\* A word in hexadecimal has at most HexDigits digits.
LEMMA WordFits ==
    ASSUME NEW w \in Words
    PROVE  Len(itoa(w, 16)) <= HexDigits /\ Len(itoa(w, 16)) \in Nat
  <1>1. 16 \in 2 .. 16
    OBVIOUS
  <1>2. /\ itoa(w, 16) \in Seq(DigitChars(16))
        /\ \A h \in Nat : h > 0 /\ w < 2 ^ (4 * h) => Len(itoa(w, 16)) <= h
    BY <1>1, WordFacts, ItoaNumeral
  <1>3. QED BY <1>2, WordFacts

\* %#x of a word has all its HexDigits digits.
LEMMA PaddedOk ==
    ASSUME NEW w \in Words
    PROVE  /\ Padded(itoa(w, 16)) \in Seq(OutChars) /\ IsDigits(Padded(itoa(w, 16)), 16)
           /\ Len(Padded(itoa(w, 16))) = HexDigits /\ Value(Padded(itoa(w, 16)), 16) = w
  <1>. DEFINE s == itoa(w, 16)
  <1>0. 16 \in 2 .. 16 /\ 16 \in {10, 16} /\ w \in Nat /\ HexDigits \in Nat /\ HexDigits > 0
    BY WordFacts
  <1>1. s \in Seq(DigitChars(16)) /\ Value(s, 16) = w
    BY <1>0, WordDigits
  <1>2. Len(s) \in Nat /\ HexDigits - Len(s) \in Nat
    BY <1>0, WordFits
  <1>. HIDE DEF s
  <1>. DEFINE k == HexDigits - Len(s)
  <1>. DEFINE z == [i \in 1 .. k |-> "0"]
  <1>3. Padded(s) = z \o s
    BY DEF Padded
  <1>4. "0" \in DigitChars(16)
    <2>1. lookup[1] = "0"
      BY DEF lookup
    <2>2. 1 \in 1 .. 16
      OBVIOUS
    <2>3. lookup[1] \in DigitChars(16)
      BY <2>2 DEF DigitChars
    <2>4. QED BY <2>1, <2>3
  <1>5. k \in Nat
    BY <1>2
  <1>6. k + Len(s) = HexDigits
    BY <1>0, <1>2
  <1>. HIDE DEF k
  <1>7. z \in Seq(DigitChars(16)) /\ Len(z) = k
    BY <1>4, <1>5
  <1>8. Value(z \o s, 16) = w
    BY <1>0, <1>1, <1>5, ValuePadded
  <1>. HIDE DEF z
  <1>9. z \o s \in Seq(DigitChars(16)) /\ Len(z \o s) = k + Len(s)
    BY <1>1, <1>7, ConcatProperties
  <1>. DEFINE t == z \o s
  <1>10. t \in Seq(DigitChars(16)) /\ Len(t) = HexDigits
    BY <1>6, <1>9
  <1>. HIDE DEF t
  <1>11. IsDigits(t, 16)
    <2>1. t # << >>
      BY <1>0, <1>10
    <2>2. ASSUME NEW i \in DOMAIN t PROVE \E d \in 1 .. 16 : t[i] = lookup[d]
      <3>1. t[i] \in DigitChars(16)
        BY <1>10
      <3>2. QED BY <3>1 DEF DigitChars
    <2>3. QED BY <2>1, <2>2 DEF IsDigits
  <1>12. t \in Seq(OutChars)
    BY <1>0, <1>10, DigitsAreOut
  <1>13. Padded(s) = t /\ Value(t, 16) = w
    BY <1>3, <1>8 DEF t
  <1>14. QED BY <1>10, <1>11, <1>12, <1>13, Zenon DEF s

\* %d of a word whose sign bit is set.
LEMMA NegativeOk ==
    ASSUME NEW w \in Words, Signed(w) < 0
    PROVE  LET s == <<"-">> \o itoa(Negated(w), 10)
           IN /\ s \in Seq(OutChars) /\ s # << >> /\ s[1] = "-" /\ IsDigits(Tail(s), 10)
              /\ Plain(Tail(s)) /\ Value(Tail(s), 10) = -Signed(w)
  <1>. DEFINE m == 2 ^ WordBits - w
  <1>1. w \in Nat /\ w > 0 /\ m \in 1 .. 2 ^ WordBits - 1 /\ 2 ^ WordBits \in Nat
        /\ Signed(w) = w - 2 ^ WordBits
    <2>. PICK b \in Nat : b = 2 ^ WordBits
      BY WordFacts
    <2>. PICK h \in Nat : h = 2 ^ (WordBits - 1) /\ h > 0
      BY WordFacts
    <2>1. w \in Nat /\ w < b
      BY WordFacts
    <2>2. Signed(w) = IF w >= h THEN w - b ELSE w
      BY DEF Signed
    <2>3. w >= h /\ Signed(w) = w - b
      BY <2>1, <2>2
    <2>4. w > 0
      BY <2>1, <2>3
    <2>5. m = b - w
      OBVIOUS
    <2>6. QED BY <2>1, <2>3, <2>4, <2>5
  <1>2. Negated(w) = m /\ m \in Nat /\ m = -Signed(w)
    <2>. PICK b \in Nat : b = 2 ^ WordBits
      BY <1>1
    <2>. PICK r \in 1 .. b - 1 : r = m
      BY <1>1
    <2>1. r % b = r
      OBVIOUS
    <2>2. Negated(w) = r % b
      BY DEF Negated
    <2>3. m = -Signed(w)
      BY <1>1
    <2>4. QED BY <2>1, <2>2, <2>3
  <1>. HIDE DEF m
  <1>. DEFINE t == itoa(m, 10)
  <1>3. t \in Seq(OutChars) /\ IsDigits(t, 10) /\ Plain(t) /\ Value(t, 10) = m
    BY <1>2, WordDigits
  <1>. HIDE DEF t
  <1>. DEFINE s == <<"-">> \o t
  <1>4. "-" \in OutChars
    BY DEF OutChars
  <1>5. s \in Seq(OutChars) /\ s # << >> /\ s[1] = "-" /\ Tail(s) = t
    <2>. PICK c \in OutChars : c = "-"
      BY <1>4
    <2>1. <<c>> \o t \in Seq(OutChars) /\ <<c>> \o t # << >> /\ (<<c>> \o t)[1] = c
          /\ Tail(<<c>> \o t) = t
      BY <1>3
    <2>2. s = <<c>> \o t
      OBVIOUS
    <2>3. QED BY <2>1, <2>2, Zenon
  <1>. HIDE DEF s
  <1>6. <<"-">> \o itoa(Negated(w), 10) = s
    BY <1>2 DEF s, t
  <1>7. QED BY <1>2, <1>3, <1>5, <1>6, Zenon

\* The piece of every item shows its argument.
LEMMA PieceOk ==
    ASSUME NEW item \in Items
    PROVE  Piece(item) \in Seq(OutChars) /\ Reads(item, Piece(item))
  <1>. DEFINE w == item[2]
  <1>1. CASE item[1] = "literal" \/ item[1] = "c"
    <2>1. w \in Literals
      BY <1>1, ItemKinds DEF Numeric
    <2>2. <<w>> \in Seq(OutChars)
      BY <2>1 DEF OutChars
    <2>3. Piece(item) = <<w>>
      BY <1>1 DEF Piece, Converted
    <2>4. Reads(item, <<w>>)
      BY <1>1 DEF Reads
    <2>5. QED BY <2>2, <2>3, <2>4, Zenon
  <1>2. CASE item[1] = "%"
    <2>1. Piece(item) = <<"%">>
      BY <1>2 DEF Piece
    <2>2. Reads(item, <<"%">>)
      BY <1>2 DEF Reads
    <2>3. "%" \in OutChars
      BY DEF OutChars
    <2>4. <<"%">> \in Seq(OutChars)
      BY <2>3
    <2>5. QED BY <2>1, <2>2, <2>4, Zenon
  <1>3. CASE item[1] = "s"
    <2>1. w \in Strings
      BY <1>3, ItemKinds DEF Numeric
    <2>2. w \in Seq(OutChars)
      <3>1. w \in Seq(Literals \cup {"%"}) /\ Literals \cup {"%"} \subseteq OutChars
        BY <2>1, PrintfAssumption DEF OutChars
      <3>2. QED BY <3>1, SeqMonotonic
    <2>3. Piece(item) = w
      BY <1>3 DEF Piece, Converted
    <2>4. Reads(item, w)
      BY <1>3 DEF Reads
    <2>5. QED BY <2>2, <2>3, <2>4, Zenon
  <1>4. CASE item[1] \in Numeric
    <2>1. w \in Words
      BY <1>4, ItemKinds DEF Numeric
    <2>2. w \in Nat
      BY <2>1, WordFacts
    <2>3. CASE item[1] = "#x"
      <3>1. Piece(item) = Padded(itoa(w, 16))
        BY <2>3 DEF Piece
      <3>2. Reads(item, Padded(itoa(w, 16)))
        BY <2>1, <2>3, PaddedOk DEF Reads
      <3>3. QED BY <3>1, <3>2, <2>1, PaddedOk
    <2>4. CASE item[1] = "x"
      <3>1. Piece(item) = itoa(w, 16)
        BY <2>4 DEF Piece, Converted
      <3>2. /\ itoa(w, 16) \in Seq(OutChars) /\ IsDigits(itoa(w, 16), 16) /\ Plain(itoa(w, 16))
            /\ Len(itoa(w, 16)) <= HexDigits /\ Value(itoa(w, 16), 16) = w
        BY <2>1, <2>2, WordDigits, WordFits, 16 \in {10, 16}
      <3>3. Reads(item, itoa(w, 16))
        BY <2>4, <3>2 DEF Reads
      <3>4. QED BY <3>1, <3>2, <3>3
    <2>5. ASSUME item[1] = "u" \/ (item[1] = "d" /\ ~(Signed(w) < 0))
          PROVE  Piece(item) \in Seq(OutChars) /\ Reads(item, Piece(item))
      <3>1. Piece(item) = itoa(w, 10)
        BY <2>5 DEF Piece, Converted
      <3>2. /\ itoa(w, 10) \in Seq(OutChars) /\ IsDigits(itoa(w, 10), 10) /\ Plain(itoa(w, 10))
            /\ Value(itoa(w, 10), 10) = w
        BY <2>2, WordDigits, 10 \in {10, 16}
      <3>3. Reads(item, itoa(w, 10))
        BY <2>5, <3>2 DEF Reads
      <3>4. QED BY <3>1, <3>2, <3>3
    <2>6. CASE item[1] = "d" /\ Signed(w) < 0
      <3>. DEFINE s == <<"-">> \o itoa(Negated(w), 10)
      <3>1. Piece(item) = s
        BY <2>6 DEF Piece, Converted
      <3>2. /\ s \in Seq(OutChars) /\ s # << >> /\ s[1] = "-" /\ IsDigits(Tail(s), 10)
            /\ Plain(Tail(s)) /\ Value(Tail(s), 10) = -Signed(w)
        BY <2>1, <2>6, NegativeOk
      <3>. HIDE DEF s
      <3>3. Reads(item, s)
        BY <2>6, <3>2 DEF Reads
      <3>4. QED BY <3>1, <3>2, <3>3
    <2>7. QED BY <1>4, <2>3, <2>4, <2>5, <2>6 DEF Numeric
  <1>5. QED BY <1>1, <1>2, <1>3, <1>4, ItemKinds
----------------------------------------------------------------------------
(* The output, item by item *)

Pieces(items) == [j \in 1 .. Len(items) |-> Piece(items[j])]

\* The loop, at the place an item is written at, puts the item's piece and
\* goes on at the next item.
LEMMA ItemJoined ==
    ASSUME NEW items \in Seq(Items), NEW n \in Nat, n = Len(items), NEW put,
           NEW u \in [0 .. n -> Seq(FormatChars)], Joins(u, Spellings(items), n),
           NEW a \in [0 .. n -> Seq(Values)], Joins(a, Passings(items), n),
           Puts(put, u[n], a[n], 0), NEW j \in 1 .. n
    PROVE  put[Len(u[j - 1]) + 1][Len(a[j - 1])]
               = Piece(items[j]) \o put[Len(u[j]) + 1][Len(a[j])]
  <1>1. items[j] \in Items /\ u[n] \in Seq(FormatChars)
    OBVIOUS
  <1>2. /\ Spellings(items) \in [1 .. n -> Seq(FormatChars)]
        /\ Spellings(items)[j] = Spelled(items[j])
    <2>1. Spellings(items) \in [1 .. n -> Seq(FormatChars)]
      BY FormatIs
    <2>2. QED BY <2>1 DEF Spellings
  <1>3. /\ Passings(items) \in [1 .. n -> Seq(Values)]
        /\ Passings(items)[j] = Passed(items[j])
    <2>1. Passings(items) \in [1 .. n -> Seq(Values)]
      BY ArgumentsIs
    <2>2. QED BY <2>1 DEF Passings
  <1>4. /\ Holds(u[n], Len(u[j - 1]), Spelled(items[j]))
        /\ Len(u[j]) = Len(u[j - 1]) + Len(Spelled(items[j])) /\ Len(u[j - 1]) \in Nat
    <2>1. Holds(u[n], Len(u[j - 1]), Spellings(items)[j])
      BY <1>2, JoinHolds
    <2>2. Len(u[j]) = Len(u[j - 1]) + Len(Spellings(items)[j]) /\ Len(u[j - 1]) \in Nat
      <3>1. LiesIn(u[n], u[j - 1], u[j], Spellings(items)[j])
        BY <1>2, JoinPieces
      <3>2. QED BY <3>1 DEF LiesIn
    <2>3. QED BY <1>2, <2>1, <2>2
  <1>5. /\ Holds(a[n], Len(a[j - 1]), Passed(items[j]))
        /\ Len(a[j]) = Len(a[j - 1]) + Len(Passed(items[j])) /\ Len(a[j - 1]) \in Nat
    <2>1. Holds(a[n], Len(a[j - 1]), Passings(items)[j])
      BY <1>3, JoinHolds
    <2>2. Len(a[j]) = Len(a[j - 1]) + Len(Passings(items)[j]) /\ Len(a[j - 1]) \in Nat
      <3>1. LiesIn(a[n], a[j - 1], a[j], Passings(items)[j])
        BY <1>3, JoinPieces
      <3>2. QED BY <3>1 DEF LiesIn
    <2>3. QED BY <1>3, <2>1, <2>2
  <1>6. items[j][1] \in Taking => a[n][Len(a[j - 1]) + 1] = items[j][2]
    <2>1. SUFFICES ASSUME items[j][1] \in Taking
                   PROVE  a[n][Len(a[j - 1]) + 1] = items[j][2]
      OBVIOUS
    <2>2. Passed(items[j]) = <<items[j][2]>>
      BY <2>1 DEF Passed
    <2>3. Holds(a[n], Len(a[j - 1]), <<items[j][2]>>)
      BY <1>5, <2>2
    <2>4. QED BY <2>3 DEF Holds
  <1>7. put[Len(u[j - 1]) + 1][Len(a[j - 1])]
            = Piece(items[j]) \o put[(Len(u[j - 1]) + Len(Spelled(items[j]))) + 1]
                                    [Len(a[j - 1]) + Len(Passed(items[j]))]
    <2>. DEFINE item == items[j]
    <2>. DEFINE p == Len(u[j - 1])
    <2>. DEFINE k == Len(a[j - 1])
    <2>. DEFINE format == u[n]
    <2>. DEFINE words == a[n]
    <2>1. /\ format \in Seq(FormatChars) /\ Puts(put, format, words, 0)
          /\ item \in Items /\ p \in Nat /\ k \in Nat /\ Holds(format, p, Spelled(item))
          /\ Given(words, k, item)
      BY <1>1, <1>4, <1>5, <1>6 DEF Given
    <2>. HIDE DEF item, p, k, format, words
    <2>2. PutsItem(put, p, k, item)
      BY <2>1, ItemPut
    <2>3. QED BY <2>2 DEF item, p, k, PutsItem
  <1>8. QED BY <1>4, <1>5, <1>7

\* Every piece is a sequence of characters.
LEMMA PiecesTyped ==
    ASSUME NEW items \in Seq(Items)
    PROVE  /\ Pieces(items) \in [1 .. Len(items) -> Seq(OutChars)]
           /\ \A j \in 1 .. Len(items) : Pieces(items)[j] = Piece(items[j])
  <1>1. ASSUME NEW j \in 1 .. Len(items) PROVE Piece(items[j]) \in Seq(OutChars)
    <2>1. items[j] \in Items
      OBVIOUS
    <2>2. QED BY <2>1, PieceOk
  <1>2. QED BY <1>1 DEF Pieces

\* Concatenation is associative.
Associate(s, r, e) == (s \o r) \o e = s \o (r \o e)
LEMMA AssociateJoined ==
    ASSUME NEW C, NEW s \in Seq(C), NEW r \in Seq(C), NEW e \in Seq(C)
    PROVE  Associate(s, r, e)
  BY SMTT(60) DEF Associate

\* What printf puts is the pieces of the items, in their order.
LEMMA PrintfJoins ==
    ASSUME NEW items \in Seq(Items)
    PROVE  \E d \in [0 .. Len(items) -> Seq(OutChars)] :
               /\ Joins(d, Pieces(items), Len(items))
               /\ printf(Format(items), Arguments(items)) = d[Len(items)]
  <1>. PICK n \in Nat : n = Len(items)
    OBVIOUS
  <1>1. PICK u \in [0 .. n -> Seq(FormatChars)] :
            Joins(u, Spellings(items), n) /\ Format(items) = u[n]
    BY FormatIs
  <1>2. PICK a \in [0 .. n -> Seq(Values)] :
            Joins(a, Passings(items), n) /\ Arguments(items) = a[n]
    BY ArgumentsIs
  <1>3. PICK d \in [0 .. n -> Seq(OutChars)] : Joins(d, Pieces(items), n)
    BY PiecesTyped, JoinExists
  <1>4. u[n] \in Seq(FormatChars) /\ Len(u[n]) \in Nat /\ d[n] \in Seq(OutChars)
    <2>1. u[n] \in Seq(FormatChars) /\ d[n] \in Seq(OutChars)
      OBVIOUS
    <2>2. QED BY <2>1
  <1>5. PICK put : Puts(put, u[n], a[n], 0) /\ printf(u[n], a[n]) = put[1][0]
    BY <1>4, PrintfIs
  <1>. DEFINE From(j) == put[Len(u[j]) + 1][Len(a[j])]
  <1>. DEFINE T == {j \in 0 .. n : From(j) \in Seq(OutChars) /\ d[j] \o From(j) = d[n]}
  <1>6. n \in T
    <2>1. Len(a[n]) \in Nat /\ n \in 0 .. n
      <3>1. a[n] \in Seq(Values)
        OBVIOUS
      <3>2. QED BY <3>1
    <2>2. From(n) = PutAt(put, u[n], a[n], Len(u[n]) + 1, Len(a[n]))
      <3>1. Len(u[n]) + 1 \in 0 + 1 .. Len(u[n]) + 1
        BY <1>4
      <3>2. QED BY <2>1, <3>1, <1>5 DEF Puts
    <2>3. Len(u[n]) + 1 > Len(u[n])
      BY <1>4
    <2>4. From(n) = << >>
      BY <2>2, <2>3, Zenon DEF PutAt
    <2>5. << >> \in Seq(OutChars) /\ d[n] \o << >> = d[n]
      BY <1>4, ConcatEmptySeq
    <2>. HIDE DEF From
    <2>6. QED BY <2>1, <2>4, <2>5
  <1>7. ASSUME NEW j \in 1 .. n, j \in T PROVE j - 1 \in T
    <2>1. From(j - 1) = Piece(items[j]) \o From(j)
      <3>1. /\ Joins(u, Spellings(items), n) /\ Joins(a, Passings(items), n)
            /\ Puts(put, u[n], a[n], 0) /\ n = Len(items)
        BY <1>1, <1>2, <1>5
      <3>2. put[Len(u[j - 1]) + 1][Len(a[j - 1])]
                = Piece(items[j]) \o put[Len(u[j]) + 1][Len(a[j])]
        BY <3>1, ItemJoined
      <3>3. QED BY <3>2
    <2>2. d[j] = d[j - 1] \o Piece(items[j])
      <3>1. d[j] = d[j - 1] \o Pieces(items)[j]
        BY <1>3 DEF Joins
      <3>2. QED BY <3>1, PiecesTyped
    <2>3. Piece(items[j]) \in Seq(OutChars)
      <3>1. items[j] \in Items
        OBVIOUS
      <3>2. QED BY <3>1, PieceOk
    <2>4. d[j - 1] \in Seq(OutChars) /\ j - 1 \in 0 .. n
      OBVIOUS
    <2>5. From(j) \in Seq(OutChars) /\ d[j] \o From(j) = d[n]
      BY <1>7
    <2>. HIDE DEF From
    <2>6. d[j - 1] \o (Piece(items[j]) \o From(j)) = (d[j - 1] \o Piece(items[j])) \o From(j)
      <3>. HIDE DEF T
      <3>1. Associate(d[j - 1], Piece(items[j]), From(j))
        BY <2>3, <2>4, <2>5, AssociateJoined, Zenon
      <3>2. QED BY <3>1 DEF Associate
    <2>7. Piece(items[j]) \o From(j) \in Seq(OutChars)
      BY <2>3, <2>5, ConcatProperties
    <2>8. From(j - 1) \in Seq(OutChars) /\ d[j - 1] \o From(j - 1) = d[n]
      BY <2>1, <2>2, <2>5, <2>6, <2>7, Zenon
    <2>9. QED BY <2>4, <2>8
  <1>8. 0 \in T
    <2>. HIDE DEF T
    <2>1. Falls(T, n)
      BY <1>6, <1>7 DEF Falls
    <2>2. QED BY <2>1, DownFrom
  <1>9. printf(u[n], a[n]) = d[n]
    <2>1. u[0] = << >> /\ a[0] = << >> /\ d[0] = << >>
      BY <1>1, <1>2, <1>3 DEF Joins
    <2>2. From(0) = put[1][0]
      <3>1. Len(<< >>) = 0
        OBVIOUS
      <3>2. 0 + 1 = 1
        OBVIOUS
      <3>3. QED BY <2>1, <3>1, <3>2
    <2>3. From(0) \in Seq(OutChars) /\ d[0] \o From(0) = d[n]
      BY <1>8
    <2>. HIDE DEF From
    <2>4. << >> \o From(0) = From(0)
      BY <2>3, ConcatEmptySeq
    <2>5. QED BY <1>5, <2>1, <2>2, <2>3, <2>4
  <1>. HIDE DEF T, From
  <1>10. printf(Format(items), Arguments(items)) = d[n]
    BY <1>1, <1>2, <1>9
  <1>11. QED BY <1>3, <1>10

----------------------------------------------------------------------------
(* The call *)

\* The ends of the pieces of the first i items, from those of one item less.
Ends(c, items, out, i) ==
    IF i = 0 THEN {0}
    ELSE {p \in 0 .. Len(out) : \E q \in c[i - 1] :
             q <= p /\ Reads(items[i], SubSeq(out, q + 1, p))}
Shown(items, out) ==
    LET cuts[i \in 0 .. Len(items)] == Ends(cuts, items, out, i)
    IN Len(out) \in cuts[Len(items)]

AreCuts(c, n, items, out) == c = [i \in 0 .. n |-> Ends(c, items, out, i)]
\* The recursive function of PrintfShowsArguments exists.
LEMMA CutsExist ==
    ASSUME NEW n \in Nat, NEW items, NEW out, Len(out) \in Nat
    PROVE  \E c : AreCuts(c, n, items, out)
  <1>. DEFINE X == SUBSET (0 .. Len(out))
  <1>. DEFINE After(i, Q) == {p \in 0 .. Len(out) : \E q \in Q :
                                 q <= p /\ Reads(items[i], SubSeq(out, q + 1, p))}
  <1>. DEFINE next == [i \in 1 .. n |-> [Q \in X |-> After(i, Q)]]
  <1>1. next \in [1 .. n -> [X -> X]]
    <2>1. ASSUME NEW i \in 1 .. n, NEW Q \in X PROVE After(i, Q) \in X
      BY Zenon
    <2>. HIDE DEF After, X
    <2>2. QED BY <2>1
  <1>2. {0} \in X
    OBVIOUS
  <1>. HIDE DEF X
  <1>3. PICK f \in [0 .. n -> X] : Runs(f, {0}, next, n)
    <2>. HIDE DEF next
    <2>1. QED BY <1>1, <1>2, RunExists
  <1>4. ASSUME NEW i \in 0 .. n PROVE f[i] = Ends(f, items, out, i)
    <2>1. CASE i = 0
      <3>1. f[0] = {0}
        BY <1>3 DEF Runs
      <3>2. QED BY <2>1, <3>1, Zenon DEF Ends
    <2>2. CASE i # 0
      <3>1. i \in 1 .. n /\ f[i - 1] \in X
        BY <2>2
      <3>2. f[i] = next[i][f[i - 1]]
        BY <1>3, <3>1 DEF Runs
      <3>3. next[i][f[i - 1]] = After(i, f[i - 1])
        <4>. HIDE DEF After
        <4>1. QED BY <3>1
      <3>4. Ends(f, items, out, i) = After(i, f[i - 1])
        BY <2>2, Zenon DEF Ends
      <3>. HIDE DEF next, After
      <3>5. QED BY <3>2, <3>3, <3>4
    <2>3. QED BY <2>1, <2>2
  <1>5. f = [i \in 0 .. n |-> f[i]]
    OBVIOUS
  <1>. HIDE DEF next
  <1>6. f = [i \in 0 .. n |-> Ends(f, items, out, i)]
    BY <1>4, <1>5
  <1>7. QED BY <1>6 DEF AreCuts

\* An output joined from pieces that each show their item shows all the items.
LEMMA JoinShown ==
    ASSUME NEW items \in Seq(Items), NEW d \in [0 .. Len(items) -> Seq(OutChars)],
           Joins(d, Pieces(items), Len(items))
    PROVE  Shown(items, d[Len(items)])
  <1>. PICK n \in Nat : n = Len(items)
    OBVIOUS
  <1>. DEFINE out == d[n]
  <1>1. Len(out) \in Nat /\ out \in Seq(OutChars)
    <2>1. out \in Seq(OutChars)
      OBVIOUS
    <2>. HIDE DEF out
    <2>2. QED BY <2>1
  <1>. DEFINE Cuts(c) == [i \in 0 .. n |-> Ends(c, items, out, i)]
  <1>. DEFINE cuts == CHOOSE c : c = Cuts(c)
  <1>2. cuts = Cuts(cuts)
    <2>1. \E c : c = Cuts(c)
      <3>. HIDE DEF out
      <3>1. PICK c : AreCuts(c, n, items, out)
        BY <1>1, CutsExist
      <3>2. QED BY <3>1 DEF AreCuts
    <2>. HIDE DEF Cuts
    <2>2. QED BY <2>1
  <1>3. Shown(items, out) = (Len(out) \in cuts[n])
    BY DEF Shown
  <1>. HIDE DEF cuts
  <1>4. \A i \in 0 .. n : cuts[i] = Ends(cuts, items, out, i)
    BY <1>2
  <1>. HIDE DEF Cuts
  <1>. DEFINE T == {i \in 0 .. n : Len(d[i]) \in cuts[i]}
  <1>5. 0 \in T
    <2>1. d[0] = << >> /\ Len(<< >>) = 0 /\ 0 \in 0 .. n
      BY DEF Joins
    <2>2. cuts[0] = {0}
      BY <1>4, <2>1, Zenon DEF Ends
    <2>3. QED BY <2>1, <2>2
  <1>6. ASSUME NEW i \in 1 .. n, i - 1 \in T PROVE i \in T
    <2>. DEFINE p == Len(d[i])
    <2>. DEFINE q == Len(d[i - 1])
    <2>1. /\ Pieces(items) \in [1 .. n -> Seq(OutChars)]
          /\ Pieces(items)[i] = Piece(items[i])
      BY PiecesTyped
    <2>2. /\ SubSeq(out, q + 1, p) = Pieces(items)[i]
          /\ p = q + Len(Pieces(items)[i]) /\ p <= Len(out)
          /\ q \in Nat /\ Len(Pieces(items)[i]) \in Nat
      <3>1. LiesIn(out, d[i - 1], d[i], Pieces(items)[i])
        BY <2>1, JoinPieces
      <3>2. QED BY <3>1 DEF LiesIn
    <2>3. Reads(items[i], Piece(items[i]))
      <3>1. items[i] \in Items
        OBVIOUS
      <3>2. QED BY <3>1, PieceOk
    <2>4. q \in cuts[i - 1]
      BY <1>6
    <2>. HIDE DEF p, q, out
    <2>5. p \in 0 .. Len(out) /\ q <= p
      BY <2>2, <1>1
    <2>6. Reads(items[i], SubSeq(out, q + 1, p))
      BY <2>1, <2>2, <2>3
    <2>7. i # 0 /\ i \in 0 .. n
      OBVIOUS
    <2>8. p \in Ends(cuts, items, out, i)
      BY <2>4, <2>5, <2>6, <2>7, Zenon DEF Ends
    <2>9. p \in cuts[i]
      BY <1>4, <2>7, <2>8, Zenon
    <2>10. QED BY <2>7, <2>9 DEF p
  <1>7. n \in T
    <2>. HIDE DEF T
    <2>1. Rises(T, n)
      BY <1>5, <1>6 DEF Rises
    <2>2. QED BY <2>1, UpTo
  <1>8. Len(out) \in cuts[n]
    BY <1>7
  <1>9. QED BY <1>3, <1>8

PrintfInv == /\ printed.items \in Seq(Items)
             /\ printed.out = printf(Format(printed.items), Arguments(printed.items))

\* An empty format puts nothing.
LEMMA NothingPrinted == printf(Format(<< >>), Arguments(<< >>)) = << >>
  <1>1. << >> \in Seq(Items) /\ Len(<< >>) = 0
    OBVIOUS
  <1>2. PICK d \in [0 .. Len(<< >>) -> Seq(OutChars)] :
            /\ Joins(d, Pieces(<< >>), Len(<< >>))
            /\ printf(Format(<< >>), Arguments(<< >>)) = d[Len(<< >>)]
    BY <1>1, PrintfJoins
  <1>3. d[0] = << >>
    BY <1>2 DEF Joins
  <1>4. QED BY <1>1, <1>2, <1>3

\* With words of any width, whatever the format and its arguments, what printf
\* puts is one piece per item of the format, in order, each the number, the
\* character or the string its own argument is: also for the smallest negative
\* word, for zero, and for formats in which a conversion takes no argument.
THEOREM PrintfPutsArguments == PrintfSpec => []PrintfShowsArguments
  <1>1. PrintfIdle.items = << >> /\ PrintfIdle.out = << >> /\ << >> \in Seq(Items)
    BY DEF PrintfIdle
  <1>2. PrintfInit => PrintfInv
    BY <1>1, NothingPrinted DEF PrintfInit, PrintfInv
  <1>3. PrintfInv /\ [PrintfNext]_printed => PrintfInv'
    <2>. SUFFICES ASSUME PrintfInv, [PrintfNext]_printed PROVE PrintfInv'
      OBVIOUS
    <2>1. CASE NewFormat
      BY <2>1, <1>1, NothingPrinted DEF NewFormat, PrintfInv
    <2>2. ASSUME NEW item \in Items, CallPrintf(item) PROVE PrintfInv'
      <3>. DEFINE items == Append(printed.items, item)
      <3>1. items \in Seq(Items)
        BY DEF PrintfInv
      <3>2. printed' = [items |-> items, out |-> printf(Format(items), Arguments(items))]
        BY <2>2 DEF CallPrintf
      <3>. HIDE DEF items
      <3>3. /\ printed'.items = items
            /\ printed'.out = printf(Format(items), Arguments(items))
        BY <3>2
      <3>4. QED BY <3>1, <3>3 DEF PrintfInv
    <2>3. CASE UNCHANGED printed
      BY <2>3 DEF PrintfInv
    <2>4. QED BY <2>1, <2>2, <2>3 DEF PrintfNext
  <1>4. PrintfInv => PrintfShowsArguments
    <2>. SUFFICES ASSUME PrintfInv PROVE PrintfShowsArguments
      OBVIOUS
    <2>1. PICK d \in [0 .. Len(printed.items) -> Seq(OutChars)] :
              /\ Joins(d, Pieces(printed.items), Len(printed.items))
              /\ printf(Format(printed.items), Arguments(printed.items)) = d[Len(printed.items)]
      BY PrintfJoins DEF PrintfInv
    <2>2. Shown(printed.items, d[Len(printed.items)])
      BY <2>1, JoinShown DEF PrintfInv
    <2>3. Shown(printed.items, printed.out)
      BY <2>1, <2>2 DEF PrintfInv
    <2>4. QED BY <2>3, Zenon DEF Shown, Ends, PrintfShowsArguments
  <1>5. QED BY <1>2, <1>3, <1>4, PTL DEF PrintfSpec
============================================================================
