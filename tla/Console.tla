------------------------------ MODULE Console ------------------------------
(***************************************************************************)
(* Characters on the screens (lib.c): putc, which writes for the program   *)
(* of a terminal, current_terminal_putc and its companions, which echo     *)
(* keys on the terminal on display, and the cursor of the display.         *)
(*                                                                         *)
(* There is one writer per terminal, the program that runs on it, and one  *)
(* for the echo.  putc finds the terminal of its program, active_terminal, *)
(* whenever it has the CPU, so its target is fixed; the echo's is the      *)
(* terminal on display, which only the keyboard handler itself changes.    *)
(* A tick may separate any two steps of a writer, and an echo may come     *)
(* between any two steps of putc.  A step is what one statement does to    *)
(* the cursor; a scroll or an erasing backspace is one step.               *)
(*                                                                         *)
(* Every terminal has a cursor.  The terminals differ only in being on     *)
(* display or not, so the cells are those of one of them, Followed.  Which *)
(* page a write reaches is the subject of module Video.                    *)
(***************************************************************************)
EXTENDS Integers, Sequences, SequencesExt

CONSTANTS NumTerminals,   \* 3 in the code
          Cols, Rows,     \* NUM_COLS, NUM_ROWS: 80 and 25 in the code
          Chars           \* characters that are written

\* No character has the name of an operation.
ASSUME ConsoleAssumption ==
    /\ {NumTerminals, Cols, Rows} \subseteq Nat \ {0}
    /\ Chars \cap {"newline", "back", "clear"} = {}

Terminals == 1 .. NumTerminals
Followed  == 1
Echo      == 0
Writers   == {Echo} \cup Terminals
Cells     == 0 .. Rows * Cols - 1
Blank     == "blank"

VARIABLES
    current_terminal,    \* the terminal on display
    screen_x, screen_y,  \* per terminal: the cursor
    grid,                \* the cells of the terminal Followed
    crtc,                \* position of the display's cursor
    pc, op, args,        \* per writer: next step, what it writes, and the
                         \* arguments of its set_cursor_position
    page,                \* history: the rows of text on Followed, as an ideal
                         \* typewriter would have them
    torn,                \* history: two writers overlapped on Followed
    passed,              \* history: writers whose args a change has outdated
    late                 \* history: the display's cursor was set from such args

cursor == <<screen_x, screen_y>>
hist   == <<page, torn, passed, late>>
vars   == <<current_terminal, cursor, grid, crtc, pc, op, args, hist>>

Empty   == [c \in Cells |-> Blank]
NewPage == << << >> >>

Target(w) == IF w = Echo THEN current_terminal ELSE w

Init ==
    /\ current_terminal \in Terminals
    /\ screen_x = [t \in Terminals |-> 0] /\ screen_y = [t \in Terminals |-> 0]
    /\ grid = Empty
    /\ crtc = 0
    /\ pc = [w \in Writers |-> "idle"]
    /\ op = [w \in Writers |-> "none"]
    /\ args = [w \in Writers |-> 0]
    /\ page = NewPage
    /\ torn = FALSE /\ passed = {} /\ late = FALSE

----------------------------------------------------------------------------
\* The ideal typewriter: a page of rows, the last one being written

LastRows(p) == IF Len(p) > Rows THEN Tail(p) ELSE p

TypeChar(p, c) ==
    LET q   == LastRows(p)
        row == Append(Last(q), c)
        r   == Front(q) \o <<row>>
    IN IF Len(row) = Cols THEN Append(r, << >>) ELSE r

TypeLine(p) == LastRows(Append(LastRows(p), << >>))

\* Back over the start of a row: to the last column of the one above.
TypeBack(p) ==
    LET FillTo(row, n) == [i \in 1 .. n |-> IF i <= Len(row) THEN row[i] ELSE Blank]
    IN IF p = NewPage THEN p
       ELSE IF Last(p) # << >> THEN Front(p) \o <<Front(Last(p))>>
       ELSE LET q == Front(p) IN Front(q) \o <<FillTo(Last(q), Cols - 1)>>

Typed(p, o) == CASE o = "newline" -> TypeLine(p)
                 [] o = "back"    -> TypeBack(p)
                 [] o = "clear"   -> p
                 [] OTHER         -> TypeChar(p, o)

----------------------------------------------------------------------------
\* A writer begins

Busy(w)   == pc[w] \notin {"idle", "args", "set"}
Others(w) == {v \in Writers \ {w} : Busy(v) /\ Target(v) = Target(w)}

\* When two writers overlap, page and grid are not followed any further.
Begin(w, o, first) ==
    LET tears == torn \/ Others(w) # {}
    IN /\ pc[w] = "idle"
       /\ pc' = [pc EXCEPT ![w] = first]
       /\ op' = [op EXCEPT ![w] = o]
       /\ IF Target(w) # Followed THEN UNCHANGED <<torn, page, grid>>
          ELSE /\ torn' = tears
               /\ page' = IF tears THEN NewPage ELSE Typed(page, o)
               /\ grid' = IF tears THEN Empty ELSE grid
       /\ UNCHANGED <<current_terminal, cursor, crtc, args, passed, late>>

\* putc for a program: terminal_write, puts and printf call nothing else.
Putc(t, c) == Begin(t, c, "check")
Newline(t) == Begin(t, "newline", "check")

\* The keyboard handler: a key and enter are echoed, backspace is obeyed
\* while the buffer holds characters (module Terminal), and ctrl-L is echoed
\* before it clears.
EchoKey(c) == Begin(Echo, c, "check")
EchoEnter  == Begin(Echo, "newline", "check")
EchoBack   == Begin(Echo, "back", "back")
EchoClear  == Begin(Echo, "clear", "check")

----------------------------------------------------------------------------
\* The steps of a writer

Position(t) == Cols * screen_y[t] + screen_x[t]

\* Who has fetched arguments that a change of the cursor on display outdates.
Passes(w, t) ==
    passed' = IF t = current_terminal
              THEN passed \cup {v \in Writers \ {w} : pc[v] = "set"}
              ELSE passed

\* Write cells, move the cursor of the target, go on.
Moves(w, x, y, cells, next) ==
    LET t == Target(w)
    IN /\ screen_x' = [screen_x EXCEPT ![t] = x]
       /\ screen_y' = [screen_y EXCEPT ![t] = y]
       /\ grid' = IF t = Followed /\ ~torn THEN cells ELSE grid
       /\ pc' = [pc EXCEPT ![w] = next]
       /\ Passes(w, t)
       /\ UNCHANGED <<current_terminal, crtc, op, args, page, torn, late>>

\* Mutant: the top row stays.
Scrolled_keeps_top(g) ==
    [c \in Cells |-> IF c < Cols THEN g[c]
                     ELSE IF c + Cols \in Cells THEN g[c + Cols] ELSE Blank]

Scrolled(g) == [c \in Cells |-> IF c + Cols \in Cells THEN g[c + Cols] ELSE Blank]

AfterCheck(w) == IF op[w] = "newline" THEN "line" ELSE "write"

\* Mutant: a full screen is not scrolled before the next character.
Check_never(w) ==
    LET t == Target(w)
    IN /\ pc[w] = "check"
       /\ Moves(w, screen_x[t], screen_y[t], grid, AfterCheck(w))

\* A full screen is scrolled before the next character.
Check(w) ==
    LET t == Target(w)
    IN /\ pc[w] = "check"
       /\ IF Position(t) >= Rows * Cols
          THEN Moves(w, 0, Rows - 1, Scrolled(grid), AfterCheck(w))
          ELSE Moves(w, screen_x[t], screen_y[t], grid, AfterCheck(w))

Write(w) ==
    LET t == Target(w)
    IN /\ pc[w] = "write"
       /\ Moves(w, screen_x[t], screen_y[t],
                [c \in Cells |-> IF c = Position(t) THEN op[w] ELSE grid[c]],
                "advance")

\* ctrl-L goes on to clear.
AfterChar(w) == IF op[w] = "clear" THEN "clear" ELSE "args"

Advance(w) ==
    LET t == Target(w)
    IN /\ pc[w] = "advance"
       /\ Moves(w, screen_x[t] + 1, screen_y[t], grid, "wrap")

Wrap(w) ==
    LET t == Target(w)
    IN /\ pc[w] = "wrap"
       /\ IF screen_x[t] >= Cols
          THEN Moves(w, 0, screen_y[t] + 1, grid, AfterChar(w))
          ELSE Moves(w, screen_x[t], screen_y[t], grid, AfterChar(w))

\* A newline: screen_y++, scroll if that was the last row, screen_x = 0.
Line(w) ==
    LET t == Target(w)
    IN /\ pc[w] = "line"
       /\ Moves(w, screen_x[t], screen_y[t] + 1, grid, "linefeed")

LineFeed(w) ==
    LET t == Target(w)
    IN /\ pc[w] = "linefeed"
       /\ IF screen_y[t] >= Rows
          THEN Moves(w, screen_x[t], Rows - 1, Scrolled(grid), "return")
          ELSE Moves(w, screen_x[t], screen_y[t], grid, "return")

Return(w) ==
    LET t == Target(w)
    IN /\ pc[w] = "return"
       /\ Moves(w, 0, screen_y[t], grid, "args")

\* current_terminal_back_putc
Back(w) ==
    LET t == Target(w)
        p == IF screen_x[t] = 0 THEN Cols * screen_y[t] - 1 ELSE Position(t) - 1
    IN /\ pc[w] = "back"
       /\ IF p < 0 THEN Moves(w, 0, 0, grid, "args")
          ELSE Moves(w, IF screen_x[t] = 0 THEN Cols - 1 ELSE screen_x[t] - 1,
                     IF screen_x[t] = 0 THEN screen_y[t] - 1 ELSE screen_y[t],
                     [c \in Cells |-> IF c = p THEN Blank ELSE grid[c]], "args")

\* current_terminal_clear: a fresh start unless another writer is under way.
Clear(w) ==
    LET t == Target(w)
    IN /\ pc[w] = "clear"
       /\ IF t # Followed THEN UNCHANGED <<torn, page, grid>>
          ELSE torn' = (Others(w) # {}) /\ page' = NewPage /\ grid' = Empty
       /\ screen_x' = [screen_x EXCEPT ![t] = 0]
       /\ screen_y' = [screen_y EXCEPT ![t] = 0]
       /\ pc' = [pc EXCEPT ![w] = "args"]
       /\ Passes(w, t)
       /\ UNCHANGED <<current_terminal, crtc, op, args, late>>

\* Mutant: the display's cursor follows the program's terminal.
Args_of_writer(w) ==
    /\ pc[w] = "args"
    /\ args' = [args EXCEPT ![w] = Position(Target(w)) % (Rows * Cols)]
    /\ pc' = [pc EXCEPT ![w] = "set"]
    /\ passed' = passed \ {w}
    /\ op' = [op EXCEPT ![w] = "none"]
    /\ UNCHANGED <<current_terminal, cursor, grid, crtc, page, torn, late>>

\* The arguments of set_cursor_position(current_terminal->screen_x, ...).
Args(w) ==
    /\ pc[w] = "args"
    /\ args' = [args EXCEPT ![w] = Position(current_terminal) % (Rows * Cols)]
    /\ pc' = [pc EXCEPT ![w] = "set"]
    /\ passed' = passed \ {w}
    /\ op' = [op EXCEPT ![w] = "none"]
    /\ UNCHANGED <<current_terminal, cursor, grid, crtc, page, torn, late>>

\* set_cursor_position, with interrupts off.
SetCursor(w) ==
    /\ pc[w] = "set"
    /\ crtc' = args[w]
    /\ late' = (w \in passed)
    /\ pc' = [pc EXCEPT ![w] = "idle"]
    /\ args' = [args EXCEPT ![w] = 0]
    /\ passed' = passed \ {w}
    /\ UNCHANGED <<current_terminal, cursor, grid, op, page, torn>>

\* switch_to_terminal_N, with interrupts off from beginning to end.
SwitchTerminal(t) ==
    /\ pc[Echo] = "idle" /\ t # current_terminal
    /\ current_terminal' = t
    /\ crtc' = Position(t) % (Rows * Cols)
    /\ late' = FALSE
    /\ passed' = {v \in Writers : pc[v] = "set"}
    /\ UNCHANGED <<cursor, grid, pc, op, args, page, torn>>

WriterStep(w) == \/ Check(w) \/ Write(w) \/ Advance(w) \/ Wrap(w) \/ Line(w)
                 \/ LineFeed(w) \/ Return(w) \/ Back(w) \/ Clear(w) \/ Args(w)
                 \/ SetCursor(w)

Next == \/ \E t \in Terminals : Newline(t) \/ SwitchTerminal(t)
        \/ \E t \in Terminals, c \in Chars : Putc(t, c)
        \/ \E c \in Chars : EchoKey(c)
        \/ EchoEnter \/ EchoBack \/ EchoClear
        \/ \E w \in Writers : WriterStep(w)

Spec == Init /\ [][Next]_vars

----------------------------------------------------------------------------
\* Properties

\* However the echo and the programs interrupt each other, a write goes at most
\* one row past the grid: an echoed newline that a tick stops between its
\* screen_y++ and its scroll lets a putc write there, no further.
WritesNearGrid ==
    \A w \in Writers : pc[w] = "write" =>
        Position(Target(w)) \in 0 .. (Rows + 1) * Cols - 1

\* A screen shows the last rows of all that was written on its terminal, by
\* the program and by the echo in the order they wrote, wrapped at the last
\* column and scrolled only when the next character needs it, and its cursor
\* is behind the last character; unless a putc and an echo overlapped since
\* the last ctrl-L.
ScreenShowsText ==
    ~torn /\ (\A w \in Writers : Target(w) = Followed => ~Busy(w))
    => /\ screen_x[Followed] = Len(Last(page))
       /\ screen_y[Followed] = Len(page) - 1
       /\ \A c \in Cells :
              LET row == 1 + (c \div Cols)
                  col == 1 + (c % Cols)
              IN grid[c] = IF row \in DOMAIN page /\ col \in DOMAIN page[row]
                           THEN page[row][col] ELSE Blank

\* The display's cursor is that of the terminal on display when no writer is
\* at work there, whoever wrote last and whatever was switched; unless a
\* writer set it from arguments it had fetched before another change.
CursorShown ==
    (\A w \in Writers : Target(w) = current_terminal => pc[w] = "idle") /\ ~late
        => crtc = Position(current_terminal) % (Rows * Cols)
============================================================================
