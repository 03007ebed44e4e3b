------------------------------ MODULE Terminal ------------------------------
(***************************************************************************)
(* The line discipline of the terminals: keyboard_handler (keyboard.c)     *)
(* fills the key buffer of the terminal on display, terminal_read          *)
(* (terminal.c) waits on the terminal of the running process and takes the *)
(* line.  The screen itself (echo, cursor, switching of video pages) is    *)
(* not part of this module.                                                *)
(*                                                                         *)
(* In struct terminal, keyboard_buffer_size follows key_buf, so a key      *)
(* stored one past the end of the buffer replaces the low byte of the      *)
(* size; Code gives the values that byte takes.  screen_y comes before     *)
(* key_buf, and takes a key stored one before its beginning.               *)
(*                                                                         *)
(* A tick can come between any two statements of keyboard_handler and of   *)
(* terminal_read.  A second keyboard_handler cannot: its line is in        *)
(* service.  So there is at most one, on some terminal's stack, and the    *)
(* statements of it that touch what a reader changes too are steps of      *)
(* their own.  A reader whose own stack the handler lies on waits for it;  *)
(* as the handler may lie on any stack, its steps and those of the readers *)
(* are interleaved freely.                                                 *)
(***************************************************************************)
EXTENDS Integers, Sequences

CONSTANTS NumTerminals,    \* 3 in the code
          BufferSize,      \* KEYBOARD_BUFFER_SIZE: 128 in the code
          Letters,         \* keys that produce a character
          EllKey,          \* the key that clears the screen with ctrl
          Code,            \* character code of each letter, unshifted and
                           \* shifted, and of the newline
          Modifiers,       \* bound: modifier keys used
          Backspaces,      \* bound: whether backspace is among the keys
          Readers,         \* bound: terminals whose programs read
          ReadSizes,       \* bound: nbytes of the reads
          MaxOverflow      \* bound: overlong lines entered and not edited

Terminals == 1 .. NumTerminals
Newline == "\n"
NL  == <<Newline, 0>>
NUL == <<"\\0", 0>>
Keys  == (Letters \X {0, 1}) \cup {NL}
Chars == Keys \cup {NUL}

ASSUME TerminalAssumption ==
    /\ NumTerminals \in Nat \ {0}
    /\ BufferSize \in Nat /\ BufferSize >= 2
    /\ Newline \notin Letters
    \* character codes are below 127, the buffer has 128 bytes
    /\ Code \in [Keys -> 0 .. BufferSize - 2]
    /\ Modifiers \subseteq {"alt", "ctrl", "shift", "caps"}
    /\ Backspaces \in BOOLEAN
    /\ Readers \subseteq Terminals
    /\ ReadSizes \subseteq Nat \ {0}
    /\ MaxOverflow \in Nat

VARIABLES current_terminal,        \* terminal on display
          pressed,                 \* alt_pressed, ctrl_pressed, ...
          handler,                 \* the unfinished keyboard_handler: where it
                                   \* is, its key, the size it has loaded
          key_buf,                 \* per terminal
          keyboard_buffer_size,    \* per terminal
          keyboard_buffer_enable,  \* per terminal
          overflow,                \* per terminal
          reader,                  \* per terminal: where its process is in
                                   \* terminal_read, n, and the n it came with
          typed,                   \* per terminal: the line as its user
                                   \* edited it: history
          flaws,                   \* per terminal: what has happened to the
                                   \* line that costs it its promise: history
          result                   \* what the read that returns has copied

line == <<key_buf, keyboard_buffer_size, keyboard_buffer_enable, overflow>>
hist == <<typed, flaws, result>>
vars == <<current_terminal, pressed, handler, line, reader, hist>>

\* "overflow": it is, or meets, a line that does not fit; "crossed": a
\* backspace was between its test and its store when the reader reset the size;
\* "late": its newline came as the read began, and was taken for a character.
Flaws == {"overflow", "crossed", "late"}

Idle      == [at |-> "none", key |-> NUL, loaded |-> 0]
NotInRead == [at |-> "none", n |-> 0, nbytes |-> 0]

Init ==
    /\ current_terminal = 1
    /\ pressed = {}
    /\ handler = Idle
    /\ key_buf = [t \in Terminals |-> [i \in 1 .. BufferSize |-> NUL]]
    /\ keyboard_buffer_size = [t \in Terminals |-> 0]
    /\ keyboard_buffer_enable = [t \in Terminals |-> FALSE]
    /\ overflow = [t \in Terminals |-> 0]
    /\ reader = [t \in Terminals |-> NotInRead]
    /\ typed = [t \in Terminals |-> << >>]
    /\ flaws = [t \in Terminals |-> {}]
    /\ result = << >>

----------------------------------------------------------------------------
\* terminal_read

ReaderMoves(t, from, to) ==
    /\ reader[t].at = from
    /\ reader' = [reader EXCEPT ![t].at = to]

\* keyboard_buffer_enable = 1, and the loop on it.
terminal_read(t, n) ==
    /\ t \in Readers
    /\ reader[t].at = "none"
    /\ reader' = [reader EXCEPT ![t] = [at |-> "poll", n |-> n, nbytes |-> n]]
    /\ keyboard_buffer_enable' = [keyboard_buffer_enable EXCEPT ![t] = TRUE]
    /\ UNCHANGED <<current_terminal, pressed, handler, key_buf,
                   keyboard_buffer_size, overflow, hist>>

\* Mutant: only the terminal on display is served.
read_polls_displayed(t) ==
    /\ t = current_terminal
    /\ ~keyboard_buffer_enable[t]
    /\ ReaderMoves(t, "poll", "test")
    /\ UNCHANGED <<current_terminal, pressed, handler, line, hist>>

read_polls(t) ==
    /\ ~keyboard_buffer_enable[t]
    /\ ReaderMoves(t, "poll", "test")
    /\ UNCHANGED <<current_terminal, pressed, handler, line, hist>>

\* Mutant: n is not cut to the size of the line.
Exceeds_never(n, size) == FALSE

\* n is unsigned, and so is the size in n > size.
Exceeds(n, size) == size >= 0 /\ n > size

read_tests(t) ==
    /\ ReaderMoves(t, "test",
           IF Exceeds(reader[t].n, keyboard_buffer_size[t]) THEN "cut" ELSE "copy")
    /\ UNCHANGED <<current_terminal, pressed, handler, line, hist>>

\* The size is fetched again.
read_cuts(t) ==
    /\ reader[t].at = "cut"
    /\ reader' = [reader EXCEPT ![t].at = "copy", ![t].n = keyboard_buffer_size[t]]
    /\ UNCHANGED <<current_terminal, pressed, handler, line, hist>>

\* Mutant: a line that is cut is not ended.
CopyLine_not_ended(buf, n) ==
    LET ends == {i \in 1 .. n : buf[i] = NL}
    IN IF ends = {} THEN SubSeq(buf, 1, n)
       ELSE SubSeq(buf, 1, CHOOSE j \in ends : \A k \in ends : j <= k)

\* The n bytes the loop looks at: up to the first newline, or all of them with
\* the last one replaced by a newline.
Positions(buf, n) == {i \in 1 .. n : buf[i] = NL}
CopyLine(buf, n) ==
    IF Positions(buf, n) # {}
    THEN LET i == CHOOSE j \in Positions(buf, n) :
                      \A k \in Positions(buf, n) : j <= k
         IN SubSeq(buf, 1, i)
    ELSE IF n = 0 THEN << >>     \* after enter and a backspace: buf[-1] is written
    ELSE [SubSeq(buf, 1, n) EXCEPT ![n] = NL]

\* One step: nobody writes to key_buf meanwhile (LineStandsStill).
read_copies(t) ==
    /\ ReaderMoves(t, "copy", "reset")
    /\ result' = CopyLine(key_buf[t], reader[t].n)
    /\ UNCHANGED <<current_terminal, pressed, handler, line, typed, flaws>>

\* A backspace on t that has passed its test and not stored the size yet.
Decrementing(t) ==
    current_terminal = t /\ handler.at \in {"dec_load", "dec_store"}

\* keyboard_buffer_size = 0, and the return.
read_returns(t) ==
    /\ reader[t].at = "reset"
    /\ reader' = [reader EXCEPT ![t] = NotInRead]
    /\ keyboard_buffer_size' = [keyboard_buffer_size EXCEPT ![t] = 0]
    /\ typed' = [typed EXCEPT ![t] = << >>]
    /\ flaws' = [flaws EXCEPT ![t] = IF Decrementing(t) THEN {"crossed"} ELSE {}]
    /\ result' = << >>
    /\ UNCHANGED <<current_terminal, pressed, handler, key_buf,
                   keyboard_buffer_enable, overflow>>

ReadStep(t) == \/ read_polls(t) \/ read_tests(t) \/ read_cuts(t)
               \/ read_copies(t) \/ read_returns(t)

----------------------------------------------------------------------------
\* keyboard_handler: modifiers and terminal switches

HandlerFree == handler = Idle

PressModifier(m) ==
    /\ HandlerFree
    /\ m \in Modifiers
    /\ pressed' = pressed \cup {m}
    /\ UNCHANGED <<current_terminal, handler, line, reader, hist>>

\* caps_lock |= 1: nothing clears it.
ReleaseModifier(m) ==
    /\ HandlerFree
    /\ m \in Modifiers \ {"caps"}
    /\ pressed' = pressed \ {m}
    /\ UNCHANGED <<current_terminal, handler, line, reader, hist>>

\* alt and a function key
SwitchTerminal(t) ==
    /\ HandlerFree
    /\ "alt" \in pressed
    /\ current_terminal # t
    /\ current_terminal' = t
    /\ UNCHANGED <<pressed, handler, line, reader, hist>>

----------------------------------------------------------------------------
\* keyboard_handler: editing the line of the terminal on display, statement by
\* statement

HandlerMoves(from, to) ==
    /\ handler.at = from
    /\ handler' = IF to = "none" THEN Idle ELSE [handler EXCEPT !.at = to]

DropLast(s) == IF s = << >> THEN s ELSE SubSeq(s, 1, Len(s) - 1)

\* An overflowed newline is undone first.
BackspaceOverflow ==
    LET t == current_terminal IN
    /\ HandlerFree /\ Backspaces
    /\ overflow[t] > 0
    /\ overflow' = [overflow EXCEPT ![t] = @ - 1]
    /\ typed' = [typed EXCEPT ![t] = DropLast(@)]
    /\ flaws' = [flaws EXCEPT ![t] = @ \cup {"overflow"}]
    /\ UNCHANGED <<current_terminal, pressed, handler, key_buf,
                   keyboard_buffer_size, keyboard_buffer_enable, reader, result>>

\* Mutant: the size is not tested.
Backspace_untested ==
    LET t == current_terminal IN
    /\ HandlerFree /\ Backspaces
    /\ overflow[t] = 0
    /\ handler' = [Idle EXCEPT !.at = "dec_load"]
    /\ UNCHANGED <<current_terminal, pressed, line, reader, hist>>

\* size > 0, then size--: a load and a store.
Backspace ==
    LET t == current_terminal IN
    /\ HandlerFree /\ Backspaces
    /\ overflow[t] = 0
    /\ keyboard_buffer_size[t] > 0
    /\ handler' = [Idle EXCEPT !.at = "dec_load"]
    /\ UNCHANGED <<current_terminal, pressed, line, reader, hist>>

BackspaceLoads ==
    /\ handler.at = "dec_load"
    /\ handler' = [handler EXCEPT !.at = "dec_store",
                                  !.loaded = keyboard_buffer_size[current_terminal]]
    /\ UNCHANGED <<current_terminal, pressed, line, reader, hist>>

BackspaceStores ==
    LET t == current_terminal IN
    /\ HandlerMoves("dec_store", "none")
    /\ keyboard_buffer_size' = [keyboard_buffer_size EXCEPT ![t] = handler.loaded - 1]
    /\ typed' = [typed EXCEPT ![t] = DropLast(@)]
    /\ UNCHANGED <<current_terminal, pressed, key_buf, keyboard_buffer_enable,
                   overflow, reader, flaws, result>>

\* ctrl-L
ClearLine ==
    LET t == current_terminal IN
    /\ HandlerFree
    /\ "ctrl" \in pressed
    /\ keyboard_buffer_size' = [keyboard_buffer_size EXCEPT ![t] = 0]
    /\ typed' = [typed EXCEPT ![t] = << >>]
    /\ flaws' = [flaws EXCEPT ![t] = {}]
    /\ UNCHANGED <<current_terminal, pressed, handler, key_buf,
                   keyboard_buffer_enable, overflow, reader, result>>

\* enter: size >= KEYBOARD_BUFFER_SIZE (108)
Enter ==
    LET t == current_terminal
        full == keyboard_buffer_size[t] >= BufferSize
    IN
    /\ HandlerFree
    /\ full => overflow[t] < MaxOverflow
    /\ handler' = [Idle EXCEPT !.at = IF full THEN "full?" ELSE "enter?", !.key = NL]
    /\ UNCHANGED <<current_terminal, pressed, line, reader, hist>>

\* Mutant: the keyboard is turned off before the newline is stored.
EnterTests_off_first ==
    LET enable == keyboard_buffer_enable[current_terminal] IN
    /\ \/ HandlerMoves("full?", IF enable THEN "full_store" ELSE "enter?")
       \/ HandlerMoves("enter?", IF enable THEN "store" ELSE "character?")
       \/ HandlerMoves("character?", IF enable THEN "late_store" ELSE "none")
    /\ keyboard_buffer_enable' =
           [keyboard_buffer_enable EXCEPT ![current_terminal] = FALSE]
    /\ UNCHANGED <<current_terminal, pressed, key_buf, keyboard_buffer_size,
                   overflow, reader, hist>>

\* keyboard_buffer_enable is read up to three times, at 109, 113 and 117.
EnterTests ==
    LET enable == keyboard_buffer_enable[current_terminal] IN
    /\ \/ HandlerMoves("full?", IF enable THEN "full_store" ELSE "enter?")
       \/ HandlerMoves("enter?", IF enable THEN "store" ELSE "character?")
       \/ HandlerMoves("character?", IF enable THEN "late_store" ELSE "none")
    /\ UNCHANGED <<current_terminal, pressed, line, reader, hist>>

\* The last byte of a full buffer becomes the newline.
EnterFullStores ==
    LET t == current_terminal IN
    /\ HandlerMoves("full_store", "full_off")
    /\ key_buf' = [key_buf EXCEPT ![t][BufferSize] = NL]
    /\ typed' = [typed EXCEPT ![t] = Append(@, NL)]
    /\ flaws' = [flaws EXCEPT ![t] = @ \cup {"overflow"}]
    /\ UNCHANGED <<current_terminal, pressed, keyboard_buffer_size,
                   keyboard_buffer_enable, overflow, reader, result>>

EnterFullCounts ==
    LET t == current_terminal IN
    /\ HandlerMoves("full_count", "none")
    /\ overflow' = [overflow EXCEPT ![t] = @ + 1]
    /\ UNCHANGED <<current_terminal, pressed, key_buf, keyboard_buffer_size,
                   keyboard_buffer_enable, reader, hist>>

\* scancode[shift_pressed | caps_lock][input]
CharOf(k) == <<k, IF pressed \cap {"shift", "caps"} # {} THEN 1 ELSE 0>>

\* Any other key is a character if the reader waits (117).
Character(k) ==
    /\ HandlerFree
    /\ ~(k = EllKey /\ "ctrl" \in pressed)
    /\ keyboard_buffer_enable[current_terminal]
    /\ handler' = [Idle EXCEPT !.at = "store", !.key = CharOf(k)]
    /\ UNCHANGED <<current_terminal, pressed, line, reader, hist>>

\* key_buf[size] = key.  With the buffer full the store hits the low byte of
\* the size, and the line does not fit; with a size of -1 it hits screen_y.
KeyStores ==
    LET t == current_terminal
        size == keyboard_buffer_size[t]
    IN
    /\ \/ HandlerMoves("store", "count")
       \/ HandlerMoves("late_store", "late_count")
    /\ key_buf' = IF size \in 0 .. BufferSize - 1
                  THEN [key_buf EXCEPT ![t][size + 1] = handler.key] ELSE key_buf
    /\ keyboard_buffer_size' =
           IF size = BufferSize
           THEN [keyboard_buffer_size EXCEPT ![t] = Code[handler.key]]
           ELSE keyboard_buffer_size
    /\ flaws' = [flaws EXCEPT ![t] =
                    @ \cup (IF size = BufferSize THEN {"overflow"} ELSE {})
                      \cup (IF handler.at = "late_store" THEN {"late"} ELSE {})]
    /\ UNCHANGED <<current_terminal, pressed, keyboard_buffer_enable, overflow,
                   reader, typed, result>>

\* Mutant: the size is counted twice.
KeyCounts_twice ==
    LET t == current_terminal IN
    /\ \/ HandlerMoves("count", IF handler.key = NL THEN "off" ELSE "none")
       \/ HandlerMoves("late_count", "none")
    /\ keyboard_buffer_size' = [keyboard_buffer_size EXCEPT ![t] = @ + 2]
    /\ typed' = [typed EXCEPT ![t] =
                    IF Len(@) < BufferSize THEN Append(@, handler.key) ELSE @]
    /\ UNCHANGED <<current_terminal, pressed, key_buf, keyboard_buffer_enable,
                   overflow, reader, flaws, result>>

\* size++: with the keyboard on, the reader polls and leaves the size alone.
KeyCounts ==
    LET t == current_terminal IN
    /\ \/ HandlerMoves("count", IF handler.key = NL THEN "off" ELSE "none")
       \/ HandlerMoves("late_count", "none")
    /\ keyboard_buffer_size' = [keyboard_buffer_size EXCEPT ![t] = @ + 1]
    /\ typed' = [typed EXCEPT ![t] =
                    IF Len(@) < BufferSize THEN Append(@, handler.key) ELSE @]
    /\ UNCHANGED <<current_terminal, pressed, key_buf, keyboard_buffer_enable,
                   overflow, reader, flaws, result>>

\* keyboard_buffer_enable = 0
EnterEnds ==
    /\ \/ HandlerMoves("off", "none")
       \/ HandlerMoves("full_off", "full_count")
    /\ keyboard_buffer_enable' =
           [keyboard_buffer_enable EXCEPT ![current_terminal] = FALSE]
    /\ UNCHANGED <<current_terminal, pressed, key_buf, keyboard_buffer_size,
                   overflow, reader, hist>>

HandlerStep == \/ BackspaceLoads \/ BackspaceStores
               \/ EnterTests \/ EnterFullStores \/ EnterFullCounts
               \/ KeyStores \/ KeyCounts \/ EnterEnds

Next ==
    \/ \E t \in Terminals : \/ \E n \in ReadSizes : terminal_read(t, n)
                            \/ ReadStep(t)
                            \/ SwitchTerminal(t)
    \/ \E m \in Modifiers : PressModifier(m) \/ ReleaseModifier(m)
    \/ BackspaceOverflow \/ Backspace \/ ClearLine \/ Enter
    \/ \E k \in Letters : Character(k)
    \/ HandlerStep

Spec == Init /\ [][Next]_vars

\* The terminals have the CPU in turn: the reader on each, and the handler on
\* whichever it lies, go on.  Nobody has to type.
FairSpec == /\ Spec
            /\ WF_vars(HandlerStep)
            /\ \A t \in Terminals : WF_vars(ReadStep(t))

----------------------------------------------------------------------------
\* Properties

HandlerPoints == {"none", "dec_load", "dec_store", "full?", "enter?",
                  "character?", "full_store", "full_off", "full_count",
                  "store", "count", "off", "late_store", "late_count"}
ReaderPoints == {"none", "poll", "test", "cut", "copy", "reset"}

\* Types.  The size stays within one of the buffer even for lines that do not
\* fit: the store past the end is caught by the size itself.
TypeOK ==
    /\ current_terminal \in Terminals
    /\ pressed \subseteq Modifiers
    /\ handler \in [at : HandlerPoints, key : Chars, loaded : 0 .. BufferSize]
    /\ key_buf \in [Terminals -> [1 .. BufferSize -> Chars]]
    /\ keyboard_buffer_size \in [Terminals -> -1 .. BufferSize]
    /\ keyboard_buffer_enable \in [Terminals -> BOOLEAN]
    /\ overflow \in [Terminals -> Nat]
    /\ reader \in [Terminals -> [at : ReaderPoints, n : Int, nbytes : ReadSizes \cup {0}]]
    /\ typed \in [Terminals -> Seq(Chars)]
    /\ flaws \in [Terminals -> SUBSET Flaws]

\* The user of terminal t has ended the line, and not edited it since.
Ended(t) == typed[t] # << >> /\ typed[t][Len(typed[t])] = NL

\* The buffer of each terminal holds exactly the line its own user has typed,
\* after any mix of characters, backspaces, ctrl-L, reads and switches to
\* other terminals, with ticks between any two statements of keyboard_handler
\* and terminal_read; unless the line is longer than the buffer, or a read
\* ended between a backspace's test and its store.
BufferIsLine ==
    \A t \in Terminals :
        flaws[t] = {} => SubSeq(key_buf[t], 1, keyboard_buffer_size[t]) = typed[t]

\* A read copies the line that was ended on its terminal, with its newline,
\* cut to the size asked for, although keys and ticks may come after each
\* statement of terminal_read; with the exceptions of BufferIsLine, and of a
\* newline that came as the read began.
ReadReturnsLine ==
    [][\A t \in Terminals :
           read_copies(t) /\ flaws[t] = {} /\ Ended(t) =>
               result' = IF Len(typed[t]) <= reader[t].nbytes THEN typed[t]
                         ELSE Append(SubSeq(typed[t], 1, reader[t].nbytes - 1), NL)]_vars

\* Whatever a torn decrement leaves in keyboard_buffer_size, -1 included, by
\* the time the reader has compared and fetched it, the bytes it copies lie in
\* the buffer.
ReadStaysInBuffer ==
    \A t \in Terminals : reader[t].at = "copy" => reader[t].n \in 0 .. BufferSize

\* keyboard_handler, wherever it was suspended, does not write to a line that
\* a reader has begun to take: terminal_read copies with interrupts on.
LineStandsStill ==
    [][\A t \in Terminals : reader[t].at \in {"test", "cut", "copy"} =>
           key_buf'[t] = key_buf[t]]_vars

\* A line that its user has ended is handed to the reader, whichever terminal
\* is on display by then and whatever is typed in the meantime; unless its
\* newline came as the read began and was taken for a character.
EnterWakesReader ==
    \A t \in Terminals :
        Ended(t) /\ "late" \notin flaws[t] ~> (reader[t].at = "none")
============================================================================
