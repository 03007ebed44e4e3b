------------------------------- MODULE Frames -------------------------------
(***************************************************************************)
(* add_frames of the user program fish (fish.c): two pictures are read     *)
(* from two files side by side, character by character, and every place    *)
(* at which either has one becomes a blink between the two.  One step is   *)
(* one turn of the inner loop, or the end of a row.  The files are there:  *)
(* otherwise fish halts.                                                   *)
(***************************************************************************)
EXTENDS Integers, Sequences, FiniteSets

CONSTANTS Width,         \* columns of the screen: 80 in the code
          Offset,        \* column of the pictures: 40 in the code
          EndOfLine, SpaceChar, OtherChar,   \* '\n', ' ' and '0'
          PictureFiles   \* contents: sequences of characters

ASSUME FramesAssumption ==
    /\ {Width, Offset} \subseteq Nat
    /\ EndOfLine \notin {SpaceChar, OtherChar}
    /\ PictureFiles \subseteq Seq(Nat)

VARIABLE frames      \* the variables of add_frames, per file 0 and 1 what
                     \* belongs to a file, and the blinks added

Pair(x) == [f \in {0, 1} |-> x]

FramesIdle == [pc |-> "idle", file |-> Pair(<< >>), pos |-> Pair(0), c |-> Pair(OtherChar),
               eof |-> Pair(FALSE), row |-> 0, col |-> 0, added |-> {}]

FramesInit == frames = FramesIdle

FramesOpen(f0, f1) ==
    /\ frames.pc = "idle"
    /\ frames' = [FramesIdle EXCEPT !.pc = "row", !.file = [f \in {0, 1} |->
                                                    IF f = 0 THEN f0 ELSE f1]]

\* Mutant: a file is read on behind the end of its row.
Reading_on(f) == TRUE

\* A file whose row has ended waits for the other.
Reading(f) == frames.c[f] # EndOfLine
AtEnd(f)   == frames.pos[f] = Len(frames.file[f])

\* What c0 and c1 are after the reads; the end of a file ends the row.
NextChar(f) == IF ~Reading(f) THEN frames.c[f]
               ELSE IF AtEnd(f) THEN EndOfLine
               ELSE frames.file[f][frames.pos[f] + 1]

Shown(c) == IF c = EndOfLine THEN SpaceChar ELSE c

\* The reads of a turn, and the blink they give.
NextColumn ==
    LET c == [f \in {0, 1} |-> NextChar(f)]
        blink == [location |-> frames.row * Width + frames.col + Offset,
                  on |-> Shown(c[0]), off |-> Shown(c[1])]
    IN /\ frames.pc = "row"
       /\ frames' = [frames EXCEPT
              !.c = c,
              !.pos = [f \in {0, 1} |-> IF Reading(f) /\ ~AtEnd(f) THEN @[f] + 1 ELSE @[f]],
              !.eof = [f \in {0, 1} |-> @[f] \/ (Reading(f) /\ AtEnd(f))],
              !.added = IF \E f \in {0, 1} : c[f] \notin {SpaceChar, EndOfLine}
                        THEN @ \cup {blink} ELSE @,
              !.col = IF c = Pair(EndOfLine) THEN @ ELSE @ + 1,
              !.pc = IF c = Pair(EndOfLine) THEN "row_end" ELSE "row"]

\* A file that has ended is closed, and its c stays at the end of a line.
RowEnd ==
    /\ frames.pc = "row_end"
    /\ frames' = [frames EXCEPT
           !.c = [f \in {0, 1} |-> IF frames.eof[f] THEN EndOfLine ELSE OtherChar],
           !.row = @ + 1, !.col = 0,
           !.pc = IF frames.eof[0] /\ frames.eof[1] THEN "done" ELSE "row"]

FramesDone == frames.pc = "done" /\ frames' = FramesIdle

FramesNext == \/ \E f0, f1 \in PictureFiles : FramesOpen(f0, f1)
              \/ NextColumn \/ RowEnd \/ FramesDone

FramesSpec == FramesInit /\ [][FramesNext]_frames

----------------------------------------------------------------------------
\* A picture as one looks at it: the character in a row and a column.
RowOf(f, i) == Cardinality({j \in 1 .. i - 1 : f[j] = EndOfLine})
ColOf(f, i) == i - 1 - (CHOOSE j \in 0 .. i - 1 :
                           /\ j = 0 \/ f[j] = EndOfLine
                           /\ \A k \in j + 1 .. i - 1 : f[k] # EndOfLine)
CharAt(f, r, c) == LET hits == {i \in DOMAIN f : /\ f[i] # EndOfLine
                                              /\ RowOf(f, i) = r /\ ColOf(f, i) = c}
                IN IF hits = {} THEN SpaceChar ELSE f[CHOOSE i \in hits : TRUE]

\* Every place at which one of the pictures is not blank blinks between the
\* two, and no other does, whichever picture has longer rows or more of them
\* and whether its last row ends in a newline or not.
FramesAligned ==
    frames.pc = "done" =>
        LET f0 == frames.file[0]
            f1 == frames.file[1]
            n  == Len(f0) + Len(f1)
            blinks == {p \in (0 .. n) \X (0 .. n) : \/ CharAt(f0, p[1], p[2]) # SpaceChar
                                                   \/ CharAt(f1, p[1], p[2]) # SpaceChar}
        IN frames.added = {[location |-> p[1] * Width + p[2] + Offset,
                            on |-> CharAt(f0, p[1], p[2]), off |-> CharAt(f1, p[1], p[2])] :
                               p \in blinks}
============================================================================
