-------------------------------- MODULE Grep --------------------------------
(***************************************************************************)
(* The search of one file by the user program grep: do_one_file of         *)
(* ece391grep.c, which reads the file in pieces into one buffer and moves  *)
(* the piece of a line that is left at its end down to the beginning.      *)
(* One step is one read or one turn of the loop over the lines.            *)
(***************************************************************************)
EXTENDS Integers, Sequences

CONSTANTS BufSize,      \* BUFSIZE: 1024 in the code
          GrepFiles,    \* contents of files: sequences of characters
          Patterns,     \* arguments: sequences of characters, not empty
          Leftover      \* bytes the stack may hold where data is put

\* Characters are numbers as in C.
NulChar     == 0
NewlineChar == 10

ASSUME GrepAssumption ==
    /\ BufSize \in Nat \ {0}
    /\ Leftover \subseteq Nat
    /\ GrepFiles \subseteq Seq(Nat) /\ Patterns \subseteq Seq(Nat)
    /\ \A f \in GrepFiles : \A i \in DOMAIN f : f[i] # NulChar
    /\ \A s \in Patterns : s # << >> /\ \A i \in DOMAIN s : s[i] \notin {NulChar, NewlineChar}

VARIABLE grep    \* the variables of do_one_file, its place, its output, and
                 \* (history) what the stack held behind the buffer

None == << >>

GrepIdle == [pc |-> "idle", file |-> None, s |-> None, pos |-> 0, data |-> None,
             last |-> 0, cnt |-> 0, line_start |-> 0, out |-> None,
             behind |-> NulChar]

GrepInit == grep = GrepIdle

\* data is on the stack and not cleared: its last byte, which no read fills,
\* keeps what was there.
GrepOpen(f, s, byte) ==
    /\ grep.pc = "idle"
    /\ grep' = [GrepIdle EXCEPT !.pc = "read", !.file = f, !.s = s, !.behind = byte,
                                !.data = [i \in 0 .. BufSize |-> byte]]

GrepRead ==
    LET room  == BufSize - grep.last
        there == Len(grep.file) - grep.pos
        n     == IF room < there THEN room ELSE there
    IN /\ grep.pc = "read"
       /\ grep' = [grep EXCEPT
              !.pc = "line", !.cnt = n, !.pos = @ + n, !.last = @ + n,
              !.line_start = 0,
              !.data = [i \in 0 .. BufSize |->
                           IF i - grep.last \in 0 .. n - 1
                           THEN grep.file[grep.pos + i - grep.last + 1]
                           ELSE @[i]]]

LineEnd ==
    LET ends == {i \in grep.line_start .. grep.last - 1 : grep.data[i] = NewlineChar}
    IN IF ends = {} THEN grep.last ELSE CHOOSE i \in ends : \A j \in ends : i <= j

\* Mutant: the piece of a line is searched as if it were the whole.
Unfinished_never == FALSE

\* The buffer ends in a piece of a line, and the file may go on.
Unfinished == /\ grep.data[LineEnd] # NewlineChar
              /\ grep.cnt # 0
              /\ grep.line_start # 0

\* ece391_strcpy(data, data + line_start)
MoveDown ==
    /\ grep.pc = "line" /\ Unfinished
    /\ LET n   == grep.last - grep.line_start
           end == LineEnd
       IN grep' = [grep EXCEPT
              !.pc = "read", !.last = n,
              !.data = [i \in 0 .. BufSize |->
                           CASE i < n -> @[grep.line_start + i]
                             [] i = n \/ i = end -> NulChar
                             [] OTHER -> @[i]]]

\* ece391_strncmp(data + check, s, s_len) = 0 for a check in the line, which
\* ends in a zero now.
Found(data, from, to) ==
    \E check \in from .. to - 1 :
        \A k \in 1 .. Len(grep.s) :
            check + k - 1 < to /\ data[check + k - 1] = grep.s[k]

SearchLine ==
    /\ grep.pc = "line" /\ ~Unfinished
    /\ LET start == grep.line_start
           end   == LineEnd
           ends  == end + 1 >= grep.last
       IN grep' = [grep EXCEPT
              !.data = [@ EXCEPT ![end] = NulChar],
              !.out = IF Found(grep.data, start, end)
                      THEN Append(@, [i \in 1 .. end - start |-> grep.data[start + i - 1]])
                      ELSE @,
              !.line_start = end + 1,
              !.last = IF ends THEN 0 ELSE @,
              !.pc = IF ~ends THEN "line" ELSE IF grep.cnt = 0 THEN "done" ELSE "read"]

GrepClose == grep.pc = "done" /\ grep' = GrepIdle

GrepNext == \/ \E f \in GrepFiles, s \in Patterns, b \in Leftover : GrepOpen(f, s, b)
            \/ GrepRead \/ MoveDown \/ SearchLine \/ GrepClose

GrepSpec == GrepInit /\ [][GrepNext]_grep

----------------------------------------------------------------------------
\* The lines of a file and whether one holds a pattern, as a user sees them.
LineBreaks(f) == {0, Len(f) + 1} \cup {i \in DOMAIN f : f[i] = NewlineChar}
LineFrom(f, i) == LET end == CHOOSE j \in LineBreaks(f) :
                                 /\ j > i
                                 /\ \A k \in LineBreaks(f) : k > i => j <= k
                  IN SubSeq(f, i + 1, end - 1)
Holds(l, s) == \E i \in 0 .. Len(l) - Len(s) : SubSeq(l, i + 1, i + Len(s)) = s

MatchesOf(f, s) ==
    LET from[i \in 0 .. Len(f) + 1] ==
            IF i = Len(f) + 1 THEN << >>
            ELSE (IF i \in LineBreaks(f) /\ Holds(LineFrom(f, i), s)
                  THEN <<LineFrom(f, i)>> ELSE << >>) \o from[i + 1]
    IN from[0]

\* grep prints every line of a file that holds the pattern, whole, once and in
\* order, however the reads cut the lines; for lines that fit the buffer, and
\* unless a read fills the buffer and the stack held a newline behind it.
GrepPrintsMatches ==
    /\ grep.pc = "done"
    /\ \A i \in LineBreaks(grep.file) :
           i <= Len(grep.file) => Len(LineFrom(grep.file, i)) <= BufSize
    /\ grep.behind = NewlineChar => Len(grep.file) < BufSize
    => grep.out = MatchesOf(grep.file, grep.s)
============================================================================
