--------------------------- MODULE TerminalProofs ---------------------------
(***************************************************************************)
(* The line discipline keeps its promises for any number of terminals, any *)
(* buffer of at least two bytes, any letters with codes that fit it, and   *)
(* reads of any sizes, with ticks between any two statements of            *)
(* keyboard_handler and terminal_read.                                     *)
(*                                                                         *)
(* The argument: while the handler writes to a line the keyboard is on, so *)
(* the reader polls; once enter has turned it off, no key is stored until  *)
(* the next read.  What both change at the same time is only the size, by  *)
(* a backspace; it was positive when the backspace tested it, and stays so *)
(* until the reader resets it.                                             *)
(***************************************************************************)
EXTENDS Terminal, SequenceTheorems, TLAPS

\* The buffer and its size hold the line s.
Stored(buf, size, s) ==
    /\ Len(s) = size
    /\ \A i \in 1 .. size : s[i] = buf[i]

Smaller(a, b) == IF a < b THEN a ELSE b

NoNewline(s)   == \A i \in 1 .. Len(s) : s[i] # NL
NewlineLast(s) == \A i \in 1 .. Len(s) : s[i] = NL => i = Len(s)

\* The handler is at one of these points, in the line of t.
At(t, points) == current_terminal = t /\ handler.at \in points

\* The line as its user typed it: stored, with a newline at its end only, and
\* none while more can be typed; empty, with the keyboard off, without a read.
LineOk(t) ==
    /\ flaws[t] = {} => Stored(key_buf[t], keyboard_buffer_size[t], typed[t])
    /\ "late" \notin flaws[t] =>
           /\ NewlineLast(typed[t])
           /\ keyboard_buffer_enable[t] /\ ~At(t, {"off", "full_off"}) =>
                  NoNewline(typed[t])
    /\ reader[t].at = "none" => ~keyboard_buffer_enable[t] /\ typed[t] = << >>
    /\ keyboard_buffer_enable[t] => reader[t].at = "poll"

\* A line is being handed over.
Taking(t) == reader[t].at # "none" /\ ~keyboard_buffer_enable[t]

Writing == {"store", "count", "off", "late_store", "late_count",
            "full_store", "full_off"}

\* Where the handler is in the line of t.
HandlerOk(t) ==
    /\ At(t, Writing) => keyboard_buffer_enable[t]
    /\ At(t, {"count", "late_count"}) => keyboard_buffer_size[t] < BufferSize
    /\ At(t, {"count"}) /\ flaws[t] = {} =>
           /\ keyboard_buffer_size[t] >= 0
           /\ key_buf[t][keyboard_buffer_size[t] + 1] = handler.key
    /\ At(t, {"late_count"}) => "late" \in flaws[t]
    /\ At(t, {"store", "late_store"}) => handler.key \in Keys
    /\ At(t, {"full?", "enter?", "character?"}) => handler.key = NL
    /\ At(t, {"full?", "full_store", "full_off", "off"}) => keyboard_buffer_size[t] >= 0
    /\ At(t, {"dec_load"}) =>
           /\ keyboard_buffer_size[t] >= 0
           /\ flaws[t] = {} \/ Taking(t) => keyboard_buffer_size[t] > 0
    /\ At(t, {"dec_store"}) =>
           /\ flaws[t] = {} => /\ handler.loaded = keyboard_buffer_size[t]
                               /\ keyboard_buffer_size[t] > 0
           /\ Taking(t) => handler.loaded > 0

\* Where the reader is.
ReaderOk(t) ==
    /\ Taking(t) => keyboard_buffer_size[t] >= 0
    /\ reader[t].at # "none" => reader[t].nbytes \in Nat \ {0}
    /\ reader[t].at \in {"poll", "test", "cut"} => reader[t].n = reader[t].nbytes
    /\ reader[t].at = "copy" => reader[t].n \in 0 .. BufferSize
    /\ reader[t].at = "cut" /\ flaws[t] = {} /\ Ended(t) =>
           reader[t].nbytes > keyboard_buffer_size[t]
    /\ reader[t].at = "copy" /\ flaws[t] = {} /\ Ended(t) =>
           reader[t].n = Smaller(reader[t].nbytes, keyboard_buffer_size[t])

TerminalOk(t) == LineOk(t) /\ HandlerOk(t) /\ ReaderOk(t)

IInv == TypeOK /\ \A t \in Terminals : TerminalOk(t)

----------------------------------------------------------------------------
\* Facts about buffers and lines

Buffers == [1 .. BufferSize -> Chars]

\* A buffer that holds a line reads as that line.
LEMMA StoredIsSubSeq ==
    ASSUME NEW buf \in Buffers, NEW n \in 0 .. BufferSize,
           NEW s \in Seq(Chars), Stored(buf, n, s)
    PROVE  SubSeq(buf, 1, n) = s
  <1>0. n \in Nat /\ n <= BufferSize
    BY TerminalAssumption
  <1>1. \A i \in 1 .. n : buf[i] \in Chars
    BY <1>0, TerminalAssumption DEF Buffers
  <1>2. /\ SubSeq(buf, 1, n) \in Seq(Chars)
        /\ Len(SubSeq(buf, 1, n)) = IF 1 <= n THEN n - 1 + 1 ELSE 0
        /\ \A i \in 1 .. n - 1 + 1 : SubSeq(buf, 1, n)[i] = buf[1 + i - 1]
    BY <1>0, <1>1, SubSeqProperties
  <1>3. Len(SubSeq(buf, 1, n)) = Len(s)
    BY <1>0, <1>2 DEF Stored
  <1>4. \A i \in 1 .. Len(s) : SubSeq(buf, 1, n)[i] = s[i]
    BY <1>0, <1>2 DEF Stored
  <1>5. QED
    BY <1>2, <1>3, <1>4, SeqEqual

\* What Append does to a line.
LEMMA AppendLine ==
    ASSUME NEW s \in Seq(Chars), NEW c \in Chars
    PROVE  /\ Append(s, c) \in Seq(Chars)
           /\ Len(Append(s, c)) = Len(s) + 1
           /\ \A i \in 1 .. Len(s) : Append(s, c)[i] = s[i]
           /\ Append(s, c)[Len(s) + 1] = c
  BY AppendProperties

\* What taking back a character does to a line.
LEMMA DropLastLine ==
    ASSUME NEW s \in Seq(Chars)
    PROVE  /\ DropLast(s) \in Seq(Chars)
           /\ s = << >> => DropLast(s) = << >>
           /\ Len(s) > 0 => Len(DropLast(s)) = Len(s) - 1
           /\ \A i \in 1 .. Len(DropLast(s)) : DropLast(s)[i] = s[i] /\ i < Len(s)
  <1>1. CASE s = << >>
    BY <1>1 DEF DropLast
  <1>2. CASE s # << >>
    <2>1. Len(s) \in Nat \ {0} /\ \A i \in 1 .. Len(s) : s[i] \in Chars
      BY <1>2, EmptySeq, ElementOfSeq
    <2>2. DropLast(s) = SubSeq(s, 1, Len(s) - 1)
      BY <1>2 DEF DropLast
    <2>3. /\ DropLast(s) \in Seq(Chars)
          /\ Len(DropLast(s)) = IF 1 <= Len(s) - 1 THEN Len(s) - 1 - 1 + 1 ELSE 0
          /\ \A i \in 1 .. Len(s) - 1 - 1 + 1 : DropLast(s)[i] = s[1 + i - 1]
      <3>1. \A i \in 1 .. Len(s) - 1 : s[i] \in Chars
        BY <2>1
      <3>2. Len(s) - 1 \in Int
        BY <2>1
      <3>3. /\ SubSeq(s, 1, Len(s) - 1) \in Seq(Chars)
            /\ Len(SubSeq(s, 1, Len(s) - 1)) =
                   IF 1 <= Len(s) - 1 THEN Len(s) - 1 - 1 + 1 ELSE 0
            /\ \A i \in 1 .. Len(s) - 1 - 1 + 1 :
                   SubSeq(s, 1, Len(s) - 1)[i] = s[1 + i - 1]
        <4> DEFINE m == Len(s) - 1
        <4>1. m \in Int /\ \A i \in 1 .. m : s[i] \in Chars
          BY <3>1, <3>2
        <4> HIDE DEF m
        <4>2. /\ SubSeq(s, 1, m) \in Seq(Chars)
              /\ Len(SubSeq(s, 1, m)) = IF 1 <= m THEN m - 1 + 1 ELSE 0
              /\ \A i \in 1 .. m - 1 + 1 : SubSeq(s, 1, m)[i] = s[1 + i - 1]
          BY <4>1, SubSeqProperties
        <4>3. QED
          BY <4>2 DEF m
      <3>4. QED
        BY <3>3, <2>2
    <2>4. Len(DropLast(s)) = Len(s) - 1
      <3>1. \A m \in Nat \ {0} : (IF 1 <= m - 1 THEN m - 1 - 1 + 1 ELSE 0) = m - 1
        OBVIOUS
      <3>2. QED
        BY <3>1, <2>1, <2>3
    <2>5. ASSUME NEW i \in 1 .. Len(DropLast(s))
          PROVE  DropLast(s)[i] = s[i] /\ i < Len(s)
      <3>1. i \in 1 .. Len(s) - 1 - 1 + 1 /\ 1 + i - 1 = i
        BY <2>1, <2>4
      <3>2. QED
        BY <3>1, <2>1, <2>3
    <2>6. QED
      BY <1>2, <2>3, <2>4, <2>5
  <1>3. QED
    BY <1>1, <1>2

\* A character behind the line extends it.
LEMMA StoredExtends ==
    ASSUME NEW buf \in Buffers, NEW n \in 0 .. BufferSize - 1,
           NEW s \in Seq(Chars), NEW c \in Chars, Stored(buf, n, s), buf[n + 1] = c
    PROVE  Stored(buf, n + 1, Append(s, c))
  <1>1. n \in Nat /\ Len(s) = n
    BY TerminalAssumption DEF Stored
  <1>2. Len(Append(s, c)) = n + 1
    BY <1>1, AppendLine
  <1>3. ASSUME NEW i \in 1 .. n + 1 PROVE Append(s, c)[i] = buf[i]
    <2>1. CASE i = n + 1
      BY <2>1, <1>1, AppendLine
    <2>2. CASE i # n + 1
      <3>1. i \in 1 .. n /\ i \in 1 .. Len(s)
        BY <2>2, <1>1
      <3>2. Append(s, c)[i] = s[i]
        BY <3>1, AppendLine
      <3>3. QED
        BY <3>1, <3>2 DEF Stored
    <2>3. QED
      BY <2>1, <2>2
  <1>4. QED
    BY <1>2, <1>3 DEF Stored

\* A store behind the line leaves it as it is.
LEMMA StoredStays ==
    ASSUME NEW buf \in Buffers, NEW n \in 0 .. BufferSize - 1,
           NEW s, NEW c \in Chars, Stored(buf, n, s)
    PROVE  Stored([buf EXCEPT ![n + 1] = c], n, s)
  <1>1. n \in Nat /\ BufferSize \in Nat /\ n < BufferSize
    BY TerminalAssumption
  <1>2. ASSUME NEW i \in 1 .. n PROVE [buf EXCEPT ![n + 1] = c][i] = buf[i]
    <2>1. i \in 1 .. BufferSize /\ i # n + 1
      BY <1>1
    <2>2. QED
      BY <2>1 DEF Buffers
  <1>3. QED
    BY <1>2 DEF Stored

\* Taking back the last character leaves the rest stored.
LEMMA StoredDropLast ==
    ASSUME NEW buf \in Buffers, NEW n \in 1 .. BufferSize,
           NEW s \in Seq(Chars), Stored(buf, n, s)
    PROVE  Stored(buf, n - 1, DropLast(s))
  <1>1. n \in Nat /\ n > 0 /\ Len(s) = n
    BY TerminalAssumption DEF Stored
  <1>2. Len(DropLast(s)) = n - 1
    BY <1>1, DropLastLine
  <1>3. ASSUME NEW i \in 1 .. n - 1 PROVE DropLast(s)[i] = buf[i]
    <2>1. i \in 1 .. Len(DropLast(s)) /\ i \in 1 .. n
      BY <1>1, <1>2
    <2>2. DropLast(s)[i] = s[i]
      BY <2>1, DropLastLine
    <2>3. QED
      BY <2>1, <2>2 DEF Stored
  <1>4. QED
    BY <1>2, <1>3 DEF Stored

\* A line without a newline, extended.
LEMMA NewlineAppend ==
    ASSUME NEW s \in Seq(Chars), NEW c \in Chars, NoNewline(s)
    PROVE  /\ NewlineLast(Append(s, c))
           /\ c # NL => NoNewline(Append(s, c))
  <1>1. Len(s) \in Nat /\ Len(Append(s, c)) = Len(s) + 1
    BY LenProperties, AppendLine
  <1>2. ASSUME NEW i \in 1 .. Len(s) + 1, Append(s, c)[i] = NL
        PROVE  i = Len(s) + 1 /\ c = NL
    <2>1. CASE i = Len(s) + 1
      BY <2>1, <1>2, AppendLine
    <2>2. CASE i # Len(s) + 1
      <3>1. i \in 1 .. Len(s)
        BY <2>2, <1>1
      <3>2. Append(s, c)[i] = s[i] /\ s[i] # NL
        BY <3>1, AppendLine DEF NoNewline
      <3>3. QED
        BY <3>2, <1>2
    <2>3. QED
      BY <2>1, <2>2
  <1>3. QED
    BY <1>1, <1>2 DEF NewlineLast, NoNewline

\* A line whose last character is taken back has no newline left.
LEMMA NewlineDropLast ==
    ASSUME NEW s \in Seq(Chars), NewlineLast(s)
    PROVE  NoNewline(DropLast(s)) /\ NewlineLast(DropLast(s))
  <1>1. Len(s) \in Nat
    BY LenProperties
  <1>2. ASSUME NEW i \in 1 .. Len(DropLast(s)) PROVE DropLast(s)[i] # NL
    <2>0. Len(DropLast(s)) \in Nat
      BY DropLastLine, LenProperties
    <2>1. DropLast(s)[i] = s[i] /\ i < Len(s)
      BY DropLastLine
    <2>2. i \in 1 .. Len(s) /\ i # Len(s)
      BY <2>0, <2>1, <1>1
    <2>3. QED
      BY <2>1, <2>2 DEF NewlineLast
  <1>3. QED
    BY <1>2 DEF NoNewline, NewlineLast

\* A line without a newline is not ended.
LEMMA NotEnded ==
    ASSUME NEW s \in Seq(Chars), NoNewline(s), s # << >>
    PROVE  s[Len(s)] # NL
  <1>1. Len(s) \in Nat \ {0}
    BY EmptySeq
  <1>2. QED
    BY <1>1 DEF NoNewline

\* The empty line.
LEMMA EmptyLine ==
    /\ << >> \in Seq(Chars)
    /\ \A buf : Stored(buf, 0, << >>)
    /\ NewlineLast(<< >>) /\ NoNewline(<< >>)
  BY EmptySeq DEF Stored, NewlineLast, NoNewline

\* Characters are not newlines.
LEMMA CharOfLetter ==
    ASSUME NEW k \in Letters
    PROVE  CharOf(k) \in Keys /\ CharOf(k) # NL
  <1>1. CharOf(k) \in Letters \X {0, 1}
    BY DEF CharOf
  <1>2. CharOf(k)[1] # NL[1]
    BY TerminalAssumption DEF CharOf, NL
  <1>3. QED
    BY <1>1, <1>2 DEF Keys

----------------------------------------------------------------------------
\* What a read returns

\* Of a stored line that ends in its only newline, CopyLine takes as much as
\* the read asks for, and ends it.
LEMMA CopyLineCuts ==
    ASSUME NEW buf \in Buffers, NEW size \in 1 .. BufferSize, NEW n \in Nat \ {0},
           NEW s \in Seq(Chars), Stored(buf, size, s),
           NewlineLast(s), s[Len(s)] = NL
    PROVE  CopyLine(buf, Smaller(n, size)) =
               IF Len(s) <= n THEN s ELSE Append(SubSeq(s, 1, n - 1), NL)
  <1>1. size \in Nat \ {0} /\ size <= BufferSize /\ Len(s) = size
    BY TerminalAssumption DEF Stored
  <1>2. \A i \in 1 .. size : buf[i] = NL <=> i = size
    BY <1>1 DEF Stored, NewlineLast
  <1>3. CASE size <= n
    <2>1. Smaller(n, size) = size
      BY <1>1, <1>3 DEF Smaller
    <2>2. Positions(buf, size) = {size}
      BY <1>1, <1>2 DEF Positions
    <2>3. CopyLine(buf, size) = SubSeq(buf, 1, size)
      <3>1. (CHOOSE j \in {size} : \A k \in {size} : j <= k) = size
        BY <1>1
      <3>2. QED
        BY <2>2, <3>1, Zenon DEF CopyLine
    <2>4. SubSeq(buf, 1, size) = s
      BY <1>1, StoredIsSubSeq
    <2>5. QED
      BY <1>1, <1>3, <2>1, <2>3, <2>4
  <1>4. CASE ~(size <= n)
    <2>1. Smaller(n, size) = n /\ n < size
      BY <1>1, <1>4 DEF Smaller
    <2>2. Positions(buf, n) = {}
      BY <1>1, <1>2, <2>1 DEF Positions
    <2>3. CopyLine(buf, n) = [SubSeq(buf, 1, n) EXCEPT ![n] = NL]
      BY <2>2 DEF CopyLine
    <2>4. /\ SubSeq(buf, 1, n) \in Seq(Chars)
          /\ Len(SubSeq(buf, 1, n)) = n
          /\ \A i \in 1 .. n : SubSeq(buf, 1, n)[i] = buf[i]
      <3>1. \A i \in 1 .. n : buf[i] \in Chars
        <4>1. \A i \in 1 .. n : i \in 1 .. BufferSize
          BY <1>1, <2>1, TerminalAssumption
        <4>2. QED
          BY <4>1 DEF Buffers
      <3>2. /\ SubSeq(buf, 1, n) \in Seq(Chars)
            /\ Len(SubSeq(buf, 1, n)) = IF 1 <= n THEN n - 1 + 1 ELSE 0
            /\ \A i \in 1 .. n - 1 + 1 : SubSeq(buf, 1, n)[i] = buf[1 + i - 1]
        BY <3>1, SubSeqProperties
      <3>3. QED
        BY <3>2
    <2>5. NL \in Chars
      BY DEF Chars, Keys
    <2>6. /\ CopyLine(buf, n) \in Seq(Chars)
          /\ Len(CopyLine(buf, n)) = n
          /\ \A i \in 1 .. n : CopyLine(buf, n)[i] = IF i = n THEN NL ELSE buf[i]
      <3> DEFINE r == SubSeq(buf, 1, n)
      <3>1. r \in Seq(Chars) /\ Len(r) = n /\ n \in 1 .. Len(r)
        BY <2>4
      <3> HIDE DEF r
      <3>2. /\ [r EXCEPT ![n] = NL] \in Seq(Chars)
            /\ Len([r EXCEPT ![n] = NL]) = Len(r)
            /\ \A j \in 1 .. Len(r) :
                   [r EXCEPT ![n] = NL][j] = IF j = n THEN NL ELSE r[j]
        BY <3>1, <2>5, ExceptSeq
      <3>3. QED
        BY <3>1, <3>2, <2>3, <2>4 DEF r
    <2>7. /\ SubSeq(s, 1, n - 1) \in Seq(Chars)
          /\ Len(SubSeq(s, 1, n - 1)) = n - 1
          /\ \A i \in 1 .. n - 1 : SubSeq(s, 1, n - 1)[i] = s[i]
      <3> DEFINE m == n - 1
      <3>1. m \in Nat /\ \A i \in 1 .. m : i \in 1 .. Len(s)
        BY <1>1, <2>1
      <3> HIDE DEF m
      <3>2. \A i \in 1 .. m : s[i] \in Chars
        BY <3>1, ElementOfSeq
      <3>3. /\ SubSeq(s, 1, m) \in Seq(Chars)
            /\ Len(SubSeq(s, 1, m)) = IF 1 <= m THEN m - 1 + 1 ELSE 0
            /\ \A i \in 1 .. m - 1 + 1 : SubSeq(s, 1, m)[i] = s[1 + i - 1]
        BY <3>1, <3>2, SubSeqProperties
      <3>4. Len(SubSeq(s, 1, m)) = m /\ \A i \in 1 .. m : SubSeq(s, 1, m)[i] = s[i]
        BY <3>1, <3>3
      <3>5. QED
        BY <3>3, <3>4 DEF m
    <2>8. /\ Append(SubSeq(s, 1, n - 1), NL) \in Seq(Chars)
          /\ Len(Append(SubSeq(s, 1, n - 1), NL)) = n
          /\ \A i \in 1 .. n : Append(SubSeq(s, 1, n - 1), NL)[i] =
                                   IF i = n THEN NL ELSE s[i]
      <3> DEFINE r == SubSeq(s, 1, n - 1)
      <3> HIDE DEF r
      <3>1. r \in Seq(Chars) /\ Len(r) = n - 1 /\ \A i \in 1 .. n - 1 : r[i] = s[i]
        BY <2>7 DEF r
      <3>2. /\ Append(r, NL) \in Seq(Chars)
            /\ Len(Append(r, NL)) = n
            /\ \A i \in 1 .. n - 1 : Append(r, NL)[i] = r[i]
            /\ Append(r, NL)[n] = NL
        BY <3>1, <2>5, AppendLine
      <3>3. QED
        BY <3>1, <3>2 DEF r
    <2>9. \A i \in 1 .. n : CopyLine(buf, n)[i] = Append(SubSeq(s, 1, n - 1), NL)[i]
      <3>1. \A i \in 1 .. n : buf[i] = s[i]
        BY <1>1, <2>1 DEF Stored
      <3>2. QED
        BY <2>6, <2>8, <3>1
    <2>10. CopyLine(buf, n) = Append(SubSeq(s, 1, n - 1), NL)
      BY <2>6, <2>8, <2>9, SeqEqual
    <2>11. QED
      BY <1>1, <1>4, <2>1, <2>10
  <1>5. QED
    BY <1>3, <1>4

----------------------------------------------------------------------------
\* The invariant

\* The values a terminal has.
LEMMA TypesAt ==
    ASSUME TypeOK, NEW t \in Terminals
    PROVE  /\ key_buf[t] \in Buffers
           /\ keyboard_buffer_size[t] \in -1 .. BufferSize
           /\ keyboard_buffer_size[t] \in Int
           /\ keyboard_buffer_enable[t] \in BOOLEAN
           /\ reader[t].at \in ReaderPoints /\ reader[t].n \in Int
           /\ typed[t] \in Seq(Chars)
           /\ flaws[t] \subseteq Flaws
           /\ handler.at \in HandlerPoints /\ handler.key \in Chars
           /\ handler.loaded \in 0 .. BufferSize /\ handler.loaded \in Int
           /\ BufferSize \in Nat /\ BufferSize >= 2
  BY TerminalAssumption DEF TypeOK, Buffers

\* Nothing of terminal u changes.
Same(u) == /\ key_buf'[u] = key_buf[u]
           /\ keyboard_buffer_size'[u] = keyboard_buffer_size[u]
           /\ keyboard_buffer_enable'[u] = keyboard_buffer_enable[u]
           /\ reader'[u] = reader[u]
           /\ typed'[u] = typed[u]
           /\ flaws'[u] = flaws[u]

\* A terminal none of whose variables changes keeps its line, if the handler
\* does not come to it or move in it.
LEMMA Untouched ==
    ASSUME NEW u \in Terminals, TerminalOk(u), Same(u),
           \/ handler' = Idle /\ ~At(u, {"off", "full_off"})
           \/ current_terminal # u /\ current_terminal' # u
           \/ UNCHANGED <<current_terminal, handler>>
    PROVE  TerminalOk(u)'
  <1>1. CASE UNCHANGED <<current_terminal, handler>>
    <2>1. LineOk(u)'
      BY <1>1 DEF TerminalOk, LineOk, Same, At
    <2>2. HandlerOk(u)'
      BY <1>1 DEF TerminalOk, HandlerOk, Same, At, Taking, Writing
    <2>3. ReaderOk(u)'
      BY DEF TerminalOk, ReaderOk, Same, Taking, Ended
    <2>4. QED
      BY <2>1, <2>2, <2>3 DEF TerminalOk
  <1>2. CASE /\ current_terminal' # u \/ handler' = Idle
             /\ ~At(u, {"off", "full_off"})
    <2>1. LineOk(u)'
      BY <1>2 DEF TerminalOk, LineOk, Same
    <2>2. HandlerOk(u)'
      BY <1>2 DEF HandlerOk, At, Writing, Idle
    <2>3. ReaderOk(u)'
      BY DEF TerminalOk, ReaderOk, Same, Taking, Ended
    <2>4. QED
      BY <2>1, <2>2, <2>3 DEF TerminalOk
  <1>3. QED
    BY <1>1, <1>2 DEF At

\* A step that touches terminal t only.
LEMMA OneTouched ==
    ASSUME IInv, TypeOK', NEW t \in Terminals, TerminalOk(t)',
           \A u \in Terminals \ {t} : Same(u),
           \/ UNCHANGED <<current_terminal, handler>>
           \/ current_terminal = t /\ current_terminal' = t
    PROVE  IInv'
  <1>1. ASSUME NEW u \in Terminals, u # t PROVE TerminalOk(u)'
    BY <1>1, Untouched DEF IInv
  <1>2. QED
    BY <1>1 DEF IInv

\* A step that touches none.
LEMMA NoneTouched ==
    ASSUME IInv, TypeOK', \A u \in Terminals : Same(u),
           \/ handler' = Idle /\ handler.at \notin {"off", "full_off"}
           \/ UNCHANGED <<current_terminal, handler>>
    PROVE  IInv'
  <1>1. ASSUME NEW u \in Terminals PROVE TerminalOk(u)'
    BY Untouched DEF IInv, At
  <1>2. QED
    BY <1>1 DEF IInv

LEMMA InitIInv == Init => IInv
  <1> SUFFICES ASSUME Init PROVE IInv
    OBVIOUS
  <1>1. TypeOK
    <2>1. NUL \in Chars /\ << >> \in Seq(Chars)
      BY EmptyLine DEF Chars
    <2>2. handler \in [at : HandlerPoints, key : Chars, loaded : 0 .. BufferSize]
      BY <2>1, TerminalAssumption DEF Init, Idle, HandlerPoints
    <2>3. NotInRead \in [at : ReaderPoints, n : Int, nbytes : ReadSizes \cup {0}]
      BY DEF NotInRead, ReaderPoints
    <2>4. /\ current_terminal \in Terminals /\ 0 \in -1 .. BufferSize
          /\ pressed \subseteq Modifiers
      BY TerminalAssumption DEF Init, Terminals
    <2>5. QED
      BY <2>1, <2>2, <2>3, <2>4 DEF Init, TypeOK
  <1>2. ASSUME NEW t \in Terminals PROVE TerminalOk(t)
    <2>1. /\ keyboard_buffer_size[t] = 0 /\ keyboard_buffer_enable[t] = FALSE
          /\ reader[t].at = "none" /\ typed[t] = << >> /\ flaws[t] = {}
          /\ handler.at = "none"
      BY DEF Init, Idle, NotInRead
    <2>2. LineOk(t)
      BY <2>1, EmptyLine DEF LineOk
    <2>3. HandlerOk(t)
      BY <2>1 DEF HandlerOk, At, Writing
    <2>4. ReaderOk(t)
      BY <2>1 DEF ReaderOk, Taking
    <2>5. QED
      BY <2>2, <2>3, <2>4 DEF TerminalOk
  <1>3. QED
    BY <1>1, <1>2 DEF IInv

----------------------------------------------------------------------------
\* Each step keeps the invariant: terminal_read

LEMMA ReadBegins ==
    ASSUME IInv, NEW t \in Terminals, NEW n \in ReadSizes, terminal_read(t, n)
    PROVE  IInv'
  <1>1. TerminalOk(t) /\ TypeOK
    BY DEF IInv
  <1>2. TypeOK'
    <2>1. [at |-> "poll", n |-> n, nbytes |-> n] \in
              [at : ReaderPoints, n : Int, nbytes : ReadSizes \cup {0}]
      BY TerminalAssumption DEF ReaderPoints
    <2>2. QED
      BY <1>1, <2>1 DEF TypeOK, terminal_read, hist
  <1>3. TerminalOk(t)'
    <2>1. /\ reader[t].at = "none"
          /\ reader'[t].at = "poll" /\ reader'[t].n = n /\ reader'[t].nbytes = n
          /\ keyboard_buffer_enable'[t] = TRUE
          /\ UNCHANGED <<key_buf[t], keyboard_buffer_size[t], typed[t], flaws[t],
                         current_terminal, handler>>
      BY <1>1 DEF TypeOK, terminal_read, hist
    <2>2. keyboard_buffer_enable[t] = FALSE /\ typed[t] = << >>
      BY <1>1, <2>1, TypesAt DEF TerminalOk, LineOk
    <2>3. LineOk(t)'
      BY <1>1, <2>1, <2>2, EmptyLine DEF TerminalOk, LineOk, At
    <2>4. HandlerOk(t)'
      BY <1>1, <2>1, <2>2 DEF TerminalOk, HandlerOk, At, Taking
    <2>5. ReaderOk(t)'
      BY <2>1, TerminalAssumption DEF ReaderOk, Taking
    <2>6. QED
      BY <2>3, <2>4, <2>5 DEF TerminalOk
  <1>4. \A u \in Terminals \ {t} : Same(u)
    BY <1>1 DEF TypeOK, terminal_read, hist, Same
  <1>5. QED
    BY <1>2, <1>3, <1>4, OneTouched DEF terminal_read

\* The reader moves while the keyboard is off.
LEMMA ReaderMoved ==
    ASSUME IInv, NEW t \in Terminals, NEW r,
           r \in [at : ReaderPoints \ {"none"}, n : Int, nbytes : ReadSizes \cup {0}],
           r.nbytes = reader[t].nbytes, reader[t].at # "none",
           keyboard_buffer_enable[t] = FALSE,
           reader' = [reader EXCEPT ![t] = r],
           UNCHANGED <<current_terminal, pressed, handler, line, typed, flaws>>,
           r.at \in {"poll", "test", "cut"} => r.n = r.nbytes,
           r.at = "copy" => r.n \in 0 .. BufferSize,
           r.at = "cut" /\ flaws[t] = {} /\ Ended(t) =>
               r.nbytes > keyboard_buffer_size[t],
           r.at = "copy" /\ flaws[t] = {} /\ Ended(t) =>
               r.n = Smaller(r.nbytes, keyboard_buffer_size[t])
    PROVE  IInv'
  <1>1. TerminalOk(t) /\ TypeOK
    BY DEF IInv
  <1>2. TypeOK'
    BY <1>1 DEF TypeOK, line
  <1>3. TerminalOk(t)'
    <2>1. /\ reader'[t] = r
          /\ UNCHANGED <<key_buf[t], keyboard_buffer_size[t], typed[t], flaws[t],
                         keyboard_buffer_enable[t], current_terminal, handler>>
      BY <1>1 DEF TypeOK, line
    <2>2. LineOk(t)'
      BY <1>1, <2>1 DEF TerminalOk, LineOk, At
    <2>3. HandlerOk(t)'
      BY <1>1, <2>1 DEF TerminalOk, HandlerOk, At, Taking
    <2>4. ReaderOk(t)'
      BY <1>1, <2>1 DEF TerminalOk, ReaderOk, Taking, Ended
    <2>5. QED
      BY <2>2, <2>3, <2>4 DEF TerminalOk
  <1>4. \A u \in Terminals \ {t} : Same(u)
    BY <1>1 DEF TypeOK, line, Same
  <1>5. QED
    BY <1>2, <1>3, <1>4, OneTouched

\* A reader past its loop finds the keyboard off and a line in the buffer.
LEMMA ReaderPastPoll ==
    ASSUME IInv, NEW t \in Terminals, reader[t].at \in {"test", "cut", "copy", "reset"}
    PROVE  keyboard_buffer_enable[t] = FALSE /\ keyboard_buffer_size[t] \in 0 .. BufferSize
  <1>1. TerminalOk(t) /\ TypeOK
    BY DEF IInv
  <1>2. keyboard_buffer_enable[t] = FALSE
    BY <1>1, TypesAt DEF TerminalOk, LineOk
  <1>3. QED
    BY <1>1, <1>2, TypesAt DEF TerminalOk, ReaderOk, Taking

LEMMA ReadPolls ==
    ASSUME IInv, NEW t \in Terminals, read_polls(t)
    PROVE  IInv'
  <1>1. TerminalOk(t) /\ TypeOK
    BY DEF IInv
  <1> DEFINE r == [reader[t] EXCEPT !.at = "test"]
  <1>2. /\ reader[t].at = "poll" /\ keyboard_buffer_enable[t] = FALSE
        /\ reader[t] \in [at : ReaderPoints, n : Int, nbytes : ReadSizes \cup {0}]
    BY <1>1, TypesAt DEF TypeOK, read_polls, ReaderMoves
  <1>3. /\ r \in [at : ReaderPoints \ {"none"}, n : Int, nbytes : ReadSizes \cup {0}]
        /\ r.at = "test" /\ r.n = reader[t].n /\ r.nbytes = reader[t].nbytes
    BY <1>2 DEF ReaderPoints
  <1>4. /\ reader' = [reader EXCEPT ![t] = r]
        /\ UNCHANGED <<current_terminal, pressed, handler, line, typed, flaws>>
    BY DEF read_polls, ReaderMoves, hist
  <1>5. r.n = r.nbytes
    BY <1>1, <1>2, <1>3 DEF TerminalOk, ReaderOk
  <1> HIDE DEF r
  <1>6. QED
    BY <1>2, <1>3, <1>4, <1>5, ReaderMoved

LEMMA ReadTests ==
    ASSUME IInv, NEW t \in Terminals, read_tests(t)
    PROVE  IInv'
  <1>1. TerminalOk(t) /\ TypeOK
    BY DEF IInv
  <1> DEFINE to == IF Exceeds(reader[t].n, keyboard_buffer_size[t])
                   THEN "cut" ELSE "copy"
             r  == [reader[t] EXCEPT !.at = to]
  <1>2. /\ reader[t].at = "test"
        /\ reader[t] \in [at : ReaderPoints, n : Int, nbytes : ReadSizes \cup {0}]
    BY <1>1 DEF TypeOK, read_tests, ReaderMoves
  <1>3. keyboard_buffer_enable[t] = FALSE /\ keyboard_buffer_size[t] \in 0 .. BufferSize
    BY <1>2, ReaderPastPoll
  <1>4. /\ reader' = [reader EXCEPT ![t] = r]
        /\ UNCHANGED <<current_terminal, pressed, handler, line, typed, flaws>>
    BY DEF read_tests, ReaderMoves, hist
  <1>5. reader[t].n = reader[t].nbytes /\ reader[t].nbytes \in Nat \ {0}
    BY <1>1, <1>2 DEF TerminalOk, ReaderOk
  <1>6. /\ to = "cut" => reader[t].n > keyboard_buffer_size[t]
        /\ to = "copy" => reader[t].n <= keyboard_buffer_size[t]
        /\ to \in {"cut", "copy"}
    BY <1>3, <1>5, TerminalAssumption DEF Exceeds
  <1> HIDE DEF to
  <1>7. /\ r \in [at : ReaderPoints \ {"none"}, n : Int, nbytes : ReadSizes \cup {0}]
        /\ r.at = to /\ r.n = reader[t].n /\ r.nbytes = reader[t].nbytes
    BY <1>2, <1>6 DEF ReaderPoints
  <1> HIDE DEF r
  <1>8. /\ r.at = "copy" => r.n \in 0 .. BufferSize
        /\ r.at = "copy" => r.n = Smaller(r.nbytes, keyboard_buffer_size[t])
    BY <1>3, <1>5, <1>6, <1>7, TerminalAssumption DEF Smaller
  <1>9. QED
    BY <1>2, <1>3, <1>4, <1>5, <1>6, <1>7, <1>8, ReaderMoved

LEMMA ReadCuts ==
    ASSUME IInv, NEW t \in Terminals, read_cuts(t)
    PROVE  IInv'
  <1>1. TerminalOk(t) /\ TypeOK
    BY DEF IInv
  <1> DEFINE r == [reader[t] EXCEPT !.at = "copy", !.n = keyboard_buffer_size[t]]
  <1>2. /\ reader[t].at = "cut"
        /\ reader[t] \in [at : ReaderPoints, n : Int, nbytes : ReadSizes \cup {0}]
    BY <1>1 DEF TypeOK, read_cuts
  <1>3. keyboard_buffer_enable[t] = FALSE /\ keyboard_buffer_size[t] \in 0 .. BufferSize
    BY <1>2, ReaderPastPoll
  <1>4. /\ r \in [at : ReaderPoints \ {"none"}, n : Int, nbytes : ReadSizes \cup {0}]
        /\ r.at = "copy" /\ r.n = keyboard_buffer_size[t]
        /\ r.nbytes = reader[t].nbytes
    <2>1. keyboard_buffer_size[t] \in Int
      BY <1>3, TerminalAssumption
    <2>2. QED
      BY <1>2, <2>1 DEF ReaderPoints
  <1>5. /\ reader' = [reader EXCEPT ![t] = r]
        /\ UNCHANGED <<current_terminal, pressed, handler, line, typed, flaws>>
    BY DEF read_cuts, hist
  <1>6. flaws[t] = {} /\ Ended(t) => r.n = Smaller(r.nbytes, keyboard_buffer_size[t])
    <2>1. /\ reader[t].nbytes \in Nat
          /\ flaws[t] = {} /\ Ended(t) => reader[t].nbytes > keyboard_buffer_size[t]
      BY <1>1, <1>2 DEF TerminalOk, ReaderOk
    <2> HIDE DEF r
    <2>2. QED
      BY <1>3, <1>4, <2>1, TerminalAssumption DEF Smaller
  <1> HIDE DEF r
  <1>7. QED
    BY <1>2, <1>3, <1>4, <1>5, <1>6, ReaderMoved

LEMMA ReadCopies ==
    ASSUME IInv, NEW t \in Terminals, read_copies(t)
    PROVE  IInv'
  <1>1. TerminalOk(t) /\ TypeOK
    BY DEF IInv
  <1> DEFINE r == [reader[t] EXCEPT !.at = "reset"]
  <1>2. /\ reader[t].at = "copy"
        /\ reader[t] \in [at : ReaderPoints, n : Int, nbytes : ReadSizes \cup {0}]
    BY <1>1 DEF TypeOK, read_copies, ReaderMoves
  <1>3. keyboard_buffer_enable[t] = FALSE
    BY <1>2, ReaderPastPoll
  <1>4. /\ r \in [at : ReaderPoints \ {"none"}, n : Int, nbytes : ReadSizes \cup {0}]
        /\ r.at = "reset" /\ r.nbytes = reader[t].nbytes
    BY <1>2 DEF ReaderPoints
  <1>5. /\ reader' = [reader EXCEPT ![t] = r]
        /\ UNCHANGED <<current_terminal, pressed, handler, line, typed, flaws>>
    BY DEF read_copies, ReaderMoves
  <1> HIDE DEF r
  <1>6. QED
    BY <1>2, <1>3, <1>4, <1>5, ReaderMoved

LEMMA ReadReturns ==
    ASSUME IInv, NEW t \in Terminals, read_returns(t)
    PROVE  IInv'
  <1>1. TerminalOk(t) /\ TypeOK
    BY DEF IInv
  <1>2. TypeOK'
    <2>1. NotInRead \in [at : ReaderPoints, n : Int, nbytes : ReadSizes \cup {0}]
      BY DEF NotInRead, ReaderPoints
    <2>2. << >> \in Seq(Chars) /\ 0 \in -1 .. BufferSize
      BY EmptyLine, TerminalAssumption
    <2>3. flaws' \in [Terminals -> SUBSET Flaws]
      BY <1>1 DEF TypeOK, Flaws, read_returns
    <2>4. QED
      BY <1>1, <2>1, <2>2, <2>3 DEF TypeOK, read_returns
  <1>3. TerminalOk(t)'
    <2>1. /\ reader[t].at = "reset" /\ reader'[t] = NotInRead
          /\ keyboard_buffer_size'[t] = 0 /\ typed'[t] = << >>
          /\ flaws'[t] = IF Decrementing(t) THEN {"crossed"} ELSE {}
          /\ UNCHANGED <<key_buf[t], keyboard_buffer_enable[t],
                         current_terminal, handler>>
      BY <1>1 DEF TypeOK, read_returns
    <2>2. keyboard_buffer_enable[t] = FALSE /\ reader'[t].at = "none"
      <3>1. keyboard_buffer_enable[t] = FALSE
        BY <2>1, ReaderPastPoll
      <3>2. QED
        BY <2>1, <3>1 DEF NotInRead
    <2>3. At(t, {"dec_load", "dec_store"}) => flaws'[t] # {}
      BY <2>1 DEF At, Decrementing
    <2>4. LineOk(t)'
      BY <2>1, <2>2, EmptyLine DEF LineOk
    <2>5. HandlerOk(t)'
      <3>1. ~At(t, Writing)
        BY <1>1, <2>2 DEF TerminalOk, HandlerOk
      <3>2. QED
        BY <1>1, <2>1, <2>2, <2>3, <3>1
           DEF TerminalOk, HandlerOk, At, Taking, Writing
    <2>6. ReaderOk(t)'
      BY <2>2 DEF ReaderOk, Taking
    <2>7. QED
      BY <2>4, <2>5, <2>6 DEF TerminalOk
  <1>4. \A u \in Terminals \ {t} : Same(u)
    BY <1>1 DEF TypeOK, read_returns, Same
  <1>5. QED
    BY <1>2, <1>3, <1>4, OneTouched DEF read_returns

----------------------------------------------------------------------------
\* Each step keeps the invariant: keyboard_handler

\* Only the place of the handler changes: what its new place asks of the line.
LEMMA HandlerMoved ==
    ASSUME IInv, UNCHANGED <<current_terminal, pressed, line, reader, typed, flaws>>,
           handler' \in [at : HandlerPoints, key : Chars, loaded : 0 .. BufferSize],
           handler.at \notin {"off", "full_off"},
           HandlerOk(current_terminal)'
    PROVE  IInv'
  <1> DEFINE t == current_terminal
  <1>1. t \in Terminals /\ TerminalOk(t) /\ TypeOK
    BY DEF IInv, TypeOK
  <1>2. TypeOK'
    BY <1>1 DEF TypeOK, line
  <1>3. TerminalOk(t)'
    <2>1. t' = t /\ Same(t) /\ ~At(t, {"off", "full_off"})
      BY <1>1 DEF TypeOK, line, Same, At
    <2>2. LineOk(t)'
      BY <1>1, <2>1 DEF TerminalOk, LineOk, Same
    <2>3. ReaderOk(t)'
      BY <1>1, <2>1 DEF TerminalOk, ReaderOk, Same, Taking, Ended
    <2>4. QED
      BY <2>2, <2>3 DEF TerminalOk
  <1>4. \A u \in Terminals \ {t} : Same(u)
    BY DEF line, Same
  <1> HIDE DEF t
  <1>5. current_terminal = t /\ current_terminal' = t
    BY DEF t
  <1>6. TerminalOk(t)' /\ t' = t
    BY <1>3, <1>5 DEF t
  <1>7. QED
    BY <1>1, <1>2, <1>4, <1>5, <1>6, OneTouched

LEMMA KeysKeepIInv ==
    ASSUME IInv,
           \/ \E m \in Modifiers : PressModifier(m) \/ ReleaseModifier(m)
           \/ \E t \in Terminals : SwitchTerminal(t)
    PROVE  IInv'
  <1>1. TypeOK
    BY DEF IInv
  <1>2. /\ handler = Idle /\ handler' = Idle /\ UNCHANGED <<line, reader, typed, flaws>>
        /\ current_terminal' \in Terminals /\ pressed' \subseteq Modifiers
    BY <1>1 DEF TypeOK, PressModifier, ReleaseModifier, SwitchTerminal,
                HandlerFree, hist
  <1>3. TypeOK'
    BY <1>1, <1>2 DEF TypeOK, line
  <1>4. \A u \in Terminals : Same(u)
    BY <1>2 DEF line, Same
  <1>5. handler.at \notin {"off", "full_off"}
    BY <1>2 DEF Idle
  <1>6. QED
    BY <1>2, <1>3, <1>4, <1>5, NoneTouched

LEMMA BackspaceBegins ==
    ASSUME IInv, Backspace
    PROVE  IInv'
  <1> DEFINE t == current_terminal
  <1>1. t \in Terminals /\ TypeOK
    BY DEF IInv, TypeOK
  <1>2. /\ UNCHANGED <<current_terminal, pressed, line, reader, typed, flaws>>
        /\ handler = Idle /\ keyboard_buffer_size[t] > 0
        /\ handler' = [Idle EXCEPT !.at = "dec_load"]
    BY DEF Backspace, HandlerFree, hist
  <1>3. /\ handler'.at = "dec_load" /\ handler.at = "none"
        /\ handler' \in [at : HandlerPoints, key : Chars, loaded : 0 .. BufferSize]
    BY <1>2, TerminalAssumption DEF Idle, HandlerPoints, Chars
  <1>4. HandlerOk(t)'
    <2>1. keyboard_buffer_size'[t] > 0 /\ keyboard_buffer_size'[t] \in Int /\ t' = t
      BY <1>1, <1>2, TypesAt DEF line
    <2>2. QED
      BY <1>3, <2>1 DEF HandlerOk, At, Writing
  <1>5. QED
    BY <1>2, <1>3, <1>4, HandlerMoved

LEMMA BackspaceLoadsSize ==
    ASSUME IInv, BackspaceLoads
    PROVE  IInv'
  <1> DEFINE t == current_terminal
  <1>1. t \in Terminals /\ TypeOK /\ TerminalOk(t)
    BY DEF IInv, TypeOK
  <1>2. /\ UNCHANGED <<current_terminal, pressed, line, reader, typed, flaws>>
        /\ handler.at = "dec_load"
        /\ handler' = [handler EXCEPT !.at = "dec_store",
                                      !.loaded = keyboard_buffer_size[t]]
    BY DEF BackspaceLoads, hist
  <1>3. /\ keyboard_buffer_size[t] \in 0 .. BufferSize
        /\ flaws[t] = {} \/ Taking(t) => keyboard_buffer_size[t] > 0
    BY <1>1, <1>2, TypesAt DEF TerminalOk, HandlerOk, At
  <1>4. /\ handler'.at = "dec_store" /\ handler'.loaded = keyboard_buffer_size[t]
        /\ handler' \in [at : HandlerPoints, key : Chars, loaded : 0 .. BufferSize]
    BY <1>1, <1>2, <1>3 DEF TypeOK, HandlerPoints
  <1>5. HandlerOk(t)'
    <2>1. UNCHANGED <<keyboard_buffer_size[t], flaws[t]>> /\ Taking(t)' = Taking(t)
      BY <1>2 DEF line, Taking
    <2>2. QED
      BY <1>2, <1>3, <1>4, <2>1 DEF HandlerOk, At, Writing
  <1>6. QED
    BY <1>2, <1>4, <1>5, HandlerMoved

LEMMA EnterBegins ==
    ASSUME IInv, Enter
    PROVE  IInv'
  <1> DEFINE t == current_terminal
             to == IF keyboard_buffer_size[t] >= BufferSize THEN "full?" ELSE "enter?"
  <1>1. t \in Terminals /\ TypeOK
    BY DEF IInv, TypeOK
  <1>2. /\ UNCHANGED <<current_terminal, pressed, line, reader, typed, flaws>>
        /\ handler = Idle
        /\ handler' = [Idle EXCEPT !.at = to, !.key = NL]
    BY DEF Enter, HandlerFree, hist
  <1>3. to \in {"full?", "enter?"} /\ (to = "full?" => keyboard_buffer_size[t] >= 0)
    BY <1>1, TypesAt
  <1> HIDE DEF to
  <1>4. /\ handler'.at = to /\ handler'.key = NL /\ handler.at = "none"
        /\ handler' \in [at : HandlerPoints, key : Chars, loaded : 0 .. BufferSize]
    <2>1. NL \in Chars /\ NUL \in Chars /\ 0 \in 0 .. BufferSize
      BY TerminalAssumption DEF Chars, Keys
    <2>2. QED
      BY <1>2, <1>3, <2>1 DEF Idle, HandlerPoints
  <1>5. HandlerOk(t)'
    <2>1. UNCHANGED keyboard_buffer_size[t]
      BY <1>2 DEF line
    <2>2. QED
      BY <1>2, <1>3, <1>4, <2>1 DEF HandlerOk, At, Writing
  <1>6. QED
    BY <1>2, <1>4, <1>5, HandlerMoved

LEMMA EnterTestsEnable ==
    ASSUME IInv, EnterTests
    PROVE  IInv'
  <1> DEFINE t == current_terminal
             enable == keyboard_buffer_enable[t]
  <1>1. t \in Terminals /\ TypeOK /\ TerminalOk(t)
    BY DEF IInv, TypeOK
  <1>2. /\ UNCHANGED <<current_terminal, pressed, line, reader, typed, flaws>>
        /\ \/ HandlerMoves("full?", IF enable THEN "full_store" ELSE "enter?")
           \/ HandlerMoves("enter?", IF enable THEN "store" ELSE "character?")
           \/ HandlerMoves("character?", IF enable THEN "late_store" ELSE "none")
    BY DEF EnterTests, hist
  <1>3. PICK from \in {"full?", "enter?", "character?"},
             to \in {"full_store", "enter?", "store", "character?", "late_store", "none"} :
          /\ HandlerMoves(from, to)
          /\ to \in {"full_store", "store", "late_store"} => enable
          /\ to = "full_store" => from = "full?"
    BY <1>2, Zenon
  <1>4. /\ handler.at = from /\ handler.key = NL
        /\ from = "full?" => keyboard_buffer_size[t] >= 0
    BY <1>1, <1>3 DEF HandlerMoves, TerminalOk, HandlerOk, At
  <1>5. /\ handler' \in [at : HandlerPoints, key : Chars, loaded : 0 .. BufferSize]
        /\ handler'.at = to
        /\ to # "none" => handler'.key = NL
    <2>1. CASE to = "none"
      BY <1>3, <2>1, TerminalAssumption DEF HandlerMoves, Idle, HandlerPoints, Chars
    <2>2. CASE to # "none"
      BY <1>1, <1>3, <1>4, <2>2 DEF HandlerMoves, TypeOK, HandlerPoints
    <2>3. QED
      BY <2>1, <2>2
  <1>6. HandlerOk(t)'
    <2>1. UNCHANGED <<keyboard_buffer_size[t], keyboard_buffer_enable[t]>>
      BY <1>2 DEF line
    <2>2. NL \in Keys
      BY DEF Keys
    <2>3. QED
      BY <1>2, <1>3, <1>4, <1>5, <2>1, <2>2 DEF HandlerOk, At, Writing
  <1>7. QED
    BY <1>2, <1>3, <1>4, <1>5, <1>6, HandlerMoved

LEMMA CharacterBegins ==
    ASSUME IInv, NEW k \in Letters, Character(k)
    PROVE  IInv'
  <1> DEFINE t == current_terminal
  <1>1. t \in Terminals /\ TypeOK /\ CharOf(k) \in Keys
    BY CharOfLetter DEF IInv, TypeOK
  <1>2. /\ UNCHANGED <<current_terminal, pressed, line, reader, typed, flaws>>
        /\ handler = Idle /\ keyboard_buffer_enable[t]
        /\ handler' = [Idle EXCEPT !.at = "store", !.key = CharOf(k)]
    BY DEF Character, HandlerFree, hist
  <1>3. /\ handler'.at = "store" /\ handler'.key = CharOf(k) /\ handler.at = "none"
        /\ handler' \in [at : HandlerPoints, key : Chars, loaded : 0 .. BufferSize]
    <2>1. CharOf(k) \in Chars /\ NUL \in Chars /\ 0 \in 0 .. BufferSize
      BY <1>1, TerminalAssumption DEF Chars
    <2>2. QED
      BY <1>2, <2>1 DEF Idle, HandlerPoints
  <1>4. HandlerOk(t)'
    BY <1>1, <1>2, <1>3 DEF HandlerOk, At, Writing, line
  <1>5. QED
    BY <1>2, <1>3, <1>4, HandlerMoved

\* A step of the handler in the line of the terminal on display.
LEMMA LineChanged ==
    ASSUME IInv, TypeOK', UNCHANGED current_terminal, TerminalOk(current_terminal)',
           \A u \in Terminals \ {current_terminal} : Same(u)
    PROVE  IInv'
  <1> DEFINE t == current_terminal
  <1>1. t \in Terminals /\ t' = t /\ TerminalOk(t)'
    BY DEF IInv, TypeOK
  <1> HIDE DEF t
  <1>2. current_terminal = t /\ current_terminal' = t
    BY <1>1 DEF t
  <1>3. QED
    BY <1>1, <1>2, OneTouched

LEMMA BackspaceUndoes ==
    ASSUME IInv, BackspaceOverflow
    PROVE  IInv'
  <1> DEFINE t == current_terminal
  <1>1. t \in Terminals /\ TypeOK /\ TerminalOk(t)
    BY DEF IInv, TypeOK
  <1>2. typed[t] \in Seq(Chars) /\ DropLast(typed[t]) \in Seq(Chars)
    BY <1>1, TypesAt, DropLastLine
  <1>3. TypeOK'
    BY <1>1, <1>2 DEF TypeOK, BackspaceOverflow, Flaws
  <1>4. TerminalOk(t)'
    <2>1. /\ typed'[t] = DropLast(typed[t])
          /\ flaws'[t] = flaws[t] \cup {"overflow"}
          /\ UNCHANGED <<key_buf[t], keyboard_buffer_size[t], reader[t],
                         keyboard_buffer_enable[t], current_terminal, handler>>
          /\ handler.at = "none"
      BY <1>1 DEF TypeOK, BackspaceOverflow, HandlerFree, Idle
    <2>2. flaws'[t] # {} /\ ("late" \notin flaws'[t] => "late" \notin flaws[t])
      BY <2>1
    <2>3. /\ typed[t] = << >> => typed'[t] = << >>
          /\ NewlineLast(typed[t]) => NoNewline(typed'[t]) /\ NewlineLast(typed'[t])
      BY <1>2, <2>1, DropLastLine, NewlineDropLast
    <2>4. LineOk(t)'
      BY <1>1, <2>1, <2>2, <2>3 DEF TerminalOk, LineOk
    <2>5. HandlerOk(t)'
      BY <2>1 DEF HandlerOk, At, Writing
    <2>6. ReaderOk(t)'
      BY <1>1, <2>1, <2>2 DEF TerminalOk, ReaderOk, Taking
    <2>7. QED
      BY <2>4, <2>5, <2>6 DEF TerminalOk
  <1>5. \A u \in Terminals \ {t} : Same(u)
    BY <1>1 DEF TypeOK, BackspaceOverflow, Same
  <1>6. UNCHANGED current_terminal /\ t' = t
    BY DEF BackspaceOverflow
  <1>7. QED
    BY <1>3, <1>4, <1>5, <1>6, LineChanged

LEMMA BackspaceStoresSize ==
    ASSUME IInv, BackspaceStores
    PROVE  IInv'
  <1> DEFINE t == current_terminal
  <1>1. t \in Terminals /\ TypeOK /\ TerminalOk(t)
    BY DEF IInv, TypeOK
  <1>2. typed[t] \in Seq(Chars) /\ DropLast(typed[t]) \in Seq(Chars)
    BY <1>1, TypesAt, DropLastLine
  <1>3. TypeOK'
    <2>1. handler.loaded - 1 \in -1 .. BufferSize
      BY <1>1, TypesAt
    <2>2. handler' \in [at : HandlerPoints, key : Chars, loaded : 0 .. BufferSize]
      BY TerminalAssumption
         DEF BackspaceStores, HandlerMoves, Idle, HandlerPoints, Chars
    <2>3. QED
      BY <1>1, <1>2, <2>1, <2>2 DEF TypeOK, BackspaceStores
  <1>4. TerminalOk(t)'
    <2>1. /\ typed'[t] = DropLast(typed[t])
          /\ keyboard_buffer_size'[t] = handler.loaded - 1
          /\ UNCHANGED <<key_buf[t], flaws[t], reader[t],
                         keyboard_buffer_enable[t], current_terminal>>
          /\ handler.at = "dec_store" /\ handler'.at = "none"
      BY <1>1 DEF TypeOK, BackspaceStores, HandlerMoves, Idle
    <2>2. /\ flaws[t] = {} => /\ handler.loaded = keyboard_buffer_size[t]
                              /\ keyboard_buffer_size[t] > 0
          /\ Taking(t) => handler.loaded > 0
      BY <1>1, <2>1 DEF TerminalOk, HandlerOk, At
    <2>3. /\ typed[t] = << >> => typed'[t] = << >>
          /\ NewlineLast(typed[t]) => NoNewline(typed'[t]) /\ NewlineLast(typed'[t])
      BY <1>2, <2>1, DropLastLine, NewlineDropLast
    <2>4. flaws[t] = {} => Stored(key_buf'[t], keyboard_buffer_size'[t], typed'[t])
      <3>1. SUFFICES ASSUME flaws[t] = {}
                     PROVE  Stored(key_buf'[t], keyboard_buffer_size'[t], typed'[t])
        OBVIOUS
      <3>2. Stored(key_buf[t], keyboard_buffer_size[t], typed[t])
        BY <1>1, <3>1 DEF TerminalOk, LineOk
      <3>3. keyboard_buffer_size[t] \in 1 .. BufferSize /\ key_buf[t] \in Buffers
        BY <1>1, <2>2, <3>1, TypesAt
      <3>4. Stored(key_buf[t], keyboard_buffer_size[t] - 1, DropLast(typed[t]))
        BY <1>2, <3>2, <3>3, StoredDropLast
      <3>5. QED
        BY <2>1, <2>2, <3>1, <3>4
    <2>5. LineOk(t)'
      BY <1>1, <2>1, <2>3, <2>4 DEF TerminalOk, LineOk, At
    <2>6. HandlerOk(t)'
      BY <2>1 DEF HandlerOk, At, Writing
    <2>7. ReaderOk(t)'
      <3>1. flaws'[t] = {} => ~Ended(t)'
        <4>1. SUFFICES ASSUME flaws[t] = {} PROVE ~Ended(t)'
          BY <2>1
        <4>2. NoNewline(typed'[t]) /\ typed'[t] \in Seq(Chars)
          BY <1>1, <1>2, <2>1, <2>3, <4>1 DEF TerminalOk, LineOk
        <4>3. QED
          BY <2>1, <4>2, NotEnded DEF Ended
      <3>2. Taking(t)' => keyboard_buffer_size'[t] >= 0
        BY <1>1, <2>1, <2>2, TypesAt DEF Taking
      <3>3. QED
        BY <1>1, <2>1, <3>1, <3>2 DEF TerminalOk, ReaderOk
    <2>8. QED
      BY <2>5, <2>6, <2>7 DEF TerminalOk
  <1>5. \A u \in Terminals \ {t} : Same(u)
    BY <1>1 DEF TypeOK, BackspaceStores, Same
  <1>6. UNCHANGED current_terminal /\ t' = t
    BY DEF BackspaceStores
  <1>7. QED
    BY <1>3, <1>4, <1>5, <1>6, LineChanged

LEMMA LineCleared ==
    ASSUME IInv, ClearLine
    PROVE  IInv'
  <1> DEFINE t == current_terminal
  <1>1. t \in Terminals /\ TypeOK /\ TerminalOk(t)
    BY DEF IInv, TypeOK
  <1>2. TypeOK'
    <2>1. << >> \in Seq(Chars) /\ 0 \in -1 .. BufferSize
      BY EmptyLine, TerminalAssumption
    <2>2. QED
      BY <1>1, <2>1 DEF TypeOK, ClearLine
  <1>3. TerminalOk(t)'
    <2>1. /\ typed'[t] = << >> /\ flaws'[t] = {} /\ keyboard_buffer_size'[t] = 0
          /\ UNCHANGED <<key_buf[t], reader[t], keyboard_buffer_enable[t],
                         current_terminal, handler>>
          /\ handler.at = "none"
      BY <1>1 DEF TypeOK, ClearLine, HandlerFree, Idle
    <2>2. LineOk(t)'
      BY <1>1, <2>1, EmptyLine DEF TerminalOk, LineOk
    <2>3. HandlerOk(t)'
      BY <2>1 DEF HandlerOk, At, Writing
    <2>4. ReaderOk(t)'
      BY <1>1, <2>1 DEF TerminalOk, ReaderOk, Taking, Ended
    <2>5. QED
      BY <2>2, <2>3, <2>4 DEF TerminalOk
  <1>4. \A u \in Terminals \ {t} : Same(u)
    BY <1>1 DEF TypeOK, ClearLine, Same
  <1>5. UNCHANGED current_terminal /\ t' = t
    BY DEF ClearLine
  <1>6. QED
    BY <1>2, <1>3, <1>4, <1>5, LineChanged

LEMMA EnterFullStoresNewline ==
    ASSUME IInv, EnterFullStores
    PROVE  IInv'
  <1> DEFINE t == current_terminal
  <1>1. t \in Terminals /\ TypeOK /\ TerminalOk(t) /\ NL \in Chars
    BY DEF IInv, TypeOK, Chars, Keys
  <1>2. typed[t] \in Seq(Chars) /\ Append(typed[t], NL) \in Seq(Chars)
    BY <1>1, TypesAt, AppendLine
  <1>3. TypeOK'
    <2>1. handler' \in [at : HandlerPoints, key : Chars, loaded : 0 .. BufferSize]
      BY <1>1 DEF TypeOK, EnterFullStores, HandlerMoves, HandlerPoints
    <2>2. key_buf' \in [Terminals -> [1 .. BufferSize -> Chars]]
      BY <1>1 DEF TypeOK, EnterFullStores
    <2>3. QED
      BY <1>1, <1>2, <2>1, <2>2 DEF TypeOK, EnterFullStores, Flaws
  <1>4. TerminalOk(t)'
    <2>1. /\ typed'[t] = Append(typed[t], NL)
          /\ flaws'[t] = flaws[t] \cup {"overflow"}
          /\ UNCHANGED <<keyboard_buffer_size[t], reader[t],
                         keyboard_buffer_enable[t], current_terminal>>
          /\ handler.at = "full_store" /\ handler'.at = "full_off"
      BY <1>1 DEF TypeOK, EnterFullStores, HandlerMoves
    <2>2. flaws'[t] # {} /\ ("late" \notin flaws'[t] => "late" \notin flaws[t])
      BY <2>1
    <2>3. keyboard_buffer_enable[t] /\ keyboard_buffer_size[t] >= 0
      BY <1>1, <2>1 DEF TerminalOk, HandlerOk, At, Writing
    <2>4. NoNewline(typed[t]) => NewlineLast(typed'[t])
      BY <1>1, <1>2, <2>1, NewlineAppend
    <2>5. LineOk(t)'
      BY <1>1, <2>1, <2>2, <2>3, <2>4 DEF TerminalOk, LineOk, At
    <2>6. HandlerOk(t)'
      BY <2>1, <2>3 DEF HandlerOk, At
    <2>7. ReaderOk(t)'
      BY <1>1, <2>1, <2>2 DEF TerminalOk, ReaderOk, Taking
    <2>8. QED
      BY <2>5, <2>6, <2>7 DEF TerminalOk
  <1>5. \A u \in Terminals \ {t} : Same(u)
    BY <1>1 DEF TypeOK, EnterFullStores, Same
  <1>6. UNCHANGED current_terminal /\ t' = t
    BY DEF EnterFullStores
  <1>7. QED
    BY <1>3, <1>4, <1>5, <1>6, LineChanged

LEMMA EnterFullCountsOverflow ==
    ASSUME IInv, EnterFullCounts
    PROVE  IInv'
  <1>1. TypeOK /\ current_terminal \in Terminals
    BY DEF IInv, TypeOK
  <1>2. TypeOK'
    <2>1. handler' \in [at : HandlerPoints, key : Chars, loaded : 0 .. BufferSize]
      BY TerminalAssumption
         DEF EnterFullCounts, HandlerMoves, Idle, HandlerPoints, Chars
    <2>2. overflow' \in [Terminals -> Nat]
      BY <1>1 DEF TypeOK, EnterFullCounts
    <2>3. QED
      BY <1>1, <2>1, <2>2 DEF TypeOK, EnterFullCounts, hist
  <1>3. handler.at = "full_count" /\ handler' = Idle
    BY DEF EnterFullCounts, HandlerMoves
  <1>4. \A u \in Terminals : Same(u)
    BY DEF EnterFullCounts, Same, hist
  <1>5. QED
    BY <1>2, <1>3, <1>4, NoneTouched

LEMMA KeyStored ==
    ASSUME IInv, KeyStores
    PROVE  IInv'
  <1> DEFINE t == current_terminal
             size == keyboard_buffer_size[t]
             key == handler.key
             buf == IF size \in 0 .. BufferSize - 1
                    THEN [key_buf[t] EXCEPT ![size + 1] = key] ELSE key_buf[t]
  <1>1. t \in Terminals /\ TypeOK /\ TerminalOk(t)
    BY DEF IInv, TypeOK
  <1>2. /\ handler.at \in {"store", "late_store"}
        /\ handler' = [handler EXCEPT !.at = IF handler.at = "store" THEN "count"
                                             ELSE "late_count"]
        /\ UNCHANGED <<current_terminal, pressed, keyboard_buffer_enable, overflow,
                       reader, typed>>
    BY DEF KeyStores, HandlerMoves
  <1>3. key \in Keys /\ key \in Chars /\ keyboard_buffer_enable[t] = TRUE
    BY <1>1, <1>2, TypesAt DEF TerminalOk, HandlerOk, At, Writing
  <1>4. /\ size \in -1 .. BufferSize /\ size \in Int /\ key_buf[t] \in Buffers
        /\ BufferSize \in Nat /\ BufferSize >= 2
        /\ Code[key] \in 0 .. BufferSize - 2
    BY <1>1, <1>3, TypesAt, TerminalAssumption
  <1>5. buf \in Buffers
    <2>1. CASE size \in 0 .. BufferSize - 1
      <3>1. size + 1 \in 1 .. BufferSize
        BY <1>4, <2>1
      <3>2. QED
        BY <1>3, <1>4, <2>1, <3>1 DEF Buffers
    <2>2. CASE size \notin 0 .. BufferSize - 1
      BY <1>4, <2>2
    <2>3. QED
      BY <2>1, <2>2
  <1>6. /\ key_buf' = [key_buf EXCEPT ![t] = buf]
        /\ keyboard_buffer_size' = [keyboard_buffer_size EXCEPT ![t] =
               IF size = BufferSize THEN Code[key] ELSE size]
        /\ flaws' = [flaws EXCEPT ![t] = @ \cup
               ((IF size = BufferSize THEN {"overflow"} ELSE {})
                \cup (IF handler.at = "late_store" THEN {"late"} ELSE {}))]
    <2>1. key_buf' = [key_buf EXCEPT ![t] = buf]
      <3>1. key_buf = [key_buf EXCEPT ![t] = key_buf[t]]
        BY <1>1 DEF TypeOK
      <3>2. QED
        BY <1>1, <3>1 DEF TypeOK, KeyStores
    <2>2. keyboard_buffer_size' = [keyboard_buffer_size EXCEPT ![t] =
               IF size = BufferSize THEN Code[key] ELSE size]
      BY <1>1 DEF TypeOK, KeyStores
    <2>3. QED
      BY <1>1, <2>1, <2>2 DEF TypeOK, KeyStores
  <1>7. TypeOK'
    <2>1. handler' \in [at : HandlerPoints, key : Chars, loaded : 0 .. BufferSize]
      BY <1>1, <1>2 DEF TypeOK, HandlerPoints
    <2>2. key_buf' \in [Terminals -> [1 .. BufferSize -> Chars]]
      BY <1>1, <1>5, <1>6 DEF TypeOK, Buffers
    <2>3. keyboard_buffer_size' \in [Terminals -> -1 .. BufferSize]
      <3>1. (IF size = BufferSize THEN Code[key] ELSE size) \in -1 .. BufferSize
        BY <1>4
      <3>2. QED
        BY <1>1, <1>6, <3>1 DEF TypeOK
    <2>4. flaws' \in [Terminals -> SUBSET Flaws]
      <3>1. (IF size = BufferSize THEN {"overflow"} ELSE {}) \cup
               (IF handler.at = "late_store" THEN {"late"} ELSE {}) \in SUBSET Flaws
        BY DEF Flaws
      <3>2. flaws[t] \in SUBSET Flaws
        BY <1>1, TypesAt
      <3>3. QED
        BY <1>1, <1>6, <3>1, <3>2 DEF TypeOK
    <2>5. QED
      BY <1>1, <1>2, <2>1, <2>2, <2>3, <2>4 DEF TypeOK
  <1>8. TerminalOk(t)'
    <2>1. /\ key_buf'[t] = buf
          /\ keyboard_buffer_size'[t] = IF size = BufferSize THEN Code[key] ELSE size
          /\ flaws'[t] = flaws[t] \cup
               ((IF size = BufferSize THEN {"overflow"} ELSE {})
                \cup (IF handler.at = "late_store" THEN {"late"} ELSE {}))
          /\ handler'.key = key
          /\ handler'.at = IF handler.at = "store" THEN "count" ELSE "late_count"
          /\ UNCHANGED <<current_terminal, keyboard_buffer_enable[t], reader[t], typed[t]>>
      BY <1>1, <1>2, <1>6 DEF TypeOK
    <2>2. flaws'[t] = {} => flaws[t] = {} /\ size # BufferSize /\ handler.at = "store"
      <3>1. flaws[t] \subseteq flaws'[t]
        BY <2>1
      <3>2. size = BufferSize => "overflow" \in flaws'[t]
        BY <2>1
      <3>3. handler.at = "late_store" => "late" \in flaws'[t]
        BY <2>1
      <3>4. QED
        BY <1>2, <3>1, <3>2, <3>3
    <2>3. /\ "late" \notin flaws'[t] => "late" \notin flaws[t]
          /\ handler'.at = "late_count" => "late" \in flaws'[t]
      BY <1>2, <2>1
    <2>4. flaws'[t] = {} =>
              /\ Stored(key_buf'[t], keyboard_buffer_size'[t], typed'[t])
              /\ keyboard_buffer_size'[t] >= 0
              /\ key_buf'[t][keyboard_buffer_size'[t] + 1] = key
      <3>1. SUFFICES ASSUME flaws'[t] = {}
                     PROVE  /\ Stored(key_buf'[t], keyboard_buffer_size'[t], typed'[t])
                            /\ keyboard_buffer_size'[t] >= 0
                            /\ key_buf'[t][keyboard_buffer_size'[t] + 1] = key
        OBVIOUS
      <3>2. Stored(key_buf[t], size, typed[t])
        BY <1>1, <2>2, <3>1 DEF TerminalOk, LineOk
      <3>3. size \in 0 .. BufferSize - 1
        <4>1. Len(typed[t]) = size /\ Len(typed[t]) \in Nat
          BY <1>1, <3>2, TypesAt, LenProperties DEF Stored
        <4> HIDE DEF size
        <4>2. QED
          BY <1>4, <2>2, <3>1, <4>1
      <3>4. /\ keyboard_buffer_size'[t] = size
            /\ key_buf'[t] = [key_buf[t] EXCEPT ![size + 1] = key]
        BY <2>1, <2>2, <3>1, <3>3
      <3>5. Stored([key_buf[t] EXCEPT ![size + 1] = key], size, typed[t])
        BY <1>3, <1>4, <3>2, <3>3, StoredStays
      <3>6. [key_buf[t] EXCEPT ![size + 1] = key][size + 1] = key
        <4>1. size + 1 \in 1 .. BufferSize
          BY <1>4, <3>3
        <4>2. QED
          BY <1>4, <4>1 DEF Buffers
      <3> HIDE DEF size, key
      <3>7. QED
        BY <2>1, <3>3, <3>4, <3>5, <3>6
    <2>5. keyboard_buffer_size'[t] < BufferSize
      BY <1>4, <2>1
    <2> HIDE DEF size, key, buf
    <2>6. LineOk(t)'
      BY <1>1, <1>2, <1>3, <2>1, <2>3, <2>4 DEF TerminalOk, LineOk, At
    <2>7. HandlerOk(t)'
      BY <1>2, <1>3, <2>1, <2>3, <2>4, <2>5 DEF HandlerOk, At
    <2>8. ReaderOk(t)'
      BY <1>1, <1>3, <2>1 DEF TerminalOk, LineOk, ReaderOk, Taking
    <2>9. QED
      BY <2>6, <2>7, <2>8 DEF TerminalOk
  <1>9. \A u \in Terminals \ {t} : Same(u)
    BY <1>1, <1>2, <1>6 DEF TypeOK, Same
  <1>10. UNCHANGED current_terminal /\ t' = t
    BY <1>2
  <1>11. QED
    BY <1>7, <1>8, <1>9, <1>10, LineChanged

LEMMA KeyCounted ==
    ASSUME IInv, KeyCounts
    PROVE  IInv'
  <1> DEFINE t == current_terminal
             size == keyboard_buffer_size[t]
             key == handler.key
             to == IF handler.at = "count" /\ key = NL THEN "off" ELSE "none"
             s == IF Len(typed[t]) < BufferSize THEN Append(typed[t], key) ELSE typed[t]
  <1>1. t \in Terminals /\ TypeOK /\ TerminalOk(t)
    BY DEF IInv, TypeOK
  <1>2. /\ handler.at \in {"count", "late_count"}
        /\ handler' = IF to = "none" THEN Idle ELSE [handler EXCEPT !.at = "off"]
        /\ UNCHANGED <<current_terminal, pressed, key_buf, keyboard_buffer_enable,
                       overflow, reader, flaws>>
    BY DEF KeyCounts, HandlerMoves
  <1>3. /\ key \in Chars /\ keyboard_buffer_enable[t] = TRUE
        /\ size < BufferSize
        /\ handler.at = "count" /\ flaws[t] = {} => size >= 0 /\ key_buf[t][size + 1] = key
        /\ handler.at = "late_count" => "late" \in flaws[t]
    BY <1>1, <1>2, TypesAt DEF TerminalOk, HandlerOk, At, Writing
  <1>4. /\ size \in -1 .. BufferSize /\ size \in Int /\ key_buf[t] \in Buffers
        /\ BufferSize \in Nat /\ typed[t] \in Seq(Chars)
    BY <1>1, TypesAt
  <1>5. Append(typed[t], key) \in Seq(Chars) /\ s \in Seq(Chars)
    BY <1>3, <1>4, AppendLine
  <1>6. /\ keyboard_buffer_size' = [keyboard_buffer_size EXCEPT ![t] = size + 1]
        /\ typed' = [typed EXCEPT ![t] = s]
    BY <1>1 DEF TypeOK, KeyCounts
  <1>7. TypeOK'
    <2>1. handler' \in [at : HandlerPoints, key : Chars, loaded : 0 .. BufferSize]
      <3>1. Idle \in [at : HandlerPoints, key : Chars, loaded : 0 .. BufferSize]
        BY TerminalAssumption DEF Idle, HandlerPoints, Chars
      <3>2. QED
        BY <1>1, <1>2, <3>1 DEF TypeOK, HandlerPoints
    <2>2. size + 1 \in -1 .. BufferSize
      BY <1>3, <1>4
    <2> HIDE DEF s, size
    <2>3. QED
      BY <1>1, <1>2, <1>5, <1>6, <2>1, <2>2 DEF TypeOK
  <1>8. TerminalOk(t)'
    <2>1. /\ keyboard_buffer_size'[t] = size + 1
          /\ typed'[t] = s
          /\ handler'.at = to /\ to \in {"off", "none"}
          /\ UNCHANGED <<current_terminal, key_buf[t], keyboard_buffer_enable[t],
                         reader[t], flaws[t]>>
      BY <1>1, <1>2, <1>6 DEF TypeOK, Idle
    <2>2. flaws[t] = {} =>
              Stored(key_buf'[t], keyboard_buffer_size'[t], typed'[t])
      <3>1. SUFFICES ASSUME flaws[t] = {}
                     PROVE  Stored(key_buf[t], size + 1, s)
        BY <2>1
      <3>2. handler.at = "count" /\ size >= 0 /\ key_buf[t][size + 1] = key
        BY <1>2, <1>3, <3>1
      <3>3. Stored(key_buf[t], size, typed[t])
        BY <1>1, <3>1 DEF TerminalOk, LineOk
      <3>4. s = Append(typed[t], key)
        BY <1>3, <3>3 DEF Stored
      <3>5. size \in 0 .. BufferSize - 1
        BY <1>3, <1>4, <3>2
      <3> HIDE DEF size, key, s
      <3>6. QED
        BY <1>3, <1>4, <3>2, <3>3, <3>4, <3>5, StoredExtends
    <2>3. "late" \notin flaws[t] =>
              /\ NewlineLast(typed'[t])
              /\ to # "off" => NoNewline(typed'[t])
      <3>1. SUFFICES ASSUME "late" \notin flaws[t]
                     PROVE  NewlineLast(s) /\ (to # "off" => NoNewline(s))
        BY <2>1
      <3>2. handler.at = "count"
        BY <1>2, <1>3, <3>1
      <3>3. NoNewline(typed[t])
        BY <1>1, <1>3, <3>1, <3>2 DEF TerminalOk, LineOk, At
      <3>4. NewlineLast(typed[t])
        BY <3>3 DEF NoNewline, NewlineLast
      <3>5. to # "off" => key # NL
        BY <3>2
      <3>6. /\ NewlineLast(Append(typed[t], key))
            /\ key # NL => NoNewline(Append(typed[t], key))
        BY <1>3, <1>4, <3>3, NewlineAppend
      <3>7. s \in {typed[t], Append(typed[t], key)}
        OBVIOUS
      <3> HIDE DEF s, to, key
      <3>8. QED
        BY <3>3, <3>4, <3>5, <3>6, <3>7
    <2>4. size + 1 >= 0
      BY <1>4
    <2> HIDE DEF s, to, key, size
    <2>5. LineOk(t)'
      BY <1>1, <1>3, <2>1, <2>2, <2>3 DEF TerminalOk, LineOk, At
    <2>6. HandlerOk(t)'
      BY <1>3, <2>1, <2>4 DEF HandlerOk, At, Writing
    <2>7. ReaderOk(t)'
      BY <1>1, <1>3, <2>1 DEF TerminalOk, LineOk, ReaderOk, Taking
    <2>8. QED
      BY <2>5, <2>6, <2>7 DEF TerminalOk
  <1>9. \A u \in Terminals \ {t} : Same(u)
    BY <1>1, <1>2, <1>6 DEF TypeOK, Same
  <1>10. UNCHANGED current_terminal /\ t' = t
    BY <1>2
  <1>11. QED
    BY <1>7, <1>8, <1>9, <1>10, LineChanged

LEMMA EnterEnded ==
    ASSUME IInv, EnterEnds
    PROVE  IInv'
  <1> DEFINE t == current_terminal
  <1>1. t \in Terminals /\ TypeOK /\ TerminalOk(t)
    BY DEF IInv, TypeOK
  <1>2. TypeOK'
    <2>1. handler' \in [at : HandlerPoints, key : Chars, loaded : 0 .. BufferSize]
      <3>1. Idle \in [at : HandlerPoints, key : Chars, loaded : 0 .. BufferSize]
        BY TerminalAssumption DEF Idle, HandlerPoints, Chars
      <3>2. QED
        BY <1>1, <3>1 DEF TypeOK, HandlerPoints, EnterEnds, HandlerMoves
    <2>2. QED
      BY <1>1, <2>1 DEF TypeOK, EnterEnds, hist
  <1>3. TerminalOk(t)'
    <2>1. /\ handler.at \in {"off", "full_off"}
          /\ handler'.at \in {"none", "full_count"}
          /\ keyboard_buffer_enable'[t] = FALSE
          /\ UNCHANGED <<current_terminal, key_buf[t], keyboard_buffer_size[t],
                         reader[t], typed[t], flaws[t]>>
      BY <1>1 DEF TypeOK, EnterEnds, HandlerMoves, Idle, hist
    <2>2. keyboard_buffer_enable[t] /\ keyboard_buffer_size[t] >= 0
      BY <1>1, <2>1 DEF TerminalOk, HandlerOk, At, Writing
    <2>3. reader[t].at = "poll"
      BY <1>1, <2>2 DEF TerminalOk, LineOk
    <2>4. LineOk(t)'
      BY <1>1, <2>1, <2>3 DEF TerminalOk, LineOk
    <2>5. HandlerOk(t)'
      BY <2>1 DEF HandlerOk, At, Writing
    <2>6. ReaderOk(t)'
      BY <1>1, <2>1, <2>2, <2>3 DEF TerminalOk, ReaderOk
    <2>7. QED
      BY <2>4, <2>5, <2>6 DEF TerminalOk
  <1>4. \A u \in Terminals \ {t} : Same(u)
    BY <1>1 DEF TypeOK, EnterEnds, Same, hist
  <1>5. UNCHANGED current_terminal /\ t' = t
    BY DEF EnterEnds
  <1>6. QED
    BY <1>2, <1>3, <1>4, <1>5, LineChanged

\* Every step keeps the invariant.
LEMMA NextKeepsIInv == IInv /\ [Next]_vars => IInv'
  <1> SUFFICES ASSUME IInv, [Next]_vars PROVE IInv'
    OBVIOUS
  <1>1. CASE UNCHANGED vars
    <2>1. TypeOK'
      BY <1>1 DEF IInv, TypeOK, vars, line, hist
    <2>2. \A u \in Terminals : Same(u)
      BY <1>1 DEF Same, vars, line, hist
    <2>3. QED
      BY <1>1, <2>1, <2>2, NoneTouched DEF vars
  <1>2. CASE \E t \in Terminals : \E n \in ReadSizes : terminal_read(t, n)
    BY <1>2, ReadBegins
  <1>3. CASE \E t \in Terminals : ReadStep(t)
    BY <1>3, ReadPolls, ReadTests, ReadCuts, ReadCopies, ReadReturns DEF ReadStep
  <1>4. CASE \/ \E m \in Modifiers : PressModifier(m) \/ ReleaseModifier(m)
             \/ \E t \in Terminals : SwitchTerminal(t)
    BY <1>4, KeysKeepIInv
  <1>5. CASE BackspaceOverflow \/ Backspace \/ ClearLine \/ Enter
    BY <1>5, BackspaceUndoes, BackspaceBegins, LineCleared, EnterBegins
  <1>6. CASE \E k \in Letters : Character(k)
    BY <1>6, CharacterBegins
  <1>7. CASE HandlerStep
    BY <1>7, BackspaceLoadsSize, BackspaceStoresSize, EnterTestsEnable,
       EnterFullStoresNewline, EnterFullCountsOverflow, KeyStored, KeyCounted,
       EnterEnded DEF HandlerStep
  <1>8. QED
    BY <1>1, <1>2, <1>3, <1>4, <1>5, <1>6, <1>7 DEF Next

----------------------------------------------------------------------------
\* The steps of the action properties

\* A read copies what its user has ended.
LEMMA CopyStep ==
    ASSUME IInv, NEW t \in Terminals, read_copies(t), flaws[t] = {}, Ended(t)
    PROVE  result' = IF Len(typed[t]) <= reader[t].nbytes THEN typed[t]
                     ELSE Append(SubSeq(typed[t], 1, reader[t].nbytes - 1), NL)
  <1> DEFINE buf == key_buf[t]
             size == keyboard_buffer_size[t]
             n == reader[t].nbytes
             s == typed[t]
  <1>1. TerminalOk(t) /\ TypeOK
    BY DEF IInv
  <1>2. reader[t].at = "copy" /\ result' = CopyLine(buf, reader[t].n)
    BY DEF read_copies, ReaderMoves
  <1>3. keyboard_buffer_enable[t] = FALSE /\ size \in 0 .. BufferSize
    BY <1>2, ReaderPastPoll
  <1>4. buf \in Buffers /\ s \in Seq(Chars) /\ BufferSize \in Nat
    BY <1>1, TypesAt
  <1>5. n \in Nat \ {0} /\ reader[t].n = Smaller(n, size)
    BY <1>1, <1>2 DEF TerminalOk, ReaderOk
  <1>6. Stored(buf, size, s) /\ NewlineLast(s)
    BY <1>1 DEF TerminalOk, LineOk
  <1>7. s # << >> /\ s[Len(s)] = NL
    BY DEF Ended
  <1> HIDE DEF buf, size, n, s
  <1>8. size \in 1 .. BufferSize
    <2>1. Len(s) \in Nat \ {0}
      BY <1>4, <1>7, EmptySeq
    <2>2. QED
      BY <1>3, <1>4, <1>6, <2>1 DEF Stored
  <1>9. CopyLine(buf, Smaller(n, size)) =
            IF Len(s) <= n THEN s ELSE Append(SubSeq(s, 1, n - 1), NL)
    BY <1>4, <1>5, <1>6, <1>7, <1>8, CopyLineCuts
  <1>10. QED
    BY <1>2, <1>5, <1>9 DEF buf, size, n, s

\* No step writes to a line that is being taken.
LEMMA StillStep ==
    ASSUME IInv, [Next]_vars, NEW t \in Terminals,
           reader[t].at \in {"test", "cut", "copy"}
    PROVE  key_buf'[t] = key_buf[t]
  <1>1. TerminalOk(t) /\ TypeOK /\ keyboard_buffer_enable[t] = FALSE
    BY ReaderPastPoll DEF IInv
  <1>2. ~At(t, Writing)
    BY <1>1 DEF TerminalOk, HandlerOk
  <1>3. CASE EnterFullStores
    BY <1>1, <1>2, <1>3 DEF EnterFullStores, HandlerMoves, At, Writing, TypeOK
  <1>4. CASE KeyStores
    BY <1>1, <1>2, <1>4 DEF KeyStores, HandlerMoves, At, Writing, TypeOK
  <1>5. CASE ~EnterFullStores /\ ~KeyStores
    <2>1. UNCHANGED key_buf
      BY <1>5
         DEF Next, vars, line, HandlerStep, ReadStep, terminal_read, read_polls,
             read_tests, read_cuts, read_copies, read_returns, PressModifier,
             ReleaseModifier, SwitchTerminal, BackspaceOverflow, Backspace,
             BackspaceLoads, BackspaceStores, ClearLine, Enter, EnterTests,
             EnterFullCounts, Character, KeyCounts, EnterEnds
    <2>2. QED
      BY <2>1
  <1>6. QED
    BY <1>3, <1>4, <1>5

----------------------------------------------------------------------------
\* Types: whatever is typed on whichever terminal, keyboard_buffer_size never
\* leaves the buffer by more than one, although keyboard_handler stores past
\* its end and a backspace can subtract from a size that was reset.
THEOREM TypeCorrect == Spec => []TypeOK
  <1>1. IInv => TypeOK
    BY DEF IInv
  <1>2. QED
    BY <1>1, InitIInv, NextKeepsIInv, PTL DEF Spec

\* The buffer of each terminal holds what its own user has typed, after any
\* characters, backspaces, ctrl-L, reads and switches, with ticks between the
\* statements of keyboard_handler and terminal_read; unless it overflowed or a
\* read ended inside a backspace.
THEOREM BufferHoldsLine == Spec => []BufferIsLine
  <1>1. IInv => BufferIsLine
    <2> SUFFICES ASSUME IInv, NEW t \in Terminals, flaws[t] = {}
                 PROVE  SubSeq(key_buf[t], 1, keyboard_buffer_size[t]) = typed[t]
      BY DEF BufferIsLine
    <2>1. Stored(key_buf[t], keyboard_buffer_size[t], typed[t])
      BY DEF IInv, TerminalOk, LineOk
    <2>2. /\ key_buf[t] \in Buffers /\ typed[t] \in Seq(Chars)
          /\ keyboard_buffer_size[t] \in -1 .. BufferSize /\ BufferSize \in Nat
      BY TypesAt DEF IInv
    <2>3. keyboard_buffer_size[t] \in 0 .. BufferSize
      <3>1. Len(typed[t]) \in Nat
        BY <2>2, LenProperties
      <3>2. QED
        BY <2>1, <2>2, <3>1 DEF Stored
    <2>4. QED
      BY <2>1, <2>2, <2>3, StoredIsSubSeq
  <1>2. QED
    BY <1>1, InitIInv, NextKeepsIInv, PTL DEF Spec

\* terminal_read copies the line that was ended on its terminal, with its
\* newline, cut to the bytes asked for, whatever keys come between its
\* statements.
THEOREM ReadsReturnLines == Spec => ReadReturnsLine
  <1> DEFINE R == \A t \in Terminals :
           read_copies(t) /\ flaws[t] = {} /\ Ended(t) =>
               result' = IF Len(typed[t]) <= reader[t].nbytes THEN typed[t]
                         ELSE Append(SubSeq(typed[t], 1, reader[t].nbytes - 1), NL)
  <1>1. IInv /\ [Next]_vars => [R]_vars
    BY CopyStep
  <1>2. QED
    BY <1>1, InitIInv, NextKeepsIInv, PTL DEF Spec, ReadReturnsLine

\* The bytes terminal_read copies lie in the buffer, although a backspace may
\* subtract one from a size that the read before has reset.
THEOREM ReadsStayInBuffer == Spec => []ReadStaysInBuffer
  <1>1. IInv => ReadStaysInBuffer
    BY DEF IInv, TerminalOk, ReaderOk, ReadStaysInBuffer
  <1>2. QED
    BY <1>1, InitIInv, NextKeepsIInv, PTL DEF Spec

\* keyboard_handler, wherever it was suspended, leaves a line alone while
\* terminal_read takes it, with interrupts on.
THEOREM LinesStandStill == Spec => LineStandsStill
  <1> DEFINE S == \A t \in Terminals : reader[t].at \in {"test", "cut", "copy"} =>
                      key_buf'[t] = key_buf[t]
  <1>1. IInv /\ [Next]_vars => [S]_vars
    BY StillStep
  <1>2. QED
    BY <1>1, InitIInv, NextKeepsIInv, PTL DEF Spec, LineStandsStill
=============================================================================
