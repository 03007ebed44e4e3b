------------------------------ MODULE Commands ------------------------------
(***************************************************************************)
(* The way of a command line: the shell (ece391shell.c) passes it to       *)
(* execute, which cuts out the program's name and its argument (syscall.c) *)
(* and leaves the argument for getargs; cat (ece391cat.c) and ls           *)
(* (ece391ls.c) run, halt with a status, and the shell reports it.         *)
(*                                                                         *)
(* arg_buf and argument_exist are global to the kernel, and the terminals  *)
(* run their shells side by side: a tick may come between any two steps.   *)
(* Pools, stacks and pages of the processes are the subject of module      *)
(* Process; here execute finds a slot.                                     *)
(***************************************************************************)
EXTENDS Integers, Sequences, FiniteSets

CONSTANTS Users,         \* the terminals
          ArgLength,     \* MAX_ARG_LENGTH: 33 in the code
          CommandLines,  \* sequences of characters
          Space,         \* the character that separates words
          Exit,          \* the command line that ends a shell
          Cat, Ls,       \* names of the two programs
          DataFiles      \* names of the files that are not executable

Nul == 0

\* Command lines are as long as the key buffer allows; a name in the file
\* system has at most FILENAME_LEN = ArgLength - 1 characters.
ASSUME CommandsAssumption ==
    /\ ArgLength \in Nat \ {0}
    /\ CommandLines \subseteq Seq(Nat \ {Nul})
    /\ Cat # Ls
    /\ \A name \in {Cat, Ls} \cup DataFiles : Len(name) < ArgLength
    /\ {Cat, Ls} \cap DataFiles = {}
    /\ << >> \notin {Cat, Ls} \cup DataFiles

VARIABLES argument_exist,
          arg_buf,
          shell,         \* per terminal: where its shell or its program is,
                         \* the command line, characters of it parsed, the
                         \* argument in the pcb, and what has been displayed
          crossed        \* per terminal: another execute came in between,
                         \* before ("text") or after ("flag") the argument was
                         \* in the pcb: history

commandVars == <<argument_exist, arg_buf, shell, crossed>>

NoArgs == [i \in 0 .. ArgLength - 1 |-> Nul]

CommandInit ==
    /\ argument_exist = 0
    /\ arg_buf = NoArgs
    /\ shell = [t \in Users |-> [pc |-> "prompt", line |-> << >>, parsed |-> 0,
                                 args |-> NoArgs, shown |-> << >>]]
    /\ crossed = [t \in Users |-> "no"]

Goes(t, pc) == shell' = [shell EXCEPT ![t].pc = pc]
Shows(t, pc, what) == shell' = [shell EXCEPT ![t].pc = pc, ![t].shown = @ \o what]

\* What is displayed of a command: what execute and the shell say of it, the
\* names of ls and the complaints of cat, which halts with 3 or 2 then.
Abnormal      == "program terminated abnormally"
NoSuchCommand == <<"no such command">>
Refusal       == <<"Command is too long", "no such command">>
Listing       == <<"listing">>
NoArgument    == <<"could not read arguments", Abnormal>>
NotFound      == <<"file not found", Abnormal>>

\* A step of execute on terminal t crosses the commands of the others.
Crosses(t) ==
    crossed' = [u \in Users |->
        CASE u = t -> crossed[u]
          [] u # t /\ shell[u].pc \in {"zero", "parse", "lookup", "copy"} -> "text"
          [] u # t /\ shell[u].pc = "program" /\ crossed[u] = "no" -> "flag"
          [] OTHER -> crossed[u]]

----------------------------------------------------------------------------
\* The shell: a line is read, an empty one is ignored, exit halts the root
\* shell, which is started again.

TypeCommand(t, line) ==
    /\ shell[t].pc = "prompt"
    /\ shell' = [shell EXCEPT ![t] =
           [pc |-> IF line \in {Exit, << >>} THEN "prompt" ELSE "execute",
            line |-> line, parsed |-> 0, args |-> NoArgs, shown |-> << >>]]
    /\ crossed' = [crossed EXCEPT ![t] = "no"]
    /\ UNCHANGED <<argument_exist, arg_buf>>

----------------------------------------------------------------------------
\* syscall_execute: argument_exist = 0; ... memset(arg_buf, 0, ...)

\* len > MAX_ARG_LENGTH + 4, where len counts the final zero.
TooLong(line) == Len(line) + 1 > ArgLength + 4

ExecuteBegins(t) ==
    /\ shell[t].pc = "execute"
    /\ ~TooLong(shell[t].line)
    /\ argument_exist' = 0
    /\ Goes(t, "zero")
    /\ Crosses(t)
    /\ UNCHANGED arg_buf

\* The flag is gone all the same.
ExecuteRefuses(t) ==
    /\ shell[t].pc = "execute"
    /\ TooLong(shell[t].line)
    /\ argument_exist' = 0
    /\ Shows(t, "prompt", Refusal)
    /\ Crosses(t)
    /\ UNCHANGED arg_buf

\* The first loop: leading spaces are skipped, a word is copied until a space
\* or the end; the result is the word and the index the loop stopped at.  A
\* word of ArgLength characters or more runs over the end of fn; no file has
\* such a name.
FirstWord(line) ==
    LET at[i \in 0 .. Len(line)] ==
            IF i = 0 THEN [fn |-> << >>, flag |-> FALSE, done |-> FALSE, i |-> 1]
            ELSE LET s == at[i - 1]
                 IN IF s.done THEN s
                    ELSE IF line[i] = Space /\ s.flag THEN [s EXCEPT !.done = TRUE]
                    ELSE IF line[i] # Space
                    THEN [s EXCEPT !.flag = TRUE, !.fn = Append(@, line[i]), !.i = i + 1]
                    ELSE [s EXCEPT !.i = i + 1]
    IN at[Len(line)]

ExecuteZeroes(t) ==
    /\ shell[t].pc = "zero"
    /\ arg_buf' = NoArgs
    /\ shell' = [shell EXCEPT ![t].pc = "parse", ![t].parsed = FirstWord(shell[t].line).i]
    /\ Crosses(t)
    /\ UNCHANGED argument_exist

\* Mutant: the second word ends with the line only.
ArgumentEnds_at_end(line, i) == i > Len(line)

\* The second loop ends with the line or at a space behind a word.
ArgumentEnds(line, i) ==
    i <= Len(line) => /\ line[i] = Space
                      /\ \E j \in FirstWord(line).i .. i - 1 : line[j] # Space

\* The characters the second loop has copied before index i.
ArgIdx(line, i) == Cardinality({j \in FirstWord(line).i .. i - 1 : line[j] # Space})

\* arg_buf[idx] = c.  A line that is not too long may have an argument of more
\* characters than arg_buf; what runs over its end is lost, or lands in
\* argument_exist when the linker puts that byte next.
Store(idx, c, flag) ==
    IF idx < ArgLength
    THEN /\ arg_buf' = [arg_buf EXCEPT ![idx] = c]
         /\ argument_exist' = flag
    ELSE /\ UNCHANGED arg_buf
         /\ argument_exist' \in {flag} \cup IF idx = ArgLength /\ c = Nul THEN {c} ELSE {}

\* One turn of the second loop.
ExecuteParses(t) ==
    LET line == shell[t].line
        i == shell[t].parsed
    IN /\ shell[t].pc = "parse"
       /\ ~ArgumentEnds(line, i)
       /\ shell' = [shell EXCEPT ![t].parsed = i + 1]
       /\ IF line[i] = Space THEN UNCHANGED <<argument_exist, arg_buf>>
          ELSE Store(ArgIdx(line, i), line[i], 1)
       /\ Crosses(t)

ExecuteParsed(t) ==
    LET line == shell[t].line
        i == shell[t].parsed
    IN /\ shell[t].pc = "parse"
       /\ ArgumentEnds(line, i)
       /\ Store(ArgIdx(line, i), Nul, argument_exist)
       /\ Goes(t, "lookup")
       /\ Crosses(t)

\* No such file, not a regular file, not an executable: execute returns -1.
ExecuteFails(t) ==
    /\ shell[t].pc = "lookup"
    /\ FirstWord(shell[t].line).fn \notin {Cat, Ls}
    /\ Shows(t, "prompt", NoSuchCommand)
    /\ UNCHANGED <<argument_exist, arg_buf, crossed>>

ExecuteFinds(t) ==
    /\ shell[t].pc = "lookup"
    /\ FirstWord(shell[t].line).fn \in {Cat, Ls}
    /\ Goes(t, "copy")
    /\ UNCHANGED <<argument_exist, arg_buf, crossed>>

\* memcpy(new_process_pcb->arg_buf, arg_buf, MAX_ARG_LENGTH)
ExecuteCopies(t) ==
    /\ shell[t].pc = "copy"
    /\ shell' = [shell EXCEPT ![t].pc = "program", ![t].args = arg_buf]
    /\ UNCHANGED <<argument_exist, arg_buf, crossed>>

----------------------------------------------------------------------------
\* The programs, up to the status they halt with and the shell's report.

RunLs(t) ==
    /\ shell[t].pc = "program"
    /\ FirstWord(shell[t].line).fn = Ls
    /\ Shows(t, "prompt", Listing)
    /\ UNCHANGED <<argument_exist, arg_buf, crossed>>

\* syscall_getargs
HasArgument == argument_exist # 0

CatFails(t) ==
    /\ shell[t].pc = "program"
    /\ FirstWord(shell[t].line).fn = Cat
    /\ ~HasArgument
    /\ Shows(t, "prompt", NoArgument)
    /\ UNCHANGED <<argument_exist, arg_buf, crossed>>

\* What strlen and the copy of getargs make of the buffer.  Without a zero in
\* it they run on, and the string has ArgLength characters or more.
Terminated(buf) == \E k \in DOMAIN buf : buf[k] = Nul
StringIn(buf) ==
    LET n == CHOOSE k \in DOMAIN buf : buf[k] = Nul /\ \A j \in 0 .. k - 1 : buf[j] # Nul
    IN [i \in 1 .. n |-> buf[i - 1]]

IsFile(name) == name \in {Cat, Ls} \cup DataFiles

RunCat(t) ==
    /\ shell[t].pc = "program"
    /\ FirstWord(shell[t].line).fn = Cat
    /\ HasArgument
    /\ LET args == shell[t].args
       IN Shows(t, "prompt", IF Terminated(args) /\ IsFile(StringIn(args))
                             THEN <<StringIn(args)>> ELSE NotFound)
    /\ UNCHANGED <<argument_exist, arg_buf, crossed>>

CommandStep(t) ==
    \/ ExecuteBegins(t) \/ ExecuteRefuses(t) \/ ExecuteZeroes(t)
    \/ ExecuteParses(t) \/ ExecuteParsed(t) \/ ExecuteFails(t)
    \/ ExecuteFinds(t) \/ ExecuteCopies(t)
    \/ RunLs(t) \/ CatFails(t) \/ RunCat(t)

CommandNext == \E t \in Users : \/ CommandStep(t)
                                \/ \E line \in CommandLines : TypeCommand(t, line)

CommandSpec == CommandInit /\ [][CommandNext]_commandVars

----------------------------------------------------------------------------
\* The words of a line, as a user sees them.
WordsOf(line) ==
    LET starts == {i \in DOMAIN line : line[i] # Space /\ (i = 1 \/ line[i - 1] = Space)}
        end(i) == CHOOSE j \in i .. Len(line) :
                      /\ \A k \in i .. j : line[k] # Space
                      /\ j = Len(line) \/ line[j + 1] = Space
    IN {<<i, SubSeq(line, i, end(i))>> : i \in starts}

\* The n-th word, or the empty sequence.
Word(line, n) ==
    LET hits == {w \in WordsOf(line) :
                    n = 1 + Cardinality({i \in 1 .. w[1] - 1 :
                                             \E v \in WordsOf(line) : v[1] = i})}
    IN IF hits = {} THEN << >> ELSE (CHOOSE w \in hits : TRUE)[2]

Answer(line) ==
    LET arg == Word(line, 2)
    IN IF line \in {Exit, << >>} THEN << >>
       ELSE IF Len(line) > ArgLength + 3 THEN Refusal
       ELSE IF Word(line, 1) = Ls THEN Listing
       ELSE IF Word(line, 1) # Cat THEN NoSuchCommand
       ELSE IF arg = << >> THEN NoArgument
       ELSE IF IsFile(arg) THEN <<arg>> ELSE NotFound

\* The first two words fit the buffers of execute.
WordsFit(line) == /\ Len(Word(line, 1)) < ArgLength
                  /\ Len(Word(line, 2)) < ArgLength

\* A command is answered by its own first two words, or refused when its line
\* is too long; nothing is said of a line that is not too long but has a word
\* that does not fit its buffer.  When executes on other terminals cross it,
\* only a program that asks for its argument can notice: once the argument is
\* in the pcb, cat may be told wrongly that there is none, or that there is
\* one, but never gets another one; before, cat may get anything.
CommandAnswered ==
    \A t \in Users : shell[t].pc = "prompt" =>
        \/ shell[t].shown = Answer(shell[t].line)
        \/ ~TooLong(shell[t].line) /\ ~WordsFit(shell[t].line)
        \/ Word(shell[t].line, 1) = Cat /\ crossed[t] = "text"
        \/ /\ Word(shell[t].line, 1) = Cat /\ crossed[t] = "flag"
           /\ shell[t].shown = IF Word(shell[t].line, 2) = << >> THEN NotFound
                               ELSE NoArgument
============================================================================
