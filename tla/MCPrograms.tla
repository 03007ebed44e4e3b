---------------------------- MODULE MCPrograms ----------------------------
(* The file system, the descriptors and the programs, side by side: they   *)
(* share no state, so a behaviour is that of one of them, chosen at the    *)
(* beginning.                                                              *)
EXTENDS FileSystem, FdTable, Commands, Printf, Grep, Blink, Frames,
        TLC

\* Images: names of up to three characters, blocks of three bytes, files that
\* end inside, at and just past a block boundary.  Characters 5 and 6; types
\* 0, 1, 2 as in the image.
MCEntries == << [name |-> <<5>>,       type |-> 1, inode |-> 0],
                [name |-> <<5, 6, 5>>, type |-> 2, inode |-> 1],
                [name |-> <<5, 6>>,    type |-> 2, inode |-> 2],
                [name |-> <<6, 6, 6>>, type |-> 0, inode |-> 0] >>

Texts(chars, max) == UNION {[1 .. n -> chars] : n \in 0 .. max}

MCQueries == Texts({5, 6}, 4)

MCFileLength == [n \in 0 .. 3 |-> CASE n = 0 -> 0 [] n = 1 -> 5 [] n = 2 -> 6
                                    [] n = 3 -> 7]
MCBlockNum == [n \in 0 .. 3 |-> CASE n = 0 -> << >> [] n = 1 -> <<4, 2>>
                                  [] n = 2 -> <<1, 3>> [] n = 3 -> <<7, 5, 6>>]

\* Descriptors: a directory, the rtc, an empty file and one as long as a file
\* may be, in words of three bits.
MCDentry == [dot   |-> [type |-> TYPE_DIRECTORY, inode |-> 0],
             rtc   |-> [type |-> TYPE_RTC,       inode |-> 0],
             empty |-> [type |-> TYPE_FILE,      inode |-> 1],
             text  |-> [type |-> TYPE_FILE,      inode |-> 2]]
MCMissingNames == {"missing"}
MCLength == [i \in 0 .. 2 |-> IF i = 2 THEN 4 ELSE 0]

\* Files of up to two buffers and their lines.
MCGrepFiles == Texts({NewlineChar, 5, 6}, 6)
MCPatterns  == {<<5>>, <<5, 6>>}

\* Command lines: 1 is the space, 5 cat, 6 ls, 8 and 89 files, 9 nothing.
MCCat == <<5>>
MCLs  == <<6>>
MCExit == <<7, 7>>
MCDataFiles == {<<8>>, <<8, 9>>}
MCCommandLines == {<< >>, MCExit, <<5>>, <<5, 1, 8>>, <<1, 5, 1, 1, 8, 9, 1>>,
                   <<5, 9>>, <<6, 1, 8>>, <<5, 1, 8, 1, 9>>}
\* Lines at the limit of eight characters: the longest that is taken and one
\* more, and one with an argument that fills its buffer without the zero.
MCLongLines == {<<5, 1, 1, 1, 1, 1, 8, 9>>, <<5, 1, 1, 1, 1, 1, 1, 8, 9>>,
                <<5, 1, 8, 8, 8, 8, 8>>}
MCAllLines == MCCommandLines \cup MCLongLines

\* Words of eight bits, at their boundaries.
MCWords   == {0, 9, 10, 127, 128, 255}
MCStrings == {<< >>, <<"a", "%">>}

MCLengths == {<<1, 2>>, <<2, 1>>}

MCPictureFiles == Texts({10, 32, 5}, 3)

\* The two users of the shells may change places.
MCSymmetry == Permutations(Users)

VARIABLE running     \* which of them this behaviour is of

programVars == <<running, fsVars, vars, commandVars, printed, grep, blinkVars, frames>>

ProgramsInit ==
    /\ running \in {"file system", "descriptors", "commands", "printf",
                    "grep", "blink", "frames"}
    /\ FsInit /\ Init /\ CommandInit /\ PrintfInit
    /\ GrepInit /\ BlinkInit /\ FramesInit

FileSystemStep ==
    /\ running = "file system" /\ FsNext
    /\ UNCHANGED <<running, vars, commandVars, printed, grep, blinkVars, frames>>
DescriptorsStep ==
    /\ running = "descriptors" /\ Next
    /\ UNCHANGED <<running, fsVars, commandVars, printed, grep, blinkVars, frames>>
CommandsStep ==
    /\ running = "commands" /\ CommandNext
    /\ UNCHANGED <<running, fsVars, vars, printed, grep, blinkVars, frames>>
PrintfStep ==
    /\ running = "printf" /\ PrintfNext
    /\ UNCHANGED <<running, fsVars, vars, commandVars, grep, blinkVars, frames>>
GrepStep ==
    /\ running = "grep" /\ GrepNext
    /\ UNCHANGED <<running, fsVars, vars, commandVars, printed, blinkVars, frames>>
BlinkStep ==
    /\ running = "blink" /\ BlinkNext
    /\ UNCHANGED <<running, fsVars, vars, commandVars, printed, grep, frames>>
FramesStep ==
    /\ running = "frames" /\ FramesNext
    /\ UNCHANGED <<running, fsVars, vars, commandVars, printed, grep, blinkVars>>

ProgramsNext == \/ FileSystemStep \/ DescriptorsStep \/ CommandsStep \/ PrintfStep
                \/ GrepStep \/ BlinkStep \/ FramesStep

ProgramsSpec == ProgramsInit /\ [][ProgramsNext]_programVars
===========================================================================
