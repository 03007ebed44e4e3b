------------------------------ MODULE FdTable ------------------------------
(***************************************************************************)
(* The file descriptor table of one process slot (general_file.c), with    *)
(* the read path of regular files and directories it leads to              *)
(* (filesystem.c) and the system calls in front of it (syscall.c).         *)
(*                                                                         *)
(* The slot is used by one process after another: execute initialises the  *)
(* table and halt closes the descriptors.  The table is private to its     *)
(* slot, so being suspended in between changes nothing here.               *)
(***************************************************************************)
EXTENDS Integers, FiniteSets

CONSTANTS MaxFiles,    \* MAX_NUM_FILES: 8 in the code
          Dentry,      \* the directory: name -> [type, inode]
          MissingNames,\* names that are not in the directory
          Length,      \* inode -> length of the file in bytes
          NumInodes,   \* inode_count of the boot block
          HalfWord     \* 2^31 in the code: a word has twice as many values

\* An int32_t that is passed for a uint32_t.
WordSize == 2 * HalfWord
Sizes == -HalfWord .. HalfWord - 1
Unsigned(n) == IF n < 0 THEN n + WordSize ELSE n

Names  == DOMAIN Dentry
Inodes == DOMAIN Length

TYPE_RTC == 0
TYPE_DIRECTORY == 1
TYPE_FILE == 2

ASSUME FdAssumption ==
    /\ MaxFiles \in Nat /\ MaxFiles >= 2
    /\ HalfWord \in Nat \ {0}
    /\ NumInodes \in 0 .. WordSize - 1
    /\ Length \in [Inodes -> 0 .. HalfWord]   \* 1023 blocks of 4096 bytes at most
    /\ Inodes \subseteq 0 .. NumInodes - 1
    /\ \A n \in Names : /\ Dentry[n].type \in {TYPE_RTC, TYPE_DIRECTORY, TYPE_FILE}
                        /\ Dentry[n].inode \in Inodes
    /\ MissingNames \cap Names = {}

Fds == 0 .. MaxFiles - 1
Ops == {"NULL", "stdin", "stdout", "rtc", "dir", "file"}

VARIABLES fd_table,     \* the descriptors
          process,      \* "none" or "running"
          opened,       \* descriptors the process holds: history
          delivered,    \* bytes read through each descriptor, as long as
          rewound       \* no read has moved its position back: history

vars == <<fd_table, process, opened, delivered, rewound>>

Desc(ops, inode, pos, flags) ==
    [ops |-> ops, inode |-> inode, pos |-> pos, flags |-> flags]

Closed == Desc("NULL", -1, 0, 0)

\* file_descriptor_table_init
file_descriptor_table_init ==
    [fd \in Fds |-> CASE fd = 0 -> Desc("stdin", -1, 0, 0)
                      [] fd = 1 -> Desc("stdout", -1, 0, 0)
                      [] OTHER  -> Closed]

Init ==
    /\ fd_table = [fd \in Fds |-> Closed]
    /\ process = "none"
    /\ opened = {}
    /\ delivered = [fd \in Fds |-> 0]
    /\ rewound = {}

----------------------------------------------------------------------------
\* The slot is taken by a new process, and given up.

Execute ==
    /\ process = "none"
    /\ process' = "running"
    /\ fd_table' = file_descriptor_table_init
    /\ opened' = {}
    /\ delivered' = [fd \in Fds |-> 0]
    /\ rewound' = {}

\* Mutant: only flags is reset.
CloseEffect_partial(d) == IF d.inode = -1 THEN d ELSE [d EXCEPT !.flags = 0]

\* file_close refuses a descriptor whose inode is -1.
CloseEffect(d) == IF d.inode = -1 THEN d ELSE Closed

\* syscall_halt closes every index of the table.
Halt ==
    /\ process = "running"
    /\ process' = "none"
    /\ fd_table' = [fd \in Fds |-> CloseEffect(fd_table[fd])]
    /\ opened' = {}
    /\ UNCHANGED <<delivered, rewound>>

----------------------------------------------------------------------------
\* file_descriptor_table_open

InUse == {fd \in Fds : fd >= 2 /\ fd_table[fd].flags = 1}

\* Mutant: the search begins at descriptor 0.
FreeFds_from_zero == Fds \ InUse

FreeFds == {fd \in Fds : fd >= 2} \ InUse
FirstFreeFd == CHOOSE fd \in FreeFds : \A f \in FreeFds : fd <= f

OpsOf(type) == CASE type = TYPE_FILE      -> "file"
                 [] type = TYPE_DIRECTORY -> "dir"
                 [] type = TYPE_RTC       -> "rtc"

\* Without a free descriptor open returns -1; the flags it has set lie behind
\* the table, in the pcb's current_ebp, which is stored again before it is next
\* loaded.

\* flags is set before the name is looked up, and stays set.
OpenMissing ==
    /\ process = "running"
    /\ FreeFds # {}
    /\ MissingNames # {}
    /\ fd_table' = [fd_table EXCEPT ![FirstFreeFd].flags = 1]
    /\ UNCHANGED <<process, opened, delivered, rewound>>

Open(name) ==
    /\ process = "running"
    /\ FreeFds # {}
    /\ fd_table' = [fd_table EXCEPT ![FirstFreeFd] =
                       Desc(OpsOf(Dentry[name].type), Dentry[name].inode, 0, 1)]
    /\ opened' = opened \cup {FirstFreeFd}
    /\ delivered' = [delivered EXCEPT ![FirstFreeFd] = 0]
    /\ rewound' = rewound \ {FirstFreeFd}
    /\ UNCHANGED process

----------------------------------------------------------------------------
\* file_descriptor_table_close: fd outside the table, or inode -1, is -1.

Close(fd) ==
    /\ process = "running"
    /\ fd_table[fd].inode # -1
    /\ fd_table' = [fd_table EXCEPT ![fd] = CloseEffect(fd_table[fd])]
    /\ opened' = opened \ {fd}
    /\ UNCHANGED <<process, delivered, rewound>>

----------------------------------------------------------------------------
\* file_descriptor_table_read on a regular file and on a directory.  Reads of
\* the terminal and the RTC do not touch the table (Terminal, Rtc).

\* Mutant: the position is forgotten where the length is cut.
DataCount_whole(inode, pos, n) ==
    IF pos >= Length[inode] THEN 0
    ELSE IF n > Length[inode] THEN Length[inode] ELSE n

\* read_data: bytes returned for a read of n bytes at pos.
DataCount(inode, pos, n) ==
    IF pos >= Length[inode] THEN 0
    ELSE IF n > Length[inode] - pos THEN Length[inode] - pos ELSE n

\* *offset += length, where both are uint32_t.
Advanced(pos, n) == (pos + n) % WordSize

\* file_read: fd == NULL rejects inode 0; the position moves by the number of
\* bytes asked for, not by the number returned, and an nbytes of -k moves it k
\* bytes back where it can.
FileRead(fd, nbytes) ==
    LET inode == fd_table[fd].inode
        pos   == fd_table[fd].pos
        got   == DataCount(inode, pos, Unsigned(nbytes))
        back  == nbytes < 0 /\ -nbytes <= pos
    IN /\ process = "running"
       /\ fd_table[fd].ops = "file"
       /\ inode # 0
       /\ got > 0
       /\ fd_table' = [fd_table EXCEPT ![fd].pos = Advanced(pos, Unsigned(nbytes))]
       /\ rewound' = IF back THEN rewound \cup {fd} ELSE rewound
       /\ delivered' = IF fd \in rewound' THEN delivered
                       ELSE [delivered EXCEPT ![fd] = @ + got]
       /\ UNCHANGED <<process, opened>>

\* dir_read: the position counts entries and is bounded by inode_count.
DirRead(fd) ==
    /\ process = "running"
    /\ fd_table[fd].ops = "dir"
    /\ fd_table[fd].pos < NumInodes
    /\ fd_table' = [fd_table EXCEPT ![fd].pos = @ + 1]
    /\ UNCHANGED <<process, opened, delivered, rewound>>

Next ==
    \/ Execute \/ Halt \/ OpenMissing
    \/ \E name \in Names : Open(name)
    \/ \E fd \in Fds : Close(fd)
    \/ \E fd \in Fds, n \in Sizes : FileRead(fd, n)
    \/ \E fd \in Fds : DirRead(fd)

Spec == Init /\ [][Next]_vars

----------------------------------------------------------------------------
\* Properties

\* Types of the table and of the history.
TypeOK ==
    /\ fd_table \in [Fds -> [ops : Ops, inode : Inodes \cup {-1},
                             pos : 0 .. WordSize - 1, flags : {0, 1}]]
    /\ process \in {"none", "running"}
    /\ opened \subseteq Fds
    /\ delivered \in [Fds -> Nat]
    /\ rewound \subseteq Fds

\* What the process believes it holds is what the table serves: a descriptor
\* returned by open and not closed since has operations and an inode, and no
\* other descriptor from 2 up has, whatever opens failed in between.  A
\* closed or leaked descriptor therefore answers -1 to every call.
HeldIsServed ==
    process # "none" =>
        \A fd \in Fds \ {0, 1} :
            /\ fd \in opened <=> fd_table[fd].ops # "NULL"
            /\ fd \in opened <=> fd_table[fd].inode # -1
            /\ fd \in opened => fd_table[fd].flags = 1

\* No sequence of opens and closes costs a process its terminal: descriptors
\* 0 and 1 can be neither closed nor handed out by open.
StdStreamsSurvive ==
    process # "none" => /\ fd_table[0].ops = "stdin" /\ fd_table[1].ops = "stdout"
                        /\ opened \cap {0, 1} = {}

\* Reading a file in pieces delivers every byte once: although the position
\* moves by the size asked for, in words that wrap around, what has been
\* delivered is the prefix of the file up to the position.  A negative size may
\* stand anywhere in the sequence, and delivers the rest of the file; only one
\* that is no larger than the position, and so moves it back, makes the bytes
\* behind it come again (rewound).
EveryByteOnce ==
    \A fd \in opened \ rewound : fd_table[fd].ops = "file" =>
        LET len == Length[fd_table[fd].inode]
        IN delivered[fd] = IF fd_table[fd].pos < len THEN fd_table[fd].pos ELSE len
============================================================================
