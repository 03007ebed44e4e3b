----------------------------- MODULE FileSystem -----------------------------
(***************************************************************************)
(* The read-only file system (filesystem.c) as functions of the image:     *)
(* the lookup of a name, the copy of a file's bytes out of its data blocks *)
(* and the listing of the directory, each beside the definition a user of  *)
(* the file system has in mind.  The state machine is a caller that makes  *)
(* one call after another with arguments of its choice.                    *)
(***************************************************************************)
EXTENDS Integers, Sequences

CONSTANTS BlockSize,      \* BLOCK_SIZE: 4096 in the code
          FilenameLen,    \* FILENAME_LEN: 32 in the code
          DirLimit,       \* the constant dir_read stops at: 18 in the code
          MaxDirectory,   \* MAX_DIRECTORY_NUMBER: 63 in the code
          Entries,        \* the directory: sequence of [name, type, inode]
          InodeCount,     \* inode_count of the boot block
          FileLength,     \* inode -> length in bytes
          BlockNum,       \* inode -> sequence of data block numbers
          Queries,        \* names callers look up
          MaxOffset,      \* bound: largest offset of a read
          MaxLength       \* bound: largest length of a read

Chars == Nat \ {0}

\* Characters are positive numbers, 0 ends a string.  A name in the directory
\* fills at most its field, and no name that is looked up has a character
\* that is a file type: 0, 1 and 2 are no characters of a text.
ASSUME FsAssumption ==
    /\ BlockSize \in Nat \ {0} /\ FilenameLen \in Nat \ {0}
    /\ {DirLimit, MaxDirectory, InodeCount, MaxOffset, MaxLength} \subseteq Nat
    /\ Entries \in Seq([name : Seq(Chars), type : Nat, inode : Nat])
    /\ Len(Entries) <= MaxDirectory
    /\ \A i \in 1 .. Len(Entries) : Len(Entries[i].name) \in 1 .. FilenameLen
    /\ Queries \subseteq Seq(Chars)
    /\ \A q \in Queries, i \in 1 .. Len(Entries) :
           \A k \in 1 .. Len(q) : q[k] # Entries[i].type
    /\ DOMAIN FileLength \subseteq 0 .. InodeCount - 1
    /\ \A n \in DOMAIN FileLength :
           /\ FileLength[n] \in Nat /\ BlockNum[n] \in Seq(Nat)
           /\ Len(BlockNum[n]) * BlockSize >= FileLength[n]

VARIABLES call,     \* the last call made, with its result
          pos,      \* position of the directory descriptor
          listed    \* names a program has been given by reading "."

fsVars == <<call, pos, listed>>

----------------------------------------------------------------------------
\* read_dentry_by_name

\* strlen and strncmp = 0, on strings given as functions from 0.
Strlen(s) == CHOOSE n \in DOMAIN s : s[n] = 0 /\ \A k \in 0 .. n - 1 : s[k] # 0
SameFirst(s, r, n) ==
    \/ \A k \in 0 .. n - 1 : s[k] = r[k]
    \/ \E k \in 0 .. n - 1 : s[k] = 0 /\ \A j \in 0 .. k : s[j] = r[j]

CString(name) == [k \in 0 .. Len(name) |-> IF k = Len(name) THEN 0 ELSE name[k + 1]]

\* An entry in memory: the name without a final zero when it fills its field,
\* then the type in four bytes.
EntryBytes(e) == [k \in 0 .. FilenameLen + 3 |->
                     CASE k < Len(e.name)    -> e.name[k + 1]
                       [] k = FilenameLen    -> e.type
                       [] OTHER              -> 0]
EmptyEntry == [name |-> << >>, type |-> 0, inode |-> 0]
EntryAt(i) == IF i < Len(Entries) THEN Entries[i + 1] ELSE EmptyEntry

\* Mutant: the length of the entry's name is not compared.
Matches_prefix(name, e) == SameFirst(CString(name), EntryBytes(e), Len(name))

Matches(name, e) ==
    LET length == Len(name)
        entry == EntryBytes(e)
        entry_len == Strlen(entry)
    IN \/ length = FilenameLen /\ SameFirst(CString(name), entry, FilenameLen)
       \/ length = entry_len /\ SameFirst(CString(name), entry, length)

\* Index of the first entry that matches, or -1.
read_dentry_by_name(name) ==
    LET hits == {i \in 0 .. MaxDirectory - 1 : Matches(name, EntryAt(i))}
    IN IF Len(name) = 0 \/ hits = {} THEN -1
       ELSE CHOOSE i \in hits : \A j \in hits : i <= j

\* What a caller means: the entry that has this name.
Lookup(name) ==
    LET hits == {i \in 1 .. Len(Entries) : Entries[i].name = name}
    IN IF hits = {} THEN -1 ELSE (CHOOSE i \in hits : \A j \in hits : i <= j) - 1

----------------------------------------------------------------------------
\* read_data

\* Byte k of data block b, by name.
Byte(b, k) == <<b, k>>
BlockBytes(b, from, to) == [k \in 1 .. to - from |-> Byte(b, from + k - 1)]

\* data_block_num[index]; the word past the last block is read, not used.
DataBlock(n, index) == IF index < Len(BlockNum[n]) THEN BlockNum[n][index + 1] ELSE 0

\* Mutant: every block is copied from its first byte.
CopyBlocks_aligned(n, offset, length) ==
    LET first == offset \div BlockSize
        last  == (offset + length) \div BlockSize
        end(index) == IF index = last THEN (offset + length) % BlockSize
                      ELSE BlockSize
        copied[index \in first - 1 .. last] ==
            IF index < first THEN << >>
            ELSE copied[index - 1] \o BlockBytes(DataBlock(n, index), 0, end(index))
    IN copied[last]

\* The loop over the blocks from first to last.
CopyBlocks(n, offset, length) ==
    LET first == offset \div BlockSize
        last  == (offset + length) \div BlockSize
        begin(index) == IF index = first THEN offset % BlockSize ELSE 0
        end(index) == IF index = last THEN (offset + length) % BlockSize
                      ELSE BlockSize
        copied[index \in first - 1 .. last] ==
            IF index < first THEN << >>
            ELSE copied[index - 1] \o BlockBytes(DataBlock(n, index),
                                                 begin(index), end(index))
    IN copied[last]

\* Result of read_data: -1, or the bytes copied (their number is returned).
read_data(n, offset, length) ==
    IF n >= InodeCount \/ n < 0 THEN -1
    ELSE IF offset >= FileLength[n] THEN << >>
    ELSE CopyBlocks(n, offset, IF length > FileLength[n] - offset
                               THEN FileLength[n] - offset ELSE length)

\* What a caller means: the file is one sequence of bytes.
FileBytes(n) == [k \in 1 .. FileLength[n] |->
                    Byte(BlockNum[n][(k - 1) \div BlockSize + 1],
                         (k - 1) % BlockSize)]
Slice(n, offset, length) ==
    IF n \notin 0 .. InodeCount - 1 THEN -1
    ELSE SubSeq(FileBytes(n), offset + 1,
                IF offset + length > FileLength[n] THEN FileLength[n]
                ELSE offset + length)

----------------------------------------------------------------------------
\* The caller

Nothing == [op |-> "none", arg |-> << >>, result |-> -1]

FsInit == call = Nothing /\ pos = 0 /\ listed = << >>

LookupCall(name) ==
    /\ call' = [op |-> "lookup", arg |-> name,
                result |-> read_dentry_by_name(name)]
    /\ UNCHANGED <<pos, listed>>

ReadCall(n, offset, length) ==
    /\ call' = [op |-> "read", arg |-> <<n, offset, length>>,
                result |-> read_data(n, offset, length)]
    /\ UNCHANGED <<pos, listed>>

\* Mutant: the position moves before the entry is copied.
DirReadMore_moves_first ==
    /\ pos + 1 < DirLimit
    /\ pos < InodeCount
    /\ pos' = pos + 1
    /\ listed' = Append(listed, EntryAt(pos + 1).name)
    /\ call' = Nothing

\* dir_read of a whole name: the entry is copied, the position moves, and 0 is
\* returned once the position has reached the limit.  A program stops at 0
\* and has used only the entries it got a length for.
DirReadMore ==
    /\ pos + 1 < DirLimit
    /\ pos < InodeCount
    /\ pos' = pos + 1
    /\ listed' = Append(listed, EntryAt(pos).name)
    /\ call' = Nothing

DirReadEnd ==
    /\ pos + 1 >= DirLimit
    /\ pos < InodeCount
    /\ pos' = pos + 1
    /\ call' = Nothing
    /\ UNCHANGED listed

FsNext ==
    \/ \E name \in Queries : LookupCall(name)
    \/ \E n \in (DOMAIN FileLength) \cup {-1, InodeCount}, offset \in 0 .. MaxOffset,
          length \in 0 .. MaxLength : ReadCall(n, offset, length)
    \/ DirReadMore
    \/ DirReadEnd

FsSpec == FsInit /\ [][FsNext]_fsVars

----------------------------------------------------------------------------
\* Properties

\* A lookup finds the entry with exactly this name, also when the name fills
\* its field and has no final zero, and no entry for a name that is longer,
\* shorter or empty.
LookupCorrect == call.op = "lookup" => call.result = Lookup(call.arg)

\* A read returns the slice of the file it asks for, whatever blocks it
\* begins and ends in and however it is aligned, cut at the end of the file.
ReadCorrect ==
    call.op = "read" =>
        call.result = Slice(call.arg[1], call.arg[2], call.arg[3])

\* Reading the directory until 0 is returned gives every entry, once, in order,
\* and after them only empty ones, as long as the constant dir_read compares
\* with exceeds the number of entries.
ListsAllEntries ==
    Len(Entries) < DirLimit /\ pos >= DirLimit =>
        /\ Len(listed) >= Len(Entries)
        /\ \A i \in 1 .. Len(listed) :
               listed[i] = IF i <= Len(Entries) THEN Entries[i].name ELSE << >>
============================================================================
