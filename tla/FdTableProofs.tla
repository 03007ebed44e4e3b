--------------------------- MODULE FdTableProofs ---------------------------
(***************************************************************************)
(* The descriptor table keeps its promises for tables of any size, for any *)
(* directory and for reads of any size.  The invariants of FdTable are     *)
(* proved together: which descriptors are served depends on which are      *)
(* held, and the bytes delivered on both.  One fact is added: the inode of *)
(* descriptors 0 and 1 is -1, which is what makes close refuse them.       *)
(*                                                                         *)
(* The second part is about the file system below it, for every image:     *)
(* what its three functions return is what their callers mean.  The loop   *)
(* of read_data is a recursive function; its closed form (the bytes up to  *)
(* the end of the block, or of the request) satisfies the same equation,   *)
(* so the function exists, and the least index at which another solution   *)
(* differed would contradict the equation.                                 *)
(*                                                                         *)
(* The third part is about grep, which reads a file in pieces, for every   *)
(* file, pattern and size of the buffer.  Its invariant is that what was   *)
(* printed, followed by what is to come from the place the buffer stands   *)
(* at (ToCome, the recursive function of MatchesOf), is what a reader of   *)
(* the whole file expects; and that the buffer, from the line it is at on, *)
(* is a copy of the file.  ToCome exists because a solution for the end of *)
(* the file extends one index at a time towards its beginning.             *)
(*                                                                         *)
(* The fourth part is about command lines, for any number of terminals and *)
(* any lines.  execute cuts a line in two loops: the first is a recursive  *)
(* function again, the state of the second is what of the second word is   *)
(* left of the index (ParsingWord).  The invariant says for each terminal  *)
(* what the kernel's one buffer and flag hold of its command, as long as   *)
(* no execute of another terminal has crossed it.                          *)
(***************************************************************************)
EXTENDS FdTable, FileSystem, Grep, Commands, FiniteSetTheorems, SequenceTheorems,
        WellFoundedInduction, TLAPS

StdHaveNoInode == process # "none" => /\ fd_table[0].inode = -1
                                      /\ fd_table[1].inode = -1

IInv == TypeOK /\ HeldIsServed /\ StdStreamsSurvive /\ EveryByteOnce
        /\ StdHaveNoInode

\* Words.
LEMMA WordFacts == WordSize \in Nat /\ WordSize > 0 /\ WordSize = HalfWord + HalfWord
  BY FdAssumption DEF WordSize

\* The least-number principle, for a set of numbers.
LEMMA LeastNat ==
    ASSUME NEW T, T \subseteq Nat, T # {}
    PROVE  \E m \in T : \A k \in T : m <= k
  <1> DEFINE R == {ss \in Nat \X Nat : ss[1] < ss[2]}
  <1>1. OpToRel(<, Nat) = R
    BY Zenon DEF OpToRel
  <1>2. IsWellFoundedOn(R, Nat)
    BY <1>1, NatLessThanWellFounded, Zenon
  <1>3. \E x \in T : \A y \in T : ~ (<<y, x>> \in R)
    <2> HIDE DEF R
    <2> QED BY <1>2, WFMin
  <1>4. PICK m \in T : \A y \in T : ~ (<<y, m>> \in R)
    BY <1>3
  <1>5. \A k \in T : ~ (k < m)
    <2> SUFFICES ASSUME NEW k \in T, k < m PROVE FALSE
      OBVIOUS
    <2>1. <<k, m>> \in Nat \X Nat /\ <<k, m>>[1] < <<k, m>>[2]
      OBVIOUS
    <2>2. <<k, m>> \in R
      BY <2>1
    <2>3. QED
      BY <1>4, <2>2
  <1>6. QED
    BY <1>5

\* The descriptor open takes is free, and is neither 0 nor 1.
LEMMA FirstFreeFdUsable ==
    ASSUME TypeOK, FreeFds # {}
    PROVE  /\ FirstFreeFd \in Fds \ {0, 1}
           /\ fd_table[FirstFreeFd].flags # 1
  <1>1. FreeFds \subseteq Nat
    BY FdAssumption DEF FreeFds, Fds
  <1>2. \E fd \in FreeFds : \A f \in FreeFds : fd <= f
    BY <1>1, LeastNat
  <1>3. FirstFreeFd \in FreeFds
    BY <1>2 DEF FirstFreeFd
  <1>4. QED
    BY <1>3, FdAssumption DEF FreeFds, InUse, Fds

\* A descriptor that is served has an inode of the image, and is held.
LEMMA ServedIsHeld ==
    ASSUME IInv, process = "running", NEW fd \in Fds, fd_table[fd].ops \in {"file", "dir"}
    PROVE  /\ fd \in opened /\ fd \notin {0, 1}
           /\ fd_table[fd].inode \in Inodes
  BY DEF IInv, TypeOK, HeldIsServed, StdStreamsSurvive

\* Every table starts closed, with the two terminal streams.
LEMMA InitIInv == Init => IInv
  BY FdAssumption, WordFacts DEF Init, IInv, TypeOK, HeldIsServed, StdStreamsSurvive, EveryByteOnce,
     StdHaveNoInode, Closed, Desc, Ops, Fds

\* execute: file_descriptor_table_init of a free slot.
LEMMA ExecuteStep == ASSUME IInv, Execute PROVE IInv'
  <1>1. /\ fd_table' = file_descriptor_table_init /\ opened' = {} /\ process' = "running"
        /\ delivered' = [fd \in Fds |-> 0] /\ rewound' = {}
    BY DEF Execute
  <1>2. 0 \in Fds /\ 1 \in Fds
    BY FdAssumption DEF Fds
  <1>3. TypeOK'
    BY <1>1, WordFacts DEF IInv, TypeOK, file_descriptor_table_init, Desc, Closed, Ops
  <1>4. HeldIsServed'
    BY <1>1 DEF HeldIsServed, file_descriptor_table_init, Desc, Closed
  <1>5. StdStreamsSurvive' /\ StdHaveNoInode'
    BY <1>1, <1>2 DEF StdStreamsSurvive, StdHaveNoInode, file_descriptor_table_init, Desc
  <1>6. EveryByteOnce'
    BY <1>1 DEF EveryByteOnce
  <1>7. QED
    BY <1>3, <1>4, <1>5, <1>6 DEF IInv

\* halt closes all that its slot holds.
LEMMA HaltStep == ASSUME IInv, Halt PROVE IInv'
  <1>1. /\ fd_table' = [fd \in Fds |-> CloseEffect(fd_table[fd])] /\ opened' = {}
        /\ process' = "none" /\ UNCHANGED <<delivered, rewound>>
    BY DEF Halt
  <1>2. TypeOK'
    BY <1>1, WordFacts DEF IInv, TypeOK, CloseEffect, Closed, Desc, Ops
  <1>3. QED
    BY <1>1, <1>2 DEF IInv, HeldIsServed, StdStreamsSurvive, EveryByteOnce,
       StdHaveNoInode

\* flags of a free descriptor is set and nothing else: it is not held.
LEMMA OpenMissingStep == ASSUME IInv, OpenMissing PROVE IInv'
  <1> DEFINE f == FirstFreeFd
  <1>1. /\ f \in Fds \ {0, 1} /\ fd_table' = [fd_table EXCEPT ![f].flags = 1]
        /\ UNCHANGED <<process, opened, delivered, rewound>>
    BY FirstFreeFdUsable DEF IInv, OpenMissing
  <1> HIDE DEF f
  <1>2. /\ fd_table' \in [Fds -> [ops : Ops, inode : Inodes \cup {-1}, pos : 0 .. WordSize - 1,
                                  flags : {0, 1}]]
        /\ \A fd \in Fds : /\ fd_table'[fd].ops = fd_table[fd].ops
                           /\ fd_table'[fd].inode = fd_table[fd].inode
                           /\ fd_table'[fd].pos = fd_table[fd].pos
                           /\ fd_table[fd].flags = 1 => fd_table'[fd].flags = 1
    BY <1>1 DEF IInv, TypeOK
  <1>3. TypeOK'
    BY <1>1, <1>2 DEF IInv, TypeOK
  <1>4. HeldIsServed' /\ EveryByteOnce'
    BY <1>1, <1>2 DEF IInv, TypeOK, HeldIsServed, EveryByteOnce
  <1>5. StdStreamsSurvive' /\ StdHaveNoInode'
    BY <1>1, <1>2, FdAssumption DEF IInv, StdStreamsSurvive, StdHaveNoInode, Fds
  <1>6. QED
    BY <1>3, <1>4, <1>5 DEF IInv

\* file_descriptor_table_open of a name that exists.
LEMMA OpenStep == ASSUME IInv, NEW name \in Names, Open(name) PROVE IInv'
  <1> DEFINE f == FirstFreeFd
             d == Desc(OpsOf(Dentry[name].type), Dentry[name].inode, 0, 1)
  <1>1. /\ f \in Fds \ {0, 1} /\ fd_table' = [fd_table EXCEPT ![f] = d]
        /\ opened' = opened \cup {f} /\ delivered' = [delivered EXCEPT ![f] = 0]
        /\ rewound' = rewound \ {f} /\ UNCHANGED process
    BY FirstFreeFdUsable DEF IInv, Open
  <1>2. /\ d \in [ops : Ops, inode : Inodes \cup {-1}, pos : 0 .. WordSize - 1, flags : {0, 1}]
        /\ d.ops # "NULL" /\ d.inode \in Inodes /\ d.pos = 0 /\ d.flags = 1
        /\ Inodes \subseteq Nat
    BY FdAssumption, WordFacts DEF Desc, OpsOf, Ops, TYPE_FILE, TYPE_DIRECTORY, TYPE_RTC
  <1> HIDE DEF f, d
  <1>3. /\ fd_table'[f] = d
        /\ \A fd \in Fds \ {f} : fd_table'[fd] = fd_table[fd]
    BY <1>1 DEF IInv, TypeOK
  <1>4. TypeOK'
    BY <1>1, <1>2 DEF IInv, TypeOK
  <1>5. HeldIsServed'
    BY <1>1, <1>2, <1>3 DEF IInv, HeldIsServed
  <1>6. EveryByteOnce'
    <2>1. d.inode \in Inodes
      BY <1>2
    <2>2. Length[d.inode] \in 0 .. HalfWord
      BY <2>1, FdAssumption
    <2>3. Length[d.inode] \in Nat
      BY <2>2
    <2>4. delivered'[f] = 0 /\ \A fd \in Fds \ {f} : delivered'[fd] = delivered[fd]
      BY <1>1 DEF IInv, TypeOK
    <2>5. QED
      BY <1>1, <1>2, <1>3, <2>3, <2>4 DEF IInv, TypeOK, EveryByteOnce
  <1>7. StdStreamsSurvive' /\ StdHaveNoInode'
    BY <1>1, <1>3, FdAssumption DEF IInv, StdStreamsSurvive, StdHaveNoInode, Fds
  <1>8. QED
    BY <1>4, <1>5, <1>6, <1>7 DEF IInv

\* file_descriptor_table_close.
LEMMA CloseStep == ASSUME IInv, NEW fd \in Fds, Close(fd) PROVE IInv'
  <1>1. /\ process = "running" /\ fd_table[fd].inode # -1
        /\ fd_table' = [fd_table EXCEPT ![fd] = Closed]
        /\ opened' = opened \ {fd}
        /\ UNCHANGED <<process, delivered, rewound>>
    BY DEF Close, CloseEffect
  <1>2. fd # 0 /\ fd # 1 /\ 0 \in Fds /\ 1 \in Fds
    BY <1>1, FdAssumption DEF IInv, StdHaveNoInode, Fds
  <1>3. /\ Closed \in [ops : Ops, inode : Inodes \cup {-1}, pos : 0 .. WordSize - 1, flags : {0, 1}]
        /\ Closed.ops = "NULL" /\ Closed.inode = -1
    BY WordFacts DEF Closed, Desc, Ops
  <1>4. /\ fd_table'[fd] = Closed
        /\ \A g \in Fds \ {fd} : fd_table'[g] = fd_table[g]
    BY <1>1 DEF IInv, TypeOK
  <1>5. TypeOK'
    BY <1>1, <1>3 DEF IInv, TypeOK
  <1>6. HeldIsServed' /\ EveryByteOnce'
    BY <1>1, <1>3, <1>4 DEF IInv, TypeOK, HeldIsServed, EveryByteOnce
  <1>7. StdStreamsSurvive' /\ StdHaveNoInode'
    BY <1>1, <1>2, <1>4 DEF IInv, StdStreamsSurvive,  StdHaveNoInode
  <1>8. QED
    BY <1>5, <1>6, <1>7 DEF IInv

\* Only the position of one held descriptor moves.
LEMMA PositionStep ==
    ASSUME IInv, process = "running", NEW fd \in opened, fd \notin {0, 1},
           NEW at \in 0 .. WordSize - 1,
           fd_table' = [fd_table EXCEPT ![fd].pos = at],
           delivered' \in [Fds -> Nat], rewound' \subseteq Fds, EveryByteOnce',
           UNCHANGED <<process, opened>>
    PROVE  IInv'
  <1>1. fd \in Fds /\ 0 \in Fds /\ 1 \in Fds
    BY FdAssumption DEF IInv, TypeOK, Fds
  <1>2. /\ fd_table' \in [Fds -> [ops : Ops, inode : Inodes \cup {-1}, pos : 0 .. WordSize - 1,
                                  flags : {0, 1}]]
        /\ \A g \in Fds : /\ fd_table'[g].ops = fd_table[g].ops
                          /\ fd_table'[g].inode = fd_table[g].inode
                          /\ fd_table'[g].flags = fd_table[g].flags
    BY <1>1 DEF IInv, TypeOK
  <1>3. TypeOK'
    BY <1>2 DEF IInv, TypeOK
  <1>4. HeldIsServed' /\ StdStreamsSurvive' /\ StdHaveNoInode'
    BY <1>1, <1>2 DEF IInv, HeldIsServed, StdStreamsSurvive, StdHaveNoInode
  <1>5. QED
    BY <1>3, <1>4 DEF IInv

\* Remainders of sums of two words.
LEMMA Remainders ==
    ASSUME NEW x \in Nat
    PROVE  x % WordSize \in 0 .. WordSize - 1 /\ (x < WordSize => x % WordSize = x)
  BY WordFacts

\* Where a read leaves the position, and what it delivers.
LEMMA ReadMoves ==
    ASSUME NEW len \in 0 .. HalfWord, NEW old \in Nat, old < len, NEW nbytes \in Sizes,
           NEW n, n = Unsigned(nbytes), NEW new, new = Advanced(old, n),
           NEW got, got = IF n > len - old THEN len - old ELSE n
    PROVE  /\ new \in 0 .. WordSize - 1 /\ got \in Nat
           /\ ~(nbytes < 0 /\ -nbytes <= old) =>
                  old + got = IF new < len THEN new ELSE len
  <1>1. /\ HalfWord \in Nat /\ HalfWord > 0 /\ nbytes \in Int
        /\ -HalfWord <= nbytes /\ nbytes < HalfWord
    BY FdAssumption DEF Sizes
  <1>2. n \in Nat /\ n < WordSize /\ n = IF nbytes < 0 THEN nbytes + WordSize ELSE nbytes
    BY <1>1, WordFacts DEF Unsigned
  <1>3. new \in 0 .. WordSize - 1 /\ (old + n < WordSize => new = old + n)
    BY <1>2, Remainders DEF Advanced
  <1>4. ASSUME ~(nbytes < 0 /\ -nbytes <= old) PROVE old + n < WordSize
    BY <1>1, <1>2, <1>4, WordFacts
  <1>5. QED BY <1>2, <1>3, <1>4

\* file_read of any size, at the end of the file too.
LEMMA FileReadStep == ASSUME IInv, NEW fd \in Fds, NEW nbytes \in Sizes, FileRead(fd, nbytes)
                      PROVE  IInv'
  <1>. PICK inode, old, n : inode = fd_table[fd].inode /\ old = fd_table[fd].pos
                            /\ n = Unsigned(nbytes)
    OBVIOUS
  <1>. PICK got, new, len : got = DataCount(inode, old, n) /\ new = Advanced(old, n)
                            /\ len = Length[inode]
    OBVIOUS
  <1>. PICK back \in BOOLEAN : back <=> (nbytes < 0 /\ -nbytes <= old)
    OBVIOUS
  <1>1. fd \in opened /\ fd \notin {0, 1} /\ inode \in Inodes
        /\ fd_table[fd].ops = "file" /\ process = "running"
    BY ServedIsHeld DEF FileRead
  <1>2. len \in 0 .. HalfWord /\ old \in Nat /\ delivered[fd] \in Nat
    <2>1. len \in 0 .. HalfWord
      BY <1>1, FdAssumption
    <2>2. old \in Nat /\ delivered[fd] \in Nat
      BY WordFacts DEF IInv, TypeOK
    <2>3. QED BY <2>1, <2>2
  <1>3. /\ got > 0 /\ fd_table' = [fd_table EXCEPT ![fd].pos = new]
        /\ rewound' = IF back THEN rewound \cup {fd} ELSE rewound
        /\ delivered' = IF fd \in rewound' THEN delivered
                        ELSE [delivered EXCEPT ![fd] = delivered[fd] + got]
        /\ UNCHANGED <<process, opened>>
    BY DEF FileRead
  <1>4. old < len /\ got = IF n > len - old THEN len - old ELSE n
    <2>1. old < len
      BY <1>2, <1>3, FdAssumption DEF DataCount
    <2>2. QED BY <1>2, <2>1 DEF DataCount
  <1>5. /\ new \in 0 .. WordSize - 1 /\ got \in Nat
        /\ ~back => old + got = IF new < len THEN new ELSE len
    BY <1>2, <1>4, ReadMoves
  <1>6. rewound' \subseteq Fds /\ rewound \subseteq rewound' /\ (back => fd \in rewound')
    BY <1>3 DEF IInv, TypeOK
  <1>7. delivered' \in [Fds -> Nat]
    BY <1>2, <1>3, <1>5 DEF IInv, TypeOK
  <1>8. /\ fd_table'[fd].pos = new /\ fd_table'[fd].inode = inode
        /\ \A g \in Fds \ {fd} : /\ fd_table'[g] = fd_table[g]
                                 /\ delivered'[g] = delivered[g]
    BY <1>3 DEF IInv, TypeOK
  <1>9. fd \notin rewound' => delivered'[fd] = IF new < len THEN new ELSE len
    <2>. SUFFICES ASSUME fd \notin rewound' PROVE delivered'[fd] = IF new < len THEN new ELSE len
      OBVIOUS
    <2>1. fd \notin rewound /\ ~back
      BY <1>6
    <2>2. delivered[fd] = old
      BY <1>1, <1>2, <1>4, <2>1 DEF IInv, EveryByteOnce
    <2>3. delivered'[fd] = old + got
      BY <1>3, <2>2 DEF IInv, TypeOK
    <2>4. QED BY <1>5, <2>1, <2>3
  <1>10. EveryByteOnce'
    <2> SUFFICES ASSUME NEW g \in opened \ rewound', fd_table'[g].ops = "file"
                 PROVE  delivered'[g] = IF fd_table'[g].pos < Length[fd_table'[g].inode]
                                        THEN fd_table'[g].pos
                                        ELSE Length[fd_table'[g].inode]
      BY <1>3 DEF EveryByteOnce
    <2>1. CASE g = fd
      BY <2>1, <1>8, <1>9
    <2>2. CASE g # fd
      <3>1. g \in Fds
        BY DEF IInv, TypeOK
      <3>2. QED
        BY <2>2, <3>1, <1>6, <1>8 DEF IInv, EveryByteOnce
    <2>3. QED
      BY <2>1, <2>2
  <1>11. QED
    BY <1>1, <1>3, <1>5, <1>6, <1>7, <1>10, PositionStep

\* dir_read of one entry.
LEMMA DirReadStep == ASSUME IInv, NEW fd \in Fds, DirRead(fd) PROVE IInv'
  <1> DEFINE old == fd_table[fd].pos
  <1>1. fd \in opened /\ fd \notin {0, 1} /\ process = "running" /\ old \in Nat
        /\ fd_table[fd].ops = "dir"
    BY ServedIsHeld DEF DirRead, IInv, TypeOK
  <1>2. fd_table' = [fd_table EXCEPT ![fd].pos = old + 1]
        /\ UNCHANGED <<process, opened, delivered, rewound>>
    BY DEF DirRead
  <1> HIDE DEF old
  <1>3. /\ fd_table'[fd].ops = "dir"
        /\ \A g \in Fds \ {fd} : fd_table'[g] = fd_table[g]
    BY <1>1, <1>2 DEF IInv, TypeOK
  <1>4. EveryByteOnce'
    BY <1>2, <1>3 DEF IInv, TypeOK, EveryByteOnce
  <1>5. old + 1 \in 0 .. WordSize - 1 /\ delivered' \in [Fds -> Nat] /\ rewound' \subseteq Fds
    <2>1. old < NumInodes
      BY DEF DirRead, old
    <2>2. old + 1 \in 0 .. WordSize - 1
      BY <1>1, <2>1, FdAssumption, WordFacts
    <2>3. QED BY <1>2, <2>2 DEF IInv, TypeOK
  <1>6. QED
    BY <1>1, <1>2, <1>4, <1>5, PositionStep

\* Every step keeps the inductive invariant.
LEMMA NextIInv == IInv /\ [Next]_vars => IInv'
  <1> SUFFICES ASSUME IInv, [Next]_vars PROVE IInv'
    OBVIOUS
  <1>1. CASE Execute \/ Halt \/ OpenMissing
    BY <1>1, ExecuteStep, HaltStep, OpenMissingStep
  <1>2. CASE \E name \in Names : Open(name)
    BY <1>2, OpenStep
  <1>3. CASE \E fd \in Fds : Close(fd) \/ DirRead(fd)
    BY <1>3, CloseStep, DirReadStep
  <1>4. CASE \E fd \in Fds, n \in Sizes : FileRead(fd, n)
    BY <1>4, FileReadStep
  <1>5. CASE UNCHANGED vars
    BY <1>5 DEF vars, IInv, TypeOK, HeldIsServed, StdStreamsSurvive, EveryByteOnce,
       StdHaveNoInode
  <1>6. QED
    BY <1>1, <1>2, <1>3, <1>4, <1>5 DEF Next

\* What all the theorems below follow from.
LEMMA Invariance == Spec => []IInv
  BY InitIInv, NextIInv, PTL DEF Spec

\* Types hold for every table size, directory and read size.
THEOREM TypeCorrect == Spec => []TypeOK
  <1>1. IInv => TypeOK
    BY DEF IInv
  <1>2. QED
    BY <1>1, Invariance, PTL

\* A process is served exactly the descriptors it holds, after any sequence
\* of opens (failed ones too), closes and reads.
THEOREM HeldServed == Spec => []HeldIsServed
  <1>1. IInv => HeldIsServed
    BY DEF IInv
  <1>2. QED
    BY <1>1, Invariance, PTL

\* No sequence of opens and closes costs a process its terminal.
THEOREM StdStreamsKept == Spec => []StdStreamsSurvive
  <1>1. IInv => StdStreamsSurvive
    BY DEF IInv
  <1>2. QED
    BY <1>1, Invariance, PTL

\* Reading a file in pieces delivers each byte once, although file_read moves
\* the position by the size asked for in words that wrap around, until a read
\* of a negative size moves the position back.
THEOREM BytesOnce == Spec => []EveryByteOnce
  <1>1. IInv => EveryByteOnce
    BY DEF IInv
  <1>2. QED
    BY <1>1, Invariance, PTL

----------------------------------------------------------------------------
(* The file system *)

\* An entry of the directory, or an unused one.
DirEntry(e) == /\ e \in [name : Seq(Chars), type : Nat, inode : Nat]
               /\ Len(e.name) <= FilenameLen

\* What the bytes of an entry are.
LEMMA BytesOfEntry ==
    ASSUME NEW e, DirEntry(e), NEW k \in 0 .. FilenameLen + 3
    PROVE  /\ k < Len(e.name) => EntryBytes(e)[k] = e.name[k + 1]
                                 /\ EntryBytes(e)[k] \in Chars
           /\ k >= Len(e.name) /\ k # FilenameLen => EntryBytes(e)[k] = 0
           /\ k = FilenameLen => EntryBytes(e)[k] = e.type
  <1>. PICK l \in Nat : l = Len(e.name) /\ l <= FilenameLen
    BY DEF DirEntry
  <1>. FilenameLen \in Nat
    BY FsAssumption
  <1>1. EntryBytes(e)[k] = CASE k < Len(e.name) -> e.name[k + 1]
                             [] k = FilenameLen -> e.type
                             [] OTHER           -> 0
    BY DEF EntryBytes
  <1>2. CASE k < l
    <2>1. e.name[k + 1] \in Chars /\ ~(k = FilenameLen)
      <3>1. k + 1 \in 1 .. Len(e.name) /\ e.name \in Seq(Chars)
        BY <1>2 DEF DirEntry
      <3>2. QED BY <3>1, <1>2
    <2>2. EntryBytes(e)[k] = e.name[k + 1]
      BY <1>1, <1>2, <2>1
    <2>3. QED BY <1>2, <2>1, <2>2
  <1>3. CASE ~(k < l)
    BY <1>1, <1>3
  <1>4. QED BY <1>2, <1>3

\* strlen of an entry runs on into the type when the name fills its field.
LEMMA StrlenOfEntry ==
    ASSUME NEW e, DirEntry(e)
    PROVE  Strlen(EntryBytes(e)) = IF Len(e.name) = FilenameLen /\ e.type # 0
                                   THEN FilenameLen + 1 ELSE Len(e.name)
  <1>. PICK l \in Nat : l = Len(e.name) /\ l <= FilenameLen
    BY DEF DirEntry
  <1>. FilenameLen \in Nat
    BY FsAssumption
  <1>. DEFINE s == EntryBytes(e)
              m == IF Len(e.name) = FilenameLen /\ e.type # 0
                   THEN FilenameLen + 1 ELSE Len(e.name)
  <1>1. DOMAIN s = 0 .. FilenameLen + 3
    BY DEF EntryBytes
  <1>2. m \in 0 .. FilenameLen + 3
    OBVIOUS
  <1>3. s[m] = 0
    BY <1>2, BytesOfEntry
  <1>4. \A k \in 0 .. m - 1 : s[k] # 0
    BY <1>2, BytesOfEntry DEF Chars
  <1>5. ASSUME NEW n \in DOMAIN s, s[n] = 0 /\ \A k \in 0 .. n - 1 : s[k] # 0
        PROVE  n = m
    <2>. HIDE DEF s, m
    <2>1. ~(n < m)
      BY <1>1, <1>2, <1>4, <1>5
    <2>2. ~(m < n)
      BY <1>1, <1>2, <1>3, <1>5
    <2>3. QED BY <2>1, <2>2, <1>1, <1>2
  <1>6. Strlen(s) = m
    <2>. HIDE DEF s, m
    <2>1. \E n \in DOMAIN s : s[n] = 0 /\ \A k \in 0 .. n - 1 : s[k] # 0
      BY <1>1, <1>2, <1>3, <1>4
    <2>2. QED BY <2>1, <1>5 DEF Strlen
  <1>7. QED BY <1>6

\* No zero ends the comparison before the end of the name.
LEMMA SameFirstMeans ==
    ASSUME NEW name \in Seq(Chars), NEW r
    PROVE  SameFirst(CString(name), r, Len(name))
               <=> \A k \in 0 .. Len(name) - 1 : name[k + 1] = r[k]
  <1>1. \A k \in 0 .. Len(name) - 1 : CString(name)[k] = name[k + 1] /\ name[k + 1] # 0
    <2>. SUFFICES ASSUME NEW k \in 0 .. Len(name) - 1
                  PROVE  CString(name)[k] = name[k + 1] /\ name[k + 1] # 0
      OBVIOUS
    <2>1. k + 1 \in 1 .. Len(name) /\ k \in 0 .. Len(name) /\ k # Len(name)
      OBVIOUS
    <2>2. name[k + 1] \in Chars
      BY <2>1
    <2>3. QED BY <2>1, <2>2 DEF CString, Chars
  <1>2. QED BY <1>1 DEF SameFirst

\* An entry matches a name if and only if it has this name.
LEMMA MatchesName ==
    ASSUME NEW e, DirEntry(e), NEW name \in Seq(Chars),
           \A k \in 1 .. Len(name) : name[k] # e.type
    PROVE  Len(name) # 0 => (Matches(name, e) <=> e.name = name)
  <1>. SUFFICES ASSUME Len(name) # 0
                PROVE  Matches(name, e) <=> e.name = name
    OBVIOUS
  <1>. PICK l \in Nat : l = Len(e.name) /\ l <= FilenameLen
    BY DEF DirEntry
  <1>. PICK p \in Nat : p = Len(name) /\ p # 0
    OBVIOUS
  <1>. FilenameLen \in Nat /\ e.name \in Seq(Chars) /\ e.type \in Nat
    BY FsAssumption DEF DirEntry
  <1>1. Matches(name, e) <=>
            /\ p = FilenameLen \/ p = Strlen(EntryBytes(e))
            /\ \A k \in 0 .. p - 1 : name[k + 1] = EntryBytes(e)[k]
    BY SameFirstMeans DEF Matches
  <1>2. ASSUME e.name = name PROVE Matches(name, e)
    <2>1. p = FilenameLen \/ p = Strlen(EntryBytes(e))
      BY <1>2, StrlenOfEntry
    <2>2. \A k \in 0 .. p - 1 : name[k + 1] = EntryBytes(e)[k]
      BY <1>2, BytesOfEntry
    <2>3. QED BY <1>1, <2>1, <2>2
  <1>3. ASSUME Matches(name, e) PROVE e.name = name
    <2>1. \A k \in 0 .. p - 1 : name[k + 1] = EntryBytes(e)[k]
      BY <1>1, <1>3
    <2>2. \A k \in 0 .. p - 1 : name[k + 1] # 0 /\ name[k + 1] # e.type
      <3>. SUFFICES ASSUME NEW k \in 0 .. p - 1
                    PROVE  name[k + 1] # 0 /\ name[k + 1] # e.type
        OBVIOUS
      <3>1. k + 1 \in 1 .. Len(name)
        OBVIOUS
      <3>2. name[k + 1] \in Chars
        BY <3>1
      <3>3. QED BY <3>1, <3>2 DEF Chars
    <2>3. p = l
      <3>1. CASE p = FilenameLen
        <4>1. ASSUME l < p PROVE FALSE
          BY <4>1, <3>1, <2>1, <2>2, BytesOfEntry
        <4>2. QED BY <3>1, <4>1
      <3>2. CASE p = Strlen(EntryBytes(e))
        <4>1. ASSUME l = FilenameLen, e.type # 0 PROVE FALSE
          <5>1. p = FilenameLen + 1
            BY <4>1, <3>2, StrlenOfEntry
          <5>2. name[FilenameLen + 1] = EntryBytes(e)[FilenameLen]
            BY <5>1, <2>1
          <5>3. EntryBytes(e)[FilenameLen] = e.type
            BY BytesOfEntry
          <5>4. QED BY <5>1, <5>2, <5>3, <2>2
        <4>2. QED BY <4>1, <3>2, StrlenOfEntry
      <3>3. QED BY <3>1, <3>2, <1>1, <1>3
    <2>4. \A i \in 1 .. l : e.name[i] = name[i]
      <3>. SUFFICES ASSUME NEW i \in 1 .. l PROVE e.name[i] = name[i]
        OBVIOUS
      <3>1. i - 1 \in 0 .. p - 1 /\ (i - 1) + 1 = i /\ i - 1 \in 0 .. FilenameLen + 3
            /\ i - 1 < l
        BY <2>3
      <3>2. name[i] = EntryBytes(e)[i - 1]
        BY <3>1, <2>1
      <3>3. QED BY <3>1, <3>2, BytesOfEntry
    <2>5. QED BY <2>3, <2>4, SeqEqual
  <1>4. QED BY <1>2, <1>3

LEMMA EntriesAreEntries ==
    ASSUME NEW i \in Nat
    PROVE  /\ DirEntry(EntryAt(i))
           /\ i < Len(Entries) => EntryAt(i) = Entries[i + 1]
           /\ i >= Len(Entries) => EntryAt(i).name = << >>
  <1>. PICK l \in Nat : l = Len(Entries)
    BY FsAssumption
  <1>1. CASE i < l
    <2>1. i + 1 \in 1 .. Len(Entries)
      BY <1>1
    <2>2. Entries[i + 1] \in [name : Seq(Chars), type : Nat, inode : Nat]
      <3>1. Entries \in Seq([name : Seq(Chars), type : Nat, inode : Nat])
        BY FsAssumption
      <3>2. QED BY <2>1, <3>1, ElementOfSeq
    <2>3. Len(Entries[i + 1].name) <= FilenameLen
      BY <2>1, FsAssumption
    <2>4. QED BY <1>1, <2>2, <2>3 DEF EntryAt, DirEntry
  <1>2. CASE ~(i < l)
    <2>1. EntryAt(i) = EmptyEntry
      BY <1>2 DEF EntryAt
    <2>2. << >> \in Seq(Chars) /\ Len(<< >>) = 0 /\ 0 <= FilenameLen
      BY FsAssumption
    <2>3. QED BY <1>2, <2>1, <2>2 DEF EmptyEntry, DirEntry
  <1>3. QED BY <1>1, <1>2

LEMMA LookupRight ==
    ASSUME NEW name \in Queries PROVE read_dentry_by_name(name) = Lookup(name)
  <1>. PICK l \in Nat : l = Len(Entries) /\ l <= MaxDirectory
    BY FsAssumption
  <1>. MaxDirectory \in Nat /\ name \in Seq(Chars)
    BY FsAssumption
  <1>. DEFINE hits == {i \in 0 .. MaxDirectory - 1 : Matches(name, EntryAt(i))}
              named == {i \in 1 .. Len(Entries) : Entries[i].name = name}
  <1>1. CASE Len(name) = 0
    <2>1. named = {}
      BY <1>1, FsAssumption
    <2>2. QED BY <1>1, <2>1 DEF Lookup, read_dentry_by_name
  <1>2. CASE Len(name) # 0
    <2>1. ASSUME NEW i \in 0 .. MaxDirectory - 1
          PROVE  i \in hits <=> i + 1 \in named
      <3>1. DirEntry(EntryAt(i))
        BY EntriesAreEntries
      <3>2. \A k \in 1 .. Len(name) : name[k] # EntryAt(i).type
        <4>1. CASE i < l
          <5>1. i + 1 \in 1 .. Len(Entries) /\ EntryAt(i) = Entries[i + 1]
            BY <4>1, EntriesAreEntries
          <5>2. QED BY <5>1, FsAssumption
        <4>2. CASE ~(i < l)
          <5>1. EntryAt(i).type = 0
            BY <4>2 DEF EntryAt, EmptyEntry
          <5>2. \A k \in 1 .. Len(name) : name[k] \in Chars
            OBVIOUS
          <5>3. QED BY <5>1, <5>2 DEF Chars
        <4>3. QED BY <4>1, <4>2
      <3>3. Matches(name, EntryAt(i)) <=> EntryAt(i).name = name
        BY <3>1, <3>2, <1>2, MatchesName
      <3>4. CASE i < l
        BY <3>3, <3>4, EntriesAreEntries
      <3>5. CASE ~(i < l)
        <4>1. EntryAt(i).name # name
          BY <3>5, <1>2, EntriesAreEntries
        <4>2. QED BY <4>1, <3>3, <3>5
      <3>6. QED BY <3>4, <3>5
    <2>2. \A j \in named : j \in Nat /\ j - 1 \in hits
      <3>. SUFFICES ASSUME NEW j \in named PROVE j \in Nat /\ j - 1 \in hits
        OBVIOUS
      <3>1. j \in 1 .. l /\ j - 1 \in 0 .. MaxDirectory - 1 /\ (j - 1) + 1 = j
        OBVIOUS
      <3>2. QED BY <3>1, <2>1
    <2>3. hits \subseteq Nat /\ \A i \in hits : i + 1 \in named
      BY <2>1
    <2>4. CASE named = {}
      <3>1. hits = {}
        BY <2>3, <2>4
      <3>2. QED BY <2>4, <3>1 DEF Lookup, read_dentry_by_name
    <2>5. CASE named # {}
      <3>. HIDE DEF hits, named
      <3>1. hits # {}
        BY <2>2, <2>5
      <3>2. PICK m \in hits : \A j \in hits : m <= j
        BY <3>1, <2>3, LeastNat
      <3>3. m + 1 \in named /\ \A j \in named : m + 1 <= j
        BY <3>2, <2>2, <2>3
      <3>4. (CHOOSE i \in hits : \A j \in hits : i <= j) = m
        <4>1. \A i \in hits : (\A j \in hits : i <= j) => i = m
          BY <3>2, <2>3
        <4>2. QED BY <3>2, <4>1
      <3>5. (CHOOSE i \in named : \A j \in named : i <= j) = m + 1
        <4>1. \A i \in named : (\A j \in named : i <= j) => i = m + 1
          BY <3>3, <2>2, <2>3
        <4>2. QED BY <3>3, <4>1
      <3>6. read_dentry_by_name(name) = m
        BY <1>2, <3>1, <3>4 DEF read_dentry_by_name, hits
      <3>7. Lookup(name) = (m + 1) - 1
        BY <2>5, <3>5 DEF Lookup, named
      <3>8. QED BY <3>6, <3>7, <2>3
    <2>6. QED BY <2>4, <2>5
  <1>3. QED BY <1>1, <1>2

----------------------------------------------------------------------------
\* read_data

LEMMA DivisionUnique ==
    ASSUME NEW B \in Nat \ {0}, NEW q \in Nat, NEW x \in 0 .. B - 1
    PROVE  (q * B + x) \div B = q /\ (q * B + x) % B = x
  <1>1. q * B \in Nat
    OBVIOUS
  <1>2. PICK j \in Nat : j = q * B + x
    BY <1>1
  <1>3. PICK d \in Int, r \in 0 .. B - 1 : j \div B = d /\ j % B = r /\ j = B * d + r
    <2>1. j \div B \in Int /\ j % B \in 0 .. B - 1 /\ j = B * (j \div B) + (j % B)
      OBVIOUS
    <2>2. QED BY <2>1
  <1>4. d = q
    <2>1. B * (d - q) = x - r
      BY <1>2, <1>3
    <2>2. ASSUME NEW z \in Int, B * z = x - r PROVE z = 0
      <3>1. x - r < B /\ x - r > -B
        OBVIOUS
      <3>2. ASSUME z >= 1 PROVE FALSE
        <4>1. B * z >= B
          BY <3>2
        <4>2. QED BY <4>1, <3>1, <2>2
      <3>3. ASSUME z <= -1 PROVE FALSE
        <4>1. B * z <= -B
          BY <3>3
        <4>2. QED BY <4>1, <3>1, <2>2
      <3>4. QED BY <3>2, <3>3
    <2>3. d - q \in Int
      OBVIOUS
    <2>4. d - q = 0
      BY <2>1, <2>2, <2>3
    <2>5. QED BY <2>4
  <1>5. r = x
    BY <1>2, <1>3, <1>4
  <1>6. QED BY <1>2, <1>3, <1>4, <1>5

\* Bytes lo up to hi of a file, counted from 0, by the blocks they are in.
ByteAt(n, j) == Byte(BlockNum[n][j \div BlockSize + 1], j % BlockSize)
Part(n, lo, hi) == [k \in 1 .. hi - lo |-> ByteAt(n, (lo + k) - 1)]

LEMMA ConcatParts ==
    ASSUME NEW n, NEW lo \in Nat, NEW mid \in Nat, NEW hi \in Nat, lo <= mid, mid <= hi
    PROVE  Part(n, lo, mid) \o Part(n, mid, hi) = Part(n, lo, hi)
  <1>. PICK a \in Nat : a = mid - lo
    OBVIOUS
  <1>. PICK b \in Nat : b = hi - mid
    OBVIOUS
  <1>0. hi - lo = a + b /\ a + b \in Nat /\ lo + a = mid
    OBVIOUS
  <1>. DEFINE s == Part(n, lo, mid)
              t == Part(n, mid, hi)
              u == Part(n, lo, hi)
  <1>1. s = [k \in 1 .. a |-> ByteAt(n, (lo + k) - 1)]
        /\ t = [k \in 1 .. b |-> ByteAt(n, (mid + k) - 1)]
        /\ u = [k \in 1 .. a + b |-> ByteAt(n, (lo + k) - 1)]
    BY <1>0 DEF Part
  <1>. HIDE DEF s, t, u
  <1>. DEFINE S == {ByteAt(n, i) : i \in Int}
  <1>2. /\ \A k \in 1 .. a : ByteAt(n, (lo + k) - 1) \in S
        /\ \A k \in 1 .. b : ByteAt(n, (mid + k) - 1) \in S
        /\ \A k \in 1 .. a + b : ByteAt(n, (lo + k) - 1) \in S
    <2>1. \A j \in Int : ByteAt(n, j) \in S
      OBVIOUS
    <2>. HIDE DEF S
    <2>2. \A k \in Int : (lo + k) - 1 \in Int /\ (mid + k) - 1 \in Int
      OBVIOUS
    <2>3. QED BY <2>1, <2>2
  <1>. HIDE DEF S
  <1>3. s \in Seq(S) /\ Len(s) = a
    BY <1>1, <1>2, IsASeq
  <1>4. t \in Seq(S) /\ Len(t) = b
    BY <1>1, <1>2, IsASeq
  <1>5. u \in Seq(S) /\ Len(u) = a + b
    BY <1>0, <1>1, <1>2, IsASeq
  <1>6. s \o t \in Seq(S) /\ Len(s \o t) = a + b
    BY <1>3, <1>4, ConcatProperties
  <1>7. \A i \in 1 .. a + b : (s \o t)[i] = u[i]
    <2>. SUFFICES ASSUME NEW i \in 1 .. a + b PROVE (s \o t)[i] = u[i]
      OBVIOUS
    <2>1. (s \o t)[i] = IF i <= a THEN s[i] ELSE t[i - a]
      BY <1>3, <1>4, ConcatProperties
    <2>2. CASE i <= a
      <3>1. i \in 1 .. a
        BY <2>2
      <3>2. QED BY <2>1, <2>2, <3>1, <1>1
    <2>3. CASE ~(i <= a)
      <3>1. i - a \in 1 .. b /\ (mid + (i - a)) - 1 = (lo + i) - 1
        BY <2>3, <1>0
      <3>2. t[i - a] = ByteAt(n, (mid + (i - a)) - 1)
        BY <3>1, <1>1
      <3>3. QED BY <2>1, <2>3, <3>1, <3>2, <1>1
    <2>4. QED BY <2>2, <2>3
  <1>8. QED
    <2>1. s \o t = u
      BY <1>5, <1>6, <1>7, SeqEqual
    <2>2. QED BY <2>1 DEF s, t, u

\* A byte of a file that fits into l blocks lies in one of them.
LEMMA BlockWithin ==
    ASSUME NEW B \in Nat \ {0}, NEW index \in Nat, NEW x \in 0 .. B - 1,
           NEW l \in Nat, NEW f \in Nat, l * B >= f, index * B + x < f
    PROVE  index < l
  <1>1. ASSUME l <= index PROVE FALSE
    <2>1. PICK d \in Nat : index = l + d
      <3>1. index - l \in Nat /\ index = l + (index - l)
        BY <1>1
      <3>2. QED BY <3>1
    <2>2. index * B = l * B + d * B /\ d * B \in Nat /\ l * B \in Nat
      BY <2>1
    <2>3. QED BY <2>2
  <1>2. QED BY <1>1

\* A file has a number of blocks.
LEMMA BlocksCounted ==
    ASSUME NEW n \in DOMAIN FileLength
    PROVE  Len(BlockNum[n]) \in Nat
  <1>1. BlockNum[n] \in Seq(Nat)
    BY FsAssumption
  <1>2. QED BY <1>1, LenProperties

\* What one round of the loop copies, when it copies anything.
LEMMA BlockIsPart ==
    ASSUME NEW n \in DOMAIN FileLength, NEW index \in Nat,
           NEW begin \in Nat, NEW end \in Nat, begin <= end, end <= BlockSize,
           index * BlockSize + end <= FileLength[n]
    PROVE  BlockBytes(DataBlock(n, index), begin, end) =
               Part(n, index * BlockSize + begin, index * BlockSize + end)
  <1>. PICK B \in Nat \ {0} : B = BlockSize
    BY FsAssumption
  <1>. PICK q \in Nat : q = index * B
    OBVIOUS
  <1>. PICK c \in Nat : c = end - begin /\ c = (q + end) - (q + begin)
    OBVIOUS
  <1>1. ASSUME NEW k \in 1 .. c
        PROVE  ByteAt(n, ((q + begin) + k) - 1)
                   = Byte(DataBlock(n, index), (begin + k) - 1)
    <2>1. PICK x \in 0 .. B - 1 : x = (begin + k) - 1
      OBVIOUS
    <2>2. ((q + begin) + k) - 1 = index * B + x
      BY <2>1
    <2>3. (index * B + x) \div B = index /\ (index * B + x) % B = x
      BY DivisionUnique
    <2>4. ByteAt(n, ((q + begin) + k) - 1) = Byte(BlockNum[n][index + 1], x)
      BY <2>2, <2>3 DEF ByteAt
    <2>5. index < Len(BlockNum[n])
      <3>0. BlockNum[n] \in Seq(Nat) /\ FileLength[n] \in Nat
            /\ Len(BlockNum[n]) * BlockSize >= FileLength[n]
        BY FsAssumption
      <3>1. Len(BlockNum[n]) \in Nat
        BY BlocksCounted
      <3>2. index * B + x < FileLength[n]
        BY <3>0, <2>1
      <3>3. Len(BlockNum[n]) * B >= FileLength[n]
        BY <3>0
      <3>4. QED BY <3>0, <3>1, <3>2, <3>3, BlockWithin
    <2>6. QED BY <2>1, <2>4, <2>5 DEF DataBlock
  <1>2. BlockBytes(DataBlock(n, index), begin, end)
            = [k \in 1 .. c |-> Byte(DataBlock(n, index), (begin + k) - 1)]
    BY DEF BlockBytes
  <1>3. Part(n, q + begin, q + end) = [k \in 1 .. c |-> ByteAt(n, ((q + begin) + k) - 1)]
    BY DEF Part
  <1>. HIDE DEF Part, BlockBytes, DataBlock, ByteAt, Byte
  <1>4. QED BY <1>1, <1>2, <1>3

\* A loop that appends one piece per round, and a closed form of its results.
Appends(f, piece, first, last) ==
    \A i \in first - 1 .. last : f[i] = IF i < first THEN << >> ELSE f[i - 1] \o piece[i]
Sums(sum, piece, first, last) ==
    /\ sum[first - 1] = << >>
    /\ \A i \in first .. last : sum[i - 1] \o piece[i] = sum[i]

LEMMA LoopIs ==
    ASSUME NEW first \in Nat, NEW last \in Nat, first <= last, NEW piece,
           NEW sum, Sums(sum, piece, first, last),
           NEW f, Appends(f, piece, first, last)
    PROVE  f[last] = sum[last]
  <1>. USE DEF Appends, Sums
  <1>1. f[first - 1] = << >>
    OBVIOUS
  <1>2. ASSUME NEW i \in first .. last PROVE f[i] = f[i - 1] \o piece[i]
    <2>1. i \in first - 1 .. last /\ ~(i < first)
      OBVIOUS
    <2>2. QED BY <2>1
  <1>. DEFINE T == {d \in Nat : d <= last - first /\ f[d + first] # sum[d + first]}
  <1>3. ASSUME T # {} PROVE FALSE
    <2>1. PICK m \in T : \A k \in T : m <= k
      BY <1>3, LeastNat
    <2>2. m + first \in first .. last
      BY <2>1
    <2>3. f[(m + first) - 1] = sum[(m + first) - 1]
      <3>1. CASE m = 0
        BY <3>1, <1>1
      <3>2. CASE m # 0
        <4>1. m - 1 \in Nat /\ m - 1 <= last - first /\ (m - 1) + first = (m + first) - 1
              /\ ~(m <= m - 1)
          BY <2>1, <3>2
        <4>2. m - 1 \notin T
          BY <2>1, <4>1
        <4>3. QED BY <4>1, <4>2
      <3>3. QED BY <3>1, <3>2
    <2>4. f[m + first] = sum[m + first]
      BY <1>2, <2>2, <2>3
    <2>5. QED BY <2>1, <2>4
  <1>4. PICK d \in Nat : d = last - first /\ d + first = last
    OBVIOUS
  <1>5. d \notin T
    BY <1>3
  <1>6. QED BY <1>4, <1>5

\* The loop of read_data copies the bytes of the file from offset on, for a
\* length that does not go past its end.
LEMMA CopyRight ==
    ASSUME NEW n \in DOMAIN FileLength, NEW offset \in Nat, NEW length \in Nat,
           offset + length <= FileLength[n]
    PROVE  CopyBlocks(n, offset, length) = Part(n, offset, offset + length)
  <1>. PICK B \in Nat \ {0} : B = BlockSize
    BY FsAssumption
  <1>. PICK e \in Nat : e = offset + length
    OBVIOUS
  <1>. DEFINE first == offset \div BlockSize
              last == (offset + length) \div BlockSize
              begin(index) == IF index = first THEN offset % BlockSize ELSE 0
              end(index) == IF index = last THEN (offset + length) % BlockSize
                            ELSE BlockSize
              body(f) == [index \in first - 1 .. last |->
                             IF index < first THEN << >>
                             ELSE f[index - 1] \o BlockBytes(DataBlock(n, index),
                                                             begin(index), end(index))]
              copied == CHOOSE f : f = body(f)
  <1>1. CopyBlocks(n, offset, length) = copied[last]
    BY DEF CopyBlocks
  <1>2. /\ first \in Nat /\ offset % B \in 0 .. B - 1 /\ offset = first * B + (offset % B)
        /\ last \in Nat /\ e % B \in 0 .. B - 1 /\ e = last * B + (e % B)
    <2>1. \A x \in Nat : /\ x \div B \in Nat /\ x % B \in 0 .. B - 1
                        /\ x = (x \div B) * B + (x % B)
      BY SMT
    <2>2. QED BY <2>1
  <1>3. PICK ob \in 0 .. B - 1, eb \in 0 .. B - 1 : ob = offset % BlockSize
            /\ eb = (offset + length) % BlockSize
            /\ offset = first * B + ob /\ e = last * B + eb
    BY <1>2
  <1>4. first \in Nat /\ last \in Nat
    BY <1>2
  <1>5. /\ \A i \in Nat : i = first => begin(i) = ob
        /\ \A i \in Nat : i # first => begin(i) = 0
        /\ \A i \in Nat : i = last => end(i) = eb
        /\ \A i \in Nat : i # last => end(i) = B
    BY <1>3
  <1>. DEFINE upTo == [i \in first - 1 .. last |->
                         IF i = last THEN e ELSE IF i < first THEN offset ELSE i * B + B]
  <1>. HIDE DEF first, last, begin, end
  <1>6. first <= last
    <2>1. ASSUME last + 1 <= first PROVE FALSE
      <3>1. PICK d \in Nat : first = (last + 1) + d
        <4>1. first - (last + 1) \in Nat /\ first = (last + 1) + (first - (last + 1))
          BY <2>1, <1>4
        <4>2. QED BY <4>1
      <3>2. first * B = last * B + B + d * B /\ d * B \in Nat /\ last * B \in Nat
        BY <3>1, <1>4
      <3>3. QED BY <3>2, <1>3
    <2>2. QED BY <2>1, <1>4
  <1>7. ASSUME NEW i \in first .. last
        PROVE  /\ i \in Nat /\ i * B \in Nat
               /\ upTo[i - 1] = i * B + begin(i) /\ upTo[i] = i * B + end(i)
               /\ begin(i) \in Nat /\ end(i) \in Nat /\ begin(i) <= end(i) /\ end(i) <= B
               /\ i * B + end(i) <= e
               /\ offset <= i * B + begin(i)
    <2>1. i \in Nat /\ i * B \in Nat /\ i - 1 \in first - 1 .. last
          /\ i \in first - 1 .. last /\ ~(i < first) /\ i - 1 # last
      BY <1>4
    <2>2. upTo[i] = i * B + end(i)
      <3>1. upTo[i] = IF i = last THEN e ELSE i * B + B
        BY <2>1
      <3>2. QED BY <3>1, <2>1, <1>3, <1>5
    <2>3. upTo[i - 1] = i * B + begin(i)
      <3>1. upTo[i - 1] = IF i - 1 < first THEN offset ELSE (i - 1) * B + B
        BY <2>1
      <3>2. CASE i = first
        <4>1. i - 1 < first
          BY <3>2, <2>1
        <4>2. QED BY <3>1, <3>2, <4>1, <2>1, <1>3, <1>5
      <3>3. CASE i # first
        <4>1. ~(i - 1 < first) /\ (i - 1) * B + B = i * B
          BY <3>3, <2>1, <1>4
        <4>2. begin(i) = 0
          BY <3>3, <2>1, <1>5
        <4>3. QED BY <3>1, <4>1, <4>2, <2>1
      <3>4. QED BY <3>2, <3>3
    <2>4. begin(i) \in Nat /\ end(i) \in Nat /\ end(i) <= B /\ begin(i) <= B
      <3>1. begin(i) \in {ob, 0} /\ end(i) \in {eb, B}
        BY <2>1, <1>5
      <3>2. QED BY <3>1
    <2>5. begin(i) <= end(i)
      <3>1. CASE i = last /\ i = first
        <4>1. begin(i) = ob /\ end(i) = eb
          BY <3>1, <2>1, <1>5
        <4>2. PICK p \in Nat : p = first * B /\ p = last * B
          BY <3>1, <1>4
        <4>3. offset = p + ob /\ e = p + eb
          BY <4>2, <1>3
        <4>4. QED BY <4>1, <4>3, <1>3
      <3>2. CASE i # last
        <4>1. end(i) = B
          BY <3>2, <2>1, <1>5
        <4>2. QED BY <4>1, <2>4
      <3>3. CASE i # first
        <4>1. begin(i) = 0
          BY <3>3, <2>1, <1>5
        <4>2. QED BY <4>1, <2>4
      <3>4. QED BY <3>1, <3>2, <3>3
    <2>6. i * B + end(i) <= e
      <3>1. CASE i = last
        BY <3>1, <2>1, <1>3, <1>5
      <3>2. CASE i # last
        <4>1. PICK d \in Nat : last = (i + 1) + d
          <5>1. last - (i + 1) \in Nat /\ last = (i + 1) + (last - (i + 1))
            BY <3>2, <2>1, <1>4
          <5>2. QED BY <5>1
        <4>2. last * B = i * B + B + d * B /\ d * B \in Nat /\ i * B \in Nat
          BY <4>1, <2>1
        <4>3. end(i) = B
          BY <3>2, <2>1, <1>5
        <4>4. QED BY <4>2, <4>3, <1>3
      <3>3. QED BY <3>1, <3>2
    <2>7. offset <= i * B + begin(i)
      <3>1. CASE i = first
        BY <3>1, <2>1, <1>3, <1>5
      <3>2. CASE i # first
        <4>1. PICK d \in Nat : i = (first + 1) + d
          <5>1. i - (first + 1) \in Nat /\ i = (first + 1) + (i - (first + 1))
            BY <3>2, <2>1, <1>4
          <5>2. QED BY <5>1
        <4>2. i * B = first * B + B + d * B /\ d * B \in Nat /\ first * B \in Nat
          BY <4>1, <1>4
        <4>3. begin(i) = 0
          BY <3>2, <2>1, <1>5
        <4>4. QED BY <4>2, <4>3, <1>3
      <3>3. QED BY <3>1, <3>2
    <2>. HIDE DEF upTo
    <2>8. QED BY <2>1, <2>2, <2>3, <2>4, <2>5, <2>6, <2>7
  <1>. DEFINE sum == [i \in first - 1 .. last |-> Part(n, offset, upTo[i])]
              piece == [i \in first .. last |->
                           BlockBytes(DataBlock(n, i), begin(i), end(i))]
  <1>8. sum[first - 1] = << >>
    <2>1. first - 1 \in first - 1 .. last /\ first - 1 # last /\ first - 1 < first
      BY <1>4, <1>6
    <2>2. upTo[first - 1] = offset
      BY <2>1
    <2>3. sum[first - 1] = Part(n, offset, offset)
      BY <2>1, <2>2
    <2>4. 1 .. offset - offset = {}
      OBVIOUS
    <2>5. Part(n, offset, offset) = << >>
      BY <2>4 DEF Part
    <2>6. QED BY <2>3, <2>5
  <1>9. ASSUME NEW i \in first .. last PROVE sum[i - 1] \o piece[i] = sum[i]
    <2>. HIDE DEF upTo
    <2>1. i - 1 \in first - 1 .. last /\ i \in first - 1 .. last
      BY <1>4
    <2>2. sum[i - 1] = Part(n, offset, i * B + begin(i))
          /\ sum[i] = Part(n, offset, i * B + end(i))
      BY <2>1, <1>7
    <2>3. piece[i] = Part(n, i * B + begin(i), i * B + end(i))
      <3>1. i * BlockSize + end(i) <= FileLength[n]
        <4>1. FileLength[n] \in Nat
          BY FsAssumption
        <4>2. PICK u \in Nat : u = i * BlockSize + end(i) /\ u <= e
          BY <1>7
        <4>3. QED BY <4>1, <4>2
      <3>2. QED BY <3>1, <1>7, BlockIsPart
    <2>4. PICK mid \in Nat, hi \in Nat : mid = i * B + begin(i) /\ hi = i * B + end(i)
              /\ offset <= mid /\ mid <= hi
      BY <1>7
    <2>5. Part(n, offset, mid) \o Part(n, mid, hi) = Part(n, offset, hi)
      <3>1. offset <= mid /\ mid <= hi
        BY <2>4
      <3>2. QED BY <3>1, ConcatParts
    <2>. HIDE DEF sum, piece
    <2>6. QED BY <2>2, <2>3, <2>4, <2>5
  <1>10. sum = body(sum)
    <2>1. ASSUME NEW i \in first - 1 .. last
          PROVE  sum[i] = IF i < first THEN << >>
                          ELSE sum[i - 1] \o BlockBytes(DataBlock(n, i), begin(i), end(i))
      <3>. HIDE DEF upTo
      <3>1. CASE i < first
        <4>1. i = first - 1
          BY <3>1, <1>4
        <4>. HIDE DEF sum
        <4>2. QED BY <4>1, <3>1, <1>8
      <3>2. CASE ~(i < first)
        <4>1. i \in first .. last
          BY <3>2, <1>4
        <4>2. piece[i] = BlockBytes(DataBlock(n, i), begin(i), end(i))
          BY <4>1
        <4>. HIDE DEF sum, piece
        <4>3. QED BY <4>1, <4>2, <3>2, <1>9
      <3>3. QED BY <3>1, <3>2
    <2>2. sum = [i \in first - 1 .. last |-> sum[i]]
      <3>. HIDE DEF upTo
      <3>1. QED OBVIOUS
    <2>. HIDE DEF sum
    <2>3. QED BY <2>1, <2>2
  <1>11. copied = body(copied)
    <2>. HIDE DEF sum, body
    <2>1. \E f : f = body(f)
      BY <1>10, Zenon
    <2>2. QED BY <2>1, Zenon
  <1>12. ASSUME NEW i \in first - 1 .. last
         PROVE  copied[i] = IF i < first THEN << >> ELSE copied[i - 1] \o piece[i]
    <2>. HIDE DEF copied
    <2>1. copied[i] = body(copied)[i]
      BY <1>11
    <2>2. CASE i < first
      BY <2>1, <2>2
    <2>3. CASE ~(i < first)
      <3>1. i \in first .. last
        BY <2>3, <1>4
      <3>2. piece[i] = BlockBytes(DataBlock(n, i), begin(i), end(i))
        BY <3>1
      <3>. HIDE DEF piece
      <3>3. body(copied)[i] = copied[i - 1] \o BlockBytes(DataBlock(n, i), begin(i), end(i))
        BY <2>3
      <3>4. QED BY <2>1, <2>3, <3>2, <3>3
    <2>4. QED BY <2>2, <2>3
  <1>13. copied[last] = sum[last]
    <2>. HIDE DEF sum, piece, copied
    <2>1. Sums(sum, piece, first, last)
      BY <1>8, <1>9 DEF Sums
    <2>2. Appends(copied, piece, first, last)
      BY <1>12 DEF Appends
    <2>3. QED BY <1>4, <1>6, <2>1, <2>2, LoopIs
  <1>14. sum[last] = Part(n, offset, e)
    <2>1. last \in first - 1 .. last
      BY <1>4, <1>6
    <2>2. QED BY <2>1
  <1>15. QED BY <1>1, <1>13, <1>14

LEMMA ReadRight ==
    ASSUME NEW n \in (DOMAIN FileLength) \cup {-1, InodeCount},
           NEW offset \in Nat, NEW length \in Nat
    PROVE  read_data(n, offset, length) = Slice(n, offset, length)
  <1>0. InodeCount \in Nat
    BY FsAssumption
  <1>1. CASE n \in {-1, InodeCount}
    BY <1>0, <1>1 DEF read_data, Slice
  <1>2. CASE n \in DOMAIN FileLength
    <2>1. n \in 0 .. InodeCount - 1
      BY <1>2, FsAssumption
    <2>2. PICK f \in Nat : f = FileLength[n]
      BY <1>2, FsAssumption
    <2>3. DOMAIN FileBytes(n) = 1 .. f
          /\ \A k \in 1 .. f : FileBytes(n)[k] = ByteAt(n, k - 1)
      <3>1. FileBytes(n) = [k \in 1 .. f |-> ByteAt(n, k - 1)]
        BY <2>2 DEF FileBytes, ByteAt
      <3>. HIDE DEF ByteAt
      <3>2. QED BY <3>1
    <2>4. ASSUME NEW to \in Nat, to <= f
          PROVE  SubSeq(FileBytes(n), offset + 1, to) = Part(n, offset, to)
      <3>1. SubSeq(FileBytes(n), offset + 1, to)
                = [k \in 1 .. (1 + to) - (offset + 1) |-> FileBytes(n)[(k + (offset + 1)) - 1]]
        <4>. HIDE DEF FileBytes
        <4>1. QED OBVIOUS
      <3>2. (1 + to) - (offset + 1) = to - offset
        OBVIOUS
      <3>3. ASSUME NEW k \in 1 .. to - offset
            PROVE  FileBytes(n)[(k + (offset + 1)) - 1] = ByteAt(n, (offset + k) - 1)
        <4>1. offset + k \in 1 .. f /\ (k + (offset + 1)) - 1 = offset + k
          BY <2>4
        <4>2. QED BY <4>1, <2>3
      <3>. HIDE DEF FileBytes, ByteAt
      <3>4. QED BY <3>1, <3>2, <3>3 DEF Part
    <2>5. PICK to \in Nat : to = IF offset + length > f THEN f ELSE offset + length
      OBVIOUS
    <2>6. Slice(n, offset, length) = Part(n, offset, to)
      <3>1. Slice(n, offset, length) = SubSeq(FileBytes(n), offset + 1, to)
        BY <2>1, <2>2, <2>5 DEF Slice
      <3>2. to <= f
        BY <2>5
      <3>3. QED BY <3>1, <3>2, <2>4
    <2>7. CASE offset >= f
      <3>1. read_data(n, offset, length) = << >>
        BY <2>1, <2>2, <2>7, <1>0 DEF read_data
      <3>2. 1 .. to - offset = {}
        BY <2>5, <2>7
      <3>3. Part(n, offset, to) = << >>
        BY <3>2 DEF Part
      <3>4. QED BY <3>1, <3>3, <2>6
    <2>8. CASE ~(offset >= f)
      <3>1. PICK l \in Nat : /\ l = IF length > f - offset THEN f - offset ELSE length
                            /\ offset + l <= f /\ offset + l = to
        BY <2>5, <2>8
      <3>2. read_data(n, offset, length) = CopyBlocks(n, offset, l)
        <4>. HIDE DEF CopyBlocks
        <4>1. ~(n >= InodeCount \/ n < 0)
          BY <2>1, <1>0
        <4>2. QED BY <4>1, <2>2, <2>8, <3>1 DEF read_data
      <3>3. CopyBlocks(n, offset, l) = Part(n, offset, to)
        <4>1. offset + l <= FileLength[n] /\ offset + l = to
          BY <3>1, <2>2
        <4>2. QED BY <4>1, <1>2, CopyRight, Zenon
      <3>4. QED BY <3>2, <3>3, <2>6
    <2>9. QED BY <2>7, <2>8
  <1>3. QED BY <1>1, <1>2

\* A lookup finds exactly the entry with the name, in every directory whose
\* names fit their fields and for every name of text characters.
THEOREM LookupsRight == FsSpec => []LookupCorrect
  <1>1. FsInit => LookupCorrect
    BY DEF FsInit, Nothing, LookupCorrect
  <1>2. LookupCorrect /\ [FsNext]_fsVars => LookupCorrect'
    <2>. SUFFICES ASSUME LookupCorrect, [FsNext]_fsVars PROVE LookupCorrect'
      OBVIOUS
    <2>1. ASSUME NEW name \in Queries, LookupCall(name) PROVE LookupCorrect'
      BY <2>1, LookupRight DEF LookupCall, LookupCorrect
    <2>2. ASSUME NEW n, NEW offset, NEW length, ReadCall(n, offset, length)
          PROVE  LookupCorrect'
      BY <2>2 DEF ReadCall, LookupCorrect
    <2>3. CASE DirReadMore \/ DirReadEnd
      BY <2>3 DEF DirReadMore, DirReadEnd, Nothing, LookupCorrect
    <2>4. CASE UNCHANGED fsVars
      BY <2>4 DEF fsVars, LookupCorrect
    <2>5. QED BY <2>1, <2>2, <2>3, <2>4 DEF FsNext
  <1>3. QED BY <1>1, <1>2, PTL DEF FsSpec

\* A read returns the bytes of the file it asks for, for blocks and files of
\* any size and however its beginning and its end lie in their blocks.
THEOREM ReadsRight == FsSpec => []ReadCorrect
  <1>1. FsInit => ReadCorrect
    BY DEF FsInit, Nothing, ReadCorrect
  <1>2. ReadCorrect /\ [FsNext]_fsVars => ReadCorrect'
    <2>. SUFFICES ASSUME ReadCorrect, [FsNext]_fsVars PROVE ReadCorrect'
      OBVIOUS
    <2>1. ASSUME NEW name \in Queries, LookupCall(name) PROVE ReadCorrect'
      BY <2>1 DEF LookupCall, ReadCorrect
    <2>2. ASSUME NEW n \in (DOMAIN FileLength) \cup {-1, InodeCount},
                 NEW offset \in 0 .. MaxOffset, NEW length \in 0 .. MaxLength,
                 ReadCall(n, offset, length)
          PROVE  ReadCorrect'
      <3>1. read_data(n, offset, length) = Slice(n, offset, length)
        BY ReadRight
      <3>2. QED BY <2>2, <3>1 DEF ReadCall, ReadCorrect
    <2>3. CASE DirReadMore \/ DirReadEnd
      BY <2>3 DEF DirReadMore, DirReadEnd, Nothing, ReadCorrect
    <2>4. CASE UNCHANGED fsVars
      BY <2>4 DEF fsVars, ReadCorrect
    <2>5. QED BY <2>1, <2>2, <2>3, <2>4 DEF FsNext
  <1>3. QED BY <1>1, <1>2, PTL DEF FsSpec

\* What has been listed at a position of the descriptor.
NameAt(i) == IF i <= Len(Entries) THEN Entries[i].name ELSE << >>
ListedSoFar ==
    /\ pos \in Nat
    /\ listed \in Seq(Seq(Chars))
    /\ pos < DirLimit => Len(listed) = pos
    /\ pos >= DirLimit => Len(listed) + 1 >= DirLimit
    /\ \A i \in 1 .. Len(listed) : listed[i] = NameAt(i)

LEMMA NextListed == ListedSoFar /\ [FsNext]_fsVars => ListedSoFar'
  <1>. SUFFICES ASSUME ListedSoFar, [FsNext]_fsVars PROVE ListedSoFar'
    OBVIOUS
  <1>. DirLimit \in Nat /\ Entries \in Seq([name : Seq(Chars), type : Nat, inode : Nat])
    BY FsAssumption
  <1>. PICK m \in Nat : m = Len(Entries)
    OBVIOUS
  <1>. USE DEF ListedSoFar
  <1>1. CASE UNCHANGED <<pos, listed>>
    BY <1>1
  <1>2. CASE DirReadMore
    <2>1. EntryAt(pos).name \in Seq(Chars)
          /\ EntryAt(pos).name = NameAt(pos + 1)
      <3>1. pos \in Nat
        OBVIOUS
      <3>2. EntryAt(pos).name \in Seq(Chars)
        BY <3>1, EntriesAreEntries DEF DirEntry
      <3>3. pos + 1 <= m <=> pos < Len(Entries)
        BY <3>1
      <3>4. pos >= Len(Entries) <=> ~(pos < Len(Entries))
        BY <3>1
      <3>5. QED BY <3>1, <3>2, <3>3, <3>4, EntriesAreEntries DEF NameAt
    <2>2. pos < DirLimit /\ Len(listed) = pos /\ pos' = pos + 1 /\ pos' < DirLimit
          /\ listed' = Append(listed, EntryAt(pos).name)
      BY <1>2 DEF DirReadMore
    <2>3. listed' \in Seq(Seq(Chars)) /\ Len(listed') = pos + 1
          /\ (\A i \in 1 .. Len(listed) : listed'[i] = listed[i])
          /\ listed'[pos + 1] = EntryAt(pos).name
      <3>1. PICK x \in Seq(Chars) : x = EntryAt(pos).name
        BY <2>1
      <3>2. PICK s \in Seq(Seq(Chars)) : s = listed
        OBVIOUS
      <3>3. /\ Append(s, x) \in Seq(Seq(Chars)) /\ Len(Append(s, x)) = Len(s) + 1
            /\ (\A i \in 1 .. Len(s) : Append(s, x)[i] = s[i])
            /\ Append(s, x)[Len(s) + 1] = x
        BY AppendProperties
      <3>4. QED BY <2>2, <3>1, <3>2, <3>3
    <2>4. ASSUME NEW i \in 1 .. Len(listed')
          PROVE  listed'[i] = NameAt(i)
      <3>1. CASE i = pos + 1
        BY <3>1, <2>1, <2>3
      <3>2. CASE i # pos + 1
        <4>1. i \in 1 .. Len(listed)
          BY <3>2, <2>2, <2>3
        <4>2. QED BY <4>1, <2>3
      <3>3. QED BY <3>1, <3>2
    <2>5. QED BY <2>2, <2>3, <2>4
  <1>3. CASE DirReadEnd
    BY <1>3 DEF DirReadEnd
  <1>4. ASSUME NEW name, LookupCall(name) PROVE UNCHANGED <<pos, listed>>
    BY <1>4 DEF LookupCall
  <1>5. ASSUME NEW n, NEW offset, NEW length, ReadCall(n, offset, length)
        PROVE  UNCHANGED <<pos, listed>>
    BY <1>5 DEF ReadCall
  <1>6. CASE UNCHANGED fsVars
    BY <1>6, <1>1 DEF fsVars
  <1>7. QED BY <1>1, <1>2, <1>3, <1>4, <1>5, <1>6 DEF FsNext

\* Reading the directory to its end lists every entry, once and in order, for
\* every directory with fewer entries than the constant dir_read stops at.
THEOREM DirectoryListed == FsSpec => []ListsAllEntries
  <1>. DirLimit \in Nat /\ Len(Entries) \in Nat
    BY FsAssumption
  <1>1. FsInit => ListedSoFar
    BY DEF FsInit, ListedSoFar
  <1>2. ListedSoFar => ListsAllEntries
    BY DEF ListedSoFar, ListsAllEntries, NameAt
  <1>3. QED BY <1>1, <1>2, NextListed, PTL DEF FsSpec

----------------------------------------------------------------------------

\* What a line that begins at i adds to the output, and what is still to come.
PieceAt(f, s, i) == IF i \in LineBreaks(f) /\ Holds(LineFrom(f, i), s)
                    THEN <<LineFrom(f, i)>> ELSE << >>
ToCome(f, s) == CHOOSE m : m = [i \in 0 .. Len(f) + 1 |->
                                   IF i = Len(f) + 1 THEN << >>
                                   ELSE PieceAt(f, s, i) \o m[i + 1]]
Lines == Seq(Nat)

LEMMA LineBreakFacts ==
    ASSUME NEW f \in Lines
    PROVE  /\ LineBreaks(f) \subseteq 0 .. Len(f) + 1
           /\ 0 \in LineBreaks(f) /\ Len(f) + 1 \in LineBreaks(f)
           /\ \A i \in 1 .. Len(f) : i \in LineBreaks(f) <=> f[i] = NewlineChar
  <1>1. DOMAIN f = 1 .. Len(f) /\ Len(f) \in Nat
    OBVIOUS
  <1>2. QED BY <1>1 DEF LineBreaks

\* The line that begins at a break ends at the next one.
LEMMA LineFromIs ==
    ASSUME NEW f \in Lines, NEW p \in LineBreaks(f), NEW e \in LineBreaks(f), p < e,
           \A k \in LineBreaks(f) : k > p => e <= k
    PROVE  LineFrom(f, p) = SubSeq(f, p + 1, e - 1) /\ LineFrom(f, p) \in Lines
  <1>1. LineBreaks(f) \subseteq Int /\ p \in 0 .. Len(f) + 1 /\ e \in 0 .. Len(f) + 1
        /\ Len(f) \in Nat
    BY LineBreakFacts
  <1>2. \A j \in LineBreaks(f) :
            j > p /\ (\A k \in LineBreaks(f) : k > p => j <= k) => j = e
    <2>. HIDE DEF LineBreaks
    <2>1. QED BY <1>1
  <1>3. (CHOOSE j \in LineBreaks(f) : j > p /\ \A k \in LineBreaks(f) : k > p => j <= k) = e
    <2>. HIDE DEF LineBreaks
    <2>1. e > p
      BY <1>1
    <2>2. QED BY <1>2, <2>1
  <1>4. LineFrom(f, p) = SubSeq(f, p + 1, e - 1)
    BY <1>3 DEF LineFrom
  <1>5. SubSeq(f, p + 1, e - 1) \in Lines
    <2>1. \A i \in p + 1 .. e - 1 : i \in 1 .. Len(f)
      BY <1>1
    <2>2. \A i \in p + 1 .. e - 1 : f[i] \in Nat
      BY <2>1 DEF Lines
    <2>3. p + 1 \in Int /\ e - 1 \in Int
      BY <1>1
    <2>4. QED BY <2>2, <2>3, SubSeqProperties DEF Lines
  <1>6. QED BY <1>4, <1>5

\* There is a next break.
LEMMA NextBreak ==
    ASSUME NEW f \in Lines, NEW p \in 0 .. Len(f)
    PROVE  \E e \in LineBreaks(f) : p < e /\ \A k \in LineBreaks(f) : k > p => e <= k
  <1>. DEFINE T == {k \in LineBreaks(f) : k > p}
  <1>1. LineBreaks(f) \subseteq Nat /\ Len(f) + 1 \in LineBreaks(f) /\ Len(f) \in Nat
    BY LineBreakFacts
  <1>. HIDE DEF LineBreaks
  <1>2. T \subseteq Nat /\ Len(f) + 1 \in T
    BY <1>1
  <1>3. PICK e \in T : \A k \in T : e <= k
    <2>. HIDE DEF T
    <2>1. QED BY <1>2, LeastNat
  <1>4. QED BY <1>1, <1>3

LEMMA PieceTyped ==
    ASSUME NEW f \in Lines, NEW s, NEW i \in 0 .. Len(f)
    PROVE  PieceAt(f, s, i) \in Seq(Lines)
  <1>1. CASE i \in LineBreaks(f)
    <2>1. PICK e \in LineBreaks(f) : i < e /\ \A k \in LineBreaks(f) : k > i => e <= k
      BY NextBreak
    <2>2. LineFrom(f, i) \in Lines
      BY <1>1, <2>1, LineFromIs
    <2>. HIDE DEF Lines
    <2>3. QED BY <2>2 DEF PieceAt
  <1>2. CASE i \notin LineBreaks(f)
    BY <1>2 DEF PieceAt
  <1>3. QED BY <1>1, <1>2

\* The equation of MatchesOf has a solution: one for the end of the file can
\* be extended by one index at a time.
Solves(m, f, s, j) ==
    /\ m \in [j .. Len(f) + 1 -> Seq(Lines)]
    /\ m[Len(f) + 1] = << >>
    /\ \A i \in j .. Len(f) : m[i] = PieceAt(f, s, i) \o m[i + 1]

LEMMA SolutionExtends ==
    ASSUME NEW f \in Lines, NEW s, NEW j \in 1 .. Len(f) + 1, NEW m, Solves(m, f, s, j)
    PROVE  \E g : Solves(g, f, s, j - 1)
  <1>. PICK n \in Nat : n = Len(f)
    OBVIOUS
  <1>. PICK h \in 0 .. n : h = j - 1 /\ j = h + 1
    OBVIOUS
  <1>. DEFINE x == PieceAt(f, s, h) \o m[j]
              g == [i \in h .. n + 1 |-> IF i = h THEN x ELSE m[i]]
  <1>. HIDE DEF Lines
  <1>1. PieceAt(f, s, h) \in Seq(Lines)
    BY PieceTyped
  <1>2. \A i \in j .. n + 1 : m[i] \in Seq(Lines)
    BY DEF Solves
  <1>3. x \in Seq(Lines)
    <2>1. m[j] \in Seq(Lines)
      BY <1>2
    <2>2. QED BY <1>1, <2>1, ConcatProperties
  <1>. HIDE DEF x
  <1>4. \A i \in j .. n + 1 : i \in h .. n + 1 /\ i # h
    OBVIOUS
  <1>5. \A i \in j .. n + 1 : g[i] = m[i]
    BY <1>4
  <1>6. g[h] = x /\ h \in h .. n + 1
    <2>1. h \in h .. n + 1
      OBVIOUS
    <2>2. QED BY <2>1
  <1>7. g \in [h .. n + 1 -> Seq(Lines)]
    <2>1. ASSUME NEW i \in h .. n + 1 PROVE g[i] \in Seq(Lines)
      <3>1. CASE i = h
        BY <3>1, <1>3, <1>6
      <3>2. CASE i # h
        <4>1. i \in j .. n + 1
          BY <3>2
        <4>2. QED BY <4>1, <1>2, <1>5
      <3>3. QED BY <3>1, <3>2
    <2>2. QED BY <2>1
  <1>. HIDE DEF g
  <1>8. g[n + 1] = << >>
    <2>1. n + 1 \in j .. n + 1
      OBVIOUS
    <2>2. QED BY <2>1, <1>5 DEF Solves
  <1>9. ASSUME NEW i \in h .. n PROVE g[i] = PieceAt(f, s, i) \o g[i + 1]
    <2>1. i + 1 \in j .. n + 1
      OBVIOUS
    <2>2. CASE i = h
      BY <2>1, <2>2, <1>5, <1>6 DEF x
    <2>3. CASE i # h
      <3>1. i \in j .. n /\ i \in j .. n + 1
        BY <2>3
      <3>2. QED BY <2>1, <3>1, <1>5 DEF Solves
    <2>4. QED BY <2>2, <2>3
  <1>10. Solves(g, f, s, h)
    BY <1>7, <1>8, <1>9 DEF Solves
  <1>11. QED BY <1>10

LEMMA SolutionExists ==
    ASSUME NEW f \in Lines, NEW s
    PROVE  \E m : Solves(m, f, s, 0)
  <1>. PICK n \in Nat : n = Len(f)
    BY DEF Lines
  <1>. DEFINE Solvable(j) == \E m : Solves(m, f, s, j)
              T == {d \in 0 .. n + 1 : ~Solvable((n + 1) - d)}
  <1>1. Solvable(n + 1)
    <2>1. PICK m : m = [i \in n + 1 .. n + 1 |-> << >>]
      OBVIOUS
    <2>. HIDE DEF Lines
    <2>2. m \in [n + 1 .. n + 1 -> Seq(Lines)] /\ m[n + 1] = << >>
      BY <2>1
    <2>3. n + 1 .. n = {}
      OBVIOUS
    <2>4. Solves(m, f, s, n + 1)
      BY <2>2, <2>3 DEF Solves
    <2>5. QED BY <2>4
  <1>2. ASSUME NEW j \in 1 .. n + 1, Solvable(j) PROVE Solvable(j - 1)
    BY <1>2, SolutionExtends
  <1>. HIDE DEF Solvable
  <1>3. ASSUME T # {} PROVE FALSE
    <2>1. T \subseteq Nat
      OBVIOUS
    <2>2. PICK d \in T : \A k \in T : d <= k
      <3>. HIDE DEF T
      <3>1. QED BY <2>1, <1>3, LeastNat
    <2>3. d # 0
      <3>1. ASSUME d = 0 PROVE FALSE
        <4>1. (n + 1) - d = n + 1
          BY <3>1
        <4>2. QED BY <4>1, <1>1, <2>2
      <3>2. QED BY <3>1
    <2>4. d - 1 \in 0 .. n + 1 /\ ~(d <= d - 1) /\ (n + 1) - (d - 1) \in 1 .. n + 1
          /\ ((n + 1) - (d - 1)) - 1 = (n + 1) - d
      BY <2>2, <2>3
    <2>5. Solvable((n + 1) - (d - 1))
      BY <2>2, <2>4
    <2>6. Solvable((n + 1) - d)
      BY <2>4, <2>5, <1>2
    <2>7. QED BY <2>2, <2>6
  <1>4. n + 1 \in 0 .. n + 1 /\ (n + 1) - (n + 1) = 0
    OBVIOUS
  <1>5. Solvable(0)
    BY <1>3, <1>4
  <1>6. QED BY <1>5 DEF Solvable

LEMMA ToComeSolves ==
    ASSUME NEW f \in Lines, NEW s
    PROVE  Solves(ToCome(f, s), f, s, 0) /\ MatchesOf(f, s) = ToCome(f, s)[0]
  <1>. PICK n \in Nat : n = Len(f)
    BY DEF Lines
  <1>. DEFINE body(m) == [i \in 0 .. n + 1 |-> IF i = n + 1 THEN << >>
                                              ELSE PieceAt(f, s, i) \o m[i + 1]]
              t == ToCome(f, s)
  <1>1. MatchesOf(f, s) = t[0]
    BY DEF MatchesOf, ToCome, PieceAt
  <1>2. t = CHOOSE m : m = body(m)
    BY DEF ToCome
  <1>. HIDE DEF t, Lines
  <1>3. PICK m : Solves(m, f, s, 0)
    BY SolutionExists
  <1>4. m = body(m)
    <2>1. ASSUME NEW i \in 0 .. n + 1
          PROVE  m[i] = IF i = n + 1 THEN << >> ELSE PieceAt(f, s, i) \o m[i + 1]
      <3>1. CASE i = n + 1
        BY <3>1, <1>3 DEF Solves
      <3>2. CASE i # n + 1
        <4>1. i \in 0 .. n
          BY <3>2
        <4>2. QED BY <4>1, <3>2, <1>3 DEF Solves
      <3>3. QED BY <3>1, <3>2
    <2>2. m = [i \in 0 .. n + 1 |-> m[i]]
      BY <1>3 DEF Solves
    <2>3. QED BY <2>1, <2>2
  <1>5. t = body(t)
    <2>. HIDE DEF body
    <2>1. \E g : g = body(g)
      BY <1>4, Zenon
    <2>2. QED BY <1>2, <2>1, Zenon
  <1>6. ASSUME NEW i \in 0 .. n + 1
        PROVE  t[i] = IF i = n + 1 THEN << >> ELSE PieceAt(f, s, i) \o t[i + 1]
    <2>1. t[i] = body(t)[i]
      BY <1>5
    <2>2. QED BY <2>1
  <1>7. t = [i \in 0 .. n + 1 |-> t[i]]
    <2>1. body(t) = [i \in 0 .. n + 1 |-> body(t)[i]]
      OBVIOUS
    <2>. HIDE DEF body
    <2>2. QED BY <2>1, <1>5
  <1>8. \A i \in 0 .. n + 1 : t[i] = m[i]
    <2>. DEFINE T == {d \in 0 .. n + 1 : t[(n + 1) - d] # m[(n + 1) - d]}
    <2>1. ASSUME T # {} PROVE FALSE
      <3>1. T \subseteq Nat
        OBVIOUS
      <3>2. PICK d \in T : \A k \in T : d <= k
        <4>. HIDE DEF T
        <4>1. QED BY <3>1, <2>1, LeastNat
      <3>3. CASE d = 0
        <4>1. (n + 1) - d = n + 1 /\ n + 1 \in 0 .. n + 1
          BY <3>3
        <4>2. t[n + 1] = << >> /\ m[n + 1] = << >>
          BY <4>1, <1>3, <1>6 DEF Solves
        <4>3. QED BY <4>1, <4>2, <3>2
      <3>4. CASE d # 0
        <4>1. PICK i \in 0 .. n : i = (n + 1) - d
          BY <3>2, <3>4
        <4>2. d - 1 \in 0 .. n + 1 /\ ~(d <= d - 1) /\ (n + 1) - (d - 1) = i + 1
          BY <3>2, <3>4, <4>1
        <4>3. t[i + 1] = m[i + 1]
          BY <4>2, <3>2
        <4>4. i \in 0 .. n + 1 /\ i # n + 1
          OBVIOUS
        <4>5. t[i] = PieceAt(f, s, i) \o t[i + 1]
          BY <4>4, <1>6
        <4>6. m[i] = PieceAt(f, s, i) \o m[i + 1]
          BY <1>3 DEF Solves
        <4>7. QED BY <4>1, <4>3, <4>5, <4>6, <3>2
      <3>5. QED BY <3>3, <3>4
    <2>2. ASSUME NEW i \in 0 .. n + 1 PROVE t[i] = m[i]
      <3>1. (n + 1) - i \in 0 .. n + 1 /\ (n + 1) - ((n + 1) - i) = i
        OBVIOUS
      <3>2. QED BY <2>1, <3>1
    <2>3. QED BY <2>2
  <1>9. t = m
    <2>1. m = [i \in 0 .. n + 1 |-> m[i]]
      BY <1>3 DEF Solves
    <2>2. QED BY <2>1, <1>7, <1>8
  <1>10. QED BY <1>1, <1>3, <1>9 DEF t

\* Where no line begins nothing is to come.
NoBreak(f, p, q) == \A i \in p .. q - 1 : i \notin LineBreaks(f)

LEMMA ToComeSkips ==
    ASSUME NEW f \in Lines, NEW s, NEW p \in 0 .. Len(f) + 1, NEW q \in p .. Len(f) + 1,
           NoBreak(f, p, q)
    PROVE  ToCome(f, s)[p] = ToCome(f, s)[q]
  <1>. PICK n \in Nat : n = Len(f)
    BY DEF Lines
  <1>. DEFINE t == ToCome(f, s)
              T == {d \in 0 .. q - p : t[p + d] # t[p]}
  <1>1. Solves(t, f, s, 0)
    BY ToComeSolves
  <1>. HIDE DEF t, Lines
  <1>2. ASSUME NEW i \in p .. q - 1 PROVE t[i] = t[i + 1]
    <2>1. i \in 0 .. n /\ i + 1 \in 0 .. n + 1
      OBVIOUS
    <2>2. t[i + 1] \in Seq(Lines) /\ t[i] = PieceAt(f, s, i) \o t[i + 1]
      BY <1>1, <2>1 DEF Solves
    <2>3. PieceAt(f, s, i) = << >>
      BY DEF PieceAt, NoBreak
    <2>4. QED BY <2>2, <2>3, ConcatEmptySeq
  <1>3. ASSUME T # {} PROVE FALSE
    <2>1. T \subseteq Nat
      OBVIOUS
    <2>2. PICK d \in T : \A k \in T : d <= k
      <3>. HIDE DEF T
      <3>1. QED BY <2>1, <1>3, LeastNat
    <2>3. d # 0
      <3>1. ASSUME d = 0 PROVE FALSE
        <4>1. p + d = p
          BY <3>1
        <4>2. QED BY <4>1, <2>2
      <3>2. QED BY <3>1
    <2>4. PICK i \in p .. q - 1 : i = p + (d - 1) /\ i + 1 = p + d
      BY <2>2, <2>3
    <2>5. d - 1 \in 0 .. q - p /\ ~(d <= d - 1)
      BY <2>2, <2>3
    <2>6. t[i] = t[p]
      BY <2>2, <2>4, <2>5
    <2>7. QED BY <2>2, <2>4, <2>6, <1>2
  <1>4. PICK d : d = q - p /\ d \in 0 .. q - p /\ p + d = q
    OBVIOUS
  <1>5. d \notin T
    BY <1>3
  <1>6. t[q] = t[p]
    BY <1>4, <1>5
  <1>7. QED BY <1>6 DEF t

\* A pattern is not in an empty line.
LEMMA NotInEmpty == ASSUME NEW s \in Lines, s # << >> PROVE ~Holds(<< >>, s)
  <1>1. PICK l \in Nat \ {0} : l = Len(s)
    BY EmptySeq DEF Lines
  <1>2. 0 .. 0 - l = {}
    BY <1>1
  <1>3. Len(<< >>) = 0
    OBVIOUS
  <1>4. QED BY <1>1, <1>2, <1>3 DEF Holds

\* Before a break nothing is to come that is not to come at it.
LEMMA ToComeBeforeBreak ==
    ASSUME NEW f \in Lines, NEW s \in Lines, s # << >>, NEW q \in 0 .. Len(f),
           q + 1 \in LineBreaks(f)
    PROVE  ToCome(f, s)[q] = ToCome(f, s)[q + 1]
  <1>. PICK n \in Nat : n = Len(f)
    BY DEF Lines
  <1>1. Solves(ToCome(f, s), f, s, 0)
    BY ToComeSolves
  <1>2. ToCome(f, s)[q + 1] \in Seq(Lines)
        /\ ToCome(f, s)[q] = PieceAt(f, s, q) \o ToCome(f, s)[q + 1]
    <2>1. q + 1 \in 0 .. n + 1
      OBVIOUS
    <2>. HIDE DEF Lines, ToCome
    <2>2. QED BY <1>1, <2>1 DEF Solves
  <1>3. PieceAt(f, s, q) = << >>
    <2>1. CASE q \in LineBreaks(f)
      <3>1. \A k \in LineBreaks(f) : k > q => q + 1 <= k
        <4>1. LineBreaks(f) \subseteq Int
          BY LineBreakFacts
        <4>. HIDE DEF LineBreaks
        <4>2. QED BY <4>1
      <3>2. LineFrom(f, q) = SubSeq(f, q + 1, (q + 1) - 1)
        BY <2>1, <3>1, LineFromIs
      <3>3. LineFrom(f, q) = << >>
        BY <3>2, SubSeqEmpty
      <3>4. QED BY <3>3, NotInEmpty DEF PieceAt
    <2>2. CASE q \notin LineBreaks(f)
      BY <2>2 DEF PieceAt
    <2>3. QED BY <2>1, <2>2
  <1>. HIDE DEF Lines
  <1>4. QED BY <1>2, <1>3, ConcatEmptySeq

Joined(a, b) == a \o b

LEMMA Associative ==
    \A a, b, c \in Seq(Lines) : Joined(Joined(a, b), c) = Joined(a, Joined(b, c))
  BY ConcatAssociative DEF Joined

\* The line from p up to q, which ends there, has been searched.
LEMMA LineDone ==
    ASSUME NEW f \in Lines, NEW s \in Lines, s # << >>, NEW p \in 0 .. Len(f),
           NEW q \in p .. Len(f), \A i \in p + 1 .. q : f[i] # NewlineChar,
           q + 1 \in LineBreaks(f), p \in LineBreaks(f) \/ p + 1 \in LineBreaks(f),
           NEW out \in Seq(Lines), out \o ToCome(f, s)[p] = ToCome(f, s)[0],
           NEW after, after = IF Holds(SubSeq(f, p + 1, q), s)
                              THEN Append(out, SubSeq(f, p + 1, q)) ELSE out
    PROVE  after \o ToCome(f, s)[q + 1] = ToCome(f, s)[0]
  <1>. PICK n \in Nat : n = Len(f)
    BY DEF Lines
  <1>. DEFINE t == ToCome(f, s)
              line == SubSeq(f, p + 1, q)
  <1>1. Solves(t, f, s, 0)
    BY ToComeSolves
  <1>2. \A i \in p + 1 .. q : i \notin LineBreaks(f)
    <2>. SUFFICES ASSUME NEW i \in p + 1 .. q PROVE i \notin LineBreaks(f)
      OBVIOUS
    <2>1. i \in 1 .. Len(f)
      OBVIOUS
    <2>2. QED BY <2>1, LineBreakFacts
  <1>. HIDE DEF t, LineBreaks
  <1>3. CASE p \in LineBreaks(f)
    <2>1. t[p] = PieceAt(f, s, p) \o t[p + 1]
      <3>1. p \in 0 .. n
        OBVIOUS
      <3>2. \A i \in 0 .. n : t[i] = PieceAt(f, s, i) \o t[i + 1]
        <4>. HIDE DEF Lines
        <4>1. QED BY <1>1 DEF Solves
      <3>3. QED BY <3>1, <3>2
    <2>2. t[p + 1] = t[q + 1]
      <3>0. PICK a \in 0 .. Len(f) + 1 : a = p + 1
        OBVIOUS
      <3>1. PICK b \in a .. Len(f) + 1 : b = q + 1 /\ a = p + 1
        BY <3>0
      <3>2. NoBreak(f, a, b)
        BY <3>1, <1>2 DEF NoBreak
      <3>3. ToCome(f, s)[a] = ToCome(f, s)[b]
        BY <3>2, ToComeSkips
      <3>4. QED BY <3>1, <3>3 DEF t
    <2>3. \A k \in LineBreaks(f) : k > p => q + 1 <= k
      <3>1. LineBreaks(f) \subseteq Int
        BY LineBreakFacts
      <3>2. QED BY <3>1, <1>2
    <2>4. LineFrom(f, p) = SubSeq(f, p + 1, (q + 1) - 1) /\ LineFrom(f, p) \in Lines
      BY <1>3, <2>3, LineFromIs
    <2>5. LineFrom(f, p) = line /\ line \in Lines
      <3>1. (q + 1) - 1 = q
        OBVIOUS
      <3>2. QED BY <2>4, <3>1
    <2>. HIDE DEF line, Lines
    <2>6. t[q + 1] \in Seq(Lines)
      <3>1. q + 1 \in 0 .. n + 1
        OBVIOUS
      <3>2. QED BY <3>1, <1>1 DEF Solves
    <2>7. CASE Holds(line, s)
      <3>0. PieceAt(f, s, p) = <<line>>
        BY <2>5, <2>7, <1>3 DEF PieceAt
      <3>1. t[p] = <<line>> \o t[q + 1]
        BY <3>0, <2>1, <2>2
      <3>2. after = out \o <<line>>
        <4>1. after = Append(out, line)
          BY <2>7 DEF line
        <4>2. QED BY <4>1, <2>5, AppendIsConcat
      <3>3. <<line>> \in Seq(Lines)
        BY <2>5
      <3>4. (out \o <<line>>) \o t[q + 1] = out \o (<<line>> \o t[q + 1])
        <4>1. PICK x \in Seq(Lines), y \in Seq(Lines) : x = <<line>> /\ y = t[q + 1]
          BY <3>3, <2>6
        <4>2. Joined(Joined(out, x), y) = Joined(out, Joined(x, y))
          BY Associative
        <4>3. QED BY <4>1, <4>2 DEF Joined
      <3>5. QED BY <3>1, <3>2, <3>4 DEF t
    <2>8. CASE ~Holds(line, s)
      <3>1. PieceAt(f, s, p) = << >>
        BY <2>5, <2>8 DEF PieceAt
      <3>2. t[p] = t[q + 1]
        BY <2>1, <2>2, <2>6, <3>1, ConcatEmptySeq
      <3>3. after = out
        BY <2>8 DEF line
      <3>4. QED BY <3>2, <3>3 DEF t
    <2>9. QED BY <2>7, <2>8
  <1>4. CASE p \notin LineBreaks(f)
    <2>1. p = q
      <3>1. p + 1 \in LineBreaks(f)
        BY <1>4
      <3>2. p + 1 \notin p + 1 .. q
        BY <3>1, <1>2
      <3>3. QED BY <3>2
    <2>2. line = << >>
      BY <2>1, SubSeqEmpty
    <2>3. after = out
      BY <2>2, NotInEmpty
    <2>4. t[p] = t[q + 1]
      BY <2>1, ToComeBeforeBreak DEF t
    <2>5. QED BY <2>3, <2>4 DEF t
  <1>5. QED BY <1>3, <1>4

\* The piece of the buffer between two places is that part of the file.
Copies(data, f, base, from, to) == \A i \in from .. to - 1 : data[i] = f[base + i + 1]

HoldsLine(data, from, to, line) ==
    /\ [i \in 1 .. to - from |-> data[from + i - 1]] = line
    /\ line \in Lines /\ Len(line) = to - from
    /\ \A i \in 1 .. to - from : line[i] = data[from + i - 1]

LEMMA CopiedLine ==
    ASSUME NEW f \in Lines, NEW data, NEW base \in Nat, NEW from \in Nat, NEW to \in Nat,
           from <= to, base + to <= Len(f), Copies(data, f, base, from, to)
    PROVE  HoldsLine(data, from, to, SubSeq(f, base + from + 1, base + to))
  <1>. PICK n \in Nat : n = Len(f)
    BY DEF Lines
  <1>. PICK p \in Nat : p = base + from
    OBVIOUS
  <1>. PICK q \in Nat : q = base + to
    OBVIOUS
  <1>. PICK l \in Nat : l = to - from /\ q = p + l
    OBVIOUS
  <1>. DEFINE line == SubSeq(f, p + 1, q)
              new == [i \in 1 .. l |-> data[from + i - 1]]
  <1>1. \A i \in p + 1 .. q : f[i] \in Nat
    BY DEF Lines
  <1>2. line \in Lines /\ Len(line) = l /\ \A i \in 1 .. l : line[i] = f[p + i]
    <2>1. p + 1 \in Int /\ q \in Int /\ (IF p + 1 <= q + 1 THEN (q + 1) - (p + 1) ELSE 0) = l
      OBVIOUS
    <2>2. /\ line \in Seq(Nat)
          /\ Len(line) = IF p + 1 <= q + 1 THEN (q + 1) - (p + 1) ELSE 0
          /\ \A i \in 1 .. (q + 1) - (p + 1) : line[i] = f[(p + 1) + i - 1]
      BY <1>1, SubSeqProperties
    <2>. HIDE DEF line
    <2>3. QED BY <2>1, <2>2 DEF Lines
  <1>3. \A i \in 1 .. l : f[p + i] = data[from + i - 1]
    <2>. SUFFICES ASSUME NEW i \in 1 .. l PROVE f[p + i] = data[from + i - 1]
      OBVIOUS
    <2>1. PICK j \in from .. to - 1 : j = from + i - 1 /\ base + j + 1 = p + i
      OBVIOUS
    <2>2. QED BY <2>1 DEF Copies
  <1>4. line = new
    <2>1. DOMAIN line = 1 .. l /\ line = [i \in 1 .. l |-> line[i]]
      <3>. HIDE DEF line
      <3>1. QED BY <1>2 DEF Lines
    <2>. HIDE DEF line
    <2>2. QED BY <1>2, <1>3, <2>1
  <1>5. QED BY <1>2, <1>3, <1>4 DEF HoldsLine

\* What strncmp finds in the buffer is what a reader of the line finds.
LEMMA FoundIsHolds ==
    ASSUME NEW s \in Lines, s # << >>, grep.s = s, NEW data, NEW from \in Nat,
           NEW to \in Nat, from <= to, NEW line \in Lines, HoldsLine(data, from, to, line)
    PROVE  Found(data, from, to) <=> Holds(line, s)
  <1>1. PICK m \in Nat \ {0} : m = Len(s)
    BY EmptySeq DEF Lines
  <1>2. PICK l \in Nat : l = to - from /\ l = Len(line)
    BY DEF Lines, HoldsLine
  <1>3. ASSUME NEW i \in 0 .. l - m
        PROVE  SubSeq(line, i + 1, i + m) = s <=>
                   \A k \in 1 .. m : data[(from + i) + k - 1] = s[k]
    <2>. DEFINE part == SubSeq(line, i + 1, i + m)
    <2>0. \A k \in 1 .. l : line[k] \in Nat
      BY <1>2 DEF Lines
    <2>1. \A k \in i + 1 .. i + m : line[k] \in Nat
      <3>1. i \in Nat /\ i + m <= l
        BY <1>1, <1>2
      <3>2. ASSUME NEW k \in i + 1 .. i + m PROVE k \in 1 .. l
        BY <1>1, <1>2, <3>1, <3>2
      <3>. HIDE DEF part
      <3>3. QED BY <2>0, <3>2
    <2>2. part \in Seq(Nat) /\ Len(part) = m /\ \A k \in 1 .. m : part[k] = line[i + k]
      <3>1. i + 1 \in Int /\ i + m \in Int
            /\ (IF i + 1 <= (i + m) + 1 THEN ((i + m) + 1) - (i + 1) ELSE 0) = m
            /\ ((i + m) + 1) - (i + 1) = m
        BY <1>1
      <3>2. /\ part \in Seq(Nat)
            /\ Len(part) = IF i + 1 <= (i + m) + 1 THEN ((i + m) + 1) - (i + 1) ELSE 0
            /\ \A k \in 1 .. ((i + m) + 1) - (i + 1) : part[k] = line[(i + 1) + k - 1]
        BY <1>1, <2>1, SubSeqProperties DEF Lines
      <3>3. \A k \in 1 .. m : (i + 1) + k - 1 = i + k
        OBVIOUS
      <3>. HIDE DEF part
      <3>4. QED BY <3>1, <3>2, <3>3
    <2>. HIDE DEF part
    <2>3. part = s <=> \A k \in 1 .. m : part[k] = s[k]
      BY <2>2, <1>1, SeqEqual DEF Lines
    <2>4. \A k \in 1 .. m : line[i + k] = data[(from + i) + k - 1]
      <3>. SUFFICES ASSUME NEW k \in 1 .. m PROVE line[i + k] = data[(from + i) + k - 1]
        OBVIOUS
      <3>1. PICK j \in 1 .. l : j = i + k /\ from + j - 1 = (from + i) + k - 1
        OBVIOUS
      <3>2. QED BY <3>1, <1>2 DEF HoldsLine
    <2>5. QED BY <2>2, <2>3, <2>4 DEF part
  <1>4. ASSUME Found(data, from, to) PROVE Holds(line, s)
    <2>1. PICK check \in from .. to - 1 : \A k \in 1 .. m : check + k - 1 < to /\ data[check + k - 1] = s[k]
      BY <1>4, <1>1 DEF Found
    <2>2. check + m - 1 < to
      BY <2>1
    <2>3. PICK i \in 0 .. l - m : check = from + i
      <3>1. check - from \in Nat /\ check = from + (check - from) /\ check - from <= l - m
        BY <2>2, <1>1, <1>2
      <3>2. check - from \in 0 .. l - m
        BY <1>1, <3>1
      <3>3. QED BY <3>1, <3>2
    <2>4. SubSeq(line, i + 1, i + m) = s
      BY <2>1, <2>3, <1>3
    <2>5. QED BY <2>4, <1>1, <1>2 DEF Holds
  <1>5. ASSUME Holds(line, s) PROVE Found(data, from, to)
    <2>1. PICK i \in 0 .. l - m : SubSeq(line, i + 1, i + m) = s
      BY <1>5, <1>1, <1>2 DEF Holds
    <2>2. PICK check \in from .. to - 1 : check = from + i /\ \A k \in 1 .. m : check + k - 1 < to
      BY <1>2
    <2>3. \A k \in 1 .. m : data[check + k - 1] = s[k]
      BY <2>1, <2>2, <1>3
    <2>4. QED BY <2>2, <2>3, <1>1 DEF Found
  <1>6. QED BY <1>4, <1>5

LEMMA LineEndIs ==
    ASSUME grep.line_start \in Nat, grep.last \in Nat, grep.line_start <= grep.last
    PROVE  /\ LineEnd \in grep.line_start .. grep.last
           /\ \A i \in grep.line_start .. LineEnd - 1 : grep.data[i] # NewlineChar
           /\ LineEnd < grep.last => grep.data[LineEnd] = NewlineChar
  <1>. PICK lo \in Nat, hi \in Nat : lo = grep.line_start /\ hi = grep.last /\ lo <= hi
    OBVIOUS
  <1>. PICK data : data = grep.data
    OBVIOUS
  <1>. DEFINE ends == {i \in lo .. hi - 1 : data[i] = NewlineChar}
  <1>1. LineEnd = IF ends = {} THEN hi ELSE CHOOSE i \in ends : \A j \in ends : i <= j
    BY DEF LineEnd
  <1>2. CASE ends = {}
    BY <1>1, <1>2
  <1>3. CASE ends # {}
    <2>1. ends \subseteq Nat
      OBVIOUS
    <2>2. \E i \in ends : \A j \in ends : i <= j
      <3>. HIDE DEF ends
      <3>1. QED BY <2>1, <1>3, LeastNat
    <2>3. PICK e \in ends : e = LineEnd /\ \A j \in ends : e <= j
      <3>. HIDE DEF ends
      <3>1. QED BY <1>1, <1>3, <2>2
    <2>4. \A i \in lo .. e - 1 : i \notin ends
      BY <2>3
    <2>5. QED BY <2>3, <2>4
  <1>4. QED BY <1>2, <1>3

\* A file GrepPrintsMatches speaks of, and the place of a search: what was
\* printed and what is to come from place p on are the matches of the file.
Fitting(f, byte) ==
    /\ \A i \in LineBreaks(f) : i <= Len(f) => Len(LineFrom(f, i)) <= BufSize
    /\ byte = NewlineChar => Len(f) < BufSize

Aligned(g, p) ==
    Fitting(g.file, g.behind) =>
        /\ p \in LineBreaks(g.file) \/ p + 1 \in LineBreaks(g.file)
        /\ g.out \o ToCome(g.file, g.s)[p] = ToCome(g.file, g.s)[0]

GrepVars == [pc : {"read", "line", "done"}, file : GrepFiles, s : Patterns, pos : Nat,
             data : [0 .. BufSize -> Nat], last : Nat, cnt : Nat, line_start : Nat,
             out : Seq(Lines), behind : Nat]

AtRead(g) == /\ g.last < BufSize
             /\ Copies(g.data, g.file, g.pos - g.last, 0, g.last)
             /\ Aligned(g, g.pos - g.last)

AtLine(g) == /\ g.line_start <= g.last
             /\ g.last = BufSize \/ g.pos = Len(g.file)
             /\ g.cnt = 0 => g.pos = Len(g.file)
             /\ Copies(g.data, g.file, g.pos - g.last, g.line_start, g.last)
             /\ Aligned(g, (g.pos - g.last) + g.line_start)

InFile(g) == /\ g.last <= BufSize /\ g.last <= g.pos /\ g.pos <= Len(g.file)
             /\ g.data[BufSize] \in {g.behind, NulChar}

Searching(g) == /\ g \in GrepVars /\ InFile(g)
                /\ g.pc = "read" => AtRead(g)
                /\ g.pc = "line" => AtLine(g)
                /\ g.pc = "done" => g.pos = Len(g.file) /\ Aligned(g, g.pos)

GrepInv == grep = GrepIdle \/ Searching(grep)

LEMMA FileTyped == ASSUME NEW f \in GrepFiles PROVE f \in Lines /\ Len(f) \in Nat
  BY GrepAssumption DEF Lines

LEMMA PatternTyped == ASSUME NEW s \in Patterns PROVE s \in Lines /\ s # << >>
  BY GrepAssumption DEF Lines

\* A line that fills the buffer and fits it ends there.
LEMMA FullLineEnds ==
    ASSUME NEW f \in Lines, NEW p \in Nat, p + BufSize < Len(f),
           \A i \in p + 1 .. p + BufSize : f[i] # NewlineChar,
           p \in LineBreaks(f) \/ p + 1 \in LineBreaks(f),
           \A i \in LineBreaks(f) : i <= Len(f) => Len(LineFrom(f, i)) <= BufSize
    PROVE  p + BufSize + 1 \in LineBreaks(f)
  <1>1. BufSize \in Nat \ {0}
    BY GrepAssumption
  <1>. PICK n \in Nat : n = Len(f)
    BY DEF Lines
  <1>. HIDE DEF Lines, LineBreaks
  <1>2. LineBreaks(f) \subseteq 0 .. n + 1
        /\ \A i \in 1 .. n : i \in LineBreaks(f) <=> f[i] = NewlineChar
    BY LineBreakFacts
  <1>3. \A i \in p + 1 .. p + BufSize : i \notin LineBreaks(f)
    BY <1>1, <1>2
  <1>4. p \in LineBreaks(f)
    <2>1. p + 1 \in p + 1 .. p + BufSize
      BY <1>1
    <2>2. QED BY <2>1, <1>3
  <1>5. p \in 0 .. n
    BY <1>1
  <1>6. PICK e \in LineBreaks(f) : p < e /\ \A k \in LineBreaks(f) : k > p => e <= k
    BY <1>5, NextBreak
  <1>7. LineFrom(f, p) = SubSeq(f, p + 1, e - 1)
    BY <1>4, <1>6, LineFromIs
  <1>8. e \in 0 .. n + 1
    BY <1>2, <1>6
  <1>9. Len(SubSeq(f, p + 1, e - 1)) = e - (p + 1)
    <2>1. \A i \in p + 1 .. e - 1 : f[i] \in Nat
      BY <1>8 DEF Lines
    <2>2. p + 1 \in Int /\ e - 1 \in Int /\ p + 1 <= (e - 1) + 1 /\ ((e - 1) + 1) - (p + 1) = e - (p + 1)
      BY <1>6, <1>8
    <2>3. Len(SubSeq(f, p + 1, e - 1)) = IF p + 1 <= (e - 1) + 1 THEN ((e - 1) + 1) - (p + 1) ELSE 0
      BY <2>1, <2>2, SubSeqProperties
    <2>4. QED BY <2>2, <2>3
  <1>10. e - (p + 1) <= BufSize
    BY <1>4, <1>5, <1>7, <1>9
  <1>11. e \notin p + 1 .. p + BufSize
    BY <1>3, <1>6
  <1>12. e = p + BufSize + 1
    BY <1>1, <1>6, <1>8, <1>10, <1>11
  <1>13. QED BY <1>6, <1>12

LEMMA GrepInitOk == GrepInit => GrepInv
  BY DEF GrepInit, GrepInv

LEMMA OpenOk ==
    ASSUME NEW f \in GrepFiles, NEW s \in Patterns, NEW byte \in Leftover, GrepOpen(f, s, byte)
    PROVE  GrepInv'
  <1>1. byte \in Nat /\ BufSize \in Nat \ {0}
    BY GrepAssumption
  <1>2. grep' = [pc |-> "read", file |-> f, s |-> s, pos |-> 0,
                 data |-> [i \in 0 .. BufSize |-> byte], last |-> 0, cnt |-> 0,
                 line_start |-> 0, out |-> << >>, behind |-> byte]
    BY DEF GrepOpen, GrepIdle, None
  <1>3. grep' \in GrepVars
    BY <1>1, <1>2 DEF GrepVars
  <1>4. InFile(grep)'
    <2>1. Len(f) \in Nat
      BY FileTyped
    <2>2. QED BY <1>1, <1>2, <2>1 DEF InFile
  <1>5. Aligned(grep', 0)
    <2>1. 0 \in LineBreaks(f) /\ f \in Lines
      BY FileTyped, LineBreakFacts
    <2>2. ToCome(f, s)[0] \in Seq(Lines)
      <3>1. Len(f) \in Nat /\ 0 \in 0 .. Len(f) + 1
        BY FileTyped
      <3>2. QED BY <2>1, <3>1, ToComeSolves DEF Solves
    <2>3. << >> \o ToCome(f, s)[0] = ToCome(f, s)[0]
      BY <2>2, ConcatEmptySeq
    <2>4. QED BY <1>2, <2>1, <2>3 DEF Aligned
  <1>6. AtRead(grep')
    <2>1. 0 - 0 = 0 /\ 0 .. 0 - 1 = {}
      OBVIOUS
    <2>2. grep'.last = 0 /\ grep'.pos = 0
      BY <1>2
    <2>3. Copies(grep'.data, grep'.file, 0, 0, 0)
      BY <2>1 DEF Copies
    <2>4. QED BY <1>1, <1>5, <2>1, <2>2, <2>3 DEF AtRead
  <1>7. QED BY <1>2, <1>3, <1>4, <1>6 DEF GrepInv, Searching

LEMMA AlignedSame ==
    ASSUME NEW g, NEW h, NEW p, Aligned(g, p), h.file = g.file, h.s = g.s,
           h.behind = g.behind, h.out = g.out
    PROVE  Aligned(h, p)
  BY DEF Aligned

\* What a read puts into the buffer: n characters of the file from at on.
ReadCount(f, at, last) ==
    IF BufSize - last < Len(f) - at THEN BufSize - last ELSE Len(f) - at
ReadInto(f, at, last, data, n) ==
    [i \in 0 .. BufSize |-> IF i - last \in 0 .. n - 1 THEN f[at + i - last + 1] ELSE data[i]]
PieceRead(f, at, last, data, n, new) ==
    /\ n \in Nat /\ new \in [0 .. BufSize -> Nat] /\ new[BufSize] = data[BufSize]
    /\ (at + n) - (last + n) = at - last
    /\ last + n <= BufSize /\ last + n <= at + n /\ at + n <= Len(f)
    /\ last + n = BufSize \/ at + n = Len(f)
    /\ n = 0 => at + n = Len(f)
    /\ Copies(new, f, at - last, 0, last + n)

LEMMA ReadFills ==
    ASSUME NEW f \in Lines, NEW at \in Nat, NEW last \in Nat,
           NEW data \in [0 .. BufSize -> Nat], last < BufSize, last <= at, at <= Len(f),
           Copies(data, f, at - last, 0, last)
    PROVE  PieceRead(f, at, last, data, ReadCount(f, at, last),
                     ReadInto(f, at, last, data, ReadCount(f, at, last)))
  <1>. PICK B \in Nat \ {0} : B = BufSize
    BY GrepAssumption
  <1>. PICK n : n = ReadCount(f, at, last)
    OBVIOUS
  <1>. PICK new : new = ReadInto(f, at, last, data, n)
    OBVIOUS
  <1>. PICK z \in Nat : z = Len(f)
    BY DEF Lines
  <1>1. /\ n \in Nat /\ n <= B - last /\ n <= z - at
        /\ (n = B - last \/ n = z - at)
    BY DEF ReadCount
  <1>2. ASSUME NEW i \in 0 .. B, i - last \in 0 .. n - 1
        PROVE  new[i] = f[at + i - last + 1] /\ at + i - last + 1 \in 1 .. z
    <2>1. at + i - last + 1 \in 1 .. z
      BY <1>1, <1>2
    <2>2. QED BY <1>2, <2>1 DEF ReadInto
  <1>3. ASSUME NEW i \in 0 .. B, i - last \notin 0 .. n - 1 PROVE new[i] = data[i]
    BY <1>3 DEF ReadInto
  <1>4. new \in [0 .. B -> Nat]
    <2>0. \A k \in 1 .. z : f[k] \in Nat
      <3>1. f \in Seq(Nat)
        BY DEF Lines
      <3>2. QED BY <3>1
    <2>1. ASSUME NEW i \in 0 .. B, i - last \in 0 .. n - 1 PROVE f[at + i - last + 1] \in Nat
      BY <2>0, <2>1, <1>2
    <2>2. ASSUME NEW i \in 0 .. B PROVE data[i] \in Nat
      OBVIOUS
    <2>3. QED BY <2>1, <2>2 DEF ReadInto
  <1>5. new[B] = data[B]
    <2>1. B \in 0 .. B /\ B - last \notin 0 .. n - 1
      BY <1>1
    <2>2. QED BY <2>1, <1>3
  <1>6. Copies(new, f, at - last, 0, last + n)
    <2>. SUFFICES ASSUME NEW i \in 0 .. (last + n) - 1 PROVE new[i] = f[(at - last) + i + 1]
      BY DEF Copies
    <2>1. i \in 0 .. B
      BY <1>1
    <2>2. CASE i < last
      <3>1. i - last \notin 0 .. n - 1 /\ i \in 0 .. last - 1
        BY <2>1, <2>2, <1>1
      <3>2. new[i] = data[i]
        BY <2>1, <3>1, <1>3
      <3>3. data[i] = f[(at - last) + i + 1]
        BY <3>1 DEF Copies
      <3>4. QED BY <3>2, <3>3
    <2>3. CASE ~(i < last)
      <3>1. i - last \in 0 .. n - 1 /\ at + i - last + 1 = (at - last) + i + 1
        BY <2>1, <2>3, <1>1
      <3>2. new[i] = f[at + i - last + 1]
        BY <2>1, <3>1, <1>2
      <3>3. QED BY <3>1, <3>2
    <2>4. QED BY <2>2, <2>3
  <1>7. /\ (at + n) - (last + n) = at - last
        /\ last + n <= B /\ last + n <= at + n /\ at + n <= z
        /\ last + n = B \/ at + n = z
        /\ n = 0 => at + n = z
    <2>1. last \in 0 .. B - 1 /\ at \in 0 .. z /\ last <= at
      OBVIOUS
    <2>2. (at + n) - (last + n) = at - last
      BY <1>1
    <2>3. last + n <= B
      BY <1>1, <2>1
    <2>4. last + n <= at + n
      BY <1>1, <2>1
    <2>5. at + n <= z
      BY <1>1, <2>1
    <2>6. last + n = B \/ at + n = z
      <3>1. CASE n = B - last
        BY <2>1, <3>1
      <3>2. CASE n = z - at
        BY <2>1, <3>2
      <3>3. QED BY <1>1, <3>1, <3>2
    <2>7. n = 0 => at + n = z
      <3>1. B - last # 0
        BY <2>1
      <3>2. n = B - last \/ at + n = z
        BY <1>1, <2>1
      <3>3. QED BY <3>1, <3>2
    <2>8. QED BY <2>2, <2>3, <2>4, <2>5, <2>6, <2>7
  <1>8. QED BY <1>1, <1>4, <1>5, <1>6, <1>7 DEF PieceRead

LEMMA ReadOk == ASSUME Searching(grep), GrepRead PROVE GrepInv'
  <1>1. grep \in GrepVars /\ InFile(grep) /\ AtRead(grep)
    BY DEF Searching, GrepRead
  <1>2. BufSize \in Nat \ {0}
    BY GrepAssumption
  <1>3. grep.file \in Lines /\ grep.pos \in Nat /\ grep.last \in Nat
        /\ grep.data \in [0 .. BufSize -> Nat]
    BY <1>1, FileTyped DEF GrepVars
  <1>. DEFINE f == grep.file
              at == grep.pos
              last == grep.last
              data == grep.data
              n == ReadCount(f, at, last)
              new == ReadInto(f, at, last, data, n)
  <1>4. grep' = [grep EXCEPT !.pc = "line", !.cnt = n, !.pos = at + n, !.last = last + n,
                             !.line_start = 0, !.data = new]
    BY DEF GrepRead, ReadCount, ReadInto
  <1>5. PieceRead(f, at, last, data, n, new)
    <2>1. last < BufSize /\ last <= at /\ at <= Len(f) /\ Copies(data, f, at - last, 0, last)
      BY <1>1 DEF InFile, AtRead
    <2>2. QED BY <1>3, <2>1, ReadFills
  <1>. HIDE DEF n, new
  <1>6. at + n \in Nat /\ last + n \in Nat
    BY <1>3, <1>5 DEF PieceRead
  <1>7. /\ grep' \in GrepVars
        /\ grep'.pc = "line" /\ grep'.file = f /\ grep'.pos = at + n /\ grep'.data = new
        /\ grep'.last = last + n /\ grep'.cnt = n /\ grep'.line_start = 0
        /\ grep'.s = grep.s /\ grep'.out = grep.out /\ grep'.behind = grep.behind
    BY <1>1, <1>4, <1>5, <1>6 DEF GrepVars, PieceRead
  <1>8. InFile(grep')
    <2>1. grep.data[BufSize] \in {grep.behind, NulChar}
      BY <1>1 DEF InFile
    <2>2. QED BY <2>1, <1>5, <1>7 DEF InFile, PieceRead
  <1>9. AtLine(grep')
    <2>1. 0 <= last + n /\ ((at + n) - (last + n)) + 0 = at - last
      BY <1>3, <1>5, <1>6 DEF PieceRead
    <2>2. Aligned(grep', at - last)
      BY <1>1, <1>7, AlignedSame DEF AtRead
    <2>3. QED BY <2>1, <2>2, <1>5, <1>7 DEF AtLine, PieceRead
  <1>10. QED BY <1>7, <1>8, <1>9 DEF GrepInv, Searching

\* Moving the piece of a line down keeps it.
MovedTo(data, start, end, n) ==
    [i \in 0 .. BufSize |-> CASE i < n -> data[start + i]
                              [] i = n \/ i = end -> NulChar
                              [] OTHER -> data[i]]
PieceMoved(f, at, last, start, data, n, new) ==
    /\ n \in Nat /\ n < BufSize /\ n <= at /\ at - n = (at - last) + start
    /\ new \in [0 .. BufSize -> Nat] /\ new[BufSize] \in {data[BufSize], NulChar}
    /\ Copies(new, f, at - n, 0, n)

LEMMA MoveKeeps ==
    ASSUME NEW f, NEW at \in Nat, NEW last \in Nat, NEW start \in Nat \ {0},
           NEW end \in Nat, last <= end, NEW data \in [0 .. BufSize -> Nat],
           last <= BufSize, last <= at, start <= last, Copies(data, f, at - last, start, last)
    PROVE  PieceMoved(f, at, last, start, data, last - start,
                     MovedTo(data, start, end, last - start))
  <1>. PICK B \in Nat \ {0} : B = BufSize
    BY GrepAssumption
  <1>. PICK n \in Nat : n = last - start
    OBVIOUS
  <1>. PICK new : new = MovedTo(data, start, end, n)
    OBVIOUS
  <1>1. n \in Nat /\ n < B /\ n <= at /\ at - n = (at - last) + start
    OBVIOUS
  <1>2. ASSUME NEW i \in 0 .. B, i < n
        PROVE  new[i] = data[start + i] /\ start + i \in 0 .. B
    <2>1. i # n /\ i # end /\ start + i \in 0 .. B
      BY <1>1, <1>2
    <2>2. QED BY <1>2, <2>1 DEF MovedTo
  <1>3. ASSUME NEW i \in 0 .. B, ~(i < n) PROVE new[i] \in {data[i], NulChar}
    BY <1>3 DEF MovedTo
  <1>4. new \in [0 .. B -> Nat]
    <2>1. ASSUME NEW i \in 0 .. B PROVE new[i] \in Nat
      <3>1. \A j \in 0 .. B : data[j] \in Nat
        OBVIOUS
      <3>2. NulChar \in Nat
        BY DEF NulChar
      <3>3. CASE i < n
        BY <3>1, <3>3, <1>2
      <3>4. CASE ~(i < n)
        <4>1. new[i] \in {data[i], NulChar}
          BY <3>4, <1>3
        <4>2. QED BY <3>1, <3>2, <4>1
      <3>5. QED BY <3>3, <3>4
    <2>2. new = [i \in 0 .. B |-> new[i]]
      BY DEF MovedTo
    <2>3. QED BY <2>1, <2>2
  <1>5. new[B] \in {data[B], NulChar}
    <2>1. B \in 0 .. B /\ ~(B < n)
      BY <1>1
    <2>2. QED BY <2>1, <1>3
  <1>6. Copies(new, f, at - n, 0, n)
    <2>. SUFFICES ASSUME NEW i \in 0 .. n - 1 PROVE new[i] = f[(at - n) + i + 1]
      BY DEF Copies
    <2>1. i \in 0 .. B /\ i < n
      BY <1>1
    <2>2. PICK j \in start .. last - 1 : j = start + i
      BY <1>1
    <2>3. (at - n) + i + 1 = (at - last) + j + 1
      BY <1>1, <2>2
    <2>4. data[j] = f[(at - last) + j + 1]
      BY DEF Copies
    <2>5. new[i] = data[j]
      BY <2>1, <2>2, <1>2
    <2>6. QED BY <2>3, <2>4, <2>5
  <1>7. QED BY <1>1, <1>4, <1>5, <1>6 DEF PieceMoved

LEMMA MoveDownOk == ASSUME Searching(grep), MoveDown PROVE GrepInv'
  <1>1. grep \in GrepVars /\ InFile(grep) /\ AtLine(grep)
    BY DEF Searching, MoveDown
  <1>2. BufSize \in Nat \ {0}
    BY GrepAssumption
  <1>3. grep.pos \in Nat /\ grep.last \in Nat /\ grep.line_start \in Nat \ {0}
        /\ grep.data \in [0 .. BufSize -> Nat]
    BY <1>1 DEF GrepVars, MoveDown, Unfinished
  <1>. DEFINE at == grep.pos
              last == grep.last
              start == grep.line_start
              data == grep.data
              n == last - start
              new == MovedTo(data, start, LineEnd, n)
  <1>4. grep' = [grep EXCEPT !.pc = "read", !.last = n, !.data = new]
    BY DEF MoveDown, MovedTo
  <1>5. PieceMoved(grep.file, at, last, start, data, n, new)
    <2>1. last <= BufSize /\ last <= at /\ start <= last
          /\ Copies(data, grep.file, at - last, start, last)
      BY <1>1 DEF InFile, AtLine
    <2>2. LineEnd \in Nat /\ last <= LineEnd
      <3>1. LineEnd \in start .. last /\ (LineEnd < last => grep.data[LineEnd] = NewlineChar)
        BY <1>3, <2>1, LineEndIs
      <3>2. grep.data[LineEnd] # NewlineChar
        BY DEF MoveDown, Unfinished
      <3>3. QED BY <1>3, <3>1, <3>2
    <2>3. QED BY <1>3, <2>1, <2>2, MoveKeeps
  <1>. HIDE DEF n, new
  <1>6. /\ grep' \in GrepVars
        /\ grep'.pc = "read" /\ grep'.file = grep.file /\ grep'.pos = at /\ grep'.data = new
        /\ grep'.last = n /\ grep'.s = grep.s /\ grep'.out = grep.out
        /\ grep'.behind = grep.behind
    BY <1>1, <1>4, <1>5 DEF GrepVars, PieceMoved
  <1>7. InFile(grep')
    <2>1. grep.data[BufSize] \in {grep.behind, NulChar} /\ at <= Len(grep.file)
      BY <1>1 DEF InFile
    <2>2. n <= BufSize
      BY <1>2, <1>5 DEF PieceMoved
    <2>3. QED BY <2>1, <2>2, <1>5, <1>6 DEF InFile, PieceMoved
  <1>8. AtRead(grep')
    <2>1. Aligned(grep', at - n)
      BY <1>1, <1>5, <1>6, AlignedSame DEF AtLine, PieceMoved
    <2>2. QED BY <2>1, <1>5, <1>6 DEF AtRead, PieceMoved
  <1>9. QED BY <1>6, <1>7, <1>8 DEF GrepInv, Searching

WithLine(out, line, s) == IF Holds(line, s) THEN Append(out, line) ELSE out
NoNewline(w, lo, hi) == \A i \in lo .. hi : w[i] # NewlineChar

\* A turn of the loop takes a line that ends in the file where it ends in the
\* buffer.
LEMMA LineEndsInFile ==
    ASSUME NEW f \in Lines, NEW at \in Nat, NEW last \in Nat, NEW start \in Nat,
           NEW end \in start .. last, NEW data, last <= at, at <= Len(f),
           Copies(data, f, at - last, start, last),
           NoNewline(data, start, end - 1)
    PROVE  /\ (at - last) + start \in 0 .. Len(f)
           /\ (at - last) + end \in (at - last) + start .. Len(f)
           /\ NoNewline(f, (at - last) + start + 1, (at - last) + end)
  <1>. PICK z \in Nat : z = Len(f)
    BY DEF Lines
  <1>. PICK b \in Nat : b = at - last
    OBVIOUS
  <1>1. b + start \in 0 .. z /\ b + end \in b + start .. z
    OBVIOUS
  <1>2. ASSUME NEW i \in b + start + 1 .. b + end PROVE f[i] # NewlineChar
    <2>1. PICK j \in start .. end - 1 : i = b + j + 1
      OBVIOUS
    <2>2. j \in start .. last - 1
      OBVIOUS
    <2>3. data[j] = f[b + j + 1]
      BY <2>2 DEF Copies
    <2>4. QED BY <2>1, <2>3 DEF NoNewline
  <1>3. QED BY <1>1, <1>2 DEF NoNewline

TurnAt(f, at, last, start, end, data, byte, cnt) ==
    /\ last <= at /\ at <= Len(f)
    /\ Copies(data, f, at - last, start, last)
    /\ NoNewline(data, start, end - 1)
    /\ end < last => data[end] = NewlineChar
    /\ last = BufSize \/ at = Len(f)
    /\ cnt = 0 => at = Len(f)
    /\ data[BufSize] \in {byte, NulChar}
    /\ data[end] = NewlineChar \/ cnt = 0 \/ start = 0

LEMMA BreakThere ==
    ASSUME NEW f \in Lines, NEW at \in Nat, NEW last \in Nat, NEW start \in Nat,
           NEW end \in start .. last, NEW data, NEW byte, NEW cnt,
           TurnAt(f, at, last, start, end, data, byte, cnt), Fitting(f, byte),
           (at - last) + start \in LineBreaks(f) \/ (at - last) + start + 1 \in LineBreaks(f)
    PROVE  (at - last) + end + 1 \in LineBreaks(f)
  <1>. USE DEF TurnAt
  <1>. PICK z \in Nat : z = Len(f)
    BY DEF Lines
  <1>. PICK b \in Nat : b = at - last
    OBVIOUS
  <1>0. BufSize \in Nat \ {0}
    BY GrepAssumption
  <1>. HIDE DEF Lines
  <1>1. z + 1 \in LineBreaks(f) /\ \A i \in 1 .. z : i \in LineBreaks(f) <=> f[i] = NewlineChar
    BY LineBreakFacts
  <1>2. CASE end < last
    <2>1. end \in start .. last - 1 /\ b + end + 1 \in 1 .. z
      BY <1>2
    <2>2. data[end] = f[b + end + 1]
      BY <2>1 DEF Copies
    <2>3. f[b + end + 1] = NewlineChar
      BY <1>2, <2>2
    <2>4. QED BY <2>1, <2>3, <1>1
  <1>3. CASE end = last /\ at = z
    <2>1. b + end + 1 = z + 1
      BY <1>3
    <2>2. QED BY <2>1, <1>1
  <1>4. CASE end = last /\ at # z
    <2>1. last = BufSize /\ cnt # 0 /\ at < z
      BY <1>4
    <2>2. data[end] # NewlineChar
      <3>1. ASSUME data[end] = NewlineChar PROVE FALSE
        <4>1. byte = NewlineChar
          BY <3>1, <2>1, <1>4 DEF NewlineChar, NulChar
        <4>2. z < BufSize
          BY <4>1 DEF Fitting
        <4>3. QED BY <4>2, <2>1, <1>0
      <3>2. QED BY <3>1
    <2>3. start = 0 /\ b + start = b /\ b + BufSize = at
      BY <2>1, <2>2
    <2>4. \A i \in b + 1 .. b + BufSize : f[i] # NewlineChar
      <3>1. NoNewline(f, (at - last) + start + 1, (at - last) + end)
        BY LineEndsInFile
      <3>2. (at - last) + start + 1 = b + 1 /\ (at - last) + end = b + BufSize
        BY <2>1, <2>3, <1>4
      <3>3. QED BY <3>1, <3>2 DEF NoNewline
    <2>5. b + BufSize + 1 \in LineBreaks(f)
      <3>1. b + BufSize < Len(f)
        BY <2>1, <2>3
      <3>2. b \in LineBreaks(f) \/ b + 1 \in LineBreaks(f)
        BY <2>3
      <3>3. \A i \in LineBreaks(f) : i <= Len(f) => Len(LineFrom(f, i)) <= BufSize
        BY DEF Fitting
      <3>4. QED BY <3>1, <3>2, <3>3, <2>4, FullLineEnds
    <2>6. QED BY <2>1, <2>5, <1>4
  <1>5. QED BY <1>2, <1>3, <1>4

\* The place after the line: a line begins or ends there, and what was
\* printed and is to come is right again.
LEMMA SearchAligned ==
    ASSUME NEW f \in Lines, NEW s \in Lines, s # << >>, NEW p \in 0 .. Len(f),
           NEW q \in p .. Len(f), NoNewline(f, p + 1, q),
           q + 1 \in LineBreaks(f), p \in LineBreaks(f) \/ p + 1 \in LineBreaks(f),
           NEW out \in Seq(Lines), out \o ToCome(f, s)[p] = ToCome(f, s)[0],
           NEW after, after = WithLine(out, SubSeq(f, p + 1, q), s),
           NEW next \in {q, q + 1}
    PROVE  /\ next \in LineBreaks(f) \/ next + 1 \in LineBreaks(f)
           /\ after \o ToCome(f, s)[next] = ToCome(f, s)[0]
  <1>1. \A i \in p + 1 .. q : f[i] # NewlineChar
    BY DEF NoNewline
  <1>2. after \o ToCome(f, s)[q + 1] = ToCome(f, s)[0]
    BY <1>1, LineDone DEF WithLine
  <1>3. q \in 0 .. Len(f)
    BY DEF Lines
  <1>4. ToCome(f, s)[q] = ToCome(f, s)[q + 1]
    BY <1>3, ToComeBeforeBreak
  <1>5. QED BY <1>2, <1>4

\* What is printed is the line of the file.
Printed(out, data, from, to) ==
    IF Found(data, from, to)
    THEN Append(out, [i \in 1 .. to - from |-> data[from + i - 1]]) ELSE out

LEMMA PrintsLine ==
    ASSUME NEW f \in Lines, NEW s \in Lines, s # << >>, grep.s = s, NEW data,
           NEW base \in Nat, NEW from \in Nat, NEW to \in Nat, from <= to,
           base + to <= Len(f), Copies(data, f, base, from, to), NEW out
    PROVE  Printed(out, data, from, to) = WithLine(out, SubSeq(f, base + from + 1, base + to), s)
  <1>. DEFINE line == SubSeq(f, base + from + 1, base + to)
  <1>1. HoldsLine(data, from, to, line)
    BY CopiedLine
  <1>. HIDE DEF line
  <1>2. Found(data, from, to) <=> Holds(line, s)
    <2>1. line \in Lines
      BY <1>1 DEF HoldsLine
    <2>2. QED BY <1>1, <2>1, FoundIsHolds
  <1>3. QED BY <1>1, <1>2 DEF line, HoldsLine, Printed, WithLine

\* Where a turn of the loop leaves its indices.
InRest(i, start, last, end) == i \in start .. last - 1 /\ i \in 0 .. BufSize /\ i # end

LEMMA SearchIndices ==
    ASSUME NEW at \in Nat, NEW last \in Nat, NEW start \in Nat, NEW end \in start .. last,
           last <= at, last <= BufSize
    PROVE  /\ end + 1 >= last => at \in {(at - last) + end, (at - last) + end + 1}
           /\ ~(end + 1 >= last) =>
                  /\ end + 1 <= last
                  /\ \A i \in end + 1 .. last - 1 : InRest(i, start, last, end)
  <1>1. BufSize \in Nat
    BY GrepAssumption
  <1>2. QED BY <1>1 DEF InRest

\* The buffer and the search after the line, as SearchLine leaves them.
LEMMA SearchLineOk == ASSUME Searching(grep), SearchLine PROVE GrepInv'
  <1>1. grep \in GrepVars /\ InFile(grep) /\ AtLine(grep)
    BY DEF Searching, SearchLine
  <1>2. BufSize \in Nat \ {0}
    BY GrepAssumption
  <1>3. /\ grep.file \in Lines /\ grep.s \in Lines /\ grep.s # << >> /\ grep.out \in Seq(Lines)
        /\ grep.pos \in Nat /\ grep.last \in Nat /\ grep.line_start \in Nat /\ grep.cnt \in Nat
        /\ grep.data \in [0 .. BufSize -> Nat]
    BY <1>1, FileTyped, PatternTyped DEF GrepVars
  <1>. DEFINE f == grep.file
              s == grep.s
              at == grep.pos
              last == grep.last
              start == grep.line_start
              data == grep.data
              end == LineEnd
              b == at - last
              ends == end + 1 >= last
              new == [data EXCEPT ![end] = NulChar]
              out == Printed(grep.out, data, start, end)
              rest == IF ends THEN 0 ELSE last
              pc == IF ~ends THEN "line" ELSE IF grep.cnt = 0 THEN "done" ELSE "read"
  <1>4. grep' = [grep EXCEPT !.data = new, !.out = out, !.line_start = end + 1,
                             !.last = rest, !.pc = pc]
    BY DEF SearchLine, Printed
  <1>5. /\ last <= BufSize /\ last <= at /\ at <= Len(f) /\ data[BufSize] \in {grep.behind, NulChar}
        /\ start <= last /\ (last = BufSize \/ at = Len(f)) /\ (grep.cnt = 0 => at = Len(f))
        /\ Copies(data, f, b, start, last) /\ Aligned(grep, b + start)
    BY <1>1 DEF InFile, AtLine
  <1>6. /\ end \in start .. last /\ NoNewline(data, start, end - 1)
        /\ end < last => data[end] = NewlineChar
    BY <1>3, <1>5, LineEndIs DEF NoNewline
  <1>7. data[end] = NewlineChar \/ grep.cnt = 0 \/ start = 0
    BY DEF SearchLine, Unfinished
  <1>. HIDE DEF end
  <1>8. b \in Nat /\ b + start \in 0 .. Len(f) /\ b + end \in b + start .. Len(f)
        /\ NoNewline(f, b + start + 1, b + end)
    <2>1. b \in Nat
      BY <1>3, <1>5
    <2>2. QED BY <1>3, <1>5, <1>6, <2>1, LineEndsInFile
  <1>9. out = WithLine(grep.out, SubSeq(f, b + start + 1, b + end), s)
    <2>1. Copies(data, f, b, start, end)
      <3>1. \A i \in start .. end - 1 : i \in start .. last - 1
        BY <1>3, <1>6
      <3>2. QED BY <1>5, <3>1 DEF Copies
    <2>2. start <= end /\ b + end <= Len(f) /\ end \in Nat
      <3>1. Len(f) \in Nat
        BY <1>3 DEF Lines
      <3>2. QED BY <1>3, <1>6, <1>8, <3>1
    <2>3. QED BY <1>3, <1>8, <2>1, <2>2, PrintsLine
  <1>10. out \in Seq(Lines)
    <2>1. SubSeq(f, b + start + 1, b + end) \in Lines
      <3>1. \A i \in b + start + 1 .. b + end : f[i] \in Nat
        <4>0. f \in Seq(Nat)
          BY <1>3 DEF Lines
        <4>1. \A i \in 1 .. Len(f) : f[i] \in Nat
          BY <4>0
        <4>2. Len(f) \in Nat
          BY <1>3 DEF Lines
        <4>3. \A i \in b + start + 1 .. b + end : i \in 1 .. Len(f)
          BY <1>3, <1>6, <1>8, <4>2
        <4>4. QED BY <4>1, <4>3
      <3>2. b + start + 1 \in Int /\ b + end \in Int
        BY <1>3, <1>6, <1>8
      <3>3. QED BY <3>1, <3>2, SubSeqProperties DEF Lines
    <2>. HIDE DEF out, f, b, start
    <2>2. QED BY <1>3, <1>9, <2>1 DEF WithLine
  <1>11. ASSUME NEW next \in {b + end, b + end + 1}
         PROVE  Fitting(f, grep.behind) =>
                    /\ next \in LineBreaks(f) \/ next + 1 \in LineBreaks(f)
                    /\ out \o ToCome(f, s)[next] = ToCome(f, s)[0]
    <2>. SUFFICES ASSUME Fitting(f, grep.behind)
                  PROVE  /\ next \in LineBreaks(f) \/ next + 1 \in LineBreaks(f)
                         /\ out \o ToCome(f, s)[next] = ToCome(f, s)[0]
      OBVIOUS
    <2>1. /\ b + start \in LineBreaks(f) \/ b + start + 1 \in LineBreaks(f)
          /\ grep.out \o ToCome(f, s)[b + start] = ToCome(f, s)[0]
      BY <1>5 DEF Aligned
    <2>2. b + end + 1 \in LineBreaks(f)
      <3>1. TurnAt(f, at, last, start, end, data, grep.behind, grep.cnt)
        BY <1>5, <1>6, <1>7 DEF TurnAt
      <3>2. end \in start .. last
        BY <1>6
      <3>3. QED BY <1>3, <2>1, <3>1, <3>2, BreakThere
    <2>. HIDE DEF out
    <2>3. QED BY <1>3, <1>8, <1>9, <2>1, <2>2, SearchAligned
  <1>12. new \in [0 .. BufSize -> Nat] /\ new[BufSize] \in {data[BufSize], NulChar}
         /\ \A i \in 0 .. BufSize : i # end => new[i] = data[i]
    <2>1. end \in 0 .. BufSize /\ BufSize \in 0 .. BufSize
      BY <1>2, <1>3, <1>5, <1>6
    <2>2. QED BY <1>3, <2>1 DEF NulChar
  <1>. HIDE DEF new, out, ends
  <1>13. /\ grep' \in GrepVars
         /\ grep'.pc = pc /\ grep'.file = f /\ grep'.pos = at /\ grep'.data = new
         /\ grep'.last = rest /\ grep'.cnt = grep.cnt /\ grep'.line_start = end + 1
         /\ grep'.s = s /\ grep'.out = out /\ grep'.behind = grep.behind
    <2>1. end + 1 \in Nat /\ rest \in Nat /\ pc \in {"read", "line", "done"}
      BY <1>3, <1>6
    <2>. HIDE DEF rest, pc
    <2>2. QED BY <1>1, <1>4, <1>10, <1>12, <2>1 DEF GrepVars
  <1>14. InFile(grep')
    <2>1. rest <= BufSize /\ rest <= at
      BY <1>2, <1>3, <1>5
    <2>2. QED BY <2>1, <1>5, <1>12, <1>13 DEF InFile
  <1>15. ASSUME NEW next \in {b + end, b + end + 1} PROVE Aligned(grep', next)
    BY <1>11, <1>13 DEF Aligned
  <1>16. CASE ~ends
    <2>1. rest = last
      BY <1>16
    <2>2. Copies(new, f, b, end + 1, last)
      <3>1. \A i \in end + 1 .. last - 1 : InRest(i, start, last, end)
        BY <1>3, <1>5, <1>6, <1>16, SearchIndices DEF ends
      <3>2. QED BY <3>1, <1>5, <1>12 DEF Copies, InRest
    <2>3. b + (end + 1) = b + end + 1
      BY <1>3, <1>6, <1>8
    <2>4. Aligned(grep', b + (end + 1))
      BY <1>15, <2>3
    <2>5. end + 1 <= last
      BY <1>3, <1>5, <1>6, <1>16, SearchIndices DEF ends
    <2>6. AtLine(grep')
      BY <2>1, <2>2, <2>4, <2>5, <1>5, <1>13 DEF AtLine
    <2>7. grep'.pc = "line"
      BY <1>13, <1>16
    <2>8. QED BY <2>6, <2>7, <1>13, <1>14 DEF GrepInv, Searching
  <1>17. CASE ends
    <2>1. at \in {b + end, b + end + 1} /\ at - 0 = at /\ rest = 0
      <3>1. at \in {b + end, b + end + 1}
        BY <1>3, <1>5, <1>6, <1>17, SearchIndices DEF ends
      <3>2. QED BY <1>3, <1>17, <3>1
    <2>2. Aligned(grep', at)
      BY <1>15, <2>1
    <2>3. AtRead(grep')
      <3>1. Copies(new, f, at, 0, 0)
        BY DEF Copies
      <3>2. QED BY <2>1, <2>2, <3>1, <1>2, <1>13 DEF AtRead
    <2>4. grep'.pc = "read" \/ (grep'.pc = "done" /\ at = Len(f))
      BY <1>5, <1>13, <1>17
    <2>5. QED BY <2>2, <2>3, <2>4, <1>13, <1>14 DEF GrepInv, Searching
  <1>18. QED BY <1>16, <1>17

LEMMA GrepStep == GrepInv /\ [GrepNext]_grep => GrepInv'
  <1>. SUFFICES ASSUME GrepInv, [GrepNext]_grep PROVE GrepInv'
    OBVIOUS
  <1>1. ASSUME NEW f \in GrepFiles, NEW s \in Patterns, NEW byte \in Leftover,
               GrepOpen(f, s, byte)
        PROVE  GrepInv'
    BY <1>1, OpenOk
  <1>2. grep.pc # "idle" => Searching(grep)
    BY DEF GrepInv, GrepIdle
  <1>3. CASE GrepRead
    BY <1>2, <1>3, ReadOk DEF GrepRead
  <1>4. CASE MoveDown
    BY <1>2, <1>4, MoveDownOk DEF MoveDown
  <1>5. CASE SearchLine
    BY <1>2, <1>5, SearchLineOk DEF SearchLine
  <1>6. CASE GrepClose
    BY <1>6 DEF GrepClose, GrepInv
  <1>7. CASE UNCHANGED grep
    BY <1>7 DEF GrepInv
  <1>8. QED BY <1>1, <1>3, <1>4, <1>5, <1>6, <1>7 DEF GrepNext

\* At the end nothing is to come.
LEMMA GrepInvPrints == GrepInv => GrepPrintsMatches
  <1>. SUFFICES ASSUME GrepInv, grep.pc = "done", Fitting(grep.file, grep.behind)
                PROVE  grep.out = MatchesOf(grep.file, grep.s)
    BY DEF GrepPrintsMatches, Fitting
  <1>1. Searching(grep)
    BY DEF GrepInv, GrepIdle
  <1>2. grep.file \in Lines /\ Len(grep.file) \in Nat /\ grep.s \in Lines /\ grep.s # << >>
        /\ grep.out \in Seq(Lines)
    BY <1>1, FileTyped, PatternTyped DEF Searching, GrepVars
  <1>. DEFINE t == ToCome(grep.file, grep.s)
              z == Len(grep.file)
  <1>3. grep.out \o t[z] = t[0]
    BY <1>1 DEF Searching, Aligned
  <1>4. z \in 0 .. Len(grep.file) /\ z + 1 \in LineBreaks(grep.file)
    BY <1>2, LineBreakFacts
  <1>5. t[z] = t[z + 1]
    BY <1>2, <1>4, ToComeBeforeBreak
  <1>6. t[z + 1] = << >> /\ MatchesOf(grep.file, grep.s) = t[0]
    BY <1>2, ToComeSolves DEF Solves
  <1>. HIDE DEF t
  <1>7. grep.out \o << >> = grep.out
    BY <1>2, ConcatEmptySeq
  <1>8. QED BY <1>3, <1>5, <1>6, <1>7

\* grep prints every line that holds the pattern, whole, once and in order.
THEOREM GrepRight == GrepSpec => []GrepPrintsMatches
  <1>1. GrepInit => GrepInv
    BY GrepInitOk
  <1>2. GrepInv /\ [GrepNext]_grep => GrepInv'
    BY GrepStep
  <1>3. GrepInv => GrepPrintsMatches
    BY GrepInvPrints
  <1>4. QED BY <1>1, <1>2, <1>3, PTL DEF GrepSpec

----------------------------------------------------------------------------
(* Command lines *)

\* What a user may type.
Texts == Seq(Nat \ {Nul})

\* A text has characters 1, 2, ..., Len(line).
LEMMA TextTyped ==
    ASSUME NEW line \in Texts
    PROVE  /\ Len(line) \in Nat
           /\ \A i \in 1 .. Len(line) : line[i] \in Nat \ {Nul}
  BY DEF Texts

\* The first word of a line at or behind index i begins at a and ends before
\* b; without one, both are behind the line.
WordIn(line, i, a, b) ==
    /\ a \in Nat /\ b \in Nat /\ i <= a /\ a <= b /\ b <= Len(line) + 1
    /\ \A j \in Nat : i <= j /\ j < a => line[j] = Space
    /\ \A j \in Nat : a <= j /\ j < b => line[j] # Space
    /\ a <= Len(line) => a < b
    /\ b <= Len(line) => line[b] = Space

\* There are such indices.
LEMMA WordExists ==
    ASSUME NEW line \in Texts, NEW i \in Nat, i >= 1, i <= Len(line) + 1
    PROVE  \E a, b \in Nat : WordIn(line, i, a, b)
  <1>. PICK n \in Nat : n = Len(line)
    BY TextTyped
  <1>. DEFINE A == {j \in i .. n + 1 : j <= n => line[j] # Space}
  <1>1. A \subseteq Nat /\ n + 1 \in A
    OBVIOUS
  <1>2. PICK a \in A : \A k \in A : a <= k
    <2>. HIDE DEF A
    <2>1. QED BY <1>1, LeastNat
  <1>3. a \in Nat /\ i <= a /\ a <= n + 1 /\ (a <= n => line[a] # Space)
        /\ \A j \in Nat : i <= j /\ j < a => line[j] = Space
    BY <1>2
  <1>. DEFINE B == {j \in a .. n + 1 : j <= n => line[j] = Space}
  <1>4. B \subseteq Nat /\ n + 1 \in B
    <2>1. a \in Nat /\ a <= n + 1
      BY <1>3
    <2>2. QED BY <2>1
  <1>5. PICK b \in B : \A k \in B : b <= k
    <2>. HIDE DEF B
    <2>1. QED BY <1>4, LeastNat
  <1>6. b \in Nat /\ a <= b /\ b <= n + 1 /\ (b <= n => line[b] = Space)
        /\ \A j \in Nat : a <= j /\ j < b => line[j] # Space
    BY <1>3, <1>5
  <1>7. a <= n => a < b
    BY <1>3, <1>6
  <1>8. WordIn(line, i, a, b)
    BY <1>3, <1>6, <1>7 DEF WordIn
  <1>9. QED BY <1>3, <1>6, <1>8

\* The state of the first loop of execute, as FirstWord follows it.
Skipping(i) == [fn |-> << >>, flag |-> FALSE, done |-> FALSE, i |-> i]
Copying(fn, i) == [fn |-> fn, flag |-> TRUE, done |-> FALSE, i |-> i]
Ended(fn, i) == [fn |-> fn, flag |-> TRUE, done |-> TRUE, i |-> i]
Turn(line, i, s) ==
    IF s.done THEN s
    ELSE IF line[i] = Space /\ s.flag THEN [s EXCEPT !.done = TRUE]
    ELSE IF line[i] # Space
    THEN [s EXCEPT !.flag = TRUE, !.fn = Append(@, line[i]), !.i = i + 1]
    ELSE [s EXCEPT !.i = i + 1]
LoopAt(line, a, b, i) ==
    IF i < a THEN Skipping(i + 1)
    ELSE IF i < b THEN Copying(SubSeq(line, a, i), i + 1)
    ELSE Ended(SubSeq(line, a, b - 1), b)

\* A turn in each of the three.
LEMMA TurnSkipping ==
    ASSUME NEW line, NEW i, NEW k
    PROVE  /\ line[i] = Space => Turn(line, i, Skipping(k)) = Skipping(i + 1)
           /\ line[i] # Space => Turn(line, i, Skipping(k)) = Copying(Append(<< >>, line[i]), i + 1)
  BY DEF Turn, Skipping, Copying
LEMMA TurnCopying ==
    ASSUME NEW line, NEW i, NEW fn, NEW k
    PROVE  /\ line[i] = Space => Turn(line, i, Copying(fn, k)) = Ended(fn, k)
           /\ line[i] # Space => Turn(line, i, Copying(fn, k)) = Copying(Append(fn, line[i]), i + 1)
  BY DEF Turn, Copying, Ended
LEMMA TurnEnded ==
    ASSUME NEW line, NEW i, NEW fn, NEW k
    PROVE  Turn(line, i, Ended(fn, k)) = Ended(fn, k)
  BY DEF Turn, Ended

\* What FirstWord takes from the state.
LEMMA LoopFields ==
    ASSUME NEW fn, NEW i
    PROVE  /\ Skipping(i).fn = << >> /\ Skipping(i).i = i
           /\ Copying(fn, i).fn = fn /\ Copying(fn, i).i = i
           /\ Ended(fn, i).fn = fn /\ Ended(fn, i).i = i
  BY DEF Skipping, Copying, Ended

\* One more character of a part of a text.
LEMMA PartGrows ==
    ASSUME NEW line \in Texts, NEW a \in Nat, NEW i \in Nat, 1 <= a, a <= i, i <= Len(line)
    PROVE  SubSeq(line, a, i) = Append(SubSeq(line, a, i - 1), line[i])
  <1>1. Len(line) \in Nat
    BY TextTyped
  <1>2. a \in 1 .. Len(line) /\ i \in a .. Len(line)
    BY <1>1
  <1>3. QED BY <1>2, SubSeqRecursiveSecond DEF Texts

\* The states the loop goes through: LoopAt satisfies the equation of
\* FirstWord.
LEMMA LoopStep ==
    ASSUME NEW line \in Texts, NEW a, NEW b, WordIn(line, 1, a, b), NEW i \in Nat,
           i >= 1, i <= Len(line)
    PROVE  LoopAt(line, a, b, i) = Turn(line, i, LoopAt(line, a, b, i - 1))
  <1>. PICK n \in Nat : n = Len(line)
    BY TextTyped
  <1>. PICK h \in Nat : h = i - 1 /\ h + 1 = i
    OBVIOUS
  <1>0. a \in Nat /\ b \in Nat /\ 1 <= a /\ a <= b /\ b <= n + 1 /\ (a <= n => a < b)
    BY DEF WordIn
  <1>1. CASE i < a
    <2>1. line[i] = Space
      BY <1>0, <1>1 DEF WordIn
    <2>2. LoopAt(line, a, b, h) = Skipping(i)
          /\ LoopAt(line, a, b, i) = Skipping(i + 1)
      BY <1>0, <1>1 DEF LoopAt
    <2>6. Turn(line, i, Skipping(i)) = Skipping(i + 1)
      BY <2>1, TurnSkipping
    <2>7. QED BY <2>1, <2>2, <2>6
  <1>2. CASE i = a
    <2>1. line[i] # Space /\ i < b
      BY <1>0, <1>2 DEF WordIn
    <2>2. LoopAt(line, a, b, h) = Skipping(i)
          /\ LoopAt(line, a, b, i) = Copying(SubSeq(line, a, i), i + 1)
      BY <1>0, <1>2, <2>1 DEF LoopAt
    <2>3. SubSeq(line, a, h) = << >>
      BY <1>2, SubSeqEmpty
    <2>4. SubSeq(line, a, i) = Append(SubSeq(line, a, h), line[i])
      BY <1>0, <1>2, PartGrows
    <2>6. Turn(line, i, Skipping(i)) = Copying(Append(<< >>, line[i]), i + 1)
      BY <2>1, TurnSkipping
    <2>7. QED BY <2>2, <2>3, <2>4, <2>6
  <1>3. CASE a < i /\ i < b
    <2>1. line[i] # Space
      BY <1>0, <1>3 DEF WordIn
    <2>2. LoopAt(line, a, b, h) = Copying(SubSeq(line, a, h), i)
          /\ LoopAt(line, a, b, i) = Copying(SubSeq(line, a, i), i + 1)
      BY <1>0, <1>3 DEF LoopAt
    <2>3. SubSeq(line, a, i) = Append(SubSeq(line, a, h), line[i])
      BY <1>0, <1>3, PartGrows
    <2>6. Turn(line, i, Copying(SubSeq(line, a, h), i)) = Copying(Append(SubSeq(line, a, h), line[i]), i + 1)
      BY <2>1, TurnCopying
    <2>7. QED BY <2>1, <2>2, <2>3, <2>6
  <1>4. CASE a < i /\ i = b
    <2>1. line[i] = Space
      BY <1>0, <1>4 DEF WordIn
    <2>2. LoopAt(line, a, b, h) = Copying(SubSeq(line, a, h), i)
          /\ LoopAt(line, a, b, i) = Ended(SubSeq(line, a, h), i)
      BY <1>0, <1>4 DEF LoopAt
    <2>6. Turn(line, i, Copying(SubSeq(line, a, h), i)) = Ended(SubSeq(line, a, h), i)
      BY <2>1, TurnCopying
    <2>7. QED BY <2>1, <2>2, <2>6
  <1>5. CASE a < i /\ b < i
    <2>2. LoopAt(line, a, b, h) = Ended(SubSeq(line, a, b - 1), b)
          /\ LoopAt(line, a, b, i) = Ended(SubSeq(line, a, b - 1), b)
      BY <1>0, <1>5 DEF LoopAt
    <2>6. Turn(line, i, Ended(SubSeq(line, a, b - 1), b)) = Ended(SubSeq(line, a, b - 1), b)
      BY TurnEnded
    <2>7. QED BY <2>2, <2>6
  <1>6. QED BY <1>0, <1>1, <1>2, <1>3, <1>4, <1>5

\* The first loop of execute cuts out the first word.
LEMMA FirstWordIs ==
    ASSUME NEW line \in Texts, NEW a, NEW b, WordIn(line, 1, a, b)
    PROVE  FirstWord(line).fn = SubSeq(line, a, b - 1) /\ FirstWord(line).i = b
  <1>. PICK n \in Nat : n = Len(line)
    BY TextTyped
  <1>0. a \in Nat /\ b \in Nat /\ 1 <= a /\ a <= b /\ b <= n + 1 /\ (a <= n => a < b)
    BY DEF WordIn
  <1>. DEFINE first == [fn |-> << >>, flag |-> FALSE, done |-> FALSE, i |-> 1]
              body(f) == [i \in 0 .. n |-> IF i = 0 THEN first ELSE Turn(line, i, f[i - 1])]
              at == CHOOSE f : f = body(f)
              w == [i \in 0 .. n |-> LoopAt(line, a, b, i)]
  <1>1. FirstWord(line) = at[n]
    BY DEF FirstWord, Turn
  <1>2. w = body(w)
    <2>1. ASSUME NEW i \in 0 .. n, i # 0 PROVE w[i] = Turn(line, i, w[i - 1])
      <3>1. w[i] = LoopAt(line, a, b, i) /\ w[i - 1] = LoopAt(line, a, b, i - 1)
        BY <2>1
      <3>. HIDE DEF w
      <3>2. QED BY <2>1, <3>1, LoopStep
    <2>2. w[0] = first
      <3>1. LoopAt(line, a, b, 0) = Skipping(1)
        BY <1>0 DEF LoopAt
      <3>2. QED BY <3>1 DEF Skipping, Copying, Ended
    <2>3. w = [i \in 0 .. n |-> w[i]]
      OBVIOUS
    <2>. HIDE DEF w, first
    <2>4. ASSUME NEW i \in 0 .. n PROVE w[i] = IF i = 0 THEN first ELSE Turn(line, i, w[i - 1])
      BY <2>1, <2>2
    <2>5. QED BY <2>3, <2>4
  <1>3. at = body(at)
    <2>. HIDE DEF w, body
    <2>1. \E f : f = body(f)
      BY <1>2, Zenon
    <2>2. QED BY <2>1, Zenon
  <1>4. \A i \in 0 .. n : /\ at[i] = IF i = 0 THEN first ELSE Turn(line, i, at[i - 1])
                          /\ w[i] = IF i = 0 THEN first ELSE Turn(line, i, w[i - 1])
    <2>. HIDE DEF at, w, first
    <2>1. QED BY <1>2, <1>3
  <1>5. at[n] = w[n]
    <2>. HIDE DEF at, w, first
    <2>. DEFINE T == {i \in 0 .. n : at[i] # w[i]}
    <2>1. SUFFICES ASSUME T # {} PROVE FALSE
      BY <2>1
    <2>2. T \subseteq Nat
      OBVIOUS
    <2>3. PICK m \in T : \A k \in T : m <= k
      <3>. HIDE DEF T
      <3>1. QED BY <2>1, <2>2, LeastNat
    <2>4. m \in 0 .. n /\ m # 0 /\ at[m] # w[m]
      BY <2>3, <1>4
    <2>5. m - 1 \in 0 .. n /\ m - 1 \notin T
      BY <2>3, <2>4
    <2>6. at[m - 1] = w[m - 1]
      BY <2>5
    <2>7. QED BY <1>4, <2>4, <2>6
  <1>6. w[n] = LoopAt(line, a, b, n)
    OBVIOUS
  <1>7. FirstWord(line) = LoopAt(line, a, b, n)
    <2>. HIDE DEF at, w
    <2>1. QED BY <1>1, <1>5, <1>6
  <1>8. CASE n < a
    <2>1. a = n + 1 /\ b = n + 1 /\ b - 1 < a
      BY <1>0, <1>8
    <2>2. SubSeq(line, a, b - 1) = << >>
      BY <1>0, <2>1, SubSeqEmpty
    <2>3. LoopAt(line, a, b, n) = Skipping(b)
      BY <2>1, <1>8 DEF LoopAt
    <2>4. QED BY <1>7, <2>2, <2>3, LoopFields
  <1>9. CASE a <= n /\ n < b
    <2>1. b = n + 1 /\ b - 1 = n
      BY <1>0, <1>9
    <2>2. PICK fn : fn = SubSeq(line, a, b - 1)
      OBVIOUS
    <2>3. LoopAt(line, a, b, n) = Copying(fn, b)
      BY <1>0, <2>1, <2>2, <1>9 DEF LoopAt
    <2>4. FirstWord(line).fn = fn /\ FirstWord(line).i = b
      BY <1>7, <2>3, LoopFields
    <2>5. QED BY <2>2, <2>4
  <1>10. CASE b <= n
    <2>2. PICK fn : fn = SubSeq(line, a, b - 1)
      OBVIOUS
    <2>3. LoopAt(line, a, b, n) = Ended(fn, b)
      BY <1>0, <2>2, <1>10 DEF LoopAt
    <2>4. FirstWord(line).fn = fn /\ FirstWord(line).i = b
      BY <1>7, <2>3, LoopFields
    <2>5. QED BY <2>2, <2>4
  <1>11. QED BY <1>0, <1>8, <1>9, <1>10

\* WordsOf, by the places at which words start.
Starts(line) == {i \in DOMAIN line : line[i] # Space /\ (i = 1 \/ line[i - 1] = Space)}
End(line, i) == CHOOSE j \in i .. Len(line) : /\ \A k \in i .. j : line[k] # Space
                                              /\ j = Len(line) \/ line[j + 1] = Space
WordAt(line, i) == <<i, SubSeq(line, i, End(line, i))>>
Earlier(line, m) == {i \in 1 .. m - 1 : \E v \in WordsOf(line) : v[1] = i}

\* ... are those of WordsOf.
LEMMA WordsAre ==
    ASSUME NEW line
    PROVE  WordsOf(line) = {WordAt(line, i) : i \in Starts(line)}
  BY DEF WordsOf, WordAt, Starts, End

\* The words before a place are counted by where they start.
LEMMA EarlierAre ==
    ASSUME NEW line \in Texts, NEW m \in Nat
    PROVE  /\ IsFiniteSet(Earlier(line, m))
           /\ \A i : i \in Earlier(line, m) <=> i \in Starts(line) /\ i < m
  <1>1. \A i : WordAt(line, i)[1] = i
    BY DEF WordAt
  <1>2. \A i \in Starts(line) : i \in Nat /\ i >= 1
    BY DEF Starts, Texts
  <1>3. ASSUME NEW i PROVE i \in Earlier(line, m) <=> i \in Starts(line) /\ i < m
    <2>1. (\E v \in WordsOf(line) : v[1] = i) <=> i \in Starts(line)
      BY <1>1, WordsAre
    <2>2. QED BY <1>2, <2>1 DEF Earlier
  <1>4. IsFiniteSet(Earlier(line, m))
    <2>1. IsFiniteSet(1 .. m - 1)
      BY FS_Interval
    <2>2. QED BY <2>1, FS_Subset DEF Earlier
  <1>5. QED BY <1>3, <1>4

\* The end of a word that starts at a and ends before b.
LEMMA EndIs ==
    ASSUME NEW line \in Texts, NEW i, NEW a, NEW b, WordIn(line, i, a, b), a <= Len(line)
    PROVE  End(line, a) = b - 1
  <1>. PICK n \in Nat : n = Len(line)
    BY TextTyped
  <1>0. a \in Nat /\ b \in Nat /\ a < b /\ b <= n + 1
    BY DEF WordIn
  <1>. PICK e \in Nat : e = b - 1 /\ b = e + 1
    BY <1>0
  <1>. DEFINE Q(j) == (\A k \in a .. j : line[k] # Space) /\ (j = n \/ line[j + 1] = Space)
  <1>1. e \in a .. n /\ Q(e)
    BY <1>0 DEF WordIn
  <1>2. ASSUME NEW j \in a .. n, Q(j) PROVE j = e
    <2>1. j \in Nat
      BY <1>0
    <2>2. CASE j < e
      BY <1>0, <1>1, <1>2, <2>1, <2>2
    <2>3. CASE j > e
      BY <1>0, <1>1, <1>2, <2>1, <2>3
    <2>4. QED BY <2>1, <2>2, <2>3
  <1>3. End(line, a) = CHOOSE j \in a .. n : Q(j)
    BY DEF End
  <1>. HIDE DEF Q
  <1>4. QED BY <1>1, <1>2, <1>3

\* Where the first two words start, and that no other word starts before.
LEMMA StartsAre ==
    ASSUME NEW line \in Texts, NEW a, NEW b, NEW c, NEW d,
           WordIn(line, 1, a, b), WordIn(line, b, c, d)
    PROVE  /\ a <= Len(line) => a \in Starts(line)
           /\ c <= Len(line) => c \in Starts(line) /\ a < c
           /\ \A i \in Starts(line) : i \in Nat /\ i <= Len(line) /\ a <= i /\ (i = a \/ c <= i)
  <1>. PICK n \in Nat : n = Len(line)
    BY TextTyped
  <1>0. /\ a \in Nat /\ b \in Nat /\ c \in Nat /\ d \in Nat
        /\ 1 <= a /\ a <= b /\ b <= n + 1 /\ b <= c /\ c <= d /\ d <= n + 1
        /\ (a <= n => a < b) /\ (c <= n => c < d)
        /\ DOMAIN line = 1 .. n
    BY DEF WordIn, Texts
  <1>1. ASSUME a <= n PROVE a \in Starts(line)
    <2>1. line[a] # Space
      BY <1>0, <1>1 DEF WordIn
    <2>2. a = 1 \/ line[a - 1] = Space
      BY <1>0, <1>1 DEF WordIn
    <2>3. QED BY <1>0, <1>1, <2>1, <2>2 DEF Starts
  <1>2. ASSUME c <= n PROVE c \in Starts(line) /\ a < c
    <2>1. line[c] # Space
      BY <1>0, <1>2 DEF WordIn
    <2>2. line[b] = Space
      BY <1>0, <1>2 DEF WordIn
    <2>3. b < c
      BY <1>0, <2>1, <2>2
    <2>4. line[c - 1] = Space
      BY <1>0, <1>2, <2>3 DEF WordIn
    <2>5. QED BY <1>0, <1>2, <2>1, <2>3, <2>4 DEF Starts
  <1>3. ASSUME NEW i \in Starts(line)
        PROVE  i \in Nat /\ i <= n /\ a <= i /\ (i = a \/ c <= i)
    <2>1. i \in 1 .. n /\ line[i] # Space /\ (i = 1 \/ line[i - 1] = Space)
      BY <1>0 DEF Starts
    <2>2. ~(i < a)
      BY <1>0, <2>1 DEF WordIn
    <2>3. ~(a < i /\ i < b)
      BY <1>0, <2>1 DEF WordIn
    <2>4. ~(b <= i /\ i < c)
      BY <1>0, <2>1 DEF WordIn
    <2>5. QED BY <1>0, <2>1, <2>2, <2>3, <2>4
  <1>4. QED BY <1>1, <1>2, <1>3

\* The words of a line, counted by those that start earlier.
LEMMA WordIs ==
    ASSUME NEW line \in Texts, NEW n \in Nat, NEW i, i \in Starts(line),
           \A j \in Starts(line) : n = 1 + Cardinality(Earlier(line, j)) <=> j = i
    PROVE  Word(line, n) = SubSeq(line, i, End(line, i))
  <1>. DEFINE hits == {w \in WordsOf(line) : n = 1 + Cardinality(Earlier(line, w[1]))}
  <1>1. \A j : WordAt(line, j)[1] = j /\ WordAt(line, j)[2] = SubSeq(line, j, End(line, j))
    BY DEF WordAt
  <1>2. hits = {WordAt(line, i)}
    BY <1>1, WordsAre
  <1>3. Word(line, n) = IF hits = {} THEN << >> ELSE (CHOOSE w \in hits : TRUE)[2]
    BY DEF Word, Earlier
  <1>4. (CHOOSE w \in hits : TRUE) = WordAt(line, i) /\ hits # {}
    <2>. HIDE DEF hits
    <2>1. QED BY <1>2
  <1>5. QED
    <2>. HIDE DEF hits
    <2>1. QED BY <1>1, <1>3, <1>4

\* ... and when no word has the number, Word is empty.
LEMMA NoWord ==
    ASSUME NEW line \in Texts, NEW n \in Nat,
           \A j \in Starts(line) : n # 1 + Cardinality(Earlier(line, j))
    PROVE  Word(line, n) = << >>
  <1>. DEFINE hits == {w \in WordsOf(line) : n = 1 + Cardinality(Earlier(line, w[1]))}
  <1>1. \A j : WordAt(line, j)[1] = j
    BY DEF WordAt
  <1>2. hits = {}
    BY <1>1, WordsAre
  <1>3. Word(line, n) = IF hits = {} THEN << >> ELSE (CHOOSE w \in hits : TRUE)[2]
    BY DEF Word, Earlier
  <1>4. QED
    <2>. HIDE DEF hits
    <2>1. QED BY <1>2, <1>3

\* The first word lies at a, the second at c.
WordsAt(line, a, b, c, d) == /\ Word(line, 1) = SubSeq(line, a, b - 1)
                             /\ Word(line, 2) = SubSeq(line, c, d - 1)

\* The first two words of a line, as a user sees them.
LEMMA TwoWords ==
    ASSUME NEW line \in Texts, NEW a, NEW b, NEW c, NEW d,
           WordIn(line, 1, a, b), WordIn(line, b, c, d)
    PROVE  WordsAt(line, a, b, c, d)
  <1>. PICK n \in Nat : n = Len(line)
    BY TextTyped
  <1>0. /\ a \in Nat /\ b \in Nat /\ c \in Nat /\ d \in Nat
        /\ a <= b /\ b <= n + 1 /\ b <= c /\ c <= d /\ d <= n + 1
    BY DEF WordIn
  <1>1. /\ a <= n => a \in Starts(line)
        /\ c <= n => c \in Starts(line) /\ a < c
        /\ \A i \in Starts(line) : i \in Nat /\ i <= n /\ a <= i /\ (i = a \/ c <= i)
    BY StartsAre
  <1>2. ASSUME NEW j \in Starts(line)
        PROVE  /\ Cardinality(Earlier(line, j)) \in Nat
               /\ Cardinality(Earlier(line, j)) = 0 <=> j = a
               /\ Cardinality(Earlier(line, j)) = 1 <=> j = c
    <2>0. j \in Nat /\ j <= n /\ a <= j /\ (j = a \/ c <= j) /\ a <= n
      BY <1>0, <1>1
    <2>1. IsFiniteSet(Earlier(line, j))
          /\ \A i : i \in Earlier(line, j) <=> i \in Starts(line) /\ i < j
      BY <2>0, EarlierAre
    <2>2. j = a => Earlier(line, j) = {}
      <3>1. \A i \in Starts(line) : ~(i < a)
        BY <1>0, <1>1
      <3>2. j = a => \A i : i \notin Earlier(line, j)
        BY <2>1, <3>1
      <3>. PICK E : E = Earlier(line, j)
        OBVIOUS
      <3>3. QED BY <3>2
    <2>3. j # a => a \in Earlier(line, j)
      BY <1>0, <1>1, <2>0, <2>1
    <2>4. j = c => Earlier(line, j) = {a}
      <3>1. \A i \in Starts(line) : i < c => i = a
        BY <1>0, <1>1
      <3>2. j = c => a \in Starts(line) /\ a < c
        BY <1>0, <1>1, <2>0
      <3>3. j = c => \A i : i \in Earlier(line, j) <=> i = a
        BY <2>1, <3>1, <3>2
      <3>. PICK E : E = Earlier(line, j)
        OBVIOUS
      <3>4. QED BY <3>3
    <2>5. j # a /\ j # c => a \in Earlier(line, j) /\ c \in Earlier(line, j) /\ a # c
      BY <1>0, <1>1, <2>0, <2>1
    <2>6. a # c
      BY <1>0, <1>1, <2>0
    <2>7. Cardinality(Earlier(line, j)) = 0 <=> Earlier(line, j) = {}
      BY <2>1, FS_EmptySet
    <2>8. Cardinality(Earlier(line, j)) = 1 <=> \E x : Earlier(line, j) = {x}
      BY <2>1, FS_Singleton
    <2>9. Cardinality(Earlier(line, j)) \in Nat
      BY <2>1, FS_CardinalityType
    <2>10. Cardinality(Earlier(line, j)) = 0 <=> j = a
      BY <2>2, <2>3, <2>7
    <2>11. Cardinality(Earlier(line, j)) = 1 <=> j = c
      <3>1. CASE j = c
        BY <3>1, <2>4, <2>8
      <3>2. CASE j = a
        BY <3>2, <2>10, <2>6
      <3>3. CASE j # a /\ j # c
        BY <3>3, <2>5, <2>8
      <3>4. QED BY <3>1, <3>2, <3>3
    <2>12. QED BY <2>9, <2>10, <2>11
  <1>3. Word(line, 1) = SubSeq(line, a, b - 1)
    <2>1. CASE a <= n
      <3>1. End(line, a) = b - 1
        BY <2>1, EndIs
      <3>2. \A j \in Starts(line) : 1 = 1 + Cardinality(Earlier(line, j)) <=> j = a
        BY <1>2
      <3>3. Word(line, 1) = SubSeq(line, a, End(line, a))
        BY <1>1, <2>1, <3>2, WordIs
      <3>4. QED BY <3>1, <3>3
    <2>2. CASE ~(a <= n)
      <3>1. Starts(line) = {}
        BY <1>0, <1>1, <2>2
      <3>2. Word(line, 1) = << >>
        BY <3>1, NoWord
      <3>3. b - 1 < a
        BY <1>0, <2>2
      <3>4. SubSeq(line, a, b - 1) = << >>
        BY <1>0, <3>3, SubSeqEmpty
      <3>5. QED BY <3>2, <3>4
    <2>3. QED BY <2>1, <2>2
  <1>4. Word(line, 2) = SubSeq(line, c, d - 1)
    <2>1. CASE c <= n
      <3>1. End(line, c) = d - 1
        BY <2>1, EndIs
      <3>2. \A j \in Starts(line) : 2 = 1 + Cardinality(Earlier(line, j)) <=> j = c
        BY <1>2
      <3>3. Word(line, 2) = SubSeq(line, c, End(line, c))
        BY <1>1, <2>1, <3>2, WordIs
      <3>4. QED BY <3>1, <3>3
    <2>2. CASE ~(c <= n)
      <3>1. \A j \in Starts(line) : j # c
        BY <1>0, <1>1, <2>2
      <3>2. \A j \in Starts(line) : 2 # 1 + Cardinality(Earlier(line, j))
        BY <1>2, <3>1
      <3>3. Word(line, 2) = << >>
        BY <3>2, NoWord
      <3>4. d - 1 < c
        BY <1>0, <2>2
      <3>5. SubSeq(line, c, d - 1) = << >>
        BY <1>0, <3>4, SubSeqEmpty
      <3>6. QED BY <3>3, <3>5
    <2>3. QED BY <2>1, <2>2
  <1>5. QED BY <1>3, <1>4 DEF WordsAt

\* What execute leaves in arg_buf: the second word, and zeroes.
BufOf(w) == [k \in 0 .. ArgLength - 1 |-> IF k < Len(w) THEN w[k + 1] ELSE Nul]
Argument(line) == BufOf(Word(line, 2))
HasSecond(line) == IF Word(line, 2) = << >> THEN 0 ELSE 1

\* The second loop at index i, while it copies a word that starts at c.
Copied(line, c, i) == [k \in 0 .. ArgLength - 1 |-> IF k < i - c THEN line[c + k] ELSE Nul]
ParsingWord(line, i, buf, exist, b, c, d) ==
    /\ WordIn(line, b, c, d) /\ b >= 1 /\ i \in Nat /\ b <= i /\ i <= d
    /\ exist = IF i > c THEN 1 ELSE 0
    /\ buf = Copied(line, c, i)
Parsing(line, i, buf, exist) ==
    \E c, d : ParsingWord(line, i, buf, exist, FirstWord(line).i, c, d)

\* Command lines are texts.
LEMMA LineTyped ==
    ASSUME NEW line \in CommandLines
    PROVE  line \in Texts /\ ArgLength \in Nat
  BY CommandsAssumption DEF Texts

\* The two words of a line, and what the first loop makes of the first.
LEMMA TwoCuts ==
    ASSUME NEW line \in Texts
    PROVE  \E a, b, c, d \in Nat :
              /\ WordIn(line, 1, a, b) /\ WordIn(line, b, c, d) /\ b >= 1
              /\ FirstWord(line).fn = Word(line, 1) /\ FirstWord(line).i = b
              /\ Word(line, 2) = SubSeq(line, c, d - 1)
  <1>1. Len(line) \in Nat
    BY TextTyped
  <1>2. PICK a \in Nat, b \in Nat : WordIn(line, 1, a, b)
    BY <1>1, WordExists
  <1>3. b >= 1 /\ b <= Len(line) + 1
    BY <1>1, <1>2 DEF WordIn
  <1>4. PICK c \in Nat, d \in Nat : WordIn(line, b, c, d)
    BY <1>1, <1>3, WordExists
  <1>5. FirstWord(line).fn = SubSeq(line, a, b - 1) /\ FirstWord(line).i = b
    BY <1>2, FirstWordIs
  <1>6. Word(line, 1) = SubSeq(line, a, b - 1) /\ Word(line, 2) = SubSeq(line, c, d - 1)
    <2>1. WordsAt(line, a, b, c, d)
      BY <1>2, <1>4, TwoWords
    <2>2. QED BY <2>1 DEF WordsAt
  <1>7. FirstWord(line).fn = Word(line, 1)
    BY <1>5, <1>6
  <1>8. QED BY <1>2, <1>3, <1>4, <1>5, <1>6, <1>7

\* The first loop stops at an index.
LEMMA StopTyped ==
    ASSUME NEW line \in Texts PROVE FirstWord(line).i \in Nat /\ FirstWord(line).i >= 1
  <1>1. \E b \in Nat : b >= 1 /\ FirstWord(line).i = b
    BY TwoCuts
  <1>2. QED BY <1>1

\* The program execute looks for is the first word.
LEMMA ProgramIs ==
    ASSUME NEW line \in Texts PROVE FirstWord(line).fn = Word(line, 1)
  BY TwoCuts

\* The second loop starts at the end of the first word, with nothing copied.
LEMMA ParseStarts ==
    ASSUME NEW line \in Texts, ArgLength \in Nat
    PROVE  Parsing(line, FirstWord(line).i, NoArgs, 0)
  <1>1. PICK a \in Nat, b \in Nat, c \in Nat, d \in Nat :
           WordIn(line, b, c, d) /\ b >= 1 /\ FirstWord(line).i = b
    BY TwoCuts
  <1>2. b <= c /\ b <= d
    BY <1>1 DEF WordIn
  <1>3. Copied(line, c, b) = NoArgs
    BY <1>2 DEF Copied, NoArgs
  <1>4. ~(b > c) /\ b <= b
    BY <1>1, <1>2
  <1>. HIDE DEF NoArgs
  <1>6. ParsingWord(line, b, NoArgs, 0, b, c, d)
    BY <1>1, <1>2, <1>3, <1>4, Zenon DEF ParsingWord
  <1>7. QED BY <1>1, <1>6 DEF Parsing

\* The second loop at index i of a line whose second word is at c .. d - 1.
LoopFacts(line, i, c, d) == /\ ArgumentEnds(line, i) <=> i = d
                            /\ ArgIdx(line, i) = IF i > c THEN i - c ELSE 0

\* Where the second loop ends, and how many characters it has copied.
LEMMA LoopEnds ==
    ASSUME NEW line \in Texts, NEW i, NEW buf, NEW exist, NEW b, NEW c, NEW d,
           b = FirstWord(line).i, ParsingWord(line, i, buf, exist, b, c, d)
    PROVE  LoopFacts(line, i, c, d)
  <1>. PICK n \in Nat : n = Len(line)
    BY TextTyped
  <1>0. /\ i \in Nat /\ c \in Nat /\ d \in Nat /\ b \in Nat /\ b >= 1 /\ b <= i /\ i <= d
        /\ b <= c /\ c <= d /\ d <= n + 1
    BY TwoCuts DEF ParsingWord, WordIn
  <1>1. \A j \in Nat : b <= j /\ j < i => (line[j] # Space <=> c <= j)
    BY <1>0 DEF ParsingWord, WordIn
  <1>2. ArgumentEnds(line, i) <=> i = d
    <2>1. CASE i = d
      <3>1. CASE i <= n
        <4>1. line[i] = Space /\ c < d
          BY <1>0, <2>1, <3>1 DEF ParsingWord, WordIn
        <4>2. c \in b .. i - 1 /\ line[c] # Space
          BY <1>0, <1>1, <2>1, <4>1
        <4>3. QED BY <2>1, <4>1, <4>2 DEF ArgumentEnds
      <3>2. CASE ~(i <= n)
        BY <2>1, <3>2 DEF ArgumentEnds
      <3>3. QED BY <3>1, <3>2
    <2>2. CASE i # d
      <3>1. i < d /\ i <= n
        BY <1>0, <2>2
      <3>2. CASE i < c
        <4>1. \A j \in b .. i - 1 : line[j] = Space
          BY <1>0, <1>1, <3>2
        <4>2. QED BY <2>2, <3>1, <4>1 DEF ArgumentEnds
      <3>3. CASE ~(i < c)
        <4>1. line[i] # Space
          BY <1>0, <3>1, <3>3 DEF ParsingWord, WordIn
        <4>2. QED BY <2>2, <3>1, <4>1 DEF ArgumentEnds
      <3>4. QED BY <3>2, <3>3
    <2>3. QED BY <2>1, <2>2
  <1>3. ArgIdx(line, i) = IF i > c THEN i - c ELSE 0
    <2>. PICK h \in Int : h = i - 1
      BY <1>0
    <2>1. {j \in b .. h : line[j] # Space} = c .. h
      BY <1>0, <1>1
    <2>2. Cardinality(c .. h) = IF c > h THEN 0 ELSE h - c + 1
      BY <1>0, FS_Interval
    <2>3. ArgIdx(line, i) = Cardinality({j \in b .. h : line[j] # Space})
      BY DEF ArgIdx
    <2>. DEFINE S == {j \in b .. h : line[j] # Space}
    <2>5. S = c .. h
      BY <2>1
    <2>6. ArgIdx(line, i) = Cardinality(S)
      BY <2>3
    <2>. HIDE DEF S
    <2>4. QED BY <1>0, <2>2, <2>5, <2>6
  <1>4. QED BY <1>2, <1>3 DEF LoopFacts

\* The second word as the second loop sees it.
LEMMA SecondWord ==
    ASSUME NEW line \in Texts, NEW c, NEW d, WordIn(line, FirstWord(line).i, c, d)
    PROVE  Word(line, 2) = SubSeq(line, c, d - 1)
  <1>1. Len(line) \in Nat
    BY TextTyped
  <1>2. PICK a \in Nat, b \in Nat : WordIn(line, 1, a, b)
    BY <1>1, WordExists
  <1>3. FirstWord(line).i = b
    BY <1>2, FirstWordIs
  <1>4. WordsAt(line, a, b, c, d)
    BY <1>2, <1>3, TwoWords
  <1>5. QED BY <1>4 DEF WordsAt

\* The second word has the length the second loop counts.
LEMMA SecondLength ==
    ASSUME NEW line \in Texts, NEW c, NEW d, WordIn(line, FirstWord(line).i, c, d)
    PROVE  Len(Word(line, 2)) = d - c
  <1>. PICK b : b = FirstWord(line).i
    OBVIOUS
  <1>1. b \in Nat /\ b >= 1 /\ Len(line) \in Nat
    BY StopTyped, TextTyped
  <1>2. c \in Nat /\ d \in Nat /\ b <= c /\ c <= d /\ d <= Len(line) + 1
    BY <1>1 DEF WordIn
  <1>. PICK e \in Int : e = d - 1
    BY <1>2
  <1>3. \A j \in c .. e : line[j] \in Nat \ {Nul}
    BY <1>1, <1>2, TextTyped
  <1>4. Len(SubSeq(line, c, e)) = IF c <= e THEN e - c + 1 ELSE 0
    BY <1>2, <1>3, SubSeqProperties
  <1>5. Word(line, 2) = SubSeq(line, c, e)
    BY SecondWord
  <1>6. (IF c <= e THEN e - c + 1 ELSE 0) = d - c
    BY <1>2
  <1>7. QED BY <1>4, <1>5, <1>6

\* One turn of the second loop.
TurnOf(line, i, buf, new, exist, newExist) ==
    IF line[i] = Space THEN new = buf /\ newExist = exist
    ELSE ArgIdx(line, i) < ArgLength =>
             newExist = 1 /\ new = [buf EXCEPT ![ArgIdx(line, i)] = line[i]]

\* ... keeps in the buffer what has been read of the second word.
LEMMA ParseTurns ==
    ASSUME NEW line \in Texts, Len(Word(line, 2)) < ArgLength, ArgLength \in Nat,
           NEW i, NEW buf, NEW exist, Parsing(line, i, buf, exist), ~ArgumentEnds(line, i),
           NEW new, NEW newExist, TurnOf(line, i, buf, new, exist, newExist)
    PROVE  Parsing(line, i + 1, new, newExist)
  <1>. PICK n \in Nat : n = Len(line)
    BY TextTyped
  <1>. PICK b : b = FirstWord(line).i
    OBVIOUS
  <1>1. PICK c, d : ParsingWord(line, i, buf, exist, b, c, d)
    BY DEF Parsing
  <1>2. i # d /\ ArgIdx(line, i) = IF i > c THEN i - c ELSE 0
    <2>1. LoopFacts(line, i, c, d)
      BY <1>1, LoopEnds
    <2>2. QED BY <2>1 DEF LoopFacts
  <1>3. b \in Nat /\ b >= 1
    BY StopTyped
  <1>4. /\ i \in Nat /\ c \in Nat /\ d \in Nat /\ b <= i /\ i < d /\ d <= n + 1
        /\ b <= c /\ d - c < ArgLength
    <2>1. Len(Word(line, 2)) = d - c
      BY <1>1, SecondLength DEF ParsingWord
    <2>2. QED BY <1>1, <1>2, <1>3, <2>1 DEF ParsingWord, WordIn
  <1>5. newExist = (IF i + 1 > c THEN 1 ELSE 0) /\ new = Copied(line, c, i + 1)
    <2>1. CASE i < c
      <3>1. line[i] = Space
        BY <1>1, <1>4, <2>1 DEF ParsingWord, WordIn
      <3>2. new = Copied(line, c, i) /\ newExist = 0
        BY <1>1, <1>4, <2>1, <3>1 DEF ParsingWord, TurnOf
      <3>3. Copied(line, c, i) = Copied(line, c, i + 1)
        BY <1>4, <2>1 DEF Copied
      <3>4. QED BY <1>4, <2>1, <3>2, <3>3
    <2>2. CASE c <= i
      <3>1. line[i] # Space
        BY <1>1, <1>4, <2>2 DEF ParsingWord, WordIn
      <3>. PICK m \in Nat : m = i - c /\ i = c + m
        BY <1>4, <2>2
      <3>2. ArgIdx(line, i) = m /\ m \in 0 .. ArgLength - 1
        BY <1>2, <1>4, <2>2
      <3>3. newExist = 1 /\ new = [Copied(line, c, i) EXCEPT ![m] = line[c + m]]
        BY <1>1, <3>1, <3>2 DEF ParsingWord, TurnOf
      <3>4. [Copied(line, c, i) EXCEPT ![m] = line[c + m]] = Copied(line, c, i + 1)
        <4>. DEFINE before == Copied(line, c, i)
        <4>1. i - c = m /\ i + 1 - c = m + 1
          BY <1>4
        <4>2. before = [k \in 0 .. ArgLength - 1 |-> IF k < m THEN line[c + k] ELSE Nul]
          BY <1>4, <4>1 DEF Copied
        <4>3. Copied(line, c, i + 1) =
                  [k \in 0 .. ArgLength - 1 |-> IF k < m + 1 THEN line[c + k] ELSE Nul]
          BY <1>4, <4>1 DEF Copied
        <4>4. \A k \in 0 .. ArgLength - 1 :
                 [before EXCEPT ![m] = line[c + m]][k] = IF k < m + 1 THEN line[c + k] ELSE Nul
          <5>. HIDE DEF before
          <5>1. ASSUME NEW k \in 0 .. ArgLength - 1
                PROVE  [before EXCEPT ![m] = line[c + m]][k] =
                           IF k < m + 1 THEN line[c + k] ELSE Nul
            <6>1. CASE k = m
              <7>1. [before EXCEPT ![m] = line[c + m]][m] = line[c + m]
                BY <3>2, <4>2
              <7>2. m < m + 1
                BY <3>2
              <7>3. QED BY <6>1, <7>1, <7>2
            <6>2. CASE k # m
              <7>1. [before EXCEPT ![m] = line[c + m]][k] = before[k]
                BY <3>2, <4>2, <6>2
              <7>2. k < m <=> k < m + 1
                BY <3>2, <6>2
              <7>3. QED BY <4>2, <7>1, <7>2
            <6>3. QED BY <6>1, <6>2
          <5>2. QED BY <5>1
        <4>. HIDE DEF before
        <4>5. QED BY <4>2, <4>3, <4>4 DEF before
      <3>5. QED BY <1>4, <2>2, <3>3, <3>4
    <2>3. QED BY <1>4, <2>1, <2>2
  <1>6. ParsingWord(line, i + 1, new, newExist, b, c, d)
    BY <1>1, <1>3, <1>4, <1>5 DEF ParsingWord
  <1>7. QED BY <1>6 DEF Parsing

\* The second word is a text, no longer than the line.
LEMMA SecondTyped ==
    ASSUME NEW line \in Texts
    PROVE  Word(line, 2) \in Texts /\ Len(Word(line, 2)) <= Len(line)
  <1>1. PICK a \in Nat, b \in Nat, c \in Nat, d \in Nat :
           WordIn(line, b, c, d) /\ b >= 1 /\ Word(line, 2) = SubSeq(line, c, d - 1)
    BY TwoCuts
  <1>2. Len(line) \in Nat /\ 1 <= c /\ c <= d /\ d <= Len(line) + 1
    BY <1>1, TextTyped DEF WordIn
  <1>. PICK e \in Int : e = d - 1
    BY <1>1
  <1>3. \A j \in c .. e : line[j] \in Nat \ {Nul}
    BY <1>2, TextTyped
  <1>4. /\ SubSeq(line, c, e) \in Seq(Nat \ {Nul})
        /\ Len(SubSeq(line, c, e)) = IF c <= e THEN e - c + 1 ELSE 0
    BY <1>3, SubSeqProperties
  <1>. PICK w : w = SubSeq(line, c, e)
    OBVIOUS
  <1>5. w \in Texts /\ Len(w) = IF c <= e THEN e - c + 1 ELSE 0
    BY <1>4 DEF Texts
  <1>6. Len(w) <= Len(line)
    BY <1>2, <1>5
  <1>7. QED BY <1>1, <1>5, <1>6

\* An update that changes nothing.
LEMMA SameAt ==
    ASSUME NEW S, NEW f, f = [k \in S |-> f[k]], NEW m \in S
    PROVE  [f EXCEPT ![m] = f[m]] = f
  OBVIOUS

\* Behind the second loop, arg_buf and argument_exist tell the second word.
LEMMA ParseEnds ==
    ASSUME NEW line \in Texts, Len(Word(line, 2)) < ArgLength, ArgLength \in Nat,
           NEW i, NEW buf, NEW exist, Parsing(line, i, buf, exist), ArgumentEnds(line, i)
    PROVE  /\ ArgIdx(line, i) < ArgLength
           /\ [buf EXCEPT ![ArgIdx(line, i)] = Nul] = Argument(line)
           /\ exist = HasSecond(line)
  <1>. PICK n \in Nat : n = Len(line)
    BY TextTyped
  <1>. PICK b : b = FirstWord(line).i
    OBVIOUS
  <1>1. PICK c, d : ParsingWord(line, i, buf, exist, b, c, d)
    BY DEF Parsing
  <1>2. i = d /\ ArgIdx(line, i) = IF i > c THEN i - c ELSE 0
    <2>1. LoopFacts(line, i, c, d)
      BY <1>1, LoopEnds
    <2>2. QED BY <2>1 DEF LoopFacts
  <1>3. b \in Nat /\ b >= 1
    BY StopTyped
  <1>4. /\ c \in Nat /\ d \in Nat /\ b <= c /\ c <= d /\ d <= n + 1 /\ d - c < ArgLength
    <2>1. Len(Word(line, 2)) = d - c
      BY <1>1, SecondLength DEF ParsingWord
    <2>2. QED BY <1>1, <1>3, <2>1 DEF ParsingWord, WordIn
  <1>. PICK m \in Nat : m = d - c /\ d = c + m
    BY <1>4
  <1>. PICK w : w = Word(line, 2)
    OBVIOUS
  <1>5. w = SubSeq(line, c, d - 1)
    BY <1>1, SecondWord DEF ParsingWord
  <1>. PICK e \in Int : e = d - 1
    BY <1>4
  <1>6. \A j \in c .. e : line[j] \in Nat \ {Nul}
    BY <1>3, <1>4, TextTyped
  <1>7. /\ SubSeq(line, c, e) \in Seq(Nat \ {Nul})
        /\ Len(SubSeq(line, c, e)) = IF c <= e THEN e - c + 1 ELSE 0
        /\ \A j \in 1 .. e - c + 1 : SubSeq(line, c, e)[j] = line[c + j - 1]
    BY <1>4, <1>6, SubSeqProperties
  <1>8. w = SubSeq(line, c, e)
    BY <1>5
  <1>9. w \in Texts /\ Len(w) = m /\ \A k \in Nat : k < m => w[k + 1] = line[c + k]
    <2>1. w \in Seq(Nat \ {Nul}) /\ Len(w) = (IF c <= e THEN e - c + 1 ELSE 0)
          /\ \A j \in 1 .. e - c + 1 : w[j] = line[c + j - 1]
      BY <1>7, <1>8
    <2>2. Len(w) = m
      BY <2>1, <1>4
    <2>3. ASSUME NEW k \in Nat, k < m PROVE w[k + 1] = line[c + k]
      <3>1. k + 1 \in 1 .. e - c + 1 /\ c + (k + 1) - 1 = c + k
        BY <1>4, <2>3
      <3>2. QED BY <2>1, <3>1
    <2>4. QED BY <2>1, <2>2, <2>3 DEF Texts
  <1>10. m \in 0 .. ArgLength - 1 /\ ArgIdx(line, i) = m
    BY <1>2, <1>3, <1>4
  <1>11. buf = [k \in 0 .. ArgLength - 1 |-> IF k < m THEN line[c + k] ELSE Nul]
    BY <1>1, <1>2, <1>4 DEF ParsingWord, Copied
  <1>12. [buf EXCEPT ![m] = Nul] = [k \in 0 .. ArgLength - 1 |-> IF k < m THEN w[k + 1] ELSE Nul]
    <2>1. \A k \in 0 .. ArgLength - 1 :
             (IF k < m THEN line[c + k] ELSE Nul) = (IF k < m THEN w[k + 1] ELSE Nul)
      BY <1>9
    <2>2. [buf EXCEPT ![m] = Nul] =
              [k \in 0 .. ArgLength - 1 |-> IF k < m THEN line[c + k] ELSE Nul]
      <3>1. buf[m] = Nul
        <4>1. \A k \in 0 .. ArgLength - 1 : k = m => buf[k] = Nul
          BY <1>11
        <4>2. QED BY <1>10, <4>1
      <3>2. [buf EXCEPT ![m] = Nul] = buf
        <4>. PICK S : S = 0 .. ArgLength - 1
          OBVIOUS
        <4>1. buf = [k \in S |-> buf[k]] /\ m \in S
          BY <1>10, <1>11
        <4>2. [buf EXCEPT ![m] = buf[m]] = buf
          BY <4>1, SameAt
        <4>3. QED BY <3>1, <4>2
      <3>3. QED BY <1>11, <3>2
    <2>3. QED BY <2>1, <2>2
  <1>13. Argument(line) = [k \in 0 .. ArgLength - 1 |-> IF k < m THEN w[k + 1] ELSE Nul]
    BY <1>9 DEF Argument, BufOf
  <1>14. exist = HasSecond(line)
    <2>1. exist = IF m > 0 THEN 1 ELSE 0
      BY <1>1, <1>2, <1>4 DEF ParsingWord
    <2>2. w = << >> <=> m = 0
      BY <1>9 DEF Texts
    <2>3. HasSecond(line) = IF w = << >> THEN 0 ELSE 1
      BY DEF HasSecond
    <2>4. CASE m = 0
      <3>1. w = << >>
        BY <2>2, <2>4
      <3>2. ~(m > 0)
        BY <2>4
      <3>3. exist = 0
        BY <2>1, <3>2, Zenon
      <3>4. QED BY <2>3, <3>1, <3>3, Zenon
    <2>5. CASE m > 0
      <3>1. exist = 1
        BY <2>1, <2>5
      <3>2. w # << >>
        BY <2>2, <2>5
      <3>3. QED BY <2>3, <3>1, <3>2, Zenon
    <2>6. QED BY <2>4, <2>5
  <1>15. ArgIdx(line, i) < ArgLength
    <2>1. m < ArgLength
      BY <1>4
    <2>2. QED BY <1>10, <2>1, Zenon
  <1>16. [buf EXCEPT ![ArgIdx(line, i)] = Nul] = Argument(line)
    BY <1>10, <1>12, <1>13, Zenon
  <1>17. QED BY <1>14, <1>15, <1>16, Zenon

\* getargs gives the string back.
LEMMA StringOf ==
    ASSUME NEW w \in Texts, Len(w) < ArgLength, ArgLength \in Nat
    PROVE  StringIn(BufOf(w)) = w /\ Terminated(BufOf(w))
  <1>. PICK m \in Nat : m = Len(w)
    BY TextTyped
  <1>. DEFINE buf == BufOf(w)
              Q(k) == buf[k] = Nul /\ \A j \in 0 .. k - 1 : buf[j] # Nul
  <1>1. DOMAIN buf = 0 .. ArgLength - 1
        /\ \A k \in 0 .. ArgLength - 1 : buf[k] = IF k < m THEN w[k + 1] ELSE Nul
    BY DEF BufOf
  <1>2. \A k \in 0 .. m - 1 : w[k + 1] # Nul
    BY TextTyped
  <1>. HIDE DEF buf
  <1>3. m \in DOMAIN buf /\ Q(m)
    BY <1>1, <1>2
  <1>4. ASSUME NEW k \in DOMAIN buf, Q(k) PROVE k = m
    <2>1. k \in Nat /\ k < ArgLength
      BY <1>1
    <2>2. ~(k < m)
      BY <1>1, <1>2, <1>4, <2>1
    <2>3. ~(m < k)
      BY <1>1, <1>4, <2>1
    <2>4. QED BY <2>1, <2>2, <2>3
  <1>. DEFINE n == CHOOSE k \in DOMAIN buf : Q(k)
  <1>5. n = m
    <2>. HIDE DEF Q
    <2>1. QED BY <1>3, <1>4
  <1>6. StringIn(buf) = [i \in 1 .. n |-> buf[i - 1]]
    BY DEF StringIn
  <1>7. [i \in 1 .. m |-> buf[i - 1]] = w
    <2>1. \A i \in 1 .. m : buf[i - 1] = w[i]
      BY <1>1
    <2>2. w = [i \in 1 .. m |-> w[i]]
      BY DEF Texts
    <2>3. QED BY <2>1, <2>2
  <1>8. QED
    <2>. HIDE DEF n
    <2>1. Terminated(buf)
      BY <1>3 DEF Terminated
    <2>2. QED BY <1>5, <1>6, <1>7, <2>1 DEF buf

----------------------------------------------------------------------------
\* A terminal, with what is in the kernel and what has crossed its command.
ShellShape(s) == s = [pc |-> s.pc, line |-> s.line, parsed |-> s.parsed,
                      args |-> s.args, shown |-> s.shown]
Answered(s, x) ==
    \/ s.shown = Answer(s.line)
    \/ ~TooLong(s.line) /\ ~WordsFit(s.line)
    \/ Word(s.line, 1) = Cat /\ x = "text"
    \/ /\ Word(s.line, 1) = Cat /\ x = "flag"
       /\ s.shown = IF Word(s.line, 2) = << >> THEN NotFound ELSE NoArgument
UnderWay(s) == /\ s.line \in CommandLines /\ s.line # Exit /\ s.line # << >>
               /\ s.shown = << >>
               /\ s.pc # "execute" => ~TooLong(s.line)

\* Nobody has changed a command's argument in the kernel, itself included.
Own(line, x) == x # "text" /\ Len(Word(line, 2)) < ArgLength

\* The kernel's buffer is this command's own until another execute begins.
InKernel(s, buf, exist) ==
    /\ s.pc = "zero" => exist = 0
    /\ s.pc = "parse" => Parsing(s.line, s.parsed, buf, exist)
    /\ s.pc \in {"lookup", "copy"} => buf = Argument(s.line) /\ exist = HasSecond(s.line)
    /\ s.pc = "program" => s.args = Argument(s.line)

\* The invariant of a terminal.
CmdOk(s, buf, exist, x) ==
    /\ ShellShape(s) /\ x \in {"no", "text", "flag"}
    /\ s.pc = "prompt" => Answered(s, x)
    /\ s.pc # "prompt" => UnderWay(s)
    /\ Own(s.line, x) => InKernel(s, buf, exist)
    /\ s.pc = "program" /\ x = "no" /\ Own(s.line, x) => exist = HasSecond(s.line)

\* ... of all of them.
CommandInv ==
    /\ shell = [t \in Users |-> shell[t]] /\ crossed = [t \in Users |-> crossed[t]]
    /\ \A t \in Users : CmdOk(shell[t], arg_buf, argument_exist, crossed[t])

\* What a step of execute on another terminal does to a command.
NowCrossed(s, x) == IF s.pc \in {"zero", "parse", "lookup", "copy"} THEN "text"
                    ELSE IF s.pc = "program" /\ x = "no" THEN "flag" ELSE x

\* A command that has been crossed may find anything in the kernel.
LEMMA CrossedOk ==
    ASSUME NEW s, NEW buf, NEW exist, NEW x, CmdOk(s, buf, exist, x), NEW buf2, NEW exist2
    PROVE  CmdOk(s, buf2, exist2, NowCrossed(s, x))
  <1>1. CASE s.pc \in {"zero", "parse", "lookup", "copy"}
    <2>1. NowCrossed(s, x) = "text"
      BY <1>1 DEF NowCrossed
    <2>2. s.pc # "prompt" /\ s.pc # "program"
      BY <1>1
    <2>3. QED BY <2>1, <2>2 DEF CmdOk, Own
  <1>2. CASE s.pc = "program"
    <2>1. NowCrossed(s, x) \in {"text", "flag"} /\ (NowCrossed(s, x) # "text" => x # "text")
      BY <1>2 DEF NowCrossed, CmdOk
    <2>2. QED BY <1>2, <2>1 DEF CmdOk, InKernel, Own
  <1>3. CASE s.pc \notin {"zero", "parse", "lookup", "copy", "program"}
    <2>1. NowCrossed(s, x) = x
      BY <1>3 DEF NowCrossed
    <2>2. QED BY <1>3, <2>1 DEF CmdOk, InKernel
  <1>4. QED BY <1>1, <1>2, <1>3

\* Crosses crosses the commands of the others, and only them.
LEMMA CrossesIs ==
    ASSUME CommandInv, NEW t \in Users, Crosses(t)
    PROVE  /\ crossed' = [u \in Users |-> crossed'[u]]
           /\ crossed'[t] = crossed[t]
           /\ \A u \in Users : u # t => crossed'[u] = NowCrossed(shell[u], crossed[u])
  <1>1. crossed' = [u \in Users |->
            IF u = t THEN crossed[u] ELSE NowCrossed(shell[u], crossed[u])]
    BY DEF Crosses, NowCrossed
  <1>2. QED BY <1>1

\* A command goes on alone, or crosses the others.
LEMMA Together ==
    ASSUME CommandInv, NEW t \in Users, NEW s,
           shell' = [shell EXCEPT ![t] = s],
           CmdOk(s, arg_buf', argument_exist', crossed[t]),
           Crosses(t) \/ UNCHANGED <<argument_exist, arg_buf, crossed>>
    PROVE  CommandInv'
  <1>1. /\ shell' = [u \in Users |-> shell'[u]] /\ shell'[t] = s
        /\ \A u \in Users : u # t => shell'[u] = shell[u]
    BY DEF CommandInv
  <1>2. CASE Crosses(t)
    <2>1. /\ crossed' = [u \in Users |-> crossed'[u]]
          /\ crossed'[t] = crossed[t]
          /\ \A u \in Users : u # t => crossed'[u] = NowCrossed(shell[u], crossed[u])
      BY <1>2, CrossesIs
    <2>2. ASSUME NEW u \in Users
          PROVE  CmdOk(shell'[u], arg_buf', argument_exist', crossed'[u])
      <3>1. CASE u = t
        BY <1>1, <2>1, <3>1
      <3>2. CASE u # t
        <4>1. CmdOk(shell[u], arg_buf, argument_exist, crossed[u])
          BY DEF CommandInv
        <4>2. CmdOk(shell[u], arg_buf', argument_exist', NowCrossed(shell[u], crossed[u]))
          BY <4>1, CrossedOk
        <4>3. QED BY <1>1, <2>1, <3>2, <4>2
      <3>3. QED BY <3>1, <3>2
    <2>3. QED BY <1>1, <2>1, <2>2 DEF CommandInv
  <1>3. CASE UNCHANGED <<argument_exist, arg_buf, crossed>>
    <2>1. ASSUME NEW u \in Users
          PROVE  CmdOk(shell'[u], arg_buf', argument_exist', crossed'[u])
      <3>1. CASE u = t
        BY <1>1, <1>3, <3>1
      <3>2. CASE u # t
        <4>1. CmdOk(shell[u], arg_buf, argument_exist, crossed[u])
          BY DEF CommandInv
        <4>2. QED BY <1>1, <1>3, <3>2, <4>1
      <3>3. QED BY <3>1, <3>2
    <2>2. crossed' = [u \in Users |-> crossed'[u]]
      BY <1>3 DEF CommandInv
    <2>3. QED BY <1>1, <2>1, <2>2 DEF CommandInv
  <1>4. QED BY <1>2, <1>3

\* The record of a terminal, and a command's own record, where all but its
\* line may change.
Rec(pc, line, parsed, args, shown) ==
    [pc |-> pc, line |-> line, parsed |-> parsed, args |-> args, shown |-> shown]
At(s, pc, parsed, args, shown) == Rec(pc, s.line, parsed, args, shown)

\* Its fields.
LEMMA AtFields ==
    ASSUME NEW s, NEW pc, NEW parsed, NEW args, NEW shown, NEW r,
           r = At(s, pc, parsed, args, shown)
    PROVE  /\ ShellShape(r) /\ r.pc = pc /\ r.line = s.line /\ r.parsed = parsed
           /\ r.args = args /\ r.shown = shown
  BY DEF At, Rec, ShellShape

\* Updates of records, field by field, where the fields are known.
FieldsSet(q, new, pc, line, parsed, args, shown) ==
    /\ [q EXCEPT !.parsed = new] = Rec(pc, line, new, args, shown)
    /\ [q EXCEPT !.args = new] = Rec(pc, line, parsed, new, shown)
    /\ [q EXCEPT !.shown = new] = Rec(pc, line, parsed, args, new)

LEMMA RecordFields ==
    ASSUME NEW q, NEW pc, NEW line, NEW parsed, NEW args, NEW shown, NEW new,
           q = Rec(pc, line, parsed, args, shown)
    PROVE  FieldsSet(q, new, pc, line, parsed, args, shown)
  BY DEF Rec, FieldsSet

\* ... where the program counter changes too.
MovedSet(s, pc, new) ==
    /\ [s EXCEPT !.pc = pc, !.parsed = new] = At(s, pc, new, s.args, s.shown)
    /\ [s EXCEPT !.pc = pc, !.args = new] = At(s, pc, s.parsed, new, s.shown)
    /\ [s EXCEPT !.pc = pc, !.shown = new] = At(s, pc, s.parsed, s.args, new)

LEMMA TwoFields ==
    ASSUME NEW s, ShellShape(s), NEW pc, NEW new PROVE MovedSet(s, pc, new)
  <1>. DEFINE q == [s EXCEPT !.pc = pc]
  <1>1. q = Rec(pc, s.line, s.parsed, s.args, s.shown)
    BY DEF ShellShape, Rec
  <1>. HIDE DEF q
  <1>2. FieldsSet(q, new, pc, s.line, s.parsed, s.args, s.shown)
    BY <1>1, RecordFields
  <1>3. /\ [q EXCEPT !.parsed = new] = At(s, pc, new, s.args, s.shown)
        /\ [q EXCEPT !.args = new] = At(s, pc, s.parsed, new, s.shown)
        /\ [q EXCEPT !.shown = new] = At(s, pc, s.parsed, s.args, new)
    BY <1>2, Zenon DEF FieldsSet, At
  <1>4. QED BY <1>3, Zenon DEF q, MovedSet

\* ... and where nothing else does.
LEMMA GoesIs ==
    ASSUME CommandInv, NEW t \in Users, NEW pc, Goes(t, pc)
    PROVE  shell' = [shell EXCEPT ![t] =
               At(shell[t], pc, shell[t].parsed, shell[t].args, shell[t].shown)]
  <1>1. ShellShape(shell[t])
    BY DEF CommandInv, CmdOk
  <1>2. [shell[t] EXCEPT !.pc = pc] =
            At(shell[t], pc, shell[t].parsed, shell[t].args, shell[t].shown)
    BY <1>1 DEF ShellShape, At, Rec
  <1>3. QED BY <1>2 DEF Goes

\* At first every terminal waits for a command.
LEMMA CommandInitOk == CommandInit => CommandInv
  <1>. SUFFICES ASSUME CommandInit PROVE CommandInv
    OBVIOUS
  <1>1. ASSUME NEW t \in Users PROVE CmdOk(shell[t], arg_buf, argument_exist, crossed[t])
    <2>1. /\ crossed[t] = "no" /\ ShellShape(shell[t])
          /\ shell[t].pc = "prompt" /\ shell[t].line = << >> /\ shell[t].shown = << >>
      BY DEF CommandInit, ShellShape
    <2>2. Answer(<< >>) = << >>
      BY DEF Answer
    <2>3. Answered(shell[t], crossed[t])
      BY <2>1, <2>2 DEF Answered
    <2>4. InKernel(shell[t], arg_buf, argument_exist)
      BY <2>1 DEF InKernel
    <2>5. QED BY <2>1, <2>3, <2>4 DEF CmdOk
  <1>2. /\ shell = [t \in Users |-> shell[t]]
        /\ crossed = [t \in Users |-> crossed[t]]
    BY DEF CommandInit
  <1>3. QED BY <1>1, <1>2 DEF CommandInv

\* A new line: an empty one and exit are answered by a prompt.
LEMMA TypeOk ==
    ASSUME CommandInv, NEW t \in Users, NEW line \in CommandLines, TypeCommand(t, line)
    PROVE  CommandInv'
  <1>. DEFINE s == [pc |-> IF line \in {Exit, << >>} THEN "prompt" ELSE "execute",
                    line |-> line, parsed |-> 0, args |-> NoArgs, shown |-> << >>]
  <1>1. /\ shell' = [shell EXCEPT ![t] = s] /\ crossed' = [crossed EXCEPT ![t] = "no"]
        /\ argument_exist' = argument_exist /\ arg_buf' = arg_buf
    BY DEF TypeCommand
  <1>2. /\ ShellShape(s) /\ s.line = line /\ s.shown = << >>
        /\ s.pc = IF line \in {Exit, << >>} THEN "prompt" ELSE "execute"
    BY DEF ShellShape
  <1>. HIDE DEF s
  <1>3. CmdOk(s, arg_buf, argument_exist, "no")
    <2>1. CASE line \in {Exit, << >>}
      <3>1. s.pc = "prompt"
        BY <1>2, <2>1
      <3>2. Answer(line) = << >>
        BY <2>1 DEF Answer
      <3>3. Answered(s, "no") /\ InKernel(s, arg_buf, argument_exist)
        BY <1>2, <3>1, <3>2 DEF Answered, InKernel
      <3>4. QED BY <1>2, <3>1, <3>3 DEF CmdOk
    <2>2. CASE line \notin {Exit, << >>}
      <3>1. s.pc = "execute"
        BY <1>2, <2>2
      <3>2. UnderWay(s) /\ InKernel(s, arg_buf, argument_exist)
        BY <1>2, <2>2, <3>1 DEF UnderWay, InKernel
      <3>3. QED BY <1>2, <3>1, <3>2 DEF CmdOk
    <2>3. QED BY <2>1, <2>2
  <1>4. ASSUME NEW u \in Users
        PROVE  CmdOk(shell'[u], arg_buf', argument_exist', crossed'[u])
    <2>1. CASE u = t
      <3>1. shell'[u] = s /\ crossed'[u] = "no"
        BY <1>1, <2>1 DEF CommandInv
      <3>2. QED BY <1>1, <1>3, <3>1
    <2>2. CASE u # t
      <3>1. shell'[u] = shell[u] /\ crossed'[u] = crossed[u]
        BY <1>1, <2>2 DEF CommandInv
      <3>2. QED BY <1>1, <3>1 DEF CommandInv
    <2>3. QED BY <2>1, <2>2
  <1>5. /\ shell' = [u \in Users |-> shell'[u]]
        /\ crossed' = [u \in Users |-> crossed'[u]]
    BY <1>1 DEF CommandInv
  <1>6. QED BY <1>4, <1>5 DEF CommandInv

\* What the invariant says of a terminal whose command is under way.
LEMMA CommandFacts ==
    ASSUME CommandInv, NEW t \in Users, shell[t].pc # "prompt"
    PROVE  /\ CmdOk(shell[t], arg_buf, argument_exist, crossed[t])
           /\ UnderWay(shell[t]) /\ crossed[t] \in {"no", "text", "flag"}
           /\ shell[t].line \in Texts /\ ArgLength \in Nat
           /\ shell[t].pc # "execute" => ~TooLong(shell[t].line)
           /\ Own(shell[t].line, crossed[t]) => InKernel(shell[t], arg_buf, argument_exist)
  <1>1. CmdOk(shell[t], arg_buf, argument_exist, crossed[t])
    BY DEF CommandInv
  <1>2. UnderWay(shell[t]) /\ crossed[t] \in {"no", "text", "flag"}
        /\ (Own(shell[t].line, crossed[t]) => InKernel(shell[t], arg_buf, argument_exist))
    BY <1>1 DEF CmdOk
  <1>3. shell[t].line \in CommandLines /\ (shell[t].pc # "execute" => ~TooLong(shell[t].line))
    BY <1>2 DEF UnderWay
  <1>4. shell[t].line \in Texts /\ ArgLength \in Nat
    BY <1>3, LineTyped
  <1>5. QED BY <1>1, <1>2, <1>3, <1>4

\* What a step that leaves the command under way must see to.
MayGo(r, buf, exist, x, pc, line) ==
    /\ pc # "prompt" /\ x \in {"no", "text", "flag"}
    /\ Own(line, x) => InKernel(r, buf, exist)
    /\ pc = "program" /\ x = "no" /\ Own(line, x) => exist = HasSecond(line)

\* Then the terminal is in order.
LEMMA GoesOn ==
    ASSUME NEW s, NEW r, NEW pc, NEW parsed, NEW args, UnderWay(s),
           ~TooLong(s.line), r = At(s, pc, parsed, args, s.shown),
           NEW buf, NEW exist, NEW x, MayGo(r, buf, exist, x, pc, s.line)
    PROVE  CmdOk(r, buf, exist, x)
  <1>1. /\ ShellShape(r) /\ r.pc = pc /\ r.line = s.line /\ r.shown = s.shown
    BY AtFields
  <1>2. UnderWay(r)
    BY <1>1 DEF UnderWay
  <1>3. QED BY <1>1, <1>2 DEF CmdOk, MayGo

\* execute on this terminal.
LEMMA BeginsOk == ASSUME CommandInv, NEW t \in Users, ExecuteBegins(t) PROVE CommandInv'
  <1>. PICK s : s = shell[t]
    OBVIOUS
  <1>. PICK r : r = At(s, "zero", s.parsed, s.args, s.shown)
    OBVIOUS
  <1>1. UnderWay(s) /\ crossed[t] \in {"no", "text", "flag"} /\ ~TooLong(s.line)
    BY CommandFacts DEF ExecuteBegins
  <1>2. argument_exist' = 0 /\ Crosses(t) /\ shell' = [shell EXCEPT ![t] = r]
    BY GoesIs DEF ExecuteBegins
  <1>3. r.pc = "zero"
    BY AtFields
  <1>4. InKernel(r, arg_buf', argument_exist')
    BY <1>2, <1>3 DEF InKernel
  <1>5. CmdOk(r, arg_buf', argument_exist', crossed[t])
    <2>1. MayGo(r, arg_buf', argument_exist', crossed[t], "zero", s.line)
      BY <1>1, <1>4 DEF MayGo
    <2>2. QED BY <1>1, <2>1, GoesOn
  <1>6. QED BY <1>2, <1>5, Together

\* The buffer is empty, and the first word is cut out.
LEMMA ZeroesOk == ASSUME CommandInv, NEW t \in Users, ExecuteZeroes(t) PROVE CommandInv'
  <1>. PICK s : s = shell[t]
    OBVIOUS
  <1>. PICK i : i = FirstWord(s.line).i
    OBVIOUS
  <1>. PICK r : r = At(s, "parse", i, s.args, s.shown)
    OBVIOUS
  <1>1. /\ UnderWay(s) /\ crossed[t] \in {"no", "text", "flag"} /\ ShellShape(s)
        /\ s.line \in Texts /\ ArgLength \in Nat /\ s.pc = "zero" /\ ~TooLong(s.line)
        /\ Own(s.line, crossed[t]) => InKernel(s, arg_buf, argument_exist)
    BY CommandFacts DEF ExecuteZeroes, CmdOk
  <1>2. [s EXCEPT !.pc = "parse", !.parsed = i] = r
    <2>1. MovedSet(s, "parse", i)
      BY <1>1, TwoFields
    <2>2. QED BY <2>1, Zenon DEF MovedSet
  <1>3. /\ argument_exist' = argument_exist /\ arg_buf' = NoArgs /\ Crosses(t)
        /\ shell' = [shell EXCEPT ![t] = r]
    BY <1>2 DEF ExecuteZeroes
  <1>4. r.pc = "parse" /\ r.line = s.line /\ r.parsed = i
    BY AtFields
  <1>5. Own(s.line, crossed[t]) => InKernel(r, arg_buf', argument_exist')
    <2>1. SUFFICES ASSUME Own(s.line, crossed[t]) PROVE InKernel(r, arg_buf', argument_exist')
      OBVIOUS
    <2>2. argument_exist = 0
      BY <1>1, <2>1 DEF InKernel
    <2>3. Parsing(s.line, i, NoArgs, 0)
      BY <1>1, ParseStarts
    <2>4. QED BY <1>3, <1>4, <2>2, <2>3 DEF InKernel
  <1>6. CmdOk(r, arg_buf', argument_exist', crossed[t])
    <2>1. MayGo(r, arg_buf', argument_exist', crossed[t], "parse", s.line)
      BY <1>1, <1>5 DEF MayGo
    <2>2. QED BY <1>1, <2>1, GoesOn
  <1>7. QED BY <1>3, <1>6, Together

\* A turn of the second loop.
LEMMA ParsesOk == ASSUME CommandInv, NEW t \in Users, ExecuteParses(t) PROVE CommandInv'
  <1>. PICK s : s = shell[t]
    OBVIOUS
  <1>. PICK i : i = s.parsed
    OBVIOUS
  <1>. PICK r : r = At(s, "parse", i + 1, s.args, s.shown)
    OBVIOUS
  <1>1. /\ UnderWay(s) /\ crossed[t] \in {"no", "text", "flag"} /\ ShellShape(s)
        /\ s.line \in Texts /\ ArgLength \in Nat /\ s.pc = "parse" /\ ~TooLong(s.line)
        /\ Own(s.line, crossed[t]) => InKernel(s, arg_buf, argument_exist)
    BY CommandFacts DEF ExecuteParses, CmdOk
  <1>2. [s EXCEPT !.parsed = i + 1] = r
    BY <1>1 DEF ShellShape, At, Rec
  <1>3. /\ ~ArgumentEnds(s.line, i) /\ Crosses(t)
        /\ shell' = [shell EXCEPT ![t] = [s EXCEPT !.parsed = i + 1]]
        /\ TurnOf(s.line, i, arg_buf, arg_buf', argument_exist, argument_exist')
    BY DEF ExecuteParses, TurnOf, Store
  <1>4. r.pc = "parse" /\ r.line = s.line /\ r.parsed = i + 1
    BY AtFields
  <1>5. Own(s.line, crossed[t]) => InKernel(r, arg_buf', argument_exist')
    <2>1. SUFFICES ASSUME Own(s.line, crossed[t]) PROVE InKernel(r, arg_buf', argument_exist')
      OBVIOUS
    <2>2. Parsing(s.line, i, arg_buf, argument_exist)
      BY <1>1, <2>1 DEF InKernel
    <2>3. Parsing(s.line, i + 1, arg_buf', argument_exist')
      BY <1>1, <1>3, <2>1, <2>2, ParseTurns DEF Own
    <2>4. QED BY <1>4, <2>3 DEF InKernel
  <1>6. CmdOk(r, arg_buf', argument_exist', crossed[t])
    <2>1. MayGo(r, arg_buf', argument_exist', crossed[t], "parse", s.line)
      BY <1>1, <1>5 DEF MayGo
    <2>2. QED BY <1>1, <2>1, GoesOn
  <1>7. shell' = [shell EXCEPT ![t] = r]
    BY <1>2, <1>3
  <1>8. QED BY <1>3, <1>6, <1>7, Together

\* The second loop ends with the argument in the buffer.
LEMMA ParsedOk == ASSUME CommandInv, NEW t \in Users, ExecuteParsed(t) PROVE CommandInv'
  <1>. PICK s : s = shell[t]
    OBVIOUS
  <1>. PICK i : i = s.parsed
    OBVIOUS
  <1>. PICK r : r = At(s, "lookup", s.parsed, s.args, s.shown)
    OBVIOUS
  <1>1. /\ UnderWay(s) /\ crossed[t] \in {"no", "text", "flag"}
        /\ s.line \in Texts /\ ArgLength \in Nat /\ s.pc = "parse" /\ ~TooLong(s.line)
        /\ Own(s.line, crossed[t]) => InKernel(s, arg_buf, argument_exist)
    BY CommandFacts DEF ExecuteParsed
  <1>3. /\ ArgumentEnds(s.line, i) /\ Crosses(t)
        /\ Store(ArgIdx(s.line, i), Nul, argument_exist)
        /\ shell' = [shell EXCEPT ![t] = r]
    BY GoesIs DEF ExecuteParsed
  <1>4. r.pc = "lookup" /\ r.line = s.line
    BY AtFields
  <1>5. Own(s.line, crossed[t]) => InKernel(r, arg_buf', argument_exist')
    <2>1. SUFFICES ASSUME Own(s.line, crossed[t]) PROVE InKernel(r, arg_buf', argument_exist')
      OBVIOUS
    <2>2. Parsing(s.line, i, arg_buf, argument_exist)
      BY <1>1, <2>1 DEF InKernel
    <2>3. /\ ArgIdx(s.line, i) < ArgLength
          /\ [arg_buf EXCEPT ![ArgIdx(s.line, i)] = Nul] = Argument(s.line)
          /\ argument_exist = HasSecond(s.line)
      BY <1>1, <1>3, <2>1, <2>2, ParseEnds DEF Own
    <2>5. arg_buf' = Argument(s.line) /\ argument_exist' = HasSecond(s.line)
      BY <1>3, <2>3 DEF Store
    <2>6. QED BY <1>4, <2>5 DEF InKernel
  <1>6. CmdOk(r, arg_buf', argument_exist', crossed[t])
    <2>1. MayGo(r, arg_buf', argument_exist', crossed[t], "lookup", s.line)
      BY <1>1, <1>5 DEF MayGo
    <2>2. QED BY <1>1, <2>1, GoesOn
  <1>7. QED BY <1>3, <1>6, Together

\* The program is there.
LEMMA FindsOk == ASSUME CommandInv, NEW t \in Users, ExecuteFinds(t) PROVE CommandInv'
  <1>. PICK s : s = shell[t]
    OBVIOUS
  <1>. PICK r : r = At(s, "copy", s.parsed, s.args, s.shown)
    OBVIOUS
  <1>1. /\ UnderWay(s) /\ crossed[t] \in {"no", "text", "flag"} /\ s.pc = "lookup"
        /\ ~TooLong(s.line)
        /\ Own(s.line, crossed[t]) => InKernel(s, arg_buf, argument_exist)
    BY CommandFacts DEF ExecuteFinds
  <1>3. UNCHANGED <<argument_exist, arg_buf, crossed>> /\ shell' = [shell EXCEPT ![t] = r]
    BY GoesIs DEF ExecuteFinds
  <1>4. r.pc = "copy" /\ r.line = s.line
    BY AtFields
  <1>5. Own(s.line, crossed[t]) => InKernel(r, arg_buf', argument_exist')
    BY <1>1, <1>3, <1>4 DEF InKernel
  <1>6. CmdOk(r, arg_buf', argument_exist', crossed[t])
    <2>1. MayGo(r, arg_buf', argument_exist', crossed[t], "copy", s.line)
      BY <1>1, <1>5 DEF MayGo
    <2>2. QED BY <1>1, <2>1, GoesOn
  <1>7. QED BY <1>3, <1>6, Together

\* The argument goes to the pcb.
LEMMA CopiesOk == ASSUME CommandInv, NEW t \in Users, ExecuteCopies(t) PROVE CommandInv'
  <1>. PICK s : s = shell[t]
    OBVIOUS
  <1>. PICK r : r = At(s, "program", s.parsed, arg_buf, s.shown)
    OBVIOUS
  <1>1. /\ UnderWay(s) /\ crossed[t] \in {"no", "text", "flag"} /\ ShellShape(s) /\ s.pc = "copy"
        /\ ~TooLong(s.line)
        /\ Own(s.line, crossed[t]) => InKernel(s, arg_buf, argument_exist)
    BY CommandFacts DEF ExecuteCopies, CmdOk
  <1>2. [s EXCEPT !.pc = "program", !.args = arg_buf] = r
    <2>1. MovedSet(s, "program", arg_buf)
      BY <1>1, TwoFields
    <2>2. QED BY <2>1, Zenon DEF MovedSet
  <1>3. UNCHANGED <<argument_exist, arg_buf, crossed>> /\ shell' = [shell EXCEPT ![t] = r]
    BY <1>2 DEF ExecuteCopies
  <1>4. r.pc = "program" /\ r.line = s.line /\ r.args = arg_buf
    BY AtFields
  <1>5. Own(s.line, crossed[t]) => /\ InKernel(r, arg_buf', argument_exist')
                                   /\ argument_exist' = HasSecond(s.line)
    BY <1>1, <1>3, <1>4 DEF InKernel
  <1>6. CmdOk(r, arg_buf', argument_exist', crossed[t])
    <2>1. MayGo(r, arg_buf', argument_exist', crossed[t], "program", s.line)
      BY <1>1, <1>5 DEF MayGo
    <2>2. QED BY <1>1, <2>1, GoesOn
  <1>7. QED BY <1>3, <1>6, Together

\* Nothing has been displayed before.
LEMMA Displayed ==
    /\ << >> \o NoSuchCommand = NoSuchCommand /\ << >> \o Listing = Listing
    /\ << >> \o NoArgument = NoArgument /\ << >> \o NotFound = NotFound
    /\ << >> \o Refusal = Refusal
  <1>1. << >> \o NoSuchCommand = NoSuchCommand /\ << >> \o Listing = Listing
    BY DEF NoSuchCommand, Listing
  <1>2. \A a, b : << >> \o <<a, b>> = <<a, b>>
    OBVIOUS
  <1>3. QED BY <1>1, <1>2, Zenon DEF NoArgument, NotFound, Refusal

\* The answer is displayed.
LEMMA ShownIs ==
    ASSUME CommandInv, NEW t \in Users, shell[t].pc # "prompt", NEW m,
           Shows(t, "prompt", m), << >> \o m = m
    PROVE  shell' = [shell EXCEPT ![t] =
               At(shell[t], "prompt", shell[t].parsed, shell[t].args, m)]
  <1>. PICK s : s = shell[t]
    OBVIOUS
  <1>1. ShellShape(s) /\ s.shown = << >>
    BY CommandFacts DEF CmdOk, UnderWay
  <1>3. shell' = [shell EXCEPT ![t] = [s EXCEPT !.pc = "prompt", !.shown = s.shown \o m]]
    BY DEF Shows
  <1>4. shell' = [shell EXCEPT ![t] = [s EXCEPT !.pc = "prompt", !.shown = m]]
    BY <1>1, <1>3
  <1>5. [s EXCEPT !.pc = "prompt", !.shown = m] = At(s, "prompt", s.parsed, s.args, m)
    <2>1. MovedSet(s, "prompt", m)
      BY <1>1, TwoFields
    <2>2. QED BY <2>1, Zenon DEF MovedSet
  <1>6. QED BY <1>4, <1>5

\* A command that ends is answered.
Replied(line, m, x) ==
    \/ m = Answer(line)
    \/ ~TooLong(line) /\ ~WordsFit(line)
    \/ Word(line, 1) = Cat /\ x = "text"
    \/ /\ Word(line, 1) = Cat /\ x = "flag"
       /\ m = IF Word(line, 2) = << >> THEN NotFound ELSE NoArgument

\* ... and the command has ended.
LEMMA Prompted ==
    ASSUME CommandInv, NEW t \in Users, shell[t].pc # "prompt", NEW m,
           Shows(t, "prompt", m), << >> \o m = m,
           Replied(shell[t].line, m, crossed[t]),
           Crosses(t) \/ UNCHANGED <<argument_exist, arg_buf, crossed>>
    PROVE  CommandInv'
  <1>. PICK s : s = shell[t]
    OBVIOUS
  <1>. PICK r : r = At(s, "prompt", s.parsed, s.args, m)
    OBVIOUS
  <1>1. shell' = [shell EXCEPT ![t] = r]
    BY ShownIs
  <1>2. ShellShape(r) /\ r.pc = "prompt" /\ r.line = s.line /\ r.shown = m
    BY AtFields
  <1>3. crossed[t] \in {"no", "text", "flag"}
    BY CommandFacts
  <1>4. Answered(r, crossed[t])
    BY <1>2 DEF Answered, Replied
  <1>5. InKernel(r, arg_buf', argument_exist')
    BY <1>2 DEF InKernel
  <1>6. CmdOk(r, arg_buf', argument_exist', crossed[t])
    BY <1>2, <1>3, <1>4, <1>5 DEF CmdOk
  <1>7. QED BY <1>1, <1>6, Together

\* The answers, one by one.
LEMMA AnswerIs ==
    ASSUME NEW line \in Texts, line # Exit, line # << >>, ~TooLong(line)
    PROVE  /\ Word(line, 1) = Ls => Answer(line) = Listing
           /\ Word(line, 1) \notin {Cat, Ls} => Answer(line) = NoSuchCommand
           /\ Word(line, 1) = Cat /\ Word(line, 2) = << >> => Answer(line) = NoArgument
           /\ Word(line, 1) = Cat /\ Word(line, 2) # << >> =>
                  Answer(line) = IF IsFile(Word(line, 2)) THEN <<Word(line, 2)>> ELSE NotFound
  <1>1. Cat # Ls
    BY CommandsAssumption
  <1>2. ~(Len(line) > ArgLength + 3)
    BY CommandsAssumption, TextTyped DEF TooLong
  <1>3. QED BY <1>1, <1>2 DEF Answer

\* ... and to a line that is too long.
LEMMA RefusalIs ==
    ASSUME NEW line \in Texts, line # Exit, line # << >>, TooLong(line)
    PROVE  Answer(line) = Refusal
  <1>1. Len(line) > ArgLength + 3
    BY CommandsAssumption, TextTyped DEF TooLong
  <1>2. QED BY <1>1 DEF Answer

\* A line that is too long is refused.
LEMMA RefusesOk == ASSUME CommandInv, NEW t \in Users, ExecuteRefuses(t) PROVE CommandInv'
  <1>. PICK line : line = shell[t].line
    OBVIOUS
  <1>1. line \in Texts /\ line # Exit /\ line # << >> /\ TooLong(line)
    BY CommandFacts DEF ExecuteRefuses, UnderWay
  <1>. PICK m : m = Refusal
    OBVIOUS
  <1>2. Replied(line, m, crossed[t])
    BY <1>1, RefusalIs DEF Replied
  <1>3. << >> \o m = m
    BY Displayed
  <1>4. QED BY <1>2, <1>3, Prompted DEF ExecuteRefuses

\* No such program.
LEMMA FailsOk == ASSUME CommandInv, NEW t \in Users, ExecuteFails(t) PROVE CommandInv'
  <1>. PICK line : line = shell[t].line
    OBVIOUS
  <1>1. line \in Texts /\ line # Exit /\ line # << >> /\ ~TooLong(line)
    BY CommandFacts DEF ExecuteFails, UnderWay
  <1>2. Word(line, 1) \notin {Cat, Ls}
    BY <1>1, ProgramIs DEF ExecuteFails
  <1>. PICK m : m = NoSuchCommand
    OBVIOUS
  <1>3. Replied(line, m, crossed[t])
    BY <1>1, <1>2, AnswerIs DEF Replied
  <1>4. << >> \o m = m
    BY Displayed
  <1>5. QED BY <1>3, <1>4, Prompted DEF ExecuteFails

\* ls asks for no argument.
LEMMA LsOk == ASSUME CommandInv, NEW t \in Users, RunLs(t) PROVE CommandInv'
  <1>. PICK line : line = shell[t].line
    OBVIOUS
  <1>1. line \in Texts /\ line # Exit /\ line # << >> /\ ~TooLong(line)
    BY CommandFacts DEF RunLs, UnderWay
  <1>2. Word(line, 1) = Ls
    BY <1>1, ProgramIs DEF RunLs
  <1>. PICK m : m = Listing
    OBVIOUS
  <1>3. Replied(line, m, crossed[t])
    BY <1>1, <1>2, AnswerIs DEF Replied
  <1>4. << >> \o m = m
    BY Displayed
  <1>5. QED BY <1>3, <1>4, Prompted DEF RunLs

\* cat is told that there is no argument: there is none, or the flag is
\* another command's.
LEMMA CatFailsOk == ASSUME CommandInv, NEW t \in Users, CatFails(t) PROVE CommandInv'
  <1>. PICK line : line = shell[t].line
    OBVIOUS
  <1>1. /\ line \in Texts /\ line # Exit /\ line # << >>
        /\ crossed[t] \in {"no", "text", "flag"}
        /\ ~TooLong(line)
        /\ crossed[t] = "no" /\ Own(line, crossed[t]) => argument_exist = HasSecond(line)
    BY CommandFacts DEF CatFails, UnderWay, CmdOk
  <1>2. Word(line, 1) = Cat
    BY <1>1, ProgramIs DEF CatFails
  <1>3. argument_exist = 0
    BY DEF CatFails, HasArgument
  <1>. PICK m : m = NoArgument
    OBVIOUS
  <1>4. Replied(line, m, crossed[t])
    <2>1. CASE Word(line, 2) = << >>
      BY <1>1, <1>2, <2>1, AnswerIs DEF Replied
    <2>2. CASE Word(line, 2) # << >> /\ WordsFit(line)
      <3>1. HasSecond(line) = 1
        BY <2>2 DEF HasSecond
      <3>2. crossed[t] # "no"
        BY <1>1, <1>3, <2>2, <3>1 DEF Own, WordsFit
      <3>3. QED BY <1>1, <1>2, <2>2, <3>2 DEF Replied
    <2>3. CASE ~WordsFit(line)
      BY <1>1, <2>3 DEF Replied
    <2>4. QED BY <2>1, <2>2, <2>3
  <1>5. << >> \o m = m
    BY Displayed
  <1>6. Shows(t, "prompt", m)
    BY DEF CatFails
  <1>7. QED BY <1>4, <1>5, <1>6, Prompted DEF CatFails

\* cat shows the file whose name it finds: its own argument, unless another
\* execute came in between before it was in the pcb.
LEMMA CatOk == ASSUME CommandInv, NEW t \in Users, RunCat(t) PROVE CommandInv'
  <1>. PICK line : line = shell[t].line
    OBVIOUS
  <1>1. /\ line \in Texts /\ line # Exit /\ line # << >>
        /\ ~TooLong(line) /\ ArgLength \in Nat
        /\ crossed[t] \in {"no", "text", "flag"}
        /\ crossed[t] = "no" /\ Own(line, crossed[t]) => argument_exist = HasSecond(line)
        /\ Own(line, crossed[t]) => shell[t].args = Argument(line)
    BY CommandFacts DEF RunCat, UnderWay, CmdOk, InKernel
  <1>2. Word(line, 1) = Cat
    BY <1>1, ProgramIs DEF RunCat
  <1>3. argument_exist # 0
    BY DEF RunCat, HasArgument
  <1>. PICK args : args = shell[t].args
    OBVIOUS
  <1>. PICK name : name = StringIn(args)
    OBVIOUS
  <1>. PICK m : m = IF Terminated(args) /\ IsFile(name) THEN <<name>> ELSE NotFound
    OBVIOUS
  <1>4. Shows(t, "prompt", m)
    BY DEF RunCat
  <1>5. ASSUME Own(line, crossed[t]) PROVE name = Word(line, 2) /\ Terminated(args)
    <2>1. Word(line, 2) \in Texts /\ Len(Word(line, 2)) < ArgLength
      BY <1>1, <1>5, SecondTyped DEF Own
    <2>2. /\ StringIn(BufOf(Word(line, 2))) = Word(line, 2)
          /\ Terminated(BufOf(Word(line, 2)))
      BY <1>1, <2>1, StringOf
    <2>3. args = BufOf(Word(line, 2))
      BY <1>1, <1>5 DEF Argument
    <2>4. QED BY <2>2, <2>3
  <1>9. << >> \o m = m
    <2>1. << >> \o <<name>> = <<name>>
      OBVIOUS
    <2>2. QED BY <2>1, Displayed
  <1>6. Replied(line, m, crossed[t])
    <2>1. CASE crossed[t] = "text"
      BY <1>2, <2>1 DEF Replied
    <2>2. CASE Own(line, crossed[t]) /\ Word(line, 2) = << >>
      <3>1. HasSecond(line) = 0
        BY <2>2 DEF HasSecond
      <3>2. crossed[t] = "flag"
        BY <1>1, <1>3, <2>2, <3>1 DEF Own
      <3>3. ~IsFile(name)
        BY <1>5, <2>2, CommandsAssumption DEF IsFile
      <3>4. m = NotFound
        BY <3>3
      <3>5. QED BY <1>2, <2>2, <3>2, <3>4 DEF Replied
    <2>3. CASE Own(line, crossed[t]) /\ Word(line, 2) # << >>
      <3>1. Answer(line) = IF IsFile(name) THEN <<name>> ELSE NotFound
        BY <1>1, <1>2, <1>5, <2>3, AnswerIs
      <3>2. m = Answer(line)
        BY <1>5, <2>3, <3>1
      <3>3. QED BY <3>2 DEF Replied
    <2>4. CASE ~(Len(Word(line, 2)) < ArgLength)
      BY <1>1, <2>4 DEF Replied, WordsFit
    <2>5. QED BY <2>1, <2>2, <2>3, <2>4 DEF Own
  <1>8. QED BY <1>4, <1>6, <1>9, Prompted DEF RunCat

\* Every step keeps the invariant.
LEMMA CommandStepOk == CommandInv /\ [CommandNext]_commandVars => CommandInv'
  <1>. SUFFICES ASSUME CommandInv, [CommandNext]_commandVars PROVE CommandInv'
    OBVIOUS
  <1>1. ASSUME NEW t \in Users, CommandStep(t) PROVE CommandInv'
    BY <1>1, BeginsOk, RefusesOk, ZeroesOk, ParsesOk, ParsedOk, FailsOk, FindsOk, CopiesOk,
       LsOk, CatFailsOk, CatOk DEF CommandStep
  <1>2. ASSUME NEW t \in Users, NEW line \in CommandLines, TypeCommand(t, line)
        PROVE  CommandInv'
    BY <1>2, TypeOk
  <1>3. CASE UNCHANGED commandVars
    BY <1>3 DEF commandVars, CommandInv
  <1>4. QED BY <1>1, <1>2, <1>3 DEF CommandNext

\* The invariant at the prompt.
LEMMA CommandInvAnswers == CommandInv => CommandAnswered
  BY DEF CommandInv, CmdOk, Answered, CommandAnswered

\* A command is answered by its own words, or refused when it is too long,
\* unless executes of other terminals crossed it and it asks for its argument,
\* or a word does not fit the buffers that lines of its length are let into:
\* execute, getargs and cat, for any number of terminals and any command lines.
THEOREM CommandsAnswered == CommandSpec => []CommandAnswered
  <1>1. CommandInit => CommandInv
    BY CommandInitOk
  <1>2. CommandInv /\ [CommandNext]_commandVars => CommandInv'
    BY CommandStepOk
  <1>3. CommandInv => CommandAnswered
    BY CommandInvAnswers
  <1>4. QED BY <1>1, <1>2, <1>3, PTL DEF CommandSpec
============================================================================
