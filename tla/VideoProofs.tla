---------------------------- MODULE VideoProofs ----------------------------
(***************************************************************************)
(* Separation of the screens, for any number of terminals, any output and  *)
(* chains of any depth, keys arriving anywhere and vidmap called by any    *)
(* terminal.                                                               *)
(***************************************************************************)
EXTENDS Video, SequenceTheorems, TLAPS

\* Terminals are frames other than the screen.
LEMMA FrameFacts ==
    /\ Terminals \subseteq Frames
    /\ 0 \in Frames
    /\ 0 \notin Terminals
    /\ 1 \in Terminals
    /\ \A t \in Terminals : NextTerminal(t) \in Terminals
  BY VideoAssumption DEF Terminals, Frames, NextTerminal

----------------------------------------------------------------------------
(* Types *)

\* Every terminal has a process, its root shell at least.
ChainsNonempty == \A t \in Terminals : vidmap_flag[t] # << >>

TInv == TypeOK /\ ChainsNonempty

\* One root shell per terminal, the screen mapped for the first.
LEMMA TInvInit == Init => TInv
  <1> SUFFICES ASSUME Init
               PROVE  TInv
    OBVIOUS
  <1>1. vidmap_flag \in [Terminals -> Seq(BOOLEAN)] /\ ChainsNonempty
    BY DEF Init, ChainsNonempty
  <1>2. frame \in [Frames -> SUBSET (Terminals \X Marks)]
        /\ picture \in [Terminals -> SUBSET (Terminals \X Marks)]
    BY DEF Init
  <1>3. QED
    BY <1>1, <1>2, FrameFacts DEF Init, TInv, TypeOK, NotPaging

\* What SetPages sets is typed.
LEMMA SetPagesTyped ==
    ASSUME NEW same \in BOOLEAN, NEW t \in Terminals, NEW flag \in BOOLEAN,
           SetPages(same, t, flag)
    PROVE  /\ video_page' \in Frames
           /\ vidmap_page' \in Frames \cup {NoFrame}
           /\ vidmap_present' \in BOOLEAN
  BY FrameFacts DEF SetPages

\* Heads of chains are flags.
LEMMA HeadIsFlag ==
    ASSUME TInv, NEW t \in Terminals
    PROVE  Head(vidmap_flag[t]) \in BOOLEAN /\ Tail(vidmap_flag[t]) \in Seq(BOOLEAN)
  <1>1. vidmap_flag[t] \in Seq(BOOLEAN) /\ vidmap_flag[t] # << >>
    BY DEF TInv, TypeOK, ChainsNonempty
  <1>2. QED
    BY <1>1, HeadTailProperties

\* The parent's flag is the head of what remains of the chain.
LEMMA ParentFlag ==
    ASSUME TInv, NEW t \in Terminals, Len(vidmap_flag[t]) > 1
    PROVE  /\ Tail(vidmap_flag[t]) # << >>
           /\ Head(Tail(vidmap_flag[t])) = vidmap_flag[t][2]
           /\ vidmap_flag[t][2] \in BOOLEAN
  <1>1. vidmap_flag[t] \in Seq(BOOLEAN)
    BY DEF TInv, TypeOK
  <1>2. ASSUME NEW s \in Seq(BOOLEAN), Len(s) > 1
        PROVE  Tail(s) # << >> /\ Head(Tail(s)) = s[2] /\ s[2] \in BOOLEAN
    <2>1. s # << >> /\ Tail(s)[1] = s[2]
      BY <1>2
    <2>2. Len(Tail(s)) = Len(s) - 1 /\ Tail(s) \in Seq(BOOLEAN)
      BY <1>2, <2>1, HeadTailProperties
    <2>3. Tail(s) # << >>
      BY <1>2, <2>2
    <2>4. Head(Tail(s)) = s[2]
      BY <2>1, <2>2, <2>3
    <2>5. s[2] \in BOOLEAN
      BY <1>2, ElementOfSeq
    <2>6. QED
      BY <2>3, <2>4, <2>5
  <1>3. QED
    BY <1>1, <1>2

\* The flag of a chain of one process.
LEMMA Alone == ASSUME NEW b \in BOOLEAN
               PROVE  Head(<<b>>) = b
  OBVIOUS

\* Putting a flag in front of a chain, as execute does.
LEMMA Pushed ==
    ASSUME NEW b \in BOOLEAN, NEW s \in Seq(BOOLEAN)
    PROVE  /\ <<b>> \o s \in Seq(BOOLEAN)
           /\ <<b>> \o s # << >>
           /\ Head(<<b>> \o s) = b
  OBVIOUS

\* Types and the chains of processes are kept by every step.
LEMMA TInvStep == TInv /\ [Next]_vars => TInv'
  <1> SUFFICES ASSUME TInv, [Next]_vars
               PROVE  TInv'
    OBVIOUS
  <1>t. active_terminal \in Terminals /\ current_terminal \in Terminals
    BY DEF TInv, TypeOK
  <1>c. /\ Chain \in Seq(BOOLEAN) /\ Head(Chain) \in BOOLEAN
        /\ Tail(Chain) \in Seq(BOOLEAN)
    BY <1>t, HeadIsFlag DEF Chain, TInv, TypeOK
  <1>1. CASE Execute
    <2>1. vidmap_flag' \in [Terminals -> Seq(BOOLEAN)] /\ ChainsNonempty'
      BY <1>1, <1>t, <1>c, Pushed DEF Execute, TInv, TypeOK, ChainsNonempty, Chain
    <2>2. paging' \in [on : BOOLEAN, same : BOOLEAN, flag : BOOLEAN]
      BY <1>1, <1>c DEF Execute, PagingBegin
    <2>3. QED
      BY <1>1, <2>1, <2>2 DEF Execute, TInv, TypeOK, pages, shown
  <1>2. CASE Halt
    <2>1. /\ Tail(vidmap_flag[active_terminal]) # << >>
          /\ vidmap_flag[active_terminal][2] \in BOOLEAN
      BY <1>2, <1>t, ParentFlag DEF Halt, Chain
    <2>2. vidmap_flag' \in [Terminals -> Seq(BOOLEAN)] /\ ChainsNonempty'
      BY <1>2, <1>t, <1>c, <2>1 DEF Halt, TInv, TypeOK, ChainsNonempty, Chain
    <2>3. paging' \in [on : BOOLEAN, same : BOOLEAN, flag : BOOLEAN]
      BY <1>2, <2>1 DEF Halt, PagingBegin, Chain
    <2>4. QED
      BY <1>2, <2>2, <2>3 DEF Halt, TInv, TypeOK, pages, shown
  <1>3. CASE Restart
    BY <1>3, <1>c DEF Restart, PagingBegin, TInv, TypeOK, ChainsNonempty, pages, shown
  <1>4. CASE PagingEnd
    <2>1. /\ video_page' \in Frames
          /\ vidmap_page' \in Frames \cup {NoFrame}
          /\ vidmap_present' \in BOOLEAN
      BY <1>4, <1>t, SetPagesTyped DEF PagingEnd, TInv, TypeOK
    <2>2. QED
      BY <1>4, <2>1 DEF PagingEnd, NotPaging, TInv, TypeOK, ChainsNonempty, shown
  <1>5. CASE Vidmap
    <2>1. vidmap_flag' \in [Terminals -> Seq(BOOLEAN)] /\ ChainsNonempty'
      BY <1>5, <1>t, <1>c, Pushed DEF Vidmap, TInv, TypeOK, ChainsNonempty, Chain
    <2>2. QED
      BY <1>5, <2>1, FrameFacts DEF Vidmap, syscall_enable_vidmap_paging, TInv, TypeOK, shown
  <1>6. ASSUME NEW m \in Marks, NEW f, Show(f, m)
        PROVE  TInv'
    <2>1. <<active_terminal, m>> \in Terminals \X Marks
      BY <1>6, <1>t
    <2>2. /\ frame' \in [Frames -> SUBSET (Terminals \X Marks)]
          /\ picture' \in [Terminals -> SUBSET (Terminals \X Marks)]
      BY <1>6, <1>t, <2>1 DEF Show, TInv, TypeOK
    <2>3. QED
      BY <1>6, <2>2 DEF Show, TInv, TypeOK, ChainsNonempty, pages, shown
  <1>7. ASSUME NEW m \in Marks, Echo(m)
        PROVE  TInv'
    <2>1. <<current_terminal, m>> \in Terminals \X Marks
      BY <1>7, <1>t
    <2>2. /\ frame' \in [Frames -> SUBSET (Terminals \X Marks)]
          /\ picture' \in [Terminals -> SUBSET (Terminals \X Marks)]
      BY <1>7, <1>t, <2>1, FrameFacts DEF Echo, TInv, TypeOK
    <2>3. QED
      BY <1>7, <2>2 DEF Echo, TInv, TypeOK, ChainsNonempty, pages, shown
  <1>8. CASE ClearScreen
    BY <1>8 DEF ClearScreen, TInv, TypeOK, ChainsNonempty, pages, shown
  <1>9. ASSUME NEW t \in Terminals, SwitchTerminal(t)
        PROVE  TInv'
    <2>1. (IF paging.on THEN paging.flag ELSE Head(Chain)) \in BOOLEAN
      BY <1>c DEF TInv, TypeOK
    <2>2. /\ video_page' \in Frames
          /\ vidmap_page' \in Frames \cup {NoFrame}
          /\ vidmap_present' \in BOOLEAN
      BY <1>9, <1>t, <2>1, SetPagesTyped DEF SwitchTerminal
    <2>3. frame' \in [Frames -> SUBSET (Terminals \X Marks)]
      BY <1>9, FrameFacts DEF SwitchTerminal, TInv, TypeOK
    <2>4. QED
      BY <1>9, <2>2, <2>3 DEF SwitchTerminal, TInv, TypeOK, ChainsNonempty
  <1>10. CASE Tick
    <2> DEFINE t == NextTerminal(active_terminal)
    <2>1. t \in Terminals /\ Head(vidmap_flag[t]) \in BOOLEAN
      BY <1>t, FrameFacts, HeadIsFlag
    <2>2. SetPages(t = current_terminal, t, Head(vidmap_flag[t])) /\ active_terminal' = t
      BY <1>10 DEF Tick
    <2> HIDE DEF t
    <2>3. /\ video_page' \in Frames
          /\ vidmap_page' \in Frames \cup {NoFrame}
          /\ vidmap_present' \in BOOLEAN
      BY <2>1, <2>2, SetPagesTyped
    <2>4. QED
      BY <1>10, <2>1, <2>2, <2>3 DEF Tick, TInv, TypeOK, ChainsNonempty, shown
  <1>11. CASE UNCHANGED vars
    BY <1>11 DEF vars, pages, shown, TInv, TypeOK, ChainsNonempty
  <1>12. QED
    BY <1>1, <1>2, <1>3, <1>4, <1>5, <1>6, <1>7, <1>8, <1>9, <1>10, <1>11
    DEF Next, Putc, UserStore

\* Types are kept whenever keys arrive and wherever vidmap is called.
THEOREM TypeCorrect == Spec => []TypeOK
  <1>1. TInv => TypeOK
    BY DEF TInv
  <1>2. QED
    BY TInvInit, TInvStep, <1>1, PTL DEF Spec

----------------------------------------------------------------------------
(* Separation of the screens *)

\* The flag paging_video_memory will use gives the process that goes on its
\* mapping.
FlagFresh == paging.on /\ Head(Chain) => paging.flag

\* A mapping that programs can use shows them their own screen.
VidmapOwnPage ==
    Runs /\ ~stale /\ vidmap_present => vidmap_page = ScreenOf(active_terminal)

Mapped == FlagFresh /\ OwnPage /\ VidmapOwnPage /\ VidmapKept

\* ScreensSeparate without its exception
Separate == \A t \in Terminals : frame[ScreenOf(t)] = picture[t]

SInv == TInv /\ Mapped /\ (~spoilt => Separate)

\* All screens are empty at first.
LEMMA SInvInit == Init => SInv
  <1> SUFFICES ASSUME Init
               PROVE  SInv
    OBVIOUS
  <1>1. TInv
    BY TInvInit
  <1>2. Separate
    BY FrameFacts DEF Init, Separate, ScreenOf
  <1>3. ~paging.on
    BY DEF Init, NotPaging
  <1>4. ~Head(Chain)
    <2>1. Chain = <<FALSE>>
      BY FrameFacts DEF Init, Chain
    <2>2. Head(<<FALSE>>) = FALSE
      BY Alone
    <2>3. QED
      BY <2>1, <2>2, Zenon
  <1>5. Mapped
    BY <1>3, <1>4 DEF Init, Mapped, FlagFresh, OwnPage, VidmapOwnPage, VidmapKept,
       ScreenOf
  <1>6. QED
    BY <1>1, <1>2, <1>5 DEF SInv

\* The mark of one terminal on its own screen is on no other.
LEMMA MarkOnOwnScreen ==
    ASSUME TInv, Separate, NEW u \in Terminals, NEW m,
           frame' = [frame EXCEPT ![ScreenOf(u)] = @ \cup {<<u, m>>}],
           picture' = [picture EXCEPT ![u] = @ \cup {<<u, m>>}],
           current_terminal' = current_terminal
    PROVE  Separate'
  <1> SUFFICES ASSUME NEW t \in Terminals
               PROVE  frame'[ScreenOf(t)] = picture'[t]
    BY DEF Separate, ScreenOf
  <1>1. /\ ScreenOf(t) \in Frames /\ ScreenOf(u) \in Frames
        /\ ScreenOf(t) = ScreenOf(u) => t = u
    BY FrameFacts DEF ScreenOf
  <1>2. frame[ScreenOf(t)] = picture[t]
    BY DEF Separate
  <1> HIDE DEF ScreenOf
  <1>3. CASE t = u
    BY <1>1, <1>2, <1>3 DEF TInv, TypeOK
  <1>4. CASE t # u
    BY <1>1, <1>2, <1>4 DEF TInv, TypeOK
  <1>5. QED
    BY <1>3, <1>4

\* Every step keeps the pages right for what runs and the screens separate.
LEMMA SInvStep == SInv /\ [Next]_vars => SInv'
  <1> SUFFICES ASSUME SInv, [Next]_vars
               PROVE  SInv'
    OBVIOUS
  <1>0. TInv /\ TInv' /\ Mapped /\ (~spoilt => Separate)
    BY TInvStep DEF SInv
  <1>t. active_terminal \in Terminals /\ current_terminal \in Terminals
    BY <1>0 DEF TInv, TypeOK
  <1>c. Chain \in Seq(BOOLEAN) /\ Head(Chain) \in BOOLEAN /\ Tail(Chain) \in Seq(BOOLEAN)
    BY <1>0, <1>t, HeadIsFlag DEF Chain, TInv, TypeOK
  <1>1. CASE Execute
    <2>1. Chain' = <<FALSE>> \o Chain
      BY <1>0, <1>1, <1>t DEF Execute, Chain, TInv, TypeOK
    <2>2. Head(Chain') = FALSE
      BY <1>c, <2>1, Pushed
    <2>3. Mapped'
      BY <1>1, <2>2 DEF Execute, PagingBegin, Mapped, FlagFresh, OwnPage,
         VidmapOwnPage, VidmapKept, Runs
    <2>4. (~spoilt => Separate)'
      BY <1>0, <1>1 DEF Execute, Separate, ScreenOf, shown
    <2>5. QED
      BY <1>0, <2>3, <2>4 DEF SInv
  <1>2. CASE Halt
    <2>1. Chain' = Tail(Chain)
      BY <1>0, <1>2, <1>t DEF Halt, Chain, TInv, TypeOK
    <2>2. Head(Chain') = Chain[2]
      BY <1>0, <1>2, <1>t, <2>1, ParentFlag DEF Halt, Chain
    <2>3. Mapped'
      BY <1>2, <2>2 DEF Halt, PagingBegin, Mapped, FlagFresh, OwnPage,
         VidmapOwnPage, VidmapKept, Runs
    <2>4. (~spoilt => Separate)'
      BY <1>0, <1>2 DEF Halt, Separate, ScreenOf, shown
    <2>5. QED
      BY <1>0, <2>3, <2>4 DEF SInv
  <1>3. CASE Restart
    <2>1. Mapped'
      BY <1>3 DEF Restart, PagingBegin, Mapped, FlagFresh, OwnPage,
         VidmapOwnPage, VidmapKept, Runs, Chain
    <2>2. (~spoilt => Separate)'
      BY <1>0, <1>3 DEF Restart, Separate, ScreenOf, shown
    <2>3. QED
      BY <1>0, <2>1, <2>2 DEF SInv
  <1>4. CASE PagingEnd
    <2>1. Mapped'
      BY <1>0, <1>4 DEF PagingEnd, SetPages, NotPaging, Mapped, FlagFresh, OwnPage,
         VidmapOwnPage, VidmapKept, Runs, Chain, ScreenOf
    <2>2. (~spoilt => Separate)'
      BY <1>0, <1>4 DEF PagingEnd, Separate, ScreenOf, shown
    <2>3. QED
      BY <1>0, <2>1, <2>2 DEF SInv
  <1>5. CASE Vidmap
    <2>1. Mapped'
      BY <1>0, <1>5 DEF Vidmap, syscall_enable_vidmap_paging, Mapped,
         FlagFresh, OwnPage, VidmapOwnPage,
         VidmapKept, Runs, ScreenOf
    <2>2. (~spoilt => Separate)'
      BY <1>0, <1>5 DEF Vidmap, Separate, ScreenOf, shown
    <2>3. QED
      BY <1>0, <2>1, <2>2 DEF SInv
  <1>6. ASSUME NEW m \in Marks, NEW f, Show(f, m),
               ~stale => f = ScreenOf(active_terminal)
        PROVE  SInv'
    <2>1. (~spoilt => Separate)'
      <3> SUFFICES ASSUME ~spoilt'
                   PROVE  Separate'
        OBVIOUS
      <3>1. ~spoilt /\ ~stale
        BY <1>0, <1>6 DEF Show, TInv, TypeOK
      <3>2. Separate /\ f = ScreenOf(active_terminal)
        BY <1>0, <1>6, <3>1
      <3>3. QED
        BY <1>0, <1>6, <1>t, <3>2, MarkOnOwnScreen DEF Show
    <2>2. Mapped'
      BY <1>0, <1>6 DEF Show, Mapped, FlagFresh, OwnPage, VidmapOwnPage,
         VidmapKept, Runs, Chain, ScreenOf, pages
    <2>3. QED
      BY <1>0, <2>1, <2>2 DEF SInv
  <1>7. ASSUME NEW m \in Marks, Putc(m)
        PROVE  SInv'
    <2>1. ~stale => video_page = ScreenOf(active_terminal)
      BY <1>0, <1>7 DEF Putc, Mapped, OwnPage
    <2>2. QED
      BY <1>6, <1>7, <2>1 DEF Putc
  <1>8. ASSUME NEW m \in Marks, UserStore(m)
        PROVE  SInv'
    <2>1. ~stale => vidmap_page = ScreenOf(active_terminal)
      BY <1>0, <1>8 DEF UserStore, Mapped, VidmapOwnPage
    <2>2. QED
      BY <1>6, <1>8, <2>1 DEF UserStore
  <1>9. ASSUME NEW m \in Marks, Echo(m)
        PROVE  SInv'
    <2>1. ScreenOf(current_terminal) = 0
      BY DEF ScreenOf
    <2>2. (~spoilt => Separate)'
      BY <1>0, <1>9, <1>t, <2>1, MarkOnOwnScreen DEF Echo
    <2>3. Mapped'
      BY <1>0, <1>9 DEF Echo, Mapped, FlagFresh, OwnPage, VidmapOwnPage,
         VidmapKept, Runs, Chain, ScreenOf, pages
    <2>4. QED
      BY <1>0, <2>2, <2>3 DEF SInv
  <1>10. CASE ClearScreen
    <2>1. (~spoilt => Separate)'
      BY <1>0, <1>10, <1>t, FrameFacts DEF ClearScreen, Separate, ScreenOf,
         TInv, TypeOK
    <2>2. Mapped'
      BY <1>0, <1>10 DEF ClearScreen, Mapped, FlagFresh, OwnPage, VidmapOwnPage,
         VidmapKept, Runs, Chain, ScreenOf, pages
    <2>3. QED
      BY <1>0, <2>1, <2>2 DEF SInv
  <1>11. ASSUME NEW t \in Terminals, SwitchTerminal(t)
         PROVE  SInv'
    <2>1. paging' = paging /\ Chain' = Chain
      BY <1>11 DEF SwitchTerminal, Chain
    <2>2. Mapped'
      BY <1>0, <1>11, <2>1 DEF SwitchTerminal, SetPages, Mapped, FlagFresh, OwnPage,
         VidmapOwnPage, VidmapKept, Runs, ScreenOf
    <2>3. (~spoilt => Separate)'
      <3> SUFFICES ASSUME ~spoilt, NEW u \in Terminals
                   PROVE  frame'[IF u = t THEN 0 ELSE u] = picture[u]
        BY <1>11 DEF SwitchTerminal, Separate, ScreenOf
      <3>1. frame[IF u = current_terminal THEN 0 ELSE u] = picture[u]
        BY <1>0 DEF Separate, ScreenOf
      <3>2. /\ frame'[0] = frame[t]
            /\ frame'[current_terminal] = frame[0]
            /\ \A f \in Frames \ {0, current_terminal} : frame'[f] = frame[f]
        BY <1>0, <1>11, <1>t, FrameFacts DEF SwitchTerminal, TInv, TypeOK
      <3>3. t # current_terminal
        BY <1>11 DEF SwitchTerminal
      <3>4. QED
        BY <3>1, <3>2, <3>3, <1>t, FrameFacts
    <2>4. QED
      BY <1>0, <2>2, <2>3 DEF SInv
  <1>12. CASE Tick
    <2>1. Mapped'
      BY <1>12 DEF Tick, SetPages, Mapped, FlagFresh, OwnPage, VidmapOwnPage,
         VidmapKept, Runs, Chain, ScreenOf
    <2>2. (~spoilt => Separate)'
      BY <1>0, <1>12 DEF Tick, Separate, ScreenOf, shown
    <2>3. QED
      BY <1>0, <2>1, <2>2 DEF SInv
  <1>13. CASE UNCHANGED vars
    <2>1. Mapped' /\ (~spoilt => Separate)'
      BY <1>0, <1>13 DEF vars, pages, shown, Mapped, FlagFresh, OwnPage, VidmapOwnPage,
         VidmapKept, Runs, Chain, ScreenOf, Separate
    <2>2. QED
      BY <1>0, <2>1 DEF SInv
  <1>14. QED
    BY <1>1, <1>2, <1>3, <1>4, <1>5, <1>7, <1>8, <1>9, <1>10, <1>11, <1>12, <1>13
    DEF Next

\* Each terminal's screen shows what that terminal wrote and nothing else,
\* through every switch, tick, execute, halt and use of vidmap, until a program
\* writes through pages set for another displayed terminal.
THEOREM NoTerminalWritesOnAnother == Spec => []ScreensSeparate
  <1>1. SInv => ScreensSeparate
    BY DEF SInv, Separate, ScreensSeparate
  <1>2. QED
    BY SInvInit, SInvStep, <1>1, PTL DEF Spec

\* putc of whatever runs goes to the screen of its own terminal, unless the
\* pages were set for another displayed terminal.
THEOREM OutputGoesHome == Spec => []OwnPage
  <1>1. SInv => OwnPage
    BY DEF SInv, Mapped
  <1>2. QED
    BY SInvInit, SInvStep, <1>1, PTL DEF Spec

\* A program does not lose the mapping vidmap gave it, wherever keys arrive.
THEOREM VidmapStays == Spec => []VidmapKept
  <1>1. SInv => VidmapKept
    BY DEF SInv, Mapped
  <1>2. QED
    BY SInvInit, SInvStep, <1>1, PTL DEF Spec
============================================================================
