------------------------------- MODULE Video -------------------------------
(***************************************************************************)
(* Whose screen is written: the video pages of the terminals (paging.c),   *)
(* paging_video_memory and vidmap (syscall.c), the switch of the displayed *)
(* terminal (keyboard.c) and the two ways of writing (lib.c): putc, which  *)
(* goes through the page at VIDEO_MEM, and the echo of the keyboard, which *)
(* goes straight to the screen.                                            *)
(*                                                                         *)
(* Frame 0 is the screen, frame t the page that holds the screen of        *)
(* terminal t while t is not displayed.  What a frame shows is the set of  *)
(* marks written to it.                                                    *)
(*                                                                         *)
(* The switch and schedule() run with interrupts off and are one step.     *)
(* paging_video_memory as called by execute and halt is not: it compares   *)
(* active_terminal with current_terminal first and sets the page later, and *)
(* a key may come between.  Two history variables record when the pages    *)
(* were set from a comparison that no longer holds, and whether anything   *)
(* was shown meanwhile.                                                    *)
(***************************************************************************)
EXTENDS Integers, Sequences

CONSTANTS NumTerminals,        \* 3 in the code
          Marks,               \* what can be written
          MaxDepth             \* bound: processes of a terminal

Terminals == 1 .. NumTerminals
Frames == 0 .. NumTerminals
NoFrame == -1            \* the vidmap page points nowhere yet

ASSUME VideoAssumption == /\ NumTerminals \in Nat \ {0}
                          /\ MaxDepth \in Nat

VARIABLES current_terminal,   \* displayed
          active_terminal,    \* running
          vidmap_flag,        \* per terminal: the flags of its processes,
                              \* the running one first
          video_page,         \* frame mapped at VIDEO_MEM
          vidmap_page,        \* frame mapped for user programs
          vidmap_present,
          paging,             \* paging_video_memory under way: what its
                              \* comparison gave, and the flag it looks at
          frame,              \* what each frame shows
          picture,            \* what each terminal wrote: history
          stale,              \* the pages were set for another displayed
                              \* terminal than the present one: history
          spoilt              \* something was shown while stale: history

pages == <<video_page, vidmap_page, vidmap_present>>
shown == <<frame, picture, spoilt>>
vars == <<current_terminal, active_terminal, vidmap_flag, pages, paging, shown,
          stale>>

NotPaging == [on |-> FALSE, same |-> FALSE, flag |-> FALSE]

\* keyboard_init, page_initialize, create_terminal_N_shell
Init ==
    /\ current_terminal = 1
    /\ active_terminal = 1
    /\ vidmap_flag = [t \in Terminals |-> <<FALSE>>]
    /\ video_page = 0
    /\ vidmap_page = NoFrame
    /\ vidmap_present = FALSE
    /\ paging = NotPaging
    /\ frame = [f \in Frames |-> {}]
    /\ picture = [t \in Terminals |-> {}]
    /\ stale = FALSE
    /\ spoilt = FALSE

----------------------------------------------------------------------------
\* paging_video_memory

SetPages(same, t, flag) ==
    /\ video_page' = IF same THEN 0 ELSE t
    /\ vidmap_page' = IF same THEN 0 ELSE t
    /\ vidmap_present' = flag

\* Called by execute and halt: the comparison, and the rest.
PagingBegin(flag) ==
    paging' = [on |-> TRUE, same |-> active_terminal = current_terminal,
               flag |-> flag]

PagingEnd ==
    /\ paging.on
    /\ SetPages(paging.same, active_terminal, paging.flag)
    /\ paging' = NotPaging
    /\ stale' = (paging.same # (active_terminal = current_terminal))
    /\ UNCHANGED <<current_terminal, active_terminal, vidmap_flag, shown>>

----------------------------------------------------------------------------
\* The running process

Chain == vidmap_flag[active_terminal]
Runs == ~paging.on

\* syscall_execute: active_pid, whose flag is used, is still the parent.
Execute ==
    /\ Runs
    /\ Len(Chain) < MaxDepth
    /\ vidmap_flag' = [vidmap_flag EXCEPT ![active_terminal] = <<FALSE>> \o @]
    /\ PagingBegin(Head(Chain))
    /\ UNCHANGED <<current_terminal, active_terminal, pages, shown, stale>>

\* Mutant: the flag of the process that halts is used.
Halt_child_flag ==
    /\ Runs
    /\ Len(Chain) > 1
    /\ vidmap_flag' = [vidmap_flag EXCEPT ![active_terminal] = Tail(@)]
    /\ PagingBegin(Head(Chain))
    /\ UNCHANGED <<current_terminal, active_terminal, pages, shown, stale>>

\* syscall_halt: active_pid is the parent already.
Halt ==
    /\ Runs
    /\ Len(Chain) > 1
    /\ vidmap_flag' = [vidmap_flag EXCEPT ![active_terminal] = Tail(@)]
    /\ PagingBegin(Chain[2])
    /\ UNCHANGED <<current_terminal, active_terminal, pages, shown, stale>>

\* syscall_halt of a root shell: boot_enter_terminal_N
Restart ==
    /\ Runs
    /\ Len(Chain) = 1
    /\ PagingBegin(Head(Chain))
    /\ UNCHANGED <<current_terminal, active_terminal, vidmap_flag, pages, shown,
                   stale>>

\* syscall_enable_vidmap_paging maps the screen, whether or not the terminal
\* is displayed.
syscall_enable_vidmap_paging == vidmap_page' = 0 /\ vidmap_present' = TRUE

\* syscall_vidmap with a valid pointer; with another it changes nothing.
Vidmap ==
    /\ Runs
    /\ vidmap_flag' = [vidmap_flag EXCEPT ![active_terminal] = <<TRUE>> \o Tail(@)]
    /\ syscall_enable_vidmap_paging
    /\ stale' = (stale \/ active_terminal # current_terminal)
    /\ UNCHANGED <<current_terminal, active_terminal, video_page, paging, shown>>

\* The mark m of the running process appears in frame f.
Show(f, m) ==
    /\ frame' = [frame EXCEPT ![f] = @ \cup {<<active_terminal, m>>}]
    /\ picture' = [picture EXCEPT ![active_terminal] = @ \cup {<<active_terminal, m>>}]
    /\ spoilt' = (spoilt \/ stale)
    /\ UNCHANGED <<current_terminal, active_terminal, vidmap_flag, pages, paging,
                   stale>>

\* putc, for write and printf; and a store of a program to the vidmap page.
\* A program that holds a mapping it has not asked for does not use it.
Putc(m) == Runs /\ Show(video_page, m)
UserStore(m) == Runs /\ Head(Chain) /\ vidmap_present /\ Show(vidmap_page, m)

----------------------------------------------------------------------------
\* Interrupts

\* Mutant: the echo is written like the output of the running process.
Echo_through_page(m) ==
    /\ frame' = [frame EXCEPT ![video_page] = @ \cup {<<current_terminal, m>>}]
    /\ picture' = [picture EXCEPT ![current_terminal] = @ \cup {<<current_terminal, m>>}]
    /\ UNCHANGED <<current_terminal, active_terminal, vidmap_flag, pages, paging,
                   stale, spoilt>>

\* current_terminal_putc
Echo(m) ==
    /\ frame' = [frame EXCEPT ![0] = @ \cup {<<current_terminal, m>>}]
    /\ picture' = [picture EXCEPT ![current_terminal] = @ \cup {<<current_terminal, m>>}]
    /\ UNCHANGED <<current_terminal, active_terminal, vidmap_flag, pages, paging,
                   stale, spoilt>>

\* current_terminal_clear
ClearScreen ==
    /\ frame' = [frame EXCEPT ![0] = {}]
    /\ picture' = [picture EXCEPT ![current_terminal] = {}]
    /\ UNCHANGED <<current_terminal, active_terminal, vidmap_flag, pages, paging,
                   stale, spoilt>>

\* Mutant: the pages are not set.
SwitchTerminal_no_paging(t) ==
    /\ t # current_terminal
    /\ current_terminal' = t
    /\ frame' = [frame EXCEPT ![current_terminal] = frame[0], ![0] = frame[t]]
    /\ stale' = FALSE
    /\ UNCHANGED <<active_terminal, vidmap_flag, pages, paging, picture, spoilt>>

\* switch_to_terminal_N: the screen is saved, current_terminal moves, the
\* pages are set for the process that runs, and the screen is restored.
SwitchTerminal(t) ==
    /\ t # current_terminal
    /\ current_terminal' = t
    /\ frame' = [frame EXCEPT ![current_terminal] = frame[0], ![0] = frame[t]]
    /\ SetPages(active_terminal = t, active_terminal,
                IF paging.on THEN paging.flag ELSE Head(Chain))
    /\ stale' = FALSE
    /\ UNCHANGED <<active_terminal, vidmap_flag, paging, picture, spoilt>>

\* schedule(); Process shows why it must not come inside execute and halt.
NextTerminal(t) == IF t = NumTerminals THEN 1 ELSE t + 1

Tick ==
    /\ ~paging.on
    /\ LET t == NextTerminal(active_terminal)
       IN /\ active_terminal' = t
          /\ SetPages(t = current_terminal, t, Head(vidmap_flag[t]))
    /\ stale' = FALSE
    /\ UNCHANGED <<current_terminal, vidmap_flag, paging, shown>>

Next ==
    \/ Execute \/ Halt \/ Restart \/ PagingEnd \/ Vidmap
    \/ \E m \in Marks : Putc(m) \/ UserStore(m) \/ Echo(m)
    \/ ClearScreen
    \/ \E t \in Terminals : SwitchTerminal(t)
    \/ Tick

Spec == Init /\ [][Next]_vars

----------------------------------------------------------------------------
\* Properties

\* Where the screen of terminal t is.
ScreenOf(t) == IF t = current_terminal THEN 0 ELSE t

\* Types of the pages, the pointers and the chains.
TypeOK ==
    /\ current_terminal \in Terminals
    /\ active_terminal \in Terminals
    /\ vidmap_flag \in [Terminals -> Seq(BOOLEAN)]
    /\ video_page \in Frames
    /\ vidmap_page \in Frames \cup {NoFrame}
    /\ vidmap_present \in BOOLEAN
    /\ paging \in [on : BOOLEAN, same : BOOLEAN, flag : BOOLEAN]
    /\ frame \in [Frames -> SUBSET (Terminals \X Marks)]
    /\ picture \in [Terminals -> SUBSET (Terminals \X Marks)]
    /\ stale \in BOOLEAN
    /\ spoilt \in BOOLEAN

\* Whatever runs writes to the screen of its own terminal, displayed or not,
\* after any sequence of switches, ticks, executes and halts.  The exceptions
\* last until the next switch or tick: a switch came between the comparison
\* and the stores of paging_video_memory, or vidmap was called while its
\* terminal was not displayed.
OwnPage == Runs /\ ~stale => video_page = ScreenOf(active_terminal)

\* The screen of each terminal shows what that terminal wrote and what was
\* typed at it: switching loses nothing and no terminal writes on another,
\* unless one wrote in those exceptions.
ScreensSeparate ==
    ~spoilt => \A t \in Terminals : frame[ScreenOf(t)] = picture[t]

\* A program that has called vidmap keeps its mapping, whatever programs it
\* executes and however often it is switched away from.
VidmapKept == Runs /\ Head(Chain) => vidmap_present
============================================================================
