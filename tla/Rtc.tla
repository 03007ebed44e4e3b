-------------------------------- MODULE Rtc --------------------------------
(***************************************************************************)
(* The virtualised real-time clock (rtc.c).  One physical clock interrupts *)
(* at physical_rate; each terminal has a virtual_rate, and a virtual_count *)
(* that rtc_read loads and polls and rtc_handler counts down.              *)
(*                                                                         *)
(* rtc_handler runs on the stack of whichever process it interrupts, with  *)
(* interrupts enabled (trap gates), so a PIT tick can suspend it between   *)
(* the load and the store of a virtual_count-- and run other terminals     *)
(* until its own turn comes again; torn remembers that this has happened.  *)
(* IRQ 8 stays in service until the handler's EOI, so there is one handler *)
(* at a time.                                                              *)
(***************************************************************************)
EXTENDS Integers

CONSTANTS NumTerminals,    \* 3 in the code
          PhysicalRate,    \* 1024 in the code
          Requests         \* bound: rates programs ask for

ASSUME RtcAssumption == /\ NumTerminals \in Nat \ {0}
                        /\ PhysicalRate \in Nat /\ PhysicalRate >= 2
                        /\ Requests \subseteq Int

Terminals == 1 .. NumTerminals

VARIABLES active_terminal,
          virtual_rate,    \* per terminal
          virtual_count,   \* per terminal
          has_rtc,         \* per terminal: its process has the rtc open
          reading,         \* per terminal: its process polls in rtc_read
          irq,             \* the clock has interrupted, register C unread
          handler,         \* rtc_handler, if it is running or suspended
          owed,            \* per terminal: interrupts the current read has
                           \* still to wait for: history
          torn             \* a tick has suspended rtc_handler: history

vars == <<active_terminal, virtual_rate, virtual_count, has_rtc, reading, irq,
          handler, owed, torn>>

Idle == [at |-> "idle", owner |-> 0, idx |-> 0, reg |-> 0]

Init ==
    /\ active_terminal = 1
    /\ virtual_rate = [t \in Terminals |-> 2]
    /\ virtual_count = [t \in Terminals |-> 0]
    /\ has_rtc = [t \in Terminals |-> FALSE]
    /\ reading = [t \in Terminals |-> FALSE]
    /\ irq = FALSE
    /\ handler = Idle
    /\ owed = [t \in Terminals |-> 0]
    /\ torn = FALSE

\* The process of terminal t executes: it has the CPU, and no handler lies on
\* top of its stack.
Runs(t) == active_terminal = t /\ handler.owner # t

----------------------------------------------------------------------------
\* System calls of the process on terminal t

\* file_descriptor_table_open of the rtc installs ece391_rtc_ops in the
\* descriptor and does not call their open: no clock state changes.
OpenRtc(t) ==
    /\ Runs(t)
    /\ ~has_rtc[t]
    /\ has_rtc' = [has_rtc EXCEPT ![t] = TRUE]
    /\ UNCHANGED <<active_terminal, virtual_rate, virtual_count, reading, irq,
                   handler, owed, torn>>

\* Nor does file_descriptor_table_close, which halt calls too, call rtc_close.
CloseRtc(t) ==
    /\ Runs(t)
    /\ has_rtc[t]
    /\ ~reading[t]
    /\ has_rtc' = [has_rtc EXCEPT ![t] = FALSE]
    /\ UNCHANGED <<active_terminal, virtual_rate, virtual_count, reading, irq,
                   handler, owed, torn>>

Period(rate) == PhysicalRate \div rate

\* Mutant: the count is not loaded.
rtc_read_no_load(t) ==
    /\ Runs(t)
    /\ has_rtc[t]
    /\ ~reading[t]
    /\ owed' = [owed EXCEPT ![t] = Period(virtual_rate[t])]
    /\ reading' = [reading EXCEPT ![t] = TRUE]
    /\ UNCHANGED <<active_terminal, virtual_rate, virtual_count, has_rtc, irq,
                   handler, torn>>

\* rtc_read: load the count, then poll it.
rtc_read(t) ==
    /\ Runs(t)
    /\ has_rtc[t]
    /\ ~reading[t]
    /\ virtual_count' = [virtual_count EXCEPT ![t] = Period(virtual_rate[t])]
    /\ owed' = [owed EXCEPT ![t] = Period(virtual_rate[t])]
    /\ reading' = [reading EXCEPT ![t] = TRUE]
    /\ UNCHANGED <<active_terminal, virtual_rate, has_rtc, irq, handler, torn>>

rtc_read_returns(t) ==
    /\ Runs(t)
    /\ reading[t]
    /\ virtual_count[t] = 0
    /\ reading' = [reading EXCEPT ![t] = FALSE]
    /\ owed' = [owed EXCEPT ![t] = 0]
    /\ UNCHANGED <<active_terminal, virtual_rate, virtual_count, has_rtc, irq,
                   handler, torn>>

\* rtc_write: a power of two from 2 to 1024; the loop doubles from 2.
PowersOfTwo == {2, 4, 8, 16, 32, 64, 128, 256, 512, 1024}
Acceptable(rate) == rate >= 2 /\ rate <= PhysicalRate /\ rate \in PowersOfTwo

\* Mutant: one count for all terminals.
rtc_write_shared(t, rate) ==
    /\ Runs(t)
    /\ has_rtc[t]
    /\ ~reading[t]
    /\ Acceptable(rate)
    /\ virtual_rate' = [virtual_rate EXCEPT ![t] = rate]
    /\ virtual_count' = [u \in Terminals |-> Period(rate)]
    /\ UNCHANGED <<active_terminal, has_rtc, reading, irq, handler, owed, torn>>

rtc_write(t, rate) ==
    /\ Runs(t)
    /\ has_rtc[t]
    /\ ~reading[t]
    /\ Acceptable(rate)
    /\ virtual_rate' = [virtual_rate EXCEPT ![t] = rate]
    /\ virtual_count' = [virtual_count EXCEPT ![t] = Period(rate)]
    /\ UNCHANGED <<active_terminal, has_rtc, reading, irq, handler, owed, torn>>

----------------------------------------------------------------------------
\* The clock and rtc_handler

\* The chip does not interrupt again before register C has been read.
ClockFires ==
    /\ ~irq
    /\ irq' = TRUE
    /\ UNCHANGED <<active_terminal, virtual_rate, virtual_count, has_rtc,
                   reading, handler, owed, torn>>

\* The handler starts on the stack of the running process and reads register
\* C.  Every read under way is owed one interrupt less.
HandlerEnter ==
    /\ irq
    /\ handler = Idle
    /\ irq' = FALSE
    /\ handler' = [at |-> "test", owner |-> active_terminal, idx |-> 1, reg |-> 0]
    /\ owed' = [t \in Terminals |-> IF owed[t] > 0 THEN owed[t] - 1 ELSE 0]
    /\ UNCHANGED <<active_terminal, virtual_rate, virtual_count, has_rtc,
                   reading, torn>>

HandlerOnCpu(at) == handler.at = at /\ handler.owner = active_terminal

\* On to the next terminal, or send_eoi and iret after the last.
Advance == IF handler.idx = NumTerminals THEN Idle
           ELSE [handler EXCEPT !.at = "test", !.idx = @ + 1, !.reg = 0]

\* Mutant: a count of 1 is not lowered.
HandlerTest_one ==
    /\ HandlerOnCpu("test")
    /\ handler' = IF virtual_count[handler.idx] > 1
                  THEN [handler EXCEPT !.at = "load"] ELSE Advance
    /\ UNCHANGED <<active_terminal, virtual_rate, virtual_count, has_rtc,
                   reading, irq, owed, torn>>

\* if (terminal_i.virtual_count > 0)
HandlerTest ==
    /\ HandlerOnCpu("test")
    /\ handler' = IF virtual_count[handler.idx] > 0
                  THEN [handler EXCEPT !.at = "load"] ELSE Advance
    /\ UNCHANGED <<active_terminal, virtual_rate, virtual_count, has_rtc,
                   reading, irq, owed, torn>>

\* terminal_i.virtual_count--: load, subtract, store
HandlerLoad ==
    /\ HandlerOnCpu("load")
    /\ handler' = [handler EXCEPT !.at = "store",
                                  !.reg = virtual_count[handler.idx]]
    /\ UNCHANGED <<active_terminal, virtual_rate, virtual_count, has_rtc,
                   reading, irq, owed, torn>>

HandlerStore ==
    /\ HandlerOnCpu("store")
    /\ virtual_count' = [virtual_count EXCEPT ![handler.idx] = handler.reg - 1]
    /\ handler' = Advance
    /\ UNCHANGED <<active_terminal, virtual_rate, has_rtc, reading, irq, owed, torn>>

----------------------------------------------------------------------------
\* pit_handler: the next terminal gets the CPU.
Tick ==
    /\ active_terminal' = IF active_terminal = NumTerminals THEN 1
                          ELSE active_terminal + 1
    /\ torn' = (torn \/ handler # Idle)
    /\ UNCHANGED <<virtual_rate, virtual_count, has_rtc, reading, irq, handler,
                   owed>>

HandlerStep == HandlerTest \/ HandlerLoad \/ HandlerStore

Next ==
    \/ \E t \in Terminals : \/ OpenRtc(t)
                            \/ CloseRtc(t)
                            \/ rtc_read(t)
                            \/ rtc_read_returns(t)
                            \/ \E rate \in Requests : rtc_write(t, rate)
    \/ ClockFires
    \/ HandlerEnter
    \/ HandlerStep
    \/ Tick

Spec == Init /\ [][Next]_vars

\* Both clocks fire for ever; code that has the CPU again and again runs.
FairSpec ==
    /\ Spec
    /\ WF_vars(ClockFires)
    /\ WF_vars(HandlerEnter)
    /\ SF_vars(HandlerStep)
    /\ SF_vars(Tick)
    /\ \A t \in Terminals : SF_vars(rtc_read_returns(t))

----------------------------------------------------------------------------
\* Properties

\* Types; in particular a count is never negative, however the handler's
\* decrements and the system calls interleave.
TypeOK ==
    /\ active_terminal \in Terminals
    /\ virtual_rate \in [Terminals -> {r \in Nat : r >= 2 /\ r <= PhysicalRate}]
    /\ virtual_count \in [Terminals -> Nat]
    /\ has_rtc \in [Terminals -> BOOLEAN]
    /\ reading \in [Terminals -> BOOLEAN]
    /\ irq \in BOOLEAN
    /\ handler \in [at : {"idle", "test", "load", "store"},
                    owner : Terminals \cup {0}, idx : Terminals \cup {0}, reg : Nat]
    /\ owed \in [Terminals -> Nat]
    /\ torn \in BOOLEAN

\* A polling read is released only after the number of physical interrupts
\* its rate asks for, whatever the other terminals read and write meanwhile.
NeverEarly ==
    \A t \in Terminals : reading[t] /\ virtual_count[t] = 0 => owed[t] = 0

\* That is so as long as no tick has suspended rtc_handler.
NoEarlyReturn == ~torn => NeverEarly

\* Between interrupts the count of a polling read is exactly the number of
\* interrupts it has still to wait for, none lost and none counted twice, as
\* long as no tick has suspended rtc_handler.
CountIsOwed ==
    ~torn /\ handler = Idle =>
        \A t \in Terminals : reading[t] => virtual_count[t] = owed[t]

\* A read returns, even if ticks tear the handler.
ReadReturns == \A t \in Terminals : reading[t] ~> ~reading[t]
============================================================================
