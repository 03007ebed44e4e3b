----------------------------- MODULE Interrupts -----------------------------
(***************************************************************************)
(* Boot (boot.S, kernel.c) and the interrupt controller (i8259.c) with the *)
(* handlers of the timer, the keyboard and the real-time clock.            *)
(*                                                                         *)
(* The 8259 pair delivers the pending, unmasked request of the highest     *)
(* priority unless one of the same or a higher priority is in service, and *)
(* a request stays in service until its handler sends the EOI.  All gates  *)
(* are trap gates, so a handler runs with interrupts on and lies on the    *)
(* stack of the flow it interrupted: the code of entry(), or a terminal.   *)
(* A tick inside a handler suspends it, in service, until its flow has the *)
(* CPU again.  The first tick leaves entry() for good.                     *)
(*                                                                         *)
(* A tick is one step: while IRQ 0 is in service nothing else can come in, *)
(* and pit_handler turns interrupts off before its EOI.  The EOI and the   *)
(* return behind it are one step.                                          *)
(***************************************************************************)
EXTENDS Integers, Sequences, FiniteSets

CONSTANTS NumTerminals,     \* 3 in the code
          LoaderUnmasked    \* requests the boot loader leaves unmasked

Terminals == 1 .. NumTerminals
Boot  == 0                  \* the flow of entry()
Flows == {Boot} \cup Terminals

\* Request lines; the slave hangs on line 2 of the master.
PIT == 0
KBD == 1
CASCADE == 2
RTC == 8
Irqs  == {PIT, KBD, RTC}
Lines == Irqs \cup {CASCADE}

ASSUME InterruptsAssumption == /\ NumTerminals \in Nat \ {0}
                               /\ LoaderUnmasked \subseteq Irqs

\* entry(), in order.  "stopped": not started by a multiboot loader;
\* "reset": an interrupt found no gate and the machine starts over;
\* "fault": exception_handler has turned interrupts off and halts;
\* "astray": a terminal without a shell was entered, at whatever word memory
\* holds.
Unmasked   == {"print", "descriptors", "icw", "mask"}   \* IF on, no IDT, and
                                                        \* the PIC not yet ours
BootPoints == Unmasked \cup
    {"start", "stopped", "cascade", "idt", "keyboard", "rtc_pie",
     "rtc_irq", "paging", "clear", "shells", "pit", "hlt"} \cup
    {"reset", "fault", "astray"}

VARIABLES
    boot,        \* the next step of entry()
    ready,       \* what entry() has set up
    imr, irr, isr,  \* the PICs: lines masked, pending, in service
    running,     \* the flow on the CPU
    active_terminal,
    handlers,    \* per flow: its unfinished handlers, the innermost last
    kbd_full,    \* a scancode waits at port 0x60
    rtc_flag,    \* register C holds an interrupt nobody has read
    abandoned    \* history: requests whose handler was left with entry()

pic  == <<imr, irr, isr>>
dev  == <<kbd_full, rtc_flag>>
cpu  == <<running, active_terminal, handlers, abandoned>>
vars == <<boot, ready, pic, cpu, dev>>

Frame(irq, pc) == [irq |-> irq, pc |-> pc]
HasHandler(f)  == handlers[f] # << >>
Top(f)         == handlers[f][Len(handlers[f])]
Push(f, frame) == handlers' = [handlers EXCEPT ![f] = Append(@, frame)]
Move(f, pc)    == handlers' = [handlers EXCEPT ![f][Len(handlers[f])].pc = pc]
Pop(f)         == handlers' = [handlers EXCEPT ![f] =
                                   SubSeq(@, 1, Len(@) - 1)]

Init ==
    /\ boot = "start" /\ ready = {}
    /\ imr = Lines \ (LoaderUnmasked \cup {CASCADE}) /\ irr = {} /\ isr = {}
    /\ running = Boot /\ active_terminal = 1
    /\ handlers = [f \in Flows |-> << >>]
    /\ kbd_full = FALSE /\ rtc_flag = FALSE
    /\ abandoned = {}

----------------------------------------------------------------------------
\* entry()

\* One step of entry() itself; handlers that interrupted it go first.
Enters(from, to, what) ==
    /\ boot = from
    /\ running = Boot /\ ~HasHandler(Boot)
    /\ boot' = to
    /\ ready' = ready \cup what
    /\ UNCHANGED <<cpu, dev>>

\* _start, and clear(), whose set_cursor_position ends in sti.
BootStart   == Enters("start", "print", {}) /\ UNCHANGED pic

\* No multiboot magic, or contradicting flags: entry() returns to boot.S.
BootRefused == Enters("print", "stopped", {}) /\ UNCHANGED pic

\* init_filesystem is called for the modules the loader passes (flag bit 3);
\* without any, entry() goes on.  An image without a shell is as good as none.
BootPrint == /\ \E modules \in {{}, {"filesystem"}} :
                    Enters("print", "descriptors", modules)
             /\ UNCHANGED pic

BootDescriptors == Enters("descriptors", "icw", {"ldt", "tss"}) /\ UNCHANGED pic

enable_irq(irq) == imr' = imr \ {irq} /\ UNCHANGED <<irr, isr>>

\* i8259_init: the first control word resets both chips, masks included.
i8259_icw == /\ Enters("icw", "mask", {})
             /\ imr' = {} /\ irr' = {} /\ isr' = {}

\* Mutant: the chips are left as the control words leave them.
i8259_mask_skipped == Enters("mask", "cascade", {"pic"}) /\ UNCHANGED pic

i8259_mask == /\ Enters("mask", "cascade", {"pic"})
              /\ imr' = Lines
              /\ UNCHANGED <<irr, isr>>

i8259_cascade == Enters("cascade", "idt", {}) /\ enable_irq(CASCADE)

idt_init == Enters("idt", "keyboard", {"idt"}) /\ UNCHANGED pic

keyboard_init == /\ Enters("keyboard", "rtc_pie", {"terminals"})
                 /\ enable_irq(KBD)

rtc_enable_pie == Enters("rtc_pie", "rtc_irq", {"rtc"}) /\ UNCHANGED pic

rtc_irq == Enters("rtc_irq", "paging", {}) /\ enable_irq(RTC)

page_initialize == Enters("paging", "clear", {"pages"}) /\ UNCHANGED pic

BootClear == Enters("clear", "shells", {}) /\ UNCHANGED pic

\* Each create_terminal_N_shell returns early when file_open finds no shell.
create_terminal_shells ==
    /\ Enters("shells", "pit",
              IF "filesystem" \in ready THEN {"shells"} ELSE {})
    /\ UNCHANGED pic

pit_init == Enters("pit", "hlt", {"pit"}) /\ enable_irq(PIT)

BootStep == \/ BootStart \/ BootRefused \/ BootPrint \/ BootDescriptors
            \/ i8259_icw \/ i8259_mask \/ i8259_cascade \/ idt_init
            \/ keyboard_init \/ rtc_enable_pie \/ rtc_irq \/ page_initialize
            \/ BootClear \/ create_terminal_shells \/ pit_init

----------------------------------------------------------------------------
\* The devices raise requests once the controller has been programmed.

Programmed == "pic" \in ready

Raise(irq) == irr' = irr \cup {irq} /\ UNCHANGED <<imr, isr>>

PitFires == /\ Programmed /\ PIT \notin irr
            /\ Raise(PIT)
            /\ UNCHANGED <<boot, ready, cpu, dev>>

\* The next scancode is presented when the last one has been read.
KeyPressed == /\ Programmed /\ ~kbd_full
              /\ kbd_full' = TRUE
              /\ Raise(KBD)
              /\ UNCHANGED <<boot, ready, cpu, rtc_flag>>

\* No further interrupt comes before register C has been read.
ClockFires == /\ "rtc" \in ready /\ ~rtc_flag
              /\ rtc_flag' = TRUE
              /\ Raise(RTC)
              /\ UNCHANGED <<boot, ready, cpu, kbd_full>>

----------------------------------------------------------------------------
\* Delivery

Level(irq) == IF irq = RTC THEN CASCADE ELSE irq

Deliverable(irq) ==
    /\ irq \in irr /\ {irq, Level(irq)} \cap imr = {}
    /\ irq \notin isr
    /\ \A s \in isr \ {RTC} : Level(irq) < s
    /\ boot \notin {"start", "reset", "fault", "astray"}

\* The controller asks for the highest priority first.
Accept(irq) == /\ Deliverable(irq)
               /\ \A j \in Irqs : Deliverable(j) => Level(irq) <= Level(j)

\* Before the IDT is loaded any interrupt is a triple fault.
TripleFault ==
    /\ "idt" \notin ready
    /\ \/ boot \in Unmasked \cup {"stopped"} /\ Irqs \ imr # {}
       \/ \E irq \in Irqs : Accept(irq)
    /\ boot' = "reset"
    /\ UNCHANGED <<ready, pic, cpu, dev>>

----------------------------------------------------------------------------
\* Handlers

\* Mutant: the keyboard's EOI is sent on entry.
KeyEnter_early_eoi ==
    /\ "idt" \in ready
    /\ Accept(KBD)
    /\ irr' = irr \ {KBD} /\ UNCHANGED <<imr, isr>>
    /\ Push(running, Frame(KBD, "read"))
    /\ UNCHANGED <<boot, ready, running, active_terminal, abandoned, dev>>

KeyEnter ==
    /\ "idt" \in ready
    /\ Accept(KBD)
    /\ irr' = irr \ {KBD} /\ isr' = isr \cup {KBD} /\ UNCHANGED imr
    /\ Push(running, Frame(KBD, "read"))
    /\ UNCHANGED <<boot, ready, running, active_terminal, abandoned, dev>>

In(irq, pc) == /\ HasHandler(running) /\ Top(running) = Frame(irq, pc)
               /\ boot \notin {"fault", "astray"}

\* inb(KEYBOARD_PORT), and then all that the key does.  Until page_initialize
\* its echo goes to an address that is not the screen yet, and is lost.
KeyRead ==
    /\ In(KBD, "read")
    /\ kbd_full' = FALSE
    /\ Move(running, "eoi")
    /\ UNCHANGED <<boot, ready, pic, running, active_terminal, abandoned, rtc_flag>>

\* An alt-F2 or alt-F3 before any process runs: paging_video_memory reads the
\* pcb of active_pid 0, behind the kernel's 4 MB, which paging leaves unmapped.
KeyFaults ==
    /\ In(KBD, "read")
    /\ running = Boot /\ "pages" \in ready
    /\ kbd_full' = FALSE
    /\ boot' = "fault"
    /\ UNCHANGED <<ready, pic, cpu, rtc_flag>>

\* send_eoi is specific: it names the line.
send_eoi(line) == isr' = isr \ {line} /\ UNCHANGED <<imr, irr>>

KeyEoi ==
    /\ In(KBD, "eoi")
    /\ send_eoi(KBD)
    /\ Pop(running)
    /\ UNCHANGED <<boot, ready, running, active_terminal, abandoned, dev>>

RtcEnter ==
    /\ "idt" \in ready
    /\ Accept(RTC)
    /\ irr' = irr \ {RTC} /\ isr' = isr \cup {RTC, CASCADE} /\ UNCHANGED imr
    /\ Push(running, Frame(RTC, "read"))
    /\ UNCHANGED <<boot, ready, running, active_terminal, abandoned, dev>>

\* Register C is read, then the terminals' counts are lowered.
RtcRead ==
    /\ In(RTC, "read")
    /\ rtc_flag' = FALSE
    /\ Move(running, "eoi_slave")
    /\ UNCHANGED <<boot, ready, pic, running, active_terminal, abandoned, kbd_full>>

\* send_eoi(8): the slave, then send_eoi(2) for the master.
RtcEoiSlave ==
    /\ In(RTC, "eoi_slave")
    /\ send_eoi(RTC)
    /\ Move(running, "eoi_master")
    /\ UNCHANGED <<boot, ready, running, active_terminal, abandoned, dev>>

\* Mutant: only the slave is told.
RtcEoiMaster_slave_only ==
    /\ In(RTC, "eoi_master")
    /\ Pop(running)
    /\ UNCHANGED <<boot, ready, pic, running, active_terminal, abandoned, dev>>

RtcEoiMaster ==
    /\ In(RTC, "eoi_master")
    /\ send_eoi(CASCADE)
    /\ Pop(running)
    /\ UNCHANGED <<boot, ready, running, active_terminal, abandoned, dev>>

KeyStep == KeyRead \/ KeyFaults \/ KeyEoi
RtcStep == RtcRead \/ RtcEoiSlave \/ RtcEoiMaster

NextTerminal(t) == IF t = NumTerminals THEN 1 ELSE t + 1

\* pit_handler: EOI, and schedule() gives the CPU to the next terminal, in the
\* middle of the handlers that terminal was in, or at its shell's first word.
Tick ==
    /\ "idt" \in ready
    /\ Accept(PIT)
    /\ irr' = irr \ {PIT} /\ UNCHANGED <<imr, isr>>
    /\ active_terminal' = NextTerminal(active_terminal)
    /\ running' = active_terminal'
    /\ abandoned' = IF running = Boot
                    THEN {handlers[Boot][i].irq : i \in DOMAIN handlers[Boot]}
                    ELSE abandoned
    /\ boot' = IF "shells" \in ready THEN boot ELSE "astray"
    /\ UNCHANGED <<ready, handlers, dev>>

----------------------------------------------------------------------------
Next == \/ BootStep \/ PitFires \/ KeyPressed \/ ClockFires \/ TripleFault
        \/ KeyEnter \/ RtcEnter \/ KeyStep \/ RtcStep \/ Tick

Spec == Init /\ [][Next]_vars

\* The timer and the clock are periodic; the CPU takes a request it is offered
\* again and again; code makes progress each time its flow has the CPU.
\* Nobody has to press keys.
Fairness == /\ WF_vars(PitFires) /\ WF_vars(ClockFires)
            /\ SF_vars(BootStep)
            /\ SF_vars(Tick) /\ SF_vars(KeyEnter) /\ SF_vars(RtcEnter)
            /\ \A f \in Flows : /\ SF_vars(running = f /\ KeyStep)
                               /\ SF_vars(running = f /\ RtcStep)

FairSpec == Spec /\ Fairness

----------------------------------------------------------------------------
\* Properties

Frames(irq) == {fi \in Flows \X (1 .. 2) :
                   fi[2] <= Len(handlers[fi[1]]) /\ handlers[fi[1]][fi[2]].irq = irq}

\* What the code behind each gate relies on.  The keyboard's needs more for a
\* switch, and does not wait for it: KeyFaults.
Needs(irq) ==
    IF irq = PIT
    THEN {"tss", "terminals", "pages"} \cup
         (IF "filesystem" \in ready THEN {"shells"} ELSE {})
    ELSE {"terminals"}

\* The order of entry() lets no interrupt in, once the controller is masked,
\* before what its handler uses is there: gates, terminals and, for the first
\* tick, the TSS, the pages and, if the loader passed an image to load them
\* from, the pcbs of the three shells.  Before the masking nothing keeps them
\* out: the first clear() (kernel.c 31) has enabled interrupts, and one that the
\* loader left unmasked is a TripleFault.
ServedWhenReady ==
    [][/\ TripleFault => ~Programmed
       /\ \A irq \in Irqs : Accept(irq) /\ irq \notin irr' =>
              Needs(irq) \subseteq ready]_vars

\* Each line in service belongs to exactly one unfinished handler, somewhere
\* on the stacks, whose EOI will end it; hence there is one rtc_handler at a
\* time, however ticks and keys interleave, and no EOI ends a line that is
\* not its own.
InServiceHasHandler ==
    /\ \A irq \in {KBD, RTC} : Cardinality(Frames(irq)) <= 1
    /\ PIT \notin isr
    /\ KBD \in isr <=> Frames(KBD) # {}
    /\ CASCADE \in isr <=> Frames(RTC) # {}
    /\ RTC \in isr => Frames(RTC) # {}

\* A key or clock interrupt of a running system is read by its handler, also
\* when ticks suspend handlers over and over.  Two exceptions: the first tick
\* may abandon a handler that had interrupted entry(), and keys and ticks that
\* leave the master's upper lines no moment of rest keep the clock waiting.
Stopped == boot \in {"stopped", "reset", "fault", "astray"}

RequestsServed ==
    /\ kbd_full ~> (~kbd_full \/ KBD \in abandoned \/ Stopped)
    /\ []<>({PIT, KBD} \cap (irr \cup isr) = {}) =>
           (rtc_flag ~> (~rtc_flag \/ abandoned # {} \/ Stopped))
=============================================================================
