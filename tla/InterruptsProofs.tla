-------------------------- MODULE InterruptsProofs --------------------------
(***************************************************************************)
(* The order of entry() and the use of the interrupt controller are right  *)
(* for any number of terminals, and whatever the boot loader left          *)
(* unmasked: no handler runs before what it uses is there, and every line  *)
(* in service belongs to one unfinished handler.                           *)
(*                                                                         *)
(* The argument: up to the mask of i8259_init nothing is pending, so       *)
(* nothing can be delivered; from there on a line is unmasked only when    *)
(* entry() has done all its handler needs.  A request whose handler is     *)
(* unfinished keeps its line in service, which refuses the next one.       *)
(***************************************************************************)
EXTENDS Interrupts, Linkage, FiniteSetTheorems, SequenceTheorems, TLAPS

\* What entry() has set up when it comes to each of its steps, the file system
\* and the shells in it apart, which are there only if the loader passed them.
Halted == {"reset", "fault", "astray"}
Images == {"filesystem", "shells"}
Early  == {"ldt", "tss"}
Middle == Early \cup {"pic", "idt", "terminals"}
Done ==
    [start       |-> {},
     print       |-> {},
     stopped     |-> {},
     descriptors |-> {},
     icw         |-> Early,
     mask        |-> Early,
     cascade     |-> Early \cup {"pic"},
     idt         |-> Early \cup {"pic"},
     keyboard    |-> Early \cup {"pic", "idt"},
     rtc_pie     |-> Middle,
     rtc_irq     |-> Middle \cup {"rtc"},
     paging      |-> Middle \cup {"rtc"},
     clear       |-> Middle \cup {"rtc", "pages"},
     shells      |-> Middle \cup {"rtc", "pages"},
     pit         |-> Middle \cup {"rtc", "pages"},
     hlt         |-> Middle \cup {"rtc", "pages", "pit"}]

HandlerFrames == [irq : {KBD, RTC}, pc : {"read", "eoi", "eoi_slave", "eoi_master"}]

TypeOK == /\ boot \in BootPoints
          /\ isr \subseteq Lines \ {PIT}
          /\ running \in Flows
          /\ active_terminal \in Terminals
          /\ handlers \in [Flows -> Seq(HandlerFrames)]

BootOrder == /\ boot \notin Halted => ready \ Images = Done[boot]
             /\ boot \in {"pit", "hlt"} /\ "filesystem" \in ready => "shells" \in ready
             /\ "rtc" \in ready => "pic" \in ready

\* Nothing is pending before the controller is programmed, then a line that
\* is open is one whose handler has all it needs; none is open before the
\* gates are loaded.
OpenWhenReady ==
    /\ "pic" \notin ready => irr = {}
    /\ "pic" \in ready => \A irq \in Irqs \ imr : Needs(irq) \cup {"idt"} \subseteq ready

\* Handlers need gates.
NoEarlyHandler == "idt" \notin ready => \A f \in Flows : handlers[f] = << >>

\* The frames on all stacks: no request has two, a line in service has one,
\* and while the slave is in service its EOI is still to come.
OneFrameEach ==
    \A f, g \in Flows : \A i \in 1 .. Len(handlers[f]), j \in 1 .. Len(handlers[g]) :
        handlers[f][i].irq = handlers[g][j].irq => f = g /\ i = j
Served(irq) == \E f \in Flows : \E i \in 1 .. Len(handlers[f]) : handlers[f][i].irq = irq
LinesServed ==
    /\ KBD \in isr <=> Served(KBD)
    /\ CASCADE \in isr <=> Served(RTC)
    /\ RTC \in isr => \E f \in Flows : \E i \in 1 .. Len(handlers[f]) :
                          /\ handlers[f][i].irq = RTC
                          /\ handlers[f][i].pc # "eoi_master"

IInv == TypeOK /\ BootOrder /\ OpenWhenReady /\ NoEarlyHandler
        /\ OneFrameEach /\ LinesServed

----------------------------------------------------------------------------
\* Facts about the stacks of handlers

\* What a new handler does to a stack.
LEMMA PushStack ==
    ASSUME NEW s \in Seq(HandlerFrames), NEW x \in HandlerFrames
    PROVE  /\ Append(s, x) \in Seq(HandlerFrames)
           /\ Len(Append(s, x)) = Len(s) + 1
           /\ \A i \in 1 .. Len(s) : Append(s, x)[i] = s[i]
           /\ Append(s, x)[Len(s) + 1] = x
  BY AppendProperties

\* What the return of the innermost handler does to a stack.
LEMMA PopStack ==
    ASSUME NEW s \in Seq(HandlerFrames), s # << >>
    PROVE  /\ Len(s) \in Nat \ {0}
           /\ SubSeq(s, 1, Len(s) - 1) \in Seq(HandlerFrames)
           /\ Len(SubSeq(s, 1, Len(s) - 1)) = Len(s) - 1
           /\ \A i \in 1 .. Len(s) - 1 : SubSeq(s, 1, Len(s) - 1)[i] = s[i]
  <1> DEFINE m == Len(s) - 1
  <1>1. Len(s) \in Nat \ {0} /\ m \in Nat /\ \A i \in 1 .. m : i \in 1 .. Len(s)
    BY EmptySeq
  <1> HIDE DEF m
  <1>2. \A i \in 1 .. m : s[i] \in HandlerFrames
    BY <1>1, ElementOfSeq
  <1>3. /\ SubSeq(s, 1, m) \in Seq(HandlerFrames)
        /\ Len(SubSeq(s, 1, m)) = IF 1 <= m THEN m - 1 + 1 ELSE 0
        /\ \A i \in 1 .. m - 1 + 1 : SubSeq(s, 1, m)[i] = s[1 + i - 1]
    BY <1>1, <1>2, SubSeqProperties
  <1>4. Len(SubSeq(s, 1, m)) = m /\ \A i \in 1 .. m : SubSeq(s, 1, m)[i] = s[i]
    BY <1>1, <1>3
  <1>5. QED
    BY <1>1, <1>3, <1>4 DEF m

\* What progress of the innermost handler does to a stack.
LEMMA MoveStack ==
    ASSUME NEW s \in Seq(HandlerFrames), s # << >>,
           NEW x \in HandlerFrames, x.irq = s[Len(s)].irq
    PROVE  /\ [s EXCEPT ![Len(s)] = x] \in Seq(HandlerFrames)
           /\ Len([s EXCEPT ![Len(s)] = x]) = Len(s)
           /\ \A i \in 1 .. Len(s) : [s EXCEPT ![Len(s)] = x][i].irq = s[i].irq
           /\ \A i \in 1 .. Len(s) : i # Len(s) => [s EXCEPT ![Len(s)] = x][i] = s[i]
           /\ [s EXCEPT ![Len(s)] = x][Len(s)] = x
  <1> DEFINE n == Len(s)
             r == [s EXCEPT ![n] = x]
  <1>1. n \in Nat \ {0} /\ n \in 1 .. n
    BY EmptySeq
  <1>2. /\ r \in Seq(HandlerFrames) /\ Len(r) = Len(s)
        /\ \A j \in 1 .. Len(s) : r[j] = IF j = n THEN x ELSE s[j]
    BY <1>1, ExceptSeq
  <1> HIDE DEF r
  <1>3. /\ \A i \in 1 .. n : r[i].irq = s[i].irq
        /\ \A i \in 1 .. n : i # n => r[i] = s[i]
        /\ r[n] = x
    BY <1>1, <1>2
  <1>4. QED
    BY <1>2, <1>3 DEF r

----------------------------------------------------------------------------
\* The invariant

\* Power on: interrupts masked but for what the loader left, nothing pending.
LEMMA InitIInv == Init => IInv
  <1> SUFFICES ASSUME Init PROVE IInv
    OBVIOUS
  <1>0. \A f \in Flows : handlers[f] = << >> /\ Len(handlers[f]) = 0
    BY DEF Init
  <1>1. TypeOK
    BY InterruptsAssumption
       DEF Init, TypeOK, BootPoints, Flows, Terminals, Lines, Irqs
  <1>2. BootOrder
    BY DEF Init, BootOrder, Done, Images
  <1>3. OpenWhenReady
    BY DEF Init, OpenWhenReady
  <1>4. NoEarlyHandler /\ OneFrameEach
    BY <1>0 DEF NoEarlyHandler, OneFrameEach
  <1>5. LinesServed
    BY <1>0 DEF LinesServed, Served, Init
  <1>6. QED
    BY <1>1, <1>2, <1>3, <1>4, <1>5 DEF IInv

\* Steps that leave the stacks and the lines in service alone.
LEMMA StacksKeep ==
    ASSUME OneFrameEach, LinesServed, handlers' = handlers, isr' = isr
    PROVE  OneFrameEach' /\ LinesServed'
  BY DEF OneFrameEach, LinesServed, Served

\* entry() goes on to its next step.
LEMMA BootKeepsIInv == ASSUME IInv, BootStep PROVE IInv'
  <1> USE DEF BootStart, BootRefused, BootPrint, BootDescriptors, i8259_icw,
              i8259_mask, i8259_cascade, idt_init, keyboard_init,
              rtc_enable_pie, rtc_irq, page_initialize, BootClear,
              create_terminal_shells, pit_init, Enters
  <1>0. /\ UNCHANGED <<running, active_terminal, handlers>>
        /\ boot \notin Halted /\ ready \ Images = Done[boot]
    BY DEF BootStep, cpu, IInv, BootOrder, Halted
  <1>1. BootOrder' /\ boot' \in BootPoints
    <2>1. boot' \in BootPoints \ Halted
      BY DEF BootPoints, Unmasked, BootStep, Halted
    <2>2. ready' \ Images = Done[boot']
      BY <1>0 DEF Done, Early, Middle, BootStep, Images
    <2>3. boot' \in {"pit", "hlt"} /\ "filesystem" \in ready' => "shells" \in ready'
      BY DEF IInv, BootOrder, BootStep
    <2>4. "rtc" \in ready' => "pic" \in ready'
      BY <2>1, <2>2 DEF Done, Early, Middle, BootPoints, Unmasked, Images, Halted
    <2>5. QED
      BY <2>1, <2>2, <2>3, <2>4 DEF BootOrder
  <1>2. /\ ready \subseteq ready'
        /\ boot # "print" => ("filesystem" \in ready' <=> "filesystem" \in ready)
    BY DEF BootStep
  <1>3. isr' \in {isr, {}}
    BY DEF BootStep, enable_irq, pic
  <1>4. TypeOK'
    BY <1>0, <1>1, <1>3 DEF IInv, TypeOK
  <1>5. NoEarlyHandler'
    BY <1>0, <1>2 DEF IInv, NoEarlyHandler
  <1>6. OneFrameEach' /\ LinesServed'
    <2>1. CASE isr' = isr
      BY <2>1, <1>0, StacksKeep DEF IInv
    <2>2. CASE isr' # isr
      <3>1. boot = "icw" /\ isr' = {}
        BY <2>2 DEF BootStep, enable_irq, pic
      <3>2. \A f \in Flows : handlers[f] = << >> /\ Len(handlers[f]) = 0
        BY <3>1, <1>0 DEF IInv, NoEarlyHandler, Done, Early, Images
      <3>3. QED
        BY <1>0, <3>1, <3>2 DEF OneFrameEach, LinesServed, Served
    <2>3. QED
      BY <2>1, <2>2
  <1>7. OpenWhenReady'
    <2>1. CASE boot \in {"start", "print", "descriptors", "icw"}
      <3>1. irr' = {} /\ "pic" \notin ready'
        BY <2>1, <1>0 DEF IInv, OpenWhenReady, BootStep, Done, Early, pic, Images
      <3>2. QED
        BY <3>1 DEF OpenWhenReady
    <2>2. CASE boot = "mask"
      <3>1. imr' = Lines /\ irr' = irr /\ ready' = ready \cup {"pic"}
        BY <2>2 DEF BootStep
      <3>2. QED
        BY <3>1 DEF OpenWhenReady, Lines
    <2>3. CASE boot \in {"cascade", "idt", "keyboard", "rtc_pie", "rtc_irq", "paging",
                         "clear", "shells", "pit"}
      <3>1. "pic" \in ready /\ "pic" \in ready'
        BY <2>3, <1>0, <1>2 DEF Done, Middle, Images
      <3>0. ASSUME NEW irq \in Irqs PROVE Needs(irq)' = Needs(irq)
        BY <2>3, <1>2 DEF Needs
      <3>2. ASSUME NEW irq \in Irqs \ imr'
            PROVE  (Needs(irq) \cup {"idt"})' \subseteq ready'
        <4>1. CASE irq \notin imr
          BY <4>1, <1>2, <3>0, <3>1 DEF IInv, OpenWhenReady
        <4>2. CASE irq \in imr
          <5>1. \/ boot = "cascade" /\ irq = CASCADE
                \/ boot = "keyboard" /\ irq = KBD
                \/ boot = "rtc_irq" /\ irq = RTC
                \/ boot = "pit" /\ irq = PIT
            BY <2>3, <4>2 DEF BootStep, enable_irq, pic
          <5>2. irq # CASCADE
            BY DEF Irqs, PIT, KBD, RTC, CASCADE
          <5>3. Needs(irq) \cup {"idt"} \subseteq ready'
            <6>1. CASE boot = "keyboard"
              <7>1. Done["keyboard"] \cup {"terminals"} \subseteq ready'
                BY <6>1, <1>0 DEF BootStep
              <7>2. Needs(irq) = {"terminals"}
                BY <6>1, <5>1 DEF Needs, KBD, PIT
              <7>3. QED
                BY <7>1, <7>2 DEF Done
            <6>2. CASE boot = "rtc_irq"
              <7>1. Needs(irq) = {"terminals"}
                BY <6>2, <5>1 DEF Needs, RTC, PIT
              <7>2. {"terminals", "idt"} \subseteq ready
                BY <6>2, <1>0 DEF Done, Middle, Images
              <7>3. QED
                BY <7>1, <7>2, <1>2
            <6>3. CASE boot = "pit"
              <7>1. Needs(irq) \ {"shells"} = {"tss", "terminals", "pages"}
                BY <6>3, <5>1 DEF Needs
              <7>2. {"tss", "terminals", "pages", "idt"} \subseteq ready
                BY <6>3, <1>0 DEF Done, Middle, Early, Images
              <7>3. "shells" \in Needs(irq) => "shells" \in ready
                BY <6>3, <5>1 DEF Needs, IInv, BootOrder
              <7>4. QED
                BY <7>1, <7>2, <7>3, <1>2
            <6>4. QED
              BY <5>1, <5>2, <6>1, <6>2, <6>3
          <5>4. QED
            BY <5>3, <3>0
        <4>3. QED
          BY <4>1, <4>2
      <3>3. QED
        BY <3>1, <3>2 DEF OpenWhenReady
    <2>4. QED
      BY <2>1, <2>2, <2>3 DEF BootStep
  <1>8. QED
    BY <1>1, <1>4, <1>5, <1>6, <1>7 DEF IInv

\* The devices raise requests, and no more.
LEMMA DeviceKeepsIInv ==
    ASSUME IInv, PitFires \/ KeyPressed \/ ClockFires
    PROVE  IInv'
  <1>1. /\ UNCHANGED <<boot, ready, imr, isr, running, active_terminal, handlers>>
        /\ "pic" \in ready
    BY DEF PitFires, KeyPressed, ClockFires, Raise, Programmed, cpu, IInv, BootOrder
  <1>2. TypeOK' /\ BootOrder' /\ NoEarlyHandler' /\ OpenWhenReady'
    BY <1>1 DEF IInv, TypeOK, BootOrder, NoEarlyHandler, OpenWhenReady, Needs
  <1>3. QED
    BY <1>1, <1>2, StacksKeep DEF IInv

\* The machine starts over, or stops in exception_handler.
LEMMA FaultKeepsIInv == ASSUME IInv, TripleFault \/ KeyFaults PROVE IInv'
  <1>1. /\ UNCHANGED <<ready, imr, irr, isr, running, active_terminal, handlers>>
        /\ boot' \in Halted
    BY DEF TripleFault, KeyFaults, pic, cpu, Halted
  <1>2. TypeOK' /\ BootOrder' /\ NoEarlyHandler' /\ OpenWhenReady'
    BY <1>1 DEF IInv, TypeOK, BootOrder, NoEarlyHandler, OpenWhenReady, BootPoints,
                Halted, Needs
  <1>3. QED
    BY <1>1, <1>2, StacksKeep DEF IInv

\* A tick changes flows and leaves all stacks as they are.
LEMMA TickKeepsIInv == ASSUME IInv, Tick PROVE IInv'
  <1>1. /\ UNCHANGED <<ready, imr, isr, handlers>>
        /\ irr' \subseteq irr
        /\ boot' \in {boot, "astray"}
    BY DEF Tick
  <1>2. active_terminal' \in Terminals /\ running' = active_terminal'
    BY InterruptsAssumption DEF Tick, NextTerminal, Terminals, IInv, TypeOK
  <1>3. TypeOK'
    BY <1>1, <1>2 DEF IInv, TypeOK, Flows, BootPoints
  <1>4. BootOrder' /\ NoEarlyHandler' /\ OpenWhenReady'
    BY <1>1 DEF IInv, BootOrder, NoEarlyHandler, OpenWhenReady, Halted, Needs
  <1>5. QED
    BY <1>1, <1>3, <1>4, StacksKeep DEF IInv

\* Frames of the same request are the same frame.
LEMMA SameFrame ==
    ASSUME OneFrameEach, NEW f \in Flows, NEW g \in Flows,
           NEW i \in 1 .. Len(handlers[f]), NEW j \in 1 .. Len(handlers[g]),
           handlers[f][i].irq = handlers[g][j].irq
    PROVE  f = g /\ i = j
  BY DEF OneFrameEach

\* A new handler on top of the running flow: all others stay where they are.
LEMMA PushKeeps ==
    ASSUME IInv, NEW irq \in {KBD, RTC}, ~Served(irq),
           Push(running, Frame(irq, "read"))
    PROVE  /\ handlers' \in [Flows -> Seq(HandlerFrames)]
           /\ OneFrameEach'
           /\ \A o \in {KBD, RTC} : Served(o)' <=> (o = irq \/ Served(o))
           /\ \E i \in 1 .. Len(handlers'[running]) :
                  handlers'[running][i] = Frame(irq, "read")
           /\ \A f \in Flows : \A i \in 1 .. Len(handlers[f]) :
                  i \in 1 .. Len(handlers'[f]) /\ handlers'[f][i] = handlers[f][i]
  <1> DEFINE s == handlers[running]
             x == Frame(irq, "read")
             n == Len(s) + 1
  <1>0. running \in Flows /\ s \in Seq(HandlerFrames) /\ Len(s) \in Nat
    BY LenProperties DEF IInv, TypeOK
  <1>1. x \in HandlerFrames /\ x.irq = irq
    BY DEF Frame, HandlerFrames
  <1>2. handlers' = [handlers EXCEPT ![running] = Append(s, x)]
    BY DEF Push
  <1> HIDE DEF x
  <1>3. handlers' \in [Flows -> Seq(HandlerFrames)]
    BY <1>0, <1>1, <1>2, PushStack DEF IInv, TypeOK
  <1>4. /\ handlers'[running] = Append(s, x) /\ Len(handlers'[running]) = n
        /\ handlers'[running][n] = x
    BY <1>0, <1>1, <1>2, PushStack DEF IInv, TypeOK
  <1>5. \A f \in Flows : f # running => handlers'[f] = handlers[f]
    BY <1>2 DEF IInv, TypeOK
  \* every frame is an old one or the new one
  <1>6. ASSUME NEW f \in Flows, NEW i \in 1 .. Len(handlers'[f])
        PROVE  \/ f = running /\ i = n /\ handlers'[f][i] = x
               \/ i \in 1 .. Len(handlers[f]) /\ handlers'[f][i] = handlers[f][i]
    <2>1. CASE f # running
      BY <2>1, <1>5
    <2>2. CASE f = running /\ i = n
      BY <2>2, <1>4
    <2>3. CASE f = running /\ i # n
      <3>1. i \in 1 .. Len(s)
        BY <2>3, <1>0, <1>4
      <3>2. QED
        BY <2>3, <3>1, <1>0, <1>1, <1>4, PushStack
    <2>4. QED
      BY <2>1, <2>2, <2>3
  <1>7. ASSUME NEW f \in Flows, NEW i \in 1 .. Len(handlers[f])
        PROVE  i \in 1 .. Len(handlers'[f]) /\ handlers'[f][i] = handlers[f][i]
    <2>1. CASE f # running
      BY <2>1, <1>5
    <2>2. CASE f = running
      <3>1. i \in 1 .. n
        BY <2>2, <1>0
      <3>2. QED
        BY <2>2, <3>1, <1>0, <1>1, <1>4, PushStack
    <2>3. QED
      BY <2>1, <2>2
  <1>8. \A f \in Flows : \A i \in 1 .. Len(handlers[f]) : handlers[f][i].irq # irq
    BY DEF Served
  <1>9. OneFrameEach'
    <2> SUFFICES ASSUME NEW f \in Flows, NEW g \in Flows,
                        NEW i \in 1 .. Len(handlers'[f]),
                        NEW j \in 1 .. Len(handlers'[g]),
                        handlers'[f][i].irq = handlers'[g][j].irq
                 PROVE  f = g /\ i = j
      BY DEF OneFrameEach
    <2>1. \/ f = running /\ i = n /\ handlers'[f][i] = x
          \/ i \in 1 .. Len(handlers[f]) /\ handlers'[f][i] = handlers[f][i]
      BY <1>6
    <2>2. \/ g = running /\ j = n /\ handlers'[g][j] = x
          \/ j \in 1 .. Len(handlers[g]) /\ handlers'[g][j] = handlers[g][j]
      BY <1>6
    <2>3. CASE f = running /\ i = n /\ handlers'[f][i] = x
      BY <2>2, <2>3, <1>1, <1>8
    <2>4. CASE g = running /\ j = n /\ handlers'[g][j] = x
      BY <2>1, <2>4, <1>1, <1>8
    <2>5. CASE /\ i \in 1 .. Len(handlers[f]) /\ handlers'[f][i] = handlers[f][i]
               /\ j \in 1 .. Len(handlers[g]) /\ handlers'[g][j] = handlers[g][j]
      BY <2>5, SameFrame DEF IInv
    <2>6. QED
      BY <2>1, <2>2, <2>3, <2>4, <2>5
  <1>10. n \in 1 .. Len(handlers'[running])
    BY <1>0, <1>4
  <1>11. ASSUME NEW o \in {KBD, RTC} PROVE Served(o)' <=> (o = irq \/ Served(o))
    <2>1. Served(o)' => (o = irq \/ Served(o))
      BY <1>1, <1>6, Zenon DEF Served
    <2>2. Served(o) => Served(o)'
      BY <1>7, Zenon DEF Served
    <2>3. o = irq => Served(o)'
      <3>1. handlers'[running][n].irq = irq
        BY <1>1, <1>4
      <3> HIDE DEF n
      <3>2. QED
        BY <1>0, <3>1, <1>10, Zenon DEF Served
    <2>4. QED
      BY <2>1, <2>2, <2>3
  <1>12. QED
    BY <1>3, <1>4, <1>7, <1>9, <1>10, <1>11 DEF x

\* The innermost handler of the running flow goes on: every frame keeps its
\* place and its request.
LEMMA MoveKeeps ==
    ASSUME IInv, HasHandler(running),
           NEW pc \in {"read", "eoi", "eoi_slave", "eoi_master"}, Move(running, pc)
    PROVE  /\ handlers' \in [Flows -> Seq(HandlerFrames)]
           /\ OneFrameEach'
           /\ \A o \in {KBD, RTC} : Served(o)' <=> Served(o)
           /\ \A f \in Flows : Len(handlers'[f]) = Len(handlers[f])
           /\ \A f \in Flows : \A i \in 1 .. Len(handlers[f]) :
                  /\ handlers'[f][i].irq = handlers[f][i].irq
                  /\ f # running \/ i # Len(handlers[f]) =>
                         handlers'[f][i] = handlers[f][i]
           /\ handlers'[running][Len(handlers[running])].pc = pc
  <1> DEFINE s == handlers[running]
             x == [s[Len(s)] EXCEPT !.pc = pc]
             r == [s EXCEPT ![Len(s)] = x]
  <1>0. running \in Flows /\ s \in Seq(HandlerFrames) /\ s # << >>
    BY DEF IInv, TypeOK, HasHandler
  <1>1. handlers' = [handlers EXCEPT ![running] = r]
    BY <1>0 DEF Move, IInv, TypeOK
  <1>2. /\ r \in Seq(HandlerFrames) /\ Len(r) = Len(s)
        /\ \A i \in 1 .. Len(s) : r[i].irq = s[i].irq
        /\ \A i \in 1 .. Len(s) : i # Len(s) => r[i] = s[i]
        /\ r[Len(s)].pc = pc
    <2>1. Len(s) \in 1 .. Len(s) /\ s[Len(s)] \in HandlerFrames
      <3>1. Len(s) \in Nat \ {0}
        BY <1>0, EmptySeq
      <3>2. QED
        BY <3>1, <1>0, ElementOfSeq
    <2>2. x \in HandlerFrames /\ x.irq = s[Len(s)].irq /\ x.pc = pc
      BY <2>1 DEF HandlerFrames
    <2> HIDE DEF s, x
    <2>3. QED
      BY <1>0, <2>2, MoveStack
  <1> HIDE DEF r
  <1>3. handlers' \in [Flows -> Seq(HandlerFrames)] /\ handlers'[running] = r
    BY <1>0, <1>1, <1>2 DEF IInv, TypeOK
  <1>4. \A f \in Flows : f # running => handlers'[f] = handlers[f]
    BY <1>1 DEF IInv, TypeOK
  <1>5. \A f \in Flows : Len(handlers'[f]) = Len(handlers[f])
    BY <1>2, <1>3, <1>4
  <1>6. \A f \in Flows : \A i \in 1 .. Len(handlers[f]) :
            /\ handlers'[f][i].irq = handlers[f][i].irq
            /\ f # running \/ i # Len(handlers[f]) => handlers'[f][i] = handlers[f][i]
    BY <1>2, <1>3, <1>4
  <1>7. OneFrameEach'
    BY <1>5, <1>6 DEF IInv, OneFrameEach
  <1>8. \A o \in {KBD, RTC} : Served(o)' <=> Served(o)
    BY <1>5, <1>6 DEF Served
  <1>9. QED
    BY <1>2, <1>3, <1>5, <1>6, <1>7, <1>8

\* The innermost handler of the running flow returns: its request has no
\* frame any more, and all others stay where they are.
LEMMA PopKeeps ==
    ASSUME IInv, HasHandler(running), Pop(running)
    PROVE  /\ handlers' \in [Flows -> Seq(HandlerFrames)]
           /\ OneFrameEach'
           /\ \A o \in {KBD, RTC} :
                  Served(o)' <=> (o # Top(running).irq /\ Served(o))
           /\ \A f \in Flows : \A i \in 1 .. Len(handlers[f]) :
                  f # running \/ i # Len(handlers[f]) =>
                      i \in 1 .. Len(handlers'[f]) /\ handlers'[f][i] = handlers[f][i]
  <1> DEFINE s == handlers[running]
             r == SubSeq(s, 1, Len(s) - 1)
  <1>0. running \in Flows /\ s \in Seq(HandlerFrames) /\ s # << >>
    BY DEF IInv, TypeOK, HasHandler
  <1>1. handlers' = [handlers EXCEPT ![running] = r]
    BY <1>0 DEF Pop, IInv, TypeOK
  <1>2. /\ Len(s) \in Nat \ {0} /\ r \in Seq(HandlerFrames) /\ Len(r) = Len(s) - 1
        /\ \A i \in 1 .. Len(s) - 1 : r[i] = s[i]
    BY <1>0, PopStack
  <1> HIDE DEF r
  <1>3. handlers' \in [Flows -> Seq(HandlerFrames)] /\ handlers'[running] = r
    BY <1>0, <1>1, <1>2 DEF IInv, TypeOK
  <1>4. \A f \in Flows : f # running => handlers'[f] = handlers[f]
    BY <1>1 DEF IInv, TypeOK
  <1>5. ASSUME NEW f \in Flows, NEW i \in 1 .. Len(handlers'[f])
        PROVE  /\ i \in 1 .. Len(handlers[f]) /\ handlers'[f][i] = handlers[f][i]
               /\ f # running \/ i # Len(handlers[f])
    BY <1>2, <1>3, <1>4
  <1>6. ASSUME NEW f \in Flows, NEW i \in 1 .. Len(handlers[f]),
               f # running \/ i # Len(handlers[f])
        PROVE  i \in 1 .. Len(handlers'[f]) /\ handlers'[f][i] = handlers[f][i]
    <2>1. CASE f # running
      BY <2>1, <1>4
    <2>2. CASE f = running
      <3>1. i \in 1 .. Len(s) - 1
        BY <2>2, <1>2, <1>6
      <3>2. QED
        BY <2>2, <3>1, <1>2, <1>3
    <2>3. QED
      BY <2>1, <2>2
  <1>7. OneFrameEach'
    <2> SUFFICES ASSUME NEW f \in Flows, NEW g \in Flows,
                        NEW i \in 1 .. Len(handlers'[f]),
                        NEW j \in 1 .. Len(handlers'[g]),
                        handlers'[f][i].irq = handlers'[g][j].irq
                 PROVE  f = g /\ i = j
      BY DEF OneFrameEach
    <2>1. /\ i \in 1 .. Len(handlers[f]) /\ handlers'[f][i] = handlers[f][i]
          /\ j \in 1 .. Len(handlers[g]) /\ handlers'[g][j] = handlers[g][j]
      BY <1>5
    <2>2. QED
      BY <2>1, SameFrame DEF IInv
  <1>8. Len(s) \in 1 .. Len(s) /\ Top(running) = s[Len(s)]
    BY <1>2 DEF Top
  <1>9. ASSUME NEW o \in {KBD, RTC}
        PROVE  Served(o)' <=> (o # Top(running).irq /\ Served(o))
    <2>1. ASSUME Served(o)' PROVE o # Top(running).irq /\ Served(o)
      <3>1. PICK f \in Flows : \E i \in 1 .. Len(handlers'[f]) : handlers'[f][i].irq = o
        BY <2>1 DEF Served
      <3>2. PICK i \in 1 .. Len(handlers'[f]) : handlers'[f][i].irq = o
        BY <3>1
      <3>3. /\ i \in 1 .. Len(handlers[f]) /\ handlers[f][i].irq = o
            /\ f # running \/ i # Len(handlers[f])
        BY <3>2, <1>5
      <3>4. o # Top(running).irq
        BY <3>3, <1>0, <1>8 DEF IInv, OneFrameEach
      <3>5. QED
        BY <3>3, <3>4 DEF Served
    <2>2. ASSUME o # Top(running).irq, Served(o) PROVE Served(o)'
      <3>1. PICK f \in Flows : \E i \in 1 .. Len(handlers[f]) : handlers[f][i].irq = o
        BY <2>2 DEF Served
      <3>2. PICK i \in 1 .. Len(handlers[f]) : handlers[f][i].irq = o
        BY <3>1
      <3>3. f # running \/ i # Len(handlers[f])
        BY <2>2, <3>2, <1>8
      <3>4. i \in 1 .. Len(handlers'[f]) /\ handlers'[f][i].irq = o
        BY <3>2, <3>3, <1>6
      <3>5. QED
        BY <3>4 DEF Served
    <2>3. QED
      BY <2>1, <2>2
  <1>10. QED
    BY <1>3, <1>6, <1>7, <1>9

\* The parts of the invariant about entry() and pending requests, when a
\* handler takes a step.
LEMMA HandlerStep ==
    ASSUME IInv, UNCHANGED <<boot, ready, imr, running, active_terminal>>,
           irr' \subseteq irr, isr' \subseteq Lines \ {PIT}, "idt" \in ready,
           handlers' \in [Flows -> Seq(HandlerFrames)], OneFrameEach', LinesServed'
    PROVE  IInv'
  BY DEF IInv, TypeOK, BootOrder, OpenWhenReady, NoEarlyHandler, Needs

\* A handler on a stack means that the gates are loaded.
LEMMA HandlerHasGates == ASSUME IInv, HasHandler(running) PROVE "idt" \in ready
  BY DEF IInv, TypeOK, NoEarlyHandler, HasHandler

\* keyboard_handler is entered: no other one is unfinished.
LEMMA KeyEnterKeepsIInv == ASSUME IInv, KeyEnter PROVE IInv'
  <1>0. KBD \notin isr
    BY DEF KeyEnter, Accept, Deliverable
  <1>1. ~Served(KBD)
    BY <1>0 DEF IInv, LinesServed
  <1>2. /\ handlers' \in [Flows -> Seq(HandlerFrames)] /\ OneFrameEach'
        /\ \A o \in {KBD, RTC} : Served(o)' <=> (o = KBD \/ Served(o))
        /\ \A f \in Flows : \A i \in 1 .. Len(handlers[f]) :
               i \in 1 .. Len(handlers'[f]) /\ handlers'[f][i] = handlers[f][i]
    BY <1>1, PushKeeps DEF KeyEnter
  <1>3. isr' = isr \cup {KBD} /\ KBD # RTC /\ KBD # CASCADE
    BY DEF KeyEnter, KBD, RTC, CASCADE
  <1>4. LinesServed'
    <2>1. (KBD \in isr)' <=> Served(KBD)'
      BY <1>2, <1>3
    <2>2. (CASCADE \in isr)' <=> Served(RTC)'
      BY <1>2, <1>3 DEF IInv, LinesServed
    <2>3. ASSUME RTC \in isr'
          PROVE  \E f \in Flows : \E i \in 1 .. Len(handlers'[f]) :
                     /\ handlers'[f][i].irq = RTC
                     /\ handlers'[f][i].pc # "eoi_master"
      <3>1. RTC \in isr
        BY <2>3, <1>3
      <3>2. PICK f \in Flows : \E i \in 1 .. Len(handlers[f]) :
                     handlers[f][i].irq = RTC /\ handlers[f][i].pc # "eoi_master"
        BY <3>1 DEF IInv, LinesServed
      <3>3. PICK i \in 1 .. Len(handlers[f]) :
                     handlers[f][i].irq = RTC /\ handlers[f][i].pc # "eoi_master"
        BY <3>2
      <3>4. i \in 1 .. Len(handlers'[f]) /\ handlers'[f][i] = handlers[f][i]
        BY <1>2
      <3>5. QED
        BY <3>3, <3>4
    <2>4. QED
      BY <2>1, <2>2, <2>3 DEF LinesServed
  <1>5. QED
    BY <1>2, <1>3, <1>4, HandlerStep
       DEF KeyEnter, IInv, TypeOK, Lines, Irqs, KBD, PIT

\* rtc_handler is entered: line 2 of the master is free, so no other one is
\* unfinished, not even one between its two EOIs.
LEMMA RtcEnterKeepsIInv == ASSUME IInv, RtcEnter PROVE IInv'
  <1>0. CASCADE \notin isr
    BY DEF RtcEnter, Accept, Deliverable, Level, RTC, CASCADE
  <1>1. ~Served(RTC)
    BY <1>0 DEF IInv, LinesServed
  <1>2. /\ handlers' \in [Flows -> Seq(HandlerFrames)] /\ OneFrameEach'
        /\ \A o \in {KBD, RTC} : Served(o)' <=> (o = RTC \/ Served(o))
        /\ \E i \in 1 .. Len(handlers'[running]) :
               handlers'[running][i] = Frame(RTC, "read")
    BY <1>1, PushKeeps DEF RtcEnter
  <1>3. isr' = isr \cup {RTC, CASCADE} /\ KBD # RTC /\ KBD # CASCADE
    BY DEF RtcEnter, KBD, RTC, CASCADE
  <1>4. LinesServed'
    <2>1. (KBD \in isr)' <=> Served(KBD)'
      BY <1>2, <1>3 DEF IInv, LinesServed
    <2>2. (CASCADE \in isr)' <=> Served(RTC)'
      BY <1>2, <1>3
    <2>3. \E f \in Flows : \E i \in 1 .. Len(handlers'[f]) :
              handlers'[f][i].irq = RTC /\ handlers'[f][i].pc # "eoi_master"
      BY <1>2 DEF Frame, IInv, TypeOK
    <2>4. QED
      BY <2>1, <2>2, <2>3 DEF LinesServed
  <1>5. QED
    BY <1>2, <1>3, <1>4, HandlerStep
       DEF RtcEnter, IInv, TypeOK, Lines, Irqs, CASCADE, RTC, PIT

\* A handler reads its device, or the slave gets its EOI: the line on the
\* master stays in service.
LEMMA MoveKeepsIInv ==
    ASSUME IInv, NEW irq \in {KBD, RTC}, NEW from, In(irq, from),
           NEW to \in {"eoi", "eoi_slave", "eoi_master"}, Move(running, to),
           UNCHANGED <<boot, ready, imr, irr, running, active_terminal>>,
           isr' \subseteq isr, isr \ {RTC} = isr' \ {RTC},
           to = "eoi_master" => RTC \notin isr'
    PROVE  IInv'
  <1>0. HasHandler(running) /\ KBD # RTC /\ CASCADE # RTC
    BY DEF In, KBD, RTC, CASCADE
  <1>1. /\ handlers' \in [Flows -> Seq(HandlerFrames)] /\ OneFrameEach'
        /\ \A o \in {KBD, RTC} : Served(o)' <=> Served(o)
        /\ \A f \in Flows : Len(handlers'[f]) = Len(handlers[f])
        /\ \A f \in Flows : \A i \in 1 .. Len(handlers[f]) :
               /\ handlers'[f][i].irq = handlers[f][i].irq
               /\ f # running \/ i # Len(handlers[f]) => handlers'[f][i] = handlers[f][i]
        /\ handlers'[running][Len(handlers[running])].pc = to
    BY <1>0, MoveKeeps
  <1>2. LinesServed'
    <2>1. ((KBD \in isr)' <=> Served(KBD)') /\ ((CASCADE \in isr)' <=> Served(RTC)')
      BY <1>0, <1>1 DEF IInv, LinesServed
    <2>2. ASSUME RTC \in isr'
          PROVE  \E f \in Flows : \E i \in 1 .. Len(handlers'[f]) :
                     /\ handlers'[f][i].irq = RTC
                     /\ handlers'[f][i].pc # "eoi_master"
      <3>1. RTC \in isr /\ to # "eoi_master"
        BY <2>2
      <3>2. PICK f \in Flows : \E i \in 1 .. Len(handlers[f]) :
                     handlers[f][i].irq = RTC /\ handlers[f][i].pc # "eoi_master"
        BY <3>1 DEF IInv, LinesServed
      <3>3. PICK i \in 1 .. Len(handlers[f]) :
                     handlers[f][i].irq = RTC /\ handlers[f][i].pc # "eoi_master"
        BY <3>2
      <3>4. i \in 1 .. Len(handlers'[f]) /\ handlers'[f][i].irq = RTC
        BY <1>1, <3>3
      <3>5. handlers'[f][i].pc # "eoi_master"
        BY <1>1, <3>1, <3>3
      <3>6. QED
        BY <3>4, <3>5
    <2>3. QED
      BY <2>1, <2>2 DEF LinesServed
  <1>3. QED
    BY <1>0, <1>1, <1>2, HandlerStep, HandlerHasGates DEF IInv, TypeOK

LEMMA KeyReadKeepsIInv == ASSUME IInv, KeyRead PROVE IInv'
  <1>1. /\ In(KBD, "read") /\ Move(running, "eoi") /\ KBD \in {KBD, RTC}
        /\ UNCHANGED <<boot, ready, imr, irr, isr, running, active_terminal>>
    BY DEF KeyRead, pic
  <1>2. QED
    BY <1>1, MoveKeepsIInv

LEMMA RtcReadKeepsIInv == ASSUME IInv, RtcRead PROVE IInv'
  <1>1. /\ In(RTC, "read") /\ Move(running, "eoi_slave") /\ RTC \in {KBD, RTC}
        /\ UNCHANGED <<boot, ready, imr, irr, isr, running, active_terminal>>
    BY DEF RtcRead, pic
  <1>2. QED
    BY <1>1, MoveKeepsIInv

LEMMA RtcEoiSlaveKeepsIInv == ASSUME IInv, RtcEoiSlave PROVE IInv'
  <1>1. /\ In(RTC, "eoi_slave") /\ Move(running, "eoi_master") /\ RTC \in {KBD, RTC}
        /\ isr' = isr \ {RTC}
        /\ UNCHANGED <<boot, ready, imr, irr, running, active_terminal>>
    BY DEF RtcEoiSlave, send_eoi
  <1>2. QED
    BY <1>1, MoveKeepsIInv

\* keyboard_handler ends its own line, whichever flow it finds itself on.
LEMMA KeyEoiKeepsIInv == ASSUME IInv, KeyEoi PROVE IInv'
  <1>0. /\ HasHandler(running) /\ Top(running) = Frame(KBD, "eoi")
        /\ Top(running).irq = KBD /\ KBD # RTC /\ KBD # CASCADE
        /\ isr' = isr \ {KBD}
    BY DEF KeyEoi, In, KBD, RTC, CASCADE, Frame, send_eoi
  <1>1. /\ handlers' \in [Flows -> Seq(HandlerFrames)] /\ OneFrameEach'
        /\ \A o \in {KBD, RTC} : Served(o)' <=> (o # KBD /\ Served(o))
        /\ \A f \in Flows : \A i \in 1 .. Len(handlers[f]) :
               f # running \/ i # Len(handlers[f]) =>
                   i \in 1 .. Len(handlers'[f]) /\ handlers'[f][i] = handlers[f][i]
    BY <1>0, PopKeeps DEF KeyEoi
  <1>2. LinesServed'
    <2>1. ((KBD \in isr)' <=> Served(KBD)') /\ ((CASCADE \in isr)' <=> Served(RTC)')
      BY <1>0, <1>1 DEF IInv, LinesServed
    <2>2. ASSUME RTC \in isr'
          PROVE  \E f \in Flows : \E i \in 1 .. Len(handlers'[f]) :
                     /\ handlers'[f][i].irq = RTC
                     /\ handlers'[f][i].pc # "eoi_master"
      <3>1. RTC \in isr
        BY <2>2, <1>0
      <3>2. PICK f \in Flows : \E i \in 1 .. Len(handlers[f]) :
                     handlers[f][i].irq = RTC /\ handlers[f][i].pc # "eoi_master"
        BY <3>1 DEF IInv, LinesServed
      <3>3. PICK i \in 1 .. Len(handlers[f]) :
                     handlers[f][i].irq = RTC /\ handlers[f][i].pc # "eoi_master"
        BY <3>2
      <3>4. f # running \/ i # Len(handlers[f])
        BY <1>0, <3>3 DEF Top
      <3>5. i \in 1 .. Len(handlers'[f]) /\ handlers'[f][i] = handlers[f][i]
        BY <1>1, <3>4
      <3>6. QED
        BY <3>3, <3>5
    <2>3. QED
      BY <2>1, <2>2 DEF LinesServed
  <1>3. QED
    BY <1>0, <1>1, <1>2, HandlerStep, HandlerHasGates
       DEF IInv, TypeOK, KeyEoi, send_eoi

\* rtc_handler ends line 2 of the master; the slave had its EOI before.
LEMMA RtcEoiMasterKeepsIInv == ASSUME IInv, RtcEoiMaster PROVE IInv'
  <1>0. /\ HasHandler(running) /\ Top(running) = Frame(RTC, "eoi_master")
        /\ Top(running).irq = RTC /\ Top(running).pc = "eoi_master"
        /\ KBD # RTC /\ KBD # CASCADE
        /\ isr' = isr \ {CASCADE}
    BY DEF RtcEoiMaster, In, KBD, RTC, CASCADE, Frame, send_eoi
  <1>1. /\ handlers' \in [Flows -> Seq(HandlerFrames)] /\ OneFrameEach'
        /\ \A o \in {KBD, RTC} : Served(o)' <=> (o # RTC /\ Served(o))
    BY <1>0, PopKeeps DEF RtcEoiMaster
  <1>2. RTC \notin isr
    <2> SUFFICES ASSUME RTC \in isr PROVE FALSE
      OBVIOUS
    <2>1. PICK f \in Flows : \E i \in 1 .. Len(handlers[f]) :
                   handlers[f][i].irq = RTC /\ handlers[f][i].pc # "eoi_master"
      BY DEF IInv, LinesServed
    <2>2. PICK i \in 1 .. Len(handlers[f]) :
                   handlers[f][i].irq = RTC /\ handlers[f][i].pc # "eoi_master"
      BY <2>1
    <2>3. running \in Flows /\ Len(handlers[running]) \in 1 .. Len(handlers[running])
      <3>1. Len(handlers[running]) \in Nat \ {0}
        BY <1>0, EmptySeq DEF IInv, TypeOK, HasHandler
      <3>2. QED
        BY <3>1 DEF IInv, TypeOK
    <2>4. f = running /\ i = Len(handlers[running])
      BY <1>0, <2>2, <2>3, SameFrame DEF IInv, Top
    <2>5. QED
      BY <1>0, <2>2, <2>4 DEF Top
  <1>3. LinesServed'
    BY <1>0, <1>1, <1>2 DEF IInv, LinesServed
  <1>4. QED
    BY <1>0, <1>1, <1>3, HandlerStep, HandlerHasGates
       DEF IInv, TypeOK, RtcEoiMaster, send_eoi

\* Every step keeps the invariant.
LEMMA NextKeepsIInv == IInv /\ [Next]_vars => IInv'
  <1> SUFFICES ASSUME IInv, [Next]_vars PROVE IInv'
    OBVIOUS
  <1>1. CASE UNCHANGED vars
    BY <1>1, StacksKeep DEF vars, pic, cpu, IInv, TypeOK, BootOrder, OpenWhenReady,
                            NoEarlyHandler, Needs
  <1>2. CASE Next
    BY <1>2, BootKeepsIInv, DeviceKeepsIInv, FaultKeepsIInv, TickKeepsIInv,
       KeyEnterKeepsIInv, RtcEnterKeepsIInv, KeyReadKeepsIInv, RtcReadKeepsIInv,
       RtcEoiSlaveKeepsIInv, KeyEoiKeepsIInv, RtcEoiMasterKeepsIInv
       DEF Next, KeyStep, RtcStep
  <1>3. QED
    BY <1>1, <1>2

----------------------------------------------------------------------------
\* The theorems

\* No stack holds more than two handlers: a third would be the second of its
\* request.
LEMMA TwoAtMost == ASSUME IInv, NEW f \in Flows PROVE Len(handlers[f]) \in 0 .. 2
  <1>1. handlers[f] \in Seq(HandlerFrames) /\ Len(handlers[f]) \in Nat
    BY LenProperties DEF IInv, TypeOK
  <1>2. \A i \in 1 .. Len(handlers[f]) : handlers[f][i].irq \in {KBD, RTC}
    <2>1. \A i \in 1 .. Len(handlers[f]) : handlers[f][i] \in HandlerFrames
      BY <1>1, ElementOfSeq
    <2>2. \A x \in HandlerFrames : x.irq \in {KBD, RTC}
      BY DEF HandlerFrames
    <2>3. QED
      BY <2>1, <2>2
  <1>3. ASSUME Len(handlers[f]) > 2 PROVE FALSE
    <2>1. {1, 2, 3} \subseteq 1 .. Len(handlers[f])
      BY <1>1, <1>3
    <2>2. /\ handlers[f][1].irq # handlers[f][2].irq
          /\ handlers[f][1].irq # handlers[f][3].irq
          /\ handlers[f][2].irq # handlers[f][3].irq
      BY <2>1, SameFrame DEF IInv
    <2>3. QED
      BY <1>2, <2>1, <2>2
  <1>4. \A n \in Nat : ~(n > 2) => n \in 0 .. 2
    OBVIOUS
  <1>5. QED
    BY <1>1, <1>3, <1>4

\* The frames of a request: none, or exactly one.
LEMMA FramesOfRequest ==
    ASSUME IInv, NEW irq \in {KBD, RTC}
    PROVE  /\ Frames(irq) # {} <=> Served(irq)
           /\ Cardinality(Frames(irq)) <= 1
  <1>1. \A fi \in Flows \X (1 .. 2) :
            fi \in Frames(irq) <=> /\ fi[2] \in 1 .. Len(handlers[fi[1]])
                                   /\ handlers[fi[1]][fi[2]].irq = irq
    <2> SUFFICES ASSUME NEW fi \in Flows \X (1 .. 2)
                 PROVE  fi[2] <= Len(handlers[fi[1]])
                            <=> fi[2] \in 1 .. Len(handlers[fi[1]])
      BY DEF Frames
    <2>1. Len(handlers[fi[1]]) \in 0 .. 2
      BY TwoAtMost
    <2>2. QED
      BY <2>1
  <1>2. Frames(irq) # {} <=> Served(irq)
    <2>1. ASSUME NEW fi \in Frames(irq) PROVE Served(irq)
      BY <1>1 DEF Frames, Served
    <2>2. ASSUME NEW f \in Flows, NEW i \in 1 .. Len(handlers[f]),
                 handlers[f][i].irq = irq
          PROVE  Frames(irq) # {}
      <3>1. i \in 1 .. 2
        <4>1. Len(handlers[f]) \in 0 .. 2
          BY TwoAtMost
        <4>2. \A n \in 0 .. 2 : \A j \in 1 .. n : j \in 1 .. 2
          OBVIOUS
        <4>3. QED
          BY <4>1, <4>2, Zenon
      <3>2. <<f, i>> \in Frames(irq)
        BY <3>1, <2>2, <1>1
      <3>3. QED
        BY <3>2
    <2>3. QED
      BY <2>1, <2>2 DEF Served
  <1>3. ASSUME NEW a \in Frames(irq), NEW b \in Frames(irq) PROVE a = b
    <2>1. a \in Flows \X (1 .. 2) /\ b \in Flows \X (1 .. 2)
      BY DEF Frames
    <2>2. a[1] = b[1] /\ a[2] = b[2]
      BY <2>1, <1>1, SameFrame DEF IInv
    <2>3. QED
      BY <2>1, <2>2
  <1>4. Frames(irq) = {} \/ \E a : Frames(irq) = {a}
    BY <1>3
  <1>5. QED
    BY <1>2, <1>4, FS_EmptySet, FS_Singleton

\* However ticks, keys and clock interrupts interleave, on whatever flows, a
\* line in service has one unfinished handler and the EOIs of keyboard_handler
\* and rtc_handler end their own lines only.
THEOREM InServiceHandled == Spec => []InServiceHasHandler
  <1>1. IInv => InServiceHasHandler
    <2> SUFFICES ASSUME IInv PROVE InServiceHasHandler
      OBVIOUS
    <2>1. RTC \in isr => Served(RTC)
      BY DEF IInv, LinesServed, Served
    <2>2. PIT \notin isr
      BY DEF IInv, TypeOK
    <2>3. QED
      BY <2>1, <2>2, FramesOfRequest DEF InServiceHasHandler, IInv, LinesServed
  <1>2. QED
    BY <1>1, InitIInv, NextKeepsIInv, PTL DEF Spec

\* A request that can be delivered finds the gates and all it needs.
LEMMA DeliverableReady ==
    ASSUME IInv, NEW irq \in Irqs, Deliverable(irq)
    PROVE  Needs(irq) \cup {"idt"} \subseteq ready
  <1>1. irq \in irr /\ irq \notin imr
    BY DEF Deliverable
  <1>2. "pic" \in ready
    BY <1>1 DEF IInv, OpenWhenReady
  <1>3. QED
    BY <1>1, <1>2 DEF IInv, OpenWhenReady

\* The order of entry(): once i8259_init has masked the controller, interrupts
\* find gates, and the terminals initialised; the timer's finds the TSS, the
\* pages and, when there is a file system, the shells, although interrupts have
\* been on since the first clear().
THEOREM InterruptsServedWhenReady == Spec => ServedWhenReady
  <1>1. IInv /\ [Next]_vars =>
            [/\ TripleFault => ~Programmed
             /\ \A irq \in Irqs : Accept(irq) /\ irq \notin irr' =>
                    Needs(irq) \subseteq ready]_vars
    <2> SUFFICES ASSUME IInv
                 PROVE  /\ TripleFault => ~Programmed
                        /\ \A irq \in Irqs : Accept(irq) => Needs(irq) \subseteq ready
      OBVIOUS
    <2>1. \A irq \in Irqs : Accept(irq) => Needs(irq) \cup {"idt"} \subseteq ready
      BY DeliverableReady DEF Accept
    <2>2. TripleFault => ~Programmed
      <3> SUFFICES ASSUME TripleFault PROVE "pic" \notin ready
        BY DEF Programmed
      <3>1. "idt" \notin ready /\ boot \in Unmasked \cup {"stopped"}
        BY <2>1 DEF TripleFault
      <3>2. QED
        BY <3>1 DEF IInv, BootOrder, Done, Early, Unmasked, Images, Halted
    <2>3. QED
      BY <2>1, <2>2
  <1>2. QED
    BY <1>1, InitIInv, NextKeepsIInv, PTL DEF Spec, ServedWhenReady
----------------------------------------------------------------------------
(***************************************************************************)
(* Interrupts are transparent however deep they nest: at any instruction   *)
(* of interrupt, exception and system call linkages.                       *)
(*                                                                         *)
(* Counted from the bottom of the kernel stack, words and activations keep *)
(* their numbers while others come and go above them.  The invariant says  *)
(* where the words of each activation begin (base), how many there are at  *)
(* each of its steps, and, for interrupts, what they hold: the registers   *)
(* at its entry.  What a suspended activation has in its registers is what *)
(* the next one found at its own entry.                                    *)
(***************************************************************************)

Kinds == {"interrupt", "exception", "syscall"}
Steps == [interrupt |-> {"enter", "pushfl", "call", "popfl", "popal", "iret"},
          exception |-> {"enter", "call", "hlt"},
          syscall   |-> {"enter", "range", "popfl", "iret", "derailed"}]
AllSteps == Steps.interrupt \cup Steps.exception \cup Steps.syscall

Values == Registers \cup {"junk"} \cup Nat
Words == [kind : {"eip", "cs", "eflags", "reg", "vector"}, value : Values]
RegFiles == [Registers -> Values]
Activations == [kind : Kinds, at : AllSteps]

LTypeOK ==
    /\ regs \in RegFiles
    /\ stack \in Seq(Words)
    /\ active \in Seq(Activations)
    /\ entry \in Seq(RegFiles)
    /\ Len(entry) = Len(active)

\* The i-th element from the bottom.
FromBottom(s, i) == s[Len(s) + 1 - i]
Act(d) == FromBottom(active, d)
Ent(d) == FromBottom(entry, d)
WordAt(p) == FromBottom(stack, p)

\* How many words an activation has on the stack.
IntSize(at) == IF at \in {"enter", "iret"} THEN 3
               ELSE IF at \in {"pushfl", "popal"} THEN 10 ELSE 11
Sizes(a) == IF a.kind = "interrupt" THEN {IntSize(a.at)}
            ELSE IF a.at = "enter" THEN {3}
            ELSE IF a.kind = "exception" THEN {4}
            ELSE IF a.at \in {"range", "popfl"} THEN {9} ELSE {8, 9}

\* The registers activation d works with, or goes on with.
Current(d) == IF d = Len(active) THEN regs ELSE Ent(d + 1)

\* What an interrupt has on the stack, above n words.
HardwareWords(d, n) == /\ WordAt(n + 3) = Word("eip", d)
                       /\ WordAt(n + 2) = Word("cs", d)
                       /\ WordAt(n + 1).value = Ent(d)["flags"]
PushalWords(d, n) == \A j \in 1 .. 7 : WordAt(n + 3 + j).value = Ent(d)[PushAll[8 - j]]
FlagsWord(d, n) == WordAt(n + 11).value = Ent(d)["flags"]

InterruptOk(d, n) ==
    LET at == Act(d).at IN
    /\ HardwareWords(d, n)
    /\ at \in {"pushfl", "call", "popfl", "popal"} => PushalWords(d, n)
    /\ at \in {"call", "popfl"} => FlagsWord(d, n)
    /\ at \in {"enter", "pushfl", "call", "iret"} => Current(d) = Ent(d)
    /\ at = "popal" => Current(d)["flags"] = Ent(d)["flags"]

ActivationOk(d, n) ==
    /\ Act(d).at \in Steps[Act(d).kind]
    /\ Act(d).kind = "syscall" => d = 1
    /\ Act(d).at = "derailed" => d = Len(active)
    /\ Act(d).kind = "interrupt" => InterruptOk(d, n)

\* base[d] words lie under activation d.
Layout(base) ==
    /\ base \in [1 .. Len(active) + 1 -> Nat]
    /\ base[Len(active) + 1] = Len(stack)
    /\ \A d, e \in 1 .. Len(active) + 1 : d <= e => base[d] <= base[e]
    /\ \A d \in 1 .. Len(active) : /\ base[d + 1] - base[d] \in Sizes(Act(d))
                                   /\ ActivationOk(d, base[d])

LInv == LTypeOK /\ \E base : Layout(base)

----------------------------------------------------------------------------
\* Counting from the bottom

\* t is s with r put on top, and s with n elements taken off the top: what is
\* below keeps its number.
Pushed(S, s, r, t) ==
    /\ t \in Seq(S) /\ Len(t) = Len(s) + Len(r)
    /\ \A i \in 1 .. Len(s) : FromBottom(t, i) = FromBottom(s, i)
    /\ \A j \in 1 .. Len(r) : FromBottom(t, Len(s) + j) = r[Len(r) + 1 - j]
Popped(S, s, n, t) ==
    /\ t \in Seq(S) /\ Len(t) = Len(s) - n
    /\ \A i \in 1 .. Len(s) - n : FromBottom(t, i) = FromBottom(s, i)

LEMMA PushBottom ==
    ASSUME NEW S, NEW s \in Seq(S), NEW r \in Seq(S)
    PROVE  Pushed(S, s, r, r \o s)
  <1>1. Len(s) \in Nat /\ Len(r) \in Nat
    BY LenProperties
  <1>2. /\ r \o s \in Seq(S) /\ Len(r \o s) = Len(r) + Len(s)
        /\ \A i \in 1 .. Len(r) + Len(s) :
               (r \o s)[i] = IF i <= Len(r) THEN r[i] ELSE s[i - Len(r)]
    BY ConcatProperties
  <1>3. ASSUME NEW i \in 1 .. Len(s)
        PROVE  FromBottom(r \o s, i) = FromBottom(s, i)
    <2>1. /\ Len(r) + Len(s) + 1 - i \in 1 .. Len(r) + Len(s)
          /\ ~(Len(r) + Len(s) + 1 - i <= Len(r))
          /\ Len(r) + Len(s) + 1 - i - Len(r) = Len(s) + 1 - i
      BY <1>1
    <2>2. QED
      BY <1>2, <2>1 DEF FromBottom
  <1>4. ASSUME NEW j \in 1 .. Len(r)
        PROVE  FromBottom(r \o s, Len(s) + j) = r[Len(r) + 1 - j]
    <2>1. /\ Len(r) + Len(s) + 1 - (Len(s) + j) = Len(r) + 1 - j
          /\ Len(r) + 1 - j \in 1 .. Len(r) + Len(s)
          /\ Len(r) + 1 - j <= Len(r)
      BY <1>1
    <2>2. QED
      BY <1>2, <2>1 DEF FromBottom
  <1>5. QED
    BY <1>1, <1>2, <1>3, <1>4 DEF Pushed

LEMMA PopBottom ==
    ASSUME NEW S, NEW s \in Seq(S), NEW n \in 0 .. Len(s)
    PROVE  Popped(S, s, n, SubSeq(s, n + 1, Len(s)))
  <1> DEFINE m == n + 1
             l == Len(s)
  <1>1. m \in Nat /\ l \in Nat /\ n \in Nat /\ n <= l
    BY LenProperties
  <1>2. \A i \in m .. l : s[i] \in S
    BY <1>1, ElementOfSeq
  <1>3. /\ SubSeq(s, m, l) \in Seq(S)
        /\ Len(SubSeq(s, m, l)) = IF m <= l THEN l - m + 1 ELSE 0
        /\ \A i \in 1 .. l - m + 1 : SubSeq(s, m, l)[i] = s[m + i - 1]
    <2> HIDE DEF m, l
    <2>1. QED
      BY <1>1, <1>2, SubSeqProperties
  <1>4. Len(SubSeq(s, m, l)) = l - n
    BY <1>1, <1>3
  <1>5. ASSUME NEW i \in 1 .. l - n
        PROVE  FromBottom(SubSeq(s, m, l), i) = FromBottom(s, i)
    <2>1. l - n + 1 - i \in 1 .. l - m + 1 /\ m + (l - n + 1 - i) - 1 = l + 1 - i
      BY <1>1
    <2>2. QED
      BY <1>3, <1>4, <2>1 DEF FromBottom
  <1>6. QED
    BY <1>3, <1>4, <1>5 DEF Popped

\* The top of a sequence.
LEMMA TopIsLast ==
    ASSUME NEW S, NEW s \in Seq(S), Len(s) > 0
    PROVE  /\ s # << >> /\ Head(s) = FromBottom(s, Len(s)) /\ Head(s) \in S
           /\ s[1] = FromBottom(s, Len(s)) /\ Tail(s) = SubSeq(s, 2, Len(s))
  <1>1. Len(s) \in Nat /\ Len(s) + 1 - Len(s) = 1
    BY LenProperties
  <1>2. s # << >>
    BY EmptySeq
  <1>3. QED
    BY <1>1, <1>2, HeadTailProperties, TailIsSubSeq DEF FromBottom

----------------------------------------------------------------------------
\* Layouts

\* An activation whose words, entry and registers stay as they are.
LEMMA ActivationKept ==
    ASSUME NEW d \in Nat, NEW n \in Nat, NEW m \in Nat,
           ActivationOk(d, n), m - n \in Sizes(Act(d)), Act(d).at # "derailed",
           Act(d)' = Act(d), Ent(d)' = Ent(d), Current(d)' = Current(d),
           \A p \in 1 .. m : WordAt(p)' = WordAt(p)
    PROVE  ActivationOk(d, n)'
  <1>1. CASE Act(d).kind # "interrupt"
    BY <1>1 DEF ActivationOk
  <1>2. CASE Act(d).kind = "interrupt"
    <2> DEFINE at == Act(d).at
    <2>1. m = n + IntSize(at) /\ at \in Steps.interrupt
      BY <1>2 DEF Sizes, IntSize, ActivationOk, Steps
    <2>2. n + 3 <= m
      BY <2>1 DEF IntSize
    <2>3. HardwareWords(d, n)'
      <3>1. WordAt(n + 3)' = WordAt(n + 3) /\ WordAt(n + 2)' = WordAt(n + 2)
            /\ WordAt(n + 1)' = WordAt(n + 1)
        BY <2>2
      <3>2. QED
        BY <1>2, <3>1 DEF HardwareWords, ActivationOk, InterruptOk
    <2>4. at \in {"pushfl", "call", "popfl", "popal"} => PushalWords(d, n)'
      <3> SUFFICES ASSUME at \in {"pushfl", "call", "popfl", "popal"} PROVE PushalWords(d, n)'
        OBVIOUS
      <3>1. n + 10 <= m
        BY <2>1 DEF IntSize
      <3>2. \A j \in 1 .. 7 : WordAt(n + 3 + j)' = WordAt(n + 3 + j)
        BY <3>1
      <3>3. PushalWords(d, n)
        BY <1>2 DEF ActivationOk, InterruptOk
      <3>4. QED
        BY <3>2, <3>3 DEF PushalWords
    <2>5. at \in {"call", "popfl"} => FlagsWord(d, n)'
      <3> SUFFICES ASSUME at \in {"call", "popfl"} PROVE FlagsWord(d, n)'
        OBVIOUS
      <3>1. n + 11 <= m
        BY <2>1 DEF IntSize
      <3>2. WordAt(n + 11)' = WordAt(n + 11)
        BY <3>1
      <3>3. FlagsWord(d, n)
        BY <1>2 DEF ActivationOk, InterruptOk
      <3>4. QED
        BY <3>2, <3>3 DEF FlagsWord
    <2>6. InterruptOk(d, n)'
      BY <1>2, <2>3, <2>4, <2>5 DEF ActivationOk, InterruptOk
    <2>7. QED
      BY <1>2, <2>6 DEF ActivationOk
  <1>3. QED
    BY <1>1, <1>2

\* A step of the innermost activation, L, that stays active: what lies below
\* it is kept, and its own words are as its new step wants them.
LEMMA TopStep ==
    ASSUME NEW base, Layout(base), NEW L \in Nat \ {0}, Len(active) = L,
           Len(active') = L, UNCHANGED entry, LTypeOK',
           \A d \in 1 .. L - 1 : Act(d)' = Act(d),
           \A p \in 1 .. base[L] : WordAt(p)' = WordAt(p),
           Len(stack') - base[L] \in Sizes(Act(L)'), base[L] <= Len(stack'),
           ActivationOk(L, base[L])'
    PROVE  LInv'
  <1> PICK b : b = [base EXCEPT ![L + 1] = Len(stack')]
    OBVIOUS
  <1>0. Len(stack') \in Nat
    BY LenProperties DEF LTypeOK
  <1>1. /\ base \in [1 .. L + 1 -> Nat]
        /\ \A d, e \in 1 .. L + 1 : d <= e => base[d] <= base[e]
        /\ \A d \in 1 .. L : /\ base[d + 1] - base[d] \in Sizes(Act(d))
                             /\ ActivationOk(d, base[d])
    BY DEF Layout
  <1>2. /\ b \in [1 .. L + 1 -> Nat] /\ b[L + 1] = Len(stack')
        /\ \A d \in 1 .. L : b[d] = base[d]
    BY <1>0, <1>1
  <1>3. \A d, e \in 1 .. L + 1 : d <= e => b[d] <= b[e]
    <2> SUFFICES ASSUME NEW d \in 1 .. L + 1, NEW e \in 1 .. L + 1, d <= e
                 PROVE  b[d] <= b[e]
      OBVIOUS
    <2>1. CASE e \in 1 .. L
      <3>1. d \in 1 .. L
        BY <2>1
      <3>2. QED
        BY <2>1, <3>1, <1>1, <1>2
    <2>2. CASE e = L + 1 /\ d \in 1 .. L
      <3>1. base[d] <= base[L] /\ base[d] \in Nat /\ base[L] \in Nat
        BY <2>2, <1>1
      <3>2. QED
        BY <3>1, <2>2, <1>0, <1>2
    <2>3. CASE e = L + 1 /\ d = L + 1
      BY <2>3, <1>0, <1>2
    <2>4. QED
      BY <2>1, <2>2, <2>3
  <1>4. ASSUME NEW d \in 1 .. L
        PROVE  b[d + 1] - b[d] \in Sizes(Act(d)') /\ ActivationOk(d, b[d])'
    <2>1. CASE d = L
      <3>1. b[d + 1] = Len(stack') /\ b[d] = base[L]
        BY <2>1, <1>2
      <3>2. QED
        BY <2>1, <3>1
    <2>2. CASE d # L
      <3>1. d \in 1 .. L - 1 /\ d + 1 \in 1 .. L
        BY <2>2
      <3>2. b[d + 1] = base[d + 1] /\ b[d] = base[d] /\ base[d + 1] <= base[L]
            /\ base[d] \in Nat /\ base[d + 1] \in Nat /\ base[L] \in Nat
        BY <3>1, <1>1, <1>2
      <3>3. Ent(d)' = Ent(d) /\ Act(d)' = Act(d)
        BY <3>1 DEF Ent
      <3>4. Current(d)' = Current(d)
        BY <3>1, <2>2 DEF Current, Ent
      <3>5. \A p \in 1 .. base[d + 1] : WordAt(p)' = WordAt(p)
        BY <3>2
      <3>6. Act(d).at # "derailed"
        BY <1>1, <2>2 DEF ActivationOk
      <3>7. base[d + 1] - base[d] \in Sizes(Act(d)) /\ ActivationOk(d, base[d])
        BY <1>1
      <3>8. ActivationOk(d, base[d])'
        <4>1. d \in Nat
          OBVIOUS
        <4>2. PICK n \in Nat, m \in Nat : n = base[d] /\ m = base[d + 1]
          BY <3>2
        <4>3. m - n \in Sizes(Act(d)) /\ ActivationOk(d, n)
              /\ \A p \in 1 .. m : WordAt(p)' = WordAt(p)
          BY <3>5, <3>7, <4>2
        <4>4. ActivationOk(d, n)'
          BY <3>3, <3>4, <3>6, <4>1, <4>3, ActivationKept
        <4>5. QED
          BY <4>2, <4>4
      <3>9. QED
        BY <3>2, <3>3, <3>7, <3>8
    <2>3. QED
      BY <2>1, <2>2
  <1>5. Layout(b)'
    BY <1>2, <1>3, <1>4 DEF Layout
  <1>6. QED
    BY <1>5 DEF LInv

\* A new activation on top: the one below is suspended with the registers the
\* new one finds.
LEMMA VectorKeeps ==
    ASSUME LInv, NEW kind \in Kinds, ~Derailed, kind = "syscall" => Depth = 0,
           Vector(kind)
    PROVE  LInv'
  <1>L. PICK L : L = Len(active)
    OBVIOUS
  <1>b. PICK base : Layout(base)
    BY DEF LInv
  <1>0. L \in Nat /\ Len(stack) \in Nat /\ Depth = L /\ Len(active) = L /\ LTypeOK
    BY <1>L, LenProperties DEF LInv, LTypeOK, Depth
  <1>1. /\ base \in [1 .. L + 1 -> Nat] /\ base[L + 1] = Len(stack)
        /\ \A d, e \in 1 .. L + 1 : d <= e => base[d] <= base[e]
        /\ \A d \in 1 .. L : /\ base[d + 1] - base[d] \in Sizes(Act(d))
                             /\ ActivationOk(d, base[d])
    BY <1>L, <1>b DEF Layout
  <1>k. PICK hw, a, e0, N :
            /\ hw = <<Word("eip", L + 1), Word("cs", L + 1), Word("eflags", regs["flags"])>>
            /\ a = [kind |-> kind, at |-> "enter"]
            /\ e0 = regs /\ N = Len(stack)
    OBVIOUS
  <1>m. N \in Nat /\ N = Len(stack) /\ base[L + 1] = N
    BY <1>0, <1>1, <1>k
  <1>2. /\ hw \in Seq(Words) /\ Len(hw) = 3
        /\ hw[1] = Word("eip", L + 1) /\ hw[2] = Word("cs", L + 1)
        /\ hw[3].value = e0["flags"]
    <2>1. Word("eip", L + 1) \in Words /\ Word("cs", L + 1) \in Words
      BY <1>0, <1>m DEF Word, Words, Values
    <2>2. Word("eflags", regs["flags"]) \in Words
      BY <1>0, <1>m DEF Word, Words, LTypeOK, RegFiles, Registers
    <2>3. Word("eflags", regs["flags"]).value = regs["flags"]
      BY DEF Word
    <2>4. QED
      BY <1>k, <2>1, <2>2, <2>3
  <1>3. /\ <<a>> \in Seq(Activations) /\ Len(<<a>>) = 1 /\ <<a>>[1] = a
        /\ a.kind = kind /\ a.at = "enter"
    BY <1>k DEF Activations, AllSteps, Steps
  <1>4. <<e0>> \in Seq(RegFiles) /\ Len(<<e0>>) = 1 /\ <<e0>>[1] = e0
    BY <1>k, <1>0, <1>m DEF LTypeOK
  <1>5. stack' = hw \o stack /\ active' = <<a>> \o active /\ entry' = <<e0>> \o entry
        /\ regs' = regs
    BY <1>k, <1>0, <1>m DEF Vector
  <1>6. /\ stack' \in Seq(Words) /\ Len(stack') = N + 3
        /\ \A p \in 1 .. N : WordAt(p)' = WordAt(p)
        /\ WordAt(N + 3)' = hw[1] /\ WordAt(N + 2)' = hw[2]
        /\ WordAt(N + 1)' = hw[3]
    <2>1. Pushed(Words, stack, hw, stack')
      <3>1. stack \in Seq(Words) /\ Len(stack) = N
        BY <1>0, <1>m, <1>k DEF LTypeOK
      <3>2. QED
        BY <3>1, <1>2, <1>5, PushBottom
    <2>2. /\ stack' \in Seq(Words) /\ Len(stack') = N + 3
          /\ \A p \in 1 .. N : FromBottom(stack', p) = FromBottom(stack, p)
          /\ \A j \in 1 .. 3 : FromBottom(stack', N + j) = hw[3 + 1 - j]
      BY <1>m, <1>2, <2>1 DEF Pushed
    <2>3. QED
      BY <2>2 DEF WordAt
  <1>7. /\ active' \in Seq(Activations) /\ Len(active') = L + 1
        /\ \A d \in 1 .. L : Act(d)' = Act(d)
        /\ Act(L + 1)' = a
    <2>1. Pushed(Activations, active, <<a>>, active')
      <3>1. active \in Seq(Activations)
        BY <1>0 DEF LTypeOK
      <3>2. QED
        BY <3>1, <1>3, <1>5, PushBottom
    <2>2. /\ active' \in Seq(Activations) /\ Len(active') = L + 1
          /\ \A d \in 1 .. L : FromBottom(active', d) = FromBottom(active, d)
          /\ \A j \in 1 .. 1 : FromBottom(active', L + j) = <<a>>[1 + 1 - j]
      BY <1>0, <1>3, <2>1 DEF Pushed
    <2>3. QED
      BY <1>3, <2>2 DEF Act
  <1>8. /\ entry' \in Seq(RegFiles) /\ Len(entry') = L + 1
        /\ \A d \in 1 .. L : Ent(d)' = Ent(d)
        /\ Ent(L + 1)' = e0 /\ regs' = e0
    <2>1. Pushed(RegFiles, entry, <<e0>>, entry') /\ Len(entry) = L
      <3>1. entry \in Seq(RegFiles) /\ Len(entry) = L
        BY <1>0 DEF LTypeOK
      <3>2. QED
        BY <3>1, <1>4, <1>5, PushBottom
    <2>2. /\ entry' \in Seq(RegFiles) /\ Len(entry') = L + 1
          /\ \A d \in 1 .. L : FromBottom(entry', d) = FromBottom(entry, d)
          /\ \A j \in 1 .. 1 : FromBottom(entry', L + j) = <<e0>>[1 + 1 - j]
      BY <1>4, <2>1 DEF Pushed
    <2>3. QED
      BY <1>k, <1>4, <1>5, <2>2 DEF Ent
  <1>9. LTypeOK'
    BY <1>0, <1>m, <1>5, <1>6, <1>7, <1>8 DEF LTypeOK
  <1>n. PICK b : b = [d \in 1 .. L + 2 |-> IF d = L + 2 THEN N + 3 ELSE base[d]]
    OBVIOUS
  <1>10. /\ b \in [1 .. L + 2 -> Nat] /\ b[L + 2] = N + 3
         /\ \A d \in 1 .. L + 1 : b[d] = base[d]
    BY <1>n, <1>0, <1>m, <1>1
  <1>11. \A d, e \in 1 .. L + 2 : d <= e => b[d] <= b[e]
    <2> SUFFICES ASSUME NEW d \in 1 .. L + 2, NEW e \in 1 .. L + 2, d <= e
                 PROVE  b[d] <= b[e]
      OBVIOUS
    <2>1. CASE e \in 1 .. L + 1
      <3>1. d \in 1 .. L + 1
        BY <1>0, <1>m, <2>1
      <3>2. QED
        BY <2>1, <3>1, <1>1, <1>10
    <2>2. CASE e = L + 2 /\ d \in 1 .. L + 1
      <3>1. base[d] <= base[L + 1] /\ base[d] \in Nat
        BY <1>0, <1>m, <2>2, <1>1
      <3>2. QED
        BY <3>1, <2>2, <1>0, <1>m, <1>1, <1>10
    <2>3. CASE e = L + 2 /\ d = L + 2
      BY <2>3, <1>0, <1>m, <1>10
    <2>4. QED
      BY <1>0, <1>m, <2>1, <2>2, <2>3
  <1>12. ASSUME NEW d \in 1 .. L
         PROVE  b[d + 1] - b[d] \in Sizes(Act(d)') /\ ActivationOk(d, b[d])'
    <2>1. /\ b[d + 1] = base[d + 1] /\ b[d] = base[d] /\ base[d + 1] <= N
          /\ base[d] \in Nat /\ base[d + 1] \in Nat
      BY <1>0, <1>m, <1>1, <1>10
    <2>2. base[d + 1] - base[d] \in Sizes(Act(d)) /\ ActivationOk(d, base[d])
      BY <1>1
    <2>3. Current(d)' = Current(d)
      <3>1. CASE d = L
        BY <3>1, <1>0, <1>m, <1>5, <1>7, <1>8 DEF Current
      <3>2. CASE d # L
        <4>1. d + 1 \in 1 .. L
          BY <3>2, <1>0, <1>m
        <4>2. QED
          BY <3>2, <4>1, <1>0, <1>m, <1>7, <1>8 DEF Current
      <3>3. QED
        BY <3>1, <3>2
    <2>4. Act(d).at # "derailed"
      <3>1. CASE d = L
        <4>1. Head(active) = Act(L)
          BY <3>1, <1>0, <1>m, TopIsLast DEF LTypeOK, Act
        <4>2. QED
          BY <3>1, <4>1, <1>0, <1>m DEF Derailed
      <3>2. CASE d # L
        BY <3>2, <1>0, <2>2 DEF ActivationOk
      <3>3. QED
        BY <3>1, <3>2
    <2>5. PICK n \in Nat, m \in Nat : n = base[d] /\ m = base[d + 1]
      BY <2>1
    <2>6. \A p \in 1 .. m : WordAt(p)' = WordAt(p)
      BY <1>0, <1>m, <1>6, <2>1, <2>5
    <2>7. ActivationOk(d, n)'
      <3>1. m - n \in Sizes(Act(d)) /\ ActivationOk(d, n) /\ d \in Nat
        BY <1>0, <1>m, <2>2, <2>5
      <3>2. Act(d)' = Act(d) /\ Ent(d)' = Ent(d)
        BY <1>7, <1>8
      <3>3. QED
        BY <2>3, <2>4, <2>6, <3>1, <3>2, ActivationKept
    <2>8. QED
      BY <1>7, <2>1, <2>2, <2>5, <2>7
  <1>13. b[L + 2] - b[L + 1] \in Sizes(Act(L + 1)') /\ ActivationOk(L + 1, b[L + 1])'
    <2>1. b[L + 1] = N /\ b[L + 2] = N + 3
      BY <1>0, <1>m, <1>1, <1>10
    <2>2. 3 \in Sizes(a)
      BY <1>3 DEF Sizes, IntSize
    <2>3. Current(L + 1)' = Ent(L + 1)'
      BY <1>5, <1>7, <1>8 DEF Current
    <2>4. HardwareWords(L + 1, N)'
      BY <1>m, <1>2, <1>6, <1>8 DEF HardwareWords
    <2>5. InterruptOk(L + 1, N)'
      BY <1>3, <1>7, <2>3, <2>4 DEF InterruptOk
    <2>6. a.at \in Steps[a.kind] /\ (a.kind = "syscall" => L + 1 = 1)
      BY <1>0, <1>3 DEF Steps, Kinds
    <2>7. ActivationOk(L + 1, N)'
      BY <1>3, <1>7, <2>5, <2>6 DEF ActivationOk
    <2>8. QED
      BY <1>m, <1>7, <2>1, <2>2, <2>7
  <1>14. Layout(b)'
    <2>1. L + 1 + 1 = L + 2
      BY <1>0
    <2>2. \A d \in 1 .. L + 1 : /\ b[d + 1] - b[d] \in Sizes(Act(d)')
                                /\ ActivationOk(d, b[d])'
      <3> SUFFICES ASSUME NEW d \in 1 .. L + 1
                   PROVE  b[d + 1] - b[d] \in Sizes(Act(d)') /\ ActivationOk(d, b[d])'
        OBVIOUS
      <3>1. CASE d \in 1 .. L
        BY <3>1, <1>12
      <3>2. CASE d = L + 1
        BY <3>2, <2>1, <1>13
      <3>3. QED
        BY <1>0, <3>1, <3>2
    <2>3. QED
      BY <1>6, <1>7, <1>10, <1>11, <2>1, <2>2 DEF Layout
  <1>15. QED
    BY <1>9, <1>14 DEF LInv

\* An activation that returns takes its three hardware words with it.  Below it
\* there is another only if it was an interrupt, which has left exactly these
\* and gives back the registers it found.
LEMMA ReturnKeeps ==
    ASSUME LTypeOK, NEW base, Layout(base), NEW L \in Nat \ {0}, Len(active) = L,
           Len(stack) >= 3, regs' \in RegFiles,
           stack' = SubSeq(stack, 4, Len(stack)),
           active' = Tail(active), entry' = Tail(entry),
           L > 1 => base[L] = Len(stack) - 3 /\ regs' = Ent(L)
    PROVE  LInv'
  <1>1. /\ base \in [1 .. L + 1 -> Nat] /\ base[L + 1] = Len(stack)
        /\ \A d, e \in 1 .. L + 1 : d <= e => base[d] <= base[e]
        /\ \A d \in 1 .. L : /\ base[d + 1] - base[d] \in Sizes(Act(d))
                             /\ ActivationOk(d, base[d])
    BY DEF Layout
  <1>2. PICK N \in Nat : N = Len(stack) /\ N >= 3
    BY LenProperties DEF LTypeOK
  <1>3. Popped(Words, stack, 3, stack')
    <2>1. stack \in Seq(Words) /\ 3 \in 0 .. Len(stack) /\ 3 + 1 = 4
      BY <1>2 DEF LTypeOK
    <2>2. QED
      BY <2>1, PopBottom
  <1>4. Popped(Activations, active, 1, active') /\ Popped(RegFiles, entry, 1, entry')
    <2>1. /\ active \in Seq(Activations) /\ 1 \in 0 .. Len(active) /\ Len(active) > 0
          /\ entry \in Seq(RegFiles) /\ 1 \in 0 .. Len(entry) /\ Len(entry) > 0
          /\ 1 + 1 = 2
      BY DEF LTypeOK
    <2>2. active' = SubSeq(active, 2, Len(active)) /\ entry' = SubSeq(entry, 2, Len(entry))
      BY <2>1, TopIsLast
    <2>3. QED
      BY <2>1, <2>2, PopBottom
  <1>5. /\ stack' \in Seq(Words) /\ Len(stack') = N - 3
        /\ \A p \in 1 .. N - 3 : WordAt(p)' = WordAt(p)
    BY <1>2, <1>3 DEF Popped, WordAt
  <1>6. /\ active' \in Seq(Activations) /\ Len(active') = L - 1
        /\ \A d \in 1 .. L - 1 : Act(d)' = Act(d)
    BY <1>4 DEF Popped, Act
  <1>7. /\ entry' \in Seq(RegFiles) /\ Len(entry') = L - 1
        /\ \A d \in 1 .. L - 1 : Ent(d)' = Ent(d)
    BY <1>4 DEF Popped, Ent, LTypeOK
  <1>8. LTypeOK'
    BY <1>5, <1>6, <1>7 DEF LTypeOK
  <1>9. PICK b : b = [d \in 1 .. L |-> IF d = L THEN N - 3 ELSE base[d]]
    OBVIOUS
  <1>10. /\ b \in [1 .. L -> Nat] /\ b[L] = N - 3
         /\ \A d \in 1 .. L - 1 : b[d] = base[d]
         /\ L > 1 => \A d \in 1 .. L : b[d] = base[d]
    BY <1>1, <1>2, <1>9
  <1>11. \A d, e \in 1 .. L : d <= e => b[d] <= b[e]
    <2>1. CASE L > 1
      BY <2>1, <1>1, <1>10
    <2>2. CASE L = 1
      BY <2>2, <1>2, <1>10
    <2>3. QED
      BY <2>1, <2>2
  <1>12. ASSUME NEW d \in 1 .. L - 1
         PROVE  b[d + 1] - b[d] \in Sizes(Act(d)') /\ ActivationOk(d, b[d])'
    <2>1. /\ b[d + 1] = base[d + 1] /\ b[d] = base[d] /\ base[d + 1] <= N - 3
          /\ base[d] \in Nat /\ base[d + 1] \in Nat
      <3>1. L > 1 /\ d \in 1 .. L /\ d + 1 \in 1 .. L /\ d + 1 <= L /\ L \in 1 .. L + 1
        OBVIOUS
      <3>2. base[L] = N - 3
        BY <3>1, <1>2
      <3>3. base[d + 1] <= base[L]
        <4>1. d + 1 \in 1 .. L + 1
          BY <3>1
        <4>2. QED
          BY <3>1, <4>1, <1>1
      <3>4. b[d + 1] = base[d + 1] /\ b[d] = base[d]
        BY <3>1, <1>10
      <3>5. d \in 1 .. L + 1 /\ d + 1 \in 1 .. L + 1
        OBVIOUS
      <3>6. base[d] \in Nat /\ base[d + 1] \in Nat
        BY <3>5, <1>1
      <3>7. QED
        BY <3>2, <3>3, <3>4, <3>6
    <2>2. base[d + 1] - base[d] \in Sizes(Act(d)) /\ ActivationOk(d, base[d])
      BY <1>1
    <2>3. Current(d)' = Current(d)
      <3>1. CASE d = L - 1
        <4>1. L > 1 /\ d + 1 = L /\ d # L /\ d = Len(active')
          BY <3>1, <1>6
        <4>2. QED
          BY <4>1 DEF Current
      <3>2. CASE d # L - 1
        <4>1. d + 1 \in 1 .. L - 1 /\ d # L /\ d # Len(active')
          BY <3>2, <1>6
        <4>2. Ent(d + 1)' = Ent(d + 1)
          BY <4>1, <1>7
        <4>3. QED
          BY <4>1, <4>2 DEF Current
      <3>3. QED
        BY <3>1, <3>2
    <2>4. Act(d).at # "derailed"
      BY <2>2 DEF ActivationOk
    <2>5. PICK n \in Nat, m \in Nat : n = base[d] /\ m = base[d + 1]
      BY <2>1
    <2>6. \A p \in 1 .. m : WordAt(p)' = WordAt(p)
      BY <1>2, <1>5, <2>1, <2>5
    <2>7. ActivationOk(d, n)'
      <3>1. m - n \in Sizes(Act(d)) /\ ActivationOk(d, n) /\ d \in Nat
        BY <2>2, <2>5
      <3>2. Act(d)' = Act(d) /\ Ent(d)' = Ent(d)
        BY <1>6, <1>7
      <3>3. QED
        BY <2>3, <2>4, <2>6, <3>1, <3>2, ActivationKept
    <2>8. QED
      BY <1>6, <2>1, <2>2, <2>5, <2>7
  <1>13. Layout(b)'
    <2>1. L - 1 + 1 = L
      OBVIOUS
    <2>2. QED
      BY <2>1, <1>2, <1>5, <1>6, <1>10, <1>11, <1>12 DEF Layout
  <1>14. QED
    BY <1>8, <1>13 DEF LInv

----------------------------------------------------------------------------
\* Steps of the innermost activation

\* The innermost activation is the one the code is in.
LEMMA TopFacts ==
    ASSUME LTypeOK, NEW base, Layout(base), NEW kind, NEW at, On(kind, at)
    PROVE  \E L \in Nat \ {0}, n \in Nat :
               /\ Len(active) = L /\ base[L] = n /\ Head(active) = Act(L)
               /\ Act(L) \in Activations /\ Act(L).kind = kind /\ Act(L).at = at
               /\ n <= Len(stack) /\ Len(stack) - n \in Sizes(Act(L))
               /\ ActivationOk(L, n)
  <1>1. PICK L \in Nat \ {0} : Len(active) = L
    BY LenProperties DEF LTypeOK, On, Depth
  <1>2. /\ Head(active) = Act(L) /\ Act(L) \in Activations
        /\ Act(L).kind = kind /\ Act(L).at = at
    BY <1>1, TopIsLast DEF LTypeOK, On, Act
  <1>3. /\ base \in [1 .. L + 1 -> Nat] /\ base[L + 1] = Len(stack)
        /\ base[L] <= base[L + 1] /\ base[L + 1] - base[L] \in Sizes(Act(L))
        /\ ActivationOk(L, base[L])
    BY <1>1 DEF Layout
  <1>4. PICK n \in Nat : n = base[L]
    BY <1>3
  <1>5. QED
    BY <1>1, <1>2, <1>3, <1>4

\* NextStep changes the step of the innermost activation and nothing else.
LEMMA NextStepTop ==
    ASSUME LTypeOK, NEW L \in Nat \ {0}, Len(active) = L, NEW to \in AllSteps,
           NextStep(to), NEW kind, Act(L).kind = kind
    PROVE  /\ active' \in Seq(Activations) /\ Len(active') = L
           /\ \A d \in 1 .. L - 1 : Act(d)' = Act(d)
           /\ Act(L)' = [kind |-> kind, at |-> to]
  <1>1. active \in Seq(Activations) /\ Len(active) > 0
    BY DEF LTypeOK
  <1>2. /\ Head(active) = Act(L) /\ Head(active) \in Activations
        /\ Tail(active) = SubSeq(active, 2, Len(active))
    BY <1>1, TopIsLast DEF Act
  <1>3. PICK x, r : x = [kind |-> kind, at |-> to] /\ r = SubSeq(active, 2, Len(active))
    OBVIOUS
  <1>4. [Head(active) EXCEPT !.at = to] = x /\ x \in Activations
    BY <1>2, <1>3 DEF Activations
  <1>5. active' = <<x>> \o r
    BY <1>2, <1>3, <1>4 DEF NextStep
  <1>6. Popped(Activations, active, 1, r)
    <2>1. 1 \in 0 .. Len(active) /\ 1 + 1 = 2
      OBVIOUS
    <2>2. QED
      BY <2>1, <1>1, <1>3, PopBottom
  <1>7. r \in Seq(Activations) /\ Len(r) = L - 1
        /\ \A d \in 1 .. L - 1 : FromBottom(r, d) = FromBottom(active, d)
    BY <1>6 DEF Popped
  <1>8. <<x>> \in Seq(Activations) /\ Len(<<x>>) = 1 /\ <<x>>[1] = x
    BY <1>4
  <1>9. Pushed(Activations, r, <<x>>, active')
    BY <1>5, <1>7, <1>8, PushBottom
  <1>10. /\ active' \in Seq(Activations) /\ Len(active') = L
         /\ \A d \in 1 .. L - 1 : FromBottom(active', d) = FromBottom(r, d)
         /\ \A j \in 1 .. 1 : FromBottom(active', L - 1 + j) = <<x>>[1 + 1 - j]
    BY <1>7, <1>8, <1>9 DEF Pushed
  <1>11. FromBottom(active', L) = x
    <2>1. L - 1 + 1 = L /\ 1 \in 1 .. 1 /\ 1 + 1 - 1 = 1
      OBVIOUS
    <2>2. QED
      BY <2>1, <1>8, <1>10
  <1>12. QED
    BY <1>3, <1>7, <1>10, <1>11 DEF Act

\* What a step of the innermost activation has to keep.
LEMMA StepKeeps ==
    ASSUME LTypeOK, NEW base, Layout(base), NEW kind \in Kinds, NEW to \in AllSteps,
           to \in Steps[kind], NEW L \in Nat \ {0}, Len(active) = L, Act(L).kind = kind,
           NEW n \in Nat, base[L] = n, NextStep(to), UNCHANGED entry,
           regs' \in RegFiles, stack' \in Seq(Words), n <= Len(stack'),
           \A p \in 1 .. n : WordAt(p)' = WordAt(p),
           Len(stack') - n \in Sizes([kind |-> kind, at |-> to]),
           kind = "interrupt" => InterruptOk(L, n)'
    PROVE  LInv'
  <1>1. /\ active' \in Seq(Activations) /\ Len(active') = L
        /\ \A d \in 1 .. L - 1 : Act(d)' = Act(d)
        /\ Act(L)' = [kind |-> kind, at |-> to]
    BY NextStepTop
  <1>2. LTypeOK'
    BY <1>1 DEF LTypeOK
  <1>3. kind = "syscall" => L = 1
    BY DEF Layout, ActivationOk
  <1>4. ActivationOk(L, n)'
    BY <1>1, <1>3 DEF ActivationOk
  <1>5. QED
    BY <1>1, <1>2, <1>4, TopStep

\* The same for a step of an interrupt's linkage.
LEMMA IntStep ==
    ASSUME LTypeOK, NEW base, Layout(base), NEW L \in Nat \ {0}, Len(active) = L,
           NEW n \in Nat, base[L] = n, Act(L).kind = "interrupt",
           NEW to \in Steps.interrupt, NextStep(to), UNCHANGED entry,
           regs' \in RegFiles, stack' \in Seq(Words), Len(stack') = n + IntSize(to),
           \A p \in 1 .. n + 3 : WordAt(p)' = WordAt(p), HardwareWords(L, n),
           to \in {"pushfl", "call", "popfl", "popal"} => PushalWords(L, n)',
           to \in {"call", "popfl"} => FlagsWord(L, n)',
           to \in {"enter", "pushfl", "call", "iret"} => regs' = Ent(L),
           to = "popal" => regs'["flags"] = Ent(L)["flags"]
    PROVE  LInv'
  <1>1. "interrupt" \in Kinds /\ to \in AllSteps /\ to \in Steps["interrupt"]
    BY DEF Kinds, AllSteps, Steps
  <1>2. Act(L)' = [kind |-> "interrupt", at |-> to] /\ Len(active') = L
    BY <1>1, NextStepTop
  <1>3. Ent(L)' = Ent(L) /\ Current(L)' = regs'
    BY <1>2 DEF Ent, Current
  <1>4. HardwareWords(L, n)'
    <2>1. /\ WordAt(n + 3)' = WordAt(n + 3) /\ WordAt(n + 2)' = WordAt(n + 2)
          /\ WordAt(n + 1)' = WordAt(n + 1)
      OBVIOUS
    <2>2. QED
      BY <2>1, <1>3 DEF HardwareWords
  <1>5. InterruptOk(L, n)'
    BY <1>2, <1>3, <1>4 DEF InterruptOk
  <1>6. IntSize(to) \in Nat /\ IntSize(to) \in Sizes([kind |-> "interrupt", at |-> to])
    BY DEF IntSize, Sizes
  <1>7. n <= Len(stack') /\ Len(stack') - n = IntSize(to)
    BY <1>6
  <1>8. \A p \in 1 .. n : WordAt(p)' = WordAt(p)
    OBVIOUS
  <1>9. Len(stack') - n \in Sizes([kind |-> "interrupt", at |-> to])
    BY <1>6, <1>7
  <1>10. QED
    BY <1>1, <1>5, <1>7, <1>8, <1>9, StepKeeps

\* What is known at step at of an interrupt's linkage.
IntKnows(at, base, L, n) ==
    /\ LTypeOK /\ Layout(base) /\ Len(active) = L /\ base[L] = n
    /\ Head(active) = Act(L) /\ Act(L).kind = "interrupt"
    /\ at \in Steps.interrupt /\ Len(stack) = n + IntSize(at)
    /\ HardwareWords(L, n)
    /\ at \in {"pushfl", "call", "popfl", "popal"} => PushalWords(L, n)
    /\ at \in {"call", "popfl"} => FlagsWord(L, n)
    /\ at \in {"enter", "pushfl", "call", "iret"} => regs = Ent(L)
    /\ at = "popal" => regs["flags"] = Ent(L)["flags"]

LEMMA IntFacts ==
    ASSUME LInv, NEW at, On("interrupt", at)
    PROVE  \E base : \E L \in Nat \ {0}, n \in Nat : IntKnows(at, base, L, n)
  <1>1. PICK base : Layout(base)
    BY DEF LInv
  <1>2. PICK L \in Nat \ {0}, n \in Nat :
            /\ Len(active) = L /\ base[L] = n /\ Head(active) = Act(L)
            /\ Act(L) \in Activations /\ Act(L).kind = "interrupt" /\ Act(L).at = at
            /\ n <= Len(stack) /\ Len(stack) - n \in Sizes(Act(L))
            /\ ActivationOk(L, n)
    BY <1>1, TopFacts DEF LInv
  <1>3. InterruptOk(L, n) /\ at \in Steps.interrupt
    BY <1>2 DEF ActivationOk, Steps
  <1>4. Len(stack) = n + IntSize(at)
    <2>1. Len(stack) \in Nat /\ IntSize(at) \in Nat
      BY LenProperties DEF LInv, LTypeOK, IntSize
    <2>2. Len(stack) - n = IntSize(at)
      BY <1>2 DEF Sizes
    <2>3. QED
      BY <2>1, <2>2
  <1>5. Current(L) = regs
    BY <1>2 DEF Current
  <1>6. IntKnows(at, base, L, n)
    BY <1>1, <1>2, <1>3, <1>4, <1>5 DEF IntKnows, InterruptOk, LInv
  <1>7. QED
    BY <1>6

----------------------------------------------------------------------------
\* What pushes and pops do

\* The words of the registers rs lie on top of N others.
PushedRegs(rs, k, N) ==
    /\ stack' \in Seq(Words) /\ Len(stack') = N + k
    /\ \A p \in 1 .. N : WordAt(p)' = WordAt(p)
    /\ \A j \in 1 .. k : WordAt(N + j)'.value = regs[rs[k + 1 - j]]

LEMMA PushRegsStack ==
    ASSUME LTypeOK, NEW rs \in Seq(Registers), NEW k \in Nat, Len(rs) = k, PushRegs(rs),
           NEW N \in Nat, Len(stack) = N
    PROVE  PushedRegs(rs, k, N)
  <1>1. PICK w : w = [i \in 1 .. k |-> Word("reg", regs[rs[i]])]
    OBVIOUS
  <1>2. ASSUME NEW i \in 1 .. k
        PROVE  /\ Word("reg", regs[rs[i]]) \in Words
               /\ Word("reg", regs[rs[i]]).value = regs[rs[i]]
    <2>1. rs[i] \in Registers
      BY ElementOfSeq
    <2>2. regs[rs[i]] \in Values
      BY <2>1 DEF LTypeOK, RegFiles
    <2>3. QED
      BY <2>2 DEF Word, Words
  <1>3. /\ w \in Seq(Words) /\ Len(w) = k
        /\ \A i \in 1 .. k : w[i].value = regs[rs[i]]
    BY <1>1, <1>2
  <1>4. stack' = w \o stack /\ stack \in Seq(Words)
    BY <1>1 DEF PushRegs, LTypeOK
  <1>5. Pushed(Words, stack, w, stack')
    BY <1>3, <1>4, PushBottom
  <1>6. /\ stack' \in Seq(Words) /\ Len(stack') = N + k
        /\ \A p \in 1 .. N : FromBottom(stack', p) = FromBottom(stack, p)
        /\ \A j \in 1 .. k : FromBottom(stack', N + j) = w[k + 1 - j]
    BY <1>3, <1>5 DEF Pushed
  <1>7. ASSUME NEW j \in 1 .. k
        PROVE  FromBottom(stack', N + j).value = regs[rs[k + 1 - j]]
    <2>1. k + 1 - j \in 1 .. k
      OBVIOUS
    <2>2. QED
      BY <2>1, <1>3, <1>6
  <1>8. QED
    BY <1>6, <1>7 DEF PushedRegs, WordAt

LEMMA PopRegsStack ==
    ASSUME LTypeOK, NEW N \in Nat, Len(stack) = N, NEW k \in 0 .. N,
           stack' = SubSeq(stack, k + 1, Len(stack))
    PROVE  /\ stack' \in Seq(Words) /\ Len(stack') = N - k
           /\ \A p \in 1 .. N - k : WordAt(p)' = WordAt(p)
           /\ \A i \in 1 .. k : /\ stack[i] = WordAt(N + 1 - i)
                                /\ stack[i].value \in Values
  <1>1. stack \in Seq(Words) /\ k \in 0 .. Len(stack)
    BY DEF LTypeOK
  <1>2. Popped(Words, stack, k, stack')
    BY <1>1, PopBottom
  <1>3. /\ stack' \in Seq(Words) /\ Len(stack') = N - k
        /\ \A p \in 1 .. N - k : WordAt(p)' = WordAt(p)
    BY <1>2 DEF Popped, WordAt
  <1>4. ASSUME NEW i \in 1 .. k
        PROVE  stack[i] = WordAt(N + 1 - i) /\ stack[i].value \in Values
    <2>1. N + 1 - (N + 1 - i) = i /\ i \in 1 .. Len(stack)
      OBVIOUS
    <2>2. stack[i] \in Words
      BY <2>1, <1>1, ElementOfSeq
    <2>3. QED
      BY <2>1, <2>2 DEF WordAt, FromBottom, Words
  <1>5. QED
    BY <1>3, <1>4

\* popfl takes one word, whatever it is.
LEMMA PopFlags ==
    ASSUME LTypeOK, NEW N \in Nat, Len(stack) = N, N > 0, PopRegs(<<"flags">>)
    PROVE  /\ stack' \in Seq(Words) /\ Len(stack') = N - 1
           /\ \A p \in 1 .. N - 1 : WordAt(p)' = WordAt(p)
           /\ regs' \in RegFiles /\ regs'["flags"] = WordAt(N).value
  <1>1. Len(<<"flags">>) = 1 /\ <<"flags">>[1] = "flags"
    OBVIOUS
  <1>2. (CHOOSE i \in 1 .. 1 : <<"flags">>[i] = "flags") = 1
    BY <1>1
  <1>3. stack' = SubSeq(stack, 1 + 1, Len(stack)) /\ 1 \in 0 .. N
    BY <1>1 DEF PopRegs
  <1>4. /\ stack' \in Seq(Words) /\ Len(stack') = N - 1
        /\ \A p \in 1 .. N - 1 : WordAt(p)' = WordAt(p)
        /\ stack[1] = WordAt(N) /\ stack[1].value \in Values
    <2>1. PICK k \in 0 .. N : k = 1
      BY <1>3
    <2>2. stack' = SubSeq(stack, k + 1, Len(stack))
      BY <1>3, <2>1
    <2>3. /\ stack' \in Seq(Words) /\ Len(stack') = N - k
          /\ \A p \in 1 .. N - k : WordAt(p)' = WordAt(p)
          /\ \A i \in 1 .. k : /\ stack[i] = WordAt(N + 1 - i)
                               /\ stack[i].value \in Values
      BY <2>2, PopRegsStack
    <2>4. N + 1 - 1 = N /\ 1 \in 1 .. k
      BY <2>1
    <2>5. QED
      BY <2>1, <2>3, <2>4
  <1>5. regs' = [r \in Registers |-> IF r = "flags" THEN stack[1].value ELSE regs[r]]
    <2>1. ASSUME NEW r
          PROVE  (\E i \in 1 .. 1 : <<"flags">>[i] = r) <=> r = "flags"
      BY <1>1
    <2>2. ASSUME NEW r, r = "flags"
          PROVE  (CHOOSE i \in 1 .. 1 : <<"flags">>[i] = r) = 1
      BY <1>2, <2>2
    <2>3. QED
      BY <1>1, <2>1, <2>2 DEF PopRegs
  <1>6. QED
    BY <1>4, <1>5 DEF LTypeOK, RegFiles, Registers

\* popal finds the word of each register where pushal put it.
LEMMA PopAll ==
    ASSUME LTypeOK, NEW N \in Nat, Len(stack) = N, N >= 7, PopRegs(PushAll)
    PROVE  /\ stack' \in Seq(Words) /\ Len(stack') = N - 7
           /\ \A p \in 1 .. N - 7 : WordAt(p)' = WordAt(p)
           /\ regs' \in RegFiles /\ regs'["flags"] = regs["flags"]
           /\ \A i \in 1 .. 7 : regs'[PushAll[i]] = WordAt(N + 1 - i).value
  <1>1. /\ Len(PushAll) = 7 /\ PushAll[1] = "edi" /\ PushAll[2] = "esi"
        /\ PushAll[3] = "ebp" /\ PushAll[4] = "ebx" /\ PushAll[5] = "edx"
        /\ PushAll[6] = "ecx" /\ PushAll[7] = "eax"
    BY DEF PushAll
  <1>2. \A i \in 1 .. 7 : i \in {1, 2, 3, 4, 5, 6, 7}
    OBVIOUS
  <1>3. \A i, j \in 1 .. 7 : PushAll[i] = PushAll[j] => i = j
    BY <1>1, <1>2
  <1>4. \A i \in 1 .. 7 : PushAll[i] \in Registers /\ PushAll[i] # "flags"
    BY <1>1, <1>2 DEF Registers, Scratch, Preserved
  <1>5. PICK k \in 0 .. N : k = 7
    OBVIOUS
  <1>6. stack' = SubSeq(stack, k + 1, Len(stack))
    BY <1>1, <1>5 DEF PopRegs
  <1>7. /\ stack' \in Seq(Words) /\ Len(stack') = N - k
        /\ \A p \in 1 .. N - k : WordAt(p)' = WordAt(p)
        /\ \A i \in 1 .. k : /\ stack[i] = WordAt(N + 1 - i)
                             /\ stack[i].value \in Values
    BY <1>6, PopRegsStack
  <1>8. regs' = [r \in Registers |->
                    IF \E i \in 1 .. 7 : PushAll[i] = r
                    THEN stack[CHOOSE i \in 1 .. 7 : PushAll[i] = r].value
                    ELSE regs[r]]
    BY <1>1 DEF PopRegs
  <1>9. ASSUME NEW i \in 1 .. 7
        PROVE  regs'[PushAll[i]] = stack[i].value
    <2>1. (CHOOSE j \in 1 .. 7 : PushAll[j] = PushAll[i]) = i
      BY <1>3
    <2>2. QED
      BY <2>1, <1>4, <1>8
  <1>10. regs'["flags"] = regs["flags"]
    BY <1>4, <1>8 DEF Registers
  <1>11. regs' \in RegFiles
    <2> SUFFICES ASSUME NEW r \in Registers PROVE regs'[r] \in Values
      BY <1>8 DEF RegFiles
    <2>1. CASE \E i \in 1 .. 7 : PushAll[i] = r
      BY <2>1, <1>5, <1>7, <1>9
    <2>2. CASE ~ \E i \in 1 .. 7 : PushAll[i] = r
      BY <2>2, <1>8 DEF LTypeOK, RegFiles
    <2>3. QED
      BY <2>1, <2>2
  <1>12. QED
    BY <1>5, <1>7, <1>9, <1>10, <1>11

\* A register file is what pushal saved and the flags.
LEMMA SameRegisters ==
    ASSUME NEW f \in RegFiles, NEW g \in RegFiles, f["flags"] = g["flags"],
           \A i \in 1 .. 7 : f[PushAll[i]] = g[PushAll[i]]
    PROVE  f = g
  <1>1. f["edi"] = g["edi"] /\ f["esi"] = g["esi"] /\ f["ebp"] = g["ebp"]
        /\ f["ebx"] = g["ebx"] /\ f["edx"] = g["edx"] /\ f["ecx"] = g["ecx"]
        /\ f["eax"] = g["eax"]
    <2>1. /\ PushAll[1] = "edi" /\ PushAll[2] = "esi" /\ PushAll[3] = "ebp"
          /\ PushAll[4] = "ebx" /\ PushAll[5] = "edx" /\ PushAll[6] = "ecx"
          /\ PushAll[7] = "eax"
      BY DEF PushAll
    <2>2. 1 \in 1 .. 7 /\ 2 \in 1 .. 7 /\ 3 \in 1 .. 7 /\ 4 \in 1 .. 7 /\ 5 \in 1 .. 7
          /\ 6 \in 1 .. 7 /\ 7 \in 1 .. 7
      OBVIOUS
    <2>3. QED
      BY <2>1, <2>2
  <1>2. \A r \in Registers : f[r] = g[r]
    BY <1>1 DEF Registers, Scratch, Preserved
  <1>3. QED
    BY <1>2 DEF RegFiles

\* What a C function leaves in the registers.
LEMMA CallRegs ==
    ASSUME LTypeOK, NEW kind, NEW from, NEW to, CallBody(kind, from, to)
    PROVE  regs' \in RegFiles
  <1>1. \A r \in Registers : regs[r] \in Values /\ "junk" \in Values
    BY DEF LTypeOK, RegFiles, Values
  <1>2. QED
    BY <1>1 DEF CallBody, RegFiles

----------------------------------------------------------------------------
\* The steps of an interrupt's linkage

LEMMA PushalKeeps == ASSUME LInv, IntPushal PROVE LInv'
  <1>1. On("interrupt", "enter") /\ UNCHANGED <<regs, entry>> /\ NextStep("pushfl")
        /\ PushRegs(PushAll)
    BY DEF IntPushal
  <1>2. PICK base : \E L \in Nat \ {0}, n \in Nat : IntKnows("enter", base, L, n)
    BY <1>1, IntFacts
  <1>3. PICK L \in Nat \ {0}, n \in Nat : IntKnows("enter", base, L, n)
    BY <1>2
  <1>4. PICK N \in Nat : N = n + 3
    OBVIOUS
  <1>5. /\ LTypeOK /\ Layout(base) /\ Len(active) = L /\ base[L] = n
        /\ Act(L).kind = "interrupt" /\ Len(stack) = N /\ HardwareWords(L, n)
        /\ regs = Ent(L)
    BY <1>3, <1>4 DEF IntKnows, IntSize
  <1>6. PushAll \in Seq(Registers) /\ Len(PushAll) = 7
    BY DEF PushAll, Registers, Scratch, Preserved
  <1>7. /\ stack' \in Seq(Words) /\ Len(stack') = N + 7
        /\ \A p \in 1 .. N : WordAt(p)' = WordAt(p)
        /\ \A j \in 1 .. 7 : WordAt(N + j)'.value = regs[PushAll[7 + 1 - j]]
    <2>1. PushedRegs(PushAll, 7, N)
      BY <1>1, <1>5, <1>6, PushRegsStack
    <2>2. QED
      BY <2>1 DEF PushedRegs
  <1>8. PushalWords(L, n)'
    <2>1. Ent(L)' = regs
      BY <1>1, <1>5 DEF Ent
    <2>2. \A j \in 1 .. 7 : 7 + 1 - j = 8 - j
      OBVIOUS
    <2>3. QED
      BY <1>4, <1>7, <2>1, <2>2 DEF PushalWords
  <1>9. "pushfl" \in Steps.interrupt /\ n + IntSize("pushfl") = N + 7
        /\ regs' \in RegFiles /\ regs' = Ent(L)
    BY <1>1, <1>4, <1>5 DEF Steps, IntSize, LTypeOK
  <1>10. QED
    BY <1>1, <1>4, <1>5, <1>7, <1>8, <1>9, IntStep

LEMMA PushflKeeps == ASSUME LInv, IntPushfl PROVE LInv'
  <1>1. On("interrupt", "pushfl") /\ UNCHANGED <<regs, entry>> /\ NextStep("call")
        /\ PushRegs(<<"flags">>)
    BY DEF IntPushfl
  <1>2. PICK base : \E L \in Nat \ {0}, n \in Nat : IntKnows("pushfl", base, L, n)
    BY <1>1, IntFacts
  <1>3. PICK L \in Nat \ {0}, n \in Nat : IntKnows("pushfl", base, L, n)
    BY <1>2
  <1>4. PICK N \in Nat : N = n + 10
    OBVIOUS
  <1>5. /\ LTypeOK /\ Layout(base) /\ Len(active) = L /\ base[L] = n
        /\ Act(L).kind = "interrupt" /\ Len(stack) = N /\ HardwareWords(L, n)
        /\ PushalWords(L, n) /\ regs = Ent(L)
    BY <1>3, <1>4 DEF IntKnows, IntSize
  <1>6. /\ <<"flags">> \in Seq(Registers) /\ Len(<<"flags">>) = 1
        /\ <<"flags">>[1] = "flags"
    BY DEF Registers
  <1>7. /\ stack' \in Seq(Words) /\ Len(stack') = N + 1
        /\ \A p \in 1 .. N : WordAt(p)' = WordAt(p)
        /\ WordAt(N + 1)'.value = regs["flags"]
    <2>1. PushedRegs(<<"flags">>, 1, N)
      BY <1>1, <1>5, <1>6, PushRegsStack
    <2>2. QED
      BY <1>6, <2>1 DEF PushedRegs
  <1>8. Ent(L)' = Ent(L)
    BY <1>1 DEF Ent
  <1>9. PushalWords(L, n)'
    <2>1. \A j \in 1 .. 7 : n + 3 + j \in 1 .. N
      BY <1>4
    <2>2. QED
      BY <1>5, <1>7, <1>8, <2>1 DEF PushalWords
  <1>10. FlagsWord(L, n)'
    BY <1>4, <1>5, <1>7, <1>8 DEF FlagsWord
  <1>11. "call" \in Steps.interrupt /\ n + IntSize("call") = N + 1
         /\ regs' \in RegFiles /\ regs' = Ent(L)
         /\ \A p \in 1 .. n + 3 : WordAt(p)' = WordAt(p)
    BY <1>1, <1>4, <1>5, <1>7 DEF Steps, IntSize, LTypeOK
  <1>12. QED
    BY <1>1, <1>5, <1>7, <1>9, <1>10, <1>11, IntStep

LEMMA IntCallKeeps == ASSUME LInv, IntCall PROVE LInv'
  <1>1. On("interrupt", "call") /\ UNCHANGED <<stack, entry>> /\ NextStep("popfl")
    BY DEF IntCall, CallBody
  <1>2. PICK base : \E L \in Nat \ {0}, n \in Nat : IntKnows("call", base, L, n)
    BY <1>1, IntFacts
  <1>3. PICK L \in Nat \ {0}, n \in Nat : IntKnows("call", base, L, n)
    BY <1>2
  <1>4. /\ LTypeOK /\ Layout(base) /\ Len(active) = L /\ base[L] = n
        /\ Act(L).kind = "interrupt" /\ Len(stack) = n + 11 /\ HardwareWords(L, n)
        /\ PushalWords(L, n) /\ FlagsWord(L, n)
    BY <1>3 DEF IntKnows, IntSize
  <1>5. regs' \in RegFiles
    BY <1>4, CallRegs DEF IntCall
  <1>6. Ent(L)' = Ent(L) /\ \A p : WordAt(p)' = WordAt(p)
    BY <1>1 DEF Ent, WordAt
  <1>7. PushalWords(L, n)' /\ FlagsWord(L, n)'
    BY <1>4, <1>6 DEF PushalWords, FlagsWord
  <1>8. "popfl" \in Steps.interrupt /\ Len(stack') = n + IntSize("popfl")
        /\ stack' \in Seq(Words)
    BY <1>1, <1>4 DEF Steps, IntSize, LTypeOK
  <1>9. QED
    BY <1>1, <1>4, <1>5, <1>6, <1>7, <1>8, IntStep

LEMMA PopflKeeps == ASSUME LInv, IntPopfl PROVE LInv'
  <1>1. On("interrupt", "popfl") /\ UNCHANGED entry /\ NextStep("popal")
        /\ PopRegs(<<"flags">>)
    BY DEF IntPopfl
  <1>2. PICK base : \E L \in Nat \ {0}, n \in Nat : IntKnows("popfl", base, L, n)
    BY <1>1, IntFacts
  <1>3. PICK L \in Nat \ {0}, n \in Nat : IntKnows("popfl", base, L, n)
    BY <1>2
  <1>4. PICK N \in Nat : N = n + 11
    OBVIOUS
  <1>5. /\ LTypeOK /\ Layout(base) /\ Len(active) = L /\ base[L] = n
        /\ Act(L).kind = "interrupt" /\ Len(stack) = N /\ HardwareWords(L, n)
        /\ PushalWords(L, n) /\ FlagsWord(L, n)
    BY <1>3, <1>4 DEF IntKnows, IntSize
  <1>6. /\ stack' \in Seq(Words) /\ Len(stack') = N - 1
        /\ \A p \in 1 .. N - 1 : WordAt(p)' = WordAt(p)
        /\ regs' \in RegFiles /\ regs'["flags"] = WordAt(N).value
    BY <1>1, <1>4, <1>5, PopFlags
  <1>7. Ent(L)' = Ent(L)
    BY <1>1 DEF Ent
  <1>8. PushalWords(L, n)'
    <2>1. \A j \in 1 .. 7 : n + 3 + j \in 1 .. N - 1
      BY <1>4
    <2>2. QED
      BY <1>5, <1>6, <1>7, <2>1 DEF PushalWords
  <1>9. regs'["flags"] = Ent(L)["flags"]
    BY <1>4, <1>5, <1>6 DEF FlagsWord
  <1>10. "popal" \in Steps.interrupt /\ Len(stack') = n + IntSize("popal")
         /\ \A p \in 1 .. n + 3 : WordAt(p)' = WordAt(p)
    BY <1>4, <1>6 DEF Steps, IntSize
  <1>11. QED
    BY <1>1, <1>5, <1>6, <1>8, <1>9, <1>10, IntStep

\* After popal every register is as it was at the entry.
LEMMA PopalKeeps == ASSUME LInv, IntPopal PROVE LInv'
  <1>1. On("interrupt", "popal") /\ UNCHANGED entry /\ NextStep("iret")
        /\ PopRegs(PushAll)
    BY DEF IntPopal
  <1>2. PICK base : \E L \in Nat \ {0}, n \in Nat : IntKnows("popal", base, L, n)
    BY <1>1, IntFacts
  <1>3. PICK L \in Nat \ {0}, n \in Nat : IntKnows("popal", base, L, n)
    BY <1>2
  <1>4. PICK N \in Nat : N = n + 10
    OBVIOUS
  <1>5. /\ LTypeOK /\ Layout(base) /\ Len(active) = L /\ base[L] = n
        /\ Act(L).kind = "interrupt" /\ Len(stack) = N /\ HardwareWords(L, n)
        /\ PushalWords(L, n) /\ regs["flags"] = Ent(L)["flags"]
    BY <1>3, <1>4 DEF IntKnows, IntSize
  <1>6. /\ stack' \in Seq(Words) /\ Len(stack') = N - 7
        /\ \A p \in 1 .. N - 7 : WordAt(p)' = WordAt(p)
        /\ regs' \in RegFiles /\ regs'["flags"] = regs["flags"]
        /\ \A i \in 1 .. 7 : regs'[PushAll[i]] = WordAt(N + 1 - i).value
    BY <1>1, <1>4, <1>5, PopAll
  <1>7. Ent(L) \in RegFiles
    <2>1. Len(entry) = L /\ entry \in Seq(RegFiles) /\ Len(entry) + 1 - L = 1
          /\ 1 \in 1 .. Len(entry)
      BY <1>5 DEF LTypeOK
    <2>2. QED
      BY <2>1, ElementOfSeq DEF Ent, FromBottom
  <1>8. regs' = Ent(L)
    <2>1. ASSUME NEW i \in 1 .. 7
          PROVE  regs'[PushAll[i]] = Ent(L)[PushAll[i]]
      <3>1. PICK j \in 1 .. 7 : j = 8 - i
        OBVIOUS
      <3>2. N + 1 - i = n + 3 + j /\ 8 - j = i
        BY <1>4, <3>1
      <3>3. WordAt(n + 3 + j).value = Ent(L)[PushAll[8 - j]]
        BY <1>5 DEF PushalWords
      <3>4. QED
        BY <1>6, <3>2, <3>3
    <2>2. QED
      BY <1>5, <1>6, <1>7, <2>1, SameRegisters
  <1>9. "iret" \in Steps.interrupt /\ Len(stack') = n + IntSize("iret")
        /\ \A p \in 1 .. n + 3 : WordAt(p)' = WordAt(p)
    BY <1>4, <1>6 DEF Steps, IntSize
  <1>10. QED
    BY <1>1, <1>5, <1>6, <1>8, <1>9, IntStep

\* iret finds the processor's three words and returns with the registers of
\* the entry.
LEMMA IretKeeps ==
    ASSUME LInv, IntIret
    PROVE  LInv' /\ regs' = Head(entry) /\ Len(active') < Depth
  <1>1. On("interrupt", "iret")
    BY DEF IntIret, Iret
  <1>2. PICK base : \E L \in Nat \ {0}, n \in Nat : IntKnows("iret", base, L, n)
    BY <1>1, IntFacts
  <1>3. PICK L \in Nat \ {0}, n \in Nat : IntKnows("iret", base, L, n)
    BY <1>2
  <1>4. /\ LTypeOK /\ Layout(base) /\ Len(active) = L /\ base[L] = n
        /\ Len(stack) = n + 3 /\ HardwareWords(L, n) /\ regs = Ent(L)
    BY <1>3 DEF IntKnows, IntSize
  <1>5. /\ stack[1] = WordAt(n + 3) /\ stack[2] = WordAt(n + 2) /\ stack[3] = WordAt(n + 1)
    BY <1>4 DEF WordAt, FromBottom
  <1>6. /\ stack[1] = Word("eip", L) /\ stack[2] = Word("cs", L)
        /\ stack[3].value = regs["flags"] /\ Depth = L
    BY <1>4, <1>5 DEF HardwareWords, Depth
  <1>7. /\ regs' = [regs EXCEPT !["flags"] = stack[3].value]
        /\ stack' = SubSeq(stack, 4, Len(stack))
        /\ active' = Tail(active) /\ entry' = Tail(entry)
    BY <1>6 DEF IntIret, Iret
  <1>8. regs' = regs /\ regs' \in RegFiles
    BY <1>4, <1>6, <1>7 DEF LTypeOK, RegFiles
  <1>9. LInv'
    <2>1. Len(stack) >= 3 /\ base[L] = Len(stack) - 3 /\ regs' = Ent(L)
      BY <1>4, <1>8
    <2>2. QED
      BY <1>4, <1>7, <1>8, <2>1, ReturnKeeps
  <1>10. entry \in Seq(RegFiles) /\ Len(entry) = L /\ Len(entry) > 0
    BY <1>4 DEF LTypeOK
  <1>11. Head(entry) = Ent(L)
    BY <1>10, TopIsLast DEF Ent
  <1>12. active \in Seq(Activations) /\ active # << >>
    BY <1>4 DEF LTypeOK
  <1>13. Len(active') = L - 1
    <2>1. Len(Tail(active)) = Len(active) - 1
      BY <1>12, HeadTailProperties
    <2>2. QED
      BY <1>4, <1>7, <2>1
  <1>14. QED
    BY <1>4, <1>6, <1>8, <1>9, <1>11, <1>13

----------------------------------------------------------------------------
\* The steps of exceptions and system calls

\* Neither has words or registers to answer for.
LEMMA OtherStep ==
    ASSUME LInv, NEW kind \in Kinds \ {"interrupt"}, NEW from, NEW to \in Steps[kind],
           On(kind, from), NextStep(to), UNCHANGED entry, regs' \in RegFiles,
           stack' \in Seq(Words),
           \A n \in Nat : n <= Len(stack) /\ Len(stack) - n \in Sizes([kind |-> kind, at |-> from])
               => /\ n <= Len(stack')
                  /\ Len(stack') - n \in Sizes([kind |-> kind, at |-> to])
                  /\ \A p \in 1 .. n : WordAt(p)' = WordAt(p)
    PROVE  LInv'
  <1>1. PICK base : Layout(base)
    BY DEF LInv
  <1>2. PICK L \in Nat \ {0}, n \in Nat :
            /\ Len(active) = L /\ base[L] = n /\ Head(active) = Act(L)
            /\ Act(L) \in Activations /\ Act(L).kind = kind /\ Act(L).at = from
            /\ n <= Len(stack) /\ Len(stack) - n \in Sizes(Act(L))
            /\ ActivationOk(L, n)
    BY <1>1, TopFacts DEF LInv
  <1>3. Sizes(Act(L)) = Sizes([kind |-> kind, at |-> from])
    BY <1>2 DEF Sizes
  <1>4. /\ n <= Len(stack') /\ Len(stack') - n \in Sizes([kind |-> kind, at |-> to])
        /\ \A p \in 1 .. n : WordAt(p)' = WordAt(p)
    BY <1>2, <1>3
  <1>5. to \in AllSteps /\ LTypeOK
    BY DEF AllSteps, Steps, Kinds, LInv
  <1>6. QED
    BY <1>1, <1>2, <1>4, <1>5, StepKeeps

LEMMA ExcPushKeeps == ASSUME LInv, ExcPush PROVE LInv'
  <1>1. PICK w : w = <<Word("vector", 0)>>
    OBVIOUS
  <1>2. w \in Seq(Words) /\ Len(w) = 1
    BY <1>1 DEF Word, Words, Values
  <1>3. PICK N \in Nat : N = Len(stack)
    BY LenProperties DEF LInv, LTypeOK
  <1>4. Pushed(Words, stack, w, stack')
    <2>1. stack \in Seq(Words) /\ stack' = w \o stack
      BY <1>1 DEF LInv, LTypeOK, ExcPush
    <2>2. QED
      BY <1>2, <2>1, PushBottom
  <1>5. /\ stack' \in Seq(Words) /\ Len(stack') = N + 1
        /\ \A p \in 1 .. N : WordAt(p)' = WordAt(p)
    BY <1>2, <1>3, <1>4 DEF Pushed, WordAt
  <1>6. ASSUME NEW n \in Nat, n <= Len(stack),
               Len(stack) - n \in Sizes([kind |-> "exception", at |-> "enter"])
        PROVE  /\ n <= Len(stack')
               /\ Len(stack') - n \in Sizes([kind |-> "exception", at |-> "call"])
               /\ \A p \in 1 .. n : WordAt(p)' = WordAt(p)
    BY <1>3, <1>5, <1>6 DEF Sizes
  <1>7. On("exception", "enter") /\ NextStep("call") /\ UNCHANGED entry
        /\ regs' \in RegFiles
    BY DEF ExcPush, LInv, LTypeOK
  <1>8. "exception" \in Kinds \ {"interrupt"} /\ "call" \in Steps["exception"]
    BY DEF Kinds, Steps
  <1>9. QED
    BY <1>5, <1>6, <1>7, <1>8, OtherStep

\* A call leaves the stack alone.
LEMMA OtherCall ==
    ASSUME LInv, NEW kind \in Kinds \ {"interrupt"}, NEW from, NEW to \in Steps[kind],
           CallBody(kind, from, to),
           Sizes([kind |-> kind, at |-> from]) = Sizes([kind |-> kind, at |-> to])
    PROVE  LInv'
  <1>1. On(kind, from) /\ NextStep(to) /\ UNCHANGED <<stack, entry>>
    BY DEF CallBody
  <1>2. regs' \in RegFiles /\ stack' \in Seq(Words)
    BY <1>1, CallRegs DEF LInv, LTypeOK
  <1>3. \A p : WordAt(p)' = WordAt(p)
    BY <1>1 DEF WordAt
  <1>4. QED
    BY <1>1, <1>2, <1>3, OtherStep

LEMMA SysPushKeeps == ASSUME LInv, SysPush PROVE LInv'
  <1>1. SysArgs \in Seq(Registers) /\ Len(SysArgs) = 6
    BY DEF SysArgs, Registers, Scratch, Preserved
  <1>2. PICK N \in Nat : N = Len(stack)
    BY LenProperties DEF LInv, LTypeOK
  <1>3. PushedRegs(SysArgs, 6, N)
    BY <1>1, <1>2, PushRegsStack DEF SysPush, LInv
  <1>4. /\ stack' \in Seq(Words) /\ Len(stack') = N + 6
        /\ \A p \in 1 .. N : WordAt(p)' = WordAt(p)
    BY <1>3 DEF PushedRegs
  <1>5. ASSUME NEW n \in Nat, n <= Len(stack),
               Len(stack) - n \in Sizes([kind |-> "syscall", at |-> "enter"])
        PROVE  /\ n <= Len(stack')
               /\ Len(stack') - n \in Sizes([kind |-> "syscall", at |-> "range"])
               /\ \A p \in 1 .. n : WordAt(p)' = WordAt(p)
    BY <1>2, <1>4, <1>5 DEF Sizes
  <1>6. On("syscall", "enter") /\ NextStep("range") /\ UNCHANGED entry
        /\ regs' \in RegFiles
    BY DEF SysPush, LInv, LTypeOK
  <1>7. "syscall" \in Kinds \ {"interrupt"} /\ "range" \in Steps["syscall"]
    BY DEF Kinds, Steps
  <1>8. QED
    BY <1>4, <1>5, <1>6, <1>7, OtherStep

LEMMA SysFailKeeps == ASSUME LInv, SysFail PROVE LInv'
  <1>1. On("syscall", "range") /\ NextStep("iret") /\ UNCHANGED <<stack, entry>>
        /\ regs' = [regs EXCEPT !["eax"] = "junk"]
    BY DEF SysFail
  <1>2. regs' \in RegFiles /\ stack' \in Seq(Words)
    BY <1>1 DEF LInv, LTypeOK, RegFiles, Values
  <1>3. \A p : WordAt(p)' = WordAt(p)
    BY <1>1 DEF WordAt
  <1>4. ASSUME NEW n \in Nat, n <= Len(stack),
               Len(stack) - n \in Sizes([kind |-> "syscall", at |-> "range"])
        PROVE  /\ n <= Len(stack')
               /\ Len(stack') - n \in Sizes([kind |-> "syscall", at |-> "iret"])
               /\ \A p \in 1 .. n : WordAt(p)' = WordAt(p)
    BY <1>1, <1>3, <1>4 DEF Sizes
  <1>5. "syscall" \in Kinds \ {"interrupt"} /\ "iret" \in Steps["syscall"]
    BY DEF Kinds, Steps
  <1>6. QED
    BY <1>1, <1>2, <1>4, <1>5, OtherStep

LEMMA SysPopflKeeps == ASSUME LInv, SysPopfl PROVE LInv'
  <1>1. On("syscall", "popfl") /\ NextStep("iret") /\ UNCHANGED entry
        /\ PopRegs(<<"flags">>)
    BY DEF SysPopfl
  <1>2. PICK N \in Nat : N = Len(stack)
    BY LenProperties DEF LInv, LTypeOK
  <1>3. N > 0
    <2>1. PICK base : Layout(base)
      BY DEF LInv
    <2>2. PICK L \in Nat \ {0}, n \in Nat :
              /\ Act(L).kind = "syscall" /\ Act(L).at = "popfl"
              /\ n <= Len(stack) /\ Len(stack) - n \in Sizes(Act(L))
      BY <1>1, <2>1, TopFacts DEF LInv
    <2>3. QED
      BY <1>2, <2>2 DEF Sizes
  <1>4. /\ stack' \in Seq(Words) /\ Len(stack') = N - 1
        /\ \A p \in 1 .. N - 1 : WordAt(p)' = WordAt(p)
        /\ regs' \in RegFiles
    BY <1>1, <1>2, <1>3, PopFlags DEF LInv
  <1>5. ASSUME NEW n \in Nat, n <= Len(stack),
               Len(stack) - n \in Sizes([kind |-> "syscall", at |-> "popfl"])
        PROVE  /\ n <= Len(stack')
               /\ Len(stack') - n \in Sizes([kind |-> "syscall", at |-> "iret"])
               /\ \A p \in 1 .. n : WordAt(p)' = WordAt(p)
    BY <1>2, <1>4, <1>5 DEF Sizes
  <1>6. "syscall" \in Kinds \ {"interrupt"} /\ "iret" \in Steps["syscall"]
    BY DEF Kinds, Steps
  <1>7. QED
    BY <1>1, <1>4, <1>5, <1>6, OtherStep

\* A system call's iret either goes astray or, as there is nothing below it,
\* leaves an empty chain of activations.
LEMMA SysIretKeeps == ASSUME LInv, SysIret PROVE LInv'
  <1>1. On("syscall", "iret")
    BY DEF SysIret, Iret
  <1>2. CASE NextStep("derailed") /\ UNCHANGED <<regs, stack, entry>>
    <2>1. regs' \in RegFiles /\ stack' \in Seq(Words)
      BY <1>2 DEF LInv, LTypeOK
    <2>2. \A p : WordAt(p)' = WordAt(p)
      BY <1>2 DEF WordAt
    <2>3. ASSUME NEW n \in Nat, n <= Len(stack),
                 Len(stack) - n \in Sizes([kind |-> "syscall", at |-> "iret"])
          PROVE  /\ n <= Len(stack')
                 /\ Len(stack') - n \in Sizes([kind |-> "syscall", at |-> "derailed"])
                 /\ \A p \in 1 .. n : WordAt(p)' = WordAt(p)
      BY <1>2, <2>2, <2>3 DEF Sizes
    <2>4. "syscall" \in Kinds \ {"interrupt"} /\ "derailed" \in Steps["syscall"]
      BY DEF Kinds, Steps
    <2>5. QED
      BY <1>1, <1>2, <2>1, <2>3, <2>4, OtherStep
  <1>3. CASE /\ regs' = [regs EXCEPT !["flags"] = stack[3].value]
             /\ stack' = SubSeq(stack, 4, Len(stack))
             /\ active' = Tail(active) /\ entry' = Tail(entry)
    <2>1. PICK base : Layout(base)
      BY DEF LInv
    <2>2. PICK L \in Nat \ {0}, n \in Nat :
              /\ Len(active) = L /\ Act(L).kind = "syscall" /\ Act(L).at = "iret"
              /\ n <= Len(stack) /\ Len(stack) - n \in Sizes(Act(L))
              /\ ActivationOk(L, n)
      BY <1>1, <2>1, TopFacts DEF LInv
    <2>3. L = 1
      BY <2>2 DEF ActivationOk
    <2>4. Len(stack) \in Nat /\ Len(stack) >= 3
      <3>1. Len(stack) \in Nat
        BY LenProperties DEF LInv, LTypeOK
      <3>2. QED
        BY <2>2, <3>1 DEF Sizes
    <2>5. regs' \in RegFiles
      <3>1. stack[3] \in Words
        <4>1. stack \in Seq(Words) /\ 3 \in 1 .. Len(stack)
          BY <2>4 DEF LInv, LTypeOK
        <4>2. QED
          BY <4>1, ElementOfSeq
      <3>2. QED
        BY <1>3, <3>1 DEF LInv, LTypeOK, RegFiles, Words
    <2>6. LTypeOK /\ ~(L > 1)
      BY <2>3 DEF LInv
    <2>7. QED
      BY <1>3, <2>1, <2>2, <2>4, <2>5, <2>6, ReturnKeeps
  <1>4. QED
    BY <1>2, <1>3 DEF SysIret, Iret

----------------------------------------------------------------------------
\* The invariant

LEMMA InitLInv == LinkageInit => LInv
  <1> SUFFICES ASSUME LinkageInit PROVE LInv
    OBVIOUS
  <1>1. regs \in RegFiles
    BY DEF LinkageInit, RegFiles, Values
  <1>2. /\ stack = << >> /\ active = << >> /\ entry = << >>
        /\ Len(stack) = 0 /\ Len(active) = 0 /\ Len(entry) = 0
    BY DEF LinkageInit
  <1>3. LTypeOK
    BY <1>1, <1>2 DEF LTypeOK
  <1>4. PICK base : base = [d \in 1 .. 1 |-> 0]
    OBVIOUS
  <1>5. Layout(base)
    <2>1. /\ base \in [1 .. 0 + 1 -> Nat] /\ base[0 + 1] = 0
          /\ \A d, e \in 1 .. 0 + 1 : d <= e => base[d] <= base[e]
      BY <1>4
    <2>2. \A d \in 1 .. 0 : FALSE
      OBVIOUS
    <2>3. QED
      BY <1>2, <2>1, <2>2 DEF Layout
  <1>6. QED
    BY <1>3, <1>5 DEF LInv

LEMMA NextKeepsLInv == LInv /\ [LinkageNext]_linkageVars => LInv'
  <1> SUFFICES ASSUME LInv, [LinkageNext]_linkageVars PROVE LInv'
    OBVIOUS
  <1>1. CASE Interrupt
    BY <1>1, VectorKeeps DEF Interrupt, Kinds
  <1>2. CASE Exception
    BY <1>2, VectorKeeps DEF Exception, Kinds
  <1>3. CASE SystemCall
    BY <1>3, VectorKeeps DEF SystemCall, Kinds, Derailed
  <1>4. CASE ExcCall
    <2>1. /\ "exception" \in Kinds \ {"interrupt"} /\ "hlt" \in Steps["exception"]
          /\ Sizes([kind |-> "exception", at |-> "call"])
                 = Sizes([kind |-> "exception", at |-> "hlt"])
      BY DEF Kinds, Steps, Sizes
    <2>2. QED
      BY <1>4, <2>1, OtherCall DEF ExcCall
  <1>5. CASE SysCall
    <2>1. /\ "syscall" \in Kinds \ {"interrupt"} /\ "popfl" \in Steps["syscall"]
          /\ Sizes([kind |-> "syscall", at |-> "range"])
                 = Sizes([kind |-> "syscall", at |-> "popfl"])
      BY DEF Kinds, Steps, Sizes
    <2>2. QED
      BY <1>5, <2>1, OtherCall DEF SysCall
  <1>6. CASE UNCHANGED linkageVars
    <2>1. UNCHANGED <<regs, stack, active, entry>>
      BY <1>6 DEF linkageVars
    <2>2. PICK base : Layout(base)
      BY DEF LInv
    <2>3. Layout(base)'
      BY <2>1, <2>2 DEF Layout, ActivationOk, InterruptOk, HardwareWords, PushalWords,
         FlagsWord, Current, Act, Ent, WordAt
    <2>4. QED
      BY <2>1, <2>3 DEF LInv, LTypeOK
  <1>7. QED
    BY <1>1, <1>2, <1>3, <1>4, <1>5, <1>6, PushalKeeps, PushflKeeps, IntCallKeeps,
       PopflKeeps, PopalKeeps, IretKeeps, ExcPushKeeps, SysPushKeeps, SysFailKeeps,
       SysPopflKeeps, SysIretKeeps DEF LinkageNext

\* An interrupt's linkage never leaves through words it did not find there,
\* for any depth of nesting.
THEOREM InterruptsComeBack == LinkageSpec => []InterruptsReturn
  <1>1. LInv => InterruptsReturn
    <2> SUFFICES ASSUME LInv, Depth > 0, Head(active).kind = "interrupt"
                 PROVE  Head(active).at # "derailed"
      BY DEF InterruptsReturn, Derailed
    <2>1. On("interrupt", Head(active).at)
      BY DEF On
    <2>2. PICK base : \E L \in Nat \ {0}, n \in Nat : IntKnows(Head(active).at, base, L, n)
      BY <2>1, IntFacts
    <2>3. QED
      BY <2>2 DEF IntKnows, Steps
  <1>2. QED
    BY <1>1, InitLInv, NextKeepsLInv, PTL DEF LinkageSpec

\* A step that ends the innermost activation, an interrupt, is its iret.
LEMMA OnlyIretEnds ==
    ASSUME LInv, [LinkageNext]_linkageVars, Depth > 0, Head(active).kind = "interrupt",
           Len(active') < Depth
    PROVE  IntIret
  <1>1. PICK L \in Nat : Len(active) = L /\ L > 0
    BY LenProperties DEF LInv, LTypeOK, Depth
  <1>2. Len(active') < L /\ Depth = L
    BY <1>1 DEF Depth
  <1>3. ASSUME NEW to, NextStep(to)
        PROVE  FALSE
    <2>1. active \in Seq(Activations) /\ active # << >>
      BY <1>1 DEF LInv, LTypeOK
    <2>2. Tail(active) \in Seq(Activations) /\ Len(Tail(active)) = L - 1
      BY <1>1, <2>1, HeadTailProperties
    <2>3. PICK r, x : r = Tail(active) /\ x = [Head(active) EXCEPT !.at = to]
      OBVIOUS
    <2>4. Len(<<x>> \o r) = L
      BY <2>2, <2>3
    <2>5. QED
      BY <1>2, <1>3, <2>3, <2>4 DEF NextStep
  <1>4. ASSUME NEW kind, Vector(kind)
        PROVE  FALSE
    <2>1. active \in Seq(Activations)
      BY DEF LInv, LTypeOK
    <2>2. PICK x : x = [kind |-> kind, at |-> "enter"]
      OBVIOUS
    <2>3. Len(<<x>> \o active) = L + 1
      BY <1>1, <2>1
    <2>4. QED
      BY <1>1, <1>2, <1>4, <2>2, <2>3 DEF Vector
  <1>5. ~(UNCHANGED linkageVars)
    BY <1>1, <1>2 DEF linkageVars
  <1>6. ~SysIret
    BY DEF SysIret, Iret, On
  <1>7. ~Interrupt /\ ~Exception /\ ~SystemCall
    BY <1>4 DEF Interrupt, Exception, SystemCall
  <1>8. /\ ~IntPushal /\ ~IntPushfl /\ ~IntCall /\ ~IntPopfl /\ ~IntPopal
        /\ ~ExcPush /\ ~ExcCall /\ ~SysPush /\ ~SysFail /\ ~SysCall /\ ~SysPopfl
    BY <1>3 DEF IntPushal, IntPushfl, IntCall, IntPopfl, IntPopal, ExcPush, ExcCall,
       SysPush, SysFail, SysCall, SysPopfl, CallBody
  <1>9. QED
    BY <1>5, <1>6, <1>7, <1>8 DEF LinkageNext

\* An interrupt is invisible to the code it interrupts, at any instruction of
\* the other linkages and for any depth of nesting.
THEOREM InterruptsTransparent == LinkageSpec => InterruptTransparent
  <1>1. LInv /\ [LinkageNext]_linkageVars =>
            [Depth > 0 /\ Head(active).kind = "interrupt" /\ Len(active') < Depth
                => regs' = Head(entry)]_linkageVars
    BY OnlyIretEnds, IretKeeps
  <1>2. QED
    BY <1>1, InitLInv, NextKeepsLInv, PTL DEF LinkageSpec, InterruptTransparent
=============================================================================
