------------------------------ MODULE Linkage ------------------------------
(***************************************************************************)
(* The assembly linkage of interrupts (interruptWrapper.S), exceptions     *)
(* (exceptionWrapper.S) and system calls (syscallWrapper.S): what each     *)
(* pushes on the kernel stack, what it pops, and where iret goes.          *)
(*                                                                         *)
(* All gates are trap gates, so an interrupt may arrive between any two    *)
(* instructions of a linkage, up to MaxNesting deep.  C functions follow   *)
(* the calling convention: they may change eax, ecx, edx and the flags,    *)
(* and keep the other registers.                                           *)
(***************************************************************************)
EXTENDS Integers, Sequences

CONSTANT MaxNesting      \* bound: linkages active at a time

ASSUME LinkageAssumption == MaxNesting \in Nat

Scratch   == {"eax", "ecx", "edx"}
Preserved == {"ebx", "esi", "edi", "ebp"}
Registers == Scratch \cup Preserved \cup {"flags"}

VARIABLES regs,     \* what each register holds, as an abstract token
          stack,    \* words of the kernel stack, top first
          active,   \* active linkages, innermost first: kind and next step
          entry     \* registers at the entry of each: history

linkageVars == <<regs, stack, active, entry>>

\* Values are named by the register that held them in the interrupted
\* program, or "junk" when a C function has changed them.
Word(kind, value) == [kind |-> kind, value |-> value]

LinkageInit ==
    /\ regs = [r \in Registers |-> r]
    /\ stack = << >>
    /\ active = << >>
    /\ entry = << >>

Depth == Len(active)
Derailed == Depth > 0 /\ Head(active).at = "derailed"
NextStep(at) == active' = <<[Head(active) EXCEPT !.at = at]>> \o Tail(active)
On(kind, at) == Depth > 0 /\ Head(active).kind = kind /\ Head(active).at = at

PushRegs(rs) == stack' = [i \in 1 .. Len(rs) |-> Word("reg", regs[rs[i]])] \o stack

\* The processor pushes flags, cs and eip and goes through the gate.  A word
\* of kind "eip" remembers which activation it returns from.
Vector(kind) ==
    /\ stack' = <<Word("eip", Depth + 1), Word("cs", Depth + 1),
                  Word("eflags", regs["flags"])>> \o stack
    /\ active' = <<[kind |-> kind, at |-> "enter"]>> \o active
    /\ entry' = <<regs>> \o entry
    /\ UNCHANGED regs

Interrupt == ~Derailed /\ Depth < MaxNesting /\ Vector("interrupt")
Exception == ~Derailed /\ Depth < MaxNesting /\ Vector("exception")
SystemCall == Depth = 0 /\ MaxNesting > 0 /\ Vector("syscall")

\* A call changes the scratch registers and the flags and leaves the stack
\* as it was.
CallBody(kind, from, to) ==
    /\ On(kind, from)
    /\ regs' = [r \in Registers |-> IF r \in Scratch \cup {"flags"} THEN "junk"
                                    ELSE regs[r]]
    /\ NextStep(to)
    /\ UNCHANGED <<stack, entry>>

\* iret pops eip, cs and the flags; anything but the words the processor
\* pushed sends it elsewhere.
Iret(kind, at) ==
    /\ On(kind, at)
    /\ IF stack[1] = Word("eip", Depth) /\ stack[2] = Word("cs", Depth)
       THEN /\ regs' = [regs EXCEPT !["flags"] = stack[3].value]
            /\ stack' = SubSeq(stack, 4, Len(stack))
            /\ active' = Tail(active)
            /\ entry' = Tail(entry)
       ELSE /\ NextStep("derailed")
            /\ UNCHANGED <<regs, stack, entry>>

PopRegs(rs) ==
    /\ regs' = [r \in Registers |->
                   IF \E i \in 1 .. Len(rs) : rs[i] = r
                   THEN stack[CHOOSE i \in 1 .. Len(rs) : rs[i] = r].value
                   ELSE regs[r]]
    /\ stack' = SubSeq(stack, Len(rs) + 1, Len(stack))

----------------------------------------------------------------------------
\* INTERRUPT_WRAPPER: pushal; pushfl; call func; popfl; popal; iret

\* Top of the stack first: the last register pushed is edi.
PushAll == <<"edi", "esi", "ebp", "ebx", "edx", "ecx", "eax">>

IntPushal ==
    /\ On("interrupt", "enter")
    /\ PushRegs(PushAll)
    /\ NextStep("pushfl")
    /\ UNCHANGED <<regs, entry>>

IntPushfl ==
    /\ On("interrupt", "pushfl")
    /\ PushRegs(<<"flags">>)
    /\ NextStep("call")
    /\ UNCHANGED <<regs, entry>>

IntCall == CallBody("interrupt", "call", "popfl")

\* Mutant: popal is forgotten.
IntPopfl_no_popal ==
    /\ On("interrupt", "popfl")
    /\ PopRegs(<<"flags">>)
    /\ NextStep("iret")
    /\ UNCHANGED entry

IntPopfl ==
    /\ On("interrupt", "popfl")
    /\ PopRegs(<<"flags">>)
    /\ NextStep("popal")
    /\ UNCHANGED entry

\* Mutant: the registers are popped in the order they were pushed.
IntPopal_swapped ==
    /\ On("interrupt", "popal")
    /\ PopRegs(<<"eax", "ecx", "edx", "ebx", "ebp", "esi", "edi">>)
    /\ NextStep("iret")
    /\ UNCHANGED entry

IntPopal ==
    /\ On("interrupt", "popal")
    /\ PopRegs(PushAll)
    /\ NextStep("iret")
    /\ UNCHANGED entry

IntIret == Iret("interrupt", "iret")

----------------------------------------------------------------------------
\* EXCEPTION_WRAPPER: the vector is pushed and exception_handler, which never
\* returns, is called.
ExcPush ==
    /\ On("exception", "enter")
    /\ stack' = <<Word("vector", 0)>> \o stack
    /\ NextStep("call")
    /\ UNCHANGED <<regs, entry>>

ExcCall == CallBody("exception", "call", "hlt")

----------------------------------------------------------------------------
\* syscall_wrapper

\* Top first: ebx was pushed last.
SysArgs == <<"ebx", "ecx", "edx", "edi", "esi", "ebp">>

SysPush ==
    /\ On("syscall", "enter")
    /\ PushRegs(SysArgs)
    /\ NextStep("range")
    /\ UNCHANGED <<regs, entry>>

\* fail: movl $-1, %eax; iret
SysFail ==
    /\ On("syscall", "range")
    /\ regs' = [regs EXCEPT !["eax"] = "junk"]
    /\ NextStep("iret")
    /\ UNCHANGED <<stack, entry>>

SysCall == CallBody("syscall", "range", "popfl")

\* One popfl, and the six words pushed are not removed.
SysPopfl ==
    /\ On("syscall", "popfl")
    /\ PopRegs(<<"flags">>)
    /\ NextStep("iret")
    /\ UNCHANGED entry

SysIret == Iret("syscall", "iret")

LinkageNext ==
    \/ Interrupt \/ Exception \/ SystemCall
    \/ IntPushal \/ IntPushfl \/ IntCall \/ IntPopfl \/ IntPopal \/ IntIret
    \/ ExcPush \/ ExcCall
    \/ SysPush \/ SysFail \/ SysCall \/ SysPopfl \/ SysIret

LinkageSpec == LinkageInit /\ [][LinkageNext]_linkageVars

----------------------------------------------------------------------------
\* Properties

\* An interrupt is invisible to the code it interrupts, at any instruction of
\* the other linkages and however deep: when its iret is done, every register
\* and the flags are as they were at its entry.
InterruptTransparent ==
    [][Depth > 0 /\ Head(active).kind = "interrupt" /\ Len(active') < Depth
          => regs' = Head(entry)]_linkageVars

\* No interrupt handler's iret leaves through a word it did not find there.
InterruptsReturn ==
    Depth > 0 /\ Head(active).kind = "interrupt" => ~Derailed

\* A system call returns to the instruction after its int 0x80.
SyscallReturns == ~Derailed
============================================================================
