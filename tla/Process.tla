------------------------------ MODULE Process ------------------------------
(***************************************************************************)
(* The process core of the kernel (syscall.c, pit.c): the process pool,    *)
(* execute, halt, the round-robin scheduler driven by the PIT, and the     *)
(* contexts that move the one CPU between them.                            *)
(*                                                                         *)
(* Each terminal runs one chain of processes: its root shell, the program  *)
(* the shell executed, and so on; only the last one of a chain can run.    *)
(* Every IDT gate is a trap gate (idtInit.c), so a PIT tick can arrive at  *)
(* any instruction of a system call.  The program counter of the CPU is    *)
(* therefore explicit, and Tick is enabled at every point.  schedule()     *)
(* runs between cli() of pit_handler and its own sti(), two instructions   *)
(* before its end, and is one step.                                        *)
(*                                                                         *)
(* At some points a tick leaves the tables torn: they are the windows      *)
(* below, and the history variable torn records that a tick has come in    *)
(* one.  Most promises of execute, halt and schedule are kept until then   *)
(* and no longer, which the properties say; RefusesFull and NeverPanics    *)
(* are what the code's comments and messages promise without that          *)
(* exception, and are violated.                                            *)
(*                                                                         *)
(* Kernel stacks: process p owns the 8 KB area p, whose low end holds its  *)
(* pcb.  esp0 is the area a kernel entry from user mode will use.  A saved *)
(* context remembers the area its frames lie in; a later entry from user   *)
(* mode into that area overwrites them.                                    *)
(***************************************************************************)
EXTENDS Integers, FiniteSets

CONSTANTS NumTerminals,   \* terminals, and root shells: 3 in the code
          NumPids,        \* process slots besides slot 0: 6 in the code
          EarlyExecute,   \* may a shell execute before every root has run?
          Counts          \* bound: values of process_count explored

ASSUME SizesAssumption == /\ NumTerminals \in Nat \ {0}
                          /\ NumPids \in Nat
                          /\ NumPids >= NumTerminals

Terminals == 1 .. NumTerminals
Pids      == 1 .. NumPids
Slots     == 0 .. NumPids
Roots     == Terminals          \* process t is the root shell of terminal t

ExecPoints == {"exec_check", "exec_parse", "exec_load", "exec_store",
               "exec_scan", "exec_take", "exec_pcb", "exec_cpid", "exec_page",
               "exec_save", "exec_switch", "exec_esp0", "exec_iret",
               "exec_return"}
HaltPoints == {"halt_enter", "root_enter", "halt_load", "halt_store",
               "halt_release", "halt_close", "halt_pid", "halt_terminal",
               "halt_esp0", "halt_page", "halt_switch"}

\* The hlt loop of exception_handler, reached because a program raised an
\* exception, because a saved frame had been overwritten, or because a pcb
\* held no frame.  printf turns interrupts on again before the loop
\* (set_cursor_position ends with sti), so ticks go on.
BlueScreens == {"fault", "overrun", "panic"}

\* Where the CPU can be, and hence where a saved context can resume.
Points == {"boot", "user", "wait"} \cup ExecPoints \cup HaltPoints
          \cup BlueScreens

ASSUME BoundsAssumption == EarlyExecute \in BOOLEAN /\ Counts \subseteq Int

\* The windows in which a tick breaks an invariant, named for what it tears.

\* process_count has been tested or is being updated, or it no longer counts
\* a slot that is still in use.
CountWindow == {"exec_parse", "exec_load", "exec_store",
                "halt_store", "halt_release"}
\* A slot has been found free and not yet taken.
AllocWindow == {"exec_take"}
\* current_process_id names the child, active_pid still the parent.
ExecWindow  == {"exec_page", "exec_save", "exec_switch"}
\* The slot is free again while its pcb is still in use.
ReleaseWindow == {"halt_close", "halt_pid"}
\* active_pid is the parent, the CPU is still on the child's stack.
ReturnWindow == {"halt_terminal", "halt_esp0", "halt_page", "halt_switch"}

SafePoints == Points \ (CountWindow \cup AllocWindow \cup ExecWindow
                        \cup ReleaseWindow \cup ReturnWindow)

\* Values of a pcb's current_esp/current_ebp that designate no frame:
\* never written, the initial USER_STACK_BASE_ADDRESS, frames already
\* returned through, frames overwritten by another process.
DeadContexts == {"none", "entry", "stale", "smashed"}

Areas == 0 .. NumPids + 1

VARIABLES
    active_terminal,     \* terminal the scheduler is serving
    active_pid,          \* process the kernel believes is running
    current_process_id,  \* per terminal: the process schedule() resumes
    processes,           \* the pool: 1 for a slot in use
    process_count,
    parent_pid,          \* per pcb
    pcb_terminal,        \* per pcb
    context,             \* per pcb: what current_esp/current_ebp designate
    esp0,                \* tss.esp0, as a stack area
    user_page,           \* process whose 4 MB page is mapped at 128 MB
    cpu,                 \* the running flow: point, stack area, local value
    torn                 \* a tick has come in one of the windows, or a shell
                         \* has executed before every root had run: history

pool  == <<processes, process_count>>
tree  == <<parent_pid, pcb_terminal>>
where == <<active_terminal, active_pid, current_process_id>>
hw    == <<esp0, user_page>>
vars  == <<pool, tree, where, hw, context, cpu, torn>>

----------------------------------------------------------------------------
\* Flows and contexts

Flow(pc, area, loc) == [pc |-> pc, area |-> area, loc |-> loc]
InUser   == Flow("user", 0, 0)
Dead(k)  == Flow(k, 0, 0)

Goto(pc) == cpu' = [cpu EXCEPT !.pc = pc]
At(pc)   == cpu.pc = pc

\* What remains of the saved contexts ctx once a kernel entry from user mode
\* has pushed its frames at the top of the given area.
Overwrite(ctx, area) ==
    [p \in Pids |-> IF ctx[p].pc \in Points /\ ctx[p].area = area
                    THEN Dead("smashed") ELSE ctx[p]]

\* Load esp and ebp from the pcb of p and return through the frame found
\* there; anything that is not a frame ends in an exception.
ResumeFlow(ctx, p)  == IF ctx[p].pc \in Points THEN ctx[p]
                       ELSE IF ctx[p].pc = "smashed" THEN Flow("overrun", 0, 0)
                       ELSE Flow("panic", 0, 0)
AfterResume(ctx, p) == [ctx EXCEPT ![p] = Dead("stale")]

----------------------------------------------------------------------------
\* kernel.c and create_terminal_N_shell: everything is set up, no process has
\* run, and the boot code waits for the first tick.

Init ==
    /\ active_terminal = 1
    /\ active_pid = 0
    /\ current_process_id = [t \in Terminals |-> 0]
    /\ processes = [s \in Slots |-> IF s \in Roots \cup {0} THEN 1 ELSE 0]
    /\ process_count = NumTerminals
    /\ parent_pid = [p \in Pids |-> 0]
    /\ pcb_terminal = [p \in Pids |-> IF p \in Roots THEN p ELSE 0]
    /\ context = [p \in Pids |-> IF p \in Roots THEN Dead("entry")
                                 ELSE Dead("none")]
    /\ esp0 = 1
    /\ user_page = NumTerminals
    /\ cpu = Flow("boot", 1, 0)
    /\ torn = FALSE

----------------------------------------------------------------------------
\* System calls that do not touch this state (read, write, ...): the process
\* is in the kernel, possibly polling, and then back in user mode.

EnterKernel(pc) ==
    /\ At("user")
    /\ context' = Overwrite(context, esp0)
    /\ cpu' = Flow(pc, esp0, 0)
    /\ UNCHANGED <<pool, tree, where, hw>>

\* A shell executes what was typed at it, which takes far longer than the
\* NumTerminals ticks after which every root shell has run.
AllStarted == \A t \in Terminals : current_process_id[t] # 0

CallOther   == EnterKernel("wait")
CallExecute == /\ process_count \in Counts
               /\ EarlyExecute \/ AllStarted
               /\ EnterKernel("exec_check")
               /\ torn' = (torn \/ ~AllStarted)
CallHalt    == EnterKernel("halt_enter")

\* A program raises an exception: the handler never returns.
UserException == EnterKernel("fault")

ReturnToUser ==
    /\ cpu' = InUser
    /\ UNCHANGED <<pool, tree, where, hw, context>>

OtherReturn == At("wait") /\ ReturnToUser

----------------------------------------------------------------------------
\* syscall_execute

\* Mutant: execute waits for a slot instead of refusing.
ExecRefuse_waits ==
    /\ At("exec_check") /\ process_count = NumPids
    /\ UNCHANGED <<pool, tree, where, hw, context, cpu>>

\* if (process_count == MAX_NUM_PROCESSES) return -1
ExecRefuse == At("exec_check") /\ process_count = NumPids /\ ReturnToUser

ExecAdmit ==
    /\ At("exec_check")
    /\ process_count # NumPids
    /\ Goto("exec_parse")
    /\ UNCHANGED <<pool, tree, where, hw, context>>

\* Too long, no such file, not a regular file, not an executable.
ExecBadCommand == At("exec_parse") /\ ReturnToUser

ExecGoodCommand ==
    /\ At("exec_parse")
    /\ Goto("exec_load")
    /\ UNCHANGED <<pool, tree, where, hw, context>>

\* process_count++ compiles to a load, an add and a store.
ExecLoad ==
    /\ At("exec_load")
    /\ cpu' = [cpu EXCEPT !.pc = "exec_store", !.loc = process_count]
    /\ UNCHANGED <<pool, tree, where, hw, context>>

ExecStore ==
    /\ At("exec_store")
    /\ process_count' = cpu.loc + 1
    /\ cpu' = [cpu EXCEPT !.pc = "exec_scan", !.loc = 0]
    /\ UNCHANGED <<processes, tree, where, hw, context>>

\* get_process_available: find the first free slot, then mark it.
FreeSlots == {s \in Slots : processes[s] = 0}
FirstFree == CHOOSE s \in FreeSlots : \A r \in FreeSlots : s <= r

ExecNoSlot == At("exec_scan") /\ FreeSlots = {} /\ ReturnToUser

ExecScan ==
    /\ At("exec_scan")
    /\ FreeSlots # {}
    /\ cpu' = [cpu EXCEPT !.pc = "exec_take", !.loc = FirstFree]
    /\ UNCHANGED <<pool, tree, where, hw, context>>

\* Mutant: the slot is not marked.
ExecTake_unmarked ==
    /\ At("exec_take")
    /\ Goto("exec_pcb")
    /\ UNCHANGED <<pool, tree, where, hw, context>>

ExecTake ==
    /\ At("exec_take")
    /\ processes' = [processes EXCEPT ![cpu.loc] = 1]
    /\ Goto("exec_pcb")
    /\ UNCHANGED <<process_count, tree, where, hw, context>>

ExecPcb ==
    /\ At("exec_pcb")
    /\ parent_pid' = [parent_pid EXCEPT ![cpu.loc] = active_pid]
    /\ pcb_terminal' = [pcb_terminal EXCEPT ![cpu.loc] = active_terminal]
    /\ context' = [context EXCEPT ![cpu.loc] = Dead("entry")]
    /\ Goto("exec_cpid")
    /\ UNCHANGED <<pool, where, hw>>

ExecCpid ==
    /\ At("exec_cpid")
    /\ current_process_id' =
           [current_process_id EXCEPT ![active_terminal] = cpu.loc]
    /\ Goto("exec_page")
    /\ UNCHANGED <<pool, tree, active_terminal, active_pid, hw, context>>

\* paging_execute(new_process_id), and the program is copied in.
ExecPage ==
    /\ At("exec_page")
    /\ user_page' = cpu.loc
    /\ Goto("exec_save")
    /\ UNCHANGED <<pool, tree, where, esp0, context>>

\* Mutant: the frame is stored in the child's pcb.
ExecSave_in_child ==
    /\ At("exec_save")
    /\ context' = [context EXCEPT ![cpu.loc] =
                       Flow("exec_return", cpu.area, 0)]
    /\ Goto("exec_switch")
    /\ UNCHANGED <<pool, tree, where, hw>>

\* The parent's esp and ebp: when they are loaded again, execute returns.
ExecSave ==
    /\ At("exec_save")
    /\ context' = [context EXCEPT ![active_pid] =
                       Flow("exec_return", cpu.area, 0)]
    /\ Goto("exec_switch")
    /\ UNCHANGED <<pool, tree, where, hw>>

ExecSwitch ==
    /\ At("exec_switch")
    /\ active_pid' = cpu.loc
    /\ Goto("exec_esp0")
    /\ UNCHANGED <<pool, tree, active_terminal, current_process_id, hw,
                   context>>

\* esp0 = KERNEL_STACK_BASE_ADDRESS - active_pid * USER_KERNEL_STACK_SIZE,
\* which is the top of the area of the next pid (schedule, halt and
\* boot_enter use active_pid - 1).
ExecEsp0 ==
    /\ At("exec_esp0")
    /\ esp0' = active_pid + 1
    /\ Goto("exec_iret")
    /\ UNCHANGED <<pool, tree, where, user_page, context>>

\* context_switch_execute
ExecIret == At("exec_iret") /\ ReturnToUser

\* The parent's execute returns the status its child halted with.
ExecReturn == At("exec_return") /\ ReturnToUser

----------------------------------------------------------------------------
\* syscall_halt

\* The root shell of a terminal is started again instead of halting.
HaltRoot ==
    /\ At("halt_enter")
    /\ active_pid \in Roots
    /\ Goto("root_enter")
    /\ UNCHANGED <<pool, tree, where, hw, context>>

\* boot_enter_terminal_N for N = active_pid
EnterRoot(t) ==
    /\ active_terminal' = t
    /\ active_pid' = t
    /\ current_process_id' = [current_process_id EXCEPT ![t] = t]
    /\ user_page' = t
    /\ esp0' = t
    /\ cpu' = InUser

RootEnter ==
    /\ At("root_enter")
    /\ EnterRoot(active_pid)
    /\ UNCHANGED <<pool, tree, context>>

\* Mutant: root shells are halted like any other process.
HaltChild_any ==
    /\ At("halt_enter")
    /\ Goto("halt_load")
    /\ UNCHANGED <<pool, tree, where, hw, context>>

HaltChild ==
    /\ At("halt_enter")
    /\ active_pid \notin Roots
    /\ Goto("halt_load")
    /\ UNCHANGED <<pool, tree, where, hw, context>>

HaltLoad ==
    /\ At("halt_load")
    /\ cpu' = [cpu EXCEPT !.pc = "halt_store", !.loc = process_count]
    /\ UNCHANGED <<pool, tree, where, hw, context>>

\* Mutant: the count is not lowered.
HaltStore_same ==
    /\ At("halt_store")
    /\ process_count' = cpu.loc
    /\ cpu' = [cpu EXCEPT !.pc = "halt_release", !.loc = 0]
    /\ UNCHANGED <<processes, tree, where, hw, context>>

HaltStore ==
    /\ At("halt_store")
    /\ process_count' = cpu.loc - 1
    /\ cpu' = [cpu EXCEPT !.pc = "halt_release", !.loc = 0]
    /\ UNCHANGED <<processes, tree, where, hw, context>>

\* release_process
HaltRelease ==
    /\ At("halt_release")
    /\ processes' = [processes EXCEPT ![active_pid] = 0]
    /\ Goto("halt_close")
    /\ UNCHANGED <<process_count, tree, where, hw, context>>

\* The descriptors are closed and the parent is read from the pcb.
HaltClose ==
    /\ At("halt_close")
    /\ cpu' = [cpu EXCEPT !.pc = "halt_pid", !.loc = parent_pid[active_pid]]
    /\ UNCHANGED <<pool, tree, where, hw, context>>

HaltPid ==
    /\ At("halt_pid")
    /\ active_pid' = cpu.loc
    /\ cpu' = [cpu EXCEPT !.pc = "halt_terminal", !.loc = 0]
    /\ UNCHANGED <<pool, tree, active_terminal, current_process_id, hw,
                   context>>

HaltTerminal ==
    /\ At("halt_terminal")
    /\ active_terminal' = pcb_terminal[active_pid]
    /\ current_process_id' =
           [current_process_id EXCEPT ![active_terminal'] = active_pid]
    /\ Goto("halt_esp0")
    /\ UNCHANGED <<pool, tree, active_pid, hw, context>>

HaltEsp0 ==
    /\ At("halt_esp0")
    /\ esp0' = active_pid
    /\ Goto("halt_page")
    /\ UNCHANGED <<pool, tree, where, user_page, context>>

\* Mutant: the child's page stays mapped.
HaltPage_not_mapped ==
    /\ At("halt_page")
    /\ Goto("halt_switch")
    /\ UNCHANGED <<pool, tree, where, hw, context>>

HaltPage ==
    /\ At("halt_page")
    /\ user_page' = active_pid
    /\ Goto("halt_switch")
    /\ UNCHANGED <<pool, tree, where, esp0, context>>

\* context_switch_halt: return from the execute the parent is in.
HaltSwitch ==
    /\ At("halt_switch")
    /\ cpu' = ResumeFlow(context, active_pid)
    /\ context' = AfterResume(context, active_pid)
    /\ UNCHANGED <<pool, tree, where, hw>>

----------------------------------------------------------------------------
\* pit_handler and schedule

NextTerminal(t) == IF t = NumTerminals THEN 1 ELSE t + 1
PrevTerminal(t) == IF t = 1 THEN NumTerminals ELSE t - 1

\* A tick taken in user mode pushes its frames at esp0, one taken in the
\* kernel stays on the stack in use.
TickFlow == IF At("user") THEN Flow("user", esp0, 0) ELSE cpu
TickContext == IF At("user") THEN Overwrite(context, esp0) ELSE context

\* The pcb the interrupted flow is saved in: the running process, or the
\* previous root shell when the next terminal has not been started.
SaveSlot(t) == IF current_process_id[t] # 0 THEN active_pid
               ELSE PrevTerminal(t)

SavedContext(t) == [TickContext EXCEPT ![SaveSlot(t)] = TickFlow]

\* Mutant: the interrupted shell is not saved when the next one is started.
TickBoot_not_saved ==
    /\ LET t == NextTerminal(active_terminal)
       IN /\ current_process_id[t] = 0
          /\ context' = TickContext
          /\ EnterRoot(t)
    /\ UNCHANGED <<pool, tree>>

TickBoot ==
    /\ LET t == NextTerminal(active_terminal)
       IN /\ current_process_id[t] = 0
          /\ context' = SavedContext(t)
          /\ EnterRoot(t)
    /\ UNCHANGED <<pool, tree>>

TickResume ==
    /\ LET t == NextTerminal(active_terminal)
           p == current_process_id[t]
       IN /\ p # 0
          /\ active_terminal' = t
          /\ active_pid' = p
          /\ esp0' = p
          /\ user_page' = p
          /\ cpu' = ResumeFlow(SavedContext(t), p)
          /\ context' = AfterResume(SavedContext(t), p)
    /\ UNCHANGED <<pool, tree, current_process_id>>

Tick == /\ TickBoot \/ TickResume
        /\ torn' = (torn \/ cpu.pc \notin SafePoints)

----------------------------------------------------------------------------
\* Steps of the kernel code itself: once begun they go on.
ExecStep == /\ \/ ExecRefuse \/ ExecAdmit \/ ExecBadCommand \/ ExecGoodCommand
               \/ ExecLoad \/ ExecStore \/ ExecNoSlot \/ ExecScan \/ ExecTake
               \/ ExecPcb \/ ExecCpid \/ ExecPage \/ ExecSave \/ ExecSwitch
               \/ ExecEsp0 \/ ExecIret \/ ExecReturn
            /\ UNCHANGED torn

HaltStep == /\ \/ HaltRoot \/ RootEnter \/ HaltChild \/ HaltLoad \/ HaltStore
               \/ HaltRelease \/ HaltClose \/ HaltPid \/ HaltTerminal
               \/ HaltEsp0 \/ HaltPage \/ HaltSwitch
            /\ UNCHANGED torn

UserStep == /\ CallOther \/ CallHalt \/ UserException \/ OtherReturn
            /\ UNCHANGED torn

Next == ExecStep \/ HaltStep \/ UserStep \/ CallExecute \/ Tick

Spec == Init /\ [][Next]_vars

\* The PIT fires for ever and the PIC keeps the request pending until it can
\* be taken; a quantum is long enough for a kernel flow to make a step each
\* time it has the CPU.  Nothing forces a user program, or a polling read.
KernelStep(t) == active_terminal = t /\ (ExecStep \/ HaltStep)

FairSpec == /\ Spec
            /\ SF_vars(Tick)
            /\ \A t \in Terminals : SF_vars(KernelStep(t))

----------------------------------------------------------------------------
\* Properties

Allocated == {p \in Pids : processes[p] = 1}

\* The flow of control of a terminal: on the CPU, or saved in the pcb of the
\* process its current_process_id names, or not begun.
FlowOf(t) == IF t = active_terminal THEN cpu
             ELSE IF current_process_id[t] = 0 THEN Dead("none")
             ELSE context[current_process_id[t]]

\* Flows that have been counted and have not taken their slot yet, and flows
\* that are no longer counted and have not given theirs back yet.
Claiming == {t \in Terminals : FlowOf(t).pc \in {"exec_scan", "exec_take"}}
Leaving  == {t \in Terminals : FlowOf(t).pc = "halt_release"}

\* Terminals whose flow is gone, because a kernel entry of another process
\* overwrote its frames: execute's off-by-one in esp0 (ExecEsp0) allows it.
\* Such a flow may have been counted and may hold a slot; both are lost.
Lost == {t \in Terminals : FlowOf(t).pc \in {"smashed", "overrun"}}

FlowType == [pc : Points \cup DeadContexts,
             area : Areas, loc : Int]

\* Types of the kernel's tables and of the hardware state.
KernelTypes ==
    /\ active_terminal \in Terminals
    /\ active_pid \in Slots
    /\ current_process_id \in [Terminals -> Slots]
    /\ processes \in [Slots -> {0, 1}]
    /\ process_count \in Int
    /\ parent_pid \in [Pids -> Slots]
    /\ pcb_terminal \in [Pids -> Terminals \cup {0}]
    /\ context \in [Pids -> FlowType]
    /\ esp0 \in Areas
    /\ user_page \in Slots
    /\ cpu \in FlowType

TypeOK == KernelTypes /\ torn \in BOOLEAN

\* Until a tick comes in one of the windows: schedule() finds, for every other
\* terminal, a frame to resume in the pcb of the process current_process_id
\* names (or one that another process's kernel entry has overwritten).
SuspendedResumable ==
    ~torn => \A t \in Terminals \ {active_terminal} :
        current_process_id[t] # 0 => FlowOf(t).pc \in (Points \ {"panic"}) \cup {"smashed"}

\* Until a tick comes in one of the windows: halt finds in the pcb of the
\* parent it goes back to the frame of the execute its process was started
\* from, however many ticks and other executes happened in between (or one that
\* another process's kernel entry has overwritten).
ParentsResumable ==
    ~torn =>
    /\ \A t \in Terminals :
           current_process_id[t] \notin Roots \cup {0}
           /\ FlowOf(t).pc \notin {"exec_page", "exec_save"}
           => context[parent_pid[current_process_id[t]]].pc
                  \in {"exec_return", "smashed"}
    /\ cpu.pc \in ReturnWindow =>
           context[active_pid].pc \in {"exec_return", "smashed"}

\* The chain of a terminal: the process it runs, and the processes that wait
\* in execute for a child (the one about to wait included).
Waits(p) == p = active_pid \/ context[p].pc \in {"exec_return", "smashed"}
ChainOf(t) ==
    IF current_process_id[t] = 0 THEN {}
    ELSE {current_process_id[t]}
         \cup {p \in Allocated : pcb_terminal[p] = t /\ Waits(p)}

Chained == INSTANCE Chains
    WITH members <- [t \in Terminals |-> ChainOf(t)],
         top     <- current_process_id,
         parent  <- [p \in Pids |->
                        IF pcb_terminal[p] # 0 /\ p \in ChainOf(pcb_terminal[p])
                        THEN parent_pid[p] ELSE 0],
         broken  <- torn

\* Ticks may come between any steps of execute and halt, on any of the
\* terminals: until one comes in one of the windows, the chains change as
\* module Chains says and in no other way, so execute appends a process that is
\* in no chain, and halt takes off the last.
ImplementsChains == Chained!Spec

\* Until a tick comes in one of the windows: user code runs on its own page, as
\* the process its terminal names, and never from a slot that was released.
UserRunsAsItself ==
    ~torn /\ At("user") =>
        /\ user_page = active_pid
        /\ active_pid \in Allocated
        /\ current_process_id[active_terminal] = active_pid
        /\ pcb_terminal[active_pid] = active_terminal

\* process_count is the number of slots in use, up to the calls under way, and
\* does not exceed the pool; an execute whose frames were overwritten on the
\* way may leave it one too high, for ever.
Counted ==
    LET counted == Cardinality(Allocated) + Cardinality(Claiming)
                   - Cardinality(Leaving)
    IN /\ process_count \in counted .. counted + Cardinality(Lost)
       /\ process_count <= NumPids

\* The count is right until a tick comes in one of the windows.
PoolCount == ~torn => Counted

\* Root shells keep their slots for ever, whatever is torn by a tick.
RootsKeepSlots == \A r \in Roots : processes[r] = 1

\* The frames of a process that waits for its turn or for its child are
\* still there when it is resumed, as long as no tick has come in one of the
\* windows.  Violated: execute's esp0 is another process's stack.
NoStackOverrun == ~torn => ~At("overrun")

\* Every slot is in use, spoken for or lost.
PoolFull == Cardinality(FreeSlots) <= Cardinality(Claiming) + Cardinality(Lost)

\* Until a tick comes in one of the windows: execute refuses only when the pool
\* is full.
RefusalJustified == [][ExecRefuse /\ ~torn => PoolFull]_vars

\* Violated: execute says "Max number of processes reached" (syscall.c 109)
\* when it is; a tick that has a slot handed out twice, or that loses an update
\* of process_count, makes it say so with slots to spare.
RefusesFull == [][ExecRefuse => PoolFull]_vars

\* Violated: schedule and halt return through a frame that schedule or execute
\* has stored in the pcb ("store the stack information of the current process",
\* syscall.c 494); a tick in execute's or halt's windows has them load a pcb
\* that holds none.
NeverPanics == ~At("panic")

\* An execute or a halt that has begun ends: in the child, in the parent, back
\* in the caller or, if a tick tore it, in an exception.
KernelCallsEnd ==
    \A t \in Terminals :
        (FlowOf(t).pc \in ExecPoints \cup HaltPoints)
            ~> (FlowOf(t).pc \notin ExecPoints \cup HaltPoints)
============================================================================
