--------------------------- MODULE ProcessProofs ---------------------------
(***************************************************************************)
(* What holds of Process for any number of terminals and slots, with ticks *)
(* at every point of the kernel.  The first half holds whatever a tick     *)
(* tears: types, and that no root shell ever loses its slot.  The second   *)
(* half holds until a tick comes in one of the windows.                    *)
(*                                                                         *)
(* Neither is inductive.  halt writes through active_pid and through the   *)
(* parent it reads from a pcb, and a flow that was saved comes back with   *)
(* the active_pid of whichever pcb it was saved in.  The strengthening     *)
(* says what each point of a flow knows about the pid it runs as and about *)
(* its local value, for the flow on the CPU and for every saved one.       *)
(***************************************************************************)
EXTENDS Process, TLAPS, WellFoundedInduction, FiniteSetTheorems

\* Pcbs that have been filled in: those of the root shells, and every pcb an
\* execute has reached.  No pcb leaves this set.
Made == {p \in Pids : pcb_terminal[p] # 0}

HaltTail == {"halt_load", "halt_store", "halt_release", "halt_close"}
ExecOwns == {"exec_take", "exec_pcb"}
ExecMade == {"exec_cpid", "exec_page", "exec_save", "exec_switch"}

\* What the flow f knows when it runs as process p, M being Made.
FlowKnows(f, p, M) ==
    /\ f.pc \in HaltTail => p \notin Roots
    /\ f.pc = "root_enter" => p \in Roots
    /\ f.pc = "halt_pid" => f.loc \in M
    /\ f.pc \in ExecOwns => f.loc \in Pids \ Roots
    /\ f.pc \in ExecMade => f.loc \in M \ Roots

KernelSlotsTaken == \A s \in Roots \cup {0} : processes[s] = 1
RootsMade    == \A r \in Roots : pcb_terminal[r] # 0
ParentsMade  == \A p \in Made \ Roots : parent_pid[p] \in Made
CurrentMade  == \A t \in Terminals : current_process_id[t] \in Made \cup {0}
ActiveMade   == active_pid \in Made \/ (active_pid = 0 /\ cpu.pc = "boot")
RunningKnows == FlowKnows(cpu, active_pid, Made)
SavedKnow    == \A p \in Pids : FlowKnows(context[p], p, Made)

\* Until every root shell has been started no execute has begun.
BootPhase ==
    ~AllStarted => /\ Made \subseteq Roots
                   /\ cpu.pc \notin ExecPoints
                   /\ \A p \in Pids : context[p].pc \notin ExecPoints

IInv == /\ KernelTypes /\ KernelSlotsTaken /\ RootsMade /\ ParentsMade
        /\ CurrentMade /\ ActiveMade /\ RunningKnows /\ SavedKnow /\ BootPhase

----------------------------------------------------------------------------
\* Sets

\* The root shells are processes of the pool.
LEMMA Sizes ==
    /\ NumTerminals \in Nat /\ NumPids \in Nat
    /\ Roots = Terminals /\ Roots \subseteq Pids /\ Pids \subseteq Slots
    /\ 0 \in Slots /\ 0 \notin Pids /\ 0 \notin Terminals
    /\ 1 \in Terminals /\ NumTerminals \in Terminals
    /\ Slots \subseteq Areas /\ 0 \in Areas /\ Pids \subseteq Int
    /\ \A s \in Slots : s + 1 \in Areas
  BY SizesAssumption DEF Roots, Terminals, Pids, Slots, Areas

\* The round robin stays among the terminals.
LEMMA RoundRobin ==
    \A t \in Terminals : NextTerminal(t) \in Terminals /\ PrevTerminal(t) \in Roots
  BY SizesAssumption DEF NextTerminal, PrevTerminal, Terminals, Roots

\* Every point, and every mark of a dead context, is a value of pc.
LEMMA PointsTyped == \A pc \in Points \cup DeadContexts, a \in Areas, l \in Int :
                         Flow(pc, a, l) \in FlowType
  BY DEF Flow, FlowType

\* A dead context is typed and knows nothing.
LEMMA DeadTyped ==
    \A k \in DeadContexts : /\ Dead(k) \in FlowType
                            /\ Dead(k).pc \notin Points
                            /\ \A p, M : FlowKnows(Dead(k), p, M)
  <1> SUFFICES ASSUME NEW k \in DeadContexts
               PROVE  /\ Dead(k) \in FlowType
                      /\ Dead(k).pc \notin Points
                      /\ \A p, M : FlowKnows(Dead(k), p, M)
    OBVIOUS
  <1>1. Dead(k) \in FlowType
    BY Sizes DEF Dead, Flow, FlowType
  <1>2. Dead(k).pc \notin Points
    BY DEF Dead, Flow, DeadContexts, Points, ExecPoints, HaltPoints, BlueScreens
  <1>3. \A p, M : FlowKnows(Dead(k), p, M)
    BY DEF Dead, Flow, DeadContexts, FlowKnows, HaltTail, ExecOwns, ExecMade
  <1>4. QED
    BY <1>1, <1>2, <1>3

\* What a flow knows stays true when more pcbs are made.
LEMMA KnowsMore == \A f, p, M, N : FlowKnows(f, p, M) /\ M \subseteq N => FlowKnows(f, p, N)
  BY DEF FlowKnows

\* The least-number principle, for a set of numbers.
LEMMA LeastNat ==
    ASSUME NEW T, T \subseteq Nat, T # {}
    PROVE  \E m \in T : \A k \in T : m <= k
  <1> DEFINE R == {ss \in Nat \X Nat : ss[1] < ss[2]}
  <1>1. OpToRel(<, Nat) = R
    BY Zenon DEF OpToRel
  <1>2. IsWellFoundedOn(R, Nat)
    BY <1>1, NatLessThanWellFounded, Zenon
  <1>3. \E x \in T : \A y \in T : ~ (<<y, x>> \in R)
    <2> HIDE DEF R
    <2> QED BY <1>2, WFMin
  <1>4. PICK m \in T : \A y \in T : ~ (<<y, m>> \in R)
    BY <1>3
  <1>5. \A k \in T : ~ (k < m)
    <2> SUFFICES ASSUME NEW k \in T, k < m PROVE FALSE
      OBVIOUS
    <2>1. <<k, m>> \in Nat \X Nat /\ <<k, m>>[1] < <<k, m>>[2]
      OBVIOUS
    <2>2. <<k, m>> \in R
      BY <2>1
    <2>3. QED
      BY <1>4, <2>2
  <1>6. QED
    BY <1>5

\* The first free slot is neither slot 0 nor a root shell's.
LEMMA FirstFreeUsable ==
    ASSUME KernelTypes, KernelSlotsTaken, FreeSlots # {}
    PROVE  FirstFree \in Pids \ Roots
  <1>1. FreeSlots \subseteq Nat
    BY Sizes DEF FreeSlots, Slots
  <1>2. \E s \in FreeSlots : \A r \in FreeSlots : s <= r
    BY <1>1, LeastNat
  <1>3. FirstFree \in FreeSlots
    BY <1>2 DEF FirstFree
  <1>4. QED
    BY <1>3, Sizes DEF FreeSlots, KernelSlotsTaken, Slots, Pids

----------------------------------------------------------------------------
\* Steps that move the running flow and change neither the processes' tree,
\* nor who runs, nor a saved context.
LEMMA LocalStep ==
    ASSUME IInv, active_pid # 0,
           UNCHANGED <<tree, where, context>>,
           processes' \in [Slots -> {0, 1}], KernelSlotsTaken',
           process_count' \in Int, esp0' \in Areas, user_page' \in Slots,
           cpu' \in FlowType,
           FlowKnows(cpu', active_pid, Made),
           cpu'.pc \in ExecPoints => cpu.pc \in ExecPoints
    PROVE  IInv'
  <1>1. KernelTypes'
    BY DEF IInv, KernelTypes, tree, where
  <1>2. Made' = Made
    BY DEF Made, tree
  <1>3. RootsMade' /\ ParentsMade' /\ CurrentMade' /\ ActiveMade'
    BY <1>2 DEF IInv, RootsMade, ParentsMade, CurrentMade, ActiveMade, tree, where
  <1>4. RunningKnows' /\ SavedKnow'
    BY <1>2 DEF IInv, RunningKnows, SavedKnow, FlowKnows, where
  <1>5. BootPhase'
    BY <1>2 DEF IInv, BootPhase, AllStarted, where
  <1>6. QED
    BY <1>1, <1>3, <1>4, <1>5 DEF IInv

\* A step of the running flow that is known to be in the kernel.
LEMMA InKernel == ASSUME IInv, cpu.pc # "boot"
                  PROVE  active_pid # 0 /\ active_pid \in Made /\ active_pid \in Pids
  BY Sizes DEF IInv, ActiveMade, Made

\* User mode: entering the kernel overwrites saved frames and saves none.
LEMMA EnterKernelStep ==
    ASSUME IInv, NEW pc \in {"wait", "exec_check", "halt_enter", "fault"},
           pc = "exec_check" => AllStarted, EnterKernel(pc)
    PROVE  IInv'
  <1>1. UNCHANGED <<pool, tree, where, hw>> /\ At("user")
    BY DEF EnterKernel
  <1>2. active_pid # 0
    BY <1>1, InKernel DEF At
  <1>3. pc \in Points
    BY DEF Points, ExecPoints, HaltPoints, BlueScreens
  <1>4. cpu' = Flow(pc, esp0, 0) /\ cpu' \in FlowType
    BY <1>3, PointsTyped DEF EnterKernel, IInv, KernelTypes
  <1>5. \A p \in Pids : context'[p] = context[p] \/ context'[p] = Dead("smashed")
    BY DEF EnterKernel, Overwrite
  <1>6. Dead("smashed") \in FlowType
    BY DeadTyped DEF DeadContexts
  <1>7. context' \in [Pids -> FlowType]
    BY <1>5, <1>6 DEF EnterKernel, Overwrite, IInv, KernelTypes
  <1>8. KernelTypes'
    BY <1>1, <1>4, <1>7 DEF IInv, KernelTypes, pool, tree, where, hw
  <1>9. Made' = Made
    BY <1>1 DEF Made, tree
  <1>10. KernelSlotsTaken' /\ RootsMade' /\ ParentsMade' /\ CurrentMade' /\ ActiveMade'
    BY <1>1, <1>2, <1>9 DEF IInv, KernelSlotsTaken, RootsMade, ParentsMade, CurrentMade,
       ActiveMade, pool, tree, where
  <1>11. RunningKnows'
    BY <1>4 DEF RunningKnows, FlowKnows, Flow, HaltTail, ExecOwns, ExecMade
  <1>12. SavedKnow'
    <2> SUFFICES ASSUME NEW p \in Pids PROVE FlowKnows(context'[p], p, Made)
      BY <1>9 DEF SavedKnow
    <2>1. CASE context'[p] = context[p]
      BY <2>1 DEF IInv, SavedKnow
    <2>2. CASE context'[p] = Dead("smashed")
      BY <2>2, DeadTyped DEF DeadContexts
    <2>3. QED
      BY <1>5, <2>1, <2>2
  <1>13. BootPhase'
    <2> SUFFICES ASSUME ~AllStarted' PROVE BootPhase'
      BY DEF BootPhase
    <2>1. ~AllStarted
      BY <1>1 DEF AllStarted, where
    <2>2. cpu'.pc \notin ExecPoints
      BY <1>4, <2>1 DEF Flow, ExecPoints
    <2>3. \A p \in Pids : context'[p].pc \notin ExecPoints
      BY <1>5, <2>1 DEF IInv, BootPhase, Dead, Flow, ExecPoints
    <2>4. QED
      BY <1>9, <2>1, <2>2, <2>3 DEF IInv, BootPhase
  <1>14. QED
    BY <1>8, <1>10, <1>11, <1>12, <1>13 DEF IInv

----------------------------------------------------------------------------
\* Saved contexts.  Good(C) is what the invariant says of context.
Good(C) == /\ C \in [Pids -> FlowType]
           /\ \A p \in Pids : FlowKnows(C[p], p, Made)
           /\ ~AllStarted => \A p \in Pids : C[p].pc \notin ExecPoints

\* The invariant, for a step that leaves the pool and the tree alone.
LEMMA FromGood ==
    ASSUME IInv, UNCHANGED <<pool, tree>>,
           active_terminal' \in Terminals, active_pid' \in Made,
           current_process_id' \in [Terminals -> Slots], CurrentMade',
           esp0' \in Areas, user_page' \in Slots, cpu' \in FlowType,
           FlowKnows(cpu', active_pid', Made),
           AllStarted => AllStarted',
           ~AllStarted => cpu'.pc \notin ExecPoints,
           Good(context')
    PROVE  IInv'
  <1>1. Made' = Made
    BY DEF Made, tree
  <1>2. KernelTypes'
    BY Sizes DEF IInv, KernelTypes, Good, pool, tree, Made
  <1>3. KernelSlotsTaken' /\ RootsMade' /\ ParentsMade' /\ ActiveMade'
    BY <1>1 DEF IInv, KernelSlotsTaken, RootsMade, ParentsMade, ActiveMade, pool, tree
  <1>4. RunningKnows' /\ SavedKnow'
    BY <1>1 DEF RunningKnows, SavedKnow, Good
  <1>5. BootPhase'
    BY <1>1 DEF IInv, BootPhase, Good
  <1>6. QED
    BY <1>2, <1>3, <1>4, <1>5 DEF IInv

\* The saved contexts are good, and stay so when one is replaced.
LEMMA GoodContexts == ASSUME IInv PROVE Good(context)
  BY DEF IInv, KernelTypes, SavedKnow, BootPhase, Good

\* Replacing one saved context by a good flow keeps all of them good.
LEMMA GoodReplace ==
    ASSUME NEW C, Good(C), NEW p \in Slots, NEW f \in FlowType,
           p \in Pids => FlowKnows(f, p, Made),
           ~AllStarted => f.pc \notin ExecPoints
    PROVE  Good([C EXCEPT ![p] = f])
  BY DEF Good

\* What a tick saves.
LEMMA GoodSaved ==
    ASSUME IInv, NEW t \in Terminals
    PROVE  Good(SavedContext(t))
  <1>1. Good(TickContext)
    <2>1. CASE At("user")
      <3>1. \A p \in Pids : \/ TickContext[p] = context[p]
                            \/ TickContext[p] = Dead("smashed")
        BY <2>1 DEF TickContext, Overwrite
      <3>2. \A p \in Pids : TickContext[p] \in FlowType
        BY <3>1, DeadTyped DEF IInv, KernelTypes, DeadContexts
      <3>3. TickContext \in [Pids -> FlowType]
        BY <2>1, <3>2 DEF TickContext, Overwrite
      <3>4. \A p \in Pids : FlowKnows(TickContext[p], p, Made)
        BY <3>1, DeadTyped DEF IInv, SavedKnow, DeadContexts
      <3>5. ~AllStarted => \A p \in Pids : TickContext[p].pc \notin ExecPoints
        BY <3>1 DEF IInv, BootPhase, Dead, Flow, ExecPoints
      <3>6. QED
        BY <3>3, <3>4, <3>5 DEF Good
    <2>2. CASE ~At("user")
      BY <2>2, GoodContexts DEF TickContext
    <2>3. QED
      BY <2>1, <2>2
  <1>2. TickFlow \in FlowType
    <2>1. Flow("user", esp0, 0) \in FlowType
      BY PointsTyped DEF IInv, KernelTypes, Points
    <2>2. QED
      BY <2>1 DEF TickFlow, IInv, KernelTypes
  <1>3. FlowKnows(TickFlow, active_pid, Made)
    <2>1. FlowKnows(Flow("user", esp0, 0), active_pid, Made)
      BY DEF FlowKnows, Flow, HaltTail, ExecOwns, ExecMade
    <2>2. QED
      BY <2>1 DEF TickFlow, IInv, RunningKnows
  <1>4. ~AllStarted => TickFlow.pc \notin ExecPoints
    <2>1. Flow("user", esp0, 0).pc \notin ExecPoints
      BY DEF Flow, ExecPoints
    <2>2. QED
      BY <2>1 DEF TickFlow, IInv, BootPhase
  <1>5. SaveSlot(t) \in Slots
    BY RoundRobin, Sizes DEF SaveSlot, IInv, KernelTypes
  <1>6. FlowKnows(TickFlow, SaveSlot(t), Made)
    <2>1. CASE current_process_id[t] # 0
      BY <2>1, <1>3 DEF SaveSlot
    <2>2. CASE current_process_id[t] = 0
      <3>1. ~AllStarted
        BY <2>2 DEF AllStarted
      <3>2. active_pid \in Roots \/ cpu.pc = "boot"
        BY <3>1 DEF IInv, BootPhase, ActiveMade
      <3>3. cpu.pc = "boot" => TickFlow.pc \notin HaltTail
        BY DEF TickFlow, At, HaltTail
      <3>4. TickFlow.pc \notin HaltTail
        BY <1>3, <3>2, <3>3 DEF FlowKnows
      <3>5. SaveSlot(t) \in Roots
        BY <2>2, RoundRobin DEF SaveSlot
      <3>6. QED
        BY <1>3, <3>4, <3>5 DEF FlowKnows
    <2>3. QED
      BY <2>1, <2>2
  <1>7. QED
    BY <1>1, <1>2, <1>4, <1>5, <1>6, GoodReplace DEF SavedContext

\* What a resumed process brings to the CPU and leaves in its pcb.
LEMMA Resumed ==
    ASSUME IInv, NEW C, Good(C), NEW p \in Pids
    PROVE  /\ ResumeFlow(C, p) \in FlowType
           /\ FlowKnows(ResumeFlow(C, p), p, Made)
           /\ ~AllStarted => ResumeFlow(C, p).pc \notin ExecPoints
           /\ Good(AfterResume(C, p))
  <1>1. \A k \in {"overrun", "panic"} :
            /\ Flow(k, 0, 0) \in FlowType
            /\ FlowKnows(Flow(k, 0, 0), p, Made)
            /\ Flow(k, 0, 0).pc \notin ExecPoints
    <2>1. \A k \in {"overrun", "panic"} : Flow(k, 0, 0) \in FlowType
      BY PointsTyped, Sizes DEF Points, BlueScreens
    <2>2. QED
      BY <2>1 DEF FlowKnows, Flow, HaltTail, ExecOwns, ExecMade, ExecPoints
  <1>2. /\ C[p] \in FlowType /\ FlowKnows(C[p], p, Made)
        /\ ~AllStarted => C[p].pc \notin ExecPoints
    BY DEF Good
  <1>3. ResumeFlow(C, p) \in {C[p], Flow("overrun", 0, 0), Flow("panic", 0, 0)}
    BY DEF ResumeFlow
  <1>4. Good(AfterResume(C, p))
    <2>1. /\ Dead("stale") \in FlowType
          /\ FlowKnows(Dead("stale"), p, Made)
          /\ Dead("stale").pc \notin ExecPoints
      BY DeadTyped DEF DeadContexts, Points
    <2>2. QED
      BY <2>1, Sizes, GoodReplace DEF AfterResume
  <1>5. QED
    BY <1>1, <1>2, <1>3, <1>4

----------------------------------------------------------------------------
\* One lemma per group of actions.

\* A tick, at whatever point it comes, keeps the inductive invariant.
LEMMA TickStep == ASSUME IInv, TickBoot \/ TickResume PROVE IInv'
  <1> DEFINE t == NextTerminal(active_terminal)
  <1>1. t \in Terminals
    BY RoundRobin DEF IInv, KernelTypes
  <1>2. Good(SavedContext(t))
    BY <1>1, GoodSaved
  <1>3. \A r \in Roots : r \in Made
    BY Sizes DEF IInv, RootsMade, Made
  <1> HIDE DEF t
  <1>4. CASE TickBoot
    <2>1. EnterRoot(t) /\ context' = SavedContext(t) /\ UNCHANGED <<pool, tree>>
      BY <1>4 DEF TickBoot, t
    <2>2. /\ active_terminal' = t /\ active_pid' = t /\ esp0' = t /\ user_page' = t
          /\ current_process_id' = [current_process_id EXCEPT ![t] = t]
          /\ cpu' = InUser
      BY <2>1 DEF EnterRoot
    <2>3. t \in Made /\ t \in Slots /\ t \in Areas /\ t # 0
      BY <1>1, <1>3, Sizes
    <2>4. /\ current_process_id' \in [Terminals -> Slots]
          /\ AllStarted => AllStarted'
      BY <2>2, <2>3 DEF IInv, KernelTypes, AllStarted
    <2>5. CurrentMade'
      BY <2>1, <2>2, <2>3 DEF IInv, KernelTypes, CurrentMade, Made, tree
    <2>6. cpu' \in FlowType /\ FlowKnows(cpu', active_pid', Made)
          /\ cpu'.pc \notin ExecPoints
      <3>1. cpu' \in FlowType
        BY <2>2, PointsTyped, Sizes DEF InUser, Points
      <3>2. QED
        BY <3>1, <2>2 DEF InUser, Flow, FlowKnows, HaltTail, ExecOwns, ExecMade,
           ExecPoints
    <2>7. QED
      BY <1>1, <1>2, <2>1, <2>2, <2>3, <2>4, <2>5, <2>6, FromGood
  <1>5. CASE TickResume
    <2> DEFINE p == current_process_id[t]
    <2>1. /\ p # 0 /\ active_terminal' = t /\ active_pid' = p /\ esp0' = p
          /\ user_page' = p
          /\ cpu' = ResumeFlow(SavedContext(t), p)
          /\ context' = AfterResume(SavedContext(t), p)
          /\ UNCHANGED <<pool, tree, current_process_id>>
      BY <1>5 DEF TickResume, t
    <2>2. p \in Made
      BY <2>1, <1>1 DEF IInv, CurrentMade
    <2> HIDE DEF p
    <2>3. p \in Pids /\ p \in Slots /\ p \in Areas
      BY <2>2, Sizes DEF Made
    <2>4. /\ cpu' \in FlowType /\ FlowKnows(cpu', active_pid', Made)
          /\ ~AllStarted => cpu'.pc \notin ExecPoints
          /\ Good(context')
      BY <1>2, <2>1, <2>3, Resumed
    <2>5. AllStarted => AllStarted'
      BY <2>1 DEF AllStarted
    <2>6. CurrentMade' /\ current_process_id' \in [Terminals -> Slots]
      BY <2>1 DEF IInv, KernelTypes, CurrentMade, Made, tree
    <2>7. QED
      BY <1>1, <2>1, <2>2, <2>3, <2>4, <2>5, <2>6, FromGood
  <1>6. QED
    BY <1>4, <1>5

\* Back to user mode.
LEMMA ReturnStep == ASSUME IInv, cpu.pc # "boot", ReturnToUser PROVE IInv'
  <1>1. cpu' = InUser /\ cpu' \in FlowType
    BY PointsTyped, Sizes DEF ReturnToUser, InUser, Points
  <1>2. FlowKnows(cpu', active_pid, Made) /\ cpu'.pc \notin ExecPoints
    BY <1>1 DEF InUser, Flow, FlowKnows, HaltTail, ExecOwns, ExecMade, ExecPoints
  <1>3. UNCHANGED <<pool, tree, where, hw, context>>
    BY DEF ReturnToUser
  <1>4. KernelSlotsTaken'
    BY <1>3 DEF IInv, KernelSlotsTaken, pool
  <1>5. QED
    BY <1>1, <1>2, <1>3, <1>4, InKernel, LocalStep DEF IInv, KernelTypes, pool, hw

\* Steps of the running flow to another point.
LEMMA GotoTyped == ASSUME cpu \in FlowType, NEW pc \in Points, NEW loc \in Int
                   PROVE  /\ [cpu EXCEPT !.pc = pc] \in FlowType
                          /\ [cpu EXCEPT !.pc = pc].pc = pc
                          /\ [cpu EXCEPT !.pc = pc].loc = cpu.loc
                          /\ [cpu EXCEPT !.pc = pc, !.loc = loc] \in FlowType
                          /\ [cpu EXCEPT !.pc = pc, !.loc = loc].pc = pc
                          /\ [cpu EXCEPT !.pc = pc, !.loc = loc].loc = loc
  BY DEF FlowType

\* The steps of execute that leave alone who runs and who is saved.
LEMMA ExecLocalSteps ==
    ASSUME IInv,
           ExecAdmit \/ ExecGoodCommand \/ ExecLoad \/ ExecStore \/ ExecScan
           \/ ExecTake \/ ExecPage \/ ExecEsp0
    PROVE  IInv'
  <1> USE DEF At, Goto
  <1>1. cpu.pc # "boot" /\ cpu.pc \in ExecPoints
    BY DEF ExecAdmit, ExecGoodCommand, ExecLoad, ExecStore, ExecScan, ExecTake,
           ExecPage, ExecEsp0, ExecPoints
  <1>2. active_pid # 0 /\ active_pid \in Pids
    BY <1>1, InKernel
  <1>3. UNCHANGED <<tree, where, context>>
    BY DEF ExecAdmit, ExecGoodCommand, ExecLoad, ExecStore, ExecScan, ExecTake,
           ExecPage, ExecEsp0
  <1>4. cpu \in FlowType /\ FlowKnows(cpu, active_pid, Made) /\ cpu.loc \in Int
    BY DEF IInv, KernelTypes, RunningKnows, FlowType
  <1>5. /\ processes' \in [Slots -> {0, 1}] /\ KernelSlotsTaken'
        /\ process_count' \in Int /\ esp0' \in Areas /\ user_page' \in Slots
    <2>1. /\ processes \in [Slots -> {0, 1}] /\ KernelSlotsTaken
          /\ process_count \in Int /\ esp0 \in Areas /\ user_page \in Slots
      BY DEF IInv, KernelTypes
    <2>2. CASE ExecTake
      <3>1. cpu.loc \in Pids
        BY <1>4, <2>2 DEF ExecTake, FlowKnows, ExecOwns
      <3>2. QED
        BY <2>1, <2>2, <3>1, Sizes DEF ExecTake, KernelSlotsTaken, hw
    <2>3. CASE ExecStore
      BY <1>4, <2>1, <2>3 DEF ExecStore, KernelSlotsTaken, hw
    <2>4. CASE ExecPage
      <3>1. cpu.loc \in Pids
        BY <1>4, <2>4 DEF ExecPage, FlowKnows, ExecMade, Made
      <3>2. QED
        BY <2>1, <2>4, <3>1, Sizes DEF ExecPage, KernelSlotsTaken, pool
    <2>5. CASE ExecEsp0
      BY <1>2, <2>1, <2>5, Sizes DEF ExecEsp0, KernelSlotsTaken, pool
    <2>6. CASE ExecAdmit \/ ExecGoodCommand \/ ExecLoad \/ ExecScan
      BY <2>1, <2>6 DEF ExecAdmit, ExecGoodCommand, ExecLoad, ExecScan,
         KernelSlotsTaken, pool, hw
    <2>7. QED
      BY <2>2, <2>3, <2>4, <2>5, <2>6
  <1>6. cpu' \in FlowType /\ FlowKnows(cpu', active_pid, Made)
    <2>1. {"exec_parse", "exec_load", "exec_store", "exec_scan", "exec_take",
           "exec_pcb", "exec_save", "exec_iret"} \subseteq Points
      BY DEF Points, ExecPoints
    <2>2. CASE ExecAdmit \/ ExecGoodCommand \/ ExecEsp0
      <3>1. PICK pc \in {"exec_parse", "exec_load", "exec_iret"} :
                cpu' = [cpu EXCEPT !.pc = pc]
        BY <2>2 DEF ExecAdmit, ExecGoodCommand, ExecEsp0
      <3>2. cpu' \in FlowType /\ cpu'.pc = pc
        BY <1>4, <2>1, <3>1, GotoTyped
      <3>3. QED
        BY <3>2 DEF FlowKnows, HaltTail, ExecOwns, ExecMade
    <2>3. CASE ExecLoad \/ ExecStore
      <3>1. PICK pc \in {"exec_store", "exec_scan"}, loc \in {process_count, 0} :
                cpu' = [cpu EXCEPT !.pc = pc, !.loc = loc]
        BY <2>3 DEF ExecLoad, ExecStore
      <3>2. loc \in Int /\ pc \in Points
        BY <2>1 DEF IInv, KernelTypes
      <3>3. cpu' \in FlowType /\ cpu'.pc = pc
        BY <1>4, <3>1, <3>2, GotoTyped
      <3>4. QED
        BY <3>3 DEF FlowKnows, HaltTail, ExecOwns, ExecMade
    <2>4. CASE ExecScan
      <3>1. FirstFree \in Pids \ Roots
        BY <2>4, FirstFreeUsable DEF ExecScan, IInv
      <3>2. cpu' = [cpu EXCEPT !.pc = "exec_take", !.loc = FirstFree]
        BY <2>4 DEF ExecScan
      <3>3. cpu' \in FlowType /\ cpu'.pc = "exec_take" /\ cpu'.loc = FirstFree
        BY <1>4, <2>1, <3>1, <3>2, Sizes, GotoTyped
      <3>4. QED
        BY <3>1, <3>3 DEF FlowKnows, HaltTail, ExecOwns, ExecMade
    <2>5. CASE ExecTake
      <3>1. cpu.loc \in Pids \ Roots /\ cpu' = [cpu EXCEPT !.pc = "exec_pcb"]
        BY <1>4, <2>5 DEF ExecTake, FlowKnows, ExecOwns
      <3>2. cpu' \in FlowType /\ cpu'.pc = "exec_pcb" /\ cpu'.loc = cpu.loc
        BY <1>4, <2>1, <3>1, GotoTyped
      <3>3. QED
        BY <3>1, <3>2 DEF FlowKnows, HaltTail, ExecOwns, ExecMade
    <2>6. CASE ExecPage
      <3>1. cpu.loc \in Made \ Roots /\ cpu' = [cpu EXCEPT !.pc = "exec_save"]
        BY <1>4, <2>6 DEF ExecPage, FlowKnows, ExecMade
      <3>2. cpu' \in FlowType /\ cpu'.pc = "exec_save" /\ cpu'.loc = cpu.loc
        BY <1>4, <2>1, <3>1, GotoTyped
      <3>3. QED
        BY <3>1, <3>2 DEF FlowKnows, HaltTail, ExecOwns, ExecMade
    <2>7. QED
      BY <2>2, <2>3, <2>4, <2>5, <2>6
  <1>7. QED
    BY <1>1, <1>2, <1>3, <1>5, <1>6, LocalStep

\* The new process's pcb is filled in: it is made from here on.
LEMMA ExecPcbStep == ASSUME IInv, ExecPcb PROVE IInv'
  <1>1. /\ cpu.pc = "exec_pcb" /\ cpu' = [cpu EXCEPT !.pc = "exec_cpid"]
        /\ UNCHANGED <<pool, where, hw>>
        /\ parent_pid' = [parent_pid EXCEPT ![cpu.loc] = active_pid]
        /\ pcb_terminal' = [pcb_terminal EXCEPT ![cpu.loc] = active_terminal]
        /\ context' = [context EXCEPT ![cpu.loc] = Dead("entry")]
    BY DEF ExecPcb, At, Goto
  <1>2. /\ active_pid # 0 /\ active_pid \in Made /\ active_pid \in Slots
        /\ active_terminal \in Terminals /\ active_terminal # 0
        /\ cpu.loc \in Pids \ Roots /\ AllStarted
    BY <1>1, InKernel, Sizes DEF IInv, KernelTypes, RunningKnows, FlowKnows, ExecOwns,
       BootPhase, ExecPoints
  <1>3. Made' = Made \cup {cpu.loc}
    BY <1>1, <1>2, Sizes DEF Made, IInv, KernelTypes
  <1>4. /\ cpu' \in FlowType /\ cpu'.pc = "exec_cpid" /\ cpu'.loc = cpu.loc
    BY <1>1, 0 \in Int, GotoTyped DEF IInv, KernelTypes, Points, ExecPoints
  <1>5. Dead("entry") \in FlowType /\ \A p, M : FlowKnows(Dead("entry"), p, M)
    BY DeadTyped DEF DeadContexts
  <1>6. KernelTypes'
    BY <1>1, <1>2, <1>4, <1>5 DEF IInv, KernelTypes, pool, where, hw
  <1>7. KernelSlotsTaken' /\ RootsMade' /\ CurrentMade' /\ ActiveMade'
    BY <1>1, <1>2, <1>3 DEF IInv, KernelTypes, KernelSlotsTaken, RootsMade, CurrentMade,
       ActiveMade, pool, where
  <1>8. ParentsMade'
    BY <1>1, <1>2, <1>3 DEF IInv, KernelTypes, ParentsMade
  <1>9. RunningKnows'
    BY <1>2, <1>3, <1>4 DEF RunningKnows, FlowKnows, HaltTail, ExecOwns, ExecMade
  <1>10. SavedKnow'
    <2> SUFFICES ASSUME NEW p \in Pids PROVE FlowKnows(context'[p], p, Made')
      BY DEF SavedKnow
    <2>1. CASE p = cpu.loc
      BY <1>1, <1>5, <2>1 DEF IInv, KernelTypes
    <2>2. CASE p # cpu.loc
      <3>1. context'[p] = context[p]
        BY <1>1, <2>2 DEF IInv, KernelTypes
      <3>2. FlowKnows(context[p], p, Made)
        BY DEF IInv, SavedKnow
      <3>3. Made \subseteq Made'
        BY <1>3
      <3>4. QED
        BY <3>1, <3>2, <3>3, KnowsMore
    <2>3. QED
      BY <2>1, <2>2
  <1>11. BootPhase'
    BY <1>1, <1>2 DEF BootPhase, AllStarted, where
  <1>12. QED
    BY <1>6, <1>7, <1>8, <1>9, <1>10, <1>11 DEF IInv

\* The steps of execute that hand the terminal over to the child.
LEMMA ExecSwitchSteps == ASSUME IInv, ExecCpid \/ ExecSave \/ ExecSwitch PROVE IInv'
  <1>1. cpu.pc \in {"exec_cpid", "exec_save", "exec_switch"} /\ UNCHANGED <<pool, tree, hw>>
    BY DEF ExecCpid, ExecSave, ExecSwitch, At
  <1>2. /\ active_pid \in Made /\ active_pid \in Pids
        /\ cpu.loc \in Made \ Roots /\ cpu.loc \in Slots /\ cpu.loc # 0
        /\ AllStarted
    BY <1>1, InKernel, Sizes DEF IInv, RunningKnows, FlowKnows, ExecMade, BootPhase,
       ExecPoints, Made
  <1>3. Good(context)
    BY GoodContexts
  <1>4. \A pc \in {"exec_page", "exec_switch", "exec_esp0"} :
            /\ [cpu EXCEPT !.pc = pc] \in FlowType
            /\ \A p \in Pids : FlowKnows([cpu EXCEPT !.pc = pc], p, Made)
    <2> SUFFICES ASSUME NEW pc \in {"exec_page", "exec_switch", "exec_esp0"},
                        NEW p \in Pids
                 PROVE  /\ [cpu EXCEPT !.pc = pc] \in FlowType
                        /\ FlowKnows([cpu EXCEPT !.pc = pc], p, Made)
      BY <1>2
    <2>1. pc \in Points /\ cpu \in FlowType /\ 0 \in Int
      BY DEF Points, ExecPoints, IInv, KernelTypes
    <2>2. /\ [cpu EXCEPT !.pc = pc] \in FlowType
          /\ [cpu EXCEPT !.pc = pc].pc = pc
          /\ [cpu EXCEPT !.pc = pc].loc = cpu.loc
      BY <2>1, GotoTyped
    <2>3. QED
      BY <1>2, <2>2 DEF FlowKnows, HaltTail, ExecOwns, ExecMade
  <1>5. esp0' \in Areas /\ user_page' \in Slots
    BY <1>1 DEF IInv, KernelTypes, hw
  <1>6. CASE ExecCpid
    <2>1. /\ current_process_id' = [current_process_id EXCEPT ![active_terminal] = cpu.loc]
          /\ UNCHANGED <<active_terminal, active_pid, context>>
          /\ cpu' = [cpu EXCEPT !.pc = "exec_page"]
      BY <1>6 DEF ExecCpid, Goto
    <2>2. /\ current_process_id' \in [Terminals -> Slots] /\ AllStarted' /\ CurrentMade'
          /\ active_terminal' \in Terminals
      BY <1>1, <1>2, <2>1 DEF IInv, KernelTypes, AllStarted, CurrentMade, Made, tree
    <2>3. QED
      BY <1>1, <1>2, <1>3, <1>4, <1>5, <2>1, <2>2, FromGood
  <1>7. CASE ExecSave
    <2>1. /\ context' = [context EXCEPT ![active_pid] = Flow("exec_return", cpu.area, 0)]
          /\ UNCHANGED where /\ cpu' = [cpu EXCEPT !.pc = "exec_switch"]
      BY <1>7 DEF ExecSave, Goto
    <2>2. Flow("exec_return", cpu.area, 0) \in FlowType
      <3>1. cpu.area \in Areas
        BY DEF IInv, KernelTypes, FlowType
      <3>2. QED
        BY <3>1, PointsTyped DEF Points, ExecPoints
    <2>3. FlowKnows(Flow("exec_return", cpu.area, 0), active_pid, Made)
      BY DEF Flow, FlowKnows, HaltTail, ExecOwns, ExecMade
    <2>4. Good(context')
      BY <1>2, <1>3, <2>1, <2>2, <2>3, Sizes, GoodReplace
    <2>5. /\ current_process_id' \in [Terminals -> Slots] /\ AllStarted' /\ CurrentMade'
          /\ active_terminal' \in Terminals /\ active_pid' = active_pid
      BY <1>1, <1>2, <2>1 DEF IInv, KernelTypes, AllStarted, CurrentMade, Made, tree, where
    <2>6. QED
      BY <1>1, <1>2, <1>4, <1>5, <2>1, <2>4, <2>5, FromGood
  <1>8. CASE ExecSwitch
    <2>1. /\ active_pid' = cpu.loc
          /\ UNCHANGED <<active_terminal, current_process_id, context>>
          /\ cpu' = [cpu EXCEPT !.pc = "exec_esp0"]
      BY <1>8 DEF ExecSwitch, Goto
    <2>2. /\ current_process_id' \in [Terminals -> Slots] /\ AllStarted' /\ CurrentMade'
          /\ active_terminal' \in Terminals
      BY <1>1, <1>2, <2>1 DEF IInv, KernelTypes, AllStarted, CurrentMade, Made, tree
    <2>3. cpu.loc \in Pids
      BY <1>2 DEF Made
    <2>4. QED
      BY <1>1, <1>2, <1>3, <1>4, <1>5, <2>1, <2>2, <2>3, FromGood
  <1>9. QED
    BY <1>6, <1>7, <1>8

\* The steps of halt that leave alone who runs and who is saved.
LEMMA HaltLocalSteps ==
    ASSUME IInv,
           HaltRoot \/ HaltChild \/ HaltLoad \/ HaltStore \/ HaltRelease
           \/ HaltClose \/ HaltEsp0 \/ HaltPage
    PROVE  IInv'
  <1> USE DEF At, Goto
  <1>1. cpu.pc # "boot"
    BY DEF HaltRoot, HaltChild, HaltLoad, HaltStore, HaltRelease, HaltClose,
           HaltEsp0, HaltPage
  <1>2. active_pid # 0 /\ active_pid \in Pids /\ active_pid \in Made
    BY <1>1, InKernel
  <1>3. UNCHANGED <<tree, where, context>>
    BY DEF HaltRoot, HaltChild, HaltLoad, HaltStore, HaltRelease, HaltClose,
           HaltEsp0, HaltPage
  <1>4. cpu \in FlowType /\ FlowKnows(cpu, active_pid, Made) /\ cpu.loc \in Int
    BY DEF IInv, KernelTypes, RunningKnows, FlowType
  <1>5. /\ processes' \in [Slots -> {0, 1}] /\ KernelSlotsTaken'
        /\ process_count' \in Int /\ esp0' \in Areas /\ user_page' \in Slots
    <2>1. /\ processes \in [Slots -> {0, 1}] /\ KernelSlotsTaken
          /\ process_count \in Int /\ esp0 \in Areas /\ user_page \in Slots
      BY DEF IInv, KernelTypes
    <2>2. CASE HaltRelease
      <3>1. active_pid \notin Roots \cup {0}
        BY <1>2, <1>4, <2>2 DEF HaltRelease, FlowKnows, HaltTail
      <3>2. QED
        BY <1>2, <2>1, <2>2, <3>1, Sizes DEF HaltRelease, KernelSlotsTaken, hw
    <2>3. CASE HaltStore
      BY <1>4, <2>1, <2>3 DEF HaltStore, KernelSlotsTaken, hw
    <2>4. CASE HaltEsp0 \/ HaltPage
      BY <1>2, <2>1, <2>4, Sizes DEF HaltEsp0, HaltPage, KernelSlotsTaken, pool
    <2>5. CASE HaltRoot \/ HaltChild \/ HaltLoad \/ HaltClose
      BY <2>1, <2>5 DEF HaltRoot, HaltChild, HaltLoad, HaltClose, KernelSlotsTaken,
         pool, hw
    <2>6. QED
      BY <2>2, <2>3, <2>4, <2>5
  <1>6. cpu' \in FlowType /\ FlowKnows(cpu', active_pid, Made)
        /\ cpu'.pc \notin ExecPoints
    <2>1. {"root_enter", "halt_load", "halt_store", "halt_release", "halt_close",
           "halt_pid", "halt_page", "halt_switch"} \subseteq Points
      BY DEF Points, HaltPoints
    <2>2. CASE HaltRoot \/ HaltChild \/ HaltRelease \/ HaltEsp0 \/ HaltPage
      <3>1. PICK pc \in {"root_enter", "halt_load", "halt_close", "halt_page",
                         "halt_switch"} :
                /\ cpu' = [cpu EXCEPT !.pc = pc]
                /\ pc = "root_enter" => active_pid \in Roots
                /\ pc \in HaltTail => active_pid \notin Roots
        BY <1>4, <2>2 DEF HaltRoot, HaltChild, HaltRelease, HaltEsp0, HaltPage,
           FlowKnows, HaltTail
      <3>2. cpu' \in FlowType /\ cpu'.pc = pc
        BY <1>4, <2>1, <3>1, GotoTyped
      <3>3. QED
        BY <3>1, <3>2 DEF FlowKnows, HaltTail, ExecOwns, ExecMade, ExecPoints
    <2>3. CASE HaltLoad \/ HaltStore
      <3>1. PICK pc \in {"halt_store", "halt_release"}, loc \in {process_count, 0} :
                /\ cpu' = [cpu EXCEPT !.pc = pc, !.loc = loc]
                /\ active_pid \notin Roots
        BY <1>4, <2>3 DEF HaltLoad, HaltStore, FlowKnows, HaltTail
      <3>2. loc \in Int /\ pc \in Points
        BY <2>1 DEF IInv, KernelTypes
      <3>3. cpu' \in FlowType /\ cpu'.pc = pc
        BY <1>4, <3>1, <3>2, GotoTyped
      <3>4. QED
        BY <3>1, <3>3 DEF FlowKnows, HaltTail, ExecOwns, ExecMade, ExecPoints
    <2>4. CASE HaltClose
      <3>1. cpu' = [cpu EXCEPT !.pc = "halt_pid", !.loc = parent_pid[active_pid]]
        BY <2>4 DEF HaltClose
      <3>2. parent_pid[active_pid] \in Made
        BY <1>2, <1>4, <2>4 DEF HaltClose, FlowKnows, HaltTail, IInv, ParentsMade
      <3>3. parent_pid[active_pid] \in Int
        BY <3>2, Sizes DEF Made
      <3>4. /\ cpu' \in FlowType /\ cpu'.pc = "halt_pid"
            /\ cpu'.loc = parent_pid[active_pid]
        BY <1>4, <2>1, <3>1, <3>3, GotoTyped
      <3>5. QED
        BY <3>2, <3>4 DEF FlowKnows, HaltTail, ExecOwns, ExecMade, ExecPoints
    <2>5. QED
      BY <2>2, <2>3, <2>4
  <1>7. QED
    BY <1>2, <1>3, <1>5, <1>6, LocalStep

\* The steps of halt that change who runs.
LEMMA HaltSwitchSteps ==
    ASSUME IInv, RootEnter \/ HaltPid \/ HaltTerminal \/ HaltSwitch
    PROVE  IInv'
  <1>1. cpu.pc \in {"root_enter", "halt_pid", "halt_terminal", "halt_switch"}
        /\ UNCHANGED <<pool, tree>>
    BY DEF RootEnter, HaltPid, HaltTerminal, HaltSwitch, At
  <1>2. active_pid \in Made /\ active_pid \in Pids /\ active_pid \in Slots
        /\ active_pid \in Areas /\ active_pid # 0
    BY <1>1, InKernel, Sizes
  <1>3. Good(context)
    BY GoodContexts
  <1>4. /\ active_terminal \in Terminals /\ esp0 \in Areas /\ user_page \in Slots
        /\ current_process_id \in [Terminals -> Slots]
        /\ cpu \in FlowType /\ FlowKnows(cpu, active_pid, Made)
    BY DEF IInv, KernelTypes, RunningKnows
  <1>5. CASE RootEnter
    <2>1. active_pid \in Roots
      BY <1>4, <1>5 DEF RootEnter, At, FlowKnows
    <2>2. /\ active_terminal' = active_pid /\ active_pid' = active_pid
          /\ current_process_id' =
                 [current_process_id EXCEPT ![active_pid] = active_pid]
          /\ user_page' = active_pid /\ esp0' = active_pid /\ cpu' = InUser
          /\ context' = context
      BY <1>5 DEF RootEnter, EnterRoot
    <2>3. /\ current_process_id' \in [Terminals -> Slots]
          /\ AllStarted => AllStarted'
      BY <1>2, <1>4, <2>1, <2>2 DEF AllStarted
    <2>4. CurrentMade'
      BY <1>1, <1>2, <1>4, <2>2 DEF IInv, CurrentMade, Made, tree
    <2>5. cpu' \in FlowType
      BY <2>2, PointsTyped, Sizes DEF InUser, Points
    <2>6. FlowKnows(cpu', active_pid', Made) /\ cpu'.pc \notin ExecPoints
      BY <2>2 DEF InUser, Flow, FlowKnows, HaltTail, ExecOwns, ExecMade, ExecPoints
    <2>7. active_terminal' \in Terminals
      BY <2>1, <2>2, Sizes
    <2>8. QED
      BY <1>1, <1>2, <1>3, <2>2, <2>3, <2>4, <2>5, <2>6, <2>7, FromGood
  <1>6. CASE HaltPid
    <2>1. /\ active_pid' = cpu.loc
          /\ cpu' = [cpu EXCEPT !.pc = "halt_terminal", !.loc = 0]
          /\ UNCHANGED <<active_terminal, current_process_id, hw, context>>
      BY <1>6 DEF HaltPid
    <2>2. cpu.loc \in Made
      BY <1>4, <1>6 DEF HaltPid, At, FlowKnows
    <2>3. cpu' \in FlowType /\ cpu'.pc = "halt_terminal"
      BY <1>4, <2>1, 0 \in Int, GotoTyped DEF Points, HaltPoints
    <2>4. FlowKnows(cpu', active_pid', Made) /\ cpu'.pc \notin ExecPoints
      BY <2>3 DEF FlowKnows, HaltTail, ExecOwns, ExecMade, ExecPoints
    <2>5. CurrentMade' /\ (AllStarted => AllStarted')
      BY <1>1, <2>1 DEF IInv, CurrentMade, Made, AllStarted, tree
    <2>6. QED
      BY <1>1, <1>3, <1>4, <2>1, <2>2, <2>3, <2>4, <2>5, FromGood DEF hw
  <1>7. CASE HaltTerminal
    <2>1. /\ active_terminal' = pcb_terminal[active_pid]
          /\ current_process_id' =
                 [current_process_id EXCEPT ![active_terminal'] = active_pid]
          /\ cpu' = [cpu EXCEPT !.pc = "halt_esp0"]
          /\ UNCHANGED <<active_pid, hw, context>>
      BY <1>7 DEF HaltTerminal, Goto
    <2>2. active_terminal' \in Terminals
      BY <1>2, <2>1 DEF IInv, KernelTypes, Made
    <2>3. cpu' \in FlowType /\ cpu'.pc = "halt_esp0"
      BY <1>4, <2>1, 0 \in Int, GotoTyped DEF Points, HaltPoints
    <2>4. FlowKnows(cpu', active_pid', Made) /\ cpu'.pc \notin ExecPoints
      BY <2>3 DEF FlowKnows, HaltTail, ExecOwns, ExecMade, ExecPoints
    <2>5. /\ current_process_id' \in [Terminals -> Slots]
          /\ AllStarted => AllStarted'
      BY <1>2, <1>4, <2>1, <2>2 DEF AllStarted
    <2>6. CurrentMade'
      BY <1>1, <1>2, <1>4, <2>1 DEF IInv, CurrentMade, Made, tree
    <2>7. QED
      BY <1>1, <1>2, <1>3, <1>4, <2>1, <2>2, <2>3, <2>4, <2>5, <2>6, FromGood DEF hw
  <1>8. CASE HaltSwitch
    <2>1. /\ cpu' = ResumeFlow(context, active_pid)
          /\ context' = AfterResume(context, active_pid)
          /\ UNCHANGED <<where, hw>>
      BY <1>8 DEF HaltSwitch
    <2>2. /\ cpu' \in FlowType /\ FlowKnows(cpu', active_pid', Made)
          /\ ~AllStarted => cpu'.pc \notin ExecPoints
          /\ Good(context')
      BY <1>2, <1>3, <2>1, Resumed DEF where
    <2>3. CurrentMade' /\ (AllStarted => AllStarted')
      BY <1>1, <2>1 DEF IInv, CurrentMade, Made, AllStarted, tree, where
    <2>4. QED
      BY <1>1, <1>2, <1>4, <2>1, <2>2, <2>3, FromGood DEF hw, where
  <1>9. QED
    BY <1>5, <1>6, <1>7, <1>8

----------------------------------------------------------------------------
\* The state the boot code leaves behind.
LEMMA InitIInv == Init => IInv
  <1> SUFFICES ASSUME Init PROVE IInv
    OBVIOUS
  <1>1. Made = Roots
    BY Sizes DEF Init, Made
  <1>2. cpu \in FlowType /\ cpu.pc = "boot"
    <2>1. 1 \in Areas
      BY Sizes
    <2>2. QED
      BY <2>1, PointsTyped DEF Init, Flow, Points
  <1>3. \A p \in Pids : context[p] = Dead("entry") \/ context[p] = Dead("none")
    BY DEF Init
  <1>4. Dead("entry") \in FlowType /\ Dead("none") \in FlowType
    BY DeadTyped DEF DeadContexts
  <1>5. KernelTypes
    <2>1. context \in [Pids -> FlowType]
      BY <1>4 DEF Init
    <2>2. QED
      BY <1>2, <2>1, Sizes DEF Init, KernelTypes
  <1>6. KernelSlotsTaken /\ RootsMade /\ ParentsMade /\ CurrentMade /\ ActiveMade
    BY <1>1, <1>2, Sizes DEF Init, KernelSlotsTaken, RootsMade, ParentsMade,
       CurrentMade, ActiveMade
  <1>7. RunningKnows
    BY <1>2 DEF RunningKnows, FlowKnows, HaltTail, ExecOwns, ExecMade
  <1>8. SavedKnow
    BY <1>3, DeadTyped DEF SavedKnow, DeadContexts
  <1>9. BootPhase
    BY <1>1, <1>2, <1>3 DEF BootPhase, ExecPoints, Dead, Flow
  <1>10. QED
    BY <1>5, <1>6, <1>7, <1>8, <1>9 DEF IInv

\* Every step keeps the invariant, as long as no shell executes before all of
\* them have been started.
LEMMA NextIInv ==
    ASSUME IInv, CallExecute => AllStarted, [Next]_vars
    PROVE  IInv'
  <1>1. CASE ExecStep
    <2>1. CASE \/ ExecRefuse \/ ExecBadCommand \/ ExecNoSlot \/ ExecIret \/ ExecReturn
      <3>1. cpu.pc # "boot" /\ ReturnToUser
        BY <2>1 DEF ExecRefuse, ExecBadCommand, ExecNoSlot, ExecIret, ExecReturn, At
      <3>2. QED
        BY <3>1, ReturnStep
    <2>2. QED
      BY <1>1, <2>1, ExecLocalSteps, ExecPcbStep, ExecSwitchSteps DEF ExecStep
  <1>2. CASE HaltStep
    BY <1>2, HaltLocalSteps, HaltSwitchSteps DEF HaltStep
  <1>3. CASE UserStep \/ CallExecute
    <2>1. CASE CallOther \/ CallExecute \/ CallHalt \/ UserException
      BY <2>1, EnterKernelStep DEF CallOther, CallExecute, CallHalt, UserException
    <2>2. CASE OtherReturn
      BY <2>2, ReturnStep DEF OtherReturn, At
    <2>3. QED
      BY <1>3, <2>1, <2>2 DEF UserStep
  <1>5. CASE Tick
    BY <1>5, TickStep DEF Tick
  <1>6. CASE UNCHANGED vars
    <2>1. UNCHANGED <<pool, tree, where, hw, context, cpu>>
      BY <1>6 DEF vars
    <2>2. QED
      BY <2>1 DEF IInv, KernelTypes, KernelSlotsTaken, RootsMade, ParentsMade, CurrentMade,
         ActiveMade, RunningKnows, SavedKnow, BootPhase, AllStarted, Made, pool, tree,
         where, hw
  <1>7. QED
    BY <1>1, <1>2, <1>3, <1>5, <1>6 DEF Next

\* The history variable is a Boolean.
LEMMA TornTyped ==
    /\ Init => torn \in BOOLEAN
    /\ torn \in BOOLEAN /\ [Next]_vars => torn' \in BOOLEAN
  BY DEF Init, Next, ExecStep, HaltStep, UserStep, CallExecute, Tick, vars

\* No shell executes early: every execute finds all roots started.
LEMMA NoEarly == ASSUME ~EarlyExecute, CallExecute PROVE AllStarted
  BY DEF CallExecute

\* Types hold for any number of terminals and slots and for ticks at any
\* point: even torn, execute and halt never index a table out of its range.
THEOREM TypeCorrect == ASSUME ~EarlyExecute PROVE Spec => []TypeOK
  <1> DEFINE TInv == IInv /\ torn \in BOOLEAN
  <1>1. Init => TInv
    BY InitIInv, TornTyped
  <1>2. TInv /\ [Next]_vars => TInv'
    BY NextIInv, TornTyped, NoEarly
  <1>3. TInv => TypeOK
    BY DEF IInv, TypeOK
  <1> HIDE DEF TInv
  <1>4. QED
    BY <1>1, <1>2, <1>3, PTL DEF Spec

\* No root shell ever loses its slot, for any number of terminals and slots
\* and for ticks at any point: whatever halt reads back after being
\* preempted, the pid it releases is not a root shell's.
THEOREM RootShellsKept == ASSUME ~EarlyExecute PROVE Spec => []RootsKeepSlots
  <1>1. Init => IInv
    BY InitIInv
  <1>2. IInv /\ [Next]_vars => IInv'
    BY NextIInv, NoEarly
  <1>3. IInv => RootsKeepSlots
    BY DEF IInv, KernelSlotsTaken, RootsKeepSlots
  <1>4. QED
    BY <1>1, <1>2, <1>3, PTL DEF Spec

----------------------------------------------------------------------------
(***************************************************************************)
(* What holds, for any number of terminals and slots, until a tick comes   *)
(* in one of the windows or a shell executes early: the scheduler and halt *)
(* always find a frame to resume, user code runs as itself, process_count  *)
(* counts the slots, and the process tree changes as module Chains says.   *)
(*                                                                         *)
(* None of this is inductive.  SInv adds, for every terminal, how far the  *)
(* execute or halt its flow is in has got with the tables; who may own a   *)
(* saved frame; and that the chains are chains, which module ChainsProofs  *)
(* shows of the abstract steps and the mapping carries over.               *)
(***************************************************************************)

\* The invariant of the abstract specification, read through the mapping.
CP == INSTANCE ChainsProofs
    WITH members <- [t \in Terminals |-> ChainOf(t)],
         top     <- current_process_id,
         parent  <- [p \in Pids |->
                        IF pcb_terminal[p] # 0 /\ p \in ChainOf(pcb_terminal[p])
                        THEN parent_pid[p] ELSE 0],
         broken  <- torn

\* Contexts of a process that waits for its child; contexts that are, or
\* were, frames; contexts a suspended terminal may have.
Kept == {"exec_return", "smashed"}
Live == Points \cup {"smashed"}
Resumable == (SafePoints \ {"boot", "panic"}) \cup {"smashed"}

here == active_terminal
Top(t) == current_process_id[t]

RootsHome   == \A r \in Roots : pcb_terminal[r] = r /\ parent_pid[r] = 0
CurrentHome == \A t \in Terminals : Top(t) # 0 => pcb_terminal[Top(t)] = t
SuspendedOk ==
    \A t \in Terminals : t # here /\ Top(t) # 0 =>
        context[Top(t)].pc \in Resumable /\ processes[Top(t)] = 1

\* Frames are saved only in pcbs in use; but for the frame of an execute, only
\* in the pcb of the process its terminal resumes.
SavedOk ==
    /\ \A p \in Pids : context[p].pc \in Points =>
           context[p].pc \in SafePoints \ {"panic"}
    /\ \A p \in Pids \ Roots :
           /\ context[p].pc \in Live => processes[p] = 1 /\ pcb_terminal[p] # 0
           /\ context[p].pc \in Points \ {"exec_return"} => Top(pcb_terminal[p]) = p

\* The slot an execute has taken for a child is in no chain, and no other
\* execute has it.
Embryonic(t) == FlowOf(t).pc \in {"exec_pcb", "exec_cpid"}
EmbryoOk(t) ==
    Embryonic(t) =>
        /\ processes[FlowOf(t).loc] = 1
        /\ \A u \in Terminals : FlowOf(t).loc \notin ChainOf(u)
        /\ \A u \in Terminals : u # t /\ Embryonic(u) => FlowOf(u).loc # FlowOf(t).loc
        /\ FlowOf(t).pc = "exec_cpid" =>
               pcb_terminal[FlowOf(t).loc] = t /\ parent_pid[FlowOf(t).loc] = Top(t)
EmbryosOk == \A t \in Terminals : EmbryoOk(t)

\* What the running flow has done to the tables at each point.
RunBoot == cpu.pc = "boot" => active_pid = 0 /\ \A t \in Terminals : Top(t) = 0
RunHome == cpu.pc # "boot" => Top(here) # 0 /\ pcb_terminal[active_pid] = here
RunTop  == cpu.pc \notin ExecWindow \cup {"boot", "halt_terminal"} => Top(here) = active_pid
RunSlot == /\ cpu.pc \notin ReleaseWindow \cup {"boot"} => processes[active_pid] = 1
           /\ cpu.pc \in ReleaseWindow => processes[active_pid] = 0
RunExec == /\ cpu.pc = "exec_take" => processes[cpu.loc] = 0
           /\ cpu.pc \in ExecWindow => /\ Top(here) = cpu.loc
                                       /\ processes[cpu.loc] = 1
                                       /\ parent_pid[cpu.loc] = active_pid
                                       /\ context[cpu.loc].pc \notin Live
           /\ cpu.pc = "exec_switch" => context[active_pid].pc = "exec_return"
RunHalt == /\ cpu.pc \in ReleaseWindow => active_pid \notin Roots
           /\ cpu.pc = "halt_pid" => cpu.loc = parent_pid[active_pid]
           /\ cpu.pc = "halt_terminal" => /\ Top(here) \notin Roots
                                          /\ processes[Top(here)] = 0
                                          /\ parent_pid[Top(here)] = active_pid
                                          /\ context[Top(here)].pc \notin Live
           /\ cpu.pc \in ReturnWindow => context[active_pid].pc \in Kept
RunSaved == active_pid \notin Roots
            /\ cpu.pc \notin ReturnWindow \cup {"boot", "exec_switch"}
            => context[active_pid].pc \notin Live
RunPage == cpu.pc \notin {"boot", "halt_terminal", "halt_esp0", "halt_page"} =>
               user_page = IF cpu.pc \in {"exec_save", "exec_switch"} THEN cpu.loc
                           ELSE active_pid
RunCount == /\ cpu.pc \in {"exec_parse", "exec_load", "exec_store"} =>
                   process_count # NumPids
            /\ cpu.pc \in {"exec_store", "halt_store"} => cpu.loc = process_count

Run == /\ RunBoot /\ RunHome /\ RunTop /\ RunSlot /\ RunExec /\ RunHalt
       /\ RunSaved /\ RunPage /\ RunCount /\ cpu.pc # "panic"

ChainsOk == CP!IInv

Tables == RootsHome /\ CurrentHome /\ SuspendedOk /\ SavedOk /\ EmbryosOk

SInv == IInv /\ Tables /\ Run /\ ChainsOk /\ Counted

----------------------------------------------------------------------------
\* Sets of points

\* The safe points, listed.
LEMMA SafeListed ==
    SafePoints = {"boot", "user", "wait", "exec_check", "exec_scan", "exec_pcb",
                  "exec_cpid", "exec_esp0", "exec_iret", "exec_return",
                  "halt_enter", "root_enter", "halt_load", "fault", "overrun",
                  "panic"}
  BY DEF SafePoints, Points, ExecPoints, HaltPoints, BlueScreens, CountWindow,
     AllocWindow, ExecWindow, ReleaseWindow, ReturnWindow

\* A saved context of a dead kind is not live.
LEMMA DeadNotLive == \A k \in {"none", "entry", "stale"} : Dead(k).pc \notin Live
  BY DEF Dead, Flow, Live, Points, ExecPoints, HaltPoints, BlueScreens

----------------------------------------------------------------------------
\* Chains

\* Who is in a chain.
LEMMA InChain ==
    ASSUME NEW t \in Terminals, NEW p
    PROVE  p \in ChainOf(t) <=>
               /\ Top(t) # 0
               /\ \/ p = Top(t)
                  \/ /\ p \in Pids /\ processes[p] = 1 /\ pcb_terminal[p] = t
                     /\ Waits(p)
  BY DEF ChainOf, Allocated, Top

\* A member of a chain has its terminal in its pcb.
LEMMA MemberHome ==
    ASSUME IInv, CurrentHome, NEW t \in Terminals, NEW p \in ChainOf(t)
    PROVE  p \in Pids /\ pcb_terminal[p] = t /\ Top(t) # 0
  <1>1. Top(t) # 0
    BY InChain
  <1>2. Top(t) \in Pids
    BY <1>1 DEF IInv, CurrentMade, Made, Top
  <1>3. QED
    BY <1>1, <1>2, InChain DEF CurrentHome

\* The running process is in the chain of its terminal.
LEMMA ActiveInChain ==
    ASSUME IInv, Run, cpu.pc # "boot"
    PROVE  active_pid \in ChainOf(here) /\ active_pid \in Pids /\ here \in Terminals
           /\ here # 0
  <1>1. active_pid \in Pids /\ here \in Terminals /\ here # 0
    BY InKernel, Sizes DEF IInv, KernelTypes, here
  <1>2. CASE cpu.pc \in ReleaseWindow
    BY <1>1, <1>2, InChain DEF Run, RunTop, RunHome, ReleaseWindow, ExecWindow
  <1>3. CASE cpu.pc \notin ReleaseWindow
    BY <1>1, <1>3, InChain DEF Run, RunSlot, RunHome, Waits
  <1>4. QED
    BY <1>1, <1>2, <1>3

\* The chains stay as they are when nobody starts or stops waiting, but for
\* processes that their terminal runs anyway.
LEMMA SameChains ==
    ASSUME UNCHANGED <<current_process_id, pcb_terminal>>,
           \A p \in Pids : pcb_terminal[p] \in Terminals
                           /\ Top(pcb_terminal[p]) \notin {0, p} =>
               ((processes'[p] = 1 /\ Waits(p)') <=> (processes[p] = 1 /\ Waits(p)))
    PROVE  \A t \in Terminals : ChainOf(t)' = ChainOf(t)
  <1> SUFFICES ASSUME NEW t \in Terminals, NEW p
               PROVE  p \in ChainOf(t)' <=> p \in ChainOf(t)
    BY DEF ChainOf
  <1>1. CASE Top(t) = 0 \/ p = Top(t) \/ p \notin Pids
    BY <1>1 DEF ChainOf, Top, Allocated
  <1>2. CASE Top(t) # 0 /\ p # Top(t) /\ p \in Pids
    BY <1>2 DEF ChainOf, Top, Allocated
  <1>3. QED
    BY <1>1, <1>2

\* The chains of the tables are chains: what the steps below use of it.
LEMMA ChainFacts ==
    ASSUME IInv, RootsHome, CurrentHome, ChainsOk,
           NEW t \in Terminals, Top(t) # 0
    PROVE  /\ t \in ChainOf(t) /\ Top(t) \in ChainOf(t)
           /\ \A p \in ChainOf(t) \ {t} :
                  /\ parent_pid[p] \in ChainOf(t) \ {p, Top(t)}
                  /\ p \notin Roots
  <1>1. CP!ChainOk(t)
    BY DEF ChainsOk, CP!IInv
  <1>2. Top(t) \in ChainOf(t)
    BY InChain
  <1>3. /\ t \in ChainOf(t)
        /\ \A p \in ChainOf(t) \ {t} :
               [q \in Pids |-> IF pcb_terminal[q] # 0 /\ q \in ChainOf(pcb_terminal[q])
                               THEN parent_pid[q] ELSE 0][p]
               \in ChainOf(t) \ {p, Top(t)}
    BY <1>1, <1>2 DEF CP!ChainOk, Top
  <1>4. \A p \in ChainOf(t) : p \in Pids /\ pcb_terminal[p] = t
    BY MemberHome
  <1>5. t # 0
    BY Sizes
  <1>6. \A p \in ChainOf(t) \ {t} : parent_pid[p] \in ChainOf(t) \ {p, Top(t)}
    BY <1>3, <1>4, <1>5
  <1>7. \A p \in ChainOf(t) \ {t} : p \notin Roots
    BY <1>4 DEF RootsHome
  <1>8. QED
    BY <1>2, <1>3, <1>6, <1>7

\* A step that the mapping turns into a step of the abstract specification
\* keeps the chains.
LEMMA ChainsStep ==
    ASSUME ChainsOk, [Chained!Change]_(Chained!chains)
    PROVE  ChainsOk'
  <1>1. [CP!Change]_(CP!chains)
    BY DEF Chained!Change, Chained!chains, Chained!Start, Chained!Execute, Chained!Halt,
           CP!Change, CP!chains, CP!Start, CP!Execute, CP!Halt
  <1>2. Terminals \subseteq Pids /\ 0 \notin Pids
    BY Sizes
  <1>3. QED
    BY <1>1, <1>2, CP!ChangeKeeps DEF ChainsOk

\* Steps that leave the chains and the pcbs of their members alone are
\* invisible to the abstract specification.
LEMMA ChainsStutter ==
    ASSUME UNCHANGED <<tree, current_process_id>>,
           \A t \in Terminals : ChainOf(t)' = ChainOf(t),
           pcb_terminal \in [Pids -> Terminals \cup {0}]
    PROVE  UNCHANGED Chained!chains
  <1>1. [t \in Terminals |-> ChainOf(t)]' = [t \in Terminals |-> ChainOf(t)]
    OBVIOUS
  <1>2. \A p \in Pids : pcb_terminal[p] # 0 => pcb_terminal[p] \in Terminals
    OBVIOUS
  <1>3. [p \in Pids |-> IF pcb_terminal[p] # 0 /\ p \in ChainOf(pcb_terminal[p])
                        THEN parent_pid[p] ELSE 0]'
        = [p \in Pids |-> IF pcb_terminal[p] # 0 /\ p \in ChainOf(pcb_terminal[p])
                          THEN parent_pid[p] ELSE 0]
    BY <1>2 DEF tree
  <1>4. QED
    BY <1>1, <1>3 DEF Chained!chains

----------------------------------------------------------------------------
\* Flows

Gone == {"smashed", "overrun"}

\* The flow of a terminal is where it was, or it has been overwritten.
Evolves(t) ==
    \/ /\ FlowOf(t)'.pc = FlowOf(t).pc
       /\ Embryonic(t) => FlowOf(t)'.loc = FlowOf(t).loc
    \/ FlowOf(t)'.pc \in Gone

\* A step of the running flow leaves alone the flows of terminals whose
\* current process keeps its context.
LEMMA OthersStay ==
    ASSUME active_terminal' = active_terminal,
           NEW t \in Terminals, t # here, Top(t)' = Top(t),
           Top(t) # 0 => context'[Top(t)] = context[Top(t)]
    PROVE  FlowOf(t)' = FlowOf(t)
  BY DEF FlowOf, Top, here

\* The children being created, after a step in which the flows outside X
\* stay where they are.
LEMMA EmbryosStep ==
    ASSUME EmbryosOk, NEW X \in SUBSET Terminals,
           \A t \in Terminals \ X : Evolves(t),
           \A t \in X : EmbryoOk(t)',
           \A t \in Terminals \ X : Embryonic(t) =>
               /\ processes'[FlowOf(t).loc] = 1
               /\ \A u \in Terminals : FlowOf(t).loc \notin ChainOf(u)'
               /\ FlowOf(t).pc = "exec_cpid" =>
                      /\ Top(t)' = Top(t)
                      /\ pcb_terminal'[FlowOf(t).loc] = pcb_terminal[FlowOf(t).loc]
                      /\ parent_pid'[FlowOf(t).loc] = parent_pid[FlowOf(t).loc]
    PROVE  EmbryosOk'
  <1> SUFFICES ASSUME NEW t \in Terminals \ X, Embryonic(t)' PROVE EmbryoOk(t)'
    BY DEF EmbryosOk, EmbryoOk
  <1>1. \A u \in Terminals \ X : Embryonic(u)' =>
            /\ Embryonic(u) /\ FlowOf(u)'.pc = FlowOf(u).pc
            /\ FlowOf(u)'.loc = FlowOf(u).loc
    BY DEF Embryonic, Evolves, Gone
  <1>2. /\ Embryonic(t) /\ FlowOf(t)'.pc = FlowOf(t).pc
        /\ FlowOf(t)'.loc = FlowOf(t).loc
    BY <1>1
  <1>3. ASSUME NEW u \in Terminals, u # t, Embryonic(u)'
        PROVE  FlowOf(u)'.loc # FlowOf(t)'.loc
    <2>1. CASE u \in X
      BY <1>3, <2>1 DEF EmbryoOk
    <2>2. CASE u \notin X
      BY <1>1, <1>2, <1>3, <2>2 DEF EmbryosOk, EmbryoOk
    <2>3. QED
      BY <2>1, <2>2
  <1>4. QED
    BY <1>2, <1>3 DEF EmbryosOk, EmbryoOk

----------------------------------------------------------------------------
\* Counting

\* The sets that process_count counts are finite.
LEMMA CountedFinite ==
    /\ \A S \in SUBSET Terminals : IsFiniteSet(S) /\ Cardinality(S) \in Nat
    /\ \A S \in SUBSET Pids : /\ IsFiniteSet(S) /\ Cardinality(S) \in Nat
                              /\ Cardinality(S) <= NumPids
    /\ Cardinality(Pids) = NumPids
  <1>1. IsFiniteSet(Terminals) /\ IsFiniteSet(Pids)
    BY SizesAssumption, FS_Interval DEF Terminals, Pids
  <1>2. Cardinality(Pids) = NumPids
    BY SizesAssumption, FS_Interval DEF Pids
  <1>3. \A S \in SUBSET Terminals : IsFiniteSet(S) /\ Cardinality(S) \in Nat
    BY <1>1, FS_Subset, FS_CardinalityType
  <1>4. \A S \in SUBSET Pids : /\ IsFiniteSet(S) /\ Cardinality(S) \in Nat
                               /\ Cardinality(S) <= NumPids
    BY <1>1, <1>2, FS_Subset, FS_CardinalityType
  <1>5. QED
    BY <1>2, <1>3, <1>4

\* A flow that claims a slot is not gone.
LEMMA ClaimingLost == /\ Claiming \cap Lost = {} /\ Claiming \subseteq Terminals
                      /\ Lost \subseteq Terminals /\ Leaving \subseteq Terminals
                      /\ Allocated \subseteq Pids
  BY DEF Claiming, Lost, Leaving, Allocated

\* Two disjoint sets of terminals together.
LEMMA CountUnion ==
    ASSUME NEW S \in SUBSET Terminals, NEW T \in SUBSET Terminals,
           NEW U \in SUBSET Terminals, NEW V \in SUBSET Terminals,
           S \cap T = {}, U \cap V = {}, S \cup T \subseteq U \cup V
    PROVE  Cardinality(S) + Cardinality(T) <= Cardinality(U) + Cardinality(V)
  <1>1. IsFiniteSet(S) /\ IsFiniteSet(T) /\ IsFiniteSet(U) /\ IsFiniteSet(V)
        /\ IsFiniteSet(U \cup V)
    BY CountedFinite
  <1>2. Cardinality(S \cup T) = Cardinality(S) + Cardinality(T) - Cardinality(S \cap T)
    BY <1>1, FS_Union
  <1>3. Cardinality(U \cup V) = Cardinality(U) + Cardinality(V) - Cardinality(U \cap V)
    BY <1>1, FS_Union
  <1>4. Cardinality(S \cap T) = 0 /\ Cardinality(U \cap V) = 0
    BY FS_EmptySet
  <1>5. Cardinality(S \cup T) <= Cardinality(U \cup V)
    BY <1>1, FS_Subset
  <1>6. /\ Cardinality(S) \in Nat /\ Cardinality(T) \in Nat
        /\ Cardinality(U) \in Nat /\ Cardinality(V) \in Nat
    BY CountedFinite
  <1>7. QED
    BY <1>2, <1>3, <1>4, <1>5, <1>6

\* Nothing is claimed, taken or given back; flows may be lost.
LEMMA CountStays ==
    ASSUME IInv, Counted, process_count' = process_count, Allocated' = Allocated,
           Claiming' \subseteq Claiming, Leaving' = Leaving,
           Claiming \cup Lost \subseteq Claiming' \cup Lost'
    PROVE  Counted'
  <1>1. /\ Claiming' \cap Lost' = {} /\ Claiming' \subseteq Terminals
        /\ Lost' \subseteq Terminals
    BY DEF Claiming, Lost
  <1>2. Cardinality(Claiming) + Cardinality(Lost)
        <= Cardinality(Claiming') + Cardinality(Lost')
    BY <1>1, ClaimingLost, CountUnion
  <1>3. Cardinality(Claiming') <= Cardinality(Claiming)
    BY <1>1, ClaimingLost, CountedFinite, FS_Subset
  <1>4. /\ Cardinality(Claiming) \in Nat /\ Cardinality(Claiming') \in Nat
        /\ Cardinality(Lost) \in Nat /\ Cardinality(Lost') \in Nat
        /\ Cardinality(Leaving) \in Nat /\ Cardinality(Allocated) \in Nat
    BY <1>1, ClaimingLost, CountedFinite
  <1>5. process_count \in Int /\ NumPids \in Nat
    BY Sizes DEF IInv, KernelTypes
  <1> HIDE DEF Claiming, Lost, Leaving, Allocated
  <1>6. QED
    BY <1>2, <1>3, <1>4, <1>5 DEF Counted

\* The running flow takes or gives back: how the counted sets follow it.
LEMMA RunningCounted ==
    ASSUME active_terminal' = active_terminal, active_terminal \in Terminals,
           \A t \in Terminals : t # here => FlowOf(t)' = FlowOf(t)
    PROVE  /\ Claiming' = IF cpu'.pc \in {"exec_scan", "exec_take"}
                          THEN Claiming \cup {here} ELSE Claiming \ {here}
           /\ Leaving' = IF cpu'.pc = "halt_release"
                         THEN Leaving \cup {here} ELSE Leaving \ {here}
           /\ Lost' = IF cpu'.pc \in Gone THEN Lost \cup {here} ELSE Lost \ {here}
           /\ here \in Claiming <=> cpu.pc \in {"exec_scan", "exec_take"}
           /\ here \in Leaving <=> cpu.pc = "halt_release"
           /\ here \in Lost <=> cpu.pc \in Gone
  <1>1. FlowOf(here) = cpu /\ FlowOf(here)' = cpu' /\ here \in Terminals
        /\ here' = here
    BY DEF FlowOf, here
  <1>2. \A t \in Terminals : FlowOf(t)' = IF t = here THEN cpu' ELSE FlowOf(t)
    BY <1>1
  <1> HIDE DEF FlowOf, here
  <1>3. QED
    BY <1>1, <1>2 DEF Claiming, Leaving, Lost, Gone

\* The slot get_process_available finds is free.
LEMMA FirstFreeIsFree ==
    ASSUME FreeSlots # {} PROVE FirstFree \in FreeSlots /\ processes[FirstFree] = 0
  <1>1. FreeSlots \subseteq Nat
    BY Sizes DEF FreeSlots, Slots
  <1>2. \E s \in FreeSlots : \A r \in FreeSlots : s <= r
    BY <1>1, LeastNat
  <1>3. FirstFree \in FreeSlots
    BY <1>2 DEF FirstFree
  <1>4. QED
    BY <1>3 DEF FreeSlots

----------------------------------------------------------------------------
\* Steps of the running flow that leave the tables alone

\* They move a flow, and possibly the count and the hardware state.
LEMMA QuietStep ==
    ASSUME SInv, cpu.pc # "boot", UNCHANGED <<tree, where, context, processes>>,
           cpu'.pc \notin {"exec_pcb", "exec_cpid"}
    PROVE  Tables' /\ ChainsOk' /\ UNCHANGED Chained!chains
           /\ \A t \in Terminals : t # here => FlowOf(t)' = FlowOf(t)
  <1>1. /\ IInv /\ Tables /\ active_terminal' = active_terminal
        /\ current_process_id' = current_process_id /\ active_pid' = active_pid
        /\ pcb_terminal' = pcb_terminal /\ parent_pid' = parent_pid
        /\ pcb_terminal \in [Pids -> Terminals \cup {0}]
    BY DEF SInv, IInv, KernelTypes, where, tree
  <1>2. \A t \in Terminals : ChainOf(t)' = ChainOf(t)
    BY <1>1, SameChains DEF Waits
  <1>3. UNCHANGED Chained!chains
    BY <1>1, <1>2, ChainsStutter DEF tree
  <1>4. ChainsOk'
    BY <1>3, ChainsStep DEF SInv
  <1>5. \A t \in Terminals : t # here => FlowOf(t)' = FlowOf(t)
    BY <1>1, OthersStay DEF Top
  <1>6. RootsHome' /\ CurrentHome' /\ SuspendedOk' /\ SavedOk'
    BY <1>1 DEF Tables, RootsHome, CurrentHome, SuspendedOk, SavedOk, Top, here
  <1>7. EmbryosOk'
    <2> DEFINE X == {here}
    <2>1. X \in SUBSET Terminals
      BY <1>1 DEF here, IInv, KernelTypes
    <2>2. \A t \in Terminals \ X : Evolves(t)
      BY <1>5 DEF Evolves
    <2>3. \A t \in X : EmbryoOk(t)'
      BY <1>1 DEF EmbryoOk, Embryonic, FlowOf, here
    <2>4. \A t \in Terminals \ X : Embryonic(t) =>
               /\ processes'[FlowOf(t).loc] = 1
               /\ \A u \in Terminals : FlowOf(t).loc \notin ChainOf(u)'
               /\ FlowOf(t).pc = "exec_cpid" =>
                      /\ Top(t)' = Top(t)
                      /\ pcb_terminal'[FlowOf(t).loc] = pcb_terminal[FlowOf(t).loc]
                      /\ parent_pid'[FlowOf(t).loc] = parent_pid[FlowOf(t).loc]
      BY <1>1, <1>2 DEF Tables, EmbryosOk, EmbryoOk, Top
    <2> HIDE DEF X
    <2>5. QED
      BY <1>1, <2>1, <2>2, <2>3, <2>4, EmbryosStep DEF Tables
  <1>8. QED
    BY <1>3, <1>4, <1>5, <1>6, <1>7 DEF Tables

\* The count, when the running flow is at no point that is counted.
LEMMA QuietCount ==
    ASSUME SInv, process_count' = process_count, UNCHANGED processes,
           active_terminal' = active_terminal,
           \A t \in Terminals : t # here => FlowOf(t)' = FlowOf(t),
           cpu.pc \in {"exec_scan", "exec_take"} <=> cpu'.pc \in {"exec_scan", "exec_take"},
           cpu.pc = "halt_release" <=> cpu'.pc = "halt_release",
           cpu.pc \notin Gone
    PROVE  Counted'
  <1>1. /\ Claiming' = Claiming /\ Leaving' = Leaving /\ Lost \subseteq Lost'
        /\ Allocated' = Allocated
    BY RunningCounted DEF SInv, IInv, KernelTypes, Allocated
  <1>2. QED
    BY <1>1, CountStays DEF SInv

\* execute before it takes a slot and after it has handed over, and the other
\* system calls.
LEMMA QuietExecSteps ==
    ASSUME SInv,
           ExecRefuse \/ ExecAdmit \/ ExecBadCommand \/ ExecGoodCommand \/ ExecLoad
           \/ ExecScan \/ ExecPage \/ ExecEsp0 \/ ExecIret \/ ExecReturn \/ OtherReturn
    PROVE  Tables' /\ Run' /\ ChainsOk' /\ Counted' /\ UNCHANGED Chained!chains
  <1> USE DEF At, Goto, ReturnToUser, InUser, Flow
  <1>1. cpu \in [pc : Points \cup DeadContexts, area : Areas, loc : Int]
    BY DEF SInv, IInv, KernelTypes, FlowType
  <1>2. UNCHANGED <<tree, where, context, processes, process_count>>
    BY DEF ExecRefuse, ExecAdmit, ExecBadCommand, ExecGoodCommand, ExecLoad, ExecScan,
           ExecPage, ExecEsp0, ExecIret, ExecReturn, OtherReturn, pool
  <1>3. \/ cpu.pc = "exec_check" /\ cpu'.pc \in {"user", "exec_parse"}
           /\ (cpu'.pc = "exec_parse" => process_count # NumPids)
           /\ UNCHANGED hw
        \/ cpu.pc = "exec_parse" /\ cpu'.pc \in {"user", "exec_load"} /\ UNCHANGED hw
        \/ /\ cpu.pc = "exec_load" /\ cpu'.pc = "exec_store"
           /\ cpu'.loc = process_count /\ UNCHANGED hw
        \/ /\ cpu.pc = "exec_scan" /\ cpu'.pc = "exec_take" /\ UNCHANGED hw
           /\ FreeSlots # {} /\ cpu'.loc = FirstFree
        \/ /\ cpu.pc = "exec_page" /\ cpu'.pc = "exec_save"
           /\ cpu'.loc = cpu.loc /\ user_page' = cpu.loc
        \/ cpu.pc = "exec_esp0" /\ cpu'.pc = "exec_iret" /\ user_page' = user_page
        \/ cpu.pc \in {"exec_iret", "exec_return", "wait"} /\ cpu'.pc = "user"
           /\ UNCHANGED hw
    <2>1. CASE ExecRefuse \/ ExecBadCommand \/ ExecIret \/ ExecReturn \/ OtherReturn
      BY <2>1 DEF ExecRefuse, ExecBadCommand, ExecIret, ExecReturn, OtherReturn
    <2>2. CASE ExecAdmit \/ ExecGoodCommand
      BY <1>1, <2>2 DEF ExecAdmit, ExecGoodCommand
    <2>3. CASE ExecLoad
      BY <1>1, <2>3 DEF ExecLoad
    <2>4. CASE ExecScan
      BY <1>1, <2>4 DEF ExecScan
    <2>5. CASE ExecPage
      BY <1>1, <2>5 DEF ExecPage
    <2>6. CASE ExecEsp0
      BY <1>1, <2>6 DEF ExecEsp0
    <2>7. QED
      BY <2>1, <2>2, <2>3, <2>4, <2>5, <2>6
  <1>4. /\ cpu.pc # "boot" /\ cpu'.pc \notin {"exec_pcb", "exec_cpid"}
        /\ cpu.pc \in {"exec_scan", "exec_take"} <=> cpu'.pc \in {"exec_scan", "exec_take"}
        /\ cpu.pc = "halt_release" <=> cpu'.pc = "halt_release"
        /\ cpu.pc \notin Gone
    BY <1>3 DEF Gone
  <1>5. /\ Tables' /\ ChainsOk' /\ UNCHANGED Chained!chains
        /\ \A t \in Terminals : t # here => FlowOf(t)' = FlowOf(t)
    BY <1>2, <1>4, QuietStep
  <1>6. Counted'
    BY <1>2, <1>4, <1>5, QuietCount DEF where
  <1>7. cpu'.pc = "exec_take" => processes[cpu'.loc] = 0
    BY <1>3, FirstFreeUsable, FirstFreeIsFree DEF SInv, IInv
  <1>8. Run'
    <2>1. RunBoot' /\ RunHome' /\ RunTop' /\ RunSlot'
      BY <1>2, <1>3 DEF SInv, Run, RunBoot, RunHome, RunTop, RunSlot, ExecWindow,
         ReleaseWindow, where, tree, Top, here
    <2>2. RunExec' /\ RunHalt'
      BY <1>2, <1>3, <1>7 DEF SInv, Run, RunExec, RunHalt, ExecWindow,
         ReleaseWindow, ReturnWindow, where, tree, Top, here
    <2>3. RunSaved' /\ RunPage' /\ RunCount' /\ cpu'.pc # "panic"
      BY <1>2, <1>3 DEF SInv, Run, RunSaved, RunPage, RunCount, ReturnWindow,
         where, hw
    <2>4. QED
      BY <2>1, <2>2, <2>3 DEF Run
  <1>9. QED
    BY <1>5, <1>6, <1>8

\* halt before it gives the slot back and after it has gone back to the parent.
LEMMA QuietHaltSteps ==
    ASSUME SInv,
           HaltRoot \/ HaltChild \/ HaltLoad \/ HaltClose \/ HaltEsp0 \/ HaltPage
    PROVE  Tables' /\ Run' /\ ChainsOk' /\ Counted' /\ UNCHANGED Chained!chains
  <1> USE DEF At, Goto
  <1>1. cpu \in [pc : Points \cup DeadContexts, area : Areas, loc : Int]
    BY DEF SInv, IInv, KernelTypes, FlowType
  <1>2. UNCHANGED <<tree, where, context, processes, process_count>>
    BY DEF HaltRoot, HaltChild, HaltLoad, HaltClose, HaltEsp0, HaltPage, pool
  <1>3. \/ cpu.pc = "halt_enter" /\ cpu'.pc \in {"root_enter", "halt_load"} /\ UNCHANGED hw
        \/ /\ cpu.pc = "halt_load" /\ cpu'.pc = "halt_store" /\ UNCHANGED hw
           /\ cpu'.loc = process_count
        \/ /\ cpu.pc = "halt_close" /\ cpu'.pc = "halt_pid" /\ UNCHANGED hw
           /\ cpu'.loc = parent_pid[active_pid]
        \/ cpu.pc = "halt_esp0" /\ cpu'.pc = "halt_page"
        \/ cpu.pc = "halt_page" /\ cpu'.pc = "halt_switch" /\ user_page' = active_pid
    <2>1. CASE HaltRoot \/ HaltChild
      BY <1>1, <2>1 DEF HaltRoot, HaltChild
    <2>2. CASE HaltLoad
      BY <1>1, <2>2 DEF HaltLoad
    <2>3. CASE HaltClose
      BY <1>1, <2>3 DEF HaltClose
    <2>4. CASE HaltEsp0 \/ HaltPage
      BY <1>1, <2>4 DEF HaltEsp0, HaltPage
    <2>5. QED
      BY <2>1, <2>2, <2>3, <2>4
  <1>4. /\ cpu.pc # "boot" /\ cpu'.pc \notin {"exec_pcb", "exec_cpid"}
        /\ cpu.pc \in {"exec_scan", "exec_take"} <=> cpu'.pc \in {"exec_scan", "exec_take"}
        /\ cpu.pc = "halt_release" <=> cpu'.pc = "halt_release"
        /\ cpu.pc \notin Gone
    BY <1>3 DEF Gone
  <1>5. /\ Tables' /\ ChainsOk' /\ UNCHANGED Chained!chains
        /\ \A t \in Terminals : t # here => FlowOf(t)' = FlowOf(t)
    BY <1>2, <1>4, QuietStep
  <1>6. Counted'
    BY <1>2, <1>4, <1>5, QuietCount DEF where
  <1>7. Run'
    <2>1. RunBoot' /\ RunHome' /\ RunTop' /\ RunSlot'
      BY <1>2, <1>3 DEF SInv, Run, RunBoot, RunHome, RunTop, RunSlot, ExecWindow,
         ReleaseWindow, where, tree, Top, here
    <2>2. RunExec' /\ RunHalt'
      BY <1>2, <1>3 DEF SInv, Run, RunExec, RunHalt, ExecWindow,
         ReleaseWindow, ReturnWindow, where, tree, Top, here
    <2>3. RunSaved' /\ RunPage' /\ RunCount' /\ cpu'.pc # "panic"
      BY <1>2, <1>3 DEF SInv, Run, RunSaved, RunPage, RunCount, ReturnWindow,
         where, hw
    <2>4. QED
      BY <2>1, <2>2, <2>3 DEF Run
  <1>8. QED
    BY <1>5, <1>6, <1>7

\* process_count++ and process_count--: the flow is counted from here on, or
\* counted no more.
LEMMA CountSteps ==
    ASSUME SInv, ExecStore \/ HaltStore
    PROVE  Tables' /\ Run' /\ ChainsOk' /\ Counted' /\ UNCHANGED Chained!chains
  <1> USE DEF At
  <1>1. cpu \in [pc : Points \cup DeadContexts, area : Areas, loc : Int]
    BY DEF SInv, IInv, KernelTypes, FlowType
  <1>2. UNCHANGED <<tree, where, hw, context, processes>>
    BY DEF ExecStore, HaltStore
  <1>3. \/ /\ cpu.pc = "exec_store" /\ cpu'.pc = "exec_scan"
           /\ process_count' = process_count + 1 /\ process_count # NumPids
        \/ /\ cpu.pc = "halt_store" /\ cpu'.pc = "halt_release"
           /\ process_count' = process_count - 1
    BY <1>1 DEF ExecStore, HaltStore, SInv, Run, RunCount
  <1>4. cpu.pc # "boot" /\ cpu'.pc \notin {"exec_pcb", "exec_cpid"}
    BY <1>3
  <1>5. /\ Tables' /\ ChainsOk' /\ UNCHANGED Chained!chains
        /\ \A t \in Terminals : t # here => FlowOf(t)' = FlowOf(t)
    BY <1>2, <1>4, QuietStep
  <1>6. Counted'
    <2>1. /\ active_terminal' = active_terminal /\ here \in Terminals
          /\ active_terminal \in Terminals
          /\ process_count \in Int /\ NumPids \in Nat
      BY <1>2, Sizes DEF where, SInv, IInv, KernelTypes, here
    <2>2. Allocated' = Allocated
      BY <1>2 DEF Allocated
    <2>3. /\ Claiming' = IF cpu'.pc = "exec_scan" THEN Claiming \cup {here} ELSE Claiming
          /\ Leaving' = IF cpu'.pc = "halt_release" THEN Leaving \cup {here} ELSE Leaving
          /\ Lost' = Lost /\ here \notin Claiming /\ here \notin Leaving
      BY <1>3, <1>5, <2>1, RunningCounted DEF Gone
    <2>4. /\ Cardinality(Claiming \cup {here}) = Cardinality(Claiming) + 1
          /\ Cardinality(Leaving \cup {here}) = Cardinality(Leaving) + 1
      BY <2>1, <2>3, ClaimingLost, CountedFinite, FS_AddElement
    <2>5. /\ Cardinality(Claiming) \in Nat /\ Cardinality(Lost) \in Nat
          /\ Cardinality(Leaving) \in Nat /\ Cardinality(Allocated) \in Nat
      BY ClaimingLost, CountedFinite
    <2> HIDE DEF Claiming, Lost, Leaving, Allocated, here
    <2>6. QED
      BY <1>3, <2>1, <2>2, <2>3, <2>4, <2>5 DEF Counted, SInv
  <1>7. Run'
    <2>1. RunBoot' /\ RunHome' /\ RunTop' /\ RunSlot'
      BY <1>2, <1>3 DEF SInv, Run, RunBoot, RunHome, RunTop, RunSlot, ExecWindow,
         ReleaseWindow, where, tree, Top, here
    <2>2. RunExec' /\ RunHalt'
      BY <1>2, <1>3 DEF SInv, Run, RunExec, RunHalt, ExecWindow,
         ReleaseWindow, ReturnWindow, where, tree, Top, here
    <2>3. RunSaved' /\ RunPage' /\ RunCount' /\ cpu'.pc # "panic"
      BY <1>2, <1>3 DEF SInv, Run, RunSaved, RunPage, RunCount, ReturnWindow,
         where, hw
    <2>4. QED
      BY <2>1, <2>2, <2>3 DEF Run
  <1>8. QED
    BY <1>5, <1>6, <1>7

----------------------------------------------------------------------------
\* Slots

\* Only the running flow can be between process_count-- and the release.
LEMMA NoneLeaving ==
    ASSUME SInv, cpu.pc # "halt_release" PROVE Leaving = {}
  <1> SUFFICES ASSUME NEW t \in Terminals PROVE FlowOf(t).pc # "halt_release"
    BY DEF Leaving
  <1>1. CASE t = here \/ Top(t) = 0
    BY <1>1 DEF FlowOf, here, Top, Dead, Flow
  <1>2. CASE t # here /\ Top(t) # 0
    BY <1>2, SafeListed DEF FlowOf, here, Top, SInv, Tables, SuspendedOk, Resumable
  <1>3. QED
    BY <1>1, <1>2

\* An execute that has been counted finds a slot.
LEMMA SlotLeft == ASSUME SInv, cpu.pc = "exec_scan" PROVE FreeSlots # {}
  <1>1. here \in Claiming
    BY DEF Claiming, FlowOf, here, SInv, IInv, KernelTypes
  <1>2. Cardinality(Claiming) # 0
    BY <1>1, ClaimingLost, CountedFinite, FS_EmptySet
  <1>3. Cardinality(Leaving) = 0
    BY NoneLeaving, FS_EmptySet
  <1>4. /\ Cardinality(Claiming) \in Nat /\ Cardinality(Lost) \in Nat
        /\ Cardinality(Allocated) \in Nat /\ process_count \in Int /\ NumPids \in Nat
    BY ClaimingLost, CountedFinite, Sizes DEF SInv, IInv, KernelTypes
  <1>5. Cardinality(Allocated) < NumPids
    BY <1>2, <1>3, <1>4 DEF SInv, Counted
  <1>6. Allocated # Pids
    BY <1>4, <1>5, CountedFinite
  <1>7. QED
    BY <1>6, Sizes DEF Allocated, FreeSlots, SInv, IInv, KernelTypes

\* get_process_available marks the slot it found.
LEMMA ExecTakeStep ==
    ASSUME SInv, ExecTake
    PROVE  Tables' /\ Run' /\ ChainsOk' /\ Counted' /\ UNCHANGED Chained!chains
  <1>0. PICK c : c = cpu.loc
    OBVIOUS
  <1>1. /\ cpu.pc = "exec_take" /\ processes' = [processes EXCEPT ![c] = 1]
        /\ cpu' = [cpu EXCEPT !.pc = "exec_pcb"]
        /\ UNCHANGED <<process_count, tree, where, hw, context>>
    BY <1>0 DEF ExecTake, At, Goto
  <1>2. /\ IInv /\ Tables /\ Run /\ cpu \in FlowType
        /\ processes \in [Slots -> {0, 1}] /\ context \in [Pids -> FlowType]
        /\ here \in Terminals /\ pcb_terminal \in [Pids -> Terminals \cup {0}]
        /\ here' = here /\ active_terminal' = active_terminal
        /\ active_pid' = active_pid /\ current_process_id' = current_process_id
        /\ pcb_terminal' = pcb_terminal /\ parent_pid' = parent_pid
    BY <1>1 DEF SInv, IInv, KernelTypes, here, where, tree
  <1>3. c \in Pids \ Roots /\ processes[c] = 0
    BY <1>0, <1>1, <1>2 DEF IInv, RunningKnows, FlowKnows, ExecOwns, Run, RunExec
  <1>4. cpu'.pc = "exec_pcb" /\ cpu'.loc = c
    BY <1>0, <1>1, <1>2 DEF FlowType
  <1>5. /\ \A p \in Slots : p # c => processes'[p] = processes[p]
        /\ processes'[c] = 1
    BY <1>1, <1>2, <1>3, Sizes
  <1>6. /\ context[c].pc \notin Live /\ c # active_pid /\ Top(here) = active_pid
        /\ processes[active_pid] = 1
    BY <1>1, <1>2, <1>3 DEF Tables, SavedOk, Run, RunSlot, RunTop, ReleaseWindow,
       ExecWindow
  <1>7. \A t \in Terminals : Top(t) # c
    BY <1>2, <1>3, <1>6, Sizes DEF Tables, SuspendedOk
  <1>8. ~Waits(c) /\ ~Waits(c)'
    BY <1>1, <1>2, <1>6 DEF Waits, Live, Points, ExecPoints
  <1>9. \A t \in Terminals : ChainOf(t)' = ChainOf(t)
    <2>1. \A p \in Pids : (processes'[p] = 1 /\ Waits(p)') <=> (processes[p] = 1 /\ Waits(p))
      BY <1>1, <1>2, <1>5, <1>8, Sizes DEF Waits
    <2>2. QED
      BY <1>2, <2>1, SameChains
  <1>10. UNCHANGED Chained!chains
    BY <1>1, <1>2, <1>9, ChainsStutter
  <1>11. ChainsOk'
    BY <1>10, ChainsStep DEF SInv
  <1>12. \A t \in Terminals : t # here => FlowOf(t)' = FlowOf(t)
    BY <1>1, <1>2, OthersStay DEF Top
  <1>13. \A u \in Terminals : c \notin ChainOf(u)
    BY <1>7, <1>8, InChain
  <1>14. FlowOf(here) = cpu /\ FlowOf(here)' = cpu'
    BY <1>2 DEF FlowOf, here
  <1>15. EmbryosOk'
    <2> DEFINE X == {here}
    <2>1. X \in SUBSET Terminals /\ \A t \in Terminals \ X : Evolves(t)
      BY <1>2, <1>12 DEF Evolves
    <2>2. \A t \in Terminals \ X : Embryonic(t) =>
               /\ FlowOf(t).loc # c
               /\ processes'[FlowOf(t).loc] = 1
               /\ \A u \in Terminals : FlowOf(t).loc \notin ChainOf(u)'
               /\ FlowOf(t).pc = "exec_cpid" =>
                      /\ Top(t)' = Top(t)
                      /\ pcb_terminal'[FlowOf(t).loc] = pcb_terminal[FlowOf(t).loc]
                      /\ parent_pid'[FlowOf(t).loc] = parent_pid[FlowOf(t).loc]
      <3> SUFFICES ASSUME NEW t \in Terminals, t # here, Embryonic(t)
                   PROVE  /\ FlowOf(t).loc # c
                          /\ processes'[FlowOf(t).loc] = 1
                          /\ \A u \in Terminals : FlowOf(t).loc \notin ChainOf(u)'
        BY <1>2 DEF Top
      <3>1. /\ processes[FlowOf(t).loc] = 1
            /\ \A u \in Terminals : FlowOf(t).loc \notin ChainOf(u)
        BY <1>2 DEF Tables, EmbryosOk, EmbryoOk
      <3>2. QED
        BY <1>1, <1>2, <1>3, <1>9, <3>1
    <2>3. EmbryoOk(here)'
      <3>1. /\ FlowOf(here)'.pc = "exec_pcb" /\ FlowOf(here)'.loc = c
        BY <1>4, <1>14
      <3>2. \A u \in Terminals : u # here /\ Embryonic(u)' => FlowOf(u)'.loc # c
        BY <1>12, <2>2 DEF Embryonic
      <3>3. QED
        BY <1>2, <1>5, <1>9, <1>13, <3>1, <3>2 DEF EmbryoOk
    <2>4. \A t \in X : EmbryoOk(t)'
      BY <1>2, <2>3
    <2> HIDE DEF X
    <2>5. QED
      BY <1>2, <2>1, <2>2, <2>4, EmbryosStep DEF Tables
  <1>16. RootsHome' /\ CurrentHome' /\ SuspendedOk' /\ SavedOk'
    BY <1>1, <1>2, <1>5, <1>7, Sizes DEF Tables, RootsHome, CurrentHome, SuspendedOk,
       SavedOk, Top, here, IInv, KernelTypes
  <1>17. Run'
    <2>1. RunBoot' /\ RunHome' /\ RunTop' /\ RunSlot'
      BY <1>1, <1>2, <1>4, <1>5, <1>6, Sizes DEF Run, RunBoot, RunHome, RunTop, RunSlot,
         ExecWindow, ReleaseWindow, Top, here
    <2>2. RunExec' /\ RunHalt'
      BY <1>4 DEF RunExec, RunHalt, ExecWindow, ReleaseWindow, ReturnWindow
    <2>3. RunSaved' /\ RunPage' /\ RunCount' /\ cpu'.pc # "panic"
      BY <1>1, <1>2, <1>4 DEF Run, RunSaved, RunPage, RunCount, ReturnWindow, hw
    <2>4. QED
      BY <2>1, <2>2, <2>3 DEF Run
  <1>18. Counted'
    <2>1. /\ Claiming' = Claiming \ {here} /\ Leaving' = Leaving /\ Lost' = Lost
          /\ here \in Claiming
      BY <1>1, <1>2, <1>4, <1>12, RunningCounted DEF Gone, here
    <2>2. Allocated' = Allocated \cup {c} /\ c \notin Allocated
      BY <1>3, <1>5, Sizes DEF Allocated
    <2>3. /\ Cardinality(Claiming \ {here}) = Cardinality(Claiming) - 1
          /\ Cardinality(Allocated \cup {c}) = Cardinality(Allocated) + 1
      BY <2>1, <2>2, ClaimingLost, CountedFinite, FS_AddElement, FS_RemoveElement
    <2>4. /\ Cardinality(Claiming) \in Nat /\ Cardinality(Lost) \in Nat
          /\ Cardinality(Leaving) \in Nat /\ Cardinality(Allocated) \in Nat
          /\ process_count \in Int /\ NumPids \in Nat /\ process_count' = process_count
      BY <1>1, ClaimingLost, CountedFinite, Sizes DEF SInv, IInv, KernelTypes
    <2> HIDE DEF Claiming, Lost, Leaving, Allocated, here
    <2>5. QED
      BY <2>1, <2>2, <2>3, <2>4 DEF Counted, SInv
  <1>19. QED
    BY <1>10, <1>11, <1>15, <1>16, <1>17, <1>18 DEF Tables

\* The children being created, after a step of the running flow.
LEMMA EmbryosHere ==
    ASSUME SInv, active_terminal' = active_terminal, EmbryoOk(here)',
           \A t \in Terminals : t # here => FlowOf(t)' = FlowOf(t),
           \A t \in Terminals : t # here /\ Embryonic(t) =>
               /\ processes'[FlowOf(t).loc] = 1
               /\ \A u \in Terminals : FlowOf(t).loc \notin ChainOf(u)'
               /\ FlowOf(t).pc = "exec_cpid" =>
                      /\ Top(t)' = Top(t)
                      /\ pcb_terminal'[FlowOf(t).loc] = pcb_terminal[FlowOf(t).loc]
                      /\ parent_pid'[FlowOf(t).loc] = parent_pid[FlowOf(t).loc]
    PROVE  EmbryosOk'
  <1> DEFINE X == {here}
  <1>1. X \in SUBSET Terminals /\ \A t \in Terminals \ X : Evolves(t)
    BY DEF Evolves, SInv, IInv, KernelTypes, here
  <1>2. \A t \in X : EmbryoOk(t)'
    BY DEF here
  <1> HIDE DEF X
  <1>3. EmbryosOk /\ \A t \in Terminals \ X : t # here
    BY DEF SInv, Tables, X
  <1>4. QED
    BY <1>1, <1>2, <1>3, EmbryosStep

\* The child an execute of terminal t is creating is on no chain.
LEMMA EmbryoFacts ==
    ASSUME SInv, NEW t \in Terminals, Embryonic(t)
    PROVE  /\ processes[FlowOf(t).loc] = 1
           /\ \A u \in Terminals : FlowOf(t).loc \notin ChainOf(u)
  BY DEF SInv, Tables, EmbryosOk, EmbryoOk

\* release_process
LEMMA HaltReleaseStep ==
    ASSUME SInv, HaltRelease
    PROVE  Tables' /\ Run' /\ ChainsOk' /\ Counted' /\ UNCHANGED Chained!chains
  <1>1. /\ cpu.pc = "halt_release" /\ processes' = [processes EXCEPT ![active_pid] = 0]
        /\ cpu' = [cpu EXCEPT !.pc = "halt_close"]
        /\ UNCHANGED <<process_count, tree, where, hw, context>>
    BY DEF HaltRelease, At, Goto
  <1>2. /\ IInv /\ Tables /\ Run /\ cpu \in FlowType
        /\ processes \in [Slots -> {0, 1}] /\ context \in [Pids -> FlowType]
        /\ here \in Terminals /\ pcb_terminal \in [Pids -> Terminals \cup {0}]
        /\ here' = here /\ active_terminal' = active_terminal
        /\ active_pid' = active_pid /\ current_process_id' = current_process_id
        /\ pcb_terminal' = pcb_terminal /\ parent_pid' = parent_pid
    BY <1>1 DEF SInv, IInv, KernelTypes, here, where, tree
  <1>3. /\ active_pid \in Pids \ Roots /\ processes[active_pid] = 1
        /\ Top(here) = active_pid /\ pcb_terminal[active_pid] = here
        /\ context[active_pid].pc \notin Live /\ active_pid \in ChainOf(here)
    BY <1>1, <1>2, InKernel, ActiveInChain DEF IInv, RunningKnows, FlowKnows, HaltTail,
       Run, RunSlot, RunTop, RunHome, RunSaved, ReleaseWindow, ExecWindow, ReturnWindow
  <1>4. cpu'.pc = "halt_close"
    BY <1>1, <1>2 DEF FlowType
  <1>5. /\ \A p \in Slots : p # active_pid => processes'[p] = processes[p]
        /\ processes'[active_pid] = 0
    BY <1>1, <1>2, <1>3, Sizes
  <1>6. \A t \in Terminals : ChainOf(t)' = ChainOf(t)
    <2>1. \A p \in Pids : p # active_pid =>
              ((processes'[p] = 1 /\ Waits(p)') <=> (processes[p] = 1 /\ Waits(p)))
      BY <1>1, <1>2, <1>5, Sizes DEF Waits
    <2>2. \A p \in Pids : pcb_terminal[p] \in Terminals
                           /\ Top(pcb_terminal[p]) \notin {0, p} =>
              ((processes'[p] = 1 /\ Waits(p)') <=> (processes[p] = 1 /\ Waits(p)))
      BY <1>3, <2>1
    <2>3. QED
      BY <1>2, <2>2, SameChains
  <1>7. UNCHANGED Chained!chains
    BY <1>1, <1>2, <1>6, ChainsStutter
  <1>8. ChainsOk'
    BY <1>7, ChainsStep DEF SInv
  <1>9. \A t \in Terminals : t # here => FlowOf(t)' = FlowOf(t)
    BY <1>1, <1>2, OthersStay DEF Top
  <1>10. EmbryosOk'
    <2>1. EmbryoOk(here)'
      BY <1>2, <1>4 DEF EmbryoOk, Embryonic, FlowOf, here
    <2>2. \A t \in Terminals : t # here /\ Embryonic(t) =>
              /\ processes'[FlowOf(t).loc] = 1
              /\ \A u \in Terminals : FlowOf(t).loc \notin ChainOf(u)'
      BY <1>1, <1>2, <1>3, <1>6, EmbryoFacts
    <2>3. QED
      BY <1>2, <1>9, <2>1, <2>2, EmbryosHere DEF Top
  <1>11. \A t \in Terminals : t # here => Top(t) # active_pid
    BY <1>2, <1>3, Sizes DEF Tables, CurrentHome
  <1>12. RootsHome' /\ CurrentHome' /\ SuspendedOk' /\ SavedOk'
    <2>1. RootsHome' /\ CurrentHome'
      BY <1>2 DEF Tables, RootsHome, CurrentHome, Top
    <2>2. SuspendedOk'
      BY <1>1, <1>2, <1>5, <1>11 DEF Tables, SuspendedOk, Top, here, IInv, KernelTypes
    <2>3. SavedOk'
      BY <1>1, <1>2, <1>3, <1>5, Sizes DEF Tables, SavedOk, Top
    <2>4. QED
      BY <2>1, <2>2, <2>3
  <1>13. Run'
    <2>1. RunBoot' /\ RunHome' /\ RunTop' /\ RunSlot'
      BY <1>1, <1>2, <1>3, <1>4, <1>5 DEF Run, RunBoot, RunHome, RunTop, RunSlot,
         ExecWindow, ReleaseWindow, Top, here
    <2>2. RunExec' /\ RunHalt'
      BY <1>2, <1>3, <1>4 DEF RunExec, RunHalt, ExecWindow, ReleaseWindow, ReturnWindow
    <2>3. RunSaved' /\ RunPage' /\ RunCount' /\ cpu'.pc # "panic"
      BY <1>1, <1>2, <1>3, <1>4 DEF Run, RunSaved, RunPage, RunCount, ReturnWindow, hw
    <2>4. QED
      BY <2>1, <2>2, <2>3 DEF Run
  <1>14. Counted'
    <2>0. PICK p : p = active_pid
      OBVIOUS
    <2>1. /\ Claiming' = Claiming /\ Leaving' = Leaving \ {here} /\ Lost' = Lost
          /\ here \in Leaving
      BY <1>1, <1>2, <1>4, <1>9, RunningCounted DEF Gone, here
    <2>2. Allocated' = Allocated \ {p} /\ p \in Allocated
      BY <1>3, <1>5, <2>0, Sizes DEF Allocated
    <2>3. /\ Cardinality(Leaving \ {here}) = Cardinality(Leaving) - 1
          /\ Cardinality(Allocated \ {p}) = Cardinality(Allocated) - 1
      BY <2>1, <2>2, ClaimingLost, CountedFinite, FS_RemoveElement
    <2>4. /\ Cardinality(Claiming) \in Nat /\ Cardinality(Lost) \in Nat
          /\ Cardinality(Leaving) \in Nat /\ Cardinality(Allocated) \in Nat
          /\ process_count \in Int /\ NumPids \in Nat /\ process_count' = process_count
      BY <1>1, ClaimingLost, CountedFinite, Sizes DEF SInv, IInv, KernelTypes
    <2> HIDE DEF Claiming, Lost, Leaving, Allocated, here
    <2>5. QED
      BY <2>1, <2>2, <2>3, <2>4 DEF Counted, SInv
  <1>15. QED
    BY <1>7, <1>8, <1>10, <1>12, <1>13, <1>14 DEF Tables

----------------------------------------------------------------------------
\* Steps of execute that change the process tree or who runs

\* What holds of the child when execute reaches its pcb.
LEMMA ChildFacts ==
    ASSUME SInv, cpu.pc \in {"exec_pcb", "exec_cpid"}
    PROVE  /\ cpu.loc \in Pids \ Roots /\ processes[cpu.loc] = 1
           /\ \A u \in Terminals : cpu.loc \notin ChainOf(u) /\ Top(u) # cpu.loc
           /\ cpu.loc # active_pid /\ context[cpu.loc].pc \notin Live
           /\ ~Waits(cpu.loc)
           /\ active_pid \in Pids /\ here \in Terminals /\ Top(here) = active_pid
           /\ active_pid \in ChainOf(here) /\ pcb_terminal[active_pid] = here
           /\ processes[active_pid] = 1 /\ AllStarted
           /\ \A t \in Terminals : t # here /\ Embryonic(t) => FlowOf(t).loc # cpu.loc
  <1>0. PICK c : c = cpu.loc
    OBVIOUS
  <1>1. IInv /\ Tables /\ Run /\ cpu.pc # "boot"
    BY DEF SInv
  <1>2. /\ active_pid \in Pids /\ here \in Terminals /\ Top(here) = active_pid
        /\ active_pid \in ChainOf(here) /\ pcb_terminal[active_pid] = here
        /\ processes[active_pid] = 1
    BY <1>1, ActiveInChain DEF Run, RunTop, RunHome, RunSlot, ExecWindow, ReleaseWindow
  <1>3. c \in Pids \ Roots /\ AllStarted
    BY <1>0, <1>1 DEF IInv, RunningKnows, FlowKnows, ExecOwns, ExecMade, Made, BootPhase,
       ExecPoints
  <1>4. FlowOf(here) = cpu /\ Embryonic(here)
    BY DEF FlowOf, here, Embryonic
  <1>5. /\ processes[c] = 1 /\ \A u \in Terminals : c \notin ChainOf(u)
        /\ \A t \in Terminals : t # here /\ Embryonic(t) => FlowOf(t).loc # c
    BY <1>0, <1>1, <1>2, <1>4 DEF Tables, EmbryosOk, EmbryoOk
  <1>6. \A u \in Terminals : Top(u) # c
    BY <1>3, <1>5, InChain DEF AllStarted, Top
  <1>7. c # active_pid
    BY <1>2, <1>5
  <1>8. pcb_terminal[c] # 0 => pcb_terminal[c] \in Terminals
    BY <1>1, <1>3 DEF IInv, KernelTypes
  <1>9. context[c].pc \notin Live
    <2> SUFFICES ASSUME context[c].pc \in Live PROVE FALSE
      OBVIOUS
    <2>1. pcb_terminal[c] \in Terminals
      BY <1>1, <1>3, <1>8 DEF Tables, SavedOk
    <2>2. context[c].pc \notin Points \ {"exec_return"}
      BY <1>1, <1>3, <1>6, <2>1 DEF Tables, SavedOk
    <2>3. Waits(c)
      BY <2>2 DEF Waits, Live
    <2>4. QED
      BY <1>3, <1>5, <2>1, <2>3, InChain DEF AllStarted, Top
  <1>10. ~Waits(c)
    BY <1>7, <1>9 DEF Waits, Live, Points, ExecPoints
  <1>11. QED
    BY <1>0, <1>2, <1>3, <1>5, <1>6, <1>7, <1>9, <1>10

\* The child's pcb is filled in.
LEMMA ExecPcbSafe ==
    ASSUME SInv, ExecPcb
    PROVE  Tables' /\ Run' /\ ChainsOk' /\ Counted' /\ UNCHANGED Chained!chains
  <1>0. PICK c : c = cpu.loc
    OBVIOUS
  <1>1. /\ cpu.pc = "exec_pcb" /\ cpu' = [cpu EXCEPT !.pc = "exec_cpid"]
        /\ UNCHANGED <<pool, where, hw>>
        /\ parent_pid' = [parent_pid EXCEPT ![c] = active_pid]
        /\ pcb_terminal' = [pcb_terminal EXCEPT ![c] = active_terminal]
        /\ context' = [context EXCEPT ![c] = Dead("entry")]
    BY <1>0 DEF ExecPcb, At, Goto
  <1>2. /\ IInv /\ Tables /\ Run /\ cpu \in FlowType
        /\ processes' = processes /\ context \in [Pids -> FlowType]
        /\ here \in Terminals /\ pcb_terminal \in [Pids -> Terminals \cup {0}]
        /\ parent_pid \in [Pids -> Slots]
        /\ here' = here /\ active_terminal' = active_terminal
        /\ active_pid' = active_pid /\ current_process_id' = current_process_id
        /\ process_count' = process_count /\ here = active_terminal
        /\ user_page' = user_page
    BY <1>1 DEF SInv, IInv, KernelTypes, here, where, pool, hw
  <1>3. /\ c \in Pids \ Roots /\ processes[c] = 1
        /\ \A u \in Terminals : c \notin ChainOf(u) /\ Top(u) # c
        /\ c # active_pid /\ context[c].pc \notin Live
        /\ active_pid \in Pids /\ Top(here) = active_pid
        /\ pcb_terminal[active_pid] = here
        /\ processes[active_pid] = 1 /\ AllStarted
        /\ \A t \in Terminals : t # here /\ Embryonic(t) => FlowOf(t).loc # c
    BY <1>0, <1>1, ChildFacts
  <1>4. cpu'.pc = "exec_cpid" /\ cpu'.loc = c
    BY <1>0, <1>1, <1>2 DEF FlowType
  <1>5. /\ \A p \in Pids : p # c => /\ context'[p] = context[p]
                                     /\ pcb_terminal'[p] = pcb_terminal[p]
                                     /\ parent_pid'[p] = parent_pid[p]
        /\ context'[c].pc = "entry" /\ pcb_terminal'[c] = here
        /\ parent_pid'[c] = active_pid
    BY <1>1, <1>2, <1>3 DEF Dead, Flow
  <1>6. \A t \in Terminals : ChainOf(t)' = ChainOf(t)
    <2> SUFFICES ASSUME NEW t \in Terminals, NEW p
                 PROVE  p \in ChainOf(t)' <=> p \in ChainOf(t)
      BY DEF ChainOf
    <2>1. CASE p = c
      <3>1. ~(c = active_pid \/ context'[c].pc \in {"exec_return", "smashed"})
        BY <1>3, <1>5
      <3>2. QED
        BY <1>2, <1>3, <2>1, <3>1 DEF ChainOf, Waits, Top
    <2>2. CASE p # c
      BY <1>2, <1>5, <2>2 DEF ChainOf, Allocated, Waits
    <2>3. QED
      BY <2>1, <2>2
  <1>7. UNCHANGED Chained!chains
    <2>1. [t \in Terminals |-> ChainOf(t)]' = [t \in Terminals |-> ChainOf(t)]
      BY <1>6
    <2>2. ASSUME NEW p \in Pids
          PROVE  (IF pcb_terminal'[p] # 0 /\ p \in ChainOf(pcb_terminal[p])'
                  THEN parent_pid'[p] ELSE 0)
                 = (IF pcb_terminal[p] # 0 /\ p \in ChainOf(pcb_terminal[p])
                    THEN parent_pid[p] ELSE 0)
      <3>1. CASE p = c
        <4>1. ~(pcb_terminal[c] # 0 /\ c \in ChainOf(pcb_terminal[c]))
          BY <1>2, <1>3
        <4>2. c \notin ChainOf(here)'
          BY <1>2, <1>3, <1>6
        <4>3. pcb_terminal'[p] = here /\ here' = here
          BY <1>2, <1>5, <3>1
        <4>4. p \notin ChainOf(pcb_terminal[p])'
          BY <3>1, <4>2, <4>3 DEF ChainOf
        <4>5. QED
          BY <3>1, <4>1, <4>4
      <3>2. CASE p # c
        <4>1. pcb_terminal'[p] = pcb_terminal[p] /\ parent_pid'[p] = parent_pid[p]
          BY <1>5, <3>2
        <4>2. PICK u : u = pcb_terminal[p]
          OBVIOUS
        <4>3. u # 0 => u \in Terminals
          BY <1>2, <4>2
        <4>4. u # 0 => ChainOf(u)' = ChainOf(u)
          BY <1>6, <4>3
        <4>5. ChainOf(pcb_terminal[p])' = ChainOf(u)'
          BY <4>1, <4>2 DEF ChainOf
        <4>6. QED
          BY <4>1, <4>2, <4>4, <4>5
      <3>3. QED
        BY <3>1, <3>2
    <2>3. [p \in Pids |-> IF pcb_terminal[p] # 0 /\ p \in ChainOf(pcb_terminal[p])
                           THEN parent_pid[p] ELSE 0]'
          = [p \in Pids |-> IF pcb_terminal[p] # 0 /\ p \in ChainOf(pcb_terminal[p])
                             THEN parent_pid[p] ELSE 0]
      BY <2>2
    <2>4. QED
      BY <1>2, <2>1, <2>3 DEF Chained!chains
  <1>8. ChainsOk'
    BY <1>7, ChainsStep DEF SInv
  <1>9. \A t \in Terminals : t # here => FlowOf(t)' = FlowOf(t)
    <2>1. \A t \in Terminals : Top(t) # 0 => context'[Top(t)] = context[Top(t)]
      BY <1>2, <1>3, <1>5 DEF IInv, CurrentMade, Made, Top
    <2>2. QED
      BY <1>2, <2>1, OthersStay DEF Top
  <1>10. EmbryosOk'
    <2>1. EmbryoOk(here)'
      <3>1. FlowOf(here)'.pc = "exec_cpid" /\ FlowOf(here)'.loc = c
        BY <1>2, <1>4 DEF FlowOf
      <3>2. \A u \in Terminals : u # here /\ Embryonic(u)' => FlowOf(u)'.loc # c
        BY <1>3, <1>9 DEF Embryonic
      <3>3. Top(here)' = active_pid
        BY <1>2, <1>3 DEF Top
      <3>4. QED
        BY <1>2, <1>3, <1>5, <1>6, <3>1, <3>2, <3>3 DEF EmbryoOk
    <2>2. ASSUME NEW t \in Terminals, t # here, Embryonic(t)
          PROVE  /\ processes'[FlowOf(t).loc] = 1
                 /\ \A u \in Terminals : FlowOf(t).loc \notin ChainOf(u)'
                 /\ FlowOf(t).pc = "exec_cpid" =>
                      /\ Top(t)' = Top(t)
                      /\ pcb_terminal'[FlowOf(t).loc] = pcb_terminal[FlowOf(t).loc]
                      /\ parent_pid'[FlowOf(t).loc] = parent_pid[FlowOf(t).loc]
      <3>1. FlowOf(t).loc # c
        BY <1>3, <2>2
      <3>2. QED
        BY <1>1, <1>2, <1>6, <2>2, <3>1, EmbryoFacts DEF Top
    <2>3. QED
      BY <1>2, <1>9, <2>1, <2>2, EmbryosHere
  <1>11. RootsHome' /\ CurrentHome' /\ SuspendedOk' /\ SavedOk'
    <2>1. RootsHome'
      BY <1>2, <1>3, <1>5, Sizes DEF Tables, RootsHome
    <2>2. \A t \in Terminals : Top(t) # 0 => Top(t) \in Pids \ {c}
      BY <1>2, <1>3 DEF IInv, CurrentMade, Made, Top
    <2>3. CurrentHome' /\ SuspendedOk'
      BY <1>2, <1>5, <2>2 DEF Tables, CurrentHome, SuspendedOk, Top, here
    <2>4. SavedOk'
      <3>1. "entry" \notin Live /\ "entry" \notin Points
        BY DEF Live, Points, ExecPoints, HaltPoints, BlueScreens
      <3>2. QED
        BY <1>2, <1>5, <3>1 DEF Tables, SavedOk, Top, Live
    <2>5. QED
      BY <2>1, <2>3, <2>4
  <1>12. Run'
    <2>1. RunBoot' /\ RunHome' /\ RunTop' /\ RunSlot'
      BY <1>2, <1>3, <1>4, <1>5, Sizes DEF RunBoot, RunHome, RunTop, RunSlot,
         ExecWindow, ReleaseWindow, Top, here
    <2>2. RunExec' /\ RunHalt'
      BY <1>4 DEF RunExec, RunHalt, ExecWindow, ReleaseWindow, ReturnWindow
    <2>3. RunSaved' /\ RunPage' /\ RunCount' /\ cpu'.pc # "panic"
      BY <1>1, <1>2, <1>3, <1>4, <1>5 DEF Run, RunSaved, RunPage, RunCount, ReturnWindow
    <2>4. QED
      BY <2>1, <2>2, <2>3 DEF Run
  <1>13. Counted'
    BY <1>1, <1>2, <1>4, <1>9, QuietCount DEF Gone
  <1>14. QED
    BY <1>7, <1>8, <1>10, <1>11, <1>12, <1>13 DEF Tables

\* get_process_available finds a slot for every execute that was admitted.
LEMMA ExecNoSlotNever == ASSUME SInv, ExecNoSlot PROVE FALSE
  BY SlotLeft DEF ExecNoSlot, At

\* The mapped parent of a process.
ParentOf(p) == IF pcb_terminal[p] # 0 /\ p \in ChainOf(pcb_terminal[p])
               THEN parent_pid[p] ELSE 0

\* How the mapped parents follow the chains when no pcb changes.
LEMMA ParentsFollow ==
    ASSUME UNCHANGED tree, NEW p \in Pids, NEW u, u = pcb_terminal[p]
    PROVE  ParentOf(p)' = IF u # 0 /\ p \in ChainOf(u)' THEN parent_pid[p] ELSE 0
  <1>1. ChainOf(pcb_terminal[p])' = ChainOf(u)'
    BY DEF ChainOf, tree
  <1>2. QED
    BY <1>1 DEF ParentOf, tree

\* current_process_id names the child: the chain of the terminal grows.
LEMMA ExecCpidSafe ==
    ASSUME SInv, ExecCpid
    PROVE  Tables' /\ Run' /\ ChainsOk' /\ Counted' /\ Chained!Change
  <1>0. PICK c, t : c = cpu.loc /\ t = here
    OBVIOUS
  <1>1. /\ cpu.pc = "exec_cpid" /\ cpu' = [cpu EXCEPT !.pc = "exec_page"]
        /\ current_process_id' = [current_process_id EXCEPT ![t] = c]
        /\ UNCHANGED <<pool, tree, active_terminal, active_pid, hw, context>>
    BY <1>0 DEF ExecCpid, At, Goto, here
  <1>2. /\ IInv /\ Tables /\ Run /\ cpu \in FlowType
        /\ processes' = processes /\ context \in [Pids -> FlowType] /\ context' = context
        /\ t \in Terminals /\ pcb_terminal \in [Pids -> Terminals \cup {0}]
        /\ t = here' /\ active_terminal' = active_terminal /\ t # 0
        /\ active_pid' = active_pid /\ current_process_id \in [Terminals -> Slots]
        /\ process_count' = process_count /\ t = active_terminal
        /\ user_page' = user_page /\ pcb_terminal' = pcb_terminal
        /\ parent_pid' = parent_pid
    BY <1>0, <1>1, Sizes DEF SInv, IInv, KernelTypes, here, pool, hw, tree
  <1>3. /\ c \in Pids \ Roots /\ processes[c] = 1
        /\ \A u \in Terminals : c \notin ChainOf(u) /\ Top(u) # c
        /\ c # active_pid /\ context[c].pc \notin Live /\ ~Waits(c)
        /\ active_pid \in Pids /\ Top(t) = active_pid
        /\ pcb_terminal[active_pid] = t
        /\ processes[active_pid] = 1 /\ AllStarted
        /\ \A u \in Terminals : u # t /\ Embryonic(u) => FlowOf(u).loc # c
    BY <1>0, <1>1, ChildFacts
  <1>4. cpu'.pc = "exec_page" /\ cpu'.loc = c
    BY <1>0, <1>1, <1>2 DEF FlowType
  <1>5. pcb_terminal[c] = t /\ parent_pid[c] = active_pid
    <2>1. FlowOf(t) = cpu /\ Embryonic(t)
      BY <1>0, <1>1 DEF FlowOf, here, Embryonic
    <2>2. QED
      BY <1>0, <1>1, <1>2, <1>3, <2>1 DEF Tables, EmbryosOk, EmbryoOk
  <1>6. /\ Top(t)' = c /\ current_process_id'[t] = c
        /\ \A u \in Terminals : u # t => Top(u)' = Top(u)
                                         /\ current_process_id'[u] = current_process_id[u]
    BY <1>1, <1>2 DEF Top
  <1>7. c # 0 /\ active_pid # 0
    BY <1>3, Sizes
  <1>8. ChainOf(t)' = ChainOf(t) \cup {c}
    <2> SUFFICES ASSUME NEW p PROVE p \in ChainOf(t)' <=> p \in ChainOf(t) \cup {c}
      BY DEF ChainOf
    <2>1. CASE p = c
      BY <1>6, <1>7, <2>1 DEF ChainOf
    <2>2. CASE p = active_pid
      BY <1>2, <1>3, <1>6, <1>7, <2>2 DEF ChainOf, Allocated, Waits, Top
    <2>3. CASE p \notin {c, active_pid}
      BY <1>2, <1>3, <1>6, <1>7, <2>3 DEF ChainOf, Allocated, Waits, Top
    <2>4. QED
      BY <2>1, <2>2, <2>3
  <1>9. \A u \in Terminals : u # t => ChainOf(u)' = ChainOf(u)
    BY <1>2, <1>6 DEF ChainOf, Allocated, Waits
  <1>10. Chained!Execute(t, c)
    <2>1. \A p \in Pids : ParentOf(p)' = IF p = c THEN active_pid ELSE ParentOf(p)
      <3> SUFFICES ASSUME NEW p \in Pids
                   PROVE  ParentOf(p)' = IF p = c THEN active_pid ELSE ParentOf(p)
        OBVIOUS
      <3>1. PICK u : u = pcb_terminal[p]
        OBVIOUS
      <3>2. ParentOf(p)' = IF u # 0 /\ p \in ChainOf(u)' THEN parent_pid[p] ELSE 0
        BY <1>1, <3>1, ParentsFollow
      <3>3. CASE p = c
        BY <1>2, <1>5, <1>8, <3>1, <3>2, <3>3
      <3>4. CASE p # c
        <4>1. u # 0 => (p \in ChainOf(u)' <=> p \in ChainOf(u))
          BY <1>2, <1>8, <1>9, <3>1, <3>4
        <4>2. QED
          BY <3>1, <3>2, <3>4, <4>1 DEF ParentOf
      <3>5. QED
        BY <3>3, <3>4
    <2>2. [p \in Pids |-> ParentOf(p)]' = [[p \in Pids |-> ParentOf(p)] EXCEPT ![c] = active_pid]
      BY <1>3, <2>1
    <2>3. [u \in Terminals |-> ChainOf(u)]'
          = [[u \in Terminals |-> ChainOf(u)] EXCEPT ![t] = @ \cup {c}]
      BY <1>2, <1>8, <1>9
    <2>4. [p \in Pids |-> ParentOf(p)]
          = [p \in Pids |-> IF pcb_terminal[p] # 0 /\ p \in ChainOf(pcb_terminal[p])
                            THEN parent_pid[p] ELSE 0]
      BY DEF ParentOf
    <2>5. [p \in Pids |-> ParentOf(p)]'
          = [p \in Pids |-> IF pcb_terminal[p] # 0 /\ p \in ChainOf(pcb_terminal[p])
                            THEN parent_pid[p] ELSE 0]'
      BY DEF ParentOf
    <2>6. \A u \in Terminals : c \notin [v \in Terminals |-> ChainOf(v)][u]
      BY <1>3
    <2>7. current_process_id[t] # 0 /\ current_process_id[t] = active_pid /\ c \notin Terminals
      BY <1>3, <1>7, Sizes DEF Top
    <2>8. QED
      BY <1>1, <2>2, <2>3, <2>4, <2>5, <2>6, <2>7 DEF Chained!Execute
  <1>11. Chained!Change
    BY <1>2, <1>3, <1>10 DEF Chained!Change
  <1>12. ChainsOk'
    BY <1>11, ChainsStep DEF SInv
  <1>13. \A u \in Terminals : u # here => FlowOf(u)' = FlowOf(u)
    BY <1>0, <1>2, <1>6, OthersStay
  <1>14. EmbryosOk'
    <2>1. EmbryoOk(here)'
      BY <1>2, <1>4 DEF EmbryoOk, Embryonic, FlowOf, here
    <2>2. ASSUME NEW u \in Terminals, u # here, Embryonic(u)
          PROVE  /\ processes'[FlowOf(u).loc] = 1
                 /\ \A v \in Terminals : FlowOf(u).loc \notin ChainOf(v)'
                 /\ FlowOf(u).pc = "exec_cpid" =>
                      /\ Top(u)' = Top(u)
                      /\ pcb_terminal'[FlowOf(u).loc] = pcb_terminal[FlowOf(u).loc]
                      /\ parent_pid'[FlowOf(u).loc] = parent_pid[FlowOf(u).loc]
      <3>1. FlowOf(u).loc # c
        BY <1>0, <1>3, <2>2
      <3>2. QED
        BY <1>0, <1>2, <1>6, <1>8, <1>9, <2>2, <3>1, EmbryoFacts
    <2>3. QED
      BY <1>2, <1>13, <2>1, <2>2, EmbryosHere
  <1>15. RootsHome' /\ CurrentHome' /\ SuspendedOk' /\ SavedOk'
    <2>1. RootsHome'
      BY <1>2 DEF Tables, RootsHome
    <2>2. CurrentHome'
      BY <1>2, <1>5, <1>6 DEF Tables, CurrentHome
    <2>3. SuspendedOk'
      BY <1>0, <1>2, <1>6 DEF Tables, SuspendedOk
    <2>4. ASSUME NEW p \in Pids \ Roots, context[p].pc \in Points \ {"exec_return"}
          PROVE  Top(pcb_terminal[p])' = p
      <3>0. PICK u : u = pcb_terminal[p]
        OBVIOUS
      <3>1. Top(u) = p /\ context[p].pc \in Live /\ u \in Terminals
        BY <1>2, <2>4, <3>0 DEF Tables, SavedOk, Live
      <3>2. p # active_pid
        BY <1>1, <1>2, <2>4, <3>1 DEF Run, RunSaved, ReturnWindow
      <3>3. u # t
        BY <1>3, <3>1, <3>2
      <3>4. QED
        BY <1>2, <1>6, <3>0, <3>1, <3>3 DEF Top
    <2>5. SavedOk'
      BY <1>2, <2>4 DEF Tables, SavedOk
    <2>6. QED
      BY <2>1, <2>2, <2>3, <2>5
  <1>16. Run'
    <2>1. RunBoot' /\ RunHome' /\ RunTop' /\ RunSlot'
      BY <1>2, <1>3, <1>4, <1>6, <1>7, Sizes DEF RunBoot, RunHome, RunTop, RunSlot,
         ExecWindow, ReleaseWindow
    <2>2. RunExec' /\ RunHalt'
      BY <1>2, <1>3, <1>4, <1>5, <1>6
      DEF RunExec, RunHalt, ExecWindow, ReleaseWindow, ReturnWindow
    <2>3. RunSaved' /\ RunPage' /\ RunCount' /\ cpu'.pc # "panic"
      BY <1>1, <1>2, <1>3, <1>4 DEF Run, RunSaved, RunPage, RunCount, ReturnWindow
    <2>4. QED
      BY <2>1, <2>2, <2>3 DEF Run
  <1>17. Counted'
    BY <1>1, <1>2, <1>4, <1>13, QuietCount DEF Gone
  <1>18. QED
    BY <1>11, <1>12, <1>14, <1>15, <1>16, <1>17 DEF Tables

\* What execute knows between current_process_id and active_pid.
LEMMA HandOverFacts ==
    ASSUME SInv, cpu.pc \in ExecWindow
    PROVE  /\ cpu.loc \in Pids \ Roots /\ Top(here) = cpu.loc /\ cpu.loc # active_pid
           /\ processes[cpu.loc] = 1 /\ parent_pid[cpu.loc] = active_pid
           /\ context[cpu.loc].pc \notin Live /\ pcb_terminal[cpu.loc] = here
           /\ active_pid \in Pids /\ active_pid # 0 /\ here \in Terminals /\ here # 0
           /\ processes[active_pid] = 1 /\ pcb_terminal[active_pid] = here
           /\ \A u \in Terminals : u # here => Top(u) # active_pid
           /\ AllStarted
  <1>0. PICK c : c = cpu.loc
    OBVIOUS
  <1>1. IInv /\ Tables /\ Run /\ ChainsOk /\ cpu.pc # "boot"
        /\ cpu.pc \in ExecMade /\ cpu.pc \in ExecPoints /\ cpu.pc \notin ReleaseWindow
    BY DEF SInv, ExecWindow, ExecMade, ExecPoints, ReleaseWindow
  <1>2. c \in Pids \ Roots /\ AllStarted
    BY <1>0, <1>1 DEF IInv, RunningKnows, FlowKnows, Made, BootPhase
  <1>3. /\ Top(here) = c /\ processes[c] = 1 /\ parent_pid[c] = active_pid
        /\ context[c].pc \notin Live /\ processes[active_pid] = 1
        /\ pcb_terminal[active_pid] = here
    BY <1>0, <1>1 DEF Run, RunExec, RunSlot, RunHome
  <1>4. active_pid \in Pids /\ active_pid # 0 /\ here \in Terminals /\ here # 0
    BY <1>1, InKernel, Sizes DEF IInv, KernelTypes, here
  <1>5. pcb_terminal[c] = here
    BY <1>1, <1>2, <1>3, <1>4, Sizes DEF Tables, CurrentHome
  <1>6. c # active_pid
    BY <1>1, <1>2, <1>3, <1>4, ChainFacts, Sizes DEF Tables
  <1>7. \A u \in Terminals : u # here => Top(u) # active_pid
    BY <1>1, <1>3, <1>4 DEF Tables, CurrentHome
  <1>8. QED
    BY <1>0, <1>2, <1>3, <1>4, <1>5, <1>6, <1>7

\* The frame of execute is saved in the parent's pcb.
LEMMA ExecSaveSafe ==
    ASSUME SInv, ExecSave
    PROVE  Tables' /\ Run' /\ ChainsOk' /\ Counted' /\ UNCHANGED Chained!chains
  <1>0. PICK c, t, a : c = cpu.loc /\ t = here /\ a = active_pid
    OBVIOUS
  <1>1. /\ cpu.pc = "exec_save" /\ cpu' = [cpu EXCEPT !.pc = "exec_switch"]
        /\ context' = [context EXCEPT ![a] = Flow("exec_return", cpu.area, 0)]
        /\ UNCHANGED <<pool, tree, where, hw>>
    BY <1>0 DEF ExecSave, At, Goto
  <1>2. /\ IInv /\ Tables /\ Run /\ cpu \in FlowType
        /\ processes' = processes /\ context \in [Pids -> FlowType]
        /\ pcb_terminal \in [Pids -> Terminals \cup {0}]
        /\ t = here' /\ active_terminal' = active_terminal
        /\ active_pid' = a /\ current_process_id' = current_process_id
        /\ process_count' = process_count /\ t = active_terminal
        /\ user_page' = user_page /\ pcb_terminal' = pcb_terminal
        /\ parent_pid' = parent_pid
    BY <1>0, <1>1 DEF SInv, IInv, KernelTypes, here, pool, hw, tree, where
  <1>3. /\ c \in Pids \ Roots /\ Top(t) = c /\ c # a
        /\ processes[c] = 1 /\ parent_pid[c] = a
        /\ context[c].pc \notin Live /\ pcb_terminal[c] = t
        /\ a \in Pids /\ a # 0 /\ t \in Terminals /\ t # 0
        /\ processes[a] = 1 /\ pcb_terminal[a] = t
        /\ \A u \in Terminals : u # t => Top(u) # a
    BY <1>0, <1>1, HandOverFacts DEF ExecWindow
  <1>4. cpu'.pc = "exec_switch" /\ cpu'.loc = c
    BY <1>0, <1>1, <1>2 DEF FlowType
  <1>5. /\ \A p \in Pids : p # a => context'[p] = context[p]
        /\ context'[a].pc = "exec_return"
    BY <1>1, <1>2, <1>3 DEF Flow
  <1>6. \A u \in Terminals : ChainOf(u)' = ChainOf(u)
    <2>1. \A p \in Pids : (processes'[p] = 1 /\ Waits(p)') <=> (processes[p] = 1 /\ Waits(p))
      BY <1>0, <1>2, <1>5 DEF Waits
    <2>2. QED
      BY <1>2, <2>1, SameChains
  <1>7. UNCHANGED Chained!chains
    BY <1>1, <1>2, <1>6, ChainsStutter
  <1>8. ChainsOk'
    BY <1>7, ChainsStep DEF SInv
  <1>9. \A u \in Terminals : Top(u)' = Top(u) /\ (u # t /\ Top(u) # 0 => Top(u) \in Pids \ {a})
    BY <1>2, <1>3 DEF IInv, CurrentMade, Made, Top
  <1>10. \A u \in Terminals : u # here => FlowOf(u)' = FlowOf(u)
    BY <1>0, <1>2, <1>5, <1>9, OthersStay
  <1>11. EmbryosOk'
    <2>1. EmbryoOk(here)'
      BY <1>2, <1>4 DEF EmbryoOk, Embryonic, FlowOf, here
    <2>2. \A u \in Terminals : u # here /\ Embryonic(u) =>
                 /\ processes'[FlowOf(u).loc] = 1
                 /\ \A v \in Terminals : FlowOf(u).loc \notin ChainOf(v)'
      BY <1>2, <1>6, EmbryoFacts
    <2>3. QED
      BY <1>2, <1>9, <1>10, <2>1, <2>2, EmbryosHere
  <1>12. RootsHome' /\ CurrentHome' /\ SuspendedOk' /\ SavedOk'
    <2>1. RootsHome' /\ CurrentHome'
      BY <1>2, <1>9 DEF Tables, RootsHome, CurrentHome, Top
    <2>2. SuspendedOk'
      BY <1>0, <1>2, <1>5, <1>9 DEF Tables, SuspendedOk
    <2>3. SavedOk'
      BY <1>2, <1>3, <1>5, SafeListed DEF Tables, SavedOk, Top
    <2>4. QED
      BY <2>1, <2>2, <2>3
  <1>13. Run'
    <2>1. RunBoot' /\ RunHome' /\ RunTop' /\ RunSlot'
      BY <1>2, <1>3, <1>4, <1>9, Sizes DEF RunBoot, RunHome, RunTop, RunSlot,
         ExecWindow, ReleaseWindow
    <2>2. RunExec' /\ RunHalt'
      BY <1>2, <1>3, <1>4, <1>5, <1>9
      DEF RunExec, RunHalt, ExecWindow, ReleaseWindow, ReturnWindow
    <2>3. RunSaved' /\ RunPage' /\ RunCount' /\ cpu'.pc # "panic"
      BY <1>0, <1>1, <1>2, <1>3, <1>4 DEF Run, RunSaved, RunPage, RunCount, ReturnWindow
    <2>4. QED
      BY <2>1, <2>2, <2>3 DEF Run
  <1>14. Counted'
    BY <1>1, <1>2, <1>4, <1>10, QuietCount DEF Gone
  <1>15. QED
    BY <1>7, <1>8, <1>11, <1>12, <1>13, <1>14 DEF Tables

\* active_pid names the child; the parent waits.
LEMMA ExecSwitchSafe ==
    ASSUME SInv, ExecSwitch
    PROVE  Tables' /\ Run' /\ ChainsOk' /\ Counted' /\ UNCHANGED Chained!chains
  <1>0. PICK c, t, a : c = cpu.loc /\ t = here /\ a = active_pid
    OBVIOUS
  <1>1. /\ cpu.pc = "exec_switch" /\ cpu' = [cpu EXCEPT !.pc = "exec_esp0"]
        /\ active_pid' = c
        /\ UNCHANGED <<pool, tree, active_terminal, current_process_id, hw, context>>
    BY <1>0 DEF ExecSwitch, At, Goto
  <1>2. /\ IInv /\ Tables /\ Run /\ cpu \in FlowType
        /\ processes' = processes /\ context' = context
        /\ pcb_terminal \in [Pids -> Terminals \cup {0}]
        /\ t = here' /\ active_terminal' = active_terminal
        /\ current_process_id' = current_process_id
        /\ process_count' = process_count /\ t = active_terminal
        /\ user_page' = user_page /\ pcb_terminal' = pcb_terminal
        /\ parent_pid' = parent_pid
    BY <1>0, <1>1 DEF SInv, IInv, KernelTypes, here, pool, hw, tree
  <1>3. /\ c \in Pids \ Roots /\ Top(t) = c /\ c # a
        /\ processes[c] = 1
        /\ context[c].pc \notin Live /\ pcb_terminal[c] = t
        /\ t \in Terminals /\ t # 0
    BY <1>0, <1>1, HandOverFacts DEF ExecWindow
  <1>4. cpu'.pc = "exec_esp0"
    BY <1>1, <1>2 DEF FlowType
  <1>5. context[a].pc = "exec_return" /\ user_page = c
    BY <1>0, <1>1, <1>2 DEF Run, RunExec, RunPage
  <1>6. \A u \in Terminals : ChainOf(u)' = ChainOf(u)
    <2>1. \A p \in Pids : p # c => (Waits(p)' <=> Waits(p))
      BY <1>0, <1>1, <1>2, <1>5 DEF Waits
    <2>2. \A p \in Pids : pcb_terminal[p] \in Terminals
                           /\ Top(pcb_terminal[p]) \notin {0, p} =>
              ((processes'[p] = 1 /\ Waits(p)') <=> (processes[p] = 1 /\ Waits(p)))
      BY <1>2, <1>3, <2>1
    <2>3. QED
      BY <1>2, <2>2, SameChains
  <1>7. UNCHANGED Chained!chains
    BY <1>1, <1>2, <1>6, ChainsStutter
  <1>8. ChainsOk'
    BY <1>7, ChainsStep DEF SInv
  <1>9. \A u \in Terminals : Top(u)' = Top(u)
    BY <1>2 DEF Top
  <1>10. \A u \in Terminals : u # here => FlowOf(u)' = FlowOf(u)
    BY <1>2, <1>9, OthersStay
  <1>11. EmbryosOk'
    <2>1. EmbryoOk(here)'
      BY <1>2, <1>4 DEF EmbryoOk, Embryonic, FlowOf, here
    <2>2. \A u \in Terminals : u # here /\ Embryonic(u) =>
                 /\ processes'[FlowOf(u).loc] = 1
                 /\ \A v \in Terminals : FlowOf(u).loc \notin ChainOf(v)'
      BY <1>2, <1>6, EmbryoFacts
    <2>3. QED
      BY <1>2, <1>9, <1>10, <2>1, <2>2, EmbryosHere
  <1>12. RootsHome' /\ CurrentHome' /\ SuspendedOk' /\ SavedOk'
    BY <1>0, <1>2, <1>9 DEF Tables, RootsHome, CurrentHome, SuspendedOk, SavedOk, Top
  <1>13. Run'
    <2>1. RunBoot' /\ RunHome' /\ RunTop' /\ RunSlot'
      BY <1>1, <1>2, <1>3, <1>4, <1>9, Sizes DEF RunBoot, RunHome, RunTop, RunSlot,
         ExecWindow, ReleaseWindow
    <2>2. RunExec' /\ RunHalt'
      BY <1>4 DEF RunExec, RunHalt, ExecWindow, ReleaseWindow, ReturnWindow
    <2>3. RunSaved' /\ RunPage' /\ RunCount' /\ cpu'.pc # "panic"
      BY <1>1, <1>2, <1>3, <1>4, <1>5 DEF RunSaved, RunPage, RunCount
    <2>4. QED
      BY <2>1, <2>2, <2>3 DEF Run
  <1>14. Counted'
    BY <1>1, <1>2, <1>4, <1>10, QuietCount DEF Gone
  <1>15. QED
    BY <1>7, <1>8, <1>11, <1>12, <1>13, <1>14 DEF Tables

----------------------------------------------------------------------------
\* Steps of halt that change the process tree or who runs

\* active_pid names the parent, which waits in execute.
LEMMA HaltPidSafe ==
    ASSUME SInv, HaltPid
    PROVE  Tables' /\ Run' /\ ChainsOk' /\ Counted' /\ UNCHANGED Chained!chains
  <1>0. PICK q, t, a : q = cpu.loc /\ t = here /\ a = active_pid
    OBVIOUS
  <1>1. /\ cpu.pc = "halt_pid"
        /\ cpu' = [cpu EXCEPT !.pc = "halt_terminal", !.loc = 0]
        /\ active_pid' = q
        /\ UNCHANGED <<pool, tree, active_terminal, current_process_id, hw, context>>
    BY <1>0 DEF HaltPid, At
  <1>2. /\ IInv /\ Tables /\ Run /\ ChainsOk /\ cpu \in FlowType
        /\ processes' = processes /\ context' = context
        /\ pcb_terminal \in [Pids -> Terminals \cup {0}]
        /\ t = here' /\ active_terminal' = active_terminal
        /\ current_process_id' = current_process_id
        /\ process_count' = process_count /\ t = active_terminal
        /\ pcb_terminal' = pcb_terminal /\ parent_pid' = parent_pid
    BY <1>0, <1>1 DEF SInv, IInv, KernelTypes, here, pool, hw, tree
  <1>3. /\ a \in Pids \ Roots /\ Top(t) = a /\ processes[a] = 0
        /\ context[a].pc \notin Live /\ pcb_terminal[a] = t
        /\ t \in Terminals /\ t # 0 /\ a \in ChainOf(t) /\ q = parent_pid[a] /\ a # 0
    BY <1>0, <1>1, <1>2, ActiveInChain, Sizes DEF Run, RunTop, RunHome, RunSlot, RunHalt,
       RunSaved, ExecWindow, ReleaseWindow, ReturnWindow
  <1>4. q \in ChainOf(t) \ {a}
    BY <1>2, <1>3, ChainFacts, Sizes DEF Tables
  <1>5. /\ q \in Pids /\ pcb_terminal[q] = t /\ processes[q] = 1 /\ q # a
        /\ context[q].pc \in Kept
    BY <1>0, <1>2, <1>3, <1>4, MemberHome, InChain DEF Tables, Waits, Kept
  <1>6. cpu'.pc = "halt_terminal"
    BY <1>1, <1>2 DEF FlowType
  <1>7. \A u \in Terminals : ChainOf(u)' = ChainOf(u)
    <2>1. \A p \in Pids : p # a => (Waits(p)' <=> Waits(p))
      BY <1>0, <1>1, <1>2, <1>5 DEF Waits, Kept
    <2>2. \A p \in Pids : pcb_terminal[p] \in Terminals
                           /\ Top(pcb_terminal[p]) \notin {0, p} =>
              ((processes'[p] = 1 /\ Waits(p)') <=> (processes[p] = 1 /\ Waits(p)))
      BY <1>2, <1>3, <2>1
    <2>3. QED
      BY <1>2, <2>2, SameChains
  <1>8. UNCHANGED Chained!chains
    BY <1>1, <1>2, <1>7, ChainsStutter
  <1>9. ChainsOk'
    BY <1>8, ChainsStep DEF SInv
  <1>10. \A u \in Terminals : Top(u)' = Top(u)
    BY <1>2 DEF Top
  <1>11. \A u \in Terminals : u # here => FlowOf(u)' = FlowOf(u)
    BY <1>2, <1>10, OthersStay
  <1>12. EmbryosOk'
    <2>1. EmbryoOk(here)'
      BY <1>2, <1>6 DEF EmbryoOk, Embryonic, FlowOf, here
    <2>2. \A u \in Terminals : u # here /\ Embryonic(u) =>
                 /\ processes'[FlowOf(u).loc] = 1
                 /\ \A v \in Terminals : FlowOf(u).loc \notin ChainOf(v)'
      BY <1>2, <1>7, EmbryoFacts
    <2>3. QED
      BY <1>2, <1>10, <1>11, <2>1, <2>2, EmbryosHere
  <1>13. RootsHome' /\ CurrentHome' /\ SuspendedOk' /\ SavedOk'
    BY <1>0, <1>2, <1>10 DEF Tables, RootsHome, CurrentHome, SuspendedOk, SavedOk, Top
  <1>14. Run'
    <2>1. RunBoot' /\ RunHome' /\ RunTop' /\ RunSlot'
      BY <1>1, <1>2, <1>3, <1>5, <1>6, <1>10, Sizes DEF RunBoot, RunHome, RunTop, RunSlot,
         ExecWindow, ReleaseWindow
    <2>2. RunExec' /\ RunHalt'
      BY <1>1, <1>2, <1>3, <1>5, <1>6, <1>10
      DEF RunExec, RunHalt, ExecWindow, ReleaseWindow, ReturnWindow
    <2>3. RunSaved' /\ RunPage' /\ RunCount' /\ cpu'.pc # "panic"
      BY <1>6 DEF RunSaved, RunPage, RunCount, ReturnWindow
    <2>4. QED
      BY <2>1, <2>2, <2>3 DEF Run
  <1>15. Counted'
    BY <1>1, <1>2, <1>6, <1>11, QuietCount DEF Gone
  <1>16. QED
    BY <1>8, <1>9, <1>12, <1>13, <1>14, <1>15 DEF Tables

\* current_process_id names the parent: the chain of the terminal shrinks.
LEMMA HaltTerminalSafe ==
    ASSUME SInv, HaltTerminal
    PROVE  Tables' /\ Run' /\ ChainsOk' /\ Counted' /\ Chained!Change
  <1>0. PICK h, t, a : h = Top(here) /\ t = here /\ a = active_pid
    OBVIOUS
  <1>1. /\ IInv /\ Tables /\ Run /\ cpu \in FlowType
        /\ context \in [Pids -> FlowType]
        /\ t \in Terminals /\ pcb_terminal \in [Pids -> Terminals \cup {0}]
        /\ t # 0 /\ t = active_terminal
        /\ current_process_id \in [Terminals -> Slots]
    BY <1>0, Sizes DEF SInv, IInv, KernelTypes, here
  <1>2. cpu.pc = "halt_terminal"
    BY DEF HaltTerminal, At
  <1>3. /\ a \in Pids /\ a # 0 /\ pcb_terminal[a] = t /\ processes[a] = 1
        /\ Top(t) = h /\ h # 0 /\ h \notin Roots
        /\ processes[h] = 0 /\ parent_pid[h] = a
        /\ context[h].pc \notin Live /\ context[a].pc \in Kept /\ h # a
    BY <1>0, <1>1, <1>2, InKernel DEF Run, RunHome, RunSlot, RunHalt, ReleaseWindow,
       ReturnWindow
  <1>4. h \in Pids /\ pcb_terminal[h] = t
    BY <1>1, <1>3 DEF IInv, CurrentMade, Made, Top, Tables, CurrentHome
  <1>5. /\ cpu' = [cpu EXCEPT !.pc = "halt_esp0"]
        /\ active_terminal' = t /\ active_terminal' = active_terminal
        /\ current_process_id' = [current_process_id EXCEPT ![t] = a]
        /\ UNCHANGED <<pool, tree, active_pid, hw, context>>
    BY <1>0, <1>1, <1>3 DEF HaltTerminal, Goto
  <1>6. /\ processes' = processes /\ context' = context
        /\ t = here' /\ active_pid' = active_pid /\ process_count' = process_count
        /\ pcb_terminal' = pcb_terminal /\ parent_pid' = parent_pid
    BY <1>5 DEF here, pool, hw, tree
  <1>7. cpu'.pc = "halt_esp0"
    BY <1>1, <1>5 DEF FlowType
  <1>8. /\ Top(t)' = a /\ current_process_id'[t] = a
        /\ \A u \in Terminals : u # t => Top(u)' = Top(u)
                                         /\ current_process_id'[u] = current_process_id[u]
    BY <1>1, <1>5 DEF Top
  <1>9. ChainOf(t)' = ChainOf(t) \ {h}
    <2> SUFFICES ASSUME NEW p PROVE p \in ChainOf(t)' <=> p \in ChainOf(t) \ {h}
      BY DEF ChainOf
    <2>1. CASE p = h
      BY <1>3, <1>6, <1>8, <2>1 DEF ChainOf, Allocated
    <2>2. CASE p = a
      BY <1>0, <1>3, <1>6, <1>8, <2>2 DEF ChainOf, Allocated, Waits, Top
    <2>3. CASE p \notin {a, h}
      BY <1>3, <1>6, <1>8, <2>3 DEF ChainOf, Allocated, Waits, Top
    <2>4. QED
      BY <2>1, <2>2, <2>3
  <1>10. \A u \in Terminals : u # t => ChainOf(u)' = ChainOf(u)
    BY <1>6, <1>8 DEF ChainOf, Allocated, Waits
  <1>11. Chained!Halt(t)
    <2>1. h \in ChainOf(t) /\ \A u \in Terminals : u # t => h \notin ChainOf(u)
      BY <1>1, <1>3, <1>4, InChain, MemberHome DEF Tables
    <2>2. \A p \in Pids : ParentOf(p)' = IF p = h THEN 0 ELSE ParentOf(p)
      <3> SUFFICES ASSUME NEW p \in Pids
                   PROVE  ParentOf(p)' = IF p = h THEN 0 ELSE ParentOf(p)
        OBVIOUS
      <3>1. PICK u : u = pcb_terminal[p]
        OBVIOUS
      <3>2. ParentOf(p)' = IF u # 0 /\ p \in ChainOf(u)' THEN parent_pid[p] ELSE 0
        BY <1>5, <3>1, ParentsFollow
      <3>3. CASE p = h
        BY <1>4, <1>9, <3>1, <3>2, <3>3
      <3>4. CASE p # h
        <4>1. u # 0 => (p \in ChainOf(u)' <=> p \in ChainOf(u))
          BY <1>1, <1>9, <1>10, <3>1, <3>4
        <4>2. QED
          BY <3>1, <3>2, <3>4, <4>1 DEF ParentOf
      <3>5. QED
        BY <3>3, <3>4
    <2>3. [p \in Pids |-> ParentOf(p)]' = [[p \in Pids |-> ParentOf(p)] EXCEPT ![h] = 0]
      BY <1>4, <2>2
    <2>4. [u \in Terminals |-> ChainOf(u)]'
          = [[u \in Terminals |-> ChainOf(u)] EXCEPT ![t] = @ \ {h}]
      BY <1>1, <1>9, <1>10
    <2>5. [p \in Pids |-> ParentOf(p)]
          = [p \in Pids |-> IF pcb_terminal[p] # 0 /\ p \in ChainOf(pcb_terminal[p])
                            THEN parent_pid[p] ELSE 0]
      BY DEF ParentOf
    <2>6. [p \in Pids |-> ParentOf(p)]'
          = [p \in Pids |-> IF pcb_terminal[p] # 0 /\ p \in ChainOf(pcb_terminal[p])
                            THEN parent_pid[p] ELSE 0]'
      BY DEF ParentOf
    <2>7. ParentOf(h) = a
      BY <1>1, <1>3, <1>4, <2>1 DEF ParentOf
    <2>8. [p \in Pids |-> ParentOf(p)][h] = a
      BY <1>4, <2>7
    <2>9. current_process_id[t] = h /\ h \notin Terminals \cup {0}
      BY <1>3, Sizes DEF Top
    <2>10. QED
      BY <1>5, <2>3, <2>4, <2>5, <2>6, <2>8, <2>9 DEF Chained!Halt
  <1>12. Chained!Change
    BY <1>1, <1>11 DEF Chained!Change
  <1>13. ChainsOk'
    BY <1>12, ChainsStep DEF SInv
  <1>14. \A u \in Terminals : u # here => FlowOf(u)' = FlowOf(u)
    BY <1>0, <1>5, <1>6, <1>8, OthersStay
  <1>15. EmbryosOk'
    <2>1. EmbryoOk(here)'
      BY <1>5, <1>7 DEF EmbryoOk, Embryonic, FlowOf, here
    <2>2. ASSUME NEW u \in Terminals, u # here, Embryonic(u)
          PROVE  /\ processes'[FlowOf(u).loc] = 1
                 /\ \A v \in Terminals : FlowOf(u).loc \notin ChainOf(v)'
                 /\ Top(u)' = Top(u)
      BY <1>0, <1>6, <1>8, <1>9, <1>10, <2>2, EmbryoFacts
    <2>3. QED
      BY <1>5, <1>6, <1>14, <2>1, <2>2, EmbryosHere
  <1>16. RootsHome' /\ CurrentHome' /\ SuspendedOk' /\ SavedOk'
    <2>1. RootsHome'
      BY <1>1, <1>6 DEF Tables, RootsHome
    <2>2. CurrentHome'
      BY <1>1, <1>3, <1>6, <1>8 DEF Tables, CurrentHome
    <2>3. SuspendedOk'
      BY <1>0, <1>1, <1>6, <1>8 DEF Tables, SuspendedOk
    <2>4. ASSUME NEW p \in Pids \ Roots, context[p].pc \in Points \ {"exec_return"}
          PROVE  Top(pcb_terminal[p])' = p
      <3>0. PICK u : u = pcb_terminal[p]
        OBVIOUS
      <3>1. Top(u) = p /\ context[p].pc \in Live /\ u \in Terminals
        BY <1>1, <2>4, <3>0 DEF Tables, SavedOk, Live
      <3>2. u # t
        BY <1>3, <3>1
      <3>3. QED
        BY <1>6, <1>8, <3>0, <3>1, <3>2 DEF Top
    <2>5. SavedOk'
      BY <1>1, <1>6, <2>4 DEF Tables, SavedOk
    <2>6. QED
      BY <2>1, <2>2, <2>3, <2>5
  <1>17. Run'
    <2>1. RunBoot' /\ RunHome' /\ RunTop' /\ RunSlot'
      BY <1>0, <1>3, <1>6, <1>7, <1>8 DEF RunBoot, RunHome, RunTop, RunSlot,
         ExecWindow, ReleaseWindow
    <2>2. RunExec' /\ RunHalt'
      BY <1>0, <1>3, <1>6, <1>7 DEF RunExec, RunHalt, ExecWindow, ReleaseWindow,
         ReturnWindow
    <2>3. RunSaved' /\ RunPage' /\ RunCount' /\ cpu'.pc # "panic"
      BY <1>7 DEF RunSaved, RunPage, RunCount, ReturnWindow
    <2>4. QED
      BY <2>1, <2>2, <2>3 DEF Run
  <1>18. Counted'
    BY <1>2, <1>5, <1>6, <1>7, <1>14, QuietCount DEF Gone
  <1>19. QED
    BY <1>12, <1>13, <1>15, <1>16, <1>17, <1>18 DEF Tables

\* halt returns from the execute of the parent, or through a frame that has
\* been overwritten.
LEMMA HaltSwitchSafe ==
    ASSUME SInv, HaltSwitch
    PROVE  Tables' /\ Run' /\ ChainsOk' /\ Counted' /\ UNCHANGED Chained!chains
  <1>0. PICK t, a : t = here /\ a = active_pid
    OBVIOUS
  <1>1. /\ cpu.pc = "halt_switch" /\ cpu' = ResumeFlow(context, a)
        /\ context' = [context EXCEPT ![a] = Dead("stale")]
        /\ UNCHANGED <<pool, tree, where, hw>>
    BY <1>0 DEF HaltSwitch, AfterResume, At
  <1>2. /\ IInv /\ Tables /\ Run
        /\ processes' = processes /\ context \in [Pids -> FlowType]
        /\ pcb_terminal \in [Pids -> Terminals \cup {0}]
        /\ t = here' /\ active_terminal' = active_terminal
        /\ active_pid' = a /\ current_process_id' = current_process_id
        /\ process_count' = process_count /\ t = active_terminal
        /\ user_page' = user_page /\ pcb_terminal' = pcb_terminal
        /\ parent_pid' = parent_pid
    BY <1>0, <1>1 DEF SInv, IInv, KernelTypes, here, pool, hw, tree, where
  <1>3. /\ a \in Pids /\ a # 0 /\ t \in Terminals /\ t # 0 /\ Top(t) = a
        /\ processes[a] = 1 /\ pcb_terminal[a] = t
        /\ context[a].pc \in Kept /\ user_page = a
    BY <1>0, <1>1, <1>2, InKernel, ActiveInChain DEF Run, RunTop, RunHome, RunSlot,
       RunHalt, RunPage, ExecWindow, ReleaseWindow, ReturnWindow
  <1>4. cpu'.pc \in {"exec_return", "overrun"}
    BY <1>1, <1>3 DEF ResumeFlow, Kept, Flow, Points, ExecPoints, HaltPoints,
       BlueScreens
  <1>5. /\ \A p \in Pids : p # a => context'[p] = context[p]
        /\ context'[a].pc = "stale" /\ "stale" \notin Live /\ "stale" \notin Points
    BY <1>1, <1>2, <1>3 DEF Dead, Flow, Live, Points, ExecPoints, HaltPoints, BlueScreens
  <1>6. \A u \in Terminals : ChainOf(u)' = ChainOf(u)
    <2>1. \A p \in Pids : (processes'[p] = 1 /\ Waits(p)') <=> (processes[p] = 1 /\ Waits(p))
      BY <1>0, <1>2, <1>5 DEF Waits
    <2>2. QED
      BY <1>2, <2>1, SameChains
  <1>7. UNCHANGED Chained!chains
    BY <1>1, <1>2, <1>6, ChainsStutter
  <1>8. ChainsOk'
    BY <1>7, ChainsStep DEF SInv
  <1>9. \A u \in Terminals : Top(u)' = Top(u) /\ (u # t /\ Top(u) # 0 => Top(u) \in Pids \ {a})
    BY <1>2, <1>3 DEF IInv, CurrentMade, Made, Top, Tables, CurrentHome
  <1>10. \A u \in Terminals : u # here => FlowOf(u)' = FlowOf(u)
    BY <1>0, <1>2, <1>5, <1>9, OthersStay
  <1>11. EmbryosOk'
    <2>1. EmbryoOk(here)'
      BY <1>2, <1>4 DEF EmbryoOk, Embryonic, FlowOf, here
    <2>2. \A u \in Terminals : u # here /\ Embryonic(u) =>
                 /\ processes'[FlowOf(u).loc] = 1
                 /\ \A v \in Terminals : FlowOf(u).loc \notin ChainOf(v)'
      BY <1>2, <1>6, EmbryoFacts
    <2>3. QED
      BY <1>2, <1>9, <1>10, <2>1, <2>2, EmbryosHere
  <1>12. RootsHome' /\ CurrentHome' /\ SuspendedOk' /\ SavedOk'
    <2>1. RootsHome' /\ CurrentHome'
      BY <1>2, <1>9 DEF Tables, RootsHome, CurrentHome, Top
    <2>2. SuspendedOk'
      BY <1>0, <1>2, <1>5, <1>9 DEF Tables, SuspendedOk
    <2>3. SavedOk'
      BY <1>2, <1>3, <1>5 DEF Tables, SavedOk, Top, Live
    <2>4. QED
      BY <2>1, <2>2, <2>3
  <1>13. Run'
    <2>1. RunBoot' /\ RunHome' /\ RunTop' /\ RunSlot'
      BY <1>2, <1>3, <1>4, <1>9 DEF RunBoot, RunHome, RunTop, RunSlot,
         ExecWindow, ReleaseWindow
    <2>2. RunExec' /\ RunHalt'
      BY <1>4 DEF RunExec, RunHalt, ExecWindow, ReleaseWindow, ReturnWindow
    <2>3. RunSaved' /\ RunPage' /\ RunCount' /\ cpu'.pc # "panic"
      BY <1>2, <1>3, <1>4, <1>5 DEF RunSaved, RunPage, RunCount
    <2>4. QED
      BY <2>1, <2>2, <2>3 DEF Run
  <1>14. Counted'
    BY <1>1, <1>2, <1>4, <1>10, QuietCount DEF Gone
  <1>15. QED
    BY <1>7, <1>8, <1>11, <1>12, <1>13, <1>14 DEF Tables

\* A root shell that halts is entered again.
LEMMA RootEnterSafe ==
    ASSUME SInv, RootEnter
    PROVE  Tables' /\ Run' /\ ChainsOk' /\ Counted' /\ UNCHANGED Chained!chains
  <1>0. PICK t, a : t = here /\ a = active_pid
    OBVIOUS
  <1>1. /\ cpu.pc = "root_enter" /\ active_terminal' = a /\ active_pid' = a
        /\ current_process_id' = [current_process_id EXCEPT ![a] = a]
        /\ user_page' = a /\ cpu' = InUser
        /\ UNCHANGED <<pool, tree, context>>
    BY <1>0 DEF RootEnter, EnterRoot, At
  <1>2. IInv /\ Tables /\ Run /\ current_process_id \in [Terminals -> Slots]
    BY DEF SInv, IInv, KernelTypes
  <1>3. /\ a \in Roots /\ Top(t) = a /\ processes[a] = 1 /\ pcb_terminal[a] = t
        /\ (a \notin Roots => context[a].pc \notin Live) /\ Top(t) # 0
    BY <1>0, <1>1, <1>2 DEF IInv, RunningKnows, FlowKnows, Run, RunTop, RunHome, RunSlot,
       ExecWindow, ReleaseWindow
  <1>4. a = t
    BY <1>2, <1>3 DEF Tables, RootsHome
  <1>5. UNCHANGED where
    BY <1>0, <1>1, <1>2, <1>3, <1>4 DEF where, Top, here
  <1>6. cpu'.pc = "user"
    BY <1>1 DEF InUser, Flow
  <1>7. UNCHANGED <<processes, process_count>> /\ active_terminal' = active_terminal
    BY <1>1, <1>5 DEF pool, where
  <1>8. /\ Tables' /\ ChainsOk' /\ UNCHANGED Chained!chains
        /\ \A u \in Terminals : u # here => FlowOf(u)' = FlowOf(u)
    BY <1>1, <1>5, <1>6, <1>7, QuietStep
  <1>9. Counted'
    BY <1>1, <1>6, <1>7, <1>8, QuietCount DEF Gone
  <1>10. Run'
    <2>1. RunBoot' /\ RunHome' /\ RunTop' /\ RunSlot'
      BY <1>0, <1>1, <1>3, <1>5, <1>6, <1>7 DEF RunBoot, RunHome, RunTop, RunSlot,
         ReleaseWindow, Top, here, where, tree
    <2>2. RunExec' /\ RunHalt'
      BY <1>6 DEF RunExec, RunHalt, ExecWindow, ReleaseWindow, ReturnWindow
    <2>3. RunSaved' /\ RunPage' /\ RunCount' /\ cpu'.pc # "panic"
      BY <1>1, <1>3, <1>6 DEF RunSaved, RunPage, RunCount
    <2>4. QED
      BY <2>1, <2>2, <2>3 DEF Run
  <1>11. QED
    BY <1>8, <1>9, <1>10

----------------------------------------------------------------------------
\* Kernel entries

\* The count, when flows stay, are overwritten or move between points that do
\* not count.
LEMMA CountEvolves ==
    ASSUME SInv, cpu.pc # "halt_release", UNCHANGED <<processes, process_count>>,
           \A t \in Terminals :
               \/ FlowOf(t)'.pc = FlowOf(t).pc
               \/ FlowOf(t)'.pc \in Gone
               \/ {FlowOf(t).pc, FlowOf(t)'.pc}
                  \cap ({"exec_scan", "exec_take", "halt_release"} \cup Gone) = {}
    PROVE  Counted'
  <1>1. Leaving = {} /\ \A t \in Terminals : FlowOf(t).pc # "halt_release"
    BY NoneLeaving DEF Leaving
  <1>2. Leaving' = {}
    BY <1>1 DEF Leaving, Gone
  <1>3. Claiming' \subseteq Claiming
    BY DEF Claiming, Gone
  <1>4. Claiming \cup Lost \subseteq Claiming' \cup Lost'
    BY DEF Claiming, Lost, Gone
  <1>5. Allocated' = Allocated
    BY DEF Allocated
  <1>6. QED
    BY <1>1, <1>2, <1>3, <1>4, <1>5, CountStays DEF SInv

\* What an entry from user mode does to a saved context.
LEMMA Overwritten ==
    ASSUME NEW area
    PROVE  /\ Overwrite(context, area) \in [Pids -> {context[p] : p \in Pids} \cup {Dead("smashed")}]
           /\ \A p \in Pids :
               \/ Overwrite(context, area)[p] = context[p]
               \/ /\ context[p].pc \in Points
                  /\ Overwrite(context, area)[p] = Dead("smashed")
                  /\ Overwrite(context, area)[p].pc = "smashed"
  BY DEF Overwrite, Dead, Flow

\* A process that its terminal does not run waits, or its pcb holds no frame.
LEMMA WaitsOrFrameless ==
    ASSUME SInv, NEW p \in Pids, pcb_terminal[p] \in Terminals,
           Top(pcb_terminal[p]) \notin {0, p}
    PROVE  Waits(p) \/ context[p].pc \notin Points
  <1>1. IInv /\ Tables /\ ChainsOk
    BY DEF SInv
  <1>2. CASE p \in Roots
    <2>1. pcb_terminal[p] = p /\ p \in Terminals
      BY <1>1, <1>2, Sizes DEF Tables, RootsHome
    <2>2. p \in ChainOf(p) /\ p # Top(p)
      BY <1>1, <2>1, ChainFacts DEF Tables
    <2>3. QED
      BY <2>1, <2>2, InChain
  <1>3. CASE p \notin Roots
    BY <1>1, <1>3 DEF Tables, SavedOk, Waits
  <1>4. QED
    BY <1>2, <1>3

\* Overwriting frames takes no process off a chain and puts none on one.
LEMMA OverwriteChains ==
    ASSUME SInv, UNCHANGED <<processes, pcb_terminal, current_process_id, active_pid>>,
           \A p \in Pids : \/ context'[p] = context[p]
                           \/ context[p].pc \in Points /\ context'[p].pc = "smashed"
    PROVE  \A t \in Terminals : ChainOf(t)' = ChainOf(t)
  <1>1. ASSUME NEW p \in Pids, pcb_terminal[p] \in Terminals,
               Top(pcb_terminal[p]) \notin {0, p}
        PROVE  Waits(p)' <=> Waits(p)
    BY <1>1, WaitsOrFrameless DEF Waits
  <1>2. QED
    BY <1>1, SameChains

\* A system call or an exception of the running process.
LEMMA EnterKernelSafe ==
    ASSUME SInv, NEW pc \in {"wait", "exec_check", "halt_enter", "fault"},
           EnterKernel(pc)
    PROVE  Tables' /\ Run' /\ ChainsOk' /\ Counted' /\ UNCHANGED Chained!chains
  <1>0. PICK t, a : t = here /\ a = active_pid
    OBVIOUS
  <1>1. /\ cpu.pc = "user" /\ context' = Overwrite(context, esp0)
        /\ cpu'.pc = pc
        /\ UNCHANGED <<pool, tree, where, hw>>
    BY DEF EnterKernel, At, Flow
  <1>2. /\ IInv /\ Tables /\ Run
        /\ processes' = processes
        /\ pcb_terminal \in [Pids -> Terminals \cup {0}]
        /\ t = here' /\ active_terminal' = active_terminal
        /\ active_pid' = a /\ active_pid' = active_pid
        /\ current_process_id' = current_process_id
        /\ process_count' = process_count /\ t = active_terminal
        /\ user_page' = user_page /\ pcb_terminal' = pcb_terminal
        /\ parent_pid' = parent_pid
    BY <1>0, <1>1 DEF SInv, IInv, KernelTypes, here, pool, hw, tree, where
  <1>3. /\ a \in Pids /\ a # 0 /\ t \in Terminals /\ t # 0 /\ Top(t) = a
        /\ processes[a] = 1 /\ pcb_terminal[a] = t /\ user_page = a
        /\ (a \notin Roots => context[a].pc \notin Live)
    BY <1>0, <1>1, <1>2, InKernel, ActiveInChain DEF Run, RunTop, RunHome, RunSlot,
       RunPage, RunSaved, ExecWindow, ReleaseWindow, ReturnWindow
  <1>4. \A p \in Pids : \/ context'[p] = context[p]
                        \/ context[p].pc \in Points /\ context'[p].pc = "smashed"
    BY <1>1, Overwritten
  <1>5. \A u \in Terminals : ChainOf(u)' = ChainOf(u)
    BY <1>2, <1>4, OverwriteChains
  <1>6. UNCHANGED Chained!chains
    BY <1>1, <1>2, <1>5, ChainsStutter
  <1>7. ChainsOk'
    BY <1>6, ChainsStep DEF SInv
  <1>8. \A u \in Terminals : Top(u)' = Top(u) /\ (Top(u) # 0 => Top(u) \in Pids)
    BY <1>2 DEF IInv, CurrentMade, Made, Top
  <1>9. \A u \in Terminals : u # t =>
            FlowOf(u)' = FlowOf(u) \/ FlowOf(u)'.pc = "smashed"
    BY <1>2, <1>4, <1>8 DEF FlowOf, Top
  <1>10. FlowOf(t).pc = "user" /\ FlowOf(t)'.pc = pc
    BY <1>1, <1>2 DEF FlowOf
  <1>11. EmbryosOk'
    <2> DEFINE X == {t}
    <2>1. X \in SUBSET Terminals /\ \A u \in Terminals \ X : Evolves(u)
      BY <1>3, <1>9 DEF Evolves, Gone
    <2>2. EmbryoOk(t)'
      BY <1>10 DEF EmbryoOk, Embryonic
    <2>3. \A u \in X : EmbryoOk(u)'
      BY <2>2
    <2>4. \A u \in Terminals \ X : Embryonic(u) =>
                 /\ processes'[FlowOf(u).loc] = 1
                 /\ \A v \in Terminals : FlowOf(u).loc \notin ChainOf(v)'
                 /\ FlowOf(u).pc = "exec_cpid" =>
                      /\ Top(u)' = Top(u)
                      /\ pcb_terminal'[FlowOf(u).loc] = pcb_terminal[FlowOf(u).loc]
                      /\ parent_pid'[FlowOf(u).loc] = parent_pid[FlowOf(u).loc]
      BY <1>2, <1>5, <1>8, EmbryoFacts
    <2> HIDE DEF X
    <2>5. QED
      BY <1>2, <2>1, <2>3, <2>4, EmbryosStep DEF Tables
  <1>12. RootsHome' /\ CurrentHome' /\ SuspendedOk' /\ SavedOk'
    <2>1. RootsHome' /\ CurrentHome'
      BY <1>2, <1>8 DEF Tables, RootsHome, CurrentHome, Top
    <2>2. SuspendedOk'
      BY <1>0, <1>2, <1>4, <1>8 DEF Tables, SuspendedOk, Resumable
    <2>3. "smashed" \notin Points
      BY DEF Points, ExecPoints, HaltPoints, BlueScreens
    <2>4. SavedOk'
      BY <1>2, <1>4, <2>3 DEF Tables, SavedOk, Top, Live
    <2>5. QED
      BY <2>1, <2>2, <2>4
  <1>13. Run'
    <2>1. RunBoot' /\ RunHome' /\ RunTop' /\ RunSlot'
      BY <1>1, <1>2, <1>3, <1>8 DEF RunBoot, RunHome, RunTop, RunSlot,
         ExecWindow, ReleaseWindow
    <2>2. RunExec' /\ RunHalt'
      BY <1>1 DEF RunExec, RunHalt, ExecWindow, ReleaseWindow, ReturnWindow
    <2>3. RunSaved' /\ RunPage' /\ RunCount' /\ cpu'.pc # "panic"
      BY <1>1, <1>2, <1>3, <1>4 DEF RunSaved, RunPage, RunCount, Live
    <2>4. QED
      BY <2>1, <2>2, <2>3 DEF Run
  <1>14. Counted'
    <2>1. \A u \in Terminals :
               \/ FlowOf(u)'.pc = FlowOf(u).pc
               \/ FlowOf(u)'.pc \in Gone
               \/ {FlowOf(u).pc, FlowOf(u)'.pc}
                  \cap ({"exec_scan", "exec_take", "halt_release"} \cup Gone) = {}
      BY <1>9, <1>10 DEF Gone
    <2>2. QED
      BY <1>1, <1>2, <2>1, CountEvolves
  <1>15. QED
    BY <1>6, <1>7, <1>11, <1>12, <1>13, <1>14 DEF Tables

----------------------------------------------------------------------------
\* Ticks

\* What a tick at a safe point finds, n being the terminal it goes on to.
LEMMA TickFacts ==
    ASSUME SInv, cpu.pc \in SafePoints, NEW n, n = NextTerminal(here)
    PROVE  /\ cpu.pc \in SafePoints \ {"panic"} /\ cpu.pc \in Points
           /\ n \in Terminals /\ here \in Terminals /\ here # 0 /\ n # 0
           /\ TickFlow.pc = cpu.pc /\ (cpu.pc # "user" => TickFlow = cpu)
           /\ \A p \in Pids : \/ TickContext[p] = context[p]
                              \/ context[p].pc \in Points /\ TickContext[p].pc = "smashed"
           /\ SaveSlot(n) \in Pids
           /\ \A p \in Pids : SavedContext(n)[p] = IF p = SaveSlot(n) THEN TickFlow
                                                   ELSE TickContext[p]
           /\ SavedContext(n) = [p \in Pids |-> SavedContext(n)[p]]
           /\ cpu.pc # "boot" => /\ SaveSlot(n) = active_pid /\ Top(here) = active_pid
                                 /\ processes[active_pid] = 1 /\ active_pid # 0
                                 /\ pcb_terminal[active_pid] = here
           /\ cpu.pc = "boot" => SaveSlot(n) = here /\ Top(here) = 0
           /\ Top(n) = 0 => ~AllStarted /\ SaveSlot(n) = here
  <1>1. IInv /\ Tables /\ Run
    BY DEF SInv
  <1>2. here \in Terminals /\ here # 0 /\ n \in Terminals /\ n # 0
    BY <1>1, RoundRobin, Sizes DEF IInv, KernelTypes, here
  <1>3. PrevTerminal(n) = here
    BY <1>2, SizesAssumption DEF PrevTerminal, NextTerminal, Terminals
  <1>4. cpu.pc \in SafePoints \ {"panic"} /\ cpu.pc \in Points
    BY <1>1 DEF Run, SafePoints
  <1>5. TickFlow.pc = cpu.pc /\ (cpu.pc # "user" => TickFlow = cpu)
    BY DEF TickFlow, At, Flow
  <1>6. context \in [Pids -> FlowType]
    BY <1>1 DEF IInv, KernelTypes
  <1>7. /\ \A p \in Pids : \/ TickContext[p] = context[p]
                           \/ context[p].pc \in Points /\ TickContext[p].pc = "smashed"
        /\ TickContext = [p \in Pids |-> TickContext[p]]
    <2>1. CASE cpu.pc = "user"
      BY <2>1, Overwritten DEF TickContext, At, Overwrite
    <2>2. CASE cpu.pc # "user"
      BY <1>6, <2>2 DEF TickContext, At
    <2>3. QED
      BY <2>1, <2>2
  <1>8. cpu.pc # "boot" => /\ Top(here) = active_pid /\ processes[active_pid] = 1
                           /\ active_pid # 0 /\ active_pid \in Pids
                           /\ pcb_terminal[active_pid] = here
    BY <1>1, <1>4, InKernel, SafeListed DEF Run, RunTop, RunSlot, RunHome, ExecWindow,
       ReleaseWindow
  <1>9. cpu.pc = "boot" => \A t \in Terminals : Top(t) = 0
    BY <1>1 DEF Run, RunBoot
  <1>10. Top(n) = 0 => ~AllStarted /\ SaveSlot(n) = here
    BY <1>2, <1>3 DEF AllStarted, SaveSlot, Top
  <1>11. cpu.pc # "boot" => SaveSlot(n) = active_pid
    <2>1. CASE Top(n) # 0
      BY <2>1 DEF SaveSlot, Top
    <2>2. CASE Top(n) = 0 /\ cpu.pc # "boot"
      <3>1. active_pid \in Roots
        BY <1>1, <1>10, <2>2, InKernel DEF IInv, BootPhase
      <3>2. QED
        BY <1>1, <1>8, <1>10, <2>2, <3>1 DEF Tables, RootsHome
    <2>3. QED
      BY <2>1, <2>2
  <1>12. cpu.pc = "boot" => SaveSlot(n) = here /\ Top(here) = 0
    BY <1>2, <1>9, <1>10
  <1>13. SaveSlot(n) \in Pids
    BY <1>2, <1>8, <1>11, <1>12, Sizes
  <1>14. /\ \A p \in Pids : SavedContext(n)[p] = IF p = SaveSlot(n) THEN TickFlow
                                                 ELSE TickContext[p]
         /\ SavedContext(n) = [p \in Pids |-> SavedContext(n)[p]]
    BY <1>7, <1>13 DEF SavedContext
  <1>15. QED
    BY <1>2, <1>4, <1>5, <1>7, <1>8, <1>10, <1>11, <1>12, <1>13, <1>14

\* Until every root shell runs there is nothing but root shells.
LEMMA BootChains ==
    ASSUME IInv, RootsHome, CurrentHome, ~AllStarted
    PROVE  /\ \A t \in Terminals : ChainOf(t) = IF Top(t) = 0 THEN {} ELSE {t}
           /\ \A p \in Pids : ParentOf(p) = 0
           /\ \A p \in Pids : pcb_terminal[p] # 0 => p \in Roots /\ pcb_terminal[p] = p
  <1>1. \A p \in Pids : pcb_terminal[p] # 0 => p \in Roots /\ pcb_terminal[p] = p
    BY DEF IInv, BootPhase, Made, RootsHome
  <1>2. \A t \in Terminals : Top(t) # 0 => Top(t) = t
    BY <1>1 DEF IInv, CurrentMade, Made, Top, CurrentHome
  <1>3. \A t \in Terminals : ChainOf(t) = IF Top(t) = 0 THEN {} ELSE {t}
    <2> SUFFICES ASSUME NEW t \in Terminals
                 PROVE  ChainOf(t) = IF Top(t) = 0 THEN {} ELSE {t}
      OBVIOUS
    <2>1. \A p \in Pids : pcb_terminal[p] = t => p = t
      BY <1>1, Sizes
    <2>2. QED
      BY <1>2, <2>1 DEF ChainOf, Allocated, Top
  <1>4. \A p \in Pids : ParentOf(p) = 0
    BY <1>1 DEF ParentOf, RootsHome
  <1>5. QED
    BY <1>1, <1>3, <1>4

\* The first tick of a terminal starts its root shell.
LEMMA TickBootSafe ==
    ASSUME SInv, cpu.pc \in SafePoints, TickBoot
    PROVE  Tables' /\ Run' /\ ChainsOk' /\ Counted' /\ Chained!Change
  <1>0. PICK n, t, s : n = NextTerminal(here) /\ t = here /\ s = SaveSlot(n)
    OBVIOUS
  <1>1. /\ cpu.pc \in SafePoints /\ current_process_id[n] = 0
        /\ context' = SavedContext(n) /\ active_terminal' = n /\ active_pid' = n
        /\ current_process_id' = [current_process_id EXCEPT ![n] = n]
        /\ user_page' = n /\ cpu' = InUser
        /\ UNCHANGED <<pool, tree>>
    BY <1>0 DEF TickBoot, EnterRoot, here
  <1>2. /\ IInv /\ Tables /\ Run /\ ChainsOk
        /\ current_process_id \in [Terminals -> Slots]
        /\ processes' = processes /\ process_count' = process_count
        /\ pcb_terminal' = pcb_terminal /\ parent_pid' = parent_pid
        /\ here' = n /\ t = active_terminal /\ cpu'.pc = "user"
    BY <1>0, <1>1 DEF SInv, IInv, KernelTypes, pool, tree, here, InUser, Flow
  <1>3. /\ cpu.pc \in SafePoints \ {"panic"} /\ n \in Terminals /\ t \in Terminals
        /\ n # 0 /\ TickFlow.pc = cpu.pc /\ s \in Pids /\ s = t /\ ~AllStarted
        /\ \A p \in Pids : \/ p = s /\ context'[p].pc = cpu.pc
                           \/ p # s /\ context'[p] = context[p]
                           \/ /\ p # s /\ context[p].pc \in Points
                              /\ context'[p].pc = "smashed"
        /\ cpu.pc # "boot" => Top(t) = t
        /\ cpu.pc = "boot" => Top(t) = 0
    BY <1>0, <1>1, TickFacts DEF Top
  <1>4. /\ Top(n) = 0 /\ Top(n)' = n
        /\ \A u \in Terminals : u # n => Top(u)' = Top(u)
    BY <1>1, <1>2, <1>3 DEF Top
  <1>5. IInv'
    BY <1>1, <1>2, TickStep
  <1>6. RootsHome' /\ CurrentHome'
    <2>1. pcb_terminal[n] = n
      BY <1>2, <1>3, Sizes DEF Tables, RootsHome
    <2>2. QED
      BY <1>2, <1>4, <2>1 DEF Tables, RootsHome, CurrentHome
  <1>7. /\ \A u \in Terminals : ChainOf(u) = IF Top(u) = 0 THEN {} ELSE {u}
        /\ \A p \in Pids : ParentOf(p) = 0
        /\ \A p \in Pids : pcb_terminal[p] # 0 => p \in Roots /\ pcb_terminal[p] = p
    BY <1>2, <1>3, BootChains DEF Tables
  <1>8. /\ \A u \in Terminals : ChainOf(u)' = IF Top(u)' = 0 THEN {} ELSE {u}
        /\ \A p \in Pids : ParentOf(p)' = 0
    <2>1. \A u \in Terminals : Top(u)' \in {0, u}
      <3>1. \A u \in Terminals : Top(u) \in {0, u}
        BY <1>2, <1>7 DEF Tables, CurrentHome, IInv, CurrentMade, Made, Top
      <3>2. QED
        BY <1>3, <1>4, <3>1
    <2>2. \A u \in Terminals : ChainOf(u)' = IF Top(u)' = 0 THEN {} ELSE {u}
      <3> SUFFICES ASSUME NEW u \in Terminals
                   PROVE  ChainOf(u)' = IF Top(u)' = 0 THEN {} ELSE {u}
        OBVIOUS
      <3>1. \A p \in Pids : pcb_terminal'[p] = u => p = u
        BY <1>2, <1>7, Sizes
      <3>2. QED
        BY <2>1, <3>1 DEF ChainOf, Allocated, Top
    <2>3. \A p \in Pids : ParentOf(p)' = 0
      BY <1>2, <1>7 DEF Tables, RootsHome, ParentOf
    <2>4. QED
      BY <2>2, <2>3
  <1>9. Chained!Start(n)
    <2>1. [p \in Pids |-> ParentOf(p)]' = [p \in Pids |-> ParentOf(p)]
      BY <1>7, <1>8
    <2>2. [u \in Terminals |-> ChainOf(u)]'
          = [[u \in Terminals |-> ChainOf(u)] EXCEPT ![n] = {n}]
      <3>1. \A u \in Terminals : ChainOf(u)' = IF u = n THEN {n} ELSE ChainOf(u)
        BY <1>3, <1>4, <1>7, <1>8
      <3>2. QED
        BY <1>3, <3>1
    <2>3. [p \in Pids |-> ParentOf(p)]
          = [p \in Pids |-> IF pcb_terminal[p] # 0 /\ p \in ChainOf(pcb_terminal[p])
                            THEN parent_pid[p] ELSE 0]
      BY DEF ParentOf
    <2>4. [p \in Pids |-> ParentOf(p)]'
          = [p \in Pids |-> IF pcb_terminal[p] # 0 /\ p \in ChainOf(pcb_terminal[p])
                            THEN parent_pid[p] ELSE 0]'
      BY DEF ParentOf
    <2>5. QED
      BY <1>1, <2>1, <2>2, <2>3, <2>4 DEF Chained!Start
  <1>10. Chained!Change
    BY <1>3, <1>9 DEF Chained!Change
  <1>11. ChainsOk'
    BY <1>10, ChainsStep DEF SInv
  <1>12. \A u \in Terminals : Top(u) # 0 => Top(u) = u
    BY <1>2, <1>7 DEF Tables, CurrentHome, IInv, CurrentMade, Made, Top
  <1>13. \A u \in Terminals : \/ u = n
                              \/ u # n /\ Top(u) = 0 /\ Top(u)' = 0
                              \/ u # n /\ u = t /\ Top(u) = t /\ context'[u].pc = cpu.pc
                              \/ /\ u \notin {n, t} /\ Top(u) = u
                                 /\ \/ context'[u] = context[u]
                                    \/ context'[u].pc = "smashed"
    BY <1>3, <1>4, <1>12, Sizes
  <1>14. SuspendedOk'
    <2>1. ASSUME NEW u \in Terminals, u # n, Top(u) # 0
          PROVE  context'[u].pc \in Resumable /\ processes[u] = 1
      <3>1. CASE u = t
        <4>1. cpu.pc # "boot"
          BY <1>3, <2>1, <3>1
        <4>2. processes[u] = 1
          BY <1>2, <2>1, Sizes DEF IInv, KernelSlotsTaken
        <4>3. QED
          BY <1>3, <1>13, <2>1, <3>1, <4>1, <4>2, Sizes DEF Resumable
      <3>2. CASE u # t
        BY <1>2, <1>3, <1>13, <2>1, <3>2, Sizes DEF Tables, SuspendedOk, Resumable, here
      <3>3. QED
        BY <3>1, <3>2
    <2>2. QED
      BY <1>2, <1>4, <1>12, <2>1 DEF SuspendedOk
  <1>15. SavedOk'
    <2>1. "smashed" \notin Points
      BY DEF Points, ExecPoints, HaltPoints, BlueScreens
    <2>2. \A p \in Pids : context'[p].pc \in Points => context'[p].pc \in SafePoints \ {"panic"}
      BY <1>2, <1>3, <2>1 DEF Tables, SavedOk
    <2>3. \A p \in Pids \ Roots : context'[p].pc \notin Live
      BY <1>2, <1>3, <1>7, <2>1, Sizes DEF Tables, SavedOk, Live
    <2>4. QED
      BY <2>2, <2>3 DEF SavedOk, Live
  <1>16. \A u \in Terminals :
               \/ FlowOf(u)'.pc = FlowOf(u).pc
               \/ FlowOf(u)'.pc \in Gone
               \/ FlowOf(u).pc \in {"none", "boot"} /\ FlowOf(u)'.pc \in {"none", "user"}
    <2> SUFFICES ASSUME NEW u \in Terminals
                 PROVE  \/ FlowOf(u)'.pc = FlowOf(u).pc
                        \/ FlowOf(u)'.pc \in Gone
                        \/ /\ FlowOf(u).pc \in {"none", "boot"}
                           /\ FlowOf(u)'.pc \in {"none", "user"}
      OBVIOUS
    <2>1. CASE u = n
      <3>1. FlowOf(u).pc \in {"none", "boot"}
        BY <1>2, <1>3, <1>4, <2>1, Sizes DEF FlowOf, Top, Dead, Flow
      <3>2. FlowOf(u)'.pc = "user"
        BY <1>1, <1>2, <2>1 DEF FlowOf
      <3>3. QED
        BY <3>1, <3>2
    <2>2. CASE u # n /\ Top(u) = 0
      <3>1. FlowOf(u).pc \in {"none", "boot"}
        BY <1>2, <1>3, <2>2, Sizes DEF FlowOf, Top, Dead, Flow
      <3>2. FlowOf(u)'.pc = "none"
        BY <1>1, <1>4, <2>2 DEF FlowOf, Top, Dead, Flow
      <3>3. QED
        BY <3>1, <3>2
    <2>3. CASE u # n /\ u = t /\ Top(u) # 0
      BY <1>1, <1>2, <1>4, <1>12, <1>13, <2>3 DEF FlowOf, Top
    <2>4. CASE u \notin {n, t} /\ Top(u) # 0
      BY <1>1, <1>2, <1>4, <1>12, <1>13, <2>4 DEF FlowOf, Top, Gone
    <2>5. QED
      BY <2>1, <2>2, <2>3, <2>4
  <1>17. Counted'
    <2>1. cpu.pc # "halt_release"
      BY <1>3, SafeListed
    <2>2. \A u \in Terminals :
               \/ FlowOf(u)'.pc = FlowOf(u).pc
               \/ FlowOf(u)'.pc \in Gone
               \/ {FlowOf(u).pc, FlowOf(u)'.pc}
                  \cap ({"exec_scan", "exec_take", "halt_release"} \cup Gone) = {}
      BY <1>16 DEF Gone
    <2>3. QED
      BY <1>2, <2>1, <2>2, CountEvolves
  <1>18. EmbryosOk'
    <2>1. \A u \in Terminals : ~Embryonic(u)
      <3> SUFFICES ASSUME NEW u \in Terminals PROVE ~Embryonic(u)
        OBVIOUS
      <3>1. CASE u = t
        BY <1>2, <1>3, <3>1 DEF Embryonic, FlowOf, IInv, BootPhase, ExecPoints
      <3>2. CASE u # t
        BY <1>2, <1>3, <1>12, <3>2, Sizes DEF Embryonic, FlowOf, IInv, BootPhase,
           ExecPoints, Dead, Flow, Top
      <3>3. QED
        BY <3>1, <3>2
    <2>2. \A u \in Terminals : ~Embryonic(u)'
      BY <1>16, <2>1 DEF Embryonic, Gone
    <2>3. QED
      BY <2>2 DEF EmbryosOk, EmbryoOk
  <1>19. Run'
    <2>1. processes[n] = 1 /\ pcb_terminal[n] = n /\ n \in Roots
      BY <1>2, <1>3, Sizes DEF IInv, KernelSlotsTaken, Tables, RootsHome
    <2>2. RunBoot' /\ RunHome' /\ RunTop' /\ RunSlot'
      BY <1>1, <1>2, <1>3, <1>4, <2>1 DEF RunBoot, RunHome, RunTop, RunSlot,
         ReleaseWindow
    <2>3. RunExec' /\ RunHalt'
      BY <1>2 DEF RunExec, RunHalt, ExecWindow, ReleaseWindow, ReturnWindow
    <2>4. RunSaved' /\ RunPage' /\ RunCount' /\ cpu'.pc # "panic"
      BY <1>1, <1>2, <2>1 DEF RunSaved, RunPage, RunCount
    <2>5. QED
      BY <2>2, <2>3, <2>4 DEF Run
  <1>20. QED
    BY <1>6, <1>10, <1>11, <1>14, <1>15, <1>17, <1>18, <1>19 DEF Tables

\* schedule() saves the interrupted flow and resumes the next terminal's.
LEMMA TickResumeSafe ==
    ASSUME SInv, cpu.pc \in SafePoints, TickResume
    PROVE  Tables' /\ Run' /\ ChainsOk' /\ Counted' /\ UNCHANGED Chained!chains
  <1>0. PICK n, t, a, p : /\ n = NextTerminal(here) /\ t = here /\ a = active_pid
                          /\ p = Top(n)
    OBVIOUS
  <1>1. /\ cpu.pc \in SafePoints /\ p # 0
        /\ active_terminal' = n /\ active_pid' = p /\ user_page' = p
        /\ cpu' = ResumeFlow(SavedContext(n), p)
        /\ context' = [SavedContext(n) EXCEPT ![p] = Dead("stale")]
        /\ UNCHANGED <<pool, tree, current_process_id>>
    BY <1>0 DEF TickResume, AfterResume, here, Top
  <1>2. /\ IInv /\ Tables /\ Run /\ ChainsOk
        /\ pcb_terminal \in [Pids -> Terminals \cup {0}]
        /\ processes' = processes /\ process_count' = process_count
        /\ pcb_terminal' = pcb_terminal /\ parent_pid' = parent_pid
        /\ current_process_id' = current_process_id
        /\ here' = n /\ t = active_terminal
    BY <1>0, <1>1 DEF SInv, IInv, KernelTypes, pool, tree, here
  <1>3. /\ n \in Terminals /\ t \in Terminals /\ n # 0 /\ t # 0
    BY <1>0, <1>1, TickFacts
  <1>4. cpu.pc # "boot"
    BY <1>0, <1>1, <1>2, <1>3 DEF Run, RunBoot
  <1>5. /\ cpu.pc \in SafePoints \ {"panic"} /\ cpu.pc \in Points
        /\ TickFlow.pc = cpu.pc /\ (cpu.pc # "user" => TickFlow = cpu)
        /\ \A q \in Pids : \/ TickContext[q] = context[q]
                           \/ context[q].pc \in Points /\ TickContext[q].pc = "smashed"
        /\ a \in Pids
        /\ \A q \in Pids : SavedContext(n)[q] = IF q = a THEN TickFlow
                                                ELSE TickContext[q]
        /\ SavedContext(n) = [q \in Pids |-> SavedContext(n)[q]]
        /\ Top(t) = a /\ processes[a] = 1 /\ a # 0 /\ pcb_terminal[a] = t
    BY <1>0, <1>1, <1>4, TickFacts
  <1>6. /\ p \in Pids /\ pcb_terminal[p] = n /\ processes[p] = 1
    <2>1. p \in Pids /\ pcb_terminal[p] = n
      BY <1>0, <1>1, <1>2, <1>3 DEF IInv, CurrentMade, Made, Top, Tables, CurrentHome
    <2>2. CASE n = t
      BY <1>0, <1>5, <2>1, <2>2
    <2>3. CASE n # t
      BY <1>0, <1>1, <1>2, <1>3, <2>1, <2>3 DEF Tables, SuspendedOk
    <2>4. QED
      BY <2>1, <2>2, <2>3
  <1>7. /\ n = t <=> p = a
    BY <1>0, <1>5, <1>6
  <1>8. /\ "smashed" \notin Points /\ "stale" \notin Points /\ "stale" \notin Live
    BY DEF Points, ExecPoints, HaltPoints, BlueScreens, Live
  <1>9. /\ context'[p].pc = "stale"
        /\ a # p => context'[a] = TickFlow
        /\ \A q \in Pids : q \notin {a, p} =>
               \/ context'[q] = context[q]
               \/ context[q].pc \in Points /\ context'[q].pc = "smashed"
    <2>1. \A q \in Pids : context'[q] = IF q = p THEN Dead("stale") ELSE SavedContext(n)[q]
      BY <1>1, <1>5, <1>6
    <2>2. QED
      BY <1>5, <1>6, <2>1 DEF Dead, Flow
  <1>10. /\ p = a => cpu' = TickFlow
         /\ p # a => cpu' = context[p] \/ cpu'.pc = "overrun"
         /\ p # a => context[p].pc \in Resumable
    <2>1. CASE p = a
      BY <1>1, <1>5, <2>1 DEF ResumeFlow
    <2>2. CASE p # a
      <3>1. context[p].pc \in Resumable
        BY <1>0, <1>1, <1>2, <1>3, <1>7, <2>2 DEF Tables, SuspendedOk
      <3>2. SavedContext(n)[p] = context[p] \/ SavedContext(n)[p].pc = "smashed"
        BY <1>5, <1>6, <2>2
      <3>3. context[p].pc \in Points \cup {"smashed"}
        BY <3>1 DEF Resumable, SafePoints
      <3>4. QED
        BY <1>1, <1>8, <2>2, <3>1, <3>2, <3>3 DEF ResumeFlow, Flow
    <2>3. QED
      BY <2>1, <2>2
  <1>11. cpu'.pc \in SafePoints \ {"boot", "panic"}
    <2>1. CASE p = a
      BY <1>4, <1>5, <1>10, <2>1
    <2>2. CASE p # a
      <3>1. cpu'.pc \in Resumable \cup {"overrun"} /\ cpu'.pc # "smashed"
        <4>1. context[p].pc = "smashed" => cpu'.pc = "overrun"
          <5>1. context[p].pc = "smashed" => SavedContext(n)[p].pc = "smashed"
            BY <1>5, <1>6, <2>2
          <5>2. QED
            BY <1>1, <1>8, <5>1 DEF ResumeFlow, Flow
        <4>2. QED
          BY <1>10, <2>2, <4>1
      <3>2. QED
        BY <3>1, SafeListed DEF Resumable
    <2>3. QED
      BY <2>1, <2>2
  <1>12. \A u \in Terminals : Top(u)' = Top(u) /\ (Top(u) # 0 => Top(u) \in Pids)
    BY <1>2 DEF IInv, CurrentMade, Made, Top
  <1>13. \A u \in Terminals : u \notin {n, t} => Top(u) \notin {a, p}
    BY <1>1, <1>2, <1>5, <1>6 DEF Tables, CurrentHome
  <1>14. \A u \in Terminals : ChainOf(u)' = ChainOf(u)
    <2>1. ASSUME NEW q \in Pids, pcb_terminal[q] \in Terminals,
                 Top(pcb_terminal[q]) \notin {0, q}
          PROVE  Waits(q)' <=> Waits(q)
      <3>1. q \notin {a, p}
        BY <1>0, <1>5, <1>6, <2>1
      <3>2. Waits(q) \/ context[q].pc \notin Points
        BY <2>1, WaitsOrFrameless
      <3>3. QED
        BY <1>0, <1>1, <1>9, <3>1, <3>2 DEF Waits
    <2>2. QED
      BY <1>2, <2>1, SameChains
  <1>15. UNCHANGED Chained!chains
    BY <1>1, <1>2, <1>14, ChainsStutter
  <1>16. ChainsOk'
    BY <1>15, ChainsStep DEF SInv
  <1>17. \A u \in Terminals : Evolves(u)
    <2> SUFFICES ASSUME NEW u \in Terminals PROVE Evolves(u)
      OBVIOUS
    <2>1. CASE u = n /\ u = t
      BY <1>1, <1>2, <1>5, <1>7, <1>10, <2>1 DEF Evolves, FlowOf, Embryonic
    <2>2. CASE u = n /\ u # t
      <3>1. FlowOf(u) = context[p] /\ FlowOf(u)' = cpu'
        BY <1>0, <1>1, <1>2, <2>2 DEF FlowOf, Top
      <3>2. QED
        BY <1>7, <1>10, <2>2, <3>1 DEF Evolves, Gone
    <2>3. CASE u # n /\ u = t
      <3>1. FlowOf(u) = cpu /\ FlowOf(u)' = context'[a]
        BY <1>1, <1>2, <1>5, <2>3 DEF FlowOf, Top
      <3>2. FlowOf(u)' = TickFlow
        BY <1>7, <1>9, <2>3, <3>1
      <3>3. QED
        BY <1>5, <3>1, <3>2 DEF Evolves, Embryonic
    <2>4. CASE u \notin {n, t} /\ Top(u) = 0
      <3>1. FlowOf(u)' = FlowOf(u)
        BY <1>1, <1>2, <2>4 DEF FlowOf, Top
      <3>2. QED
        BY <3>1 DEF Evolves
    <2>5. CASE u \notin {n, t} /\ Top(u) # 0
      <3>1. FlowOf(u) = context[Top(u)] /\ FlowOf(u)' = context'[Top(u)]
        BY <1>1, <1>2, <2>5 DEF FlowOf, Top
      <3>2. context'[Top(u)] = context[Top(u)] \/ context'[Top(u)].pc = "smashed"
        BY <1>9, <1>12, <1>13, <2>5
      <3>3. QED
        BY <3>1, <3>2 DEF Evolves, Gone
    <2>6. QED
      BY <2>1, <2>2, <2>3, <2>4, <2>5
  <1>18. EmbryosOk'
    <2>1. {} \in SUBSET Terminals /\ \A u \in Terminals \ {} : Evolves(u)
      BY <1>17
    <2>2. \A u \in {} : EmbryoOk(u)'
      OBVIOUS
    <2>3. \A u \in Terminals \ {} : Embryonic(u) =>
                 /\ processes'[FlowOf(u).loc] = 1
                 /\ \A v \in Terminals : FlowOf(u).loc \notin ChainOf(v)'
                 /\ FlowOf(u).pc = "exec_cpid" =>
                      /\ Top(u)' = Top(u)
                      /\ pcb_terminal'[FlowOf(u).loc] = pcb_terminal[FlowOf(u).loc]
                      /\ parent_pid'[FlowOf(u).loc] = parent_pid[FlowOf(u).loc]
      BY <1>2, <1>12, <1>14, EmbryoFacts
    <2>4. EmbryosOk
      BY <1>2 DEF Tables
    <2>5. PICK X : X = {}
      OBVIOUS
    <2>6. QED
      BY <2>1, <2>2, <2>3, <2>4, <2>5, EmbryosStep
  <1>19. RootsHome' /\ CurrentHome'
    BY <1>2, <1>12 DEF Tables, RootsHome, CurrentHome, Top
  <1>20. SuspendedOk'
    <2>1. ASSUME NEW u \in Terminals, u # n, Top(u) # 0
          PROVE  context'[Top(u)].pc \in Resumable /\ processes[Top(u)] = 1
      <3>1. CASE u = t
        BY <1>4, <1>5, <1>7, <1>9, <2>1, <3>1 DEF Resumable
      <3>2. CASE u # t
        <4>1. context[Top(u)].pc \in Resumable /\ processes[Top(u)] = 1
          BY <1>0, <1>2, <2>1, <3>2 DEF Tables, SuspendedOk
        <4>2. context'[Top(u)] = context[Top(u)] \/ context'[Top(u)].pc = "smashed"
          BY <1>9, <1>12, <1>13, <2>1, <3>2
        <4>3. QED
          BY <4>1, <4>2 DEF Resumable
      <3>3. QED
        BY <3>1, <3>2
    <2>2. QED
      BY <1>2, <1>12, <2>1 DEF SuspendedOk
  <1>21. SavedOk'
    <2>1. ASSUME NEW q \in Pids, context'[q].pc \in Live
          PROVE  /\ context'[q].pc \in Points => context'[q].pc \in SafePoints \ {"panic"}
                 /\ q \notin Roots => /\ processes[q] = 1 /\ pcb_terminal[q] # 0
                                      /\ context'[q].pc \in Points \ {"exec_return"} =>
                                             Top(pcb_terminal[q]) = q
      <3>1. q # p
        BY <1>8, <1>9, <2>1
      <3>2. CASE q = a
        BY <1>5, <1>9, <1>3, <3>1, <3>2
      <3>3. CASE q # a
        BY <1>2, <1>8, <1>9, <2>1, <3>1, <3>3 DEF Tables, SavedOk, Live
      <3>4. QED
        BY <3>2, <3>3
    <2>2. \A q \in Pids : Top(pcb_terminal[q])' = Top(pcb_terminal[q])
      BY <1>2 DEF Top
    <2>3. QED
      BY <1>2, <2>1, <2>2 DEF SavedOk, Live
  <1>22. Run'
    <2>1. cpu'.pc \notin ExecWindow \cup ReleaseWindow \cup ReturnWindow \cup CountWindow
                         \cup {"exec_take", "boot", "panic"}
      BY <1>11, SafeListed DEF ExecWindow, ReleaseWindow, ReturnWindow, CountWindow
    <2>2. RunBoot' /\ RunHome' /\ RunTop' /\ RunSlot'
      BY <1>0, <1>1, <1>2, <1>6, <1>12, <1>3, <2>1 DEF RunBoot, RunHome, RunTop, RunSlot
    <2>3. RunExec' /\ RunHalt'
      BY <2>1 DEF RunExec, RunHalt, ExecWindow, ReleaseWindow, ReturnWindow
    <2>4. RunSaved' /\ RunPage' /\ RunCount' /\ cpu'.pc # "panic"
      BY <1>1, <1>8, <1>9, <2>1 DEF RunSaved, RunPage, RunCount, ExecWindow, CountWindow
    <2>5. QED
      BY <2>2, <2>3, <2>4 DEF Run
  <1>23. Counted'
    <2>1. cpu.pc # "halt_release"
      BY <1>5, SafeListed
    <2>2. \A u \in Terminals : FlowOf(u)'.pc = FlowOf(u).pc \/ FlowOf(u)'.pc \in Gone
      BY <1>17 DEF Evolves
    <2>3. QED
      BY <1>2, <2>1, <2>2, CountEvolves
  <1>24. QED
    BY <1>15, <1>16, <1>18, <1>19, <1>20, <1>21, <1>22, <1>23 DEF Tables

----------------------------------------------------------------------------
\* The invariant

\* No process runs before the first tick.
LEMMA InitSInv == ASSUME Init PROVE SInv /\ ~torn /\ Chained!Init
  <1>1. IInv
    BY InitIInv
  <1>2. cpu.pc = "boot" /\ active_terminal \in Terminals /\ active_pid = 0
        /\ (\A t \in Terminals : current_process_id[t] = 0)
        /\ current_process_id = [t \in Terminals |-> 0]
        /\ process_count = NumTerminals
    BY <1>1 DEF Init, Flow, IInv, KernelTypes
  <1>3. \A p \in Pids : context[p].pc \in {"entry", "none"}
    BY DEF Init, Dead, Flow
  <1>4. \A t \in Terminals : FlowOf(t).pc \in {"boot", "none"}
    BY <1>2 DEF FlowOf, Dead, Flow
  <1>5. RootsHome /\ CurrentHome /\ SuspendedOk
    BY <1>2, Sizes DEF Init, RootsHome, CurrentHome, SuspendedOk, Top
  <1>6. SavedOk
    BY <1>3 DEF SavedOk, Live, Points, ExecPoints, HaltPoints, BlueScreens
  <1>7. EmbryosOk
    BY <1>4 DEF EmbryosOk, EmbryoOk, Embryonic
  <1>8. Run
    BY <1>2 DEF Run, RunBoot, RunHome, RunTop, RunSlot, RunExec, RunHalt, RunSaved,
       RunPage, RunCount, ExecWindow, ReleaseWindow, ReturnWindow, Top
  <1>9. /\ \A t \in Terminals : ChainOf(t) = {}
        /\ \A p \in Pids : ParentOf(p) = 0
    <2>1. \A t \in Terminals : ChainOf(t) = {}
      BY <1>2 DEF ChainOf
    <2>2. \A p \in Pids : pcb_terminal[p] # 0 => pcb_terminal[p] \in Terminals
      BY <1>1 DEF IInv, KernelTypes
    <2>3. QED
      BY <2>1, <2>2 DEF ParentOf
  <1>10. /\ [t \in Terminals |-> ChainOf(t)] = [t \in Terminals |-> {}]
         /\ [p \in Pids |-> IF pcb_terminal[p] # 0 /\ p \in ChainOf(pcb_terminal[p])
                            THEN parent_pid[p] ELSE 0] = [p \in Pids |-> 0]
    BY <1>9 DEF ParentOf
  <1>0. torn = FALSE
    BY DEF Init
  <1>11. Chained!Init /\ CP!Init
    BY <1>0, <1>2, <1>10 DEF Chained!Init, CP!Init
  <1>12. ChainsOk
    <2>1. CP!UntilBroken
      BY <1>11, CP!InitKeeps, Sizes
    <2>2. QED
      BY <1>0, <2>1 DEF CP!UntilBroken, ChainsOk
  <1>13. Counted
    <2>1. Claiming = {} /\ Leaving = {} /\ Lost = {}
      BY <1>4 DEF Claiming, Leaving, Lost
    <2>2. Allocated = 1 .. NumTerminals
      BY Sizes, SizesAssumption DEF Init, Allocated, Roots, Terminals, Pids, Slots
    <2>3. Cardinality(Allocated) = NumTerminals
      BY <2>2, FS_Interval, SizesAssumption
    <2>4. QED
      BY <1>2, <2>1, <2>3, FS_EmptySet, SizesAssumption DEF Counted
  <1>14. QED
    BY <1>0, <1>1, <1>5, <1>6, <1>7, <1>8, <1>11, <1>12, <1>13 DEF SInv, Tables

\* Every step that tears nothing keeps the invariant, and is a step of the
\* chains or invisible.
LEMMA WholeStep ==
    ASSUME SInv, [Next]_vars, CallExecute => AllStarted, Tick => cpu.pc \in SafePoints
    PROVE  SInv' /\ [Chained!Change]_(Chained!chains)
  <1>1. IInv'
    BY NextIInv DEF SInv
  <1> SUFFICES Tables' /\ Run' /\ ChainsOk' /\ Counted' /\ [Chained!Change]_(Chained!chains)
    BY <1>1 DEF SInv
  <1>2. CASE ExecStep
    BY <1>2, QuietExecSteps, CountSteps, ExecNoSlotNever, ExecTakeStep, ExecPcbSafe,
       ExecCpidSafe, ExecSaveSafe, ExecSwitchSafe DEF ExecStep
  <1>3. CASE HaltStep
    BY <1>3, QuietHaltSteps, CountSteps, HaltReleaseStep, HaltPidSafe, HaltTerminalSafe,
       HaltSwitchSafe, RootEnterSafe DEF HaltStep
  <1>4. CASE CallOther \/ CallExecute \/ CallHalt \/ UserException
    BY <1>4, EnterKernelSafe DEF CallOther, CallExecute, CallHalt, UserException
  <1>5. CASE OtherReturn
    BY <1>5, QuietExecSteps
  <1>6. CASE Tick
    BY <1>6, TickBootSafe, TickResumeSafe DEF Tick
  <1>7. CASE UNCHANGED vars
    <2>1. UNCHANGED <<pool, tree, where, hw, context, cpu>>
      BY <1>7 DEF vars
    <2>2. UNCHANGED <<processes, process_count, parent_pid, pcb_terminal, active_terminal,
                      active_pid, current_process_id, esp0, user_page, context, cpu>>
      BY <2>1 DEF pool, tree, where, hw
    <2>3. \A t \in Terminals : ChainOf(t)' = ChainOf(t)
      BY <2>2, SameChains DEF Waits
    <2>4. \A t \in Terminals : FlowOf(t)' = FlowOf(t)
      BY <2>2 DEF FlowOf
    <2>5. UNCHANGED Chained!chains
      BY <2>1, <2>2, <2>3, ChainsStutter DEF SInv, IInv, KernelTypes
    <2>6. ChainsOk'
      BY <2>5, ChainsStep DEF SInv
    <2>7. EmbryosOk'
      BY <2>2, <2>3, <2>4 DEF SInv, Tables, EmbryosOk, EmbryoOk, Embryonic, Top
    <2>8. RootsHome' /\ CurrentHome' /\ SuspendedOk' /\ SavedOk'
      BY <2>2 DEF SInv, Tables, RootsHome, CurrentHome, SuspendedOk, SavedOk, Top, here
    <2>9. RunBoot' /\ RunHome' /\ RunTop' /\ RunSlot' /\ RunExec'
      BY <2>2 DEF SInv, Run, RunBoot, RunHome, RunTop, RunSlot, RunExec, Top, here
    <2>10. RunHalt' /\ RunSaved' /\ RunPage' /\ RunCount' /\ cpu'.pc # "panic"
      BY <2>2 DEF SInv, Run, RunHalt, RunSaved, RunPage, RunCount, Top, here
    <2>11. /\ Claiming' = Claiming /\ Leaving' = Leaving /\ Lost' = Lost
           /\ Allocated' = Allocated
      BY <2>2, <2>4 DEF Claiming, Leaving, Lost, Allocated
    <2>12. Counted'
      BY <2>2, <2>11, CountStays DEF SInv
    <2>13. QED
      BY <2>5, <2>6, <2>7, <2>8, <2>9, <2>10, <2>12 DEF Tables, Run
  <1>8. QED
    BY <1>2, <1>3, <1>4, <1>5, <1>6, <1>7 DEF Next, UserStep

\* Nothing resets torn, and a step that leaves it FALSE tears nothing.
LEMMA TornStays ==
    ASSUME torn \in BOOLEAN, [Next]_vars, ~torn'
    PROVE  /\ torn' = torn
           /\ CallExecute => AllStarted
           /\ Tick => cpu.pc \in SafePoints
  <1>1. CallExecute => torn' = torn /\ AllStarted
    BY DEF CallExecute
  <1>2. Tick => torn' = torn /\ cpu.pc \in SafePoints
    BY DEF Tick
  <1>3. ExecStep \/ HaltStep \/ UserStep \/ UNCHANGED vars => torn' = torn
    BY DEF ExecStep, HaltStep, UserStep, vars
  <1>4. QED
    BY <1>1, <1>2, <1>3, Zenon DEF Next

\* What holds until a tick comes in one of the windows.
UInv == torn \in BOOLEAN /\ (~torn => SInv)

\* Every step keeps it; a step that tears breaks the chains, any other changes
\* them as module Chains says.
LEMMA NextUInv ==
    ASSUME UInv, [Next]_vars
    PROVE  UInv' /\ [Chained!Next]_(Chained!vars)
  <1>1. torn' \in BOOLEAN
    BY TornTyped DEF UInv
  <1>2. CASE torn'
    <2>1. torn' = TRUE
      BY <1>1, <1>2
    <2>2. Chained!Break
      BY <2>1 DEF Chained!Break
    <2>3. QED
      BY <1>1, <1>2, <2>2 DEF UInv, Chained!Next
  <1>3. CASE ~torn'
    <2>1. SInv' /\ [Chained!Change]_(Chained!chains)
      BY <1>3, TornStays, WholeStep DEF UInv
    <2>2. torn' = torn
      BY <1>3, TornStays DEF UInv
    <2>3. [Chained!Next]_(Chained!vars)
      BY <2>1, <2>2 DEF Chained!Next, Chained!vars
    <2>4. QED
      BY <1>1, <2>1, <2>3 DEF UInv
  <1>4. QED
    BY <1>2, <1>3

\* It holds before the first tick.
LEMMA InitUInv == ASSUME Init PROVE UInv /\ Chained!Init
  BY InitSInv, TornTyped DEF UInv

----------------------------------------------------------------------------
\* What the invariant says

\* A terminal that waits for its turn can be resumed.
LEMMA SInvSuspended == ASSUME UInv PROVE SuspendedResumable
  <1> SUFFICES ASSUME SInv PROVE SuspendedResumable
    BY DEF UInv, SuspendedResumable
  <1>1. Resumable \subseteq (Points \ {"panic"}) \cup {"smashed"}
    BY DEF Resumable, SafePoints
  <1>2. QED
    BY <1>1 DEF SInv, Tables, SuspendedOk, SuspendedResumable, FlowOf, Top, here

\* A parent waits in its execute for the process its terminal runs.
LEMMA SInvParents == ASSUME UInv PROVE ParentsResumable
  <1> SUFFICES ASSUME SInv PROVE ParentsResumable
    BY DEF UInv, ParentsResumable
  <1>1. IInv /\ Tables /\ Run /\ ChainsOk
    BY DEF SInv
  <1>2. ASSUME NEW t \in Terminals, Top(t) \notin Roots \cup {0},
               FlowOf(t).pc \notin {"exec_page", "exec_save"}
        PROVE  context[parent_pid[Top(t)]].pc \in Kept
    <2>0. PICK q : q = parent_pid[Top(t)]
      OBVIOUS
    <2>1. Top(t) \in ChainOf(t) \ {t}
      BY <1>2, InChain, Sizes
    <2>2. q \in ChainOf(t) \ {Top(t)}
      BY <1>1, <1>2, <2>0, <2>1, ChainFacts DEF Tables
    <2>3. q \in Pids /\ pcb_terminal[q] = t /\ (q = active_pid \/ context[q].pc \in Kept)
      BY <1>1, <2>2, MemberHome, InChain DEF Tables, Waits, Kept
    <2>4. CASE q = active_pid
      <3>1. cpu.pc # "boot"
        BY <1>1, <2>3, <2>4, Sizes DEF Run, RunBoot
      <3>2. t = here /\ FlowOf(t) = cpu
        BY <1>1, <2>3, <2>4, <3>1 DEF Run, RunHome, FlowOf, here
      <3>3. cpu.pc \in {"exec_switch", "halt_terminal"}
        BY <1>1, <1>2, <2>2, <2>4, <3>1, <3>2 DEF Run, RunTop, ExecWindow
      <3>4. QED
        BY <1>1, <2>0, <2>4, <3>3 DEF Run, RunExec, RunHalt, ReturnWindow, Kept
    <2>5. QED
      BY <2>0, <2>3, <2>4
  <1>3. cpu.pc \in ReturnWindow => context[active_pid].pc \in Kept
    BY <1>1 DEF Run, RunHalt
  <1>4. QED
    BY <1>2, <1>3 DEF ParentsResumable, Kept, Top

\* In user mode the tables agree.
LEMMA SInvUser == ASSUME UInv PROVE UserRunsAsItself
  <1> SUFFICES ASSUME SInv, cpu.pc = "user"
               PROVE  /\ user_page = active_pid
                      /\ active_pid \in Allocated
                      /\ current_process_id[active_terminal] = active_pid
                      /\ pcb_terminal[active_pid] = active_terminal
    BY DEF UInv, UserRunsAsItself, At
  <1>1. IInv /\ Run /\ active_pid \in Pids
    BY InKernel DEF SInv
  <1>2. QED
    BY <1>1 DEF Run, RunHome, RunTop, RunSlot, RunPage, ExecWindow, ReleaseWindow,
       Top, here, Allocated

\* When the count is full, so is the pool, up to the claims.
LEMMA SInvRefusal ==
    ASSUME SInv, ExecRefuse
    PROVE  PoolFull
  <1>1. cpu.pc = "exec_check" /\ process_count = NumPids /\ IInv
    BY DEF ExecRefuse, At, SInv
  <1>2. Cardinality(Leaving) = 0
    BY <1>1, NoneLeaving, FS_EmptySet
  <1>3. FreeSlots = Pids \ Allocated
    BY <1>1, Sizes DEF FreeSlots, Allocated, IInv, KernelTypes, KernelSlotsTaken, Slots, Pids
  <1>4. Cardinality(Pids \ Allocated) = Cardinality(Pids) - Cardinality(Pids \cap Allocated)
    BY CountedFinite, FS_Difference
  <1>5. Pids \cap Allocated = Allocated
    BY ClaimingLost
  <1>6. /\ Cardinality(Claiming) \in Nat /\ Cardinality(Lost) \in Nat
        /\ Cardinality(Allocated) \in Nat /\ NumPids \in Nat
        /\ Cardinality(Pids) = NumPids
    BY ClaimingLost, CountedFinite, Sizes
  <1> HIDE DEF Claiming, Lost, Leaving, Allocated, FreeSlots
  <1>7. NumPids <= Cardinality(Allocated) + Cardinality(Claiming) + Cardinality(Lost)
    BY <1>1, <1>2, <1>6 DEF SInv, Counted
  <1>8. Cardinality(FreeSlots) = NumPids - Cardinality(Allocated)
    BY <1>3, <1>4, <1>5, <1>6
  <1>9. QED
    BY <1>6, <1>7, <1>8 DEF PoolFull

----------------------------------------------------------------------------
\* Theorems

\* schedule() always finds a frame to return through in the pcb of the process
\* the next terminal runs, for any number of terminals and slots and until a
\* tick comes in one of the windows: it never loads a stale or an empty
\* context.
THEOREM AlwaysResumable == Spec => []SuspendedResumable
  <1>1. Init => UInv
    BY InitUInv
  <1>2. UInv /\ [Next]_vars => UInv'
    BY NextUInv
  <1>3. UInv => SuspendedResumable
    BY SInvSuspended
  <1>4. QED
    BY <1>1, <1>2, <1>3, PTL DEF Spec

\* Until a tick comes in one of the windows, halt returns through the frame of
\* the execute that started its process, for any number of terminals and slots
\* and any depth of programs: the parent's pcb still holds it, or another
\* process has overwritten it.
THEOREM ParentsWait == Spec => []ParentsResumable
  <1>1. Init => UInv
    BY InitUInv
  <1>2. UInv /\ [Next]_vars => UInv'
    BY NextUInv
  <1>3. UInv => ParentsResumable
    BY SInvParents
  <1>4. QED
    BY <1>1, <1>2, <1>3, PTL DEF Spec

\* Until a tick comes in one of the windows, user code runs on its own page,
\* from a slot that is in use, as the process that active_pid,
\* current_process_id and its pcb agree on.
THEOREM UserAsItself == Spec => []UserRunsAsItself
  <1>1. Init => UInv
    BY InitUInv
  <1>2. UInv /\ [Next]_vars => UInv'
    BY NextUInv
  <1>3. UInv => UserRunsAsItself
    BY SInvUser
  <1>4. QED
    BY <1>1, <1>2, <1>3, PTL DEF Spec

\* Until a tick comes in one of the windows, process_count is the number of
\* slots in use up to the calls under way and the executes that were
\* overwritten, for any size of the pool.
THEOREM PoolCounted == Spec => []PoolCount
  <1>1. Init => UInv
    BY InitUInv
  <1>2. UInv /\ [Next]_vars => UInv'
    BY NextUInv
  <1>3. UInv => PoolCount
    BY DEF UInv, SInv, PoolCount
  <1>4. QED
    BY <1>1, <1>2, <1>3, PTL DEF Spec

\* Until a tick comes in one of the windows, execute refuses only when every
\* slot is in use, spoken for or lost.
THEOREM RefusalsJustified == Spec => RefusalJustified
  <1>1. Init => UInv
    BY InitUInv
  <1>2. UInv /\ [Next]_vars => UInv'
    BY NextUInv
  <1>3. UInv => [ExecRefuse /\ ~torn => PoolFull]_vars
    BY SInvRefusal DEF UInv
  <1>4. QED
    BY <1>1, <1>2, <1>3, PTL DEF Spec, RefusalJustified

\* execute, halt and the scheduler implement the chains of module Chains: every
\* step appends a process to the chain of its terminal, takes the last one off,
\* starts a root shell, leaves all chains alone, or is a tick (or an execute
\* before the last root shell runs) that breaks the promise for good.
THEOREM ProcessImplementsChains == Spec => ImplementsChains
  <1>1. Init => UInv /\ Chained!Init
    BY InitUInv
  <1>2. UInv /\ [Next]_vars => UInv' /\ [Chained!Next]_(Chained!vars)
    BY NextUInv
  <1>3. QED
    BY <1>1, <1>2, PTL DEF Spec, ImplementsChains, Chained!Spec

\* So, until a tick comes in one of the windows, the processes of the kernel
\* form one chain per terminal: no process is in two, and every parent has one
\* child.
THEOREM OneChainEach == Spec => [](~torn => Chained!OneChainPerTerminal)
  <1>1. Init => UInv
    BY InitUInv
  <1>2. UInv /\ [Next]_vars => UInv'
    BY NextUInv
  <1>3. UInv => (~torn => Chained!OneChainPerTerminal)
    <2>1. SInv => CP!OneChainPerTerminal
      BY CP!ChainsFromInv DEF SInv, ChainsOk
    <2>2. QED
      BY <2>1 DEF UInv, CP!OneChainPerTerminal, Chained!OneChainPerTerminal
  <1>4. QED
    BY <1>1, <1>2, <1>3, PTL DEF Spec
=============================================================================
