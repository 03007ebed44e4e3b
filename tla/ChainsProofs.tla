---------------------------- MODULE ChainsProofs ----------------------------
(* The abstract chains really are chains, for any number of processes.     *)
EXTENDS Chains, TLAPS

Pid0 == Pids \cup {0}

TypeOK == /\ members \in [Terminals -> SUBSET Pids]
          /\ top \in [Terminals -> Pid0]
          /\ parent \in [Pids -> Pid0]

\* A root shell is in no chain but its own.
RootsAtHome == \A t, u \in Terminals : t # u => t \notin members[u]

Disjoint == \A t, u \in Terminals : t # u => members[t] \cap members[u] = {}

ChainOk(t) ==
    IF members[t] = {} THEN top[t] = 0
    ELSE /\ {t, top[t]} \subseteq members[t]
         /\ \A p \in members[t] \ {t} : parent[p] \in members[t] \ {p, top[t]}
         /\ \A p, q \in members[t] \ {t} : parent[p] = parent[q] => p = q

IInv == TypeOK /\ RootsAtHome /\ Disjoint /\ \A t \in Terminals : ChainOk(t)

\* The root shell of a terminal starts: the chain of that terminal alone
\* comes into being (boot_enter_terminal_N).
LEMMA StartKeeps ==
    ASSUME Terminals \subseteq Pids, 0 \notin Pids,
           IInv, NEW t \in Terminals, Start(t)
    PROVE  IInv'
<1>0. members[t] = {}
  BY DEF IInv, TypeOK, ChainOk, Start, Pid0
<1>1. TypeOK'
  BY DEF IInv, TypeOK, Start, Pid0
<1>2. RootsAtHome' /\ Disjoint'
  BY DEF IInv, TypeOK, RootsAtHome, Disjoint, Start
<1>3. ASSUME NEW u \in Terminals PROVE ChainOk(u)'
  <2>1. CASE u = t
    BY <2>1 DEF IInv, TypeOK, ChainOk, Start
  <2>2. CASE u # t
    BY <2>2 DEF IInv, TypeOK, ChainOk, Start
  <2>. QED BY <2>1, <2>2
<1>. QED BY <1>1, <1>2, <1>3 DEF IInv

\* execute appends: the new process is in no chain, so no other chain and no
\* parent link is touched (syscall_execute).
LEMMA ExecuteKeeps ==
    ASSUME Terminals \subseteq Pids, 0 \notin Pids,
           IInv, NEW t \in Terminals, NEW p \in Pids, Execute(t, p)
    PROVE  IInv'
<1>0. members[t] # {} /\ top[t] \in members[t]
  BY DEF IInv, TypeOK, ChainOk, Execute
<1>1. TypeOK'
  BY DEF IInv, TypeOK, Execute, Pid0
<1>2. RootsAtHome' /\ Disjoint'
  BY DEF IInv, TypeOK, RootsAtHome, Disjoint, Execute
<1>3. ASSUME NEW u \in Terminals PROVE ChainOk(u)'
  <2>1. CASE u = t
    BY <2>1, <1>0 DEF IInv, TypeOK, ChainOk, Execute
  <2>2. CASE u # t
    BY <2>2 DEF IInv, TypeOK, ChainOk, Execute
  <2>. QED BY <2>1, <2>2
<1>. QED BY <1>1, <1>2, <1>3 DEF IInv

\* halt takes off the top: its parent, the parent of nothing else, becomes the
\* new end of the chain (syscall_halt).
LEMMA HaltKeeps ==
    ASSUME Terminals \subseteq Pids, 0 \notin Pids,
           IInv, NEW t \in Terminals, Halt(t)
    PROVE  IInv'
<1>0. /\ t \in members[t] /\ top[t] \in members[t] \ {t}
      /\ parent[top[t]] \in members[t] \ {top[t]}
  BY DEF IInv, TypeOK, ChainOk, Halt
<1>1. TypeOK'
  BY <1>0 DEF IInv, TypeOK, Halt, Pid0
<1>2. RootsAtHome' /\ Disjoint'
  BY DEF IInv, TypeOK, RootsAtHome, Disjoint, Halt
<1>3. ASSUME NEW u \in Terminals PROVE ChainOk(u)'
  <2>1. CASE u = t
    BY <2>1, <1>0 DEF IInv, TypeOK, ChainOk, Halt
  <2>2. CASE u # t
    <3>1. members'[u] = members[u] /\ top'[u] = top[u]
      BY <2>2 DEF IInv, TypeOK, Halt
    <3>2. \A q \in members[u] : q # top[t]
      BY <2>2, <1>0 DEF IInv, Disjoint
    <3>3. \A q \in members[u] : parent'[q] = parent[q]
      BY <3>2 DEF IInv, TypeOK, Halt
    <3>. QED BY <3>1, <3>3 DEF IInv, ChainOk
  <2>. QED BY <2>1, <2>2
<1>. QED BY <1>1, <1>2, <1>3 DEF IInv

\* Every change the abstract specification allows keeps the chains.
LEMMA ChangeKeeps ==
    ASSUME Terminals \subseteq Pids, 0 \notin Pids, IInv, [Change]_chains
    PROVE  IInv'
<1>1. ASSUME NEW t \in Terminals, Start(t) PROVE IInv'
  BY <1>1, StartKeeps
<1>2. ASSUME NEW t \in Terminals, NEW p \in Pids, Execute(t, p) PROVE IInv'
  BY <1>2, ExecuteKeeps
<1>3. ASSUME NEW t \in Terminals, Halt(t) PROVE IInv'
  BY <1>3, HaltKeeps
<1>4. CASE UNCHANGED chains
  BY <1>4 DEF chains, IInv, TypeOK, RootsAtHome, Disjoint, ChainOk
<1>. QED BY <1>1, <1>2, <1>3, <1>4 DEF Change

\* What holds until a tick tears a call.
UntilBroken == broken \in BOOLEAN /\ (~broken => IInv)

\* Nothing mends a torn call: while broken is FALSE it has never been TRUE, and
\* every step so far was a change the chains survive.
LEMMA NextKeeps ==
    ASSUME Terminals \subseteq Pids, 0 \notin Pids, UntilBroken, [Next]_vars
    PROVE  UntilBroken'
<1>1. CASE broken' = TRUE
  BY <1>1, Zenon DEF UntilBroken
<1>2. CASE UNCHANGED broken /\ [Change]_chains
  <2>1. CASE broken
    BY <1>2, <2>1, Zenon DEF UntilBroken
  <2>2. CASE ~broken
    <3>1. IInv'
      BY <1>2, <2>2, ChangeKeeps, Zenon DEF UntilBroken
    <3>. QED BY <1>2, <3>1, Zenon DEF UntilBroken
  <2>. QED BY <2>1, <2>2, Zenon
<1>. QED BY <1>1, <1>2, Zenon DEF Next, Break, vars

\* Before the first tick there are no chains.
LEMMA InitKeeps ==
    ASSUME Terminals \subseteq Pids, 0 \notin Pids, Init
    PROVE  UntilBroken
<1>1. IInv
  BY DEF Init, IInv, TypeOK, RootsAtHome, Disjoint, ChainOk, Pid0
<1>. QED BY <1>1, Zenon DEF Init, UntilBroken

\* The invariant says what is promised.
LEMMA ChainsFromInv == ASSUME IInv PROVE OneChainPerTerminal
  BY DEF IInv, Disjoint, ChainOk, OneChainPerTerminal

\* However execute and halt are called on the terminals, until a tick tears one
\* of the calls no process is in two chains and every chain is a line from its
\* root shell to its top: the promise of syscall_execute and syscall_halt.
\* Module Process implements Chains, so it inherits this.
THEOREM ChainsStayChains ==
    ASSUME Terminals \subseteq Pids, 0 \notin Pids
    PROVE  Spec => [](~broken => OneChainPerTerminal)
<1>1. Init => UntilBroken
  BY InitKeeps
<1>2. UntilBroken /\ [Next]_vars => UntilBroken'
  BY NextKeeps
<1>3. UntilBroken => (~broken => OneChainPerTerminal)
  BY ChainsFromInv DEF UntilBroken
<1>. QED BY <1>1, <1>2, <1>3, PTL DEF Spec
============================================================================
