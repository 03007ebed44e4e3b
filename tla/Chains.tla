------------------------------- MODULE Chains -------------------------------
(***************************************************************************)
(* What execute, halt and the scheduler promise together (syscall.c): each *)
(* terminal has one chain of processes that hangs from its root shell.     *)
(* execute puts a process no chain holds at the end of the caller's chain, *)
(* halt takes the last one off, and nothing else changes a chain.  Ticks,  *)
(* stacks, the pool and the steps of the calls are details: module Process *)
(* has them, and implements this specification.                            *)
(*                                                                         *)
(* The promise has an end: a tick that tears execute or halt (the windows  *)
(* of module Process) breaks it, and nothing is said of what comes after.  *)
(***************************************************************************)
CONSTANTS Terminals,   \* also the pids of the root shells
          Pids

VARIABLES members,     \* per terminal: the processes of its chain
          top,         \* per terminal: the last of them, 0 if there is none
          parent,      \* per process: the one above it, 0 for none
          broken       \* a tick has torn a call

chains == <<members, top, parent>>
vars   == <<chains, broken>>

Init == /\ members = [t \in Terminals |-> {}]
        /\ top = [t \in Terminals |-> 0]
        /\ parent = [p \in Pids |-> 0]
        /\ broken = FALSE

\* The first tick of a terminal starts its root shell.
Start(t) == /\ top[t] = 0
            /\ top' = [top EXCEPT ![t] = t]
            /\ members' = [members EXCEPT ![t] = {t}]
            /\ UNCHANGED parent

Execute(t, p) == /\ top[t] # 0 /\ p \notin Terminals
                 /\ top' = [top EXCEPT ![t] = p]
                 /\ \A u \in Terminals : p \notin members[u]
                 /\ members' = [members EXCEPT ![t] = @ \cup {p}]
                 /\ parent' = [parent EXCEPT ![p] = top[t]]

\* A root shell that halts is started again: no change.
Halt(t) == /\ top[t] \notin Terminals \cup {0}
           /\ top' = [top EXCEPT ![t] = parent[top[t]]]
           /\ members' = [members EXCEPT ![t] = @ \ {top[t]}]
           /\ parent' = [parent EXCEPT ![top[t]] = 0]

Change == \E t \in Terminals : Start(t) \/ Halt(t) \/ \E p \in Pids : Execute(t, p)

\* From here on anything may happen to the chains.
Break == broken' = TRUE

Next == (Change /\ UNCHANGED broken) \/ Break

Spec == Init /\ [][Next]_vars

----------------------------------------------------------------------------
\* No process is in two chains; a chain has one end, its top, and above every
\* process but the root shell is another one of the same chain, the parent of
\* no third.
OneChainPerTerminal ==
    /\ \A t, u \in Terminals : t # u => members[t] \cap members[u] = {}
    /\ \A t \in Terminals :
           IF members[t] = {} THEN top[t] = 0
           ELSE /\ {t, top[t]} \subseteq members[t]
                /\ \A p \in members[t] \ {t} :
                       parent[p] \in members[t] \ {p, top[t]}
                /\ \A p, q \in members[t] \ {t} :
                       parent[p] = parent[q] => p = q
============================================================================
