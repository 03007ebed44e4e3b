----------------------------- MODULE RtcProofs -----------------------------
(***************************************************************************)
(* The virtual clock for any number of terminals and any physical rate.    *)
(* Types hold however ticks tear rtc_handler.  Until the first tear, no    *)
(* read returns early and none loses an interrupt; the invariant behind it *)
(* follows the handler through the terminals: the counts it has passed are *)
(* what is owed, the others are one ahead.                                 *)
(*                                                                         *)
(* The second half is about the program that lives on the clock's ticks:   *)
(* the list of blinks of fish, for any number of structures.  Its          *)
(* invariant names the list: a sequence of structures without repetition   *)
(* that begins at the head and follows next, and has exactly the ones in   *)
(* use.  By the pigeonhole principle it is no longer than the array, so    *)
(* the walk of NumStructs steps sees all of it.                            *)
(*                                                                         *)
(* The third part is about the pictures of fish, for any two files: where  *)
(* add_frames reads each of them is the row and column it is at, or the    *)
(* picture is blank from there on, in the row or to the end (PictureOk),   *)
(* and the blinks added are those of all places passed.                    *)
(***************************************************************************)
EXTENDS Rtc, Blink, Frames, FiniteSetTheorems, WellFoundedInduction, TLAPS

\* Rates that rtc_write accepts give a count of at least one interrupt.
LEMMA PeriodPositive ==
    ASSUME NEW rate \in Nat, rate >= 2, rate <= PhysicalRate
    PROVE  Period(rate) \in Nat /\ Period(rate) >= 1
  <1>1. PhysicalRate \in Nat
    BY RtcAssumption
  <1>2. PhysicalRate = rate * (PhysicalRate \div rate) + (PhysicalRate % rate)
        /\ PhysicalRate % rate \in 0 .. rate - 1 /\ PhysicalRate \div rate \in Int
    BY <1>1
  <1>3. PhysicalRate \div rate >= 1
    <2>1. ASSUME NEW q \in Int, NEW m \in 0 .. rate - 1,
                 PhysicalRate = rate * q + m, q <= 0
          PROVE  FALSE
      <3>1. rate * q <= 0
        BY <2>1
      <3>2. QED
        BY <1>1, <2>1, <3>1
    <2>2. QED
      BY <1>2, <2>1
  <1>4. QED
    BY <1>2, <1>3 DEF Period

----------------------------------------------------------------------------
(* Types, whatever ticks do *)

\* The handler is at a terminal, and lowers only what is above zero.
HandlerSane ==
    /\ handler.at # "idle" => handler.idx \in Terminals
    /\ handler.at = "load" => virtual_count[handler.idx] > 0
    /\ handler.at = "store" => handler.reg > 0

TInv == TypeOK /\ HandlerSane

\* Terminals are 1, 2, ..., NumTerminals.
LEMMA TerminalFacts ==
    /\ Terminals \subseteq Nat \ {0}
    /\ 1 \in Terminals
    /\ \A t \in Terminals : t # NumTerminals => t + 1 \in Terminals
  BY RtcAssumption DEF Terminals

\* The order on terminals, for steps whose other facts are not arithmetic.
LEMMA NatOrder ==
    \A a, b \in Nat : /\ a < b + 1 <=> a <= b
                      /\ a # b => (a < b <=> a <= b)
  OBVIOUS

\* The handler's next place is typed, and at a terminal if it goes on.
LEMMA AdvanceTyped ==
    ASSUME TypeOK, handler.idx \in Terminals
    PROVE  /\ Advance \in [at : {"idle", "test"}, owner : Terminals \cup {0},
                           idx : Terminals \cup {0}, reg : Nat]
           /\ Advance.at # "idle" => Advance.idx \in Terminals
  <1>1. CASE handler.idx = NumTerminals
    BY <1>1 DEF Advance, Idle
  <1>2. CASE handler.idx # NumTerminals
    BY <1>2, TerminalFacts DEF Advance, TypeOK
  <1>3. QED
    BY <1>1, <1>2

\* The counters start at zero, with no interrupt under way.
LEMMA TInvInit == Init => TInv
  <1> SUFFICES ASSUME Init
               PROVE  TInv
    OBVIOUS
  <1>1. virtual_rate \in [Terminals -> {r \in Nat : r >= 2 /\ r <= PhysicalRate}]
    BY RtcAssumption DEF Init
  <1>2. handler \in [at : {"idle", "test", "load", "store"},
                     owner : Terminals \cup {0}, idx : Terminals \cup {0}, reg : Nat]
    BY DEF Init, Idle
  <1>3. TypeOK
    BY <1>1, <1>2, TerminalFacts DEF Init, TypeOK
  <1>4. HandlerSane
    BY DEF Init, HandlerSane, Idle
  <1>5. QED
    BY <1>3, <1>4 DEF TInv

\* Types and the state of rtc_handler are kept by every step.
LEMMA TInvStep == TInv /\ [Next]_vars => TInv'
  <1> SUFFICES ASSUME TInv, [Next]_vars
               PROVE  TInv'
    OBVIOUS
  <1> USE DEF TInv
  <1>1. ASSUME NEW t \in Terminals, OpenRtc(t)
        PROVE  TInv'
    BY <1>1 DEF OpenRtc, TypeOK, HandlerSane
  <1>2. ASSUME NEW t \in Terminals, CloseRtc(t)
        PROVE  TInv'
    BY <1>2 DEF CloseRtc, TypeOK, HandlerSane
  <1>3. ASSUME NEW t \in Terminals, rtc_read(t)
        PROVE  TInv'
    <2>1. Period(virtual_rate[t]) \in Nat /\ Period(virtual_rate[t]) >= 1
      BY PeriodPositive DEF TypeOK
    <2>2. QED
      BY <1>3, <2>1 DEF rtc_read, TypeOK, HandlerSane
  <1>4. ASSUME NEW t \in Terminals, rtc_read_returns(t)
        PROVE  TInv'
    BY <1>4 DEF rtc_read_returns, TypeOK, HandlerSane
  <1>5. ASSUME NEW t \in Terminals, NEW rate \in Requests, rtc_write(t, rate)
        PROVE  TInv'
    <2>1. rate \in Nat /\ rate >= 2 /\ rate <= PhysicalRate
      BY <1>5, RtcAssumption DEF rtc_write, Acceptable
    <2>2. Period(rate) \in Nat /\ Period(rate) >= 1
      BY <2>1, PeriodPositive
    <2>3. QED
      BY <1>5, <2>1, <2>2 DEF rtc_write, TypeOK, HandlerSane
  <1>6. CASE ClockFires
    BY <1>6 DEF ClockFires, TypeOK, HandlerSane
  <1>7. CASE HandlerEnter
    <2>1. handler' \in [at : {"test"}, owner : Terminals, idx : Terminals, reg : Nat]
      BY <1>7, TerminalFacts DEF HandlerEnter, TypeOK
    <2>2. owed' \in [Terminals -> Nat]
      BY <1>7 DEF HandlerEnter, TypeOK
    <2>3. TypeOK'
      BY <1>7, <2>1, <2>2 DEF HandlerEnter, TypeOK
    <2>4. QED
      BY <2>1, <2>3 DEF HandlerSane
  <1>8. CASE HandlerTest
    BY <1>8, AdvanceTyped DEF HandlerTest, HandlerOnCpu, TypeOK, HandlerSane
  <1>9. CASE HandlerLoad
    BY <1>9 DEF HandlerLoad, HandlerOnCpu, TypeOK, HandlerSane
  <1>10. CASE HandlerStore
    BY <1>10, AdvanceTyped DEF HandlerStore, HandlerOnCpu, TypeOK, HandlerSane
  <1>11. CASE Tick
    BY <1>11, TerminalFacts DEF Tick, TypeOK, HandlerSane
  <1>12. CASE UNCHANGED vars
    BY <1>12 DEF vars, TypeOK, HandlerSane
  <1>13. QED
    BY <1>1, <1>2, <1>3, <1>4, <1>5, <1>6, <1>7, <1>8, <1>9, <1>10, <1>11,
       <1>12 DEF Next, HandlerStep

\* Types are kept, and a count never goes below zero, however the decrements
\* of rtc_handler, the system calls and the ticks interleave.
THEOREM TypeCorrect == Spec => []TypeOK
  <1>1. TInv => TypeOK
    BY DEF TInv
  <1>2. QED
    BY TInvInit, TInvStep, <1>1, PTL DEF Spec

----------------------------------------------------------------------------
(* Counting, when no tick suspends the handler *)

\* The handler runs on the stack of the process that has the CPU, so that no
\* system call is made before it is done.
HandlerHere == handler = Idle \/ (handler.at # "idle" /\ handler.owner = active_terminal)

\* What was loaded is still there when it is stored.
LoadedIsCurrent == handler.at = "store" => handler.reg = virtual_count[handler.idx]

\* Terminals that the handler has passed, all of them if it is idle, have
\* their counts right; those it will still visit are one ahead.
Passed(t) == handler = Idle \/ t < handler.idx
Progress ==
    \A t \in Terminals : reading[t] =>
        IF Passed(t) THEN virtual_count[t] = owed[t]
        ELSE \/ virtual_count[t] = owed[t] + 1
             \/ virtual_count[t] = 0 /\ owed[t] = 0

CInv == TInv /\ HandlerHere /\ LoadedIsCurrent /\ Progress

\* Nobody reads at first, so nothing is owed.
LEMMA CInvInit == Init => CInv
  BY TInvInit DEF Init, CInv, HandlerHere, LoadedIsCurrent, Progress, Idle

\* What the handler does at a terminal it leaves brings that count into line.
LEMMA ProgressAdvance ==
    ASSUME CInv, handler.at # "idle", handler' = Advance,
           UNCHANGED <<active_terminal, reading, owed>>,
           \A t \in Terminals \ {handler.idx} : virtual_count'[t] = virtual_count[t],
           reading[handler.idx] => virtual_count'[handler.idx] = owed[handler.idx]
    PROVE  HandlerHere' /\ LoadedIsCurrent' /\ Progress'
  <1> USE DEF CInv, TInv, Idle
  <1>1. handler.idx \in Terminals /\ handler # Idle
    BY DEF HandlerSane
  <1>2. CASE handler.idx = NumTerminals
    BY <1>1, <1>2, RtcAssumption
    DEF Advance, HandlerHere, LoadedIsCurrent, Progress, Passed, TypeOK, Terminals
  <1>3. CASE handler.idx # NumTerminals
    <2>1. /\ handler'.at = "test" /\ handler'.idx = handler.idx + 1
          /\ handler'.owner = handler.owner
      BY <1>3 DEF Advance, TypeOK
    <2>2. HandlerHere' /\ LoadedIsCurrent'
      BY <1>1, <2>1 DEF HandlerHere, LoadedIsCurrent
    <2>3. Progress'
      <3> SUFFICES ASSUME NEW t \in Terminals, reading'[t]
                   PROVE  IF Passed(t)' THEN virtual_count'[t] = owed'[t]
                          ELSE \/ virtual_count'[t] = owed'[t] + 1
                               \/ virtual_count'[t] = 0 /\ owed'[t] = 0
        BY DEF Progress
      <3>1. handler' # Idle /\ (Passed(t)' <=> t <= handler.idx)
        <4>1. handler' # Idle
          BY <2>1
        <4>2. t < handler.idx + 1 <=> t <= handler.idx
          BY <1>1, TerminalFacts, NatOrder
        <4>3. QED
          BY <2>1, <4>1, <4>2 DEF Passed
      <3>2. Passed(t) <=> t < handler.idx
        BY <1>1 DEF Passed
      <3>3. CASE t = handler.idx
        BY <3>1, <3>3, TerminalFacts
      <3>4. CASE t # handler.idx
        <4>0. t < handler.idx <=> t <= handler.idx
          BY <1>1, <3>4, TerminalFacts, NatOrder
        <4>1. Passed(t)' <=> Passed(t)
          BY <3>1, <3>2, <4>0 DEF Passed
        <4>2. virtual_count'[t] = virtual_count[t] /\ owed'[t] = owed[t] /\ reading[t]
          BY <3>4
        <4>3. IF Passed(t) THEN virtual_count[t] = owed[t]
              ELSE \/ virtual_count[t] = owed[t] + 1
                   \/ virtual_count[t] = 0 /\ owed[t] = 0
          BY <4>2 DEF Progress
        <4>4. QED
          BY <4>1, <4>2, <4>3
      <3>5. QED
        BY <3>3, <3>4
    <2>4. QED
      BY <2>2, <2>3
  <1>4. QED
    BY <1>2, <1>3

\* Counting is kept while no tick comes inside rtc_handler.
LEMMA CInvStep == ASSUME CInv, [Next]_vars, ~torn'
                  PROVE  CInv'
  <1> USE DEF CInv
  <1>0. TInv'
    BY TInvStep
  <1>a. ASSUME NEW t \in Terminals, Runs(t)
        PROVE  handler = Idle
    BY <1>a DEF HandlerHere, Runs
  <1>1. ASSUME NEW t \in Terminals, OpenRtc(t)
        PROVE  CInv'
    BY <1>0, <1>1 DEF OpenRtc, HandlerHere, LoadedIsCurrent, Progress, Passed
  <1>2. ASSUME NEW t \in Terminals, CloseRtc(t)
        PROVE  CInv'
    BY <1>0, <1>2 DEF CloseRtc, HandlerHere, LoadedIsCurrent, Progress, Passed
  <1>3. ASSUME NEW t \in Terminals, rtc_read(t)
        PROVE  CInv'
    <2>1. handler = Idle
      BY <1>a, <1>3 DEF rtc_read
    <2>2. QED
      BY <1>0, <1>3, <2>1 DEF rtc_read, HandlerHere, LoadedIsCurrent, Progress,
         Passed, TInv, TypeOK, Idle
  <1>4. ASSUME NEW t \in Terminals, rtc_read_returns(t)
        PROVE  CInv'
    BY <1>0, <1>4 DEF rtc_read_returns, HandlerHere, LoadedIsCurrent, Progress,
       Passed, TInv, TypeOK
  <1>5. ASSUME NEW t \in Terminals, NEW rate \in Requests, rtc_write(t, rate)
        PROVE  CInv'
    <2>1. handler = Idle
      BY <1>a, <1>5 DEF rtc_write
    <2>2. QED
      BY <1>0, <1>5, <2>1 DEF rtc_write, HandlerHere, LoadedIsCurrent, Progress,
         Passed, TInv, TypeOK, Idle
  <1>6. CASE ClockFires
    BY <1>0, <1>6 DEF ClockFires, HandlerHere, LoadedIsCurrent, Progress, Passed
  <1>7. CASE HandlerEnter
    <2>1. handler = Idle /\ handler'.at = "test" /\ handler'.idx = 1
          /\ handler'.owner = active_terminal
      BY <1>7 DEF HandlerEnter
    <2>2. HandlerHere' /\ LoadedIsCurrent'
      BY <1>7, <2>1 DEF HandlerEnter, HandlerHere, LoadedIsCurrent
    <2>3. Progress'
      BY <1>7, <2>1, RtcAssumption
      DEF HandlerEnter, Progress, Passed, TInv, TypeOK, Terminals, Idle
    <2>4. QED
      BY <1>0, <2>2, <2>3
  <1>8. CASE HandlerTest
    <2>1. handler.at = "test" /\ handler.idx \in Terminals /\ handler # Idle
      BY <1>8 DEF HandlerTest, HandlerOnCpu, TInv, HandlerSane, Idle
    <2>2. CASE virtual_count[handler.idx] > 0
      BY <1>0, <1>8, <2>1, <2>2
      DEF HandlerTest, HandlerOnCpu, HandlerHere, LoadedIsCurrent, Progress,
          Passed, TInv, TypeOK, Idle
    <2>3. CASE ~(virtual_count[handler.idx] > 0)
      <3>1. virtual_count[handler.idx] = 0
        BY <2>1, <2>3 DEF TInv, TypeOK
      <3>2. reading[handler.idx] => owed[handler.idx] = 0
        BY <2>1, <3>1 DEF Progress, Passed, TInv, TypeOK, Terminals
      <3>3. QED
        BY <1>0, <1>8, <2>1, <2>3, <3>1, <3>2, ProgressAdvance DEF HandlerTest
    <2>4. QED
      BY <2>2, <2>3
  <1>9. CASE HandlerLoad
    <2>1. handler.at = "load" /\ handler # Idle
      BY <1>9 DEF HandlerLoad, HandlerOnCpu, Idle
    <2>2. /\ handler'.at = "store" /\ handler'.reg = virtual_count[handler.idx]
          /\ handler'.idx = handler.idx /\ handler'.owner = handler.owner
      BY <1>9 DEF HandlerLoad, TInv, TypeOK
    <2>3. handler' # Idle
      BY <2>2 DEF Idle
    <2>4. HandlerHere' /\ LoadedIsCurrent'
      BY <1>9, <2>1, <2>2 DEF HandlerLoad, HandlerHere, LoadedIsCurrent
    <2>5. Progress'
      BY <1>9, <2>1, <2>2, <2>3 DEF HandlerLoad, Progress, Passed
    <2>6. QED
      BY <1>0, <2>4, <2>5
  <1>10. CASE HandlerStore
    <2>1. handler.at = "store" /\ handler.idx \in Terminals /\ handler # Idle
      BY <1>10 DEF HandlerStore, HandlerOnCpu, TInv, HandlerSane, Idle
    <2>2. handler.reg = virtual_count[handler.idx] /\ virtual_count[handler.idx] > 0
      BY <2>1 DEF LoadedIsCurrent, TInv, HandlerSane
    <2>3. reading[handler.idx] => virtual_count[handler.idx] = owed[handler.idx] + 1
      BY <2>1, <2>2 DEF Progress, Passed, TInv, TypeOK, Terminals
    <2>4. reading[handler.idx] => virtual_count'[handler.idx] = owed[handler.idx]
      BY <1>10, <2>1, <2>2, <2>3 DEF HandlerStore, TInv, TypeOK
    <2>5. \A t \in Terminals \ {handler.idx} : virtual_count'[t] = virtual_count[t]
      BY <1>10 DEF HandlerStore, TInv, TypeOK
    <2>6. QED
      BY <1>0, <1>10, <2>1, <2>4, <2>5, ProgressAdvance DEF HandlerStore
  <1>11. CASE Tick
    BY <1>0, <1>11 DEF Tick, HandlerHere, LoadedIsCurrent, Progress, Passed, Idle
  <1>12. CASE UNCHANGED vars
    BY <1>0, <1>12 DEF vars, HandlerHere, LoadedIsCurrent, Progress, Passed
  <1>13. QED
    BY <1>1, <1>2, <1>3, <1>4, <1>5, <1>6, <1>7, <1>8, <1>9, <1>10, <1>11,
       <1>12 DEF Next, HandlerStep

\* Counting holds until the first tear, and a tear is never forgotten.
JInv == TInv /\ (~torn => CInv)

\* Nothing is torn at first.
LEMMA JInvInit == Init => JInv
  BY TInvInit, CInvInit DEF JInv

\* Only a tick inside rtc_handler ends the counting.
LEMMA JInvStep == JInv /\ [Next]_vars => JInv'
  <1> SUFFICES ASSUME JInv, [Next]_vars
               PROVE  JInv'
    OBVIOUS
  <1>1. TInv'
    BY TInvStep DEF JInv
  <1>2. torn => torn'
    BY DEF Next, OpenRtc, CloseRtc, rtc_read, rtc_read_returns, rtc_write, ClockFires,
       HandlerEnter, HandlerStep, HandlerTest, HandlerLoad, HandlerStore, Tick, vars
  <1>3. ~torn' => CInv'
    BY <1>2, CInvStep DEF JInv
  <1>4. QED
    BY <1>1, <1>3 DEF JInv

\* While no tick has suspended rtc_handler, rtc_read is released only after
\* all the interrupts its rate asks for.
THEOREM ReadsWaitLongEnough == Spec => []NoEarlyReturn
  <1>1. JInv => NoEarlyReturn
    BY DEF JInv, CInv, TInv, TypeOK, Progress, Passed, NoEarlyReturn, NeverEarly
  <1>2. QED
    BY JInvInit, JInvStep, <1>1, PTL DEF Spec

\* While no tick has suspended rtc_handler, it counts every interrupt exactly
\* once for every polling read.
THEOREM EveryInterruptCounted == Spec => []CountIsOwed
  <1>1. JInv => CountIsOwed
    BY DEF JInv, CInv, Progress, Passed, CountIsOwed
  <1>2. QED
    BY JInvInit, JInvStep, <1>1, PTL DEF Spec

----------------------------------------------------------------------------
(* Numbers *)

\* The least-number principle, for a set of numbers.
LEMMA LeastNat ==
    ASSUME NEW T, T \subseteq Nat, T # {}
    PROVE  \E m \in T : \A k \in T : m <= k
  <1> DEFINE R == {ss \in Nat \X Nat : ss[1] < ss[2]}
  <1>1. OpToRel(<, Nat) = R
    BY Zenon DEF OpToRel
  <1>2. IsWellFoundedOn(R, Nat)
    BY <1>1, NatLessThanWellFounded, Zenon
  <1>3. \E x \in T : \A y \in T : ~ (<<y, x>> \in R)
    <2> HIDE DEF R
    <2> QED BY <1>2, WFMin
  <1>4. PICK m \in T : \A y \in T : ~ (<<y, m>> \in R)
    BY <1>3
  <1>5. \A k \in T : ~ (k < m)
    <2> SUFFICES ASSUME NEW k \in T, k < m PROVE FALSE
      OBVIOUS
    <2>1. <<k, m>> \in Nat \X Nat /\ <<k, m>>[1] < <<k, m>>[2]
      OBVIOUS
    <2>2. <<k, m>> \in R
      BY <2>1
    <2>3. QED
      BY <1>4, <2>2
  <1>6. QED
    BY <1>5

\* A set of numbers up to n has a greatest one.
LEMMA GreatestNat ==
    ASSUME NEW n \in Nat, NEW T, T \subseteq 0 .. n, T # {}
    PROVE  \E m \in T : \A k \in T : k <= m
  <1>. DEFINE U == {n - k : k \in T}
  <1>1. U \subseteq Nat /\ U # {}
    <2>1. \A k \in T : n - k \in Nat
      OBVIOUS
    <2>2. PICK k \in T : TRUE
      OBVIOUS
    <2>3. n - k \in U
      OBVIOUS
    <2>4. QED BY <2>1, <2>3
  <1>2. PICK u \in U : \A v \in U : u <= v
    <2>. HIDE DEF U
    <2>1. QED BY <1>1, LeastNat
  <1>3. PICK m \in T : u = n - m
    BY <1>2
  <1>4. \A k \in T : n - m <= n - k
    BY <1>2, <1>3
  <1>5. \A k \in T : k <= m
    BY <1>4
  <1>6. QED BY <1>5

----------------------------------------------------------------------------
(* The list *)

Blinks == [location : Nat, on_length : Nat, off_length : Nat, countdown : Nat,
           status : {0, 1}, next : Structs \cup {NULL}]

BlinkTypes ==
    /\ blink_array \in [Structs -> Blinks]
    /\ mp1_list_head \in Structs \cup {NULL}
    /\ vmem \in [0 .. ScreenSize - 1 -> (Structs \cup {NULL}) \X {"on", "off"}]
    /\ \A i \in Structs : blink_array[i].location # 0 =>
           blink_array[i].location \in 0 .. ScreenSize - 1

\* The list is s[1], ..., s[n], without repetition.
Linked(n, s, arr, head) ==
    /\ \A j, k \in 1 .. n : s[j] = s[k] => j = k
    /\ head = IF n = 0 THEN NULL ELSE s[1]
    /\ \A k \in 1 .. n : arr[s[k]].next = IF k = n THEN NULL ELSE s[k + 1]
Holds(n, s, arr) == \A i \in Structs : (\E k \in 1 .. n : s[k] = i) <=> arr[i].location # 0
IsList(n, s) == Linked(n, s, blink_array, mp1_list_head) /\ Holds(n, s, blink_array)
ListInv == \E n \in Nat : \E s \in [1 .. n -> Structs] : IsList(n, s)

LEMMA StructFacts == NumStructs \in Nat /\ NULL \notin Structs /\ ScreenSize \in Nat
  BY BlinkAssumption DEF Structs, NULL

\* A list without repetition is no longer than the array.
LEMMA ListFits ==
    ASSUME NEW n \in Nat, NEW s \in [1 .. n -> Structs],
           \A j, k \in 1 .. n : s[j] = s[k] => j = k
    PROVE  n <= NumStructs
  <1>1. IsFiniteSet(1 .. n) /\ Cardinality(1 .. n) = n
    BY FS_Interval
  <1>2. IsFiniteSet(Structs) /\ Cardinality(Structs) = NumStructs
    BY StructFacts, FS_Interval DEF Structs
  <1>3. ASSUME NumStructs < n PROVE FALSE
    <2>1. \E x, y \in 1 .. n : x # y /\ s[x] = s[y]
      BY <1>1, <1>2, <1>3, FS_PigeonHole
    <2>2. QED BY <2>1
  <1>4. QED BY <1>3, StructFacts

\* Where the walk along next gets.
LEMMA WalkIs ==
    ASSUME NEW n \in Nat, NEW s \in [1 .. n -> Structs], IsList(n, s)
    PROVE  /\ n <= NumStructs
           /\ Walk(NumStructs) = [k \in 0 .. NumStructs |-> IF k < n THEN s[k + 1] ELSE NULL]
  <1>. PICK N \in Nat : N = NumStructs
    BY StructFacts
  <1>0. n <= N
    BY ListFits DEF IsList, Linked
  <1>. DEFINE body(f) == [k \in 0 .. N |-> IF k = 0 THEN mp1_list_head
                                           ELSE IF f[k - 1] = NULL THEN NULL
                                           ELSE blink_array[f[k - 1]].next]
              at == CHOOSE f : f = body(f)
              w == [k \in 0 .. N |-> IF k < n THEN s[k + 1] ELSE NULL]
  <1>1. Walk(NumStructs) = at
    BY DEF Walk
  <1>2. w[0] = mp1_list_head
    BY DEF IsList, Linked
  <1>3. ASSUME NEW k \in 1 .. N
        PROVE  w[k] = IF w[k - 1] = NULL THEN NULL ELSE blink_array[w[k - 1]].next
    <2>1. k - 1 \in 0 .. N /\ k \in 0 .. N
      OBVIOUS
    <2>2. CASE k - 1 < n
      <3>1. k \in 1 .. n /\ w[k - 1] = s[k] /\ s[k] \in Structs
        BY <2>1, <2>2
      <3>2. blink_array[s[k]].next = IF k = n THEN NULL ELSE s[k + 1]
        BY <3>1 DEF IsList, Linked
      <3>3. w[k] = IF k = n THEN NULL ELSE s[k + 1]
        BY <3>1, <2>1
      <3>4. QED BY <3>1, <3>2, <3>3, StructFacts
    <2>3. CASE ~(k - 1 < n)
      <3>1. w[k - 1] = NULL /\ w[k] = NULL
        BY <2>1, <2>3
      <3>2. QED BY <3>1
    <2>4. QED BY <2>2, <2>3
  <1>4. w = body(w)
    <2>1. ASSUME NEW k \in 0 .. N
          PROVE  w[k] = IF k = 0 THEN mp1_list_head
                        ELSE IF w[k - 1] = NULL THEN NULL ELSE blink_array[w[k - 1]].next
      <3>. HIDE DEF w
      <3>1. CASE k = 0
        BY <3>1, <1>2
      <3>2. CASE k # 0
        <4>1. k \in 1 .. N
          BY <3>2
        <4>2. QED BY <4>1, <3>2, <1>3
      <3>3. QED BY <3>1, <3>2
    <2>2. w = [k \in 0 .. N |-> w[k]]
      OBVIOUS
    <2>. HIDE DEF w
    <2>3. QED BY <2>1, <2>2
  <1>5. at = body(at)
    <2>. HIDE DEF w, body
    <2>1. \E f : f = body(f)
      BY <1>4, Zenon
    <2>2. QED BY <2>1, Zenon
  <1>6. at[0] = mp1_list_head /\ \A k \in 1 .. N :
            at[k] = IF at[k - 1] = NULL THEN NULL ELSE blink_array[at[k - 1]].next
    <2>. HIDE DEF at
    <2>1. ASSUME NEW k \in 0 .. N PROVE at[k] = body(at)[k]
      BY <1>5
    <2>2. ASSUME NEW k \in 0 .. N
          PROVE  at[k] = IF k = 0 THEN mp1_list_head
                         ELSE IF at[k - 1] = NULL THEN NULL ELSE blink_array[at[k - 1]].next
      BY <2>1
    <2>. HIDE DEF body
    <2>3. at[0] = mp1_list_head
      BY <2>2
    <2>4. ASSUME NEW k \in 1 .. N
          PROVE  at[k] = IF at[k - 1] = NULL THEN NULL ELSE blink_array[at[k - 1]].next
      <3>1. k \in 0 .. N /\ k # 0
        OBVIOUS
      <3>2. QED BY <3>1, <2>2
    <2>5. QED BY <2>3, <2>4
  <1>7. at = [k \in 0 .. N |-> at[k]]
    <2>1. DOMAIN body(at) = 0 .. N /\ body(at) = [k \in 0 .. N |-> body(at)[k]]
      <3>. HIDE DEF at
      <3>1. QED OBVIOUS
    <2>. HIDE DEF at, body
    <2>2. QED BY <2>1, <1>5
  <1>. HIDE DEF at, w
  <1>8. \A k \in 0 .. N : at[k] = w[k]
    <2>. DEFINE T == {k \in 0 .. N : at[k] # w[k]}
    <2>. SUFFICES ASSUME T # {} PROVE FALSE
      OBVIOUS
    <2>1. PICK m \in T : \A k \in T : m <= k
      <3>1. T \subseteq Nat
        OBVIOUS
      <3>. HIDE DEF T
      <3>2. QED BY <3>1, LeastNat
    <2>2. CASE m = 0
      BY <2>2, <2>1, <1>2, <1>6
    <2>3. CASE m # 0
      <3>1. m \in 1 .. N /\ m - 1 \in 0 .. N /\ ~(m <= m - 1)
        BY <2>1, <2>3
      <3>2. at[m - 1] = w[m - 1]
        BY <2>1, <3>1
      <3>3. at[m] = w[m]
        BY <3>1, <3>2, <1>3, <1>6
      <3>4. QED BY <2>1, <3>3
    <2>4. QED BY <2>2, <2>3
  <1>9. at = w
    <2>1. w = [k \in 0 .. N |-> w[k]]
      BY DEF w
    <2>2. QED BY <2>1, <1>7, <1>8
  <1>10. QED BY <1>0, <1>1, <1>9 DEF w

\* What is listed, and that the list ends.
LEMMA ListedIs ==
    ASSUME NEW n \in Nat, NEW s \in [1 .. n -> Structs], IsList(n, s)
    PROVE  /\ Listed = {i \in Structs : \E k \in 1 .. n : s[k] = i}
           /\ Listed = {i \in Structs : blink_array[i].location # 0}
           /\ Walk(NumStructs)[NumStructs] = NULL
  <1>. PICK N \in Nat : N = NumStructs
    BY StructFacts
  <1>1. n <= N /\ Walk(N) = [k \in 0 .. N |-> IF k < n THEN s[k + 1] ELSE NULL]
    BY WalkIs
  <1>2. Walk(N)[N] = NULL
    BY <1>1
  <1>. DEFINE L == {i \in Structs : \E k \in 1 .. n : s[k] = i}
  <1>3. ASSUME NEW i \in Listed PROVE i \in L
    <2>1. PICK k \in 0 .. N : i = Walk(N)[k] /\ i # NULL
      BY <1>3 DEF Listed
    <2>2. k < n /\ i = s[k + 1]
      BY <1>1, <2>1
    <2>3. k + 1 \in 1 .. n /\ i \in Structs
      BY <2>2
    <2>4. QED BY <2>2, <2>3
  <1>4. ASSUME NEW i \in L PROVE i \in Listed
    <2>1. PICK k \in 1 .. n : s[k] = i
      BY <1>4
    <2>2. k - 1 \in 0 .. N /\ k - 1 < n /\ (k - 1) + 1 = k
      BY <1>1
    <2>3. Walk(N)[k - 1] = i /\ i # NULL
      BY <1>1, <2>1, <2>2, StructFacts
    <2>. HIDE DEF Walk
    <2>4. QED BY <2>2, <2>3 DEF Listed
  <1>5. Listed = L
    <2>. HIDE DEF L, Listed
    <2>1. QED BY <1>3, <1>4
  <1>6. L = {i \in Structs : blink_array[i].location # 0}
    BY DEF IsList, Holds
  <1>7. QED BY <1>2, <1>5, <1>6

LEMMA InUseFromInv == ASSUME ListInv PROVE ListIsInUse
  <1>0. PICK n \in Nat : \E s \in [1 .. n -> Structs] : IsList(n, s)
    BY DEF ListInv
  <1>1. PICK s \in [1 .. n -> Structs] : IsList(n, s)
    BY <1>0
  <1>2. QED BY <1>1, ListedIs DEF ListIsInUse

\* A structure that is found is on the list, at the location looked for.
LEMMA FindFacts ==
    ASSUME NEW n \in Nat, NEW s \in [1 .. n -> Structs], IsList(n, s), NEW location,
           mp1_find_helper(location) # NULL
    PROVE  /\ \E m \in 1 .. n : s[m] = mp1_find_helper(location)
           /\ mp1_find_helper(location) \in Structs
           /\ blink_array[mp1_find_helper(location)].location = location
           /\ location # 0
  <1>. PICK N \in Nat : N = NumStructs
    BY StructFacts
  <1>1. n <= N /\ Walk(N) = [k \in 0 .. N |-> IF k < n THEN s[k + 1] ELSE NULL]
    BY WalkIs
  <1>. DEFINE walk == Walk(N)
              hits == {k \in 0 .. N :
                          walk[k] # NULL /\ blink_array[walk[k]].location = location}
  <1>2. hits # {} /\ mp1_find_helper(location)
                         = walk[CHOOSE k \in hits : \A h \in hits : k <= h]
    BY DEF mp1_find_helper
  <1>3. PICK m \in hits : m = CHOOSE k \in hits : \A h \in hits : k <= h
    <2>1. hits \subseteq Nat
      OBVIOUS
    <2>. HIDE DEF hits
    <2>2. \E k \in hits : \A h \in hits : k <= h
      BY <1>2, <2>1, LeastNat
    <2>3. QED BY <2>2
  <1>4. PICK i : i = mp1_find_helper(location) /\ i = walk[m]
    <2>. HIDE DEF hits, walk, mp1_find_helper
    <2>1. QED BY <1>2, <1>3
  <1>5. i # NULL /\ blink_array[i].location = location /\ m \in 0 .. N
    BY <1>3, <1>4
  <1>6. m < n /\ i = s[m + 1]
    BY <1>1, <1>4, <1>5
  <1>7. m + 1 \in 1 .. n /\ i \in Structs
    BY <1>5, <1>6
  <1>8. location # 0
    BY <1>5, <1>6, <1>7 DEF IsList, Holds
  <1>. HIDE DEF mp1_find_helper
  <1>9. QED BY <1>4, <1>5, <1>6, <1>7, <1>8

\* A structure mp1_malloc gives is free.
LEMMA MallocFacts ==
    ASSUME mp1_malloc # NULL
    PROVE  mp1_malloc \in Structs /\ blink_array[mp1_malloc].location = 0
  <1>. DEFINE free == {i \in Structs : blink_array[i].location = 0}
  <1>1. free # {} /\ mp1_malloc = CHOOSE i \in free : \A j \in free : i <= j
    BY DEF mp1_malloc
  <1>2. free \subseteq Nat
    BY StructFacts DEF Structs
  <1>3. mp1_malloc \in free
    <2>. HIDE DEF free, mp1_malloc
    <2>1. \E i \in free : \A j \in free : i <= j
      BY <1>1, <1>2, LeastNat
    <2>2. QED BY <1>1, <2>1
  <1>. HIDE DEF mp1_malloc
  <1>4. QED BY <1>3

----------------------------------------------------------------------------
(* The steps *)

\* Blinks in step: now, and after every tick.
InStep(a, b) == /\ a.on_length = b.on_length /\ a.off_length = b.off_length
                /\ a.countdown = b.countdown /\ a.status = b.status

PartnersInStep ==
    \A p \in partners :
        /\ p[1] \in Structs /\ p[2] \in Structs
        /\ blink_array[p[1]].location # 0 /\ blink_array[p[2]].location # 0
        /\ InStep(blink_array[p[1]], blink_array[p[2]])

Shows(b) == IF b.status = 1 THEN "on" ELSE "off"
SeenRight ==
    \A i \in Structs : blink_array[i].location # 0 /\ vmem[blink_array[i].location][1] = i
        => vmem[blink_array[i].location][2] = Shows(blink_array[i])

BlinkInv == BlinkTypes /\ ListInv /\ PartnersInStep /\ SeenRight

LEMMA CopiedFacts ==
    ASSUME NEW a \in Blinks, NEW b \in Blinks
    PROVE  /\ Copied(a, b) \in Blinks /\ InStep(b, Copied(a, b))
           /\ Copied(a, b).location = a.location /\ Copied(a, b).next = a.next
  BY DEF Copied, Blinks, InStep

LEMMA TickedFacts ==
    ASSUME NEW b \in Blinks
    PROVE  /\ Ticked(b) \in Blinks
           /\ Ticked(b).location = b.location /\ Ticked(b).next = b.next
           /\ Ticked(b).on_length = b.on_length /\ Ticked(b).off_length = b.off_length
           /\ Ticked(b).status = IF Expired(b) THEN 1 - b.status ELSE b.status
           /\ Ticked(b).countdown = IF ~Expired(b) THEN b.countdown - 1
                                    ELSE IF b.status = 1 THEN b.off_length ELSE b.on_length
  <1>1. b.countdown \in Nat /\ b.status \in {0, 1} /\ b.on_length \in Nat /\ b.off_length \in Nat
    BY DEF Blinks
  <1>2. CASE Expired(b)
    <2>1. PICK c \in Nat : c = IF b.status = 1 THEN b.off_length ELSE b.on_length
      BY <1>1
    <2>2. PICK t \in {0, 1} : t = 1 - b.status
      BY <1>1
    <2>3. Ticked(b) = [b EXCEPT !.countdown = c, !.status = t]
      BY <1>2, <2>1, <2>2 DEF Ticked
    <2>4. QED BY <1>2, <2>1, <2>2, <2>3 DEF Blinks
  <1>3. CASE ~Expired(b)
    <2>1. PICK c \in Nat : c = b.countdown - 1
      BY <1>1, <1>3 DEF Expired
    <2>2. Ticked(b) = [b EXCEPT !.countdown = c]
      BY <1>3, <2>1 DEF Ticked
    <2>3. QED BY <1>3, <2>1, <2>2 DEF Blinks
  <1>4. QED BY <1>2, <1>3

LEMMA TickedInStep ==
    ASSUME NEW a \in Blinks, NEW b \in Blinks, InStep(a, b)
    PROVE  InStep(Ticked(a), Ticked(b))
  <1>1. Expired(a) <=> Expired(b)
    BY DEF InStep, Expired
  <1>2. QED BY <1>1, TickedFacts DEF InStep

\* Steps that move no links and no locations leave the list as it is.
LEMMA SameLinks ==
    ASSUME ListInv, mp1_list_head' = mp1_list_head,
           \A i \in Structs : /\ blink_array'[i].next = blink_array[i].next
                              /\ blink_array'[i].location = blink_array[i].location
    PROVE  ListInv'
  <1>0. PICK n \in Nat : \E s \in [1 .. n -> Structs] : IsList(n, s)
    BY DEF ListInv
  <1>1. PICK s \in [1 .. n -> Structs] : IsList(n, s)
    BY <1>0
  <1>2. Linked(n, s, blink_array', mp1_list_head') /\ Holds(n, s, blink_array')
    BY <1>1 DEF IsList, Linked, Holds
  <1>3. QED BY <1>2 DEF ListInv, IsList

LEMMA AddList ==
    ASSUME BlinkInv, NEW i \in Structs, blink_array[i].location = 0, NEW b \in Blinks,
           b.location # 0, b.next = mp1_list_head, mp1_list_head' = i,
           blink_array' = [blink_array EXCEPT ![i] = b]
    PROVE  ListInv'
  <1>0. PICK n \in Nat : \E s \in [1 .. n -> Structs] : IsList(n, s)
    BY DEF BlinkInv, ListInv
  <1>1. PICK s \in [1 .. n -> Structs] : IsList(n, s)
    BY <1>0
  <1>2. PICK m \in Nat : m = n + 1
    OBVIOUS
  <1>. DEFINE t == [k \in 1 .. m |-> IF k = 1 THEN i ELSE s[k - 1]]
  <1>3. blink_array'[i] = b /\ \A j \in Structs : j # i => blink_array'[j] = blink_array[j]
    BY DEF BlinkInv, BlinkTypes
  <1>4. \A k \in 1 .. n : s[k] # i /\ s[k] \in Structs
    BY <1>1 DEF IsList, Holds
  <1>5. /\ 1 \in 1 .. m /\ t[1] = i
        /\ \A k \in 2 .. m : k - 1 \in 1 .. n /\ t[k] = s[k - 1]
    BY <1>2
  <1>6. t \in [1 .. m -> Structs]
    BY <1>2, <1>4
  <1>. HIDE DEF t
  <1>7. \A j, k \in 1 .. m : t[j] = t[k] => j = k
    <2>. SUFFICES ASSUME NEW j \in 1 .. m, NEW k \in 1 .. m, t[j] = t[k] PROVE j = k
      OBVIOUS
    <2>1. CASE j = 1 \/ k = 1
      <3>1. ASSUME NEW h \in 1 .. m, t[h] = i PROVE h = 1
        <4>1. ASSUME h # 1 PROVE FALSE
          <5>1. h \in 2 .. m
            BY <4>1
          <5>2. QED BY <5>1, <3>1, <1>4, <1>5
        <4>2. QED BY <4>1
      <3>2. QED BY <2>1, <3>1, <1>5
    <2>2. CASE j # 1 /\ k # 1
      <3>1. j \in 2 .. m /\ k \in 2 .. m
        BY <2>2
      <3>2. s[j - 1] = s[k - 1] /\ j - 1 \in 1 .. n /\ k - 1 \in 1 .. n
        BY <3>1, <1>5
      <3>3. j - 1 = k - 1
        BY <3>2, <1>1 DEF IsList, Linked
      <3>4. QED BY <3>3
    <2>3. QED BY <2>1, <2>2
  <1>8. mp1_list_head' = IF m = 0 THEN NULL ELSE t[1]
    BY <1>2, <1>5
  <1>9. ASSUME NEW k \in 1 .. m
        PROVE  blink_array'[t[k]].next = IF k = m THEN NULL ELSE t[k + 1]
    <2>1. CASE k = 1
      <3>1. blink_array'[t[k]].next = IF n = 0 THEN NULL ELSE s[1]
        BY <2>1, <1>1, <1>3, <1>5 DEF IsList, Linked
      <3>2. CASE n = 0
        BY <3>1, <3>2, <2>1, <1>2
      <3>3. CASE n # 0
        <4>1. 2 \in 2 .. m /\ k + 1 = 2 /\ k # m /\ 2 - 1 = 1
          BY <3>3, <2>1, <1>2
        <4>2. t[2] = s[1]
          BY <4>1, <1>5
        <4>3. QED BY <4>1, <4>2, <3>1, <3>3
      <3>4. QED BY <3>2, <3>3
    <2>2. CASE k # 1
      <3>1. k \in 2 .. m /\ k - 1 \in 1 .. n
        BY <2>2, <1>2
      <3>2. t[k] = s[k - 1] /\ blink_array'[t[k]] = blink_array[s[k - 1]]
        BY <3>1, <1>3, <1>4, <1>5
      <3>3. blink_array[s[k - 1]].next = IF k - 1 = n THEN NULL ELSE s[(k - 1) + 1]
        BY <3>1, <1>1 DEF IsList, Linked
      <3>4. CASE k = m
        BY <3>2, <3>3, <3>4, <1>2
      <3>5. CASE k # m
        <4>1. k + 1 \in 2 .. m /\ (k + 1) - 1 = (k - 1) + 1 /\ k - 1 # n
          BY <3>1, <3>5, <1>2
        <4>2. t[k + 1] = s[(k - 1) + 1]
          BY <4>1, <1>5
        <4>3. QED BY <4>1, <4>2, <3>2, <3>3, <3>5
      <3>6. QED BY <3>4, <3>5
    <2>3. QED BY <2>1, <2>2
  <1>10. ASSUME NEW j \in Structs
         PROVE  (\E k \in 1 .. m : t[k] = j) <=> blink_array'[j].location # 0
    <2>1. CASE j = i
      BY <2>1, <1>3, <1>5
    <2>2. CASE j # i
      <3>1. ASSUME NEW k \in 1 .. m, t[k] = j PROVE \E h \in 1 .. n : s[h] = j
        <4>1. k \in 2 .. m
          <5>1. k # 1
            BY <3>1, <2>2, <1>5
          <5>2. QED BY <5>1
        <4>2. QED BY <4>1, <3>1, <1>5
      <3>2. ASSUME NEW h \in 1 .. n, s[h] = j PROVE \E k \in 1 .. m : t[k] = j
        <4>1. h + 1 \in 2 .. m /\ (h + 1) - 1 = h /\ h + 1 \in 1 .. m
          BY <1>2
        <4>2. t[h + 1] = j
          BY <4>1, <3>2, <1>5
        <4>3. QED BY <4>1, <4>2
      <3>3. QED BY <2>2, <3>1, <3>2, <1>1, <1>3 DEF IsList, Holds
    <2>3. QED BY <2>1, <2>2
  <1>11. Linked(m, t, blink_array', mp1_list_head') /\ Holds(m, t, blink_array')
    BY <1>7, <1>8, <1>9, <1>10 DEF Linked, Holds
  <1>12. QED BY <1>6, <1>11 DEF ListInv, IsList

LEMMA RemoveList ==
    ASSUME BlinkInv, NEW location, RtcRemove(location)
    PROVE  ListInv' /\ mp1_list_head' \in Structs \cup {NULL}
  <1>0. PICK n \in Nat : \E s \in [1 .. n -> Structs] : IsList(n, s)
    BY DEF BlinkInv, ListInv
  <1>1. PICK s \in [1 .. n -> Structs] : IsList(n, s)
    BY <1>0
  <1>2. PICK m \in 1 .. n : s[m] = mp1_find_helper(location)
    BY <1>1, FindFacts DEF RtcRemove
  <1>3. PICK i \in Structs : i = s[m] /\ i = mp1_find_helper(location)
    BY <1>2
  <1>4. PICK past : past = blink_array[i].next /\ past = IF m = n THEN NULL ELSE s[m + 1]
    BY <1>1, <1>3 DEF IsList, Linked
  <1>5. \A j, k \in 1 .. n : s[j] = s[k] => j = k
    BY <1>1 DEF IsList, Linked
  <1>6. \A k \in 1 .. n : blink_array[s[k]].next = IF k = n THEN NULL ELSE s[k + 1]
    BY <1>1 DEF IsList, Linked
  <1>7. mp1_list_head' = IF mp1_list_head = i THEN past ELSE mp1_list_head
    BY <1>3, <1>4 DEF RtcRemove
  <1>8. blink_array' = [j \in Structs |->
              CASE j = i -> Free
                [] j # i /\ j \in Listed /\ blink_array[j].next = i ->
                       [blink_array[j] EXCEPT !.next = past]
                [] OTHER -> blink_array[j]]
    <2>. HIDE DEF mp1_find_helper, Listed
    <2>1. QED BY <1>3, <1>4 DEF RtcRemove
  <1>9. ASSUME NEW j \in Structs, j # i
        PROVE  /\ blink_array'[j].location = blink_array[j].location
               /\ blink_array'[j].next = IF j \in Listed /\ blink_array[j].next = i
                                         THEN past ELSE blink_array[j].next
    <2>. HIDE DEF Listed
    <2>1. blink_array[j] \in Blinks
      BY DEF BlinkInv, BlinkTypes
    <2>2. blink_array'[j] = IF j \in Listed /\ blink_array[j].next = i
                            THEN [blink_array[j] EXCEPT !.next = past]
                            ELSE blink_array[j]
      BY <1>8, <1>9
    <2>3. QED BY <2>1, <2>2 DEF Blinks
  <1>10. blink_array'[i].location = 0
    <2>1. blink_array'[i] = Free
      BY <1>8
    <2>2. QED BY <2>1 DEF Free
  <1>11. \A k \in 1 .. n : s[k] \in Listed
    BY <1>1, ListedIs
  <1>12. ASSUME NEW k \in 1 .. n, k # m
         PROVE  /\ s[k] # i /\ s[k] \in Structs
                /\ blink_array'[s[k]].next = IF k + 1 = m THEN past
                                             ELSE IF k = n THEN NULL ELSE s[k + 1]
    <2>1. s[k] # i /\ s[k] \in Structs
      BY <1>12, <1>3, <1>5
    <2>2. blink_array[s[k]].next = i <=> k + 1 = m
      <3>1. CASE k = n
        BY <3>1, <1>3, <1>6, StructFacts
      <3>2. CASE k # n
        <4>1. k + 1 \in 1 .. n
          BY <3>2
        <4>2. blink_array[s[k]].next = s[k + 1]
          BY <3>2, <1>6
        <4>3. s[k + 1] = s[m] <=> k + 1 = m
          BY <4>1, <1>5
        <4>4. QED BY <4>2, <4>3, <1>3
      <3>3. QED BY <3>1, <3>2
    <2>3. blink_array'[s[k]].next = IF s[k] \in Listed /\ blink_array[s[k]].next = i
                                    THEN past ELSE blink_array[s[k]].next
      BY <2>1, <1>9
    <2>. HIDE DEF Listed
    <2>4. QED BY <2>1, <2>2, <2>3, <1>6, <1>11
  <1>13. PICK r \in Nat : n = r + 1 /\ r = n - 1
    <2>1. n - 1 \in Nat /\ n = (n - 1) + 1
      OBVIOUS
    <2>2. QED BY <2>1
  <1>. DEFINE t == [k \in 1 .. r |-> IF k < m THEN s[k] ELSE s[k + 1]]
              old(k) == IF k < m THEN k ELSE k + 1
  <1>14. ASSUME NEW k \in 1 .. r
         PROVE  old(k) \in 1 .. n /\ old(k) # m /\ t[k] = s[old(k)]
    BY <1>13
  <1>15. t \in [1 .. r -> Structs]
    <2>1. \A k \in 1 .. r : t[k] \in Structs
      <3>. HIDE DEF t, old
      <3>1. QED BY <1>14
    <2>2. QED BY <2>1
  <1>16. \A j, k \in 1 .. r : t[j] = t[k] => j = k
    <2>. SUFFICES ASSUME NEW j \in 1 .. r, NEW k \in 1 .. r, t[j] = t[k] PROVE j = k
      OBVIOUS
    <2>. HIDE DEF t
    <2>1. old(j) = old(k)
      <3>. HIDE DEF old
      <3>1. QED BY <1>5, <1>14
    <2>2. QED BY <2>1
  <1>17. mp1_list_head' = IF r = 0 THEN NULL ELSE t[1]
    <2>1. mp1_list_head = s[1] /\ 1 \in 1 .. n
      BY <1>1, <1>13 DEF IsList, Linked
    <2>2. CASE m = 1
      <3>0. mp1_list_head' = past
        BY <2>1, <2>2, <1>3, <1>7
      <3>1. mp1_list_head' = IF n = 1 THEN NULL ELSE s[1 + 1]
        BY <3>0, <2>2, <1>4
      <3>2. CASE r = 0
        BY <3>1, <3>2, <1>13
      <3>3. CASE r # 0
        <4>1. 1 \in 1 .. r /\ n # 1 /\ t[1] = s[1 + 1]
          BY <3>3, <2>2, <1>13
        <4>2. QED BY <4>1, <3>1, <3>3
      <3>4. QED BY <3>2, <3>3
    <2>3. CASE m # 1
      <3>1. mp1_list_head # i
        BY <2>1, <2>3, <1>3, <1>5
      <3>2. 1 \in 1 .. r /\ r # 0 /\ t[1] = s[1]
        BY <2>3, <1>13
      <3>3. QED BY <2>1, <3>1, <3>2, <1>7
    <2>4. QED BY <2>2, <2>3
  <1>18. ASSUME NEW k \in 1 .. r
         PROVE  blink_array'[t[k]].next = IF k = r THEN NULL ELSE t[k + 1]
    <2>0. old(k) \in 1 .. n /\ old(k) # m /\ t[k] = s[old(k)]
      BY <1>14
    <2>1. blink_array'[t[k]].next = IF old(k) + 1 = m THEN past
                                    ELSE IF old(k) = n THEN NULL ELSE s[old(k) + 1]
      <3>. HIDE DEF old, t
      <3>1. QED BY <2>0, <1>12
    <2>2. CASE k < m
      <3>1. old(k) = k
        BY <2>2
      <3>2. CASE k + 1 = m
        <4>1. blink_array'[t[k]].next = IF m = n THEN NULL ELSE s[m + 1]
          BY <2>1, <3>1, <3>2, <1>4
        <4>2. CASE k = r
          BY <4>1, <4>2, <3>2, <1>13
        <4>3. CASE k # r
          <5>1. k + 1 \in 1 .. r /\ m # n /\ ~(k + 1 < m)
            BY <4>3, <3>2, <1>13
          <5>2. t[k + 1] = s[m + 1]
            BY <5>1, <3>2
          <5>3. QED BY <5>1, <5>2, <4>1, <4>3
        <4>4. QED BY <4>2, <4>3
      <3>3. CASE k + 1 # m
        <4>1. k + 1 < m /\ k + 1 \in 1 .. r /\ k # n /\ k # r
          BY <2>2, <3>3, <1>13
        <4>2. t[k + 1] = s[k + 1]
          BY <4>1
        <4>3. QED BY <4>1, <4>2, <2>1, <3>1, <3>3
      <3>4. QED BY <3>2, <3>3
    <2>3. CASE ~(k < m)
      <3>1. old(k) = k + 1 /\ old(k) + 1 # m /\ (old(k) = n <=> k = r)
        BY <2>3, <1>13
      <3>2. CASE k = r
        BY <3>1, <3>2, <2>1
      <3>3. CASE k # r
        <4>1. k + 1 \in 1 .. r /\ ~(k + 1 < m)
          BY <2>3, <3>3
        <4>2. t[k + 1] = s[(k + 1) + 1]
          BY <4>1
        <4>3. QED BY <4>2, <3>1, <3>3, <2>1
      <3>4. QED BY <3>2, <3>3
    <2>4. QED BY <2>2, <2>3
  <1>19. ASSUME NEW j \in Structs
         PROVE  (\E k \in 1 .. r : t[k] = j) <=> blink_array'[j].location # 0
    <2>1. CASE j = i
      <3>1. ASSUME NEW k \in 1 .. r, t[k] = i PROVE FALSE
        <4>. HIDE DEF old, t
        <4>1. QED BY <3>1, <1>12, <1>14
      <3>2. QED BY <2>1, <3>1, <1>10
    <2>2. CASE j # i
      <3>1. ASSUME NEW k \in 1 .. r, t[k] = j PROVE \E h \in 1 .. n : s[h] = j
        <4>. HIDE DEF old, t
        <4>1. QED BY <3>1, <1>14
      <3>2. ASSUME NEW h \in 1 .. n, s[h] = j PROVE \E k \in 1 .. r : t[k] = j
        <4>1. h # m
          BY <3>2, <2>2, <1>3
        <4>2. CASE h < m
          <5>1. h \in 1 .. r
            BY <4>2, <1>13
          <5>2. t[h] = j
            BY <5>1, <4>2, <3>2
          <5>3. QED BY <5>1, <5>2
        <4>3. CASE ~(h < m)
          <5>1. h - 1 \in 1 .. r /\ ~(h - 1 < m) /\ (h - 1) + 1 = h
            BY <4>1, <4>3, <1>13
          <5>2. t[h - 1] = j
            BY <5>1, <3>2
          <5>3. QED BY <5>1, <5>2
        <4>4. QED BY <4>2, <4>3
      <3>3. blink_array'[j].location = blink_array[j].location
        BY <2>2, <1>9
      <3>. HIDE DEF t
      <3>4. QED BY <3>1, <3>2, <3>3, <1>1 DEF IsList, Holds
    <2>3. QED BY <2>1, <2>2
  <1>. HIDE DEF t
  <1>20. Linked(r, t, blink_array', mp1_list_head') /\ Holds(r, t, blink_array')
    BY <1>16, <1>17, <1>18, <1>19 DEF Linked, Holds
  <1>21. mp1_list_head' \in Structs \cup {NULL}
    <2>1. CASE r = 0
      BY <2>1, <1>17
    <2>2. CASE r # 0
      <3>1. 1 \in 1 .. r
        BY <2>2
      <3>2. QED BY <3>1, <2>2, <1>15, <1>17
    <2>3. QED BY <2>1, <2>2
  <1>22. QED BY <1>15, <1>20, <1>21 DEF ListInv, IsList

LEMMA AddKeeps ==
    ASSUME BlinkInv, NEW location \in Locations, NEW len \in Lengths,
           RtcAdd(location, len[1], len[2])
    PROVE  BlinkInv'
  <1>1. PICK i \in Structs : i = mp1_malloc /\ blink_array[i].location = 0
    BY MallocFacts DEF RtcAdd
  <1>2. location \in Nat /\ location # 0 /\ location \in 0 .. ScreenSize - 1
        /\ len[1] \in Nat /\ len[2] \in Nat
    BY BlinkAssumption, StructFacts DEF RtcAdd
  <1>3. PICK b : b = [location |-> location, on_length |-> len[1], off_length |-> len[2],
                      countdown |-> len[1], status |-> 1, next |-> mp1_list_head]
    OBVIOUS
  <1>4. b \in Blinks /\ b.location = location /\ b.next = mp1_list_head /\ b.status = 1
    BY <1>2, <1>3 DEF BlinkInv, BlinkTypes, Blinks
  <1>5. /\ blink_array' = [blink_array EXCEPT ![i] = b] /\ mp1_list_head' = i
        /\ vmem' = [vmem EXCEPT ![location] = <<i, "on">>]
        /\ partners' = Unpaired(partners, i)
    BY <1>1, <1>3 DEF RtcAdd
  <1>6. ListInv'
    BY <1>1, <1>2, <1>4, <1>5, AddList
  <1>7. blink_array' \in [Structs -> Blinks] /\ blink_array'[i] = b
        /\ \A j \in Structs : j # i => blink_array'[j] = blink_array[j]
    BY <1>4, <1>5 DEF BlinkInv, BlinkTypes
  <1>8. BlinkTypes'
    <2>1. vmem' \in [0 .. ScreenSize - 1 -> (Structs \cup {NULL}) \X {"on", "off"}]
      BY <1>2, <1>5 DEF BlinkInv, BlinkTypes
    <2>2. \A j \in Structs : blink_array'[j].location # 0 =>
              blink_array'[j].location \in 0 .. ScreenSize - 1
      BY <1>2, <1>4, <1>7 DEF BlinkInv, BlinkTypes
    <2>3. QED BY <2>1, <2>2, <1>5, <1>7 DEF BlinkTypes
  <1>9. PartnersInStep'
    <2>1. \A p \in partners' : p \in partners /\ p[1] # i /\ p[2] # i
      BY <1>5 DEF Unpaired
    <2>2. QED BY <2>1, <1>7 DEF BlinkInv, PartnersInStep
  <1>10. SeenRight'
    <2>. SUFFICES ASSUME NEW j \in Structs, blink_array'[j].location # 0,
                         vmem'[blink_array'[j].location][1] = j
                  PROVE  vmem'[blink_array'[j].location][2] = Shows(blink_array'[j])
      BY DEF SeenRight
    <2>0. vmem'[location] = <<i, "on">>
          /\ \A l \in 0 .. ScreenSize - 1 : l # location => vmem'[l] = vmem[l]
      BY <1>2, <1>5 DEF BlinkInv, BlinkTypes
    <2>1. CASE j = i
      BY <2>0, <2>1, <1>4, <1>7 DEF Shows
    <2>2. CASE j # i
      <3>1. blink_array'[j] = blink_array[j]
        BY <2>2, <1>7
      <3>2. blink_array[j].location # location
        BY <2>0, <2>2, <3>1
      <3>3. vmem'[blink_array[j].location] = vmem[blink_array[j].location]
        BY <2>0, <3>1, <3>2 DEF BlinkInv, BlinkTypes
      <3>4. QED BY <3>1, <3>3 DEF BlinkInv, SeenRight
    <2>3. QED BY <2>1, <2>2
  <1>11. QED BY <1>6, <1>8, <1>9, <1>10 DEF BlinkInv

LEMMA RemoveKeeps == ASSUME BlinkInv, NEW location, RtcRemove(location) PROVE BlinkInv'
  <1>0. PICK n \in Nat : \E s \in [1 .. n -> Structs] : IsList(n, s)
    BY DEF BlinkInv, ListInv
  <1>1. PICK s \in [1 .. n -> Structs] : IsList(n, s)
    BY <1>0
  <1>2. PICK i \in Structs : i = mp1_find_helper(location)
    BY <1>1, FindFacts DEF RtcRemove
  <1>3. PICK past \in Structs \cup {NULL} : past = blink_array[i].next
    BY DEF BlinkInv, BlinkTypes, Blinks
  <1>4. ListInv' /\ mp1_list_head' \in Structs \cup {NULL}
    BY RemoveList
  <1>5. blink_array' = [j \in Structs |->
              CASE j = i -> Free
                [] j # i /\ j \in Listed /\ blink_array[j].next = i ->
                       [blink_array[j] EXCEPT !.next = past]
                [] OTHER -> blink_array[j]]
    <2>. HIDE DEF mp1_find_helper, Listed
    <2>1. QED BY <1>2, <1>3 DEF RtcRemove
  <1>6. partners' = Unpaired(partners, i) /\ vmem' = vmem
    BY <1>2 DEF RtcRemove
  <1>7. ASSUME NEW j \in Structs, j # i
        PROVE  /\ blink_array'[j] \in Blinks
               /\ blink_array'[j].location = blink_array[j].location
               /\ blink_array'[j].status = blink_array[j].status
               /\ InStep(blink_array[j], blink_array'[j])
    <2>. HIDE DEF Listed
    <2>1. blink_array[j] \in Blinks
      BY DEF BlinkInv, BlinkTypes
    <2>2. blink_array'[j] = blink_array[j]
          \/ blink_array'[j] = [blink_array[j] EXCEPT !.next = past]
      BY <1>5, <1>7
    <2>3. QED BY <2>1, <2>2 DEF Blinks, InStep
  <1>8. blink_array'[i] \in Blinks /\ blink_array'[i].location = 0
    <2>1. blink_array'[i] = Free
      BY <1>5
    <2>2. QED BY <2>1 DEF Free, Blinks
  <1>9. BlinkTypes'
    <2>1. blink_array' \in [Structs -> Blinks]
      <3>. HIDE DEF Listed
      <3>1. blink_array' = [j \in Structs |-> blink_array'[j]]
        BY <1>5
      <3>2. \A j \in Structs : blink_array'[j] \in Blinks
        BY <1>7, <1>8
      <3>3. QED BY <3>1, <3>2
    <2>2. QED BY <2>1, <1>4, <1>6, <1>7, <1>8 DEF BlinkInv, BlinkTypes
  <1>10. PartnersInStep'
    <2>1. \A p \in partners' : p \in partners /\ p[1] # i /\ p[2] # i
      BY <1>6 DEF Unpaired
    <2>2. QED BY <2>1, <1>7 DEF BlinkInv, PartnersInStep, InStep
  <1>11. SeenRight'
    <2>. SUFFICES ASSUME NEW j \in Structs, blink_array'[j].location # 0,
                         vmem'[blink_array'[j].location][1] = j
                  PROVE  vmem'[blink_array'[j].location][2] = Shows(blink_array'[j])
      BY DEF SeenRight
    <2>1. j # i
      BY <1>8
    <2>2. QED BY <2>1, <1>6, <1>7 DEF BlinkInv, SeenRight, Shows
  <1>12. QED BY <1>4, <1>9, <1>10, <1>11 DEF BlinkInv

LEMMA SyncKeeps ==
    ASSUME BlinkInv, NEW first, NEW second \in Locations, RtcSync(first, second)
    PROVE  BlinkInv'
  <1>0. PICK n \in Nat : \E s \in [1 .. n -> Structs] : IsList(n, s)
    BY DEF BlinkInv, ListInv
  <1>1. PICK s \in [1 .. n -> Structs] : IsList(n, s)
    BY <1>0
  <1>2. PICK i \in Structs : i = mp1_find_helper(first) /\ blink_array[i].location # 0
    BY <1>1, FindFacts DEF RtcSync
  <1>3. PICK j \in Structs : j = mp1_find_helper(second) /\ blink_array[j].location = second
                            /\ second # 0
    BY <1>1, FindFacts DEF RtcSync
  <1>4. PICK b : b = Copied(blink_array[j], blink_array[i])
    OBVIOUS
  <1>5. /\ blink_array' = [blink_array EXCEPT ![j] = b]
        /\ vmem' = [vmem EXCEPT ![second] = <<NULL, "off">>]
        /\ partners' = Unpaired(partners, j) \cup (IF i = j THEN {} ELSE {<<i, j>>})
        /\ mp1_list_head' = mp1_list_head
    <2>. HIDE DEF mp1_find_helper
    <2>1. QED BY <1>2, <1>3, <1>4 DEF RtcSync, BlinkInv, BlinkTypes
  <1>6. blink_array[i] \in Blinks /\ blink_array[j] \in Blinks
    BY DEF BlinkInv, BlinkTypes
  <1>7. b \in Blinks /\ InStep(blink_array[i], b)
        /\ b.location = second /\ b.next = blink_array[j].next
    BY <1>3, <1>4, <1>6, CopiedFacts
  <1>8. blink_array' \in [Structs -> Blinks] /\ blink_array'[j] = b
        /\ \A k \in Structs : k # j => blink_array'[k] = blink_array[k]
    BY <1>5, <1>7 DEF BlinkInv, BlinkTypes
  <1>9. second \in 0 .. ScreenSize - 1
    BY <1>3 DEF BlinkInv, BlinkTypes
  <1>10. ListInv'
    BY <1>3, <1>5, <1>7, <1>8, SameLinks DEF BlinkInv
  <1>11. BlinkTypes'
    <2>1. vmem' \in [0 .. ScreenSize - 1 -> (Structs \cup {NULL}) \X {"on", "off"}]
      BY <1>5, <1>9 DEF BlinkInv, BlinkTypes
    <2>2. QED BY <2>1, <1>5, <1>7, <1>8, <1>9 DEF BlinkInv, BlinkTypes
  <1>12. PartnersInStep'
    <2>. SUFFICES ASSUME NEW p \in partners'
                  PROVE  /\ p[1] \in Structs /\ p[2] \in Structs
                         /\ blink_array'[p[1]].location # 0
                         /\ blink_array'[p[2]].location # 0
                         /\ InStep(blink_array'[p[1]], blink_array'[p[2]])
      BY DEF PartnersInStep
    <2>1. CASE p \in Unpaired(partners, j)
      <3>1. p \in partners /\ p[1] # j /\ p[2] # j
        BY <2>1 DEF Unpaired
      <3>2. QED BY <3>1, <1>8 DEF BlinkInv, PartnersInStep
    <2>2. CASE i # j /\ p = <<i, j>>
      <3>1. p[1] = i /\ p[2] = j
        BY <2>2
      <3>2. QED BY <3>1, <2>2, <1>2, <1>3, <1>7, <1>8
    <2>3. QED BY <2>1, <2>2, <1>5
  <1>13. SeenRight'
    <2>. SUFFICES ASSUME NEW k \in Structs, blink_array'[k].location # 0,
                         vmem'[blink_array'[k].location][1] = k
                  PROVE  vmem'[blink_array'[k].location][2] = Shows(blink_array'[k])
      BY DEF SeenRight
    <2>1. vmem'[second] = <<NULL, "off">>
          /\ \A l \in 0 .. ScreenSize - 1 : l # second => vmem'[l] = vmem[l]
      BY <1>5, <1>9 DEF BlinkInv, BlinkTypes
    <2>2. blink_array'[k].location # second
      BY <2>1, StructFacts
    <2>3. blink_array'[k] = blink_array[k]
      BY <2>2, <1>7, <1>8
    <2>4. vmem'[blink_array[k].location] = vmem[blink_array[k].location]
      BY <2>1, <2>2, <2>3 DEF BlinkInv, BlinkTypes
    <2>5. QED BY <2>3, <2>4 DEF BlinkInv, SeenRight
  <1>14. QED BY <1>10, <1>11, <1>12, <1>13 DEF BlinkInv

LEMMA TaskletKeeps == ASSUME BlinkInv, Tasklet PROVE BlinkInv'
  <1>0. PICK n \in Nat : \E s \in [1 .. n -> Structs] : IsList(n, s)
    BY DEF BlinkInv, ListInv
  <1>1. PICK s \in [1 .. n -> Structs] : IsList(n, s)
    BY <1>0
  <1>. PICK N \in Nat : N = NumStructs
    BY StructFacts
  <1>2. Listed = {i \in Structs : blink_array[i].location # 0}
    BY <1>1, ListedIs
  <1>3. blink_array' = [i \in Structs |-> IF i \in Listed THEN Ticked(blink_array[i])
                                          ELSE blink_array[i]]
        /\ mp1_list_head' = mp1_list_head /\ partners' = partners
    BY DEF Tasklet
  <1>4. ASSUME NEW i \in Structs
        PROVE  /\ blink_array[i] \in Blinks
               /\ blink_array'[i] = IF blink_array[i].location # 0 THEN Ticked(blink_array[i])
                                    ELSE blink_array[i]
               /\ blink_array'[i] \in Blinks
               /\ blink_array'[i].next = blink_array[i].next
               /\ blink_array'[i].location = blink_array[i].location
    <2>1. blink_array[i] \in Blinks
      BY DEF BlinkInv, BlinkTypes
    <2>. HIDE DEF Listed, Ticked
    <2>2. blink_array'[i] = IF blink_array[i].location # 0 THEN Ticked(blink_array[i])
                            ELSE blink_array[i]
      BY <1>2, <1>3
    <2>3. QED BY <2>1, <2>2, TickedFacts
  <1>5. ListInv'
    BY <1>3, <1>4, SameLinks DEF BlinkInv
  <1>. DEFINE walk == Walk(N)
              changes(l) == {k \in 0 .. N : /\ walk[k] # NULL
                                           /\ blink_array[walk[k]].location = l
                                           /\ Expired(blink_array[walk[k]])}
              last(l) == walk[CHOOSE k \in changes(l) : \A h \in changes(l) : h <= k]
  <1>6. vmem' = [l \in DOMAIN vmem |->
              IF changes(l) = {} THEN vmem[l]
              ELSE <<last(l), IF blink_array[last(l)].status = 1 THEN "off" ELSE "on">>]
    BY DEF Tasklet
  <1>7. N \in Nat /\ n <= N
        /\ walk = [k \in 0 .. N |-> IF k < n THEN s[k + 1] ELSE NULL]
    BY <1>1, WalkIs
  <1>8. \A k \in 0 .. N : walk[k] # NULL => walk[k] \in Structs
    <2>. SUFFICES ASSUME NEW k \in 0 .. N, walk[k] # NULL PROVE walk[k] \in Structs
      OBVIOUS
    <2>. HIDE DEF walk
    <2>1. k < n /\ walk[k] = s[k + 1]
      BY <1>7
    <2>2. k + 1 \in 1 .. n
      BY <2>1
    <2>3. QED BY <2>1, <2>2
  <1>. HIDE DEF walk
  <1>9. ASSUME NEW l, changes(l) # {}
        PROVE  /\ last(l) \in Structs /\ blink_array[last(l)].location = l
               /\ Expired(blink_array[last(l)])
    <2>1. changes(l) \subseteq 0 .. N
      OBVIOUS
    <2>. HIDE DEF changes
    <2>2. \E k \in changes(l) : \A h \in changes(l) : h <= k
      BY <2>1, <1>9, GreatestNat
    <2>3. PICK m \in changes(l) :
              m = CHOOSE k \in changes(l) : \A h \in changes(l) : h <= k
      BY <2>2
    <2>4. last(l) = walk[m]
      BY <2>3
    <2>. HIDE DEF last
    <2>5. /\ m \in 0 .. N /\ walk[m] # NULL /\ blink_array[walk[m]].location = l
          /\ Expired(blink_array[walk[m]])
      <3>1. m \in changes(l)
        BY <2>3
      <3>. HIDE DEF Expired
      <3>2. QED BY <3>1 DEF changes
    <2>6. QED BY <2>4, <2>5, <1>8
  <1>10. ASSUME NEW i \in Structs, blink_array[i].location # 0, Expired(blink_array[i])
         PROVE  changes(blink_array[i].location) # {}
    <2>1. PICK k \in 1 .. n : s[k] = i
      BY <1>1, <1>10 DEF IsList, Holds
    <2>2. k - 1 \in 0 .. N /\ k - 1 < n /\ (k - 1) + 1 = k
      BY <1>7
    <2>3. walk[k - 1] = i /\ i # NULL
      BY <1>7, <2>1, <2>2, StructFacts
    <2>4. k - 1 \in changes(blink_array[i].location)
      BY <2>2, <2>3, <1>10
    <2>5. QED BY <2>4
  <1>11. DOMAIN vmem = 0 .. ScreenSize - 1
    BY DEF BlinkInv, BlinkTypes
  <1>12. ASSUME NEW l \in 0 .. ScreenSize - 1
         PROVE  /\ changes(l) = {} => vmem'[l] = vmem[l]
                /\ changes(l) # {} => vmem'[l][1] = last(l)
                /\ changes(l) # {} =>
                       vmem'[l][2] = (IF blink_array[last(l)].status = 1 THEN "off" ELSE "on")
                /\ changes(l) # {} =>
                       vmem'[l] \in (Structs \cup {NULL}) \X {"on", "off"}
    <2>. HIDE DEF changes, last
    <2>1. vmem'[l] = IF changes(l) = {} THEN vmem[l]
              ELSE <<last(l), IF blink_array[last(l)].status = 1 THEN "off" ELSE "on">>
      BY <1>6, <1>11
    <2>2. CASE changes(l) = {}
      BY <2>1, <2>2
    <2>3. CASE changes(l) # {}
      <3>1. PICK q : q = IF blink_array[last(l)].status = 1 THEN "off" ELSE "on"
        OBVIOUS
      <3>2. vmem'[l] = <<last(l), q>> /\ q \in {"on", "off"}
        BY <2>1, <2>3, <3>1
      <3>3. last(l) \in Structs
        BY <2>3, <1>9
      <3>4. QED BY <2>3, <3>1, <3>2, <3>3
    <2>4. QED BY <2>2, <2>3
  <1>. HIDE DEF changes, last
  <1>13. BlinkTypes'
    <2>1. blink_array' \in [Structs -> Blinks]
      <3>1. blink_array' = [i \in Structs |-> blink_array'[i]]
        BY <1>3
      <3>2. QED BY <3>1, <1>4
    <2>2. vmem' \in [0 .. ScreenSize - 1 -> (Structs \cup {NULL}) \X {"on", "off"}]
      <3>1. vmem' = [l \in 0 .. ScreenSize - 1 |-> vmem'[l]]
        BY <1>6, <1>11
      <3>2. \A l \in 0 .. ScreenSize - 1 : vmem'[l] \in (Structs \cup {NULL}) \X {"on", "off"}
        BY <1>12 DEF BlinkInv, BlinkTypes
      <3>3. QED BY <3>1, <3>2
    <2>3. QED BY <2>1, <2>2, <1>3, <1>4 DEF BlinkInv, BlinkTypes
  <1>14. PartnersInStep'
    <2>. SUFFICES ASSUME NEW p \in partners
                  PROVE  /\ p[1] \in Structs /\ p[2] \in Structs
                         /\ blink_array'[p[1]].location # 0
                         /\ blink_array'[p[2]].location # 0
                         /\ InStep(blink_array'[p[1]], blink_array'[p[2]])
      BY <1>3 DEF PartnersInStep
    <2>1. /\ p[1] \in Structs /\ p[2] \in Structs
          /\ blink_array[p[1]].location # 0 /\ blink_array[p[2]].location # 0
          /\ InStep(blink_array[p[1]], blink_array[p[2]])
      BY DEF BlinkInv, PartnersInStep
    <2>2. InStep(Ticked(blink_array[p[1]]), Ticked(blink_array[p[2]]))
      BY <2>1, <1>4, TickedInStep
    <2>3. QED BY <2>1, <2>2, <1>4
  <1>15. SeenRight'
    <2>. SUFFICES ASSUME NEW i \in Structs, blink_array'[i].location # 0,
                         vmem'[blink_array'[i].location][1] = i
                  PROVE  vmem'[blink_array'[i].location][2] = Shows(blink_array'[i])
      BY DEF SeenRight
    <2>1. PICK l : l = blink_array[i].location /\ l = blink_array'[i].location /\ l # 0
      BY <1>4
    <2>2. l \in 0 .. ScreenSize - 1
      BY <2>1 DEF BlinkInv, BlinkTypes
    <2>3. blink_array'[i] = Ticked(blink_array[i]) /\ blink_array[i].status \in {0, 1}
      BY <2>1, <1>4 DEF Blinks
    <2>4. CASE changes(l) = {}
      <3>1. ~Expired(blink_array[i])
        BY <2>1, <2>4, <1>10
      <3>2. blink_array'[i].status = blink_array[i].status
        BY <2>3, <3>1, <1>4, TickedFacts
      <3>3. vmem'[l] = vmem[l]
        BY <2>2, <2>4, <1>12
      <3>4. QED BY <3>2, <3>3, <2>1 DEF BlinkInv, SeenRight, Shows
    <2>5. CASE changes(l) # {}
      <3>1. last(l) = i /\ vmem'[l][2] = IF blink_array[i].status = 1 THEN "off" ELSE "on"
        BY <2>1, <2>2, <2>5, <1>12
      <3>2. Expired(blink_array[i])
        BY <3>1, <2>5, <1>9
      <3>3. blink_array'[i].status = 1 - blink_array[i].status
        BY <2>3, <3>2, <1>4, TickedFacts
      <3>4. blink_array'[i].status = 1 <=> blink_array[i].status # 1
        BY <2>3, <3>3
      <3>5. QED BY <2>1, <3>1, <3>4 DEF Shows
    <2>6. QED BY <2>4, <2>5
  <1>16. QED BY <1>5, <1>13, <1>14, <1>15 DEF BlinkInv

LEMMA InitBlinkInv == BlinkInit => BlinkInv
  <1>. SUFFICES ASSUME BlinkInit PROVE BlinkInv
    OBVIOUS
  <1>1. Free \in Blinks /\ Free.location = 0
    BY DEF Free, Blinks
  <1>2. BlinkTypes
    <2>1. blink_array \in [Structs -> Blinks]
      BY <1>1 DEF BlinkInit
    <2>2. \A i \in Structs : blink_array[i].location = 0
      BY <1>1 DEF BlinkInit
    <2>3. vmem \in [0 .. ScreenSize - 1 -> (Structs \cup {NULL}) \X {"on", "off"}]
      BY DEF BlinkInit
    <2>4. QED BY <2>1, <2>2, <2>3 DEF BlinkInit, BlinkTypes
  <1>3. ListInv
    <2>1. PICK s : s = [k \in 1 .. 0 |-> 1]
      OBVIOUS
    <2>2. s \in [1 .. 0 -> Structs] /\ 0 \in Nat
      BY <2>1
    <2>3. 1 .. 0 = {} /\ \A i \in Structs : blink_array[i].location = 0
      BY <1>1 DEF BlinkInit
    <2>4. IsList(0, s)
      BY <2>3 DEF IsList, Linked, Holds, BlinkInit
    <2>5. QED BY <2>2, <2>4 DEF ListInv
  <1>4. PartnersInStep
    BY DEF BlinkInit, PartnersInStep
  <1>5. SeenRight
    BY <1>1 DEF BlinkInit, SeenRight
  <1>6. QED BY <1>2, <1>3, <1>4, <1>5 DEF BlinkInv

LEMMA NextBlinkInv == BlinkInv /\ [BlinkNext]_blinkVars => BlinkInv'
  <1>. SUFFICES ASSUME BlinkInv, [BlinkNext]_blinkVars PROVE BlinkInv'
    OBVIOUS
  <1>1. CASE UNCHANGED blinkVars
    BY <1>1 DEF blinkVars, BlinkInv, BlinkTypes, ListInv, IsList, PartnersInStep, SeenRight
  <1>2. ASSUME NEW l \in Locations, RtcAddFails(l) \/ RtcRemove(l) \/ RtcCallFails(l)
        PROVE  BlinkInv'
    <2>1. CASE RtcRemove(l)
      BY <2>1, RemoveKeeps
    <2>2. CASE RtcAddFails(l) \/ RtcCallFails(l)
      BY <2>2, <1>1 DEF RtcAddFails, RtcCallFails, blinkVars
    <2>3. QED BY <2>1, <2>2, <1>2
  <1>3. ASSUME NEW l \in Locations, NEW len \in Lengths, RtcAdd(l, len[1], len[2])
        PROVE  BlinkInv'
    BY <1>3, AddKeeps
  <1>4. ASSUME NEW l \in Locations, NEW m \in Locations, RtcSync(l, m) PROVE BlinkInv'
    BY <1>4, SyncKeeps
  <1>5. QED BY <1>1, <1>2, <1>3, <1>4, TaskletKeeps DEF BlinkNext

\* The list of blinks ends and holds exactly the structures in use, however
\* many there are and after any adds, removes and syncs.
THEOREM ListStaysInUse == BlinkSpec => []ListIsInUse
  <1>1. BlinkInv => ListIsInUse
    BY InUseFromInv DEF BlinkInv
  <1>2. QED BY <1>1, InitBlinkInv, NextBlinkInv, PTL DEF BlinkSpec

\* Synced blinks stay in step whatever the tasklet and later calls do, and a
\* location shows what its last writer's blink is at.
THEOREM SyncedStayInStep == BlinkSpec => []SyncedInStep
  <1>1. BlinkInv => SyncedInStep
    <2>. SUFFICES ASSUME BlinkInv PROVE SyncedInStep
      OBVIOUS
    <2>1. Listed = {i \in Structs : blink_array[i].location # 0}
      BY InUseFromInv DEF BlinkInv, ListIsInUse
    <2>. HIDE DEF Listed
    <2>2. \A p \in partners : /\ blink_array[p[1]].status = blink_array[p[2]].status
                              /\ blink_array[p[1]].countdown = blink_array[p[2]].countdown
      BY DEF BlinkInv, PartnersInStep, InStep
    <2>3. QED BY <2>1, <2>2 DEF BlinkInv, SeenRight, Shows, SyncedInStep
  <1>2. QED BY <1>1, InitBlinkInv, NextBlinkInv, PTL DEF BlinkSpec

----------------------------------------------------------------------------
(* The pictures of fish *)

\* What a file may hold.
Pictures == Seq(Nat)

\* A file has places 1, 2, ..., Len(f).
LEMMA PictureTyped == ASSUME NEW f \in Pictures PROVE Len(f) \in Nat /\ DOMAIN f = 1 .. Len(f)
  BY DEF Pictures

\* The newlines before a place, and where its row starts.
Newlines(f, i) == {j \in 1 .. i - 1 : f[j] = EndOfLine}
StartsAt(f, i, j) == /\ j = 0 \/ f[j] = EndOfLine
                     /\ \A k \in j + 1 .. i - 1 : f[k] # EndOfLine

\* The row of a place counts the newlines before it.
LEMMA NewlinesFinite ==
    ASSUME NEW f, NEW i \in Nat \ {0}
    PROVE  /\ IsFiniteSet(Newlines(f, i)) /\ RowOf(f, i) = Cardinality(Newlines(f, i))
           /\ RowOf(f, i) \in 0 .. i - 1
  <1>1. IsFiniteSet(1 .. i - 1) /\ Cardinality(1 .. i - 1) = i - 1
    <2>1. IsFiniteSet(1 .. i - 1) /\ Cardinality(1 .. i - 1) = IF 1 > i - 1 THEN 0 ELSE i - 1 - 1 + 1
      BY FS_Interval
    <2>2. QED BY <2>1
  <1>2. Newlines(f, i) \in SUBSET (1 .. i - 1)
    BY DEF Newlines
  <1>3. IsFiniteSet(Newlines(f, i)) /\ Cardinality(Newlines(f, i)) <= i - 1
    BY <1>1, <1>2, FS_Subset
  <1>4. Cardinality(Newlines(f, i)) \in Nat
    BY <1>3, FS_CardinalityType
  <1>5. RowOf(f, i) = Cardinality(Newlines(f, i))
    BY DEF RowOf, Newlines
  <1>6. QED BY <1>3, <1>4, <1>5

\* Every place is in a row.
LEMMA RowStarts ==
    ASSUME NEW f, NEW i \in Nat \ {0}
    PROVE  \E j \in 0 .. i - 1 : StartsAt(f, i, j)
  <1>. DEFINE T == {d \in 0 .. i - 1 : (i - 1) - d = 0 \/ f[(i - 1) - d] = EndOfLine}
  <1>1. T \subseteq Nat /\ i - 1 \in T
    OBVIOUS
  <1>2. PICK d \in T : \A k \in T : d <= k
    <2>. HIDE DEF T
    <2>1. QED BY <1>1, LeastNat
  <1>3. PICK j \in 0 .. i - 1 : j = (i - 1) - d
    BY <1>2
  <1>4. j = 0 \/ f[j] = EndOfLine
    BY <1>2, <1>3
  <1>5. ASSUME NEW k \in j + 1 .. i - 1, f[k] = EndOfLine PROVE FALSE
    <2>1. PICK e \in 0 .. i - 1 : e = (i - 1) - k /\ k = (i - 1) - e /\ ~(d <= e)
      BY <1>2, <1>3
    <2>2. e \in T
      BY <1>5, <2>1
    <2>3. QED BY <1>2, <2>1, <2>2
  <1>6. QED BY <1>4, <1>5 DEF StartsAt

\* The column of a place is its distance from where its row starts.
LEMMA ColIs ==
    ASSUME NEW f, NEW i \in Nat \ {0}, NEW j \in 0 .. i - 1, StartsAt(f, i, j)
    PROVE  ColOf(f, i) = (i - 1) - j /\ ColOf(f, i) \in 0 .. i - 1
  <1>1. ASSUME NEW h \in 0 .. i - 1, StartsAt(f, i, h) PROVE h = j
    <2>1. CASE h < j
      <3>1. j \in h + 1 .. i - 1 /\ j # 0
        BY <2>1
      <3>2. QED BY <1>1, <3>1 DEF StartsAt
    <2>2. CASE j < h
      <3>1. h \in j + 1 .. i - 1 /\ h # 0
        BY <2>2
      <3>2. QED BY <1>1, <3>1 DEF StartsAt
    <2>3. QED BY <2>1, <2>2
  <1>2. (CHOOSE h \in 0 .. i - 1 : StartsAt(f, i, h)) = j
    BY <1>1
  <1>3. PICK x : x = CHOOSE h \in 0 .. i - 1 : StartsAt(f, i, h)
    OBVIOUS
  <1>4. ColOf(f, i) = i - 1 - x
    BY <1>3 DEF ColOf, StartsAt
  <1>5. x = j
    BY <1>2, <1>3
  <1>6. QED BY <1>4, <1>5

\* A file is read from row 0 and column 0 on.
LEMMA FirstPlace == ASSUME NEW f PROVE RowOf(f, 1) = 0 /\ ColOf(f, 1) = 0
  <1>1. RowOf(f, 1) = 0
    <2>1. 1 \in Nat \ {0} /\ 0 .. 1 - 1 = {0}
      OBVIOUS
    <2>2. QED BY <2>1, NewlinesFinite
  <1>2. 1 \in Nat \ {0} /\ 0 \in 0 .. 1 - 1 /\ StartsAt(f, 1, 0)
    BY DEF StartsAt
  <1>3. ColOf(f, 1) = (1 - 1) - 0
    BY <1>2, ColIs
  <1>4. QED BY <1>1, <1>3

\* Behind a newline the next row starts.
LEMMA NextRow ==
    ASSUME NEW f, NEW i \in Nat \ {0}, f[i] = EndOfLine
    PROVE  RowOf(f, i + 1) = RowOf(f, i) + 1 /\ ColOf(f, i + 1) = 0
  <1>. PICK n \in Nat \ {0} : n = i + 1
    OBVIOUS
  <1>1. Newlines(f, n) = Newlines(f, i) \cup {i} /\ i \notin Newlines(f, i)
    <2>1. 1 .. n - 1 = (1 .. i - 1) \cup {i} /\ i \notin 1 .. i - 1
      OBVIOUS
    <2>2. QED BY <2>1 DEF Newlines
  <1>2. /\ IsFiniteSet(Newlines(f, i)) /\ RowOf(f, i) = Cardinality(Newlines(f, i))
        /\ RowOf(f, n) = Cardinality(Newlines(f, n))
    BY NewlinesFinite
  <1>3. RowOf(f, n) = RowOf(f, i) + 1
    BY <1>1, <1>2, FS_AddElement
  <1>4. i \in 0 .. n - 1 /\ StartsAt(f, n, i)
    BY DEF StartsAt
  <1>5. ColOf(f, n) = (n - 1) - i
    BY <1>4, ColIs
  <1>6. QED BY <1>3, <1>5

\* ... and behind another character the row goes on by one column.
LEMMA SameRow ==
    ASSUME NEW f, NEW i \in Nat \ {0}, f[i] # EndOfLine
    PROVE  RowOf(f, i + 1) = RowOf(f, i) /\ ColOf(f, i + 1) = ColOf(f, i) + 1
  <1>. PICK n \in Nat \ {0} : n = i + 1
    OBVIOUS
  <1>1. Newlines(f, n) = Newlines(f, i)
    <2>1. 1 .. n - 1 = (1 .. i - 1) \cup {i}
      OBVIOUS
    <2>2. QED BY <2>1 DEF Newlines
  <1>2. RowOf(f, n) = RowOf(f, i)
    BY <1>1, NewlinesFinite
  <1>3. PICK j \in 0 .. i - 1 : StartsAt(f, i, j)
    BY RowStarts
  <1>4. j \in 0 .. n - 1 /\ StartsAt(f, n, j)
    <2>1. \A k \in j + 1 .. n - 1 : k \in j + 1 .. i - 1 \/ k = i
      BY <1>3
    <2>2. QED BY <1>3, <2>1 DEF StartsAt
  <1>5. ColOf(f, i) = (i - 1) - j
    BY <1>3, ColIs
  <1>6. ColOf(f, n) = (n - 1) - j
    BY <1>4, ColIs
  <1>7. QED BY <1>2, <1>3, <1>5, <1>6

\* Places are ordered by row and column.
LEMMA PlacesOrdered ==
    ASSUME NEW f, NEW i \in Nat \ {0}, NEW j \in Nat \ {0}, i < j
    PROVE  /\ RowOf(f, i) <= RowOf(f, j)
           /\ RowOf(f, i) = RowOf(f, j) => ColOf(f, i) < ColOf(f, j)
  <1>1. Newlines(f, i) \in SUBSET Newlines(f, j)
    <2>1. \A k \in 1 .. i - 1 : k \in 1 .. j - 1
      OBVIOUS
    <2>2. QED BY <2>1 DEF Newlines
  <1>2. /\ IsFiniteSet(Newlines(f, j)) /\ RowOf(f, j) = Cardinality(Newlines(f, j))
        /\ RowOf(f, i) = Cardinality(Newlines(f, i))
    BY NewlinesFinite
  <1>3. RowOf(f, i) <= RowOf(f, j)
        /\ (RowOf(f, j) = RowOf(f, i) => Newlines(f, j) = Newlines(f, i))
    BY <1>1, <1>2, FS_Subset
  <1>4. ASSUME RowOf(f, i) = RowOf(f, j) PROVE ColOf(f, i) < ColOf(f, j)
    <2>1. Newlines(f, j) = Newlines(f, i)
      BY <1>3, <1>4
    <2>2. ASSUME NEW k \in i .. j - 1 PROVE f[k] # EndOfLine
      <3>1. k \in 1 .. j - 1 /\ k \notin 1 .. i - 1
        OBVIOUS
      <3>2. QED BY <3>1, <2>1 DEF Newlines
    <2>3. PICK s \in 0 .. i - 1 : StartsAt(f, i, s)
      BY RowStarts
    <2>4. s \in 0 .. j - 1 /\ StartsAt(f, j, s)
      <3>1. s \in 0 .. j - 1
        BY <2>3
      <3>2. \A k \in s + 1 .. j - 1 : k \in s + 1 .. i - 1 \/ k \in i .. j - 1
        BY <2>3
      <3>3. QED BY <3>1, <3>2, <2>2, <2>3 DEF StartsAt
    <2>5. ColOf(f, i) = (i - 1) - s
      BY <2>3, ColIs
    <2>6. ColOf(f, j) = (j - 1) - s
      BY <2>4, ColIs
    <2>7. QED BY <2>3, <2>5, <2>6
  <1>5. QED BY <1>3, <1>4

\* What a reader sees at a place, behind the end of a row and behind the end
\* of the picture.
LEMMA CharThere ==
    ASSUME NEW f \in Pictures, NEW i \in 1 .. Len(f), f[i] # EndOfLine
    PROVE  CharAt(f, RowOf(f, i), ColOf(f, i)) = f[i]
  <1>. DEFINE hits == {k \in DOMAIN f : /\ f[k] # EndOfLine
                                        /\ RowOf(f, k) = RowOf(f, i)
                                        /\ ColOf(f, k) = ColOf(f, i)}
  <1>1. i \in hits
    BY PictureTyped
  <1>2. ASSUME NEW k \in hits PROVE k = i
    <2>1. k \in Nat \ {0} /\ i \in Nat \ {0}
      BY PictureTyped
    <2>2. ColOf(f, i) \in Int
      <3>1. PICK j \in 0 .. i - 1 : StartsAt(f, i, j)
        BY <2>1, RowStarts
      <3>2. ColOf(f, i) \in 0 .. i - 1
        BY <2>1, <3>1, ColIs
      <3>3. QED BY <2>1, <3>2
    <2>3. ~(k < i)
      BY <2>1, <2>2, PlacesOrdered
    <2>4. ~(i < k)
      BY <2>1, <2>2, PlacesOrdered
    <2>5. QED BY <2>1, <2>3, <2>4
  <1>3. CharAt(f, RowOf(f, i), ColOf(f, i))
            = IF hits = {} THEN SpaceChar ELSE f[CHOOSE k \in hits : TRUE]
    BY DEF CharAt
  <1>. HIDE DEF hits
  <1>4. QED BY <1>1, <1>2, <1>3

\* A character that is not blank is at a place of the picture.
LEMMA BlankOutside ==
    ASSUME NEW f, NEW r, NEW c,
           \A k \in DOMAIN f : f[k] # EndOfLine => ~(RowOf(f, k) = r /\ ColOf(f, k) = c)
    PROVE  CharAt(f, r, c) = SpaceChar
  BY DEF CharAt

\* The rest of a row is blank; all rows below are.
BlankFrom(f, r, c) == \A y \in Nat : y >= c => CharAt(f, r, y) = SpaceChar
BlankBelow(f, r) == \A x \in Nat : x > r => BlankFrom(f, x, 0)

\* Rows and columns are below the place.
LEMMA PlaceTyped ==
    ASSUME NEW f, NEW i \in Nat \ {0}
    PROVE  RowOf(f, i) \in 0 .. i - 1 /\ ColOf(f, i) \in 0 .. i - 1
  <1>1. PICK j \in 0 .. i - 1 : StartsAt(f, i, j)
    BY RowStarts
  <1>2. QED BY <1>1, ColIs, NewlinesFinite

\* At a newline, or at the end of the file, the rest of the row is blank.
LEMMA RowEnds ==
    ASSUME NEW f \in Pictures, NEW i \in 1 .. Len(f) + 1, i = Len(f) + 1 \/ f[i] = EndOfLine
    PROVE  BlankFrom(f, RowOf(f, i), ColOf(f, i))
  <1>. PICK r, c : r = RowOf(f, i) /\ c = ColOf(f, i)
    OBVIOUS
  <1>0. i \in Nat \ {0} /\ Len(f) \in Nat /\ DOMAIN f = 1 .. Len(f) /\ r \in Nat /\ c \in Nat
    BY PictureTyped, PlaceTyped
  <1>. SUFFICES ASSUME NEW y \in Nat, y >= c, NEW k \in DOMAIN f, f[k] # EndOfLine,
                       RowOf(f, k) = r, ColOf(f, k) = y
                PROVE  FALSE
    BY BlankOutside DEF BlankFrom
  <1>1. k \in Nat \ {0} /\ k <= Len(f)
    BY <1>0
  <1>2. CASE k < i
    <2>1. ColOf(f, k) < ColOf(f, i)
      BY <1>0, <1>1, <1>2, PlacesOrdered
    <2>2. QED BY <1>0, <2>1
  <1>3. CASE k = i
    BY <1>0, <1>1, <1>3
  <1>4. CASE i < k
    <2>1. f[i] = EndOfLine /\ i + 1 \in Nat \ {0}
      BY <1>0, <1>1, <1>4
    <2>2. RowOf(f, i + 1) = r + 1
      BY <1>0, <2>1, NextRow
    <2>3. RowOf(f, i + 1) <= RowOf(f, k)
      <3>1. CASE i + 1 = k
        BY <3>1, <2>2, <1>0
      <3>2. CASE i + 1 < k
        BY <3>2, <2>1, <1>1, PlacesOrdered
      <3>3. QED BY <1>0, <1>1, <1>4, <3>1, <3>2
    <2>4. QED BY <1>0, <2>2, <2>3
  <1>5. QED BY <1>0, <1>1, <1>2, <1>3, <1>4

\* Below the row in which the file ends all is blank.
LEMMA PictureEnds ==
    ASSUME NEW f \in Pictures PROVE BlankBelow(f, RowOf(f, Len(f) + 1))
  <1>. PICK i \in Nat \ {0} : i = Len(f) + 1
    BY PictureTyped
  <1>. PICK r : r = RowOf(f, i)
    OBVIOUS
  <1>0. r \in Nat /\ Len(f) \in Nat /\ DOMAIN f = 1 .. Len(f)
    BY PictureTyped, PlaceTyped
  <1>. SUFFICES ASSUME NEW x \in Nat, x > r, NEW y \in Nat, NEW k \in DOMAIN f,
                       f[k] # EndOfLine, RowOf(f, k) = x, ColOf(f, k) = y
                PROVE  FALSE
    BY BlankOutside DEF BlankFrom, BlankBelow
  <1>1. k \in Nat \ {0} /\ k < i
    BY <1>0
  <1>2. RowOf(f, k) <= RowOf(f, i)
    BY <1>1, PlacesOrdered
  <1>3. QED BY <1>0, <1>2

----------------------------------------------------------------------------
\* A picture while the rows are read: where its next character is, or that
\* nothing but blanks is left of it in this row or at all.
PictureOk(f, at, c, ended, row, col) ==
    /\ at \in 0 .. Len(f)
    /\ ended => /\ c = EndOfLine
                /\ BlankFrom(f, row, col) /\ BlankBelow(f, row)
    /\ ~ended /\ c # EndOfLine => RowOf(f, at + 1) = row /\ ColOf(f, at + 1) = col
    /\ ~ended /\ c = EndOfLine => /\ BlankFrom(f, row, col)
                                  /\ RowOf(f, at + 1) = row + 1 /\ ColOf(f, at + 1) = 0

\* What NextColumn makes of one picture.
CharOf(f, at, c) == IF c = EndOfLine THEN c ELSE IF at = Len(f) THEN EndOfLine ELSE f[at + 1]
NextAt(f, at, c) == IF c # EndOfLine /\ at # Len(f) THEN at + 1 ELSE at
NextEnded(f, at, c, ended) == ended \/ (c # EndOfLine /\ at = Len(f))

\* What is blank from a column on is blank from a later one on.
LEMMA BlankFurther ==
    ASSUME NEW f, NEW r, NEW c \in Nat, NEW d \in Nat, c <= d, BlankFrom(f, r, c)
    PROVE  BlankFrom(f, r, d)
  <1>1. \A y \in Nat : y >= d => y >= c
    OBVIOUS
  <1>2. QED BY <1>1 DEF BlankFrom

\* The character read is the one at the place, and the picture is in order
\* at the next column, or at the same one if its row has ended.
LEMMA ColumnRead ==
    ASSUME NEW f \in Pictures, NEW at, NEW c, NEW ended \in BOOLEAN, NEW row \in Nat,
           NEW col \in Nat, PictureOk(f, at, c, ended, row, col),
           NEW x, x = CharOf(f, at, c), NEW next \in {col, col + 1},
           x # EndOfLine => next = col + 1
    PROVE  /\ Shown(x) = CharAt(f, row, col)
           /\ x = EndOfLine => BlankFrom(f, row, col)
           /\ PictureOk(f, NextAt(f, at, c), x, NextEnded(f, at, c, ended), row, next)
  <1>0. at \in Nat /\ at \in 0 .. Len(f) /\ Len(f) \in Nat /\ EndOfLine # SpaceChar
        /\ next \in Nat /\ col <= next
    BY PictureTyped, FramesAssumption DEF PictureOk
  <1>1. ASSUME BlankFrom(f, row, col) PROVE CharAt(f, row, col) = SpaceChar
    BY <1>1 DEF BlankFrom
  <1>2. ASSUME BlankFrom(f, row, col) PROVE BlankFrom(f, row, next)
    BY <1>0, <1>2, BlankFurther
  <1>3. CASE c = EndOfLine
    <2>1. x = EndOfLine /\ NextAt(f, at, c) = at /\ NextEnded(f, at, c, ended) = ended
      BY <1>3 DEF CharOf, NextAt, NextEnded
    <2>2. BlankFrom(f, row, col)
      BY <1>3 DEF PictureOk
    <2>3. PictureOk(f, at, x, ended, row, next)
      BY <1>2, <1>3, <2>1, <2>2 DEF PictureOk
    <2>4. QED BY <1>1, <2>1, <2>2, <2>3 DEF Shown
  <1>4. CASE c # EndOfLine
    <2>0. ~ended /\ RowOf(f, at + 1) = row /\ ColOf(f, at + 1) = col
      BY <1>4 DEF PictureOk
    <2>. PICK i \in Nat \ {0} : i = at + 1
      BY <1>0
    <2>1. CASE at = Len(f)
      <3>1. x = EndOfLine /\ NextAt(f, at, c) = at /\ NextEnded(f, at, c, ended) = TRUE
        BY <1>4, <2>1 DEF CharOf, NextAt, NextEnded
      <3>2. i \in 1 .. Len(f) + 1 /\ i = Len(f) + 1
        BY <1>0, <2>1
      <3>3. BlankFrom(f, row, col) /\ BlankBelow(f, row)
        BY <2>0, <3>2, RowEnds, PictureEnds
      <3>4. PictureOk(f, at, x, TRUE, row, next)
        BY <1>0, <1>2, <3>1, <3>3 DEF PictureOk
      <3>5. QED BY <1>1, <3>1, <3>3, <3>4 DEF Shown
    <2>2. CASE at # Len(f)
      <3>1. x = f[i] /\ NextAt(f, at, c) = i /\ NextEnded(f, at, c, ended) = FALSE
        BY <1>4, <2>0, <2>2 DEF CharOf, NextAt, NextEnded
      <3>2. i \in 1 .. Len(f) /\ i \in 1 .. Len(f) + 1 /\ i \in 0 .. Len(f)
        BY <1>0, <2>2
      <3>3. CASE x = EndOfLine
        <4>1. BlankFrom(f, row, col)
          BY <2>0, <3>1, <3>2, <3>3, RowEnds
        <4>2. RowOf(f, i + 1) = row + 1 /\ ColOf(f, i + 1) = 0
          BY <2>0, <3>1, <3>3, NextRow
        <4>3. PictureOk(f, i, x, FALSE, row, next)
          BY <1>2, <3>2, <3>3, <4>1, <4>2 DEF PictureOk
        <4>4. QED BY <1>1, <3>1, <3>3, <4>1, <4>3 DEF Shown
      <3>4. CASE x # EndOfLine
        <4>1. CharAt(f, row, col) = x
          BY <2>0, <3>1, <3>2, <3>4, CharThere
        <4>2. RowOf(f, i + 1) = row /\ ColOf(f, i + 1) = next
          BY <2>0, <3>1, <3>4, SameRow
        <4>3. PictureOk(f, i, x, FALSE, row, next)
          BY <3>2, <3>4, <4>2 DEF PictureOk
        <4>4. QED BY <3>1, <3>4, <4>1, <4>3 DEF Shown
      <3>5. QED BY <3>3, <3>4
    <2>3. QED BY <2>1, <2>2
  <1>5. QED BY <1>3, <1>4

\* The end of a row.
LEMMA RowTurned ==
    ASSUME NEW f \in Pictures, NEW at, NEW ended \in BOOLEAN, NEW row \in Nat,
           NEW col \in Nat, PictureOk(f, at, EndOfLine, ended, row, col)
    PROVE  PictureOk(f, at, IF ended THEN EndOfLine ELSE OtherChar, ended, row + 1, 0)
  <1>1. EndOfLine # OtherChar
    BY FramesAssumption
  <1>2. CASE ended
    <2>1. BlankFrom(f, row + 1, 0)
      <3>1. row + 1 \in Nat /\ row + 1 > row
        OBVIOUS
      <3>2. BlankBelow(f, row)
        BY <1>2 DEF PictureOk
      <3>3. QED BY <3>1, <3>2 DEF BlankBelow
    <2>2. BlankBelow(f, row + 1)
      <3>1. \A x \in Nat : x > row + 1 => x > row
        OBVIOUS
      <3>2. QED BY <1>2, <3>1 DEF PictureOk, BlankBelow
    <2>3. QED BY <1>2, <2>1, <2>2 DEF PictureOk
  <1>3. CASE ~ended
    BY <1>1, <1>3 DEF PictureOk
  <1>4. QED BY <1>2, <1>3

\* The blinks at the places before a row and a column.
\* The blink of a place, the places at which one of the pictures is not
\* blank, and those of them that come before a row and column.
Spot(f0, f1, p) == [location |-> p[1] * Width + p[2] + Offset,
                    on |-> CharAt(f0, p[1], p[2]), off |-> CharAt(f1, p[1], p[2])]
Alive(f0, f1, p) == CharAt(f0, p[1], p[2]) # SpaceChar \/ CharAt(f1, p[1], p[2]) # SpaceChar
Before(p, row, col) == p[1] < row \/ (p[1] = row /\ p[2] < col)
AliveBefore(f0, f1, row, col) == {p \in Nat \X Nat : Alive(f0, f1, p) /\ Before(p, row, col)}
BlinksBefore(f0, f1, row, col) == {Spot(f0, f1, p) : p \in AliveBefore(f0, f1, row, col)}

\* One column on, only the place itself can have come to the places that
\* blink.
LEMMA AliveColumn ==
    ASSUME NEW f0, NEW f1, NEW row \in Nat, NEW col \in Nat
    PROVE  AliveBefore(f0, f1, row, col + 1) = AliveBefore(f0, f1, row, col)
               \cup {p \in {<<row, col>>} : Alive(f0, f1, p)}
  <1>1. \A p \in Nat \X Nat : Before(p, row, col + 1) <=> Before(p, row, col) \/ p = <<row, col>>
    <2>. SUFFICES ASSUME NEW x \in Nat, NEW y \in Nat
                  PROVE  Before(<<x, y>>, row, col + 1) <=> Before(<<x, y>>, row, col) \/ <<x, y>> = <<row, col>>
      OBVIOUS
    <2>1. QED BY DEF Before
  <1>2. <<row, col>> \in Nat \X Nat
    OBVIOUS
  <1>3. QED BY <1>1, <1>2 DEF AliveBefore

\* ... and so the blinks are the ones before it and, if one of the pictures
\* is not blank there, the one NextColumn adds.
LEMMA BlinkAdded ==
    ASSUME NEW f0, NEW f1, NEW row \in Nat, NEW col \in Nat
    PROVE  BlinksBefore(f0, f1, row, col + 1) =
               IF Alive(f0, f1, <<row, col>>)
               THEN BlinksBefore(f0, f1, row, col) \cup {Spot(f0, f1, <<row, col>>)}
               ELSE BlinksBefore(f0, f1, row, col)
  <1>1. CASE Alive(f0, f1, <<row, col>>)
    <2>1. AliveBefore(f0, f1, row, col + 1) = AliveBefore(f0, f1, row, col) \cup {<<row, col>>}
      BY <1>1, AliveColumn
    <2>2. QED BY <1>1, <2>1 DEF BlinksBefore
  <1>2. CASE ~Alive(f0, f1, <<row, col>>)
    <2>0. {p \in {<<row, col>>} : Alive(f0, f1, p)} = {}
      BY <1>2
    <2>1. AliveBefore(f0, f1, row, col + 1) = AliveBefore(f0, f1, row, col)
      BY <2>0, AliveColumn
    <2>2. QED BY <1>2, <2>1 DEF BlinksBefore
  <1>3. QED BY <1>1, <1>2

\* When both pictures are blank in the rest of the row, it has had its blinks.
LEMMA BlinksOfRow ==
    ASSUME NEW f0, NEW f1, NEW row \in Nat, NEW col \in Nat,
           BlankFrom(f0, row, col), BlankFrom(f1, row, col)
    PROVE  BlinksBefore(f0, f1, row + 1, 0) = BlinksBefore(f0, f1, row, col)
  <1>1. ASSUME NEW p \in Nat \X Nat, Alive(f0, f1, p)
        PROVE  Before(p, row + 1, 0) <=> Before(p, row, col)
    <2>. PICK x \in Nat, y \in Nat : p = <<x, y>> /\ x = p[1] /\ y = p[2]
      OBVIOUS
    <2>1. ~(x = row /\ y >= col)
      BY <1>1 DEF Alive, BlankFrom
    <2>2. (x < row + 1 \/ (x = row + 1 /\ y < 0)) <=> (x < row \/ (x = row /\ y < col))
      BY <2>1
    <2>3. QED BY <2>2 DEF Before
  <1>2. AliveBefore(f0, f1, row + 1, 0) = AliveBefore(f0, f1, row, col)
    BY <1>1 DEF AliveBefore
  <1>3. QED BY <1>2 DEF BlinksBefore

\* A character that is not blank is within the length of its file.
LEMMA PlaceInside ==
    ASSUME NEW f \in Pictures, NEW n \in Nat, Len(f) <= n, NEW r, NEW c,
           CharAt(f, r, c) # SpaceChar
    PROVE  r \in 0 .. n /\ c \in 0 .. n
  <1>1. PICK k \in DOMAIN f : RowOf(f, k) = r /\ ColOf(f, k) = c
    BY BlankOutside
  <1>2. Len(f) \in Nat /\ k \in 1 .. Len(f)
    BY <1>1, PictureTyped
  <1>3. r \in 0 .. k - 1 /\ c \in 0 .. k - 1
    BY <1>1, <1>2, PlaceTyped
  <1>4. QED BY <1>2, <1>3

\* The places that FramesAligned looks at.
AliveWithin(f0, f1, n) == {p \in (0 .. n) \X (0 .. n) : \/ CharAt(f0, p[1], p[2]) # SpaceChar
                                                        \/ CharAt(f1, p[1], p[2]) # SpaceChar}

\* When both pictures are blank below, all places that blink have been
\* passed.
LEMMA AllBlinks ==
    ASSUME NEW f0 \in Pictures, NEW f1 \in Pictures, NEW row \in Nat,
           BlankFrom(f0, row, 0), BlankBelow(f0, row),
           BlankFrom(f1, row, 0), BlankBelow(f1, row),
           NEW n, n = Len(f0) + Len(f1)
    PROVE  AliveBefore(f0, f1, row, 0) = AliveWithin(f0, f1, n)
  <1>1. n \in Nat /\ Len(f0) <= n /\ Len(f1) <= n
    BY PictureTyped
  <1>2. ASSUME NEW p, p \in (0 .. n) \X (0 .. n), Alive(f0, f1, p)
        PROVE  p \in AliveBefore(f0, f1, row, 0)
    <2>. PICK x \in 0 .. n, y \in 0 .. n : p = <<x, y>> /\ x = p[1] /\ y = p[2]
      BY <1>2
    <2>1. x \in Nat /\ y \in Nat /\ y >= 0
      BY <1>1
    <2>2. x < row
      <3>1. CASE x = row
        BY <3>1, <2>1, <1>2 DEF Alive, BlankFrom
      <3>2. CASE x > row
        BY <3>2, <2>1, <1>2 DEF Alive, BlankBelow, BlankFrom
      <3>3. QED BY <2>1, <3>1, <3>2
    <2>3. QED BY <1>2, <2>1, <2>2 DEF AliveBefore, Before
  <1>3. ASSUME NEW p \in Nat \X Nat, Alive(f0, f1, p) PROVE p \in (0 .. n) \X (0 .. n)
    <2>. PICK x \in Nat, y \in Nat : p = <<x, y>> /\ x = p[1] /\ y = p[2]
      OBVIOUS
    <2>1. x \in 0 .. n /\ y \in 0 .. n
      BY <1>1, <1>3, PlaceInside DEF Alive
    <2>2. QED BY <2>1
  <1>4. QED BY <1>2, <1>3 DEF AliveBefore, AliveWithin, Alive

\* The invariant: each picture is where PictureOk says, and the blinks are
\* those of the places passed.
FileNums == {0, 1}
FramesShape(g) == g = [pc |-> g.pc, file |-> g.file, pos |-> g.pos, c |-> g.c, eof |-> g.eof,
                       row |-> g.row, col |-> g.col, added |-> g.added]
FramesTyped(g) ==
    /\ FramesShape(g) /\ g.pc \in {"row", "row_end", "done"}
    /\ g.file \in [FileNums -> PictureFiles] /\ g.eof \in [FileNums -> BOOLEAN]
    /\ g.row \in Nat /\ g.col \in Nat
PicturesOk(g) == \A k \in FileNums :
                     PictureOk(g.file[k], g.pos[k], g.c[k], g.eof[k], g.row, g.col)
Filling(g) == /\ FramesTyped(g) /\ PicturesOk(g)
              /\ g.added = BlinksBefore(g.file[0], g.file[1], g.row, g.col)
              /\ g.pc # "row" => \A k \in FileNums : g.c[k] = EndOfLine
              /\ g.pc = "done" => g.col = 0 /\ \A k \in FileNums : g.eof[k]
FramesInv == frames = FramesIdle \/ Filling(frames)

\* Opening the files: nothing is read and nothing blinks.
LEMMA FramesOpenOk ==
    ASSUME NEW f0 \in PictureFiles, NEW f1 \in PictureFiles, FramesOpen(f0, f1)
    PROVE  FramesInv'
  <1>1. frames' = [pc |-> "row", file |-> [f \in {0, 1} |-> IF f = 0 THEN f0 ELSE f1],
                   pos |-> Pair(0), c |-> Pair(OtherChar), eof |-> Pair(FALSE),
                   row |-> 0, col |-> 0, added |-> {}]
    BY DEF FramesOpen, FramesIdle
  <1>2. FramesTyped(frames')
    BY <1>1 DEF FramesTyped, FramesShape, Pair, FileNums
  <1>3. ASSUME NEW k \in FileNums, NEW f \in PictureFiles, f = frames'.file[k]
        PROVE  PictureOk(f, 0, OtherChar, FALSE, 0, 0)
    <2>1. Len(f) \in Nat /\ EndOfLine # OtherChar
      BY FramesAssumption, PictureTyped DEF Pictures
    <2>2. RowOf(f, 0 + 1) = 0 /\ ColOf(f, 0 + 1) = 0
      <3>1. 0 + 1 = 1
        OBVIOUS
      <3>2. QED BY <3>1, FirstPlace
    <2>3. QED BY <2>1, <2>2 DEF PictureOk
  <1>4. PicturesOk(frames')
    <2>1. ASSUME NEW k \in FileNums
          PROVE  frames'.file[k] \in PictureFiles /\ frames'.pos[k] = 0 /\ frames'.c[k] = OtherChar
                 /\ frames'.eof[k] = FALSE /\ frames'.row = 0 /\ frames'.col = 0
      BY <1>1 DEF FileNums, Pair
    <2>2. QED BY <1>3, <2>1 DEF PicturesOk
  <1>5. frames'.added = BlinksBefore(frames'.file[0], frames'.file[1], frames'.row, frames'.col)
    <2>1. \A p \in Nat \X Nat : ~Before(p, 0, 0)
      BY DEF Before
    <2>2. ASSUME NEW g0, NEW g1 PROVE BlinksBefore(g0, g1, 0, 0) = {}
      BY <2>1 DEF BlinksBefore, AliveBefore
    <2>3. frames'.row = 0 /\ frames'.col = 0 /\ frames'.added = {}
      BY <1>1
    <2>4. QED BY <2>2, <2>3
  <1>6. frames'.pc = "row"
    BY <1>1
  <1>7. QED BY <1>2, <1>4, <1>5, <1>6 DEF FramesInv, Filling

\* A turn of the inner loop takes both pictures one column on and adds the
\* blink of the place.
LEMMA NextColumnOk == ASSUME Filling(frames), NextColumn PROVE FramesInv'
  <1>. DEFINE f0 == frames.file[0]
              f1 == frames.file[1]
              row == frames.row
              col == frames.col
              c == [f \in {0, 1} |-> NextChar(f)]
              blink == [location |-> row * Width + col + Offset,
                        on |-> Shown(c[0]), off |-> Shown(c[1])]
              at == [f \in {0, 1} |-> IF Reading(f) /\ ~AtEnd(f) THEN frames.pos[f] + 1
                                      ELSE frames.pos[f]]
              eof == [f \in {0, 1} |-> frames.eof[f] \/ (Reading(f) /\ AtEnd(f))]
              added == IF \E f \in {0, 1} : c[f] \notin {SpaceChar, EndOfLine}
                       THEN frames.added \cup {blink} ELSE frames.added
              ends == c = Pair(EndOfLine)
              next == IF ends THEN col ELSE col + 1
              pc == IF ends THEN "row_end" ELSE "row"
  <1>1. frames' = [frames EXCEPT !.c = c, !.pos = at, !.eof = eof, !.added = added,
                                 !.col = next, !.pc = pc]
    BY DEF NextColumn
  <1>2. FramesTyped(frames) /\ PicturesOk(frames)
        /\ frames.added = BlinksBefore(f0, f1, row, col)
    BY DEF Filling
  <1>3. f0 \in Pictures /\ f1 \in Pictures /\ row \in Nat /\ col \in Nat
        /\ \A k \in FileNums : frames.file[k] \in Pictures /\ frames.eof[k] \in BOOLEAN
    BY <1>2, FramesAssumption DEF FramesTyped, FileNums, Pictures
  <1>4. ends <=> \A k \in FileNums : c[k] = EndOfLine
    BY DEF Pair, FileNums
  <1>5. ASSUME NEW k \in FileNums
        PROVE  /\ c[k] = CharOf(frames.file[k], frames.pos[k], frames.c[k])
               /\ at[k] = NextAt(frames.file[k], frames.pos[k], frames.c[k])
               /\ eof[k] = NextEnded(frames.file[k], frames.pos[k], frames.c[k], frames.eof[k])
               /\ eof[k] \in BOOLEAN
    <2>1. k \in {0, 1}
      BY DEF FileNums
    <2>2. c[k] = CharOf(frames.file[k], frames.pos[k], frames.c[k])
      BY <2>1 DEF CharOf, NextChar, Reading, AtEnd
    <2>3. at[k] = NextAt(frames.file[k], frames.pos[k], frames.c[k])
      BY <2>1 DEF NextAt, Reading, AtEnd
    <2>4. eof[k] = NextEnded(frames.file[k], frames.pos[k], frames.c[k], frames.eof[k])
      BY <2>1 DEF NextEnded, Reading, AtEnd
    <2>5. eof[k] \in BOOLEAN
      BY <2>1
    <2>6. QED BY <2>2, <2>3, <2>4, <2>5
  <1>6. eof \in [FileNums -> BOOLEAN]
    BY <1>5 DEF FileNums
  <1>. HIDE DEF c, at, eof
  <1>7. next \in {col, col + 1} /\ next \in Nat /\ pc \in {"row", "row_end", "done"}
        /\ \A k \in FileNums : c[k] # EndOfLine => next = col + 1
    BY <1>3, <1>4
  <1>. HIDE DEF next, pc
  <1>8. ASSUME NEW k \in FileNums
        PROVE  /\ Shown(c[k]) = CharAt(frames.file[k], row, col)
               /\ c[k] = EndOfLine => BlankFrom(frames.file[k], row, col)
               /\ PictureOk(frames.file[k], at[k], c[k], eof[k], row, next)
    <2>1. PictureOk(frames.file[k], frames.pos[k], frames.c[k], frames.eof[k], row, col)
      BY <1>2 DEF PicturesOk
    <2>2. QED BY <1>3, <1>5, <1>7, <2>1, ColumnRead
  <1>9. Shown(c[0]) = CharAt(f0, row, col) /\ Shown(c[1]) = CharAt(f1, row, col)
    BY <1>8 DEF FileNums
  <1>10. (\E f \in {0, 1} : c[f] \notin {SpaceChar, EndOfLine}) <=> Alive(f0, f1, <<row, col>>)
    <2>1. \A x : x \notin {SpaceChar, EndOfLine} <=> Shown(x) # SpaceChar
      BY DEF Shown
    <2>2. QED BY <1>9, <2>1 DEF Alive
  <1>11. blink = Spot(f0, f1, <<row, col>>)
    BY <1>9 DEF Spot
  <1>12. added = BlinksBefore(f0, f1, row, next)
    <2>1. added = BlinksBefore(f0, f1, row, col + 1)
      <3>1. added = IF Alive(f0, f1, <<row, col>>)
                    THEN BlinksBefore(f0, f1, row, col) \cup {Spot(f0, f1, <<row, col>>)}
                    ELSE BlinksBefore(f0, f1, row, col)
        BY <1>2, <1>10, <1>11
      <3>. HIDE DEF added
      <3>2. QED BY <1>3, <3>1, BlinkAdded
    <2>2. CASE ends
      <3>1. added = frames.added
        BY <1>4, <2>2 DEF FileNums
      <3>2. QED BY <1>2, <2>2, <3>1 DEF next
    <2>3. CASE ~ends
      BY <2>1, <2>3 DEF next
    <2>4. QED BY <2>2, <2>3
  <1>. HIDE DEF added
  <1>13. /\ frames'.pc = pc /\ frames'.file = frames.file /\ frames'.pos = at /\ frames'.c = c
         /\ frames'.eof = eof /\ frames'.row = row /\ frames'.col = next /\ frames'.added = added
         /\ FramesShape(frames')
    BY <1>1, <1>2 DEF FramesTyped, FramesShape
  <1>14. FramesTyped(frames')
    BY <1>2, <1>6, <1>7, <1>13 DEF FramesTyped
  <1>15. PicturesOk(frames')
    BY <1>8, <1>13 DEF PicturesOk
  <1>16. pc # "row" => \A k \in FileNums : c[k] = EndOfLine
    BY <1>4 DEF pc
  <1>17. pc # "done"
    BY DEF pc
  <1>18. Filling(frames')
    BY <1>12, <1>13, <1>14, <1>15, <1>16, <1>17 DEF Filling
  <1>19. QED BY <1>18 DEF FramesInv

\* The end of a row takes both to the next row, or ends the loop.
LEMMA RowEndOk == ASSUME Filling(frames), RowEnd PROVE FramesInv'
  <1>. DEFINE f0 == frames.file[0]
              f1 == frames.file[1]
              row == frames.row
              col == frames.col
              c == [f \in {0, 1} |-> IF frames.eof[f] THEN EndOfLine ELSE OtherChar]
              pc == IF frames.eof[0] /\ frames.eof[1] THEN "done" ELSE "row"
  <1>1. frames' = [frames EXCEPT !.c = c, !.row = row + 1, !.col = 0, !.pc = pc]
    BY DEF RowEnd
  <1>2. /\ FramesTyped(frames) /\ PicturesOk(frames)
        /\ frames.added = BlinksBefore(f0, f1, row, col)
        /\ \A k \in FileNums : frames.c[k] = EndOfLine
    BY DEF Filling, RowEnd
  <1>3. f0 \in Pictures /\ f1 \in Pictures /\ row \in Nat /\ col \in Nat /\ row + 1 \in Nat
        /\ \A k \in FileNums : frames.file[k] \in Pictures /\ frames.eof[k] \in BOOLEAN
    BY <1>2, FramesAssumption DEF FramesTyped, FileNums, Pictures
  <1>4. ASSUME NEW k \in FileNums
        PROVE  /\ BlankFrom(frames.file[k], row, col)
               /\ PictureOk(frames.file[k], frames.pos[k], c[k], frames.eof[k], row + 1, 0)
    <2>1. PictureOk(frames.file[k], frames.pos[k], EndOfLine, frames.eof[k], row, col)
      BY <1>2 DEF PicturesOk
    <2>2. c[k] = IF frames.eof[k] THEN EndOfLine ELSE OtherChar
      BY DEF FileNums
    <2>3. BlankFrom(frames.file[k], row, col)
      BY <1>3, <2>1 DEF PictureOk
    <2>. HIDE DEF c
    <2>4. QED BY <1>3, <2>1, <2>2, <2>3, RowTurned
  <1>5. frames.added = BlinksBefore(f0, f1, row + 1, 0)
    BY <1>2, <1>3, <1>4, BlinksOfRow DEF FileNums
  <1>6. pc = "done" => \A k \in FileNums : frames.eof[k] /\ c[k] = EndOfLine
    BY DEF FileNums
  <1>7. pc \in {"row", "done"}
    OBVIOUS
  <1>. HIDE DEF c, pc
  <1>8. /\ frames'.pc = pc /\ frames'.file = frames.file /\ frames'.pos = frames.pos
        /\ frames'.c = c /\ frames'.eof = frames.eof /\ frames'.row = row + 1
        /\ frames'.col = 0 /\ frames'.added = frames.added /\ FramesShape(frames')
    BY <1>1, <1>2 DEF FramesTyped, FramesShape
  <1>9. FramesTyped(frames')
    BY <1>2, <1>3, <1>7, <1>8 DEF FramesTyped
  <1>10. PicturesOk(frames')
    BY <1>4, <1>8 DEF PicturesOk
  <1>11. Filling(frames')
    BY <1>5, <1>6, <1>7, <1>8, <1>9, <1>10 DEF Filling
  <1>12. QED BY <1>11 DEF FramesInv

\* Before files are opened the loop is not entered.
LEMMA IdlePc == FramesIdle.pc = "idle"
  BY DEF FramesIdle

\* Every step keeps the invariant.
LEMMA FramesStep == FramesInv /\ [FramesNext]_frames => FramesInv'
  <1>. SUFFICES ASSUME FramesInv, [FramesNext]_frames PROVE FramesInv'
    OBVIOUS
  <1>1. frames.pc # "idle" => Filling(frames)
    BY IdlePc DEF FramesInv
  <1>2. ASSUME NEW f0 \in PictureFiles, NEW f1 \in PictureFiles, FramesOpen(f0, f1)
        PROVE  FramesInv'
    BY <1>2, FramesOpenOk
  <1>3. CASE NextColumn
    BY <1>1, <1>3, NextColumnOk DEF NextColumn
  <1>4. CASE RowEnd
    BY <1>1, <1>4, RowEndOk DEF RowEnd
  <1>5. CASE FramesDone
    BY <1>5 DEF FramesDone, FramesInv
  <1>6. CASE UNCHANGED frames
    BY <1>6 DEF FramesInv
  <1>7. QED BY <1>2, <1>3, <1>4, <1>5, <1>6 DEF FramesNext

\* At the end both files have ended, so that the places passed are all there
\* are.
LEMMA FramesInvAligned == FramesInv => FramesAligned
  <1>. SUFFICES ASSUME FramesInv, frames.pc = "done" PROVE FramesAligned
    BY Zenon DEF FramesAligned
  <1>0. Filling(frames)
    BY IdlePc DEF FramesInv
  <1>. DEFINE f0 == frames.file[0]
              f1 == frames.file[1]
              n == Len(f0) + Len(f1)
              blinks == AliveWithin(f0, f1, n)
  <1>1. f0 \in Pictures /\ f1 \in Pictures /\ frames.row \in Nat
    BY <1>0, FramesAssumption DEF Filling, FramesTyped, FileNums, Pictures
  <1>2. frames.added = BlinksBefore(f0, f1, frames.row, 0)
    BY <1>0 DEF Filling
  <1>3. /\ BlankFrom(f0, frames.row, 0) /\ BlankBelow(f0, frames.row)
        /\ BlankFrom(f1, frames.row, 0) /\ BlankBelow(f1, frames.row)
    <2>1. ASSUME NEW k \in FileNums
          PROVE  BlankFrom(frames.file[k], frames.row, 0) /\ BlankBelow(frames.file[k], frames.row)
      <3>1. /\ PictureOk(frames.file[k], frames.pos[k], frames.c[k], frames.eof[k],
                         frames.row, frames.col)
            /\ frames.col = 0 /\ frames.eof[k]
        BY <1>0, <2>1 DEF Filling, PicturesOk
      <3>2. QED BY <1>0, <3>1 DEF PictureOk, Filling
    <2>2. QED BY <2>1 DEF FileNums
  <1>4. AliveBefore(f0, f1, frames.row, 0) = blinks
    BY <1>1, <1>3, AllBlinks
  <1>5. frames.added = {Spot(f0, f1, p) : p \in blinks}
    <2>. HIDE DEF blinks
    <2>1. QED BY <1>2, <1>4 DEF BlinksBefore
  <1>6. QED BY <1>5 DEF FramesAligned, Spot, AliveWithin

\* Every place at which one of the pictures is not blank blinks between the
\* two, and no other does: add_frames, for any two files.
THEOREM FramesStayAligned == FramesSpec => []FramesAligned
  <1>1. FramesInit => FramesInv
    BY DEF FramesInit, FramesInv
  <1>2. FramesInv /\ [FramesNext]_frames => FramesInv'
    BY FramesStep
  <1>3. FramesInv => FramesAligned
    BY FramesInvAligned
  <1>4. QED BY <1>1, <1>2, <1>3, PTL DEF FramesSpec
============================================================================
