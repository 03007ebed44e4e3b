------------------------------- MODULE Blink -------------------------------
(***************************************************************************)
(* The blinking characters of the user program fish: the linked list of    *)
(* blink.S (add, remove, find, sync and the tasklet that runs after every  *)
(* read of the RTC), on structures fish.c hands out from an array in which *)
(* location 0 marks a free one.  A call or a run of the tasklet is one     *)
(* step: the program has one thread.                                       *)
(***************************************************************************)
EXTENDS Integers, FiniteSets

CONSTANTS NumStructs,    \* 80 * 25 in the code
          ScreenSize,    \* 80 * 25 in the code
          Locations,     \* bound: locations of the blinks added
          Lengths        \* bound: on_length and off_length of the blinks added

\* fish adds no blink at location 0: its frames begin at column 40.
ASSUME BlinkAssumption ==
    /\ {NumStructs, ScreenSize} \subseteq Nat
    /\ Locations \subseteq Nat \ {0} /\ Lengths \subseteq Nat \X Nat

Structs  == 1 .. NumStructs
NULL     == 0

VARIABLES blink_array,     \* per struct: its members
          mp1_list_head,
          vmem,            \* per location: who poked it last and what, as
                           \* <<struct, "on" or "off">>
          partners         \* history: pairs of structs that were synced

blinkVars == <<blink_array, mp1_list_head, vmem, partners>>

Free == [location |-> 0, on_length |-> 0, off_length |-> 0, countdown |-> 0,
         status |-> 0, next |-> NULL]

BlinkInit ==
    /\ blink_array = [i \in Structs |-> Free]
    /\ mp1_list_head = NULL
    /\ vmem = [l \in 0 .. ScreenSize - 1 |-> <<NULL, "off">>]
    /\ partners = {}

\* Mutant: the first structure whatever it holds.
mp1_malloc_first == 1

mp1_malloc == LET free == {i \in Structs : blink_array[i].location = 0}
              IN IF free = {} THEN NULL
                 ELSE CHOOSE i \in free : \A j \in free : i <= j

\* The structs reached from the head within n steps along next.
Walk(n) == LET at[k \in 0 .. n] == IF k = 0 THEN mp1_list_head
                                   ELSE IF at[k - 1] = NULL THEN NULL
                                   ELSE blink_array[at[k - 1]].next
           IN at
Listed == {Walk(NumStructs)[k] : k \in 0 .. NumStructs} \ {NULL}

\* The first one on the list at this location.
mp1_find_helper(location) ==
    LET walk == Walk(NumStructs)
        hits == {k \in 0 .. NumStructs :
                    walk[k] # NULL /\ blink_array[walk[k]].location = location}
    IN IF hits = {} THEN NULL ELSE walk[CHOOSE k \in hits : \A h \in hits : k <= h]

Unpaired(pairs, i) == {p \in pairs : i \notin {p[1], p[2]}}

----------------------------------------------------------------------------
\* RTC_ADD

RtcAddFails(location) ==
    /\ location >= ScreenSize \/ mp1_malloc = NULL
    /\ UNCHANGED <<blink_array, mp1_list_head, vmem, partners>>

RtcAdd(location, on, off) ==
    LET i == mp1_malloc
    IN /\ location < ScreenSize
       /\ i # NULL
       /\ blink_array' = [blink_array EXCEPT ![i] =
              [location |-> location, on_length |-> on, off_length |-> off,
               countdown |-> on, status |-> 1, next |-> mp1_list_head]]
       /\ mp1_list_head' = i
       /\ vmem' = [vmem EXCEPT ![location] = <<i, "on">>]
       /\ partners' = Unpaired(partners, i)

\* RTC_REMOVE: the one that points at it is made to point past it.
RtcRemove(location) ==
    LET i == mp1_find_helper(location)
        past == blink_array[i].next
    IN /\ i # NULL
       /\ mp1_list_head' = IF mp1_list_head = i THEN past ELSE mp1_list_head
       /\ blink_array' = [j \in Structs |->
              CASE j = i -> Free
                [] j # i /\ j \in Listed /\ blink_array[j].next = i ->
                       [blink_array[j] EXCEPT !.next = past]
                [] OTHER -> blink_array[j]]
       /\ partners' = Unpaired(partners, i)
       /\ UNCHANGED vmem

\* Mutant: the countdown is not copied.
Copied_not_countdown(to, from) ==
    [to EXCEPT !.on_length = from.on_length, !.off_length = from.off_length,
               !.status = from.status]

Copied(to, from) ==
    [to EXCEPT !.on_length = from.on_length, !.off_length = from.off_length,
               !.countdown = from.countdown, !.status = from.status]

\* RTC_SYNC: the second follows the first.  testb clears the overflow and the
\* sign flag, so cmovl never moves and the off character is displayed.
RtcSync(first, second) ==
    LET i == mp1_find_helper(first)
        j == mp1_find_helper(second)
    IN /\ i # NULL /\ j # NULL
       /\ blink_array' = [blink_array EXCEPT ![j] = Copied(@, blink_array[i])]
       /\ vmem' = [vmem EXCEPT ![second] = <<NULL, "off">>]
       /\ partners' = Unpaired(partners, j) \cup
                          (IF i = j THEN {} ELSE {<<i, j>>})
       /\ UNCHANGED mp1_list_head

\* RTC_REMOVE, RTC_FIND and RTC_SYNC of a location that is not on the list.
RtcCallFails(location) ==
    /\ mp1_find_helper(location) = NULL
    /\ UNCHANGED <<blink_array, mp1_list_head, vmem, partners>>

----------------------------------------------------------------------------
\* mp1_rtc_tasklet: every blink of the list counts down; at zero it changes.
\* (decw and jg are signed; the lengths are far below 2^15.)

Expired(b) == b.countdown - 1 <= 0

Ticked(b) ==
    IF ~Expired(b) THEN [b EXCEPT !.countdown = @ - 1]
    ELSE [b EXCEPT !.countdown = IF b.status = 1 THEN b.off_length ELSE b.on_length,
                   !.status = 1 - b.status]

\* Of several that change at one location the last on the list is seen.
Tasklet ==
    LET walk == Walk(NumStructs)
        changes(l) == {k \in 0 .. NumStructs :
                          /\ walk[k] # NULL
                          /\ blink_array[walk[k]].location = l
                          /\ Expired(blink_array[walk[k]])}
        last(l) == walk[CHOOSE k \in changes(l) : \A h \in changes(l) : h <= k]
    IN /\ blink_array' = [i \in Structs |-> IF i \in Listed THEN Ticked(blink_array[i])
                                            ELSE blink_array[i]]
       /\ vmem' = [l \in DOMAIN vmem |->
              IF changes(l) = {} THEN vmem[l]
              ELSE <<last(l), IF blink_array[last(l)].status = 1 THEN "off" ELSE "on">>]
       /\ UNCHANGED <<mp1_list_head, partners>>

BlinkNext ==
    \/ \E l \in Locations : RtcAddFails(l) \/ RtcRemove(l) \/ RtcCallFails(l)
    \/ \E l \in Locations, len \in Lengths : RtcAdd(l, len[1], len[2])
    \/ \E l, m \in Locations : RtcSync(l, m)
    \/ Tasklet

BlinkSpec == BlinkInit /\ [][BlinkNext]_blinkVars

----------------------------------------------------------------------------
\* The list ends, and holds exactly the structures that are in use, after any
\* adds, removes and reuses of freed structures; for blinks that are not at
\* location 0, which malloc takes for free.
ListIsInUse ==
    /\ Walk(NumStructs)[NumStructs] = NULL
    /\ Listed = {i \in Structs : blink_array[i].location # 0}

\* Two blinks that were synced stay in step, and a location shows the character
\* of the state its blink is in if that blink was the last to write there;
\* a sync writes the off character whatever the state, and no blink counts as
\* its writer.
SyncedInStep ==
    /\ \A p \in partners : /\ blink_array[p[1]].status = blink_array[p[2]].status
                           /\ blink_array[p[1]].countdown = blink_array[p[2]].countdown
    /\ \A i \in Listed :
           LET seen == vmem[blink_array[i].location]
           IN seen[1] = i => seen[2] = IF blink_array[i].status = 1 THEN "on" ELSE "off"
============================================================================
