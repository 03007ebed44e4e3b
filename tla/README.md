# A TLA+ development for the Light-OS kernel

Light-OS is a teaching kernel for the i386 (`student-distrib/`): one CPU, three
terminals with a root shell each, up to six processes, a read-only file system,
a virtualised real-time clock and a keyboard. It is small, but nearly all of it
runs with interrupts enabled: every gate of the IDT is a trap gate
(`idtInit.c`), so a timer tick, a key or a clock interrupt can arrive between
any two instructions of a system call, of another interrupt handler and of the
assembly linkage. That is what its tests (`tests.c`, `syscalls/ece391syserr.c`)
can hardly reach and what the modules here are about.

All paths below are relative to `student-distrib/` unless they say otherwise.

## 1. Inventory

| Component | State | Operations | Interacts with |
|---|---|---|---|
| Processes (`syscall.c`, `pit.c`) | `processes`, `process_count`, `active_terminal`, `active_pid`, `current_process_id` of each terminal, the pcbs, `tss.esp0`, the 128 MB page | `execute`, `halt`, `get_process_available`, `release_process`, `schedule`, `boot_enter_terminal_N` | the PIT preempts everything; calls the file system, the descriptor table and paging |
| Descriptor tables (`general_file.c`) | eight descriptors at the head of each pcb | init, open, close; read and write through the operation tables | file system, rtc, terminal |
| File system (`filesystem.c`) | an image in memory, never written | `read_dentry_by_name`, `read_dentry_by_index`, `read_data`, `file_read`, `dir_read` | called by execute and by descriptors |
| Real-time clock (`rtc.c`) | `virtual_rate`, `virtual_count` per terminal | `rtc_handler`, `rtc_read`, `rtc_write` | polled by programs, preempted by the PIT |
| Keyboard and terminals (`keyboard.c`, `terminal.c`) | key buffer, its size, overflow and enable flag per terminal; modifier keys; `current_terminal` | `keyboard_handler`, `terminal_read`, `terminal_write`, `switch_to_terminal_N` | echo on the screen, wakes the reader |
| Video pages (`paging.c`, `syscall.c`, `lib.c`) | the page at `VIDEO_MEM`, the vidmap page, one saved screen per terminal | `paging_video_memory`, `syscall_vidmap`, `putc`, the echo | set by execute, halt, schedule and the terminal switch |
| Linkage (`*Wrapper.S`) | the kernel stack | interrupt, exception and system call entry and exit | every other component |
| Exceptions (`exceptions.c`) | none | print and halt | ends a terminal, not the scheduler |
| Console (`lib.c`) | cursor per terminal, the display's cursor | `putc`, the echo and its backspace and clear, scrolling, `printf` | video pages, keyboard |
| Program arguments (`syscall.c`) | a global `arg_buf` and `argument_exist`, a copy of the first per pcb | parsing in execute, `getargs` | execute, all terminals |
| Interrupt controller (`i8259.c`) | masks, pending requests, lines in service | `i8259_init`, `enable_irq`, `send_eoi` | orders all interrupts |
| Boot (`boot.S`, `kernel.c`) | what is set up so far | `entry` | calls every `*_init` |
| Programs (`../syscalls`, `../fish`) | their own | shell, cat, ls, grep; fish with its list of blinking characters | system calls only |
| Descriptor tables (`idtInit.c`, `x86_desc.S`), paging set-up, signals (stubs), tests, tools | see `PROJECT.json` | | |

What is hard in it:

* **Torn updates.** `process_count++`, the search for a slot, the two halves of
  execute and halt, and `virtual_count--` are sequences of instructions a tick
  may separate.
* **Two notions of the running process.** `active_pid` and
  `current_process_id` of the terminal change at different moments, and
  `schedule` saves through one and loads through the other.
* **Kernel stacks.** `esp0` decides whose stack the next kernel entry uses, and
  a saved context is only an address into such a stack.
* **Displayed and active terminal** are different things that move
  independently, and almost every output path depends on both.
* **Polling.** `terminal_read` and `rtc_read` spin on variables that interrupt
  handlers change; whether they ever end depends on those handlers and on the
  scheduler.
* **Interrupts from the start.** `clear()` ends in `sti`, so `entry` sets up the
  IDT, the PIC and everything else with interrupts on, and a handler that a tick
  suspends keeps its line in service.
* **Globals shared by terminals.** `arg_buf`, `argument_exist` and the cursors
  are read and written by executes, programs and keys of several terminals.
* **Boundaries.** A full key buffer, a full descriptor table, names that fill
  their field, reads across block and file ends, the last cell of a screen, the
  smallest integer, a line as long as grep's buffer.

What correct means, component by component: a switch always finds the frame it
returns through, and processes of a terminal form a chain (Process); a process
is served exactly the descriptors it holds and reads each byte once (FdTable);
lookups and reads agree with the image (FileSystem); a read of the clock waits
for the interrupts of its rate and ends (Rtc); a read of the terminal returns
the line typed at it and ends (Terminal); each terminal writes on its own screen
(Video), which shows the text in order (Console); a linkage leaves registers and
stack as it found them (Linkage); interrupts are taken only when their handlers
can run, and requests are served (Interrupts); a command is answered by its own
words (Commands); programs compute what they say (Printf, Grep, Blink, Frames).

The hazards, each at its line, are listed in `PROJECT.json` with the properties
that would catch them.

## 2. Modules

Names in the modules are those of the C code where that is possible. A history
variable is marked as such where it is declared; no guard ever reads one.

**`Process`** (composes pool, execute, halt, scheduler). `cpu` is the flow of
control on the CPU: the point of the code it has reached, the stack area it
uses, and its one local value. `context[p]` is what `current_esp` and
`current_ebp` in the pcb of `p` designate: a flow, or one of four kinds of
values that are no frame (never written, the initial value, frames already
returned through, frames overwritten). `execute` is fourteen points and `halt`
eleven, one for each group of instructions that changes shared state; loads and
stores of `process_count` and of a slot are separate points. `schedule` runs
with interrupts off and is one action (`TickBoot` for a terminal's first turn,
`TickResume` afterwards). A kernel entry from user mode overwrites whatever
frames lie in the area `esp0` names (`Overwrite`); `Lost` are the terminals whose
flow was overwritten this way, with whatever slot and count it held. `Tick` is
enabled at every point. Fifteen of them form five windows, each named for what
a tick there tears: the count, the slot search, the second half of execute, the
release of a slot, and halt's return to the parent (`SafePoints` are the
others). The history variable `torn` becomes true with the first tick in a window
(or with a shell that executes before every root shell has run), and stays so.
The promises of execute, halt and schedule are stated until then (`~torn =>`);
afterwards the model goes on, and `RootsKeepSlots`, `KernelCallsEnd` and three
violated properties are about what it does. The windows are as small as they can
be: taking any one point out of them makes a property of `process_safe` fail.

**`Chains`** (abstract): what execute, halt and the scheduler promise together,
without ticks, stacks or a pool: each terminal has a chain of processes, execute
appends one that is in no chain, halt takes off the last. The promise ends with a
torn call: `broken` (mapped to `torn`) becomes true in the step `Break`, and
nothing is said of the chains from there on. `Process` implements it
(`ImplementsChains == Chained!Spec`): a chain is `current_process_id` of the
terminal and the allocated slots whose pcb names the terminal and whose process
waits in execute for its child (`Waits`); the step that maps to `Execute` is the assignment of
`current_process_id` in execute (line 195), the one that maps to `Halt` is that in
halt (88-90). All other steps are stuttering, `Start` (a first tick) or `Break`.

**`FdTable`**: one process slot and its successive processes. Sizes are `int32_t`
that become `uint32_t` on the way to `file_read`, positions are `uint32_t`: both
are words of `2 * HalfWord` values, and `Advanced` wraps. A negative size reads to the
end of the file and then moves the position by its value modulo the word, that
is backwards; `rewound` records on which descriptors one did. The
word behind a full table that `open` sets is the pcb's `current_ebp`, which `schedule`
and execute store again before it is next loaded; it is left out. Slots of programs a
shell executes are modelled; a root shell that is restarted keeps its table (see
section 7).

**`FileSystem`**: the algorithms as operators (`read_dentry_by_name`,
`read_data`) next to what a caller means (`Lookup`, `Slice`), and a small state
machine that calls them and lists the directory. Names are sequences of
printable characters, stored without a final zero when they fill their field.

**`Rtc`**: `rtc_handler` is split at the load and the store of each
`virtual_count--`, and lies on the stack of the process it interrupted, so a
tick may suspend it (`Tick`; `torn` records it). `owed` counts, independently of
the code, the interrupts a read has to wait for.

**`Terminal`**: the line discipline, statement by statement. There is at most one
`keyboard_handler` at a time, its line being in service (`InServiceHasHandler`);
`handler` is the statement it has reached, and a tick may suspend it at any of
them while readers run. Its tests of `keyboard_buffer_enable` (109, 113, 117), its
stores, `size++`, the load and the store of `size--`, and the clearing of the flag are
steps, as are the poll, the comparison, the second fetch of the size, the copy and the
reset of `terminal_read`. Statements are one step where nobody else can
touch what they touch: the copy, since no store goes to a line a reader has begun to
take (`LineStandsStill`, which a run checks and a theorem proves); `size++`, since
the flag is still set then and the reader polls; the test of a backspace with its
branch. The stack the handler lies on is left out: its steps and those of any reader
interleave freely, which includes every order the scheduler can make. The byte behind the
buffer is the low byte of its size, and `KeyStores` writes there when the buffer is
full; with a size of -1 it writes to the word in front, `screen_y`, which is not
part of this module. `typed` is the line as the user edited it, and `flaws` what has
happened to it that the code gets wrong: it overflowed; a read reset the size between
the test and the store of a backspace (`crossed`: the size is then -1, or an old one);
its newline came just as the read began and was taken for a character (`late`: 109
and 113 found the flag clear, 117 set). Letters include keys whose character is
`'\0'` in the scancode table.

**`Video`**: frame 0 is the screen, frame t the page of terminal t. A frame shows
the set of marks written to it; `picture` is what each terminal wrote.
`paging_video_memory`, when execute or halt call it, is two steps with keys in
between. `stale` records that the pages were set for a displayed terminal that
is no longer the displayed one, `spoilt` that something was written meanwhile.
Ticks inside that pair are left to `Process`, whose windows they fall into.

**`Console`**: `putc`, its twin for the echo, backspace and clear, one step per
statement that moves the cursor, writes a cell or scrolls. One writer per
terminal is the program that runs there; one more is the echo, which follows the
displayed terminal. A whole scroll, the wrap to the next row and a backspace are one
step each: no write to the cells between their statements would go further than
`WritesNearGrid` says, and the other two properties except overlaps. Cells are kept for
one terminal, which may be displayed or not. `page` is what an ideal typewriter would have on the page; `torn` records
that a putc and an echo overlapped, `late` that the display's cursor was set from
arguments fetched before another change.

**`Interrupts`**: boot and the PIC. `boot` is the next step of `entry()`, `ready`
what it has set up; the file system is among it only if the loader passed one
(`kernel.c` 57-61), and without one there are no shells for the first tick to enter
(`boot = "astray"`). A key that comes while `entry()` runs can be a terminal switch,
which faults (`KeyFaults`); its echo goes to pages that are mapped, or, before paging,
to an address that is not the screen. `imr`, `irr` and `isr` are the lines masked, pending and in
service of the two 8259s. Handlers lie on the stack of the flow they interrupted
(`handlers`), and a tick gives the CPU to the next terminal in the middle of
them. The first tick leaves `entry()` for good, with any handler on its stack
(`abandoned`). The chips and the processor are marked external in the map.

**`Commands`**: a command line from the shell through execute's parser, character
by character, to `getargs` in cat, with the globals `arg_buf` and
`argument_exist`, on several terminals at once. Lines have any length: execute refuses
those longer than `ArgLength + 3` (33 in the code), and writes past `arg_buf` for some
it takes; what lies there is unknown, `argument_exist` among the candidates (`Store`).
`crossed` records whether an
execute of another terminal came in between, before or after the argument was in
the pcb. `Answer` is what the user expects, computed from the words of the line.

**`Printf`**, **`Grep`**, **`Blink`**, **`Frames`**: `printf` with `itoa` on words of
a given width; grep's search of one file through its buffer; fish's linked list
of blinking characters (`blink.S`) on the structures `fish.c` hands out; and
fish's reading of two pictures side by side. Each has a reference definition of
what its user means. `MCPrograms` puts them, `FileSystem` and `FdTable` into one run: they
share no state, and a behaviour is that of one of them.

**`Linkage`**: each push, call, pop and `iret`, with interrupts nesting at every
instruction. Registers hold tokens that name what they held in the interrupted
program. `MCInterrupts` runs it beside `Interrupts`, in the same way.

`MC*` modules give instances, `*Proofs` modules the theorems. Small components
share a proof module: `InterruptsProofs` has those of `Interrupts` and `Linkage`,
`FdTableProofs` those of `FdTable`, `FileSystem`, `Grep` and `Commands`, `RtcProofs`
those of `Rtc`, `Blink` and `Frames`, `ConsoleProofs` those of `Console` and `Printf`.

## 3. Runs

| Run | Instance | Shows |
|---|---|---|
| `process_safe` | Process, 2 terminals, 5 slots, ticks everywhere, up to and including the step that tears a call; 1.0 million states | until then contexts, pages, slots and the count are kept by every interleaving, and Process implements Chains |
| `process_any` | Process, 2 terminals, 3 slots, ticks everywhere, executes at once after boot, behaviours continued after torn calls | root shells keep their slots; under fairness every execute and halt ends |
| `rtc` | 2 terminals, physical rate 8 | reads wait for their interrupts until a tick suspends the handler; they always return |
| `terminal` | 2 terminals, one with a reader, buffer of 3, reads of 2 and 4 | lines, reads and waking of the reader, statement by statement, with editing, overlong lines and late keys |
| `video` | 3 terminals, 2 processes each | screens stay apart |
| `interrupts` | 3 terminals, timer and keyboard left unmasked by the loader, with and without a file system; linkages nested 3 deep | boot lets no interrupt in too early once the PIC is masked, each line in service has one handler (which `Rtc` assumes), and under fairness keys and clock are served; the assembly around a handler is transparent |
| `console` | 2 terminals, 2 rows of 2 columns; 5.7 million states | writes stay within one row of the grid, the screen shows the text, the display shows the cursor |
| `programs` | see below; 340 thousand states | file system, descriptor table, commands, printf, grep and fish against their definitions |

Four runs end in a counterexample, where the code does not do what its own
comments, messages, log or tests say (`findings` in `PROJECT.json`):

* `process_stack`: `execute` sets `tss.esp0` to the stack of the next pid
  (`syscall.c` 208; all other places subtract one), so until its first tick a
  new process enters the kernel on another process's stack.
* `process_refuse`: a tick between the test and the mark of `get_process_available` (33)
  hands one slot to two terminals. The count is too high then, and execute refuses (108)
  with a slot free.
* `process_panic`: a tick between `current_process_id` (195) and `active_pid` (207) in
  execute saves the frame in the parent's pcb, and the terminal's next turn loads the
  child's, which holds none.
* `linkage_syscall`: `syscall_wrapper` reaches `iret` with its pushed registers
  still on the stack. The boot image committed beside the source has the pops;
  the other modules take system calls to return.

**Bounds and why they are enough.** Process: `process_safe` has the state constraint
`Untorn`. It loses nothing: every property of that run is void once `torn` is true,
nothing resets `torn`, and the step that sets it, which the refinement must map to
`Break`, is still checked. With two terminals and five slots
both can compete for the slots and one can be refused, a child can have a child,
and there is room for a kernel entry on the wrong stack to overwrite an execute
that is under way, whose slot and count are then lost, and for a later execute
to be refused because of it. More terminals are
the business of the theorems of section 4. With two terminals and three
slots (`process_any`) one slot is contended; `process_count` is explored over
the range torn updates can reach there (`Counts`). FdTable: two free
descriptors can be exhausted, leaked and reused, in either order; files are as long as half a word
at most, as in the code, so a word of eight values has positions at, before and behind
the end, and sizes that wrap. FileSystem: files that end
inside, at and behind a block boundary, names shorter than, as long as and
longer than the field. Rtc: a rate of 8 gives counts of 4, 2 and 1 for the legal
rates 2, 4 and 8. Terminal: a buffer of three holds a character, a second one
and the newline, and overflows at the next; reads shorter than the line, and longer.
`MaxOverflow` bounds newlines at a full buffer that no backspace has taken back: one
can be counted and taken back. Video: three terminals are the
displayed, the active and a third one. A frame keeps whose mark it is, so one
mark per terminal is enough; a behaviour is not continued once `spoilt`, since
what frames show influences no other variable. Linkage: an interrupt in an
interrupt in a system call. Interrupts: the code's three terminals, so a handler
can wait for two others; one pending request per line is what the chips keep.
Console: with two rows and two columns every character is at an edge, and three
writers (two programs and the echo) meet at one cursor. Commands: two terminals,
lines with leading, doubled and trailing spaces, with and without argument,
unknown names, more than two words, words that fill and overrun a buffer of
five bytes, and one that is refused. Printf: words of eight bits at 0, the last
digit, the sign and the end, in formats of up to three items. Grep: all files of
up to six characters over a buffer of three, so a line can begin, end and lie
across any read. Blink: three structures, two locations and one out of range,
short and long halves. Frames: all pairs of pictures of up to three characters.

`interrupts` does not check deadlock: an exception stops the machine, and so do a
refused boot, a triple fault and a page fault at boot.

**Fairness.** `Process`: strong fairness of `Tick` and of each terminal's kernel
steps. The PIT is periodic and ticks are disabled only for the few instructions of
a handler, so a tick that is possible again and again happens; between two ticks a flow takes many
instructions, so it advances each time it has the CPU, and what it is doing is
enabled only while it has it, hence strong. Programs in user mode owe nothing.
`Rtc`: the clock fires, its handler is entered, and a handler, a tick and a
poll that are possible again and again happen, for the same reasons. `Terminal`:
a reader in `terminal_read`, and the handler under way, are scheduled; nobody has to
type. `Interrupts`: weak fairness of
the timer and the clock, which are periodic; strong fairness of boot's steps, of
the delivery of each interrupt and of each flow's handler steps, since delivery is
disabled by higher requests and a flow by the others' turns, both again and again.
`RequestsServed` of the clock is stated for behaviours in which timer and keyboard
leave the controller a moment of rest again and again: the priorities of the 8259
promise nothing else.

**Assumptions of the models.** A shell executes what a human typed, long after
the three ticks in which all root shells start (`EarlyExecute = FALSE`; only
`process_any` allows it earlier). The PIT does not fire twice inside one
`schedule()`, whose `sti` comes two instructions before it loads the new stack
(line 533). A blue screen is preemptible: `exception_handler`'s `printf` ends in
`set_cursor_position`, which does `sti`. That there is one `rtc_handler` at a
time, which `Rtc` assumes, is `InServiceHasHandler` of `Interrupts`, proved for any
number of terminals. There, devices
raise requests only once the controller has been programmed; before that, what
the boot loader left unmasked may interrupt, and ends in a triple fault. A tick is
one step, because `pit_handler` turns interrupts off before its EOI. Programs of
the image pass to `printf` formats that do not end in `%`.

## 4. What is proved

TLAPS checks the following for all values of the constants that satisfy the
named `ASSUME`s; none of these depends on the bounds of section 3.

* **`ProcessProofs`, first half** (any numbers of terminals and slots, ticks at every
  point and behaviours continued after torn calls; `~EarlyExecute`):
  `TypeCorrect`, no table is ever indexed out of range, and `RootShellsKept`.
  Neither is inductive: `halt` writes through `active_pid` and through the parent
  it reads from a pcb, and a flow that was saved comes back as whichever pid it
  was saved under. `IInv` adds that the roots' and all parents' pcbs are made
  (`RootsMade`, `ParentsMade`), that `current_process_id` and `active_pid` name
  such pcbs (`CurrentMade`, `ActiveMade`), what each point of a flow knows about
  its pid and its local value, on the CPU (`RunningKnows`) and in every pcb
  (`SavedKnow`), the slots the kernel never gives away (`KernelSlotsTaken`) and
  the order of the first turns (`BootPhase`).
* **`ProcessProofs`, second half** (any numbers of terminals and slots, ticks at every
  point, early executes too): all
  invariants of `process_safe` (`AlwaysResumable`, `ParentsWait`, `UserAsItself`,
  `PoolCounted`), its action property (`RefusalsJustified`), and the refinement
  (`ProcessImplementsChains`), from which `OneChainEach` follows. Each says what its
  property says, that is, until `torn`; none assumes anything of where ticks come. The
  inductive invariant is `UInv`: torn, or `SInv`. A step that sets `torn` is a tick in a
  window, or an execute before all roots have run, and leaves nothing to show but that it
  is `Break`; any other step preserves `SInv`, which is `IInv` with four parts. `Run` says for each point of the running flow what it has
  already done to the tables: which of `active_pid` and `current_process_id` is
  ahead of the other, whether its slot is marked, whose page is mapped, what was
  loaded of the count. `Tables` says the same of what lies suspended: terminals
  that wait for their turn can be resumed and hold their slot, frames lie only in
  pcbs in use, and a child an execute has not finished is in no chain and belongs
  to no other execute (`EmbryosOk`). `ChainsOk` is the invariant of `Chains` seen
  through the mapping: that a halt goes back to the *right* parent depends on the
  processes being chains, so the refinement and the invariants are proved together,
  each step being shown to map to `Execute`, `Halt`, `Start` or a stutter. `PoolCount`
  is a sum over all terminals; each action changes one terminal's membership in
  `Claiming`, `Leaving` or `Lost` and at most one slot.
* **`ChainsProofs`** (any `Terminals` within `Pids`): `ChainsStayChains`, the
  abstract specification keeps one chain per terminal (`OneChainPerTerminal`).
  Its `IInv` adds the types and that a chain holds no other terminal's root shell
  (`RootsAtHome`), without which a first tick could start a shell that is already
  in a chain. `ProcessProofs` instantiates the module with the mapping.
* **`TerminalProofs`** (any number of terminals, any buffer of at least
  two bytes, any read sizes): `TypeCorrect`, `BufferHoldsLine`, `ReadsReturnLines`,
  `ReadsStayInBuffer` and `LinesStandStill`. The invariant says, for each statement of the
  handler and each of the reader on the same terminal, what holds between the two: a
  handler that stores or counts a character has found the flag set, so its reader polls;
  a reader past the poll has found it clear, so the handler can only be one that tests, or
  is inside a backspace; a size a backspace has loaded is the size, or the reader has
  reset it. From the first two follows that nobody writes to a line under a reader, from
  the third that a size is -1 at the lowest.
* **`InterruptsProofs`** (any number of terminals, any lines the loader left
  unmasked): `InServiceHandled` and `InterruptsServedWhenReady`. `IInv` ties what is
  set up to the step of `entry()` that is next (`BootOrder`; the file system is set up at
  its step or never), says that an unmasked
  line has what it needs (`OpenWhenReady`), that there is no handler before the
  gates are loaded (`NoEarlyHandler`), and that over all stacks each
  request has at most one handler and each line in service one (`OneFrameEach`, `LinesServed`).
* **`InterruptsProofs`**, second half (module `Linkage`, any `MaxNesting`): `InterruptsComeBack` and
  `InterruptsTransparent`. `LInv` counts words and activations from the bottom of
  the stack, where they keep their numbers while others come and go above them. It
  says how many words each activation has at each of its steps, what those of an
  interrupt hold, and that the registers a suspended activation goes on with are
  those the next one found at its entry. A system call is only ever at the bottom,
  so its unbalanced `iret` (section 3) disturbs no interrupt.
* **`FdTableProofs`, first part** (any table, directory, files of up to half a word, sizes
  over the whole signed range): `TypeCorrect` and the three invariants of the table. `IInv` is their
  conjunction with `StdHaveNoInode`: what keeps `close` from closing 0 and 1 is
  that they have no inode. `EveryByteOnce` holds although `file_read` moves the
  position by the size asked for, because a position past the end yields nothing and
  a size that is not negative cannot carry a position inside the file around the word.
* **`FdTableProofs`, second part** (module `FileSystem`; any image, block size, name
  field and arguments): `LookupsRight`, `ReadsRight` and `DirectoryListed`. The loop of
  `read_data` over blocks is a recursive function. For such a function the proofs
  give a closed form and show that it satisfies the same equation, so that the
  function exists; the least index at which another solution differed from it
  would contradict the equation (`LoopIs`, with `LeastNat`).
* **`FdTableProofs`, third part** (module `Grep`; any files, patterns and buffer of at
  least one byte): `GrepRight`. `Searching` says that what was printed, followed by what
  is to come from the place the buffer stands at, is what a reader of the whole file
  expects, and that the buffer from its current line on is a copy of the file.
  What is to come is again a recursive function, towards the end of the file; it
  exists because a solution for the end extends by one index at a time.
* **`FdTableProofs`, fourth part** (module `Commands`; any number of terminals, lines of
  any length): `CommandsAnswered`. Of a line whose words overrun a buffer only the
  types are kept. `CmdOk` says for each place of a
  command what is cut out of its line so far, and what `arg_buf`, `argument_exist` and
  the pcb hold of it, unless an execute on another terminal has crossed it. That
  `argument_exist` and `arg_buf` are each right until the moment an execute crosses is
  what relates the terminals: every step of execute that writes them changes
  `crossed` of all commands they were meant for (`NowCrossed`).
* **`RtcProofs`, first part**: `TypeCorrect` with ticks anywhere (`HandlerSane`: the value a
  handler has loaded is positive), and `ReadsWaitLongEnough` and
  `EveryInterruptCounted` until the handler is suspended. `CInv` says where the
  handler is (`HandlerHere`), that what it loaded is still the count
  (`LoadedIsCurrent`), and how many terminals it has counted for (`Progress`).
* **`RtcProofs`, second part** (module `Blink`; any number of structures and
  locations): `ListStaysInUse` and `SyncedStayInStep`. `ListInv` names a sequence of structures
  without repetition that begins at the head, follows `next` to `NULL` and has exactly
  those in use; that it is no longer than the array is the pigeonhole
  principle. `PartnersInStep` and `SeenRight` add that synced pairs agree on
  status and countdown, and what the last writer of a location left there.
* **`RtcProofs`, third part** (module `Frames`; any two files, width and offset):
  `FramesStayAligned`. `PictureOk` says that the place at which a picture is read is
  the row and column `add_frames` is at, or that the picture is blank from there to the
  end of the row, or altogether.
* **`ConsoleProofs`** (a grid of any size, any number of terminals, any characters
  written): `NoWriteFarOff`, `CursorStaysShown` and `ScreenIsText`. `CursorNear` bounds the
  cursor at every step of every writer: one row more for each of the two writers of a
  terminal that has gone to the next row since its check, one column more for each
  in the middle of a wrap. `ArgsFresh` says that a position fetched for the display is
  current, or its writer is among those whom a change has passed. For the text,
  `Stage` relates the grid and the cursor to the typewriter's page at each step of
  the one writer on the screen: the page is already the one after the character, and
  the grid what putc has made so far of the one before.
* **`ConsoleProofs`, second part** (module `Printf`; words of any number of bits that is
  a multiple of four, formats of any length): `PrintfPutsArguments`. The invariant is
  just that the output is what `printf` makes of the last format; the work is what the
  recursive definitions compute. Numerals: by complete induction on the value, the
  digits of a number in reverse read back as that number, without a leading zero, and
  a number below 16^h has at most h of them (powers of two are counted as subsets).
  Formats: the format is the spellings of its items joined and the words are what they
  take, so each item is found at the end of those before it. The loop: its recursive
  function is built from the end of the format, and an induction from the last item to the
  first shows that at each item's place it puts the item's piece and then the rest. The
  ends of the pieces are then among the cuts `PrintfShowsArguments` searches for.
* **`VideoProofs`**: `TypeCorrect`, `OutputGoesHome`, `NoTerminalWritesOnAnother`
  and `VidmapStays`. `SInv` adds that the flag `paging_video_memory` has picked
  up gives the process that goes on its mapping (`FlagFresh`) and that a mapping
  shows its own screen (`VidmapOwnPage`).

Assumptions that the proofs rest on, beside the sizes being natural numbers: no
character of a query is the type of a directory entry, since a comparison that runs
past a full name field reads that byte (`FsAssumption`; types are 0 to 2, characters
printable); fish uses no blink at location 0, which its allocator takes for free
(`BlinkAssumption`; its pictures begin at column 40); an entered line has no zero byte, and names of programs and files are not empty and
shorter than `arg_buf`, as the name field of 32 bytes makes them
(`CommandsAssumption`); a character is not one of the console's three control
operations (`ConsoleAssumption`); patterns are not empty and hold no newline, and
files of text no zero byte (`GrepAssumption`); the literals of a format are not
conversion characters, and arguments of `%s` are strings of literals and percent signs
(`PrintfAssumption`). The invariants that are conditional
are proved with the condition their definition has, nothing else: until a tick tears
a call, until a tick suspends `rtc_handler`, until a putc and an echo overlap, while each line fits the
buffer of grep, and so on.

Only model-checked: all liveness properties (`process_any`, `rtc`, `terminal`,
`interrupts`), which are beyond this prover, and the runs that end in a counterexample.
The types of the modules with proofs are theorems or part
of their inductive invariants; of the runs only `terminal` lists them, since there a
character stored past the buffer changes the size that is the next index.

For the proofs of recursive definitions, `Commands` counts words with `Cardinality` and
`Frames` finds its rows in the same way, instead of with `SelectSeq`, and `Printf` has
recursive functions for the digits and for the loop; `MCPrograms` checks that the
definitions mean what they meant. Where a proof needs an induction, it is over a set of
numbers (`UpTo`, `DownFrom`, `Complete`, from the least-number principle), and each
recursive function is shown to exist before it is unfolded.

Attempting the proofs of `process_safe` changed the model's properties: at sizes other
than the instance first checked, `process_count` is not exact and not every refusal is due to a
slot in use or spoken for (first item of section 7). The instance was changed to one
that reaches this case, and `PoolCount`, `RefusalJustified` and the chains are
stated so that they account for it.

## 5. Not modelled

* Signals: `set_handler` and `sigreturn` return -1.
* `rtc_open`, `rtc_close`, the `*_device` functions, `disable_irq`, `back_putc`,
  `test_interrupts` and the `open` and `close` members of the operation tables
  are never called.
* `tests.c` belongs to earlier checkpoints and is not run; `ece391syserr.c` tests
  error returns; the two `ece391emulate.c` run programs on Linux.
* hello, testprint, counter, pingpong and sigtest: a loop of writes, or signals.
* `memcpy`, `memset`, `memmove` in assembly: assignments where they are called.
* Constant tables (GDT, scancodes beyond the classes `Terminal` tells apart, the
  page tables besides the video pages), screen attributes, wording.
* The restart of a root shell in `FdTable`, and a tick inside the two
  instructions after `schedule`'s `sti`.

## 6. Plan

Done, in this order: Process, FdTable, Rtc, Terminal, Linkage, FileSystem, Video
and their proofs; then Interrupts (PIC and boot), Console, Chains with its proof
and the refinement, Commands, Printf, Grep, Blink and Frames; then the proofs of
Process until a call is torn, with the refinement, and those for Terminal, Interrupts
and Linkage; then those for Console, FileSystem, Grep, Commands, Blink, Frames and Printf;
then ticks at every point of Process, the statements of `keyboard_handler` and
`terminal_read`, words that wrap in `FdTable`, boots without a file system and lines of any
length.
Left: the root shell's restart in `FdTable`.

## 7. Smaller disagreements

Met while modelling; the models follow the code, and the properties are stated
so that they hold of it.

* `esp0` of a new process names another process's stack (`process_stack`). If the
  frames there are those of an execute suspended after `process_count++` (`syscall.c`
  178) or `get_process_available` (179), that execute never ends: its slot and its
  count are lost, and execute refuses earlier for ever after. `Lost` in `PoolCount`
  and `RefusalJustified` stands for them.
* A tick inside `get_process_available` (line 33) can give one slot to two
  terminals, and one inside `process_count++` (178) or `--` (78) loses
  an update, after which execute refuses although a slot is free, or admits more than
  there are. `process_refuse` is a refusal of that kind.
* A tick in halt after its slot is free (79-86) lets an execute take the slot whose pcb
  and stack halt still uses; one after `active_pid` is the parent (87-101) stores the
  child's frame over the parent's. Both are windows, and both can end like
  `process_panic`.
* `file_descriptor_table_open` marks the descriptor before the lookup
  (`general_file.c` 55) and does not unmark it when the name is missing; `close`
  refuses it since its inode is -1. Each failed open costs a descriptor, where
  `../syscalls/ece391syserr.c` 102 expects all six to be usable.
* A root shell that halts is entered again without
  `file_descriptor_table_init`.
* `open` of the rtc does not call `rtc_open`, so the 2 Hz its comment promises
  (`rtc.c` 119) are the rate of whatever program ran before.
* A character typed at a full key buffer replaces the low byte of
  `keyboard_buffer_size` (`keyboard.c` 118). The flaw `overflow` excludes such lines.
* `keyboard_buffer_size--` (`keyboard.c` 99) suspended on its way while a read resets the
  size (`terminal.c` 58, 63) leaves -1 or an old size, and the next line begins with
  characters of the last one, or in front of its buffer: the flaw `crossed`. The store of a
  character with its `size++` (118-119) cannot be torn that way: the flag that is
  tested before it stays set, and the reader polls.
* An enter whose tests find the flag clear at 113 and, a read having begun, set at 117 is
  stored as a character and does not end the line: the flaw `late`.
* A negative size given to `read` moves the position back (`filesystem.c` 285), and the
  bytes behind it come again: `rewound`.
* Without a module that holds a file system `entry()` starts the timer all the same, and
  the first tick enters a shell that was never loaded: `astray`.
* Backspace and ctrl-L between enter and the reader's turn edit a line that is
  complete; `read` then returns without the newline `terminal.c` 55 speaks of.
  `Ended` excludes it. When nothing is left the newline goes to `buf[-1]`
  (`terminal.c` 62), and the read returns 0.
* `dir_read` ends at the constant 18 (`filesystem.c` 212), right for the shipped
  image with its 17 entries; `ListsAllEntries` says for which images.
* A terminal switch inside execute's or halt's `paging_video_memory`
  (`syscall.c` 370), and `vidmap` called in the background (422), leave a
  program writing on a screen that is not its own until the next switch or tick:
  `stale`.
* A tick between `current_process_id` (line 195 of `syscall.c`) and `active_pid`
  (207) in execute saves the frame in the parent's pcb, while the terminal names
  the child, whose pcb still holds the initial `USER_STACK_BASE_ADDRESS`: the
  terminal's next turn loads it (`process_panic`). `../buglog` 118-120 records a 'page
  fault after context switch' as solved. `ExecWindow` is that interval.
* A suspended `rtc_handler` (`rtc.c` 31) stores an old count over one that a read
  has reloaded meanwhile: the read returns early, where `rtc.c` 139-140 says it
  waits 'for a calculated number of actual interrupts'. `NoEarlyReturn` and
  `CountIsOwed` are stated until a handler has been suspended (`torn`).
* `argument_exist` is not part of the pcb: `getargs` after another terminal's
  execute may report an argument that is not there, or none (`syscall.c` 255).
  `arg_buf` (193) may hold another command's argument if that execute came before
  the copy. `CommandAnswered` says exactly which answers are possible.
* An echoed newline stopped between `screen_y++` and its scroll (`lib.c` 577) lets
  a `putc` of the displayed program write one row past the grid (228): up to cell
  2079, where the page has 2048. `WritesNearGrid` bounds it.
* The first tick may abandon a keyboard or clock handler that had interrupted
  `entry()`, whose line then stays in service for ever (`syscall.c` 516-525):
  `abandoned`.
* `entry()` runs with interrupts on and without an IDT from `clear()` (`kernel.c`
  31) to `idt_init` (148), although its comment (158-160) puts that later.
  An interrupt the loader left unmasked is a triple fault there (`TripleFault`);
  `ServedWhenReady` is about what comes after the PIC is masked.
* Keys are taken as soon as `keyboard_init` and `page_initialize` have run, and alt-F2
  before the first process has `paging_video_memory` read the pcb of process 0
  (`syscall.c` 369, 378), behind the kernel's 4 MB page: a page fault (`KeyFaults`).
* The test `len > MAX_ARG_LENGTH + 4` (`syscall.c` 117) lets lines of 33 to 36 characters
  pass, whose one word may not fit the 33 bytes of `fn`, nor an argument those of
  `arg_buf`. What such a line does is not said by `CommandAnswered` (`WordsFit`).
* grep reads a byte nobody wrote, `data[BUFSIZE]` (`../syscalls/ece391grep.c` 32),
  when a read fills its buffer, and searches a line longer than its buffer in
  pieces.
* fish's `mp1_malloc` takes a blink at location 0 for a free structure
  (`../fish/fish.c` 164), and RTC_SYNC always shows the off character, since
  `testb` clears the flags `cmovl` looks at (`../fish/blink.S` 281-282). fish uses no
  blink at location 0.
