# A TLA+ model of Dospack

Dospack runs a DOS game on an emulated PC and promises one thing beyond that: the
machine is deterministic. Its state is a function of the virtual clock and of a recorded
list of input events, so that a run can be saved, loaded, recorded and replayed
(`src/README.md:3`). These modules model the parts that promise rests on: the virtual clock
and its event queue, the interrupt controllers, the timer, the keyboard, the round of the
CPU loop that connects them, the BIOS services that turn scan codes into keystrokes, recording,
replaying and saving, the processor's real mode instructions with the interrupts that come between
them, and the memory DOS hands out.

## Inventory

One thread runs everything. `dospack_loop` (`core/dospack.c`) calls the CPU's decode loop
for up to 128 instructions, runs the events that are due, and returns to the host, which
injects keys and calls it again. A round of the decode loop tests for interrupts, runs the
due events of `timetrack`, charges the clock one tick and executes one instruction. What is
hard here is thus not parallelism but order: a dozen handlers, run by the clock, by guest
instructions, by interrupts or by the host, change the same state in orders nobody tested,
and every piece of state is also written to a file and read back.

| Component | State | Operations | Called by / calls |
| --- | --- | --- | --- |
| timetrack | clock, table of events with a free list and a sorted queue, snapshot clock | add, remove, remove by data, run due events, charge ticks | devices add events; the CPU loop runs and charges; charging writes snapshots |
| pic | 16 lines (requested, masked, in service), `irq_check`, active line, two controllers | activate, deactivate, run_irqs, port writes | devices raise lines; CPU loop starts them; guest writes ports |
| hwtimer | three counters, latches, one event | control word, load, latch, read back, gate | guest ports; timetrack event raises line 0 |
| keyboard | ring of bytes, port 60h, repetition, command state | add_key, every_msec, transfer, ports 60h/64h | host or replay adds keys; two timetrack events; raises line 1 |
| CPU loop, stubs | interrupt flag, frames on the guest's stack, `decode_count` | round, interrupt, the IRQ0 and IRQ1 stubs | everything above |
| events | index, recording, replay position | inject, record, replay, seek | host; timetrack |
| snapshots | file of every component, pointer registry | marshal, unmarshal, post-unmarshal | timetrack's clock, `-M`, `-S`, `-P` |
| BIOS services | type-ahead ring at 40:1E, shift flags, tick count | int 8, 9, 15h, 16h, 1Ah | stubs; guest |
| dosblock | chain of memory control blocks, PSPs, DOS info block | int 21h, allocate, resize, free, load | guest |
| io, memory, paging | handler tables | register, read, write | guest instructions |
| video | mode, palette, memory, retrace bit | render, ports | host; guest |
| CPU core and instruction set | registers, flags, prefixes | decode, execute, disassemble | the loop |
| files, logging, ui, desktop, Dave tracker, tools | host resources | I/O, drawing | host |

What makes each correct, in the order of importance:

* **timetrack** - the two lists share one table and never lose or share an entry; events run
  at their tick, ties in the order of adding; none starves; snapshots come at each period.
* **pic** - `irq_check`, a cache kept by hand, says what the lines and masks say; the active
  line is in service and outranks what it interrupted; what is started is the most urgent.
* **keyboard** - no byte is stranded, overwritten or out of order; never two transfers; only
  a held key repeats.
* **key path** - across masks, critical sections, nested interrupts and late EOIs every byte
  the controller accepted is handled once, in order, and each EOI ends its own line.
* **hwtimer** - one event in the periodic modes, none before the count, in mode 0 one until it has run;
  no drift in mode 2; a latched status waits for its reader, and the latch for nothing else.
* **record, replay, snapshots** - a replay injects the recorded events at their ticks and the
  guest sees what it saw; a loaded snapshot goes on as the saved machine would have.
* **BIOS keyboard** - the flag bytes say which shift keys are down; no prefix or half-typed Alt
  number outlives its key; keystrokes come out once, in order, as they were shown.
* **CPU** - a program cannot tell that it was interrupted: neither from its registers and memory nor
  from the flags, which the code keeps as a noted operation and works out when they are asked for.
* **dosblock** - the chain of memory blocks covers memory exactly; what a program gave back it can have
  again; its image spares the next control block.

`PROJECT.json` lists the hazards line by line with the properties that cover them, and those
no property covers yet.

## Modules

| Module | Models | Role |
| --- | --- | --- |
| `EventQueue` | what timetrack promises: a set of timed events, run in order | abstract |
| `Timetrack` | `timetrack.c`: the linked lists, dispatch, the clock, snapshot times | implements `EventQueue` |
| `TimetrackLoop` | `Timetrack` with callbacks that schedule themselves for ever, no horizon and no bound on adds | component, for liveness |
| `TimetrackProofs` | theorems about `Timetrack`, and that it implements `EventQueue` | proofs |
| `Pic` | `pic.c` | component |
| `PicProofs` | theorems about `Pic` | proofs |
| `KeyFifo` | what the controller promises: a bounded queue with a one-byte port | abstract |
| `Keyboard` | `keyboard.c`: the controller | implements `KeyFifo` |
| `KeyboardProofs` | theorems about `Keyboard`, and that it implements `KeyFifo` | proofs |
| `KeyboardPath` | `Keyboard` and `Pic` with the decode loop, interrupt frames and stubs | composition |
| `Hwtimer` | `hwtimer.c` | component |
| `BiosKeyboard` | `keyboard.c`: the int 9 handler, the type-ahead ring, int 16h | component |
| `RecordReplay` | `events.c`, the loop and snapshots of `dospack.c`, with `Keyboard` as the machine | composition |
| `EagerFlags` | what the flags promise: each operation sets them at once | abstract |
| `LazyFlags` | the noted operation (`lflags`) and the `get_XX` and fill functions of `cpu_inlines.h`, `cpu_decode.c` | operators |
| `FlagMachine` | how instructions note, keep, fill and load flags, for every operand | implements `EagerFlags` |
| `HwtimerProofs` | theorems about `Hwtimer` | proofs |
| `KeyboardPathProofs` | theorems about `KeyboardPath` | proofs |
| `ServiceProofs` | theorems about `BiosKeyboard` and `Dos` | proofs |
| `RecordReplayProofs` | theorems about `RecordReplay` | proofs |
| `CpuProofs` | `FlagMachine` implements `EagerFlags`, `Cpu` implements `FlagMachine`, theorems about `Cpu`, an interrupt and its return | proofs |
| `IntCallback` | `int_callback.c`: callback numbers, stubs, vectors, as the initialisers leave them | constants |
| `CpuOperands` | registers, memory, addresses, operands, jumps, the flags word | operators |
| `CpuArithmetic` | sums, logic, shifts, products, decimal and bit instructions | operators |
| `CpuInstructions` | moves, stack, strings, ports, control transfers, interrupts; `Execute` | operators |
| `Cpu` | the round of `cpu_decode.c`, interrupts, trap runs, callbacks and their answers | implements `FlagMachine` |
| `Dos` | `dosblock.c`: memory control blocks, loading, resizing | component |
| `MC*` | instances for TLC | model values, bounds, end states |

Correspondence, for a reader with the code beside the modules:

* **Timetrack.** `events`, `next_event`, `free_event` are the table and its list heads, indices
  as in the code (0 is `DP_TIMETRACK_NULL_EVENT`). `AddEvent`, `RemoveEvent` and
  `RemoveEventData` splice link by link. `RunEvent` is the part of `run_events` before the
  callback, `FinishEvent` the part after it; between them (`phase = "callback"`) the callback
  may add and remove, and the node in hand is on no list. `ChargeTicks` writes a snapshot
  before it moves the clock. `tick_marshal`, which the code keeps unsigned with -1 for none,
  is an integer. `arrival` numbers the adds and exists only to say "older".
* **TimetrackLoop.** The same table in a machine that never stops. The code looks only at the distance of a deadline
  from the clock, so the clock stays at 0 and `Elapse` brings the deadlines nearer; late ones are all alike
  (`Late`, which no run of the loop reaches). `Schedule` is `add_event` by its callers: a device with a
  positive delay, as often as it likes, or the replay, whose delay may be 0 and who has `Records` of them in its file.
* **Pic.** The three boolean arrays are sets of lines; `irq_check` is the set of its bits.
  Commands are the bytes written, decoded bit by bit. A byte on which the code stops with
  `DP_FAT` enables no action. `special_seen` is history.
* **Keyboard.** A key is the sequence of bytes it sends (`KeyBytes`), which abstracts the large
  translation switch of `add_key`; bytes that find the ring full are dropped from the end, as
  the calls of `add_buffer` one after another do. `scheduled` is the code's flag, `transfers`
  the events timetrack really holds: that they agree is a property.
* **KeyboardPath.** `phase` walks the round of the decode loop. `stack` holds the interrupt
  frames with the stub's position; the hooks a program can put at int 15h and int 1Ch may
  enable interrupts. The program alternates between work and critical sections that mask line
  1, throw the ring away with a command, and open again.
* **Hwtimer.** `due` is the part of the event queue that belongs to the timer. Counts are two
  digits of `Radix` and binary; the values latched are left out, what is kept is which byte is
  read next and which latch is armed. Times are unsigned (`TickModulus`). `asked` is history: the status the guest
  asked for and has not had, beside the code's `locked`, `status` and the flag of each counter.
* **BiosKeyboard.** A flag byte is the set of names of its bits. `wire` holds the bytes of a key
  that int 9 has not seen; `KeyboardPath` shows that they come in order. `Special`, `Control`,
  ..., `Normal` are the cases of the switch and end in `End`, the label `irq1_end`. Head and tail
  are places 0 to `Slots - 1`. The rows of `scan_to_scanascii` are a constant; `Column` to
  `PadCode` choose and change a keystroke as the code does. `Stopped` is the fatal error of the
  Pause key. The caller's interrupt flag, which function 1 sets on the stack, is left out, and so
  is int 15h, function 4Fh, which a guest can hook to drop a scan code (modelled in
  `KeyboardPath`). `held`, `accepted`, `given` and `announced` are history.
* **RecordReplay.** The queue is `EventQueue`'s view of it, a sequence, which the run
  `timetrack` justifies. `Charge` may snapshot the machine (`saved`); `Load` restores it,
  `ReleaseKey` is `post_unmarshal`, `StartRecord` cuts the file. After the horizon the run is
  replayed from power on with the file recorded.

* **LazyFlags, FlagMachine, EagerFlags.** `lflags` is a record of the operation's type, its operands, result
  and size, the size by the value of its sign bit. `GetCF` to `GetPF` are the `get_XX` functions; `FillFlags`
  is `dp_decode_fill_flags`. `Asked` is the value an instruction that tests a flag gets, which the refinement maps
  to the flag of `EagerFlags`. `Loose` names the two flags on which the code's own answers disagree (below).
* **CpuOperands, CpuArithmetic, CpuInstructions.** The machine is one record: registers `r`, segments `s`, `ip`, the flags
  register `fl` without what is pending in `lf`, control flags, memory as the bytes written so far. An
  instruction is a record (`IntCallback`) that takes one place in memory, so the bytes of code are not modelled and
  relative displacements count instructions. A predicate (`Steps`, `Moves`) says what a part of the switch
  decodes, the operator beside it what that part does. An error (`DP_FAT`) is `Fatal`. `IsInstruction` says which
  records are instructions: the forms of operands that the opcode's cases have (`FormsOf`) and numbers that fit their fields.
  `ip` is a natural number: `eip` has 32 bits, jumps wrap it to 16 and a fetch does not.
* **Cpu.** `phase` walks through `dospack_loop` and the decoder: `StartRound`, then `LoopTop` (interrupt test), `Raise`
  (a device's event), `Decode` for each instruction, `EndRound`, and `Callback` when the instruction was the stub's
  FE 38. `twin` is the same program on a machine without devices, one step for each of the program's own; `frames`,
  `shadow` and `lost` are history. Devices raise a line once each, at any instruction. The masks of the
  interrupt controller are left out (`Pic` has them): a line in service holds back those behind it until the EOI.
* **Dos.** `mcb` maps a control block's segment to it, so that a chain with a gap can be said. `RefuseProgram` and `LoadProgram`
  are `dp_dosblock_load` after the header is read: a file with too many pages or for the top of memory is fatal before the
  allocation, a short one or one with relocations after it. `Resize` is the whole of AH = 4Ah with the compaction before it.
  A walk of the code (`Compact`, `Search`, `Gather`) is a function of the rounds of its loop and stays where the loop
  ends. It has as many rounds as there are blocks (`Rounds`): each takes a block out or goes on to the next.

The clock is charged by one per instruction only. The other caller of `charge_ticks`, the
vertical-retrace hook of the Dave tracker, is never installed: `dp_game_dave_after_exe` returns
at once (`games/dave/dave.c:238`). With that hook back, events would run late and a snapshot
clock with a period below the skip would stop.

## Runs

| Run | Shows | Bounds |
| --- | --- | --- |
| `timetrack` | lists partition the table, events run at their tick and in order (refinement), snapshots on schedule | 3 entries, 2 callbacks, 2 user pointers, 4 adds, 3 ticks, delays 0 and 2 |
| `timetrack_loop` | no event starves | 3 entries, delays 0 to 2, 3 records; adds and time without bound |
| `pic` | cache, in-service and nesting invariants, most urgent first | lines 1, 3, 8; 8 command and 5 data bytes, all orders; unbounded behaviours |
| `keyboard` | single transfer, nothing stranded, no overrun, repetition, refinement of `KeyFifo` | ring of 2, an extended and a three-byte key, 2 command bytes; unbounded behaviours |
| `keyboard_path` | bytes announced, seen in order, all handled | ring of 2, 4 bytes, 2 timer ticks, 2 commands |
| `hwtimer` | one event in periodic modes, a one-shot until it has run, no drift, status latch locked as long as needed | counters 0 and 2, modes 0, 2, 3, radix 2, 4 accesses, 6 ticks |
| `record_replay` | recording is history, replay on time, same bytes seen | 2 keys, 3 key events, 10 ticks, one load |
| `services` | BIOS: shift state follows the keys, Alt numbers end, ring in order, what is shown is taken; DOS: chain tiles memory, resizes granted when they fit, image spares the next block if it asked for room | BIOS: 12 keys, 5 presses and releases, ring of 2 keystrokes, 2 keystrokes taken; DOS: 9 headers, 57 paragraphs, every size from 0 to 63, unbounded behaviours |
| `cpu` | interrupted programs run as undisturbed ones, flags as in `FlagMachine`, they end | 16 programs that take every modelled instruction, lines 0 and 1 once each at any place, rounds of 10 |
| `stack_switch` | violation: an interrupt after a load of ss | 2 programs that switch stacks |
| `lost_answer` | violation: a DOS call's carry goes to another frame | one program that opens and closes a file |
| `replay_released` | violation: releases injected by a load are not in the recording | one load |

Why the bounds are enough. Three table entries give a head, a middle and a tail to unlink and
exhaust the table; delay 0 makes a callback's event due at once, delay 2 passes over another. In `timetrack_loop` a state is the distances of
at most three deadlines, so the run has every behaviour of three events, infinite ones included; delay 1 and 2 let a
self-scheduling event overtake one that waits, and the replay may fill the table at the same tick.
Lines 1, 3 and 8 are one line above the cascade, one below, one behind it, and the written
bytes select every branch of both write handlers. A ring of two bytes wraps at every other
byte, is filled by an extended key and overflowed by Pause. The key path needs two bytes of
one key and one nested timer interrupt; four bytes and two ticks allow both twice. Radix 2
makes every count have two bytes, with zero as the largest, and six ticks hold two periods.
In `services` (an instance of `BiosKeyboard` and one of `Dos`, which share no state and of which a behaviour runs one) five
events hold two keys of a pair pressed and released in any order, an Alt
number of three digits (beyond a byte) or a ring that wraps and overflows.
In `record_replay` a key repeats within the horizon, so that ties can and do occur.

In `cpu` the programs are short and together take every modelled instruction and form through a jump or a
store that shows its result; two lines are one handler interrupted by a more urgent one (and each
interrupt brings a trap run with it). A round of 10 instructions ends inside every program, so that
interrupts, trap runs and ends of rounds meet. In `services` 33 paragraphs are left to the program: the headers
get all, some or less than they ask for, fill the block exactly, or fail on each error path; the size of a resize
takes every value, the exact fit and the one beyond it included. Words of 64 keep the largest size above
the memory as 65536 does.

`MCTimetrack`, `MCHwtimer` and `MCRecordReplay` add a stuttering step at the horizon, where the
instance ends and the code would not; deadlock is checked in
every run but `services`, where typing is bounded, the Pause key stops the program and a program of DOS ends, and
those of `Cpu`, where the program ends. `ProgramsEnd` says that a program of `cpu` stops nowhere else.

**Fairness.** The host calls `dospack_loop` for ever and no handler blocks, which is weak fairness
on the steps of the loop (`TimetrackLoop`, `KeyboardPath`). In `TimetrackLoop` nothing is assumed of who schedules but that the
delays of devices are positive: `KEYDELAY` and a thousandth of `ticks_per_second` in `keyboard.c`, the period of a counter in
`hwtimer.c` (never 0: `HwtimerTypeCorrect`). It is needed: `add_event` takes a delay of 0, and a callback that used it again and again
would keep the loop of `run_events` (`timetrack.c:93`) from ending. The replay does use 0, for
records of the same tick, once for each record. In `Keyboard` the transfer event is
weakly fair because timetrack runs every event (the run `timetrack_loop` checks that), and the guest
reads a byte it has been told of. In `KeyboardPath` the transfer is strongly fair: it can run
only while the loop is at its events, and it comes due in one of the rounds. In `Cpu` the
fairness is that of the host's loop: as long as the program runs, the loop gets from one of its phases to
the next. Every step but a device's changes the phase and one is enabled in every phase, so a device
that raises its lines cannot hold the loop up and need not raise them. Nothing is assumed
of the guest but that it goes on executing.

## Proofs

`PicProofs`, `KeyboardProofs` and `HwtimerProofs` prove the invariants of `Pic`, `Keyboard` and `Hwtimer` for every set
of lines and of written bytes, every ring size, key set, count and clock rate. `TimetrackProofs` proves that the two
linked lists are an event queue for every table, delay and set of callbacks, `KeyboardProofs` that the keyboard is a queue,
and `CpuProofs` that the lazy flags are the eager ones for every operand, and that the processor uses them so, for
every program. `ServiceProofs` proves all that is checked of int 9 and int 16h and of DOS's memory, `RecordReplayProofs` all that is checked of recordings, and
`KeyboardPathProofs` that no byte the ring accepted is lost, doubled or left unannounced on its way to int 9.

* **Timetrack.** The links are the state, so every step is about a list that follows them. `TimetrackInv` is `TypeOK`,
  that the two lists have no entry in common and none twice (`ListsApart`), that they cover the table but for the
  node in hand (`ListsPartitionTable`), and that the queue is in the order of time and arrival (`QueueInOrder`). That
  the recursive `Chain` is *the* list the links spell (`ChainOf`) would be an induction over its length; it is
  shown by the least place at which two such lists differ (`LeastOfNaturals`) instead. One lemma then says what the
  code's splice makes of a list: `InsertedIsList` (an entry of neither list between two neighbours) and
  `RemovedIsList` (the links around an entry closed), and each operation is one or two of them. The same lemmas give
  the refinement, `TimetrackImplementsEventQueue`, one operation at a time: adding is insertion behind the entries
  not later, running takes the first entry if it is due. `SnapshotsArePeriodic` assumes what the decode loop
  does, charge one tick at a time (`cpu_decode.c:3583`): `ChargeDiffs = {1}`, as in the run.

* **Pic.** `TypeOK` and `CheckMatchesLines` are inductive together. `ActiveIsInService` and
  `ActiveOutranksInterrupted` are not by themselves: an interrupt starts when it outranks the
  *active* line, so one must know that the active line outranks all others in service, and that
  the special mask, which lifts that test, has left its trace in `special_seen`. `ServiceInv` is the
  conjunction with `SpecialIsSeen`. The EOI step needs that `Highest` of a set of lines exists and
  outranks the others (`HighestExists`, from `LeastOfNaturals` and the fact that the two literal
  priority tables are inverse, `PriorityTablesInverse`). `StartsMostUrgent` is an action property from
  the same invariant.
* **Keyboard.** `KeyboardInv` adds to the checked invariants that a transfer is never pending while a
  byte is unread (`TransferWaitsForRead`, which makes `UnreadByteKept` provable) and that only keys
  that repeat are in the repetition (`RepeatingKeyRepeats`). The ring's arithmetic is in lemmas about
  `Slot`, `Fitting` and `Filled`; one lemma per action follows.
* **KeyFifo.** `KeyboardImplementsKeyFifo` maps the ring to the sequence `Queue` of its filled slots (`FilledPlace` gives
  the place of each). Adding is appending, since `Fitting` bytes never reach the tail; a transfer takes the
  head, and takes it only when the register is empty: `TransferWaitsForRead` again, without which a step of the
  keyboard would overwrite an output that `KeyFifo` keeps.
* **Hwtimer.** `HwtimerInv` is `TypeOK`, `TimerAlive` and `RateGeneratorKeepsPhase` with three more: the first byte of a count
  waits in the latch below `Radix` (`FirstByteWaits`, for the type of the completed count), the count of counter 0 is never 0
  (`CountPositive`: a period of 0 would queue the event for the same tick for ever), and the queued event is not
  in the past (`DueAhead`: one that ran late would let the rate drift). The last holds because events run before the
  next instruction is charged. Accesses to counter 2 or to latches leave counter 0 alone (`SameCounter0Preserves`). In mode 0 an
  event that runs is the one at the end of the count, which has come (`PitEventPreserves`), so a one-shot is not lost.
  `StatusKept` needs nothing but the types: three lemmas are about the steps that take a status down (`ReadBackKeepsStatus`), that give
  it up (`DroppedStatusPreserves`) and all others (`OthersKeepStatus`).
* **KeyboardPath.** `PathInv` splits the history of accepted bytes into what was seen, the byte at the port and the
  ring (`History`). A stub that reads must find a new byte, so `UnreadByteAnnounced` is not enough by itself:
  `AnnouncedOnce` adds that nothing else is announced and nothing twice, be it by the line or by a stub in a stack of any
  depth. It needs that a transfer finds the port read (`TransferOK`) and that no controller ends interrupts by itself
  (`PicsIdle`), which would enter a stub without taking note of its line. The instances of `Keyboard` and `Pic` in it
  are used by their definitions: the prover cannot cite the theorems of an instance.
* **BiosKeyboard.** `BiosPeekedIsTaken` needs that the keystroke function 1 showed is still the first in the ring when
  function 0 comes (`ShownIsFirst`, in `KeystrokeInv`). `AddKey` writes behind the last one and gives up when that would
  make the ring look empty (`ContentsOf`, `AddKeyPreserves`), so int 9 cannot replace it; `CheckKeystroke` drops
  only what it does not show. `BiosAltCodeEnds` is the other part of the same invariant.
  `BiosModifiersFollowKeys` speaks of the moments at which no key is half sent, and is inductive only when it says
  at every other moment, too, what the flags and the remembered prefixes (E0, E1) are: those of the keys held before the
  key on the wire, with what its bytes handled so far did to them (`TypedKeysInv`). `BiosReturnedInOrder` is about
  the words that went into the ring and came out of it: `HistoryInv` follows them through a store behind the last
  (`RingLonger`) and a take from the front (`RingShorter`); what the filter `Known` makes of a longer sequence
  (`KnownConcat`, `KnownAppend`) is shown by the least counterexample, as for the lists of `Timetrack`.
* **RecordReplay.** `ReplayInv` says, as long as no load released a key: the queue is in the order of time and not in
  the past (`QueueOK`, kept by `AddEventInserts` for the place `InsertPlace` finds); while recording no replay event
  waits, and a snapshot holds what was handled when it was taken, a prefix of the recording that `CutToIndex` cuts
  back to (`SnapshotOK`); while replaying exactly one waits, for the first event not yet injected (`OneReplay`), and
  what is injected is a prefix of the file. Neither of the first two theorems is inductive without it: that a due event was injected
  follows only from its being in the queue, and that from the event before it having been.
  `UntiedReplayedAsRecorded` compares two runs, so its invariant keeps the first. `RecordTrace`: there is a sequence
  of states from power on to the present one in which every step is the machine's own (`Moves`, a function of
  the state: `Checked`, `MsecRun`, `TransferRun`, `Charged`, `Executed`, `LoopedAgain`) or the next key of the recording
  (`Presses`), and no key came at a tick at which an event could already have run (`KeysFirst`, which is what the
  absence of a tie means for the whole history). `ReplayTrace`: the replay is at some state of that history, with the
  same keyboard, tick, phase and bytes read, and with the same queue but for the one key that waits in it (`AlikeStates`,
  `SameEvents`). Adding an event and taking the head keep two queues alike (`AddsAlike`, `HeadsAlike`), so the
  machine's steps go together (`MovesAlike`); and the waiting key runs exactly where the history has it
  (`ReplayKeyStep`): not later, because the host takes a key only when no event is due, so the waiting key is then the one
  event that is (`ReplayMachineStep`); not earlier, because from there the history could only reach its key by steps at
  the same tick, which is a tie. The history is bound by a quantifier over all sequences, which TLC cannot
  evaluate; the runs check what the two invariants are for.
* **Dos.** That the chain tiles memory is not inductive: whether a resize leaves it so depends on what the
  compaction before it makes of the free blocks, and on all that is free lying behind the program's block. `DosInv` says
  which chains there are, for any sequence of resizes: behind DOS's own three blocks the program has all of the room
  (`Whole`), a part of it with the rest free (`Halves`), or a part with two free blocks behind it (`Thirds`, what a
  resize to less leaves until the next compaction), and the program's block is owned by its own control block or by
  the segment prefix. The last block of `Halves` may lie behind the memory and have the size FFFFh (`RemainderIs`); the
  walks wrap around there, and the shapes still tile memory (`ShapeTiles`). A walk is followed through its
  rounds: five at the most for a compaction, three for the search, two for the gathering (`CompactEnds`,
  `SearchEnds`, `GatherEnds`). That the function in the module takes these rounds and then stays is an induction, shown by the
  least round at which two walks differ (`SameWalk`). Then compaction makes halves of thirds (`CompactThirds`) and leaves the
  other shapes alone, and a resize of a compacted chain is answered as `ResizeGrantsWhatThereIs` has it and leaves
  one of the three (`ResizedWhole`, `ResizedHalves`). `LoadPreserves` splits the first chain for the program. All four
  invariants of the run follow, for every word size, memory and list of files.
* **Flags.** `FlagsWellFormed` (`FlagInv`: what is noted is an operation with operands of its size) and
  `LazyImplementsEager`: for every operand of both sizes and every sequence of operations, the flags asked for are
  those computed at once. One lemma per kind of operation says what each `get_XX` returns for what was
  noted (`SumNoted`, `DifferenceNoted`, `IncrementNoted` with the kept carry, `NegationNoted`, `ShiftStep`), from the
  arithmetic of wrapping and of the low nibble; filling (`FillKeeps`, `FillNoCFOFKeeps`) changes no
  answer. With `CpuImplementsFlagMachine` the processor's flags are the eager ones.
* **Cpu.** `CpuInv` is `TypeOK` with what a step needs of it: the machine is a record of its parts (`IsMachine`), only a
  stopped program has a way out that is not the decoder's (`Outs`), and a fetch leaves room in the round for the one
  instruction that a load of ss adds to it. What the proof is about is not the invariant but the decoder: for every
  record that is an instruction and every machine in its widths, `Execute` leaves a machine in its widths. The lemmas are
  in layers. `Moved`: a move of data leaves the flags, the interrupt controllers and the way out alone. `Ran`: what an
  instruction does to the flags is a step of `FlagKeep` (`FlagsKept`), lines only leave service. `Loaded`: all flags are new and
  nothing is pending. `Executed`: an instruction of `LoadsFlagsAnew` may load, any other runs. Each part of the switch has a
  lemma under `Ran` or `Moved`, `ExecuteDataExecuted` and `ExecuteControlExecuted` put them together by the forms an
  opcode can have, and `AnswerAnswers` does it for the callbacks. Two things are not case work. Results of shifts, rotates, products,
  quotients and decimal adjustments fit their operand by arithmetic on powers of two (`Split`, `SHLRange`, `ProductDigits`, `DigitsOf`), which
  the SMT solver finds only with the powers named (`Two`). And a repeated string instruction is a function of the
  number of rounds; that each of its values is a machine is shown by the least round at which it fails (`RoundsExist`, `RoundsKeep`). The
  invariant was first checked by TLC on the programs of the run `cpu`.
* **An interrupt and its return.** `InterruptReturnRestores` and `InterruptIsTransparent` are about one machine and any handler,
  not about runs: `Interrupt` pushes flags, CS and IP at three places of a stack pointer that wraps in 16 bits
  (`StackPlaces`: they never overlap, `InterruptFrames`: nothing else is written), and `InterruptReturn` on a machine whose frame
  is untouched reads them back; the flags survive being a word (`FlagsRoundTrip`, nine bits). So after a handler that keeps the
  registers a program has all it had, its flags filled in, but for memory the handler wrote and the six bytes. IP comes back
  as a word: a program that ran past the end of its segment (IP is held in 32 bits) returns to its beginning.

The assumptions are those named in the modules (`PicAssumption`, `KeyboardAssumption`, `SignAssumption`, `TimetrackAssumption`, `TimetrackLoopAssumption`,
`HwtimerAssumption`, `PathAssumption`, `BiosKeyboardAssumption`, `ReplayAssumption`, `DosAssumption`, `CpuAssumption`,
`CallbacksAssumption`): written bytes are bytes, a port returns a byte, programs and stubs consist of instructions, the ring is not empty, rates are positive, a tick of the timer is not shorter than one of the machine, times do not wrap within
the horizon, `NoKey` is not a key, the bytes of a key are those `add_key` sends and int 9's switch or its table of keystrokes has its code,
DOS's blocks leave room in a memory of fewer paragraphs than a word has values, and a file's header is not longer than the file.

Checked by TLC only: everything under fairness (`EveryEventLeavesQueue`, `WaitingByteArrives`, `AllHandled`,
`ProgramsEnd`), since liveness and `ENABLED` are beyond the prover used, and `InterruptsTransparent`. That one
compares the machine with a second one that was never interrupted. Its core, one interrupt and its return, is
proved (above); of whole runs it is no theorem for every program: it holds of programs that respect what the
handlers and the flags' own flaws (below) leave them, and do not read or write below the top of their stack or in the
segment of the stubs. What those programs are would have to be said of all states they can reach, which is no condition
on a program that a theorem could take as a hypothesis and a reader could check.

## Findings and divergences

The three violation runs are in `PROJECT.json` under findings. Noted while modelling and not turned
into runs:

Recording and snapshots

* The period of `-P` is in ticks of a third of a microsecond (`timetrack.c:36`, `timetrack.h:86`), where `dospack.c:373` says
  microseconds and `README.md:24` takes 15000000 for 15 seconds.
* A live key is handled after the events already due, a replayed one is queued (`events.c:93`): in the tick of a
  repetition it can come before it, and the guest reads other bytes than while recording.
  `UntiedReplayedAsRecorded` is about recordings without such ties.
* A snapshot is written in the middle of a round, and a loaded machine begins one (`cpu_decode.c:3568-3583`): it
  tests for interrupts once more than the machine that wrote the snapshot.
* The trap run of the decoder is stored in a snapshot as a pointer and is not among those registered
  (`cpu.c:851-852`): a snapshot in a trap run, the round of up to 128 instructions after an interrupt, cannot be written.

Processor

* PUSHF pushes the flags register before it fills in what is pending (`cpu.c:648-652`): after a compare the pushed
  word has the flags before it, unless an interrupt came in between. `InterruptsTransparent` leaves such
  runs out (`StalePush`).
* `get_OF` and the fill disagree on a right shift by one of the bare sign bit, `get_AF` and the fill on double shifts
  (`Loose`): a test of those flags can depend on an interrupt before it. The programs of `cpu` do
  not make one.
* A rotate of a memory operand by its whole width takes CF and OF from the operand's address (`cpu_decode.c:1606`). The
  IMUL with two operands compares an unsigned product with -32768 and always sets CF and OF (`cpu_decode.c:2157`). BSF
  and BSR drop pending flags without filling them in (`cpu_decode.c:5797`), so flags other than ZF can
  depend on an interrupt before them, too.

DOS

* A resize to exactly the room there is writes a free control block of size FFFFh behind it (`dosblock.c:807-813`); the
  walks wrap around and the next compaction takes it away again, which `ChainTilesMemory` shows.
* The size of the program's block leaves out the 16 paragraphs of the segment prefix (`dosblock.c:1157`): an image that
  asks for less additional memory than that runs over the next control block (phase `"overrun"`).
* A file that fills its last page exactly fails to load (`dosblock.c:1176`); a wrong signature marks the file as not a COM file
  (`dosblock.c:1136`).
* Seek, "always succeeding", is not implemented as the others are but stops the program (`dosblock.c:202-204`).
* `install_callbacks` gives the vectors 28h and 29h to the handlers of 2Ah and 2Fh (`dosblock.c:345-347`), over those it gave
  them a few lines before.

Elsewhere

* `hwtimer.c:331` says mode 0 "starts with a low line. (so always disable irq)"; lines 347-348 raise it.
* `keyboard.c:669-672`: command F6h is commented "Reset keyboard and enable scanning" and disables it.
* `keyboard.c:742`: command ADh sets `active` to false, which nothing tests. Echo (EEh) answers FAh.
* `pic.c:65`: the nonspecific EOI of the second controller ends an active line of the first.
* `pic.c:26`, `131`: a single controller told that ICW4 is not needed still ends on the word of ICW4.
* `README.md` names `-R` for running with saved events, which records; `-r` replays.
* `-M` together with `-r` injects again the events of the snapshot's own tick (`events.c:87` uses >=).
* A snapshot taken without `-P` and loaded with it starts from a zero deadline (`tick_marshal_save`).
* `cpu.c:723`: entering an interrupt sets the trap flag where the processor clears it.
* `int_callback.c:150`: the stub's comment says `jc skip`, its opcode is `jnc`.
* `io.c:76`: a 32-bit read of a port reads one byte at offset 2 where it needs a word.
* int 16h, function 0 ("GET KEYSTROKE", `keyboard.c:78`) does not wait: it answers 0 without a
  keystroke and after taking an enhanced one. Keystroke `ax = 0` is thus not always "none".
* `dosblock.c:832`: the walk that frees the blocks of a process would step to segment size+1 instead
  of adding it; nothing calls it. A block's owner is the segment of its header there, one below
  the PSP.
* A pointer event of the tracker would dereference `game_data`, which is never allocated.

## Not modelled

* The 32 bit operand and address forms and the protected mode groups of `cpu_decode.c` (about 2000 lines): the
  same macros at another width, whose values are beyond the 32 bit integers TLC computes with, and
  groups that mostly stop with `DP_UNIMPLEMENTED_FAT`. Protected mode, paging and exceptions stop the program.
* The bytes of instructions: prefixes and operands are fields of a record. The disassembler formats them for the log.
* Masks of the interrupt controller in `Cpu`, key strokes in its int 16h (none waits there), dates and times of DOS and
  BIOS. The first two are in `Pic` and `BiosKeyboard`.
* The registry of snapshot pointers (`marshal.c`) and the file format; the table of ports (`io.c`): lists filled at start-up.
* Video, files, logging, the host's side, the Dave tracker and the build tools: drawing, I/O, or disabled.

## What is left

1. The registry of snapshot pointers, with the pointers each component can hold when a snapshot is taken.
2. A ring of bytes that loses half a key, between `Keyboard` and `BiosKeyboard`.
3. Masks of `Pic` in `Cpu`, and a program that hooks int 15h and int 1Ch.
