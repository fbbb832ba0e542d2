# A verification project for emu293

emu293 emulates the SPG293, the system on a chip of several television game
consoles. This directory holds TLA+ modules that model its core logic, TLC
configurations that check them on small instances, and proofs that the TLA+
proof system checks for every value of the constants. `PROJECT.json` lists the
components, the runs, the mutants that show that every property can fail, the
lines of the source behind every definition, the hazards and the theorems.

    tlc -workers 2 -config RenderThread.cfg MCRenderThread.tla   # a run
    tlapm PictureProofs.tla                                      # the proofs

## 1. Inventory

The program is one emulation thread, a render thread, a capture thread for the
camera and the audio callback of SDL. All devices hang on a table of handlers
(`system-d99plus.cpp`); the main loop (`emu293.cpp`) steps the CPU and calls the
ticks of the devices at fixed counts of instructions.

| Component | State | Operations | Speaks to |
|---|---|---|---|
| Interrupt controller (`sys/irq.cpp`) | pending and mask registers, `intsFired` | `SetIRQState`, stores, reset | the CPU's queue; called by every device |
| CPU (`cpu/cpu.cpp`) | registers, `ien`, `last_ien`, queue of interrupts | `step`, `exec16`, `exec32` | memory map, queue |
| Picture unit (`video/ppu.cpp`) | line counter, `render_ready`, `render_done`, `kill_renderer`, buffers, interrupt and DMA registers | `PPUTick`, `PPUUpdate`, `PPUFlip`, render thread, stores, `ppudma_worker` | mutex and condition variable, SDL, main RAM, lines 53, 46, 16 |
| TV encoder (`video/tve.cpp`) | line counter, control and status | `TVETick`, stores | line 55 |
| Camera (`video/csi.cpp`, `webcam.cpp`) | `csi_frame_need`, `csi_frame_done`, registers | `CSITick`, capture thread | its own mutex, main RAM, line 51 |
| Timers (`sys/timer.cpp`) | six counters, clock selection, `div_count` | `TimerTick`, stores | line 56, shared by all |
| SD card (`stor/sdcard.cpp`) | card state, transfer position, flags of the transfer | `SD_Command`, `SD_Read`, `SD_Write`, `SD_State` | the image file |
| SD interface (`stor/sdperiph.cpp`) | status flags, `bytecount` | stores, loads, two DMA handlers | card, APB DMA |
| APB DMA (`dma/apbdma.cpp`) | four channels, busy and interrupt status | `apbdma_work`, acknowledge, reset | hooks of the SD interface, lines 37, 36, 33, 32 |
| BLN DMA (`dma/blndma.cpp`) | two sources, destination, mode | fill, copy, blend | main RAM, line 34 |
| Sound unit (`audio/spu.cpp`, `okiadpcm.cpp`) | 24 channels, beat counter, sample buffer | `SPUUpdate`, stores, audio callback | SDL's audio thread, lines 63, 62 |
| GPIO and gamepads (`sys/gpio.cpp`, `io/ir_gamepad.cpp`) | pins, interrupt flags; bit-serial transmitter, shift registers | stores, ticks, keys | line 28, pin state |
| Saved states (`helper.cpp`) | flags of the main loop | save, load, soft reset | every device |
| I2C, buffer control, memory interface | register files | stores | nothing |

What is hard about it, and what should be true:

* **Interrupt delivery.** A line is acknowledged and raised again while the CPU
  still has its last edge queued; `ProcessInterrupts` returns after the first
  line it finds and is not called again by itself. No edge may be delivered
  twice or be lost, and what is left waiting above a busy line must be handed over.
* **Hand-over of pictures.** `PPUFlip` reads the buffer without the mutex, the
  done flag is cleared twice outside it, and a notification is lost when the
  other thread does not wait. Pictures must be whole unless drawing was too slow,
  and quitting must end the process whatever the render thread does.
* **Camera.** The capture thread sits in the webcam with the mutex held, and the
  guest changes enable bits and addresses at any time.
* **Timers.** Six sources share one line and each acknowledgement drops it.
* **SD.** Interface and card count the bytes of a transfer apart, a driver may
  give any command in the middle of one, and a saved state holds part of it.
* **Gamepads.** Packets leave as distances between interrupts, which the guest may
  take late, back to back, or after a reset in the middle of one. Polled pads see
  latch and clock at ticks only.
* **Sound.** Two threads share a queue under a mutex and a period without one; a
  channel may be stopped and started within one tick.
* **Blanking.** Two counts of lines run on one schedule that jumps once a second;
  start and end of the encoder's blanking share one line and one flag; a store to a
  status register wipes out flags that are not acknowledged, and a DMA transfer of the
  picture unit may run over its own interrupt registers.
* **DMA.** Work is refused on several paths, with or without the busy bit. Rectangles
  of the BLN DMA overlap, are clipped, and their colours wrap.
* **Not threads but arithmetic:** products and loops of 32 bits in the DMA and
  in the erase command, a scrambler made of tables, conditions, flags, carries and links of the CPU, ADPCM clamping.

`PROJECT.json` lists each hazard at its line with the properties that cover it,
or with the reason why none does yet.

## 2. Modules

`Pic` holds the operators of the interrupt controller on a record of its
registers. Every device module uses it, so that a device's raise goes through
the same `SetIRQState` as in the code, on the lines the device owns.

| Module | Models | Notes |
|---|---|---|
| `Pic` | `SetIRQState`, `ProcessInterrupts`, stores and reset of `sys/irq.cpp`; `queued` is the CPU's `interrupt_queue` | registers are sets of lines |
| `Interrupts` | `Pic` with the interrupt entry of `CPU::step`, `rte`, `mtcr cr0`, soft reset | any device raises or drops any line at any time |
| `Delivery` | what delivery promises, without registers, masks and queues | abstract: no code of its own |
| `InterruptHistory` | `Interrupts` with counts of edges | the counts observe, no guard reads them; refines `Delivery` |
| `PicProofs` | lemmas about the operators of `Pic`, and about loops | for the proofs of every device |
| `InterruptProofs` | theorems about `Interrupts` and `InterruptHistory` | |
| `RenderThread` | `PPUTick`, `PPUUpdate`, `PPUFlip`, `ppu_render_thread`, `ShutdownPPU` and the flags of the main loop | one action per access to shared state |
| `CsiCapture` | `CSITick`, `csi_capture_thread`, `csi_copy_frame`, `ShutdownCSI`, registers | the webcam is a step without fairness in the code's part, given one only for liveness |
| `Blanking` | `PPUTick` and `TVETick` under the main loop, stores, `ppudma_worker`, reset | composes picture unit, encoder, controller and a guest that serves them |
| `Timers` | `TimerTick` for both clocks, all registers, reset | with a guest whose handler acknowledges when it was entered |
| `TimerProofs` | theorems about it | |
| `SdCard` | the card as operators on a record, with erasing and failed writes | bytes are counts, contents are left out |
| `SdHost` | interface and card together, saved states | composes `SdCard` |
| `ApbDma` | `apbdma_work`, the hook search, completion, acknowledgement, reset | addresses of `AddrBits` bits |
| `StorageProofs` | theorems about `SdHost`, `SdCard` and `ApbDma` | extends all three |
| `BlnDma` | `blndma_worker` in every mode, `descrambleWord`, stores, reset | memory is counted in halfwords |
| `PictureProofs` | theorems about `RenderThread`, `Blanking` and `BlnDma` | extends all three |
| `Gamepad` | `IRGamepadEvent`, `tick_subor`, `tick_zone3d`, the pads' interrupt and pins in `sys/gpio.cpp` | together with the driver for which the transmitter is written |
| `InputProofs` | theorems about `Gamepad` and `CsiCapture` | extends both |
| `Cpu` | flags and conditions, arithmetic, shifts, branches and links of `cpu/cpu.cpp` | an arbitrary program, one instruction a step |
| `CpuProofs` | theorems about it | |
| `Sound` | `start_channel`, `stop_channel`, `tick_channel`, `SPUUpdate`, `audio_callback`, stores and reset of `audio/spu.cpp` | the threads share queue and period |
| `SoundProofs` | theorems about it | |

The `MC...` modules instantiate them for TLC; constants get their values in the
`.cfg` files. Two modules of one proof module share no names, which is why `RenderThread`,
`ApbDma`, `Gamepad` and `BlnDma` write `RenderInit`, `DmaNext`, `PadSpec` or `BlnTypeOK`. Every action names the function it models in `PROJECT.json`.
Definitions whose comment begins with *wrong variant* belong to no specification:
each is a plausible bug, and TLC finds the named property violated when it takes
the place of the right one.

**How code becomes state.** In single-threaded modules an action is a whole
handler: everything a store to a register, a tick or a command changes changes in
one step. In `RenderThread`, `CsiCapture` and `Sound`, where threads meet, a step is one
access to a shared variable or one operation on a mutex or a condition variable,
and `main` and `render` (`capture`, in `Sound` `audio`) hold the place of each thread in its code.
Waiting on a condition variable is two places: `wait`, which gives the mutex up,
and taking the mutex again after a notification or a spurious wake-up.

**Interrupts.** `pending`, `mask` and `fired` are the three registers, `queued`
the CPU's queue. `ProcessInterrupts` looks at one half and then at the other and
returns after one delivery. `TakeInterrupt` enters the lowest number of the queue and
clears interrupts; `Rte` puts `last_ien` back. `last_ien` is not initialised by the code,
so `Init` leaves it open.

`Delivery` is the guest's view: lines that are up (`level`), how many edges of each can
still be entered (`owed`), and lines that have become `deaf`. Masks, priorities and the
queue are not in it. `InterruptHistory` maps to it with `owed` computed from the registers:
one edge for a line that is up and was not handed over, one for its bit in the queue. A
store to the pending register is `Poke`; a store to a mask may merge two edges of a line
into one (`HandOver`); a reset forgets what was owed.

**Blanking.** A round of the main loop is 2000 instructions, with `PPUTick` after 1000 and
`TVETick` after 1500; `due` is the tick that comes next. The count of instructions starts
again once a second, at any multiple of 100: when that falls between the two ticks, the
encoder's is left out (`RestartCount`). `line` and `tveLine` are the counts of lines,
`shift` what they are apart. `serving` is the guest's side: lines whose handler was entered
and has not acknowledged. A transfer of `ppudma_worker` is one step; `PpuDma` with values
from memory stands for one that runs over the interrupt registers.

**Timers.** `serving` is the guest's side here, too: its handler was entered and has not come
to its store (`Serve`). `covered`, `erased` and `stale` are histories for the properties:
timers whose line a store to another timer dropped, a store that cleared FLAG and left the
line up, and a soft reset behind `intsFired`.

**BLN DMA.** A transfer runs in the store that starts it. The sixteen registers that
describe it are read by that store only and become its parameter, a record. `Painted` is
the double loop with one `Turn` per pixel, in the order of the code, on the memory as the
turns before left it. `Pack`, `Mixed` and `Channels` keep the widths of the code's
variables. The blocks of both sources and the destination are one, as in the code, which
reads the registers of source a for all three (`dma/blndma.cpp:404`).

**SD.** A command is a member of a set; its argument is a card address, block
length or position from a small set. The interface keeps `bytecount`, `datcom` and
the two buffer flags; the card keeps its state, the position in the block and the
file, and the flags of `SD_State`. Whatever is not in `SD_State` keeps the value
of the running machine over a load, as in the code. The image file may refuse one word of
a DMA store; `pwrite64` then returns -1, which both counts take as a number of bytes.
Erasing changes the file only and no state of the card, so it is an operator, `Erased`:
the set of bytes the loop fills. `Places` are the addresses a driver gives, `WordTop` is
2^32; the code takes images of up to 16 GiB (`stor/sdcard.cpp:76`), so a card may be larger.

**Gamepads.** `bits`, `sr`, `timer` and `active` are the variables of the transmitter;
its queue is `packets`. A packet has the keys, the player and a checksum, which the
code computes in four bits and the model in one. `pinEn` and `pinSt` are the bits of
the pin in the registers of its port. The guest's driver is external: its clock
`since` counts ticks from one interrupt it takes to the next. In `zone3d_pad_mode` the
guest stores anything to the two output pins at any time; `pulses` counts its clocks and
`latched` remembers the keys, for the property only.

**CPU.** `acc` stands for any register but the link register `r3`. Operands from
other registers, memory and immediates are chosen freely, so every program is a
behaviour. A step is `step` for one instruction: wide, half, or the half of a pair
that is executed, with the four or two bytes that `step` adds after `exec32` or
`exec16` moved `pc`. `last` remembers the words of the addition or subtraction that
set the flags, and `ret` what follows the latest call while `r3` holds its link;
neither is read by the code's part.

**Sound.** `buf` is the size of `audio_buf`, `period` is `samp_period`; its test, load and
store are steps of each thread, because the callback makes them after it gave the mutex
up. `chan` has the bits that say whether a channel plays, is busy, ramps down or plays
its release tone; a ramp, an envelope or the data may end at any tick. `beat` is
`spu_beatcnt`, whose status bit and line are written apart.

**DMA.** A transfer is finished within the store that starts it. `Undefined` is the
case in which the hook found has no handler for the mode, which calls a function pointer
that was never set.

## 3. Runs

| Run | Question | Instance |
|---|---|---|
| `interrupt_history` | Do registers, queue and CPU keep the promises of `Delivery`? Is a waiting line rescued, and is what is queued entered? | two scopes: two lines, one in each half, with all stores and soft resets; three lines, two of them above the ticking one, which are raised, acknowledged and masked at will |
| `render_thread` | Are pictures torn, dropped, or threads stuck? Does quitting end cleanly? | frames of four lines, three events of three kinds |
| `csi_capture` | Does the guest learn of frames that are there? Does the machine stand still for the webcam? | frames of two lines, two buffers |
| `blanking` | Have lines their flags? Is what was handed over served? Do the counts of lines keep step, and does blanking go on? | frames of four lines, all sources of the picture unit, DMA over the registers, soft resets |
| `timers` | Do flags and line agree, and does a timer left alone go on? | two timers, an overflow after two ticks or at once from a preload of three, a divider of two |
| `sd_host` | Do interface and card agree on every transfer begun by the book, also when a write fails? Which sectors does erasing clear? | card of five sectors of one word, four of them within 2^32 bytes, two block lengths, eleven commands, the first sector and both sides of that border as addresses |
| `sd_load` | *violation:* does a loaded state go on as it was saved? | one block length; `SaveSpec` adds saving and loading |
| `apb_dma` | Why can a busy bit stay? Has every line its status bit? Does a hook move what the loop would? | two channels, five address bits |
| `bln_dma` | Does a transfer paint what it should? Can a guest wait for it in vain? Can descrambled data be told apart? | twelve halfwords, two pictures, two transfers in a row of every mode |
| `gamepad` | Does a driver that may be late read every packet as it was sent? Do polled pads show one moment? | both modes, two players, three keys, three key events, marks of 1, 4, 7 and 10 ticks |
| `sound` | Do queue and period stay in range? Has the line of the beat a cause? Do busy channels play? | one channel, a queue of four samples, callbacks of two, periods of two apart |
| `cpu` | Do conditions mean what they say, are carries exact, do calls return? | words of three bits, eight bytes of memory |

What they show beyond the type invariants:

* `ImplementsDelivery`: an acknowledgement between raise and entry neither duplicates nor
  drops an interrupt; two edges become one only while the first is still queued. The one
  way to lose one is a soft reset or a store to the pending register, which clears
  pending bits and leaves `intsFired` set: the line is deaf until it is acknowledged.
  `HInv` is the invariant behind it.
* `ReturnEnablesInterrupts`: an uninitialised `last_ien` is never used by the `rte`
  of a handler that was entered, and a handler returns with interrupts enabled.
* `WaitingIsRescued`: each call of `ProcessInterrupts` hands over one line, the highest that
  waits. With a periodic line that goes on being raised, every line above it that waits is
  handed over in the end, several of them one after the other. The lines below it have no
  such promise: the code may leave them waiting for ever. `QueuedIsEntered`: what is in the
  queue is entered, unless lower numbers, which `step` prefers, keep coming.
* `LossesAreLate`: the unprotected read and the double
  clear do harm only in the tick that asks for the next picture, that is when
  drawing lasted a whole frame.
* `NoTickAfterShutdown`, `QuitEnds`, `CloseExits`, `PicturesKeepComing`: no wake-up
  is lost; quitting ends the process. A user who presses Alt+F4 twice can reach a
  second `join` of the same thread, which ends the process by `std::terminate`;
  `CloseExits` therefore speaks of users who do not.
* `CsiInv`: status bit and line agree, and `csi_frame_need` keeps the tick away from the
  mutex for as long as the thread is in the webcam. `FrameEndMeansFrame`: the guest
  is told of a frame that is in memory, unless it turned the camera off meanwhile.
  `DestinationIsCurrent`: a frame goes to a buffer programmed after it was grabbed.
  `FramesKeepComing`: while the camera is left on, frames are copied to memory again and
  again.
  Between the last look at the enable bits and the end of the copy the guest may
  still turn the camera off and find its memory written; the comment in
  `csi_copy_frame` narrows this window and the code does not close it.
* `BlankInv`: a line that is up has its flag, unless a store without its bit or a DMA
  transfer wiped the flag out (`erased`); the encoder's flag is never up without its line.
  `FiredIsServed`: `intsFired`, which keeps a line from interrupting again, is always on its
  way to being taken back, a soft reset apart (`stale`). `LinesInStep`: picture unit and
  encoder stay at a distance that only the restart once a second changes, by one line.
  `BlankingGoesOn`: enabled and served, blanking interrupts for ever.
* `BlnInv`: the start bit stays on, and the interrupt does not come, only for a fill whose
  colour the key or the alpha bit hides, which returns early. `TransfersPaint`: for
  sensible transfers (a destination not in front of what is still to be read, an even
  width to descramble, factors that cannot leave the range of a channel) the loops paint
  what the rectangles mean. Outside of these the code wraps colours, runs green into red
  in ARGB1555, and writes one halfword too many in an odd row that is descrambled.
  `DescrambleIsInvertible`: each of the eight tables is a permutation and no bit is in two
  groups.
* `FlagHoldsLine`, `TimerInv`: two timers flagged at once and one acknowledged
  leave the other with its flag and no line (`covered`), and a store without FLAG
  erases a flag but leaves the line (`erased`). Nothing else sets them apart.
  `FiredIsServed`, a part of `TimerInv`: what was handed over is queued or being served,
  `erased` and `stale` apart.
  `RunningTimerInterrupts`: no sequence of overflows, entries and acknowledgements ends the
  interrupts of a timer that is left running, although its handler acknowledges only when
  it was entered. The two exemptions are needed, and TLC finds a counterexample without
  either: after a store that erases FLAG (`sys/timer.cpp:133`) the handler finds nothing to
  acknowledge, and after a soft reset between hand-over and entry (`sys/irq.cpp:71`) no
  handler comes. `intsFired` stays set, later overflows are not handed over, and the
  interrupts of the timers are over until some store happens to acknowledge.
* `SdInv` (of `FlagsFollowCard` and `WriteStaysInBlock`), `MultiStaysOpen`, `BlockCommandStarts`: the
  two counts agree for every transfer that begins with a block length the
  interface shares and is not disturbed by a second block command. A write that fails
  takes them apart, and the block then ends at once or up to three bytes late.
* `EraseClearsRemainders`: with a block length of one sector, erasing clears the sectors
  numbered by the remainders of the two numbers it names modulo 2^23, the sectors in 2^32
  bytes. Within the first 4 GiB that is what was named. The ends are products of 32 bits
  (`stor/sdcard.cpp:406`, `:409`), all other addresses are computed in 64 bits: on a larger card, erasing
  sector 2^23 clears sector 0, and a range across the border clears nothing or sectors
  nobody named. With another block length the same arguments name other bytes than
  those of reads and writes; with a length of 0, which a driver may set, the loop of the
  code does not end.
* `ApbInv`: a line that is up has its status bit, and the busy bit stays for a hooked transfer to an
  address outside main RAM, or because the guest stored it; nothing else.
* `HookMovesWhatTheLoopWould`: the difference of the end points plus one unit is
  what the loop moves, for whole units in main RAM. The fourth test of the hook search
  (`dma/apbdma.cpp:75`) looks at the direction where the addressing mode is meant: a read
  with continuous addresses selects the SD hook, whose handler for that mode was never set
  (`Undefined`), and a write to the card never uses its hook and goes word by word.
* `ReceivedWasSent`, `GamepadInv`: the first edge of a packet comes one tick
  after the last of the packet before; a late handler stretches a mark and shortens
  the next; idle times can look like any mark. Marks that differ by more than twice
  the latency are enough for the driver to read every packet that was not
  disturbed by a disabled pin, and never another word. The four marks of the code
  (102, 191, 281 and 550 ticks) leave room for a latency of 44 ticks.
  `PolledIsLatched`, its third part: a guest that leaves a tick between two changes of
  the pins reads from both polled pads the keys of one moment, even if latch and clock
  rise together or a soft reset lowers both; one that is hastier may miss a latch.
* `AudioInv`: the callback changes the period without the mutex, so updates of either
  thread get lost; yet the period never leaves its range by a whole step. While one
  thread stands between its test and its load, the other can only store a value that is
  a whole step further inside. `BeatLineHasCause`: only a store without the status bit erases the
  cause of a line (`erased`). `BusyMeansEnabled`: `tick_channel` goes on after it stopped
  a channel, and a loop that ends in that tick starts it again: the channel stays busy
  and never plays (`again`).
* `ConditionsCompare`: conditions 0 to 9 after a subtraction or comparison are the
  unsigned and signed order of its words, however many instructions that keep the
  flags ran since.
* `WideArithmetic`: `addc` after `add` and `subc` after `sub` compute two-word results
  with the right carry. For `addc` the overflow is right, too; `subc` takes the
  formula of `addc`, which is wrong for a difference, so nothing is claimed of it.
* `CallReturns`: the link of every form of a call is the address of the instruction
  behind it, and a return that is not itself in a pair ends there. A branch of 16
  bits in a pair ends two bytes further, because `exec16` steps back by two and
  `step` adds four.

### Findings

* `sd_load`: `SD_State` (`stor/sdcard.cpp:518`) saves neither `expectingMultiBlock` nor
  `blocklen`, `readingScr` and `RCA`. A state saved within a transfer of several
  blocks and loaded after a single-block command stops after one block.

### Bounds, and why they are enough

* *Lines.* `ProcessInterrupts` tells lines apart by half and order only. Two lines in
  different halves show both orders of its scan, under everything that may happen. For a
  line to wait behind another while a third ticks there must be three, two of them above
  the ticking one; this scope of the run (`InScope` in `MCInterruptHistory`) leaves out
  stores to the pending registers, soft resets and interrupts enabled inside handlers, which
  have no part in it. Edges saturate at two, as many as can be owed at once. The theorems
  hold for any set of lines.
* *Blanking.* Of the 801 lines of a frame only 50 and 550 do anything; one line before,
  between and after them, and the encoder's start at one of its own, give every order of
  the four events. The guest stores all sources to a control register, which a soft reset
  empties, and an acknowledgement of the start to the status register, which wipes the other
  flags out; handlers store what they serve, and the DMA brings the same values. The theorems
  hold for any lines, sources and values.
* *BLN DMA.* Rectangles of up to four columns and two rows, in and out of a block, in every
  mode, shifted over each other by one halfword in both directions; `MaxPaints` transfers
  in a row paint on what the one before left. The tables are checked in full: `GroupsPermute`
  looks at every value of every group.
* *Frame.* `RenderLine` (50 of 800 in the code) is one line, and every other line
  behaves alike; four lines leave room before and after it. Three events are
  enough for quit, quit again, and a load in between.
* *Timers.* Two share the line in every way six can in pairs; a limit of one and a
  preload of three reach overflow by counting, overflow at once, and both clocks.
* *SD.* The addresses `Places` give the first block of the card, the last one and the one
  behind the card; two lengths give a block of one sector
  and one of two, and transfers of eight bytes by DMA go beyond a block. `FileTop`, the end
  of the card in this run, stops transfers beyond it, `OffsetFloor` those that failures took
  before the file, one word failing per transfer. `WordTop`, 2^32 in the code, is four sectors
  and less than the card, so that sector 4 stands for sector 2^23 of a card over 4 GiB;
  a block with a transfer by DMA on top of it does not wrap, as in the code. `sd_load`
  needs none of this and has a card of two sectors.
* *DMA.* Five bits of address have regions below, inside, across the end of and above
  main RAM, and one that ends at the last address, where the loop wraps.
* *Gamepads.* Three events queue packets of both players back to back and while one
  is on the air. The marks have the least distances the assumption allows for a
  latency of one tick; three lengths between them would add nothing but time.
* *Sound.* Channels do not touch each other; one shows what each does. The queue gets
  full and runs dry, a callback is longer than one sample, and the period is moved past both ends of its
  range in every combination of the two threads' accesses.
* *CPU.* Three bits have every combination of signs, carries and overflows; shifts
  reach both ends. Eight bytes hold two pairs, and branches wrap around. The theorems
  hold for words and memories of any size.

### Fairness

* Both threads of `RenderThread` and `CsiCapture` are scheduled (`WF` on their steps).
  Taking a mutex is strongly fair: `std::mutex` promises nothing, but both critical
  sections give the mutex up to wait, and a thread that is always overtaken needs
  infinitely many spurious wake-ups.
* The webcam delivers (`WF` on the end of a grab) in the liveness properties of the
  camera only; `CsiInv` holds without it.
* `TickMain`, `CpuTakes` and `Serve` are weakly fair in `Timers`: the main loop
  calls the tick every fourth instruction, the CPU steps, and a handler of the guest that
  was entered comes to its store. One that was not entered stores nothing.
* `HLiveSpec` has one device whose tick raises `TickLine` again and again and a CPU that
  steps, as the main loop does without end.
* In `Blanking` the ticks of the picture unit, entries and the handlers' acknowledgements
  are weakly fair; the encoder's tick is strongly fair, because it is left out only when a
  second ends between two ticks, and a second is longer than a round.
* SD, DMA, gamepads, sound and the CPU have safety properties only. In `IRGamepadTick` the
  guest's promise to be no later than `Latency` is a guard, not fairness.

## 4. Proofs

All theorems are of the form `Spec => []Inv`, `Spec => [][A]_vars` or, for the refinement,
`HSpec => Promise!Spec`, for every value of the constants within the stated assumptions.

* `InterruptProofs`. `TypeCorrect` and `RteEnablesInterrupts` concern `Interrupts`.
  `HistoryInvariant` proves `HInv`, whose core is `EdgesCoverOwed`: a line owes one
  edge for a queued interrupt and one for a rise that is not handed over yet, and
  may owe both. `EachDeliveryHasAnEdge` alone is not inductive: the step that hands
  a line over must know that its edge was counted. `FiredIsPending` says why a
  line that rises again is handed over again, the stale ones apart. There is one
  lemma per action. `DeliveriesHaveEdges` and `EdgesAreNotLost` follow from it.
  `PromiseIsKept` is the refinement: the initial states map to those of
  `Delivery`, and each action of the detailed specification to one of its steps. The
  invariant is needed there, too: an entry may use up an edge only if `Owed` is positive,
  and a poked line is withdrawn or deaf according to `intsFired`.
* `PictureProofs`. `HandOver` proves `RenderInv`: the mutex is held exactly in the
  render thread's critical section; drawing has used up the request; while the
  emulation thread shows a picture the render thread is idle, except in the tick
  that asks for the next one; the thread is killed only on the way out. From it
  follow `TornPicturesAreLate`, `LostPicturesAreLate` (an action property) and
  `NoTickAfterKill`.
  `BlankInv` (`FlagsHaveLines`) and `FiredIsServed` (`HandedOverIsServed`) are proved together with the types: what a
  raise hands over is in the queue, what is entered is being served, what is acknowledged
  is no longer fired. `CountsKeepStep` proves `LinesInStep` from the types alone, by cases
  on whether a count wraps.
* `PictureProofs`, the BLN DMA. `WaitsAreExplained` proves `BlnInv`, which is inductive; its
  types need that every turn makes a memory of 16-bit pixels again, whatever wraps
  (`BlendedIsPixel`, `NumberIsPixel`). `TransfersPaintPictures` proves `TransfersPaint` from an
  invariant of the loops, `PaintedUpTo`: after the turns that come before a pixel, the halfwords
  of the destination numbered before it (`Order`, row by row) hold what they should, and all
  others what they held at first. `ReadBeforeWritten` is why overlap does not matter: a source
  that is read in time is read at a place not numbered before the turn that reads it.
  `OneMore` adds a pixel, `TurnPaints` is a turn of a copy, fill or blend, `TurnDescrambles`
  one that takes two pixels at once, `BlendIsIdeal` the arithmetic that does not wrap while
  the factors are in range. `DescramblingIsInvertible` rests on inverses of the eight
  tables (`TablesArePermutations`), the groups that share out the bits (`GroupsShareBits`), and
  four bits being their number and back (`NumberOfNibble`, `NibbleOfNumber`).
* `CpuProofs`. `ComparisonsLast` proves that the flags keep the order of the words
  they came from: one lemma for instructions that set flags from a subtraction or an
  addition, one for those that set them otherwise and so forget the words, one for
  those that leave them alone. The core is `SubtractionKeepsOrder`: `N = V` is the
  signed order. `ConditionsAreTheOrder` follows. `WideArithmeticIsExact` adds the
  two-word lemmas `WideSum`, `WideDifference` and `WideOverflow`, which are about
  remainders modulo the square of the modulus. `LinksLast` relates `r3` and `ret`;
  `ReturnsEndBehindCalls` follows. `TypeCorrect` takes the types from both invariants;
  that addresses stay even when they wrap needs the size of memory. The decoder, `T` and memory are not in the model,
  so the theorems say nothing of them.
* `SoundProofs`. `QueueAndPeriodStayInRange` proves `AudioInv`. That the period is near
  its range is not inductive alone: a thread stores what it loaded a while ago.
  `TestsHold` says that what it loaded passes its test until then, because any value the
  other thread may store is a step further inside. `BeatLinesHaveCauses` and
  `BusyChannelsPlay` rest on lemmas about one beat, one store and one tick of a channel.
* `TimerProofs`. `LinesHaveCauses` and `FlagsHoldTheLine`: `LineHasCause` and `FlagHoldsLine` are inductive
  together with the types; `FiredIsServed` needs besides that a line in `intsFired` is up or
  `stale` (`FiredIsUp`). `AdvanceEffect` splits a tick by whether an overflow is due; that
  one is due exactly when their number is not zero needs that there are finitely many timers.
* `InputProofs`, the gamepads. `PadsAreHeard` proves `GamepadInv`, whose parts are not
  inductive alone: that the next completed packet is the one sent depends on every mark the
  driver measured, on the delay of the interrupt that waits, and on whether a waiting stop
  mark belongs to the packet before. `TransmissionInv` says all of that. `PinIsQueued` ties
  line, `intsFired` and queue together; `SenderSendsLast` says what the shift register still
  holds of the packet; `GuestMeasures` bounds what the driver's clock shows by the mark in
  question and the latency, disturbed drivers apart, which measure nothing that looks like a
  start; `GuestFollows` counts the bits: the driver has those whose edges it took (`InStep`),
  or a whole packet whose stop mark waits while the next has begun (`TwoInOne`).
  `PadsFollow` does the same for the polled pads: after `n` clocks they hold what was latched,
  shifted by `n`. `PacketsArriveWhole` proves `ReceivedWasSent` as an action property from it.
  On the way TLC showed the invariant violated where an interrupt may wait for longer than
  the shortest mark: two edges are then one interrupt and the bit between them is lost.
  `Latency <= TZero` is an assumption since, which the marks of the code leave ample room for.
* `InputProofs`, the camera. `CaptureInv` is the inductive invariant of the two threads: the mutex is held
  in the critical section only, `csi_frame_need` lasts until a capture is over, the tick goes
  for the mutex only without it and with the camera on, the kill request waits for the mutex,
  and what the capture thread finds switched off the history has seen. `CsiInv`,
  `FrameEndMeansFrame` and `DestinationIsCurrent` follow (`CameraNeverStallsTheMachine`,
  `FrameEndsHaveFrames`, `FramesGoWhereToldTo`).
* `StorageProofs`, the SD card. `BookIsKept` proves `BookInv`, what a transfer begun by the book
  looks like until it is over: a single block is on its way, with bytes counted alike on both
  sides and still below the block length both expect (`Moving`), or it is over on both sides
  (`Single`); after a write that failed the card's position in the block and in the file still
  go together, and it ends less than one word off (`Hurt`); several blocks leave the card
  sending or receiving. Whole words are needed: `HostAssumption` has lengths of blocks and
  transfers that are, and `b + n <= WordTop` for a block with a transfer on top of it, so that
  the card's count does not wrap before it sees the end of the block.
  `SdInv`, `MultiStaysOpen` and `BlockCommandStarts` follow (`FlagsFollow`, `SeveralStayOpen`,
  `BlocksStart`). `EraseIsExact` is about the operator `Erased`: sectors, products modulo
  `WordTop` and the end of the card, for cards smaller and larger than a word counts.
  `ProductIsCut` says what the wrapped product of a sector number is: the product of its
  remainder.
* `StorageProofs`, the DMA controller. `LinesAndBusyBits` proves `ApbInv`, which is
  inductive once every channel has a line of its own. `HookIsLoop` proves
  `HookMovesWhatTheLoopWould`: `LoopLeaves` finds the address of every turn and the turn in
  which the loop exits, for any region and unit.
* *Loops* (in `PicProofs`). The models write a loop as a function of its turns. `TurnByTurn` (what holds at
  first and from turn to turn holds in every turn, by the least counterexample) and
  `LoopExists` (such a function exists, so that its defining equation may be used) replace
  the library's induction theorems, whose parameters are operators.

Assumptions: words have at least one bit, powers of two are positive whole numbers
(the provers do not know powers), memory is a whole number of instructions of 32
bits. The frame has a line after `RenderLine`; the counts saturate at two or
more. The sound queue is longer than what an overflow drops and a callback leaves, and
the period has a positive step and begins in its range. The card and what a word counts are whole
numbers of sectors, of which either may be the larger; blocks and transfers are whole words; the DMA's addresses end
at a multiple of four; the marks of the gamepads differ by more than twice the latency. A
transfer of the BLN DMA has the widths of the registers' fields and a size of block from the
code's tables, and what it reads and writes lies in main RAM, which the code does not check
(`StaysInMemory`). TLC evaluates all of them in the runs.

Model-checked only: liveness, all of it (fairness and ENABLED are out of the prover's
reach): `WaitingIsRescued`, `QueuedIsEntered`, `QuitEnds`, `CloseExits`, `PicturesKeepComing`,
`FramesKeepComing`, `RunningTimerInterrupts` and `BlankingGoesOn`. Every invariant and every
action property of the runs has a theorem.

## 5. Not modelled

* Drawing of layers and sprites by the picture unit and pixel formats: data without
  control. The ELF loader and the NOR image run once, before the machine starts.
* I2C, buffer control and the memory interface are register files.
* In `Cpu` the contents of memory, the decoder (with the path for code outside main and
  internal memory, which decodes a pair as one instruction of 32 bits), `T`, the counter `CNT`, whose
  condition is left open, products and quotients, and undefined instructions, which
  end in a soft reset. Of `sys/gpio.cpp` the pull
  resistors, the listeners, which nothing attaches to, and the other ports.
* In `Sound` what is heard (mixing, ADPCM), the software channel with line 63, stores to
  the status register of the channels, and the wall clock: a period may pass at any time.
* In `SdHost` the response register and its flag, the contents of responses, a block length
  of 0, and reads that fail, which end the program. In `CsiCapture` the conversion of pixel formats. Saving
  and loading is modelled for the SD card and, as a jump of the line counter, in
  `RenderThread`; other devices have the state they save only.

## 6. Plan

1. The rest of the sound unit: the software channel and its interrupt, stores to the
   status of the channels, ADPCM against its definition.
2. Products and quotients of the CPU with the halves of `CE`; the memory map.
3. `SaveState`: order of sections and what is left out, over all devices.
4. Theorems: that what the devices do to the controller are steps of `Interrupts`, so that
   `EdgesAreNotLost` holds of the lines of every device.

`SetIRQState` raising a line twice before an acknowledgement is one edge in all modules,
so the device modules compose with `Interrupts` by taking its `pic` for theirs.
