# TL_PACMAN in TLA+

A verification project for the Pac-Man game of TL_PACMAN: a Nios II processor
runs the game (`src/software/pacman_soft_1`), video logic in an FPGA shows it
(`src/*.vhd`, `src/vpg_source`), and a second program, the HDMI demo
(`src/software/HDMI_DEMO`), sets up the transmitter behind the video logic. The
specifications are translated from that code; line numbers below refer to
`src/`.

## 1. Inventory

### The parts and how they interact

| Part | Source | State | Operations |
|---|---|---|---|
| game loop | `software/pacman_soft_1/main.c` | `score`, `charPosition`, `foodLayer`, `whileCounter` | boot, registration of five handlers, loop: show the score, look for food, restart |
| interrupt handlers | `main.c` 17-86 | the same memory; edge-capture registers | one refresh per video frame (60 Hz), four buttons |
| movement | `refresh_position.c` | one `position` record per character | `init_position`, `compute_collision`, `refresh_position`, keep going, random side, packet |
| board and food | `background.c`, `general.c` | `foodLayer[15]`, walls | fill, eat, "is it empty", transfers to the display memories |
| game manager | `game_manager.c` | all of the above | `init_game` |
| score display | `segments_display.c` | a port of 3 x 7 segments | `display_number` |
| position link | `position_data_decoder.vhd`, POSITION port | port word; x, y, state, orientation per decoder | take the word whose id is mine |
| display memories | `background_memory.vhd` | 16 words of 32 bits, twice | latch a word while the write enable is up |
| layer and sprite generators | `food_layer_generator.vhd`, `background_generator.vhd`, `character_generator.vhd`, `ghost_generator.vhd` | address, state of a 4-state pipeline | one pixel per clock |
| video timing | `vpg_source/vga_generator.v`, `vpg.v` | line and column counters | sync, pixel coordinates, the frame pulse that interrupts the processor |
| mode and PLL | `vpg_source/vpg_mode.v`, `pll_controller.v` | mode, reconfiguration state | button, sequence of writes to the PLL |
| HDMI transmitter driver | `software/HDMI_DEMO/main.c`, `encoder.c`, `adv7513.c` | registers of the ADV7513, retry counters | set-up, command loop, hot-plug interrupt handler |
| I2C bus | `software/HDMI_DEMO/i2c.c` | two wires | six kinds of transactions, bit by bit |
| EDID | `software/HDMI_DEMO/edid.c` | a buffer of 256 bytes, a struct of what they say | read, decode, print |
| JTAG UART | `*_bsp/drivers`, `HDMI_QSYS_jtag_uart.v` | two ring buffers, two FIFOs, two interrupt enables | `read`, `write`, `close`, interrupt handler, alarm |

`main()` and the handlers share memory without locks: the handlers run between
any two instructions of `main()`, never during each other. The processor talks
to the video side through plain output ports (POSITION; data and write-enable
ports of the food and the background memory), which the video side samples on
its own clock. The video side talks back through one wire, the frame pulse. In
the HDMI demo the program and the interrupt handler of the transmitter use the
same registers through the same two wires. `printf` and `scanf` of both programs
go through the JTAG UART, whose handler empties and fills the rings that the
calls of the program fill and empty.

### What is hard in this code, and what correct means

The hard part is the restart. When the board is empty `main()` calls
`init_game` again **with the handlers enabled**: the score, the characters, the
food array and the food memory are rewritten access by access while a frame may
be handled in between. No test of the repository reaches these interleavings.
For each component:

* *movement*: characters never leave the frame, never enter a wall - unless a
  frame falls between the stores of x and y - and ghosts never stop;
* *board, food, score*: no dot is lost or counted twice, whatever a restart and
  the handler interleave; a new game starts if and only if the board is empty;
* *display memory*: a line of the picture agrees with the food array, except
  when a dot was eaten exactly while its word was on the way;
* *score display*: it is behind the score, never ahead of it;
* *buttons*: a request is never dropped silently;
* *position link*: a word sampled while it changes must not end in the place of
  a position, and every decoder must show the truth again and again;
* *video timing*: each pixel of the picture once and in order, one pulse per
  whole frame, again soon after the limits changed in the middle of a frame;
* *pixel pipeline*: the colour that a layer gives belongs to the pixel whose
  data enable comes out with it, two clocks after it was asked for;
* *mode change*: counters and pixel clock belong to the same mode in the end,
  and the PLL never runs with counters of two modes;
* *HDMI driver*: no monitor is overlooked, whatever is plugged, unplugged or not
  acknowledged, and interrupts are masked only over a configured transmitter;
* *I2C*: a transaction changes a register as a whole or not at all, and leaves
  the bus free;
* *EDID*: what is printed is what this monitor said, not what an older or half
  of another one said;
* *JTAG UART*: characters arrive once and in order, no direction stays switched
  off with something to do, and no call waits for ever.

The hazards are listed one by one, with their lines, in `PROJECT.json`.

## 2. The modules

| Module | What it is |
|---|---|
| `Board` | blocks, layers as sets of blocks, words of a layer (`general.c`, `background.h`) |
| `Movement` | `refresh_position.c`: the collision box, turns, keeping going, the random side, as operators on one character |
| `GameRules` | the abstract game: eat one dot for one point; a new full board only, and eventually, when it is empty |
| `PacmanGame` | `main()`, the five handlers, the food port and memory; extends `Movement`, refines `GameRules` |
| `MCPacmanGame` | instances of `PacmanGame` for TLC: a corner, a corridor and the real ghost maze |
| `PositionLink` | the POSITION port, its decoders, `init_game` and the refresh handler as writers |
| `MCPositionLink` | instances of `PositionLink` for TLC |
| `VideoTiming` | `vga_generator.v` under the limits of `vpg.v`: counters, coordinates, data enable, sync, the frame pulse |
| `MCVideoTiming` | instances of `VideoTiming`: two small modes, the 1440x900 mode |
| `PixelPipeline` | the layers: four-state read pipelines of the background, the food and a character, the sync buffer; extends `VideoTiming` |
| `MCPixelPipeline` | its instance for TLC |
| `VideoModes` | the tables of the modes: limits (`vpg.v`) and PLL words (`pll_controller.v`) |
| `PllReconfigCore` | `altera_pll_reconfig_core.v`: main and read machine, wait request |
| `PllReconfiguration` | `vpg_mode.v` and `pll_controller.v` on top of it |
| `RegisterFile` | abstract: requests on the registers of a device, each as a whole or not at all |
| `I2cBus` | `i2c.c` and a device, access by access; refines `RegisterFile` |
| `Adv7513` | `adv7513.c`, `encoder.c`: sequences of register transactions |
| `HdmiDriver` | `main.c` of the demo: program, handler, monitor |
| `Edid`, `EdidCea` | `edid.c`: decoding of the base block and of the extension, printing, as operators |
| `EdidMonitor` | monitors: what they are, the bytes of their EDID, and what should be printed; the reference that the decoder is checked against |
| `EdidDump` | the commands `e` and `e p`: reading byte by byte, decoding, printing |
| `Stream` | abstract: numbered characters leave at most once each, in the order in which they entered |
| `JtagUart` | the driver of the JTAG UART, the device and the host; refines `Stream` twice |
| `MCPllReconfiguration`, `MCI2cBus`, `MCHdmiDriver`, `MCEdidDump`, `MCJtagUart` | their instances for TLC |
| `PacmanGameProofs` | lemmas on `Movement`; type correctness of `PacmanGame`; frame, walls, ghosts, requests; score conservation, refinement of the rules, display, the food memory |
| `PositionLinkProofs` | type correctness and the safety of `PositionLink` |
| `PixelPipelineProofs` | type correctness and the safety of `VideoTiming`, and on top of them the safety of `PixelPipeline` |
| `PllReconfigurationProofs` | all of the safety of `PllReconfiguration` |
| `I2cBusProofs` | `I2cBus` until the first reset: the bus is released, the clock is low where it must be, the transactions implement `RegisterFile` |
| `HdmiDriverProofs` | all of the safety of `HdmiDriver` |
| `EdidShapes` | what the proofs say of the bytes of an EDID, of the struct and of the variables: the invariants of `EdidProofs` |
| `EdidProofs` | `EdidDump` for every list of monitors: which mixed buffers pass the sum, what is printed, what cannot be printed, the bounds of the struct |
| `JtagUartProofs` | type correctness and the safety of `JtagUart`, and that it refines `Stream` twice |

### PacmanGame and the code

One action of `main()` is one access to memory or a port that a handler also
uses; the variable `main` names the next access. `At(l)` requires that no
registered interrupt is pending, because the processor takes it first. A
handler is one action: it does not nest and `main()` does not run meanwhile.

* `ResetScore`, `InitPositionX/Y/Facing`, `set_background_in_memory`,
  `init_foodLayer` (a line per step), `FetchLine`, `SendData`, `SendAddress`,
  `SendStrobe`, `SendRelease` are `init_game` in the order of
  `game_manager.c` 21-41. In `background.c` 31-35 the word of a line is fetched
  into a register, stored in the data port, and the write enable is pulsed by
  three stores; each of these is a step.
* `ClearEdges`, `RegisterHandler` are `main.c` 97-130, once per interrupt.
* `ReadScore`, `display_number`, `food_layer_empty` are the loop, 134-172.
* `Edge(i)` sets an edge-capture bit; `Serving(i)` is the choice that
  `alt_irq_handler.c` makes. The bit is cleared at the end of a handler in the
  code, and an edge during the handler is lost with it: clearing it with the
  action is the same.
* `refresh_position_interrupt_handler` moves all characters, then eats
  (`refresh_food_layer`) with the food port written as in the code. Its writes
  of POSITION are in `PositionLink`.

Abstractions: a layer is the set of blocks whose bit is set; `compute_collision`
works on coordinates as in the code. The value of `directionControl` of an
uninitialised local is any direction of `StackGarbage`; an access past an array
yields any word of `OutOfBounds`. At power-up the food memory holds the image
of a `.mif` file; the model starts it empty, and no property looks at it before
`init_game` has sent every line. Left out: `printf`, `randomOrientation` and
`init_ghost_position` (never called), the fifth character (placed, never moved
or read), the `collision` field (recomputed before each use).

`torn` and `stale` are history variables: the characters that a frame met
between the store of x and the store of y, and the lines whose word in the
food memory may be old. Only properties read them.

### PositionLink and the code

A word on the port is an id of three bits and a packed position; the 29 other
bits are a member of `Positions`. A decoder takes the word while the id is its
own. A sample during a change of the port may see each bit old or new:
`MixedIds` is the set of ids that may be read, and a decoder that reads its own
id while the position bits differ holds `MIXED`. The refresh handler writes each
word with id 7, then with its id, then with id 7 again (`main.c` 40-51);
`init_game` writes it bare, after reading it into a register, and the handler
may run in between. The processor's code is compiled without optimisation: it
needs several instructions, at 50 MHz, from one store to the next, so that the
pixel clock (25 MHz and more) samples each word whole at least once; `fresh`
says that it has not done so yet.

### VideoTiming and the code

`Clock` is one rising edge of the pixel clock: all registers of the three
`always` blocks of `vga_generator.v` take their values from those before the
edge. `Horizontal`, `Vertical`, `PixelLine` and `DataEnable` are its parts, in
the order of the file. The limits are combinational in `vpg.v` and change with
the mode on another clock, at any point of a frame (`ChangeMode`); the reset of
the generator is the lock of the PLL (`LoseLock`), which a change of the pixel
clock takes away - or does not, when it was not noticed (`PllReconfiguration`).
`settled` and `last` are history variables: the frames begun since the last
disturbance, and the last pixel that was drawn. `boarder`, `end_image` and the
`v_active` limits drive nothing and are left out.

### PixelPipeline and the code

`PixelClock` is a clock of `VideoTiming` together with one of the generators and
of the sync buffer; each generator sees the coordinates and the data enable of
before the edge. `NextState` is the state machine all three share, `Answers` the
memory, which registers its address but not its output. The two memories of
blocks have 480 bits behind an address of nine (`WORDS`, `ADDRESSES`); the
generators cut what they compute to nine bits (`BlockAddress`), and where the
memory has no bit it answers anything. The coordinates count from 1, so that
line 900 of 1440x900 is in a sixteenth row of blocks: behind the memory, or at
its first words again. The windows in which a dot, a block or a sprite is drawn
are `InDot`, `Wanted` and `InSprite`; a colour is one bit. The processor
rewrites a memory or a position at any time of a settled frame. Six clocks
(`CALM`) is the longest that a write can spoil, when it moves a character under
a pipeline that is drawing it; the processor needs more from one write to the
next. A character stands where it is in memory: mixtures that a decoder may show
for a frame are in `PositionLink`. Left out: the animation of the sprite.

### PllReconfiguration and the code

All registers of `vpg_mode.v`, `pll_controller.v` and of the core are there
under their names; `Clock` is one clock of 50 MHz. The clock of `vpg_mode.v` is
divided: `Look` is one of its edges, once in `PERIOD` clocks. The PLL is its
settings and its lock, which it may lose while it is written and gets back by
`LOCK`. Phase shifts, fractional division and other parts of the core that the
controller never asks for are left out. `crowded` is a history variable: the
mode changed again at the very next look, while the flag of the change before
was still up, and the controller sees no second edge (`vpg_mode.v` 42).

### I2cBus, Adv7513, HdmiDriver and the code

`I2cBus` keeps every store to the two ports and the direction as a step, and
every read of the data wire; `device` follows the wires as a slave does, may
leave any byte unacknowledged, and is not reset with the processor. A stack of
at most two transactions holds the interrupted one. The functions `i2c_start`,
`i2c_write`, ... are sequences of accesses under their names.

`HdmiDriver` is one level up: a transaction is a step, as `RegisterFile` allows;
`nacks` counts the failed ones, and the history variable `news` says whether the
plug has moved, over a driver that was watching, since the last one that the
handler does not make good by itself (or since a command). A function of
`adv7513.c` is a sequence of transactions (`Adv7513`); what it does between them
depends only on values it has read, so that a step of the program is a
transaction or the decision after a phase of them (`MainPhase`, `HandlerPhase`).
The interrupt is a level, and the handler may come between any two transactions
of the program. Left out: commands that only print (`d`, `m`, `r`), the write of
an arbitrary register (`w`), `e` (in `EdidDump`), and functions nothing calls
(`hpd_probe`, the 3D infoframes).

### Edid, EdidCea, EdidDump and the code

A buffer is a function of 0..255, the struct a record; both keep what was in
them, since the code clears neither (the struct is a local of `main`).
`edid_decode_v14` takes the old struct and gives the new one. `EdidMonitor`
writes the bytes from the meaning of the fields, independently of the decoder:
the low half of byte 131, for one, is the number of *native* timings, as CEA-861
has it, where the decoder takes it for the number of all of them.
`IsMonitor` says which descriptions the fields of an EDID have room for. It
excludes what the code cannot keep apart - two data blocks of one tag other than
the extended one share one place of the struct - and HDMI vendor blocks that are
not well-formed; the native timings are those at the head of the extension.
What a descriptor's union holds behind a text of 13 characters, which the code
prints with it, is kept (`tail`, `Text`). An array of the struct is a sequence,
and a write past its end changes the fields that lie behind it: `Overrun` stores
the 17th to 19th 3D format of a block over the colorimetry, the capabilities and
the first timing, and `Behind` reads them back from there, as later blocks have
left them, when the list is printed. `detailed_timing` is filled up to the count
in byte 131, also beyond its eight entries.
`adv7513_edid_read` reads a byte per step, each of which may fail or be of
another monitor than the one before. Wording and units of the print are left
out: what is printed is the fields that are, under the conditions that the code
prints them.

### JtagUart and the code

Each look at an index, each copy and each store of an index in `read` and
`write` is a step (`ReadLooks`, `ReadCopies`, `ReadAdvances`, ...); the handler
may come before any of them, and then runs to its end while the host goes on.
`memcpy` is one step, because handler and call work on disjoint slots
(`LooksStayGood` is why). The interrupts are disabled around the update of
`irq_enable`, which therefore is one step with the write of the register. The
two copies of the driver differ in one line of `write` (187): `call.early` says
which of them a write uses. Characters are numbered, so that a lost, doubled or
exchanged one shows. The device is its two FIFOs and the flags `pause_irq` and
`ac` of the Verilog: the interrupt for reading is due when the FIFO is nearly
full or when the host has polled since the last read. `Timeout` is the alarm;
the timer is initialised before the UART, so it always starts. The programs are
compiled without optimisation; `host_inactive` and `tx_in` are not volatile, and
a compiler could otherwise keep them in registers through the waiting loops.
`quiet`, `longest` and `taken` are history variables. Left out: what is compiled
for other configurations (the small driver, uC/OS) or never reached (`ioctl`,
`O_NONBLOCK`).

## 3. The runs

| Run | Instance | Properties |
|---|---|---|
| `corner` | three blocks around a corner, three buttons, one character | `TypeOK`, `ScoreConservation`, `NeverOutOfFrame`, `WallSafety`, `FoodMemoryInSync`, `DisplayNeverAhead`, `RequestsAreKept` |
| `rules` | a corridor of two blocks, two buttons, fairness | `PlaysByTheRules` (refinement of `GameRules`, liveness included) |
| `ghosts` | one ghost in the maze of `background.h`, fairness of the frames only | `GhostsKeepMoving`, `GetsOffTheWalls` |
| `link` | two ghosts, two positions | `TypeOK`, `SentStaysRight`, `CatchesUp` |
| `video` | two small modes, changed at any clock, with three layers | `TypeOK`, `FramesAreWhole`, `PictureAligned`, `RasterOrder`, `FramesGoOn` |
| `video_range` | the 1440x900 mode | `DeclaredRange`, **violated** (below) |
| `pll` | all modes, the lock back at any time | `SixtyFrames`, `NeverMixed`, `WritesAccepted`, `Finished` |
| `i2c` | three registers of either address width, any byte refused, one reset | `BusReleased`, `ActsAsRegisters` (refinement of `RegisterFile`) |
| `i2c_interrupted` | transactions of a handler within those of the program | `EntryClockLow`, **violated** (below) |
| `hdmi` | a monitor that comes, goes, sleeps and wakes; a command or a failed transaction | `NoEventLost`, `InterruptsReenabled`, `MaskedOnceConfigured`, `PictureAppears` |
| `edid` | nine monitors, changed once at one of four bytes, reads that fail | `TypeOK`, `DecodesTheMonitor`, `OnlyEqualSumsPass`, `NothingStale` |
| `jtag` | rings of 3, FIFOs of 2, five characters, a timeout of 2 | `TypeOK`, `LooksStayGood`, `NeitherStaysOff`, `GivesUpOnSilence`, `OutputInOrder`, `InputInOrder` (refinements of `Stream`), `CallsReturn`, `OutputArrives` |

Bounds and why they are enough:

* **Mazes.** A board of two or three free blocks already has everything the
  code distinguishes: straight, turn, dead end, a last dot. In `corner` a
  restart from the far arm passes through a wall when it is torn; in `ghosts` a
  ghost starts at every place where a torn restart can leave it. What is
  independent of the maze is proved for every maze (section 5).
* **Ghosts.** Characters never look at each other. `ghosts` has one ghost,
  `link` has two; the theorems hold for any number.
* **`FRAMES_PER_INIT = 1`.** A frame takes 16.7 ms and `init_game` a fraction
  of one, so at most one frame begins in it. The theorems do not need the bound.
* **`SCAN_PERIOD`** (the count of the main loop, `main.c` 138) is 0 or 1: how
  often the board is scanned does not matter, that other rounds lie between
  does.
* **`Pressed`** are the buttons the player uses: those that turn a character in
  that maze.
* **`StackGarbage`**, what the uninitialised request of a character may be:
  none or a turn in `corner`, a turn in `ghosts`, none in `rules`. The theorems
  have any. **`OutOfBounds`**: one word.
* **Positions.** Two values tell an old position from a new one and a mixture
  from both. The guard argument depends on the bits of the ids: two ghosts and
  the guard are enough for the order of the ids to matter, and the theorem has
  all numbers of ghosts.
* **Modes.** Two frames, with pictures of 9 by 2 and of 8 by 5 pixels, and
  counters of four bits: each mode can leave a counter beyond the other's limit,
  so that it has to wrap around. `VideoTiming!TimingAssumption` is what the
  seven modes of `vpg.v` have in common and the properties need. Blocks of five
  pixels and dots of two leave the shortest runs and gaps that the pipelines
  have to bear (`PipelineAssumption`). The blocks have a memory of three bits
  behind an address of four: the last line of the higher mode is in a row behind
  it, with one address that has no bit and one that wraps around. The character
  moves by three pixels, so that the pixels of both places are in the pipeline
  at once; the theorem holds for all moves, sizes and memories. Modes and
  memories change in settled frames only.
* **`PERIOD`, `LOCK`.** 100 clocks have room for a whole reconfiguration with
  the lock coming back after up to 80 of them; the real period is 341333.
  `PeriodAssumption` asks for 59 clocks and for four more than `LOCK`, which is
  the least that will do: with 58, or with `LOCK` three below `PERIOD`,
  `SixtyFrames` is violated. The theorems hold for every period above.
* **I2C.** Registers with one byte of address and with two, values that
  alternate and that do not, a sequential read of two bytes. After a reset the
  run looks at the three transactions that it takes to recover, and at reads.
* **`SENSES`, `POWERONS`.** One look for a monitor is the hardest case, because
  nothing is tried twice; of the 200 attempts to power up, two. `TROUBLES` is
  the number of commands and failures together; the run has one, and two were
  tried on their own without a violation. The theorems have no such bounds. The
  only command is `o`, which switches the transmitter off: the commands `i` and
  `v` configure it from the program itself, and the handler may come between
  their update of 0xaf and that of 0x40 with a set-up of its own, in the other
  mode (HDMI or DVI). The two registers then disagree until the next event, and
  `NoEventLost`, which asks that they agree, does not hold.
* **Monitors.** Together they have every descriptor and data block the decoder
  distinguishes, values that need every high bit, two different EDIDs of the
  same sum, the cases in which the code leaves fields alone, texts of 13
  characters, timings that are not native, and a block of 19 3D formats. The
  monitor changes, or a read fails, before the first byte, behind the serial
  number, in the first descriptor or before the extension (`Cuts`). The theorems
  have any list of monitors and, but for one of them, any cuts.
* **JTAG.** A ring of 3 has two usable slots, so that wrap-around, full and
  empty all occur between any two steps; the calls ask for as much as it holds
  and for more. `CHARACTERS` bounds those typed and printed: five are one more
  than ring and FIFO hold together, so that a write finds both full and is
  blocked by a host that stays away. In the code a ring has 2048 slots, a FIFO
  64, the thresholds are 8, the timeout 10.

Every run checks deadlock, and nothing here ever stops.

### Fairness

`PacmanGame!Fairness`: the frame signal keeps coming (weak fairness of its
edge). Each handler has strong fairness: `alt_irq_handler` prefers lower
numbers, so a button handler is enabled again and again but not continuously;
frames and presses are milliseconds apart and handlers take microseconds, so
that it does get its turn. `FramesGoOn` is the part about the refresh handler;
`ghosts` assumes no more (`FramesSpec`), so that a ghost on a wall cannot be
saved by the next restart. `main()` has strong fairness for the same reason. No
fairness is assumed of the player. `PositionLink!Fairness`: the pixel clock, the
frame signal and the processor keep running; a game need not end.
`VideoTiming!FairSpec`: the pixel clock keeps running; `FramesGoOn` speaks of
behaviours in which the mode is changed and the lock lost finitely often.
`PllReconfiguration!Spec`: the clock keeps running, and the lock comes back in
time. `I2cBus!Spec`: the processor goes on; requests need not come.
`HdmiDriver!Spec`: the processor goes on and the transmitter senses a receiver
that is there; nobody has to plug a monitor or give a command, and
`PictureAppears` speaks of behaviours in which the monitor stays and `news` is
true in the end (below). `JtagUart!Fairness`: the program goes on within a call,
the handler finishes and the alarm rings (weak, each); a host that is connected
again and again takes characters and polls (strong, because it may leave in
between). It may also stay away: `OutputArrives` excepts that, `CallsReturn`
does not. The program need not make another call, and the user need not type.

### What the runs show

* A restart can put a character on a wall, when a frame falls between the
  stores of its x and its y: `WallSafety` excepts exactly these characters, and
  `GetsOffTheWalls` shows that a ghost gets off the wall by itself.
* A dot eaten while its line is being sent leaves a dot on the screen that is
  not on the board: `FoodMemoryInSync` excepts exactly the lines in `stale`.
* The score is safe in spite of the unprotected restart, because the board is
  empty from before the score is cleared until the lines are filled.
* Button presses survive a restart, which is also how the first direction of a
  new game comes to be the last request of the old one.
* The decoders may show mixtures during `init_game`, whose words are not
  guarded, until the next frame.
* After a change of mode the picture is right from the second frame on, also
  where no reset helps: a counter beyond its limit wraps around once.
* The picture, the data enable and the coordinates stay aligned over every
  change of mode and of the memories: the three pipelines shift by exactly the
  two clocks that the buffer adds.
* The pixel clock follows the mode unless two changes are crowded; also then the
  PLL holds the settings of one mode. None of the controller's blind writes
  falls into a time in which the core waits.
* `i2c.c` acts as a file of registers although any byte may be refused. After a
  reset in the middle of a byte the device may hold the bus or take an address
  for data; the third transaction finds the bus free again.
* No hot-plug event is lost in the read-clear-enable sequence of the handler:
  the level-sensitive interrupt brings it back. A masked monitor-sense interrupt
  means a configured transmitter, also with one or two failed transactions.
  Three can mask it over one that is not: the handler looks at the result
  neither of the write that disables the interrupts (`HDMI_DEMO/main.c` 100) nor
  of the one that enables them (184), so that the mask of the monitor before
  stays if both fail and the set-up between them breaks off.
* A monitor that stays gets its picture if no transaction fails but those that
  the handler makes good: it comes again when it could not read or clear a flag,
  and takes DVI for what it cannot read of the EDID. After any other failure, or
  a command, the picture comes when the plug has moved once more, provided that
  the driver was left watching (prompt, interrupt enabled, powered up). It need
  not come before: one failure in `adv7513_chip_init` takes the handler to
  `__unplugged_iret` with the flags cleared (`HDMI_DEMO/main.c` 157-159), and
  nothing tries again.
* What `e p` prints of an EDID that was read as a whole is what the monitor
  meant, with the exceptions that `DecodesTheMonitor` names; an EDID of two
  halves passes only with an equal sum, which `NothingStale` and
  `OnlyEqualSumsPass` separate from what the code never clears.
* The JTAG driver needs no lock: an index that is read too early only makes a
  call do less than it could. Neither direction stays off, since the call that
  changes the ring enables the interrupt *after* its last look at it. A write
  that finds ring and FIFO full gives up on a host that stays away; without the
  timeout it would wait for ever (`WriteStopsWaiting_Patient`).

Disagreements that a run shows:

* **`video_range`.** `character_generator.vhd` declares the coordinates it is
  given as integers from 0 to 1339 and from 0 to 899 (118-119, 248-249). In the
  1440x900 mode, which `vpg.v` 200 says is the one for the project's screen,
  they go from 1 to 1440 and from 1 to 900: the run shows the column leave its
  range. Synthesis is saved by the eleven bits that 1339 needs; a simulation
  would stop.
* **`i2c_interrupted`.** `i2c_write`, `i2c_read` and `i2c_stop` "assume, SCL =
  0" (`i2c.c` 194, 213, 251). The handler of `main.c` runs transactions of its
  own in the middle of those of the program; they leave SCL high.

Met while translating, modelled as the code has them, without a run of their
own: the sixteenth row of blocks of 1440x900 (`background_generator.vhd` 91); a
vendor block with more than 16 3D formats, which are stored over other fields
(`edid_cea.h` 198); the number of native timings taken for that of all (`edid.c`
84); two changes of mode at successive looks (`vpg_mode.v` 42) and the change of
mode that the counters see before the clock does; the handler's last writes are
not checked (`HDMI_DEMO/main.c` 184); `power_state` compares `(regv & 0x40)`
with 1; `adv7513_mode_state` masks a number of 60 modes with 0x1f (`adv7513.c`
262); a failed read of the EDID is decoded nevertheless (`main.c` 367); `nr_ext`
is cut to 1 where a comment and `edid.h` have 8 (`edid.c` 903), and the sum of
the extension is never checked; `edid_print_cea` prints a colorimetry from a
variable it never set (779); the `write` under the game says that after room was
made "we will be able to insert some more", and gives up if the host was silent
for a second (`altera_avalon_jtag_uart_write.c` 187).

## 4. Mutants

Every property of every run is shown to notice a slip of the code that a
programmer could make: the operators with a suffix (`..._SentTooEarly`,
`..._BothCorners`, `..._Descending`) stand before the definitions they would
replace. The type invariants of `PllReconfiguration`, `I2cBus` and `HdmiDriver`
are conjuncts of `NeverMixed`, `BusReleased` and `InterruptsReenabled`.

## 5. What is proved

The proofs are for every value of the constants that the ASSUMEs allow: board
size, mazes with closed borders, number of ghosts, starts, buttons, frames per
restart.

* **Types** (`PacmanGameProofs`): `TypeInv` adds to `TypeOK` that `line` is
  inside the arrays outside the transfer loops - the reason why `init_foodLayer`
  stays in bounds.
* **Places** (also there): `PlaceInv` says for every character that
  its coordinates are aligned to the step and in the frame, and that it is on no
  wall unless torn. While `init_position` is under way it has to say more: x
  already stands on the start column (`XPlaced`), then y (`YPlaced`), and a
  character half placed has a start that is free (`HalfPlaced`), so that the
  store of y ends on a free block. With the lemmas on `Movement` - two probed
  corners keep the whole 60-pixel box out of walls, because coordinates
  are multiples of 5 and one of them is a multiple of 60 - this gives
  `FrameSafe` and `WallsSafe`. `GhostsMove` needs
  `RoomAssumption`: a block free for ghosts has a free neighbour.
* **Score** (also there): `FoodInv` says that the array is empty from
  the decision to restart until it is refilled, that a scan has only passed
  empty lines, and that a filled line holds only dots. Every step is then an
  `Eat`, a `NewGame` or a stutter of `GameRules` (`ImplementsTheRules`), from
  which `ScoreConserved` follows. `DisplayInv` adds that the number in hand
  belongs to the current game, and `ReadsAsWritten` that the digits lit for a
  number below 1000 read as that number.
* **Food memory** (also there): `SyncInv` says in which of `word`, `foodData`
  and the memory the current line already is as in the array while `main()`
  sends it, unless the line is `stale`. A dot eaten in the middle of the three
  stores leaves the data port with another line's word; `EatDotSends` follows
  the handler's own stores through the write port to every line of the memory,
  and what `main()` then sends can only spoil the line that becomes stale.
* **Link** (`PositionLinkProofs`): `LinkInv` says which word the port carries
  and that a decoder holds its packet once that has been sampled. The key is
  `GuardRaisesIds`: a change between an id and 7 can only be misread as an id at
  least as large, so that sending the characters in ascending order endangers
  only decoders that are still to be sent.
* **Video** (`PixelPipelineProofs`), for all limits that the assumption allows.
  `VideoInv` says of a settled frame that each edge register is on exactly
  between its two limits and gives the coordinates as functions of the counters
  (`LinesInv`, `PictureInv`, `EnableInv`, `DrawnInv`). It is inductive only with
  `FirstFrame`, which says what is already known one frame after a
  disturbance: the counters are within their limits and the picture has its
  right and lower edge, so that the next frame starts clean. `WholeFrames` and
  `Raster` follow.
* **Layers** (also there), for all sizes, places, orientations,
  memories and moves. `LineInv` gives the last three pixels that the generators
  were asked for as functions of the counter (`X`, `De`); from it follows that
  what a layer wants comes in runs of two pixels at least with three between
  them (`BackgroundRuns`, `FoodRuns`, `CharacterRuns`), also where the right
  edge of the picture cuts a dot or a character. `PipelineAssumption` has what
  this needs of the widths: all are 0 or 4 beyond a multiple of 5, and no
  aligned character is cut after its first or second pixel then. What a block
  has in its memory decides what is claimed of its colour (`Content`): nothing
  where it has no bit, or where its address has lost one. Of a layer of
  blocks the state is then a function of the last two pixels, the address that
  of the last and the colour that of the third (`BlockInv`). The character's
  place changes under its pixels: `CharacterInv` says which states are left
  after one, two, three and four clocks (`States`), after five it is again the
  one that the pixels tell, and after six so is the colour; one clock less is
  not enough. `CharacterAddress` is the arithmetic of the four orientations: no
  pixel of a sprite is outside of its memory.
* **Pixel clock** (`PllReconfigurationProofs`), for every `PERIOD` and `LOCK`
  that leave room. `PllInv` follows a change along the time since the last look:
  the edge of `mode_change` through three flip-flops (`EdgeInv`), the seven
  writes of the controller, three clocks each (`BusInv`), what the core has
  stored of them (`IdleInv`), the settings it then writes to the PLL, each at
  its time (`WaitingInv`), the lock that is reported once and read back
  (`ReadInv`) and the state machine that returns to its first state before the
  next look (`StateInv`). `EveryWriteAccepted` is what the controller relies on
  without looking at `waitrequest`; `OneModeAtATime` needs no assumption about
  crowded changes, and `SixtyAtTheNextLook` excepts them. That each mode's words
  give sixty frames is arithmetic on the two tables (`SixtyInEveryMode`).
* **I2C** (`I2cBusProofs`), for every device address, every set of registers of
  one or two bytes, every value and every number of registers read but zero
  (nothing calls `I2C_MultipleRead`; reading no byte at all would leave the
  device sending against the STOP), as long as no handler cuts in and no reset
  has hit the bus. `BusInv` says that the bus is `Free`, or where the only
  transaction is: which call, which access of it, and for each such place what
  the device has got of the byte (`Prefix`), whether it holds the data wire, its
  pointer and registers, what the caller has read so far and whether the value
  has been taken (`Result`). `WriteIs`, `ReadIs` and `CallsAre` say what stands
  at each place of the sequences, so that a step is judged without running
  through them; a byte that is not acknowledged leaves the device ignoring the
  bus (`Rested`) until the STOP. From it follow `BusIsReleased`, `ClockIsLow` -
  the comment that `i2c_interrupted` refutes holds without interruptions - and
  `ActsAsRegisterFile`, the refinement of `RegisterFile`.
* **HDMI driver** (`HdmiDriverProofs`), for every number of retries, EDID bytes
  and failures. A program is a sequence of transactions; the lemmas of the first
  part say of each function of `adv7513.c` which registers it changes
  (`Changed`) and which bits it leaves behind (`Ends`). `Typed` says what is
  left of a program while it runs, `Configures` that it ends as it would alone:
  the handler may come between the two transactions of a `reg_update_bits`, but
  it and the program do not touch the same bits in between. Three invariants
  over the phases of the handler give the theorems. `Reenabled`: which enable
  bits are set on each way out. `Masked`: while the interrupt is masked, the
  phase of the handler tells how many transactions must have failed already (one
  to get past `disable`, two for a set-up that broke off), which is why the
  theorem has fewer than three. `Looking` and `Noticed`: a flag of 0x96 was
  either raised after the handler read it, and then the interrupt is due again,
  or the status registers that it read afterwards show the monitor. `NewsKept`
  has the hypothesis that the only command is `o` (section 3 says why).
* **EDID** (`EdidProofs`, with `EdidShapes`), for every list of monitors with
  `IsMonitor`, any number of changes and any cuts. What an EDID says is put
  together of sequences whose places depend on the lengths before them, so the
  first part gives each byte its place: `EncodeIs` the 256 bytes of a monitor,
  `Extended128` those of the data blocks and timings behind them. The induction
  over loops is done once, on sets of numbers (`Induction`), and then for sums,
  flattened sequences and what a loop of the decoder makes of its state
  (`TotalIs`, `FlattenIs`, `WalkIs`, `VicsIs`). `Read` and `Verified` say that
  each byte of the buffer is one of the monitor it was read of, and that only
  checked bytes are printed; `OnlyEqualSums` follows, since two monitors whose
  blocks both sum to zero differ by what sums to zero. `Decoded` adds that what
  is printed was decoded of these bytes into some older struct of the right
  shape (`Shaped`). The lemmas of the second part invert each writer of
  `EdidMonitor` by its reader (`TimingDecoded`, `LimitsDecoded`, `AudioShown`,
  `VendorShown`, ...), whatever that struct held, and `WalkSteps` follows the
  walk from block to block: a block that comes last with its tag stays
  (`FieldsHold`). `DecodesEveryMonitor` is all of it together, native timings
  and the formats of a vendor block included; a block with more than 16 3D
  formats is excepted. `StructStaysInBounds` has one hypothesis more, that no
  cut is inside of the extension (`Cuts \subseteq 0 .. 128`, which the run has
  too): the code checks the sum of the base block only, and nothing bounds the
  data blocks of an extension of two monitors. It says which array is overrun,
  by which monitors and by how much: by one with more than 16 3D formats, by
  three at most, and that a timing stays in its bit fields when a format is
  stored over it. `NothingOldIsPrinted` has the hypothesis too. It compares the
  decoding into the struct as it is with one into a struct filled with 9: what
  is always written is the same (`BaseSame`), and what a data block has written
  stays, since its tag, its entry in the list of extended tags or, for the
  capabilities, the last block of its kind decides (`VendorOnce`, `DbeOnce`,
  `VcdbAgree`). What lies behind the 3D formats is written by three kinds of
  blocks and by the formats that run over: `Alike` follows the two decodings in
  lockstep and says that both find the same there once the vendor block has been
  stored, so that also a list that is too long is printed without anything
  older. What follows a text of 13 characters is older, and is taken away from
  both prints (`Own`).
* **JTAG UART** (`JtagUartProofs`), for every size of rings and FIFOs, every
  threshold and timeout. `DriverInv` is the type invariant with `CopiesInside`,
  `RoomIsReal`, `ReceptionResumes` and `TransmissionResumes`. It is inductive
  because each side changes only its own index: the handler can only add to what
  `read` has seen and make room where `write` has seen some (`LooksAreGood`),
  and the host only takes from the FIFO whose space the handler counts down.
  `NeitherDirectionIsLost` rests on the order of the last look at a ring and the
  write of `irq_enable`.
* **Its streams** (also there): the characters on their way are the contents of
  a FIFO and of the slots of a ring from one index to the other (`Contents`);
  `LookInv` adds to `DriverInv` that what a call has counted at its look is
  still there, and that the slots it has filled hold the next characters. Every
  step of the driver, the device or the host is then a step of `Stream` or a
  stutter, so that `OutputKeepsOrder` and `InputKeepsOrder` are refinements
  proved for every interleaving. `PatienceKept` follows from `SilenceInv`, which
  relates the count of the alarm to the silence of the host, and says that an
  index which `write` waits for has been the same since its look.

Only model-checked:

* what needs fairness - `PlaysByTheRules` beyond its safety part,
  `GetsOffTheWalls`, `CatchesUp`, `FramesGoOn`, `Finished`, `PictureAppears`,
  `CallsReturn`, `OutputArrives` -, because the prover does not treat liveness
  under fairness;
* what `BusReleased` and `ActsAsRegisters` of `I2cBus` say after a reset: that
  three transactions at the latest free the bus. The place of the device in its
  byte then has nothing to do with that of the program, and the argument is a
  count over three transactions.

## 6. Not modelled

* Composition of colours and top-level wiring: combinational, or instances and
  ports. Contents of sprites and mazes, and the segments of a digit: data.
* Of the HDMI driver: the commands that only print, the write of an arbitrary
  register, and the functions and tables that nothing calls (the 3D infoframes,
  most of the unused half of `adv7513.c`).
* The board support packages (`software/*_bsp`) and the generated Qsys system:
  vendored and generated, in two nearly equal copies, and by far the largest
  part of the C sources. What both programs rely on is modelled from it - the
  order of the interrupts, the edge capture, the JTAG UART. The rest is start-up
  code, definitions of registers and HAL functions that neither program reaches
  (file descriptors, `alt_log_printf`, `alt_env_lock`, ...). The C library and
  the CPU are not in the repository.

## 7. Plan

1. That a transaction of `i2c.c` after a reset finds the bus free again after
   three at the latest, for every device.
2. That the packed word of `compute_byte_packet` is taken apart again by the
   decoder.
