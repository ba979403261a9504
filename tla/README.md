# HDAS firmware: specification and verification

HDAS is a data acquisition unit: an STM32H743 with an 8 channel AD7606
converter, an SD card (FatFs), a USB mass storage device that shows the card
to a PC, and RT-Thread Nano underneath. This directory holds TLA+ models of the
firmware in `src/`, the TLC configurations that check them and proofs checked
with TLAPS.

## 1. Inventory of the system

| Component | Code | State | Operations |
|---|---|---|---|
| acquisition pipeline | `Core/Src/FMC_TIM_AD7606.c`, `tim.c`, `hdas_thread.c` (storage thread), `sdmmc_fatfs.c` (`sprintf_data_to_buf`) | `g_sAd7606Buf` (circular DMA), `DMAdat_flag`, `storage_sem`, `FsWriteBuf`, write counter | DMA half/full interrupt, format a half, write a buffer, roll over to the next file |
| sample conversion | `sdmmc_fatfs.c` (`sprintf_data_to_buf`) | four characters per sample | scaling, conversion to `uint16_t`, digits |
| session control | `hdas_thread.c`: `key1_thread`, `key2_thread`, `start_sampling`, `stop_sampling`, low space branch | `hdas_sample_flag`, `file_number`, TIM2, mounted volume, `hdas_fil`, USB | start, stop, low space stop, reset |
| FatFs | `Middlewares/Third_Party/FatFs/src/ff.c` | window (`winsect`, `win`, `wflag`), `free_clst`, `last_clst`, `fsi_flag`, `hdas_fil`; FAT, directory and FSInfo on the card; table of open files | `f_mount`, `f_open`, `f_write`, `f_close`, `f_getfree` |
| SD disk driver | `FATFS/Target/sd_diskio.c`, `bsp_driver_sd.c`, used by FatFs | `WriteStatus`, `ReadStatus`, `hsd2.State`, card state | `SD_read`, `SD_write`, DMA completion and error interrupt |
| USB mass storage | `USB_DEVICE/App` | USB device state | read/write the card by polling inside the USB interrupt |
| console | `Core/Src/usart.c`, `Core/Inc/usart.h` | ring `uart8_rbuf`, `huart8` state and lock | receive interrupt, `rt_hw_console_getchar`, `HAL_UART_Transmit` |
| RT-Thread kernel | `RTT_Nano/kernal`: `scheduler.c`, `thread.c`, `ipc.c`, `timer.c`, `clock.c`, `context_rvds.S` | ready lists and their bitmap, current thread, scheduler lock, timer list, semaphore, pending switch | startup, `rt_sem_take/release/control`, `rt_thread_mdelay`, tick, PendSV |
| boot, self test, watchdog | `main.c`, `sdmmc_fatfs.c` (`Fatfs_RW_test`), `hdas_thread.c` (`test_thread`) | `Sys_Status`, `is_hdas_test_ok`, watchdog pin | tests in order, error blinking, start of the threads, toggling |
| EEPROM driver | `i2c_at24.c` | | compiled, called by nothing |
| heap | `mem.c` | | two allocations at boot |
| shell command line | `RTT_Nano/shell` | | line editor and listings |

How they interact. Priorities are key1 8, key2 9, storage 10, led 11, test 15,
shell 21 (low numbers win); main runs at 10 before the others exist. All device
interrupts have priority 0, so they do not nest; SysTick and PendSV have the
lowest, so a device can interrupt the tick handler. The DMA interrupt releases
`storage_sem`; the storage thread formats the half that is complete and, after
the second one, calls `f_write`, which spins in `SD_write` on a flag that the
SDMMC2 interrupt sets. The key threads preempt the storage thread anywhere, also
inside FatFs: between two clusters of an `f_write`, or between the `chk_lock` and
the `inc_lock` of an `f_open`. Session control and the storage thread share the flag, the file
object, the volume and the file number without a lock; the USB interrupt shares
the card with FatFs; every thread that prints shares `huart8` with the receive
interrupt. The thread that feeds the watchdog has a lower priority than all
those that may spin in the driver.

What is hard here: the race of the DMA stream against a formatting loop; a
semaphore that is reset before each wait; shared completion flags without an
owner; stops that preempt a roll-over, a write or an open half way; sequences of starts and stops by
different handlers; resets between two accesses to the card; a one sector window
shared by two priorities; a tick counter that wraps and a tick handler that can
be interrupted; a ring that is read by a thread while the interrupt writes it.

What makes each component correct: the pipeline writes consecutive lines to files
of bounded size and leaves part of a buffer at the end of a file only; a sample's text reads back as the sample;
session control keeps the flag true to the timer, one owner on the card, no
recording overwritten, nothing left open; the volume stays consistent at every
moment and closed files survive a reset; the driver reports success only for
stored data and always returns; the console is a bounded queue; the kernel's
lists agree and implement the blocking calls; nothing records before the board
is tested, and the watchdog is fed.

## 2. Modules

| Module | Models | Proofs in |
|---|---|---|
| `Acquisition`, `AcquisitionProps` | the pipeline; its properties and inductive invariant | `AcquisitionProofs` |
| `Recorder` | what the pipeline promises | |
| `Conversion` | one sample to four characters | `ConversionProofs` |
| `SdDiskIo` | SD driver, card, interrupt, USB host | `SdDiskIoProofs` |
| `FatVolume`, `FileStore` | FatFs on a FAT32 volume, with resets; the store of whole files it refines | `FatVolumeProofs` |
| `Sampling` | session control, locks of FatFs, USB, resets | `SamplingProofs` |
| `Console`, `CharQueue` | UART ring and HAL lock; the bounded queue it refines | `ConsoleProofs` |
| `RtKernel`, `KernelLists`, `BlockingCalls` | the kernel; its lists; what its blocking calls promise | `RtKernelProofs` |
| `Boot` | reset to recording, self test, watchdog | `BootProofs` |
| `MC*` | instances for TLC | |

**Acquisition.** A row of 8 conversions is the number of its conversion since
power on, so a torn or repeated row is visible as a wrong number. `DmaRow` is
one timer update: it stores a row, advances `pos`, and at the middle and the end
of the lap runs the callback (`HalfCplt`, `Cplt`: set `DMAdat_flag`, release the
semaphore, in this order). The storage thread is one action per statement that
matters (`SemReset`, `SemTake`, `CheckHalf`, `CheckFull`, `FormatRow`, the
`Write...` actions, `CountWrite`, `NextFile`, `LowSpaceStop`), so that interrupts and
stops fall between them. `f_write` is not one step: it asks once whether it may write
(`WriteBegin`, `WriteRefused`), then moves `fptr` and `objsize` on with every piece
(`WriteLine`, one line a step), and may give up at any piece, which leaves the front of
the buffer in the file and the object unable to take more (`WriteStops`: ABORT sets
`.err`; on a full card the call returns FR_OK, and no later one finds a cluster).
A stop may close the file between two pieces; the rest of the call then reaches no file
(`LineGoesOn`). `rec` is the history of the lines on the card in this session, each with
its file, its place in the buffer and its conversion; `cut` holds the positions after
which lines were lost. `CountWrite` counts the call whatever became of it, as the code
does. A start is three steps, `SetFlag`, `OpenFile` and `StartTimer`. At `OpenFile`
the storage thread waits: the shell has the lowest priority, and key 1 sleeps 100 ms,
more than two passes, between the first two. Left out is a key 1 that opens the file
inside a pass because the timer still runs without the flag (`sampling_flag_race`). Time is counted in rows: `spent` is the number of rows
since the pass began, and `FormatMax` and `WriteMax` bound it, the only assumption
about speed. `KeepsUp` is `FormatMax + WriteMax < Half`: 2048 rows at 50 kHz are 41 ms.
It refines `Recorder`, whose steps add the next line of a complete buffer, lose lines,
or go on in another file: after a loss recording resumes with the first line of a later
buffer, and behind the front of a cut-off buffer only in another file.

**Conversion.** The division of C truncates, the conversion to `uint16_t` is
modulo 2^16, and the thousands are not reduced modulo 10, as in the code.

**SdDiskIo.** One action per step of a call: check the card, start the transfer,
wait for the flag, wait for the card. `Runs(t)` is the priority rule; a caller
that spins keeps the processor from lower ones only. `signalled` and `stored`
are histories of what the interrupt and the card have done, by call.

**FatVolume.** A step makes at most one access to the card, and a reset may come
between any two. A sector is a function from its fields to values, so a window
written back under the wrong number is a sector with foreign fields.
`SyncWindow`, `MoveWindow` and `WindowMoved` are the write of a dirty window, the
read, and the store of `fs->winsect` after it; every other action waits until
the window holds the sector it needs. `Search`, `Mark`, `LinkCluster` are
`create_chain`, `GetLink` and `FreeCluster` are `remove_chain`, `SaveEntry` to
`Closed` are `f_sync` and `f_close`, `GetFree` and `Scan` are `f_getfree`. With
`Exclusive` the keys begin only while the storage thread is outside FatFs;
without it, at any step. Abstracted: one FAT, a directory of one sector, FAT32
only, whole sectors (the buffer is a multiple of a sector, so `fp->buf` is never
used). The card answers every access (its errors are `SdDiskIo`'s); a card that
is missing at the start of a session stays missing until it stops. It refines
`FileStore`, which knows whole files only: one is open at a time, begins empty and
grows at its end; a close that succeeds stores it; a stored file changes only when
a file of its name is created; a reset loses the open file. The mapping (`Stored`,
`OpenFile`) takes the sectors of a closed file from the card, along the chain of its
entry, so every FAT, directory and window step has to be a stutter of the store.

**Sampling.** One action per statement that touches shared state. A thread
steps when no thread of higher priority is between two waits (`MayRun`). Delays
end at any time; those of 100 ms or more only when the storage thread is back at
its semaphore (a pass lasts less than 41 ms), unless `SlowCard`. `Windows` says
whether a delay may end between two adjacent statements: TRUE where properties
hold (more behaviours), FALSE where a counterexample should not depend on
microseconds. `Patient` names the handlers that are only asked when no other one
is at work. Files are numbers; `card` remembers which hold data. `f_mount` makes
the open object invalid and clears the table of open files, as `fs->id` and
`clear_lock` do. Opening is three steps: `Name` is the `sprintf` of the file name,
`OpenFile` runs to `chk_lock`, and `CreateFile` truncates the file and takes its lock
(`inc_lock`). A stop may close and unmount between the last two: the entry
`CreateFile` then makes stays in the table although no object is valid for it, until
the next `f_mount` or `f_mount(NULL)`. (It takes an earlier error of `f_close`: with the
full file closed, key 2's `f_close` fails too and it waits 100 ms, in which the `f_open`
ends.) `WriteSome` and `EndWrite` are an `f_write` in pieces, for the
file may be closed between two of them.

**Console.** `Put` and the getchar steps are separate reads and writes of the
ring; `storeFirst` is the order the compiler chose for `out++` and the read of
the slot, which C leaves open: both are initial states. Nothing limits the terminal,
so the ring fills in both. When `out` is stored first and the ring fills up before
the slot is read, the interrupt overwrites the slot: the newest character is read in
place of the oldest. `CharQueue` states this exception (`handing`) and no other. A
character that finds the data register full is lost (overrun). `TakeLock .. Unlock` is
the window of `HAL_UART_Transmit` in which `HAL_UART_Receive_IT` returns `HAL_BUSY`.
`TimesOut` is the HAL_TIMEOUT of a transmission whose thread was kept from the
processor: it disables the receive interrupt, sets both states to READY and releases
the lock. After it, as after a character in the lock window, nothing restarts the
reception; `Timeouts` is FALSE in `console_lock` so that its counterexample is the
window.

**RtKernel.** An action is one critical section; interrupts fall between two of
them. The tick handler is four actions, one for each stretch that a device
interrupt can split (`rt_tick_increase` charges the slice of the thread it read
first; `rt_thread_yield`; its `rt_schedule`; `rt_timer_check`). `Schedule` only
marks the switch; `PendSV` changes the registers, so several handlers can
reschedule before it. The mapping to `BlockingCalls` takes `value` for the
tokens, `suspended` for the queue, and for the phase of a call what its caller
will find in `thread->error` and on the lists (`PhaseOf`); list operations,
slices, and switches are stutters.

**Boot.** Time in units of 50 ms. main, the test thread and the shell are places
with the delay that is left; a thread in the card driver spins for up to
`MaxSpin` units per access and nobody below it runs. The check of `Sys_Status`
sums what `MX_UART8_Init` left (it runs in `board.c:90`, before main), the two results
for the card, and an i2c term that stays 0, for `MX_I2C1_Init` is commented out. `quiet` counts the units
since the pin was toggled, `spun` how many of them were spent in the driver.

## 3. Runs

Passing runs:

| Run | Shows |
|---|---|
| `acquisition` | with a storage thread that keeps up: no torn line within a file, nothing lost but by a write that failed or lost its file, every completed buffer on the card when the thread waits again, files bounded, no overrun, refinement of `Recorder`, with stops and errors at any piece of any write |
| `conversion` | all 65536 samples: within a millivolt, and the samples below -19306 that wrap in `uint16_t` never look like another voltage |
| `sd_shared` | two threads, reads and writes, the USB host, stalls and error interrupts: RES_OK means stored unless an error interrupt came, `SD_write` loses a completion only to a preempting call, calls end |
| `volume` | sessions, roll-overs, a full card, a missing card, one reset anywhere: chains end, cover the size and share nothing at every moment; the volume is a store of whole files (`FileStore`), so closed files stay readable; the free count is true; a file opened after the check of the free space is never cut short |
| `sampling_keys` | own file per session, nothing truncated, card has one owner, USB comes back |
| `sampling_handlers` | with keys, commands, low space stops, failing calls and resets: the flag tells whether the timer runs, and a stop leaves no volume mounted, no valid file and nothing that refuses the next start |
| `console` | the ring is a bounded queue, full and wrapping, but for the one exception of the build that stores `out` first; every character is read, with that exception; the lock is held only on the way to its release, with transmissions that time out |
| `kernel` | lists, bitmap and timers agree, nobody is stranded, the highest thread runs, switches save the right registers, the blocking calls keep their promise across the wrap of the tick, peers share the processor |
| `boot` | watchdog fed but for the spinning in the driver, no session before the board is ready, the host gets a card main has let go of, the boot ends |

Runs that end in a counterexample state what a line of the repository says and
the code does not do; `PROJECT.json` quotes each line. In short:

- `sampling_flag_race`: key 2 during a start leaves the timer running unstoppably.
- `console_lock`: a character received in the lock window ends all reception.
- `volume_preempted`: key 2 preempts the storage thread between the read into the
  window and the store of its number; its `f_close` then writes the content of a
  FAT sector over the directory.

The same models show more when their constants are changed; these observations
have no run of their own:

- `Acquisition`: the result of `f_write` is ignored, so after an error or on a full card
  the calls go on and are counted, and the rest of the file is lost (`Lose`); the code
  promises nothing else, and no property demands it. With `Half` = 4 and a write that
  takes longer than a half, `NoLostBuffer` fails, for the semaphore is reset before
  the wait. The self test accepts 50 ms per write, half a buffer lasts 41 ms.
- `Acquisition`: a second session starts its timer with the DMA stream inside the
  buffer, where the first was stopped, so that its first buffer begins with rows of
  the session before; the stream is armed only at the first `HAL_TIM_Base_Init`,
  though the comment at `hdas_thread.c:382` says that a start initialises the DMA.
  `NoTornBuffer` bounds these rows to less than a lap and `NoLostBuffer` says that no
  row of the new session is missing before them.
- `SdDiskIo`: a completion is lost to a preempting call, and by `SD_read` also
  without one, for it clears `ReadStatus` after the start (`sd_diskio.c:218`);
  without `failed` in `OkMeansStored` a stale flag turns an error into RES_OK.
- `Sampling`: with `Resets` `NoOverwrite` fails, for numbering starts again and
  the first session truncates `hdas_data0.txt`; with `SlowCard` `FlagTellsTimer`
  fails; with key 1 not in `Patient`, `CardHasOneOwner` fails when key 1 falls into
  the second before `MX_USB_DEVICE_Init` (`hdas_thread.c:448`); with `UseShell` it
  fails at once, for `start_sampling` leaves USB running, and `NoOverwrite` fails,
  for only key 2 moves `file_number` on; with `LowSpace` `UsbComesBack` fails, for
  only key 2 starts USB again.
- `FatVolume`: after a reset `free_clst` may be stale (FSInfo is written at
  `f_close` only), hence `resets = 0` in `FreeCountTrue` and `CheckedFileFits`.
- `Boot`: a card that refuses every write passes the self test, since the results
  of `f_open` and `f_write` are printed and not tested (`sdmmc_fatfs.c:193`).

## 4. Bounds and fairness

| Model | Bounds | Why they are enough |
|---|---|---|
| Acquisition | `Half` = 2 rows, 2 writes per file, `MaxSample` = 12 conversions | three laps of the ring, sessions that begin anywhere in a lap, a roll-over in between, a buffer of four lines cut after any of them; the proofs cover every size |
| Conversion | none | every `int16_t` |
| SdDiskIo | 2 callers, `MaxCalls` = 4 | a stale flag needs two calls of one caller and one of the other; the proofs cover every number |
| FatVolume | clusters 2..9 of which one is taken, 4 entries per FAT sector, clusters of 2 sectors, buffers of 3, 2 writes per file, `MinFree` = 3, `MaxFile` = 2, one reset | chains cross FAT sectors, buffers straddle clusters, the card fills up, old files are truncated after the reset |
| Sampling | `MaxFile` 6 with the keys alone (4 for the counterexample), 2 with every handler and resets (sessions of the shell use up no number), 2 writes per file | several sessions with roll-over each, key 2 and the storage thread counting at once |
| Console | ring of 4, indices modulo 8, 8 characters, 2 printers | indices wrap, the ring fills, one printer preempts the other |
| RtKernel | two threads of the highest priority with slices of 2 and 1, and idle; `TickWrap` = 8, timeouts 1 and 2, `MaxValue` = 1 | equal and unequal due ticks, timers across the wrap, rotation by slice, a waiter and a sleeper at once |
| Boot | 3 writes, average at most 1 unit, accesses up to 3, loops of 2, `MaxBusy` = 8, `MaxQuiet` = 24 | slow and fast cards, each way out of the self test, spinning in every place; the proofs cover every number |

Deadlock is checked for the pipeline, the conversion, the kernel and the boot.
It is not for the other models: their bounds on calls, files, resets and
characters let them stop, and an idle system may wait for a key for ever.

Fairness. `SdDiskIo`: the processor keeps stepping the caller that may run, time passes
(`Timeout`), and the card ends what it began unless it stalls. `Sampling`: every
delay ends and every FatFs call returns. `Console`: interrupts are served, the
shell polls, transmissions end, by themselves or by their timeout. `RtKernel`: the
tick comes again and again (strongly fair, since device interrupts and pending switches disable it in
between), its handler and PendSV end, and calls that are in the kernel go on, of
whichever thread has the processor (not each thread's own: the rotation of the
slices must see to that); none for beginning a call and for devices. `PeersShareCpu`
holds under the premise, part of the formula, that device interrupts do not hit
the tick handler for ever. `Boot`: the tick comes, threads that may run do, and
an access to the card ends, at the latest by `SD_TIMEOUT`. No fairness is assumed
for keys, commands, characters, errors, or the host.

## 5. Proofs

All are for every value of the constants, from the module's named assumption on
them and the premises given here.

`AcquisitionProofs`:

- `TypeCorrect`: `Spec => []TypeOK`.
- `FileSize`: `Spec => []FileSizeLimit`, by the invariant `CountInv` (the counter, and
  the call that is under way, bound the length of the file; the counter is below the
  limit outside the roll-over).
- Under `KeepsUp`, `Invariance`: `Spec => []IInv`. Lossless recording is not
  inductive by itself: one must know that each row of the ring holds its latest
  conversion (`RingInv`), that the thread still works on the last interrupt, so
  the semaphore is 0 and the flag is the one it was woken for (`PaceInv`), which
  lines are formatted already (`LinesInv`), that the card ends where the next line is
  due, or before it after a loss (`EndInv`, `Due`), and that only the call under way is
  inside a buffer, while a front that was left is the end of its file (`FrontInv`), and
  that a session's first line is the one that was due when it began, or a later one
  after a loss (`HeadInv`).
  From it `WholeBuffers` (`NoTornBuffer`), `Lossless` (`NoLostBuffer`), `StoredInTime`
  (`CompletedIsStored`), `NeverOverrun` and `Refinement` (`Spec => RefinesRecorder`).
  `KeepsUp` is an assumption about the card and the processor, not a fact about
  the code.

`SdDiskIoProofs`: `SdInvariance`, and from it `SdTypeCorrect`, `OkIsStored`,
`CompletionKept`. The argument: calls are numbered, and one that preempts another
has the higher number (`Numbered`); a transfer starts only when the card has
none, so a started call is in the card's hands or through (`Handled`), and RES_OK
needs the card back in its transfer state; the flag of a signalled write stays
set but for its caller and those that preempt it (`FlagKept`).

`SamplingProofs`:

- `SessionTypes`: `Spec => []TypeOK`, without a premise. A file number is used up
  by a stop with key 2 and by a buffer that may fill its file; `NumberInv` counts
  those that are still under way, so that a roll-over and a stop at once stay
  within the numbering.
- Under `Careful` (nobody starts or stops while another does, and no call of FatFs
  outlasts 100 ms): `ControlInvariance`, and from it `FlagIsTrue` and
  `StopCloses`; with the keys alone also `OneOwner`. The invariant says what each
  place of each handler knows of flag, timer and volume; its point is where the
  storage thread may be meanwhile: at its semaphore during a start, anywhere
  during a stop, and winding up its own stop when the flag is 0. `LockInv` says what the table of
  open files may hold: nothing between the mount of a start and its `inc_lock`, and while no volume is mounted
  no more than the entry of one `f_open` that outlived it.
- If besides the card does not fail, `RecordsWhereItShould`
  (`RecordsIntoOpenFile`): the lock table holds the file `hdas_fil` is valid for
  and nothing else, nothing between a close and the end of the next open (`TableInv`), and a
  session that nobody is stopping has the volume and the file of its number
  (`SessionInv`).
- If besides only the keys are used, the card has room and power does not fail
  (`KeysOnly`), `DataIsKept` (`NoOverwrite`): data lies in files up to the current
  number and not in one that is still to be opened, `file_number` read by the
  storage thread before key 2 moved it on is behind by one at most (`DataInv`), and
  the storage thread stops by itself only when key 2 has taken the volume away
  (`KeyStopInv`).

`RtKernelProofs`, for any threads, priorities, timeouts, slices and width of the
tick. `KernelTypes` (`TypeOK`), `TableTrue` (`ReadyTable`), `NoneStranded`
(`NobodyStranded`), `HighestHasCpu` (`HighestRuns`), `SwitchSavesContext`
(`ContextSaved`) and the refinement `KeepsPromise` (`Spec => CallsKeepPromise`)
come from one invariant, `KernelInv`, because none of them is inductive alone:

- `ListInv` says of the lists what the properties say, but holds inside the calls
  too: on which list each state puts a thread, once, and the timers sorted by the
  ticks that are left (`Left`), which is what the comparison of wrapped ticks in
  `rt_timer_start` computes as long as no timeout reaches half the range.
- `Waiters` ties lists and timers to the place of each thread in its call;
  `Clocks` ties the ticks waited to the ticks left, and says that no timer is due
  outside the tick handler. It is what makes a call end at its tick and not a lap
  later.
- `Lockers`, `CurrentReady` and `Served` say when `current` is the thread
  `rt_schedule` would pick: always, but for the stretch between a change of the
  lists and the `rt_schedule` that follows it in the same call or handler.
- `Tokens`: no token is left while a thread waits.

The lists are functions of their positions. `Without`, the list after removals, is
a recursive function; its lemmas (members, order, once) are proved by taking the
least position at which they would fail, since the library's induction theorem
cannot be used. The refinement takes the queue of `BlockingCalls` from
`suspended` and the phase of each call from `error` and the lists, and shows
action by action that the step is one of `BlockingCalls` or a stutter.

`ConsoleProofs`, for every size of the ring, every width of the indices and any
printing threads:

- `LockIsReleased` (`LockIsHeld`), with transmissions that time out.
- `ConsoleTypes` (`TypeOK`): the ring never holds more than its slots.
- `RingIsQueue` (`Spec => IsQueue`), in both orders the compiler may choose and with a
  ring that may fill at any moment. The invariant `RingInv` says that a reader that is
  about to store `out` has loaded it and the ring is not empty, that one which has
  stored `out` early has read the index before it, and that characters arrive in order. The lemmas
  on remainders (`OtherSlot`, `Turn`) give that the interrupt writes another slot than
  any in the queue and that a wrap of the indices changes no slot: this is where
  `UintMax % UART8_RBUF_SIZE = 0` is needed. The slot the interrupt writes is the one a
  reader still has to read exactly when the ring has one place left (`SlotOfIn`): that
  is the exception of `CharQueue`. The shell takes a character at the step that stores
  `out`.

`FatVolumeProofs`, for any number of clusters, entries per FAT sector, cluster and
buffer sizes and files, under `Exclusive` (the keys wait for the storage thread;
`volume_preempted` shows what happens when they do not):

- `VolumeTypes` (`TypeOK`), by `VolumeInv`: one thread is inside FatFs at a time,
  the window holds the sector its number says except between the read and the
  store of the number (`WindowInv`), each place of a call knows the locals, the
  file object and the volume it needs (`ThreadInv`, `FilInv`, `FsInv`), and a file
  that is being cut is empty in the directory already (`CutInv`).
- `VolumeChains` (`ChainsSound`) and `ClosedFilesStay` (`ClosedFilesReadable`), by
  `ChainInv`. Neither is inductive: they speak of the card, and a step writes to
  the window. `ChainInv` therefore looks at FAT and directory twice, as the card
  holds them and as FatFs sees them through a dirty window, and says that each
  cluster can be given an owner and a position (`own`, `pos`) such that a link
  leads to the next position of the same file or ends it at its last (`LinkOK`),
  on the card only for files a directory entry leads to (`Live`). `Removal` adds
  what is left of a chain that is given back from its head, `Growing` where the
  open file ends, `Agree` and `Saved` when card and window may differ on an entry.
  A chain that a reset cuts loose, or a cluster marked and not yet linked, has no
  owner: that is the reset between two steps.
- The step from positions to chains: the positions of a file have no gap (`NoGap`,
  by the least one missing), so they stay below the number of clusters (`Bounded`)
  and the walk of `Chain` meets them in order and then the end mark
  (`WholeChain`). The recursive function is pinned down by `ChainIs`: two
  functions that obey its equation cannot differ first anywhere.
- `FreeCountStays` (`FreeCountTrue`), by `CountInv`. The count is true between calls
  only; inside a call it is one more than the free entries while a cluster is
  marked and not yet linked (`Known`, `LinkPending`). `f_mount` takes the count from
  FSInfo, so `CountInv` follows the sector on the card too: it is what `fs` holds
  unless `fsi_flag` is set (`Flagged`), it is behind the FAT only while a file is open
  or being cut (`Behind`), and `f_close` has written it when it returns (`Flushed`).
  A full count that has reached a FAT sector has counted the sectors before it
  (`Scanned`, by `ZerosFree`: the zeros in a sector are the free clusters it has).
  A mount also drops the window: no entry of the FAT is lost, since no dirty window
  outlives its file (`CleanInv`).
- `CheckedFilesFit` (`CheckedFileFits`), by `FitInv`: while a checked file is open, the
  free clusters and those it has used are at least `MinFree`, and it has used no
  more than its size takes (`Fits`). So there is a free cluster whenever
  `create_chain` looks for one, and it finds it: it goes round the FAT from where
  it began and has passed no free entry (`SearchInv`), and no entry is 1, which it
  would take for an error (`LinkValues`). Assumption: `RoomForFile`, the clusters
  the check asks for hold a whole file. The code asks for 500 MB
  (`hdas_thread.c:293`) and a file is 164 KB * 2048 = 328 MB (`main.h:67-71`); the
  instance of `volume` meets it with nothing to spare (files of 6 sectors, 3
  clusters of 2 asked for).
- `VolumeIsFileStore` (`Spec => IsFileStore`): `VolumeInv` and `ChainInv` make what
  the card has of the files a function of their sizes at the last close
  (`StoredIs`), before and after each step, so a step is one of `FileStore` by what
  it does to `kept` and to the open file: `Find` discards a file or creates it,
  `BackToEntry` begins one whose old chain has been given back, `WriteData` extends,
  `Closed` closes, `Reset` crashes, and every other step is a stutter. TLC checks
  `IsFileStore`; `ClosedFilesReadable` follows from it there and is the lemma it rests
  on here.

`BootProofs`: `BootInvariance`, and from it `WatchdogAlwaysFed` (each place of
main allows the pin a rest that its delay cannot exceed, `Charge`, until the test
thread takes over), `NothingStartsEarly`, `CardIsReleased`. `ConversionProofs`:
`FittingReadsBack` and `WrappingIsVisible`, from lemmas on truncating division and
decimal digits.

Only model-checked: every liveness property, since the prover has no rule for
fairness and `ENABLED` (`CallsReturn`, `UsbComesBack`, `EveryCharRead`,
`PeersShareCpu`, `BootEnds`).

## 6. Not modelled

- Register level initialisation (GPIO, FMC, ADC, clocks): generated code without
  state that changes later.
- The vendor's HAL beyond the states and locks of `hsd2` and `huart8`, and the USB
  stack beyond its write access to the card and the start and stop of the device.
- FatFs: exFAT, FAT12/16, long names, reading, renaming, deleting, formatting and
  writes that are not whole sectors; the recorder does not use them. The self
  test's own file is in `Boot`, without its clusters.
- Kernel: mutexes, events, mailboxes, message queues, priority changes, thread
  deletion and soft timers; no thread of the program uses them.
- The heap (two allocations at boot that are never freed), the EEPROM driver
  (called by nothing), the shell's line editor and listings, the kernel's printf.

## 7. What could come next

1. Composition of `FatVolume` with `Sampling`: the two entries of the lock table
   and the volume in one model, so that `volume_preempted` is seen with USB.
2. A card that fails in the middle of a session: the errors of `SdDiskIo` on the
   accesses of `FatVolume`, and what `FileStore` can still promise then.
