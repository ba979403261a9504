-------------------------------- MODULE Boot --------------------------------
(***************************************************************************)
(* From reset to recording: main with the self test of the card, the start  *)
(* of USB, the test thread that starts the recorder's threads and then      *)
(* feeds the watchdog, and the shell, whose start_sampling waits for the    *)
(* test.  Time counts in units of 50 ms; what takes much less takes none.   *)
(*                                                                         *)
(* main has priority 10, the recorder's threads 8 to 11, the test thread    *)
(* 15 and the shell 21.  A thread that waits for the card does not sleep:   *)
(* it spins in the driver, at most MaxSpin units in one access              *)
(* (SD_TIMEOUT), and nobody below it runs.                                 *)
(***************************************************************************)
EXTENDS Integers

CONSTANTS Writes,       \* f_write calls of the speed test (10)
          MaxAverage,   \* units a write may take on average (50 ms)
          MaxSpin,      \* units an access to the card may take (30 s)
          PauseLoops,   \* delays of 100 ms before USB starts (20)
          SettleLoops,  \* and after it has started (35)
          MaxBusy,      \* bound: units the recorder spins without a break
          MaxQuiet      \* bound: quiet and spun stop counting there

ASSUME BootAssumption ==
    /\ {MaxAverage, MaxSpin, MaxBusy, MaxQuiet} \subseteq Nat
    /\ {Writes, PauseLoops, SettleLoops} \subseteq Nat \ {0}

VARIABLES
    main,       \* where main stands, its loop counter and its delay
    test,       \* the same of the test thread
    spin,       \* units the access in progress has taken
    busy,       \* a thread of the recorder is in the card driver
    uart8, sdmmc, fatfs, \* Sys_Status: 0 when the test passed
    mounted, open, written, \* the test's volume and file, and its writes
    spent,      \* units the speed test has taken
    usb,        \* MX_USB_DEVICE_Init was called
    testOk,     \* is_hdas_test_ok
    sem,        \* storage_sem is initialised
    started,    \* the storage, key and LED threads are started
    asked,      \* start_sampling was accepted
    quiet,      \* units since the watchdog pin was toggled
    spun        \* how many of them were spent in the card driver

card == <<sdmmc, fatfs, mounted, open, written, spent>>
ready == <<uart8, usb, testOk, sem, started, asked>>
time == <<quiet, spun>>
vars == <<main, test, spin, busy, card, ready, time>>

Thread(pc, n, wait) == [pc |-> pc, n |-> n, wait |-> wait]
CardPlaces == {"sdinit", "mount", "open", "write", "close"}

Init ==
    /\ main = Thread("sdinit", 0, 0) /\ test = Thread("none", 0, 0)
    /\ spin = 0 /\ busy = FALSE
    /\ uart8 \in {0, 1}    \* left by MX_UART8_Init, before main
    /\ sdmmc = 0 /\ fatfs = 0 /\ mounted = FALSE /\ open = FALSE
    /\ written = 0 /\ spent = 0
    /\ usb = FALSE /\ testOk = FALSE /\ sem = FALSE /\ started = FALSE
    /\ asked = FALSE
    /\ quiet = 0 /\ spun = 0

clc_watchdog == quiet' = 0 /\ spun' = 0
MainAt(pc) == main.pc = pc /\ main.wait = 0
TestMay == ~busy /\ main.wait > 0
ShellMay == TestMay /\ (test.pc = "none" \/ test.wait > 0)

Counted(n) == IF n < MaxQuiet THEN n + 1 ELSE n        \* bound
Elapse(t) == IF t.wait > 0 THEN [t EXCEPT !.wait = @ - 1] ELSE t

-----------------------------------------------------------------------------
(* main and Fatfs_RW_test.                                                  *)

\* The card driver returns to main, which goes on at pc.
Leave(pc, n, wait) == main' = Thread(pc, n, wait) /\ spin' = 0

\* MX_SDMMC2_SD_Init leaves its result in Sys_Status and main goes on.
SdInit ==
    /\ MainAt("sdinit")
    /\ sdmmc' \in {0, 1}
    /\ clc_watchdog
    /\ Leave("wait", 0, 2)
    /\ UNCHANGED <<test, busy, fatfs, mounted, open, written, spent, ready>>

CardInfo ==
    /\ MainAt("wait")
    /\ clc_watchdog
    /\ Leave("mount", 0, 0)
    /\ UNCHANGED <<test, busy, card, ready>>

ToPause == Leave("pause", PauseLoops, 2)

MountTest ==
    /\ MainAt("mount")
    /\ \/ /\ mounted' = TRUE /\ UNCHANGED fatfs
          /\ clc_watchdog /\ Leave("open", 0, 0)
       \/ fatfs' = 1 /\ UNCHANGED <<mounted, time>> /\ ToPause
    /\ UNCHANGED <<test, busy, sdmmc, open, written, spent, ready>>

\* The result of f_open is printed and not tested.
OpenTest ==
    /\ MainAt("open")
    /\ open' \in BOOLEAN
    /\ clc_watchdog
    /\ Leave("write", 0, 0)
    /\ UNCHANGED <<test, busy, sdmmc, fatfs, mounted, written, spent, ready>>

\* Without an open file f_write returns at once; its result is not tested.
WriteTest ==
    /\ MainAt("write") /\ main.n < Writes
    /\ \/ open /\ written' = written + 1
       \/ UNCHANGED written
    /\ Leave("write", main.n + 1, 0)
    /\ UNCHANGED <<test, busy, sdmmc, fatfs, mounted, open, spent, ready, time>>

Judge ==
    /\ MainAt("write") /\ main.n = Writes
    /\ clc_watchdog
    /\ \/ /\ spent \div Writes > MaxAverage
          /\ fatfs' = 3 /\ ToPause
       \/ /\ spent \div Writes <= MaxAverage
          /\ Leave("close", 0, 0) /\ UNCHANGED fatfs
    /\ UNCHANGED <<test, busy, sdmmc, mounted, open, written, spent, ready>>

CloseTest ==
    /\ MainAt("close")
    /\ open' = FALSE /\ mounted' = FALSE
    /\ ToPause
    /\ UNCHANGED <<test, busy, sdmmc, fatfs, written, spent, ready, time>>

(* Mutated form of Pause: the loop does not toggle the pin.                 *)
PauseUnfed ==
    /\ MainAt("pause")
    /\ UNCHANGED time
    /\ IF main.n > 1 THEN Leave("pause", main.n - 1, 2) ELSE Leave("usb", 0, 4)
    /\ UNCHANGED <<test, busy, card, ready>>

Pause ==
    /\ MainAt("pause")
    /\ clc_watchdog
    /\ IF main.n > 1 THEN Leave("pause", main.n - 1, 2) ELSE Leave("usb", 0, 4)
    /\ UNCHANGED <<test, busy, card, ready>>

UsbStart ==
    /\ MainAt("usb")
    /\ usb' = TRUE
    /\ Leave("settle", SettleLoops, 2)
    /\ UNCHANGED <<test, busy, card, uart8, testOk, sem, started, asked, time>>

Settle ==
    /\ MainAt("settle")
    /\ clc_watchdog
    /\ IF main.n > 1 THEN Leave("settle", main.n - 1, 2) ELSE Leave("check", 0, 0)
    /\ UNCHANGED <<test, busy, card, ready>>

(* Mutated form of Check: only the card's initialisation is looked at.      *)
CheckSdmmc ==
    /\ MainAt("check")
    /\ \/ sdmmc # 0 /\ Leave("blink", 0, 0) /\ UNCHANGED test
       \/ sdmmc = 0 /\ Leave("rest", 0, 2) /\ test' = Thread("begin", 0, 0)
    /\ UNCHANGED <<busy, card, ready, time>>

(* Mutated form of Check: the test thread is not started.                   *)
CheckOnly ==
    /\ MainAt("check")
    /\ \/ uart8 + sdmmc + fatfs # 0 /\ Leave("blink", 0, 0)
       \/ uart8 + sdmmc + fatfs = 0 /\ Leave("rest", 0, 2)
    /\ UNCHANGED <<test, busy, card, ready, time>>

\* The sum of Sys_Status has an i2c term too, which stays 0: board.c does not
\* call MX_I2C1_Init.  A failure leaves main blinking for ever; otherwise the test thread starts.
Check ==
    /\ MainAt("check")
    /\ \/ uart8 + sdmmc + fatfs # 0 /\ Leave("blink", 0, 0) /\ UNCHANGED test
       \/ uart8 + sdmmc + fatfs = 0 /\ Leave("rest", 0, 2) /\ test' = Thread("begin", 0, 0)
    /\ UNCHANGED <<busy, card, ready, time>>

Blink ==
    /\ MainAt("blink")
    /\ clc_watchdog
    /\ Leave("blink", 0, 5)
    /\ UNCHANGED <<test, busy, card, ready>>

Rest ==
    /\ MainAt("rest") /\ ~busy
    /\ main' = Thread("rest", 0, 2)
    /\ UNCHANGED <<test, spin, busy, card, ready, time>>

-----------------------------------------------------------------------------
(* The test thread, the shell and the recorder.                             *)

TestAt(pc) == TestMay /\ test.pc = pc /\ test.wait = 0

Passed ==
    /\ TestAt("begin")
    /\ testOk' = TRUE
    /\ test' = Thread("create", 0, 0)
    /\ UNCHANGED <<main, spin, busy, card, uart8, usb, sem, started, asked, time>>

\* hdas_thread_init: the semaphore, then the threads.
InitSem ==
    /\ TestAt("create")
    /\ sem' = TRUE
    /\ test' = Thread("startup", 0, 0)
    /\ UNCHANGED <<main, spin, busy, card, uart8, usb, testOk, started, asked, time>>

StartThreads ==
    /\ TestAt("startup")
    /\ started' = TRUE
    /\ test' = Thread("feed", 0, 0)
    /\ UNCHANGED <<main, spin, busy, card, uart8, usb, testOk, sem, asked, time>>

Feed ==
    /\ TestAt("feed")
    /\ clc_watchdog
    /\ test' = Thread("feed", 0, 4)
    /\ UNCHANGED <<main, spin, busy, card, ready>>

(* Mutated form of start_sampling: the shell outranks the test thread.      *)
StartSamplingEager ==
    /\ ~busy /\ main.wait > 0 /\ testOk /\ ~asked
    /\ asked' = TRUE
    /\ UNCHANGED <<main, test, spin, busy, card, uart8, usb, testOk, sem, started, time>>

start_sampling ==
    /\ ShellMay /\ testOk /\ ~asked
    /\ asked' = TRUE
    /\ UNCHANGED <<main, test, spin, busy, card, uart8, usb, testOk, sem, started, time>>

\* A half buffer wakes the storage thread, which outranks the test thread.
Wake ==
    /\ started /\ asked /\ ~busy /\ spun < MaxBusy         \* bound
    /\ busy' = TRUE /\ spin' = 0
    /\ UNCHANGED <<main, test, card, ready, time>>

Done ==
    /\ busy
    /\ busy' = FALSE /\ spin' = 0
    /\ UNCHANGED <<main, test, card, ready, time>>

-----------------------------------------------------------------------------
(* Time passes in the card driver, or when everybody sleeps.                *)

\* An unopened file has no sector to write.
InDriver ==
    \/ busy
    \/ MainAt(main.pc) /\ main.pc \in CardPlaces
       /\ (main.pc = "write" => main.n < Writes /\ open)
       /\ (main.pc = "close" => open)

Spin ==
    /\ InDriver /\ spin < MaxSpin
    /\ spin' = spin + 1 /\ spun' = Counted(spun) /\ quiet' = Counted(quiet)
    /\ spent' = IF main.pc = "write" THEN spent + 1 ELSE spent
    /\ main' = Elapse(main) /\ test' = Elapse(test)
    /\ UNCHANGED <<busy, sdmmc, fatfs, mounted, open, written, ready>>

Tick ==
    /\ ~busy /\ main.wait > 0 /\ (test.pc = "none" \/ test.wait > 0)
    /\ main' = Elapse(main) /\ test' = Elapse(test)
    /\ quiet' = Counted(quiet)
    /\ UNCHANGED <<spin, busy, card, ready, spun>>

Main == \/ SdInit \/ CardInfo \/ MountTest \/ OpenTest \/ WriteTest \/ Judge
        \/ CloseTest \/ Pause \/ UsbStart \/ Settle \/ Check \/ Blink \/ Rest
Test == Passed \/ InitSem \/ StartThreads \/ Feed

Next == Main \/ Test \/ start_sampling \/ Wake \/ Done \/ Spin \/ Tick

Spec == Init /\ [][Next]_vars

\* The tick interrupt comes, a thread that may run does, and an access to
\* the card ends, at the latest by its timeout.
FairSpec == Spec /\ WF_vars(Tick) /\ WF_vars(Main) /\ WF_vars(Test)
                 /\ WF_vars(Done)

-----------------------------------------------------------------------------
CardFailed == sdmmc # 0 \/ fatfs # 0
Failed == uart8 # 0 \/ CardFailed

\* The pin of the watchdog is toggled every 300 ms, from reset on and with
\* whatever thread in charge, but for the time some thread spins in the card
\* driver (sd_diskio.c:352).
WatchdogFed == quiet <= 6 + spun

\* The shell runs long before the test has ended: a session it starts finds
\* the semaphore initialised, the storage thread started and a passed test.
StartsPrepared == asked => sem /\ started /\ ~Failed

\* Once USB gives the card to the host, main's own use of the volume is over,
\* except on a board that failed its test, and that one never records.
TestLetsGoOfCard ==
    usb => /\ mounted \/ open => CardFailed
           /\ Failed => ~testOk /\ ~started

\* The boot ends, with the recorder's threads running or the error blinking.
BootEnds == <>(started \/ main.pc = "blink")
=============================================================================
