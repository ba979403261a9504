----------------------------- MODULE BootProofs -----------------------------
(***************************************************************************)
(* For every length of the boot's delays, number of writes and timeout of  *)
(* the card: the watchdog is fed, nothing records too early, and the self  *)
(* test lets go of the card.                                               *)
(***************************************************************************)
EXTENDS Boot, TLAPS

USE BootAssumption DEF BootAssumption

Early == {"sdinit", "wait", "mount", "open", "write", "close"}
Late == {"pause", "usb", "settle", "check", "blink", "rest"}

Typed ==
    /\ main \in [pc : Early \cup Late, n : Int, wait : Nat]
    /\ test \in [pc : {"none", "begin", "create", "startup", "feed"},
                 n : Int, wait : Nat]
    /\ uart8 \in Nat /\ sdmmc \in Nat /\ fatfs \in Nat
    /\ quiet \in 0 .. MaxQuiet /\ spun \in Nat /\ spun <= quiet

(* How many units beyond those of the driver the pin may still rest at a   *)
(* place of main, the delay that is left included.                         *)
Allowed(pc) == CASE pc = "settle" -> 6
                 [] pc = "blink" -> 5
                 [] pc = "usb" -> 4
                 [] pc \in {"wait", "pause"} -> 2
                 [] OTHER -> 0

(* main answers for the pin until it rests, then the test thread does.     *)
Charge ==
    /\ main.pc # "rest" => quiet + main.wait <= spun + Allowed(main.pc)
    /\ main.pc = "rest" =>
          quiet + test.wait <= spun + IF test.pc = "feed" THEN 4 ELSE 0

(* How far the test thread has come tells what is ready.                   *)
Progress ==
    /\ test.pc = "none" <=> main.pc # "rest"
    /\ test.wait > 0 => test.pc = "feed"
    /\ test.pc # "none" => ~Failed
    /\ testOk => test.pc \in {"create", "startup", "feed"}
    /\ test.pc \in {"startup", "feed"} => sem
    /\ started <=> test.pc = "feed"
    /\ asked => test.pc = "feed"
    /\ busy => started

(* The self test is over, and has closed what it opened unless it failed.  *)
Released ==
    /\ usb => main.pc \in Late
    /\ main.pc \in Late /\ (mounted \/ open) => CardFailed

Inv == Typed /\ Charge /\ Progress /\ Released

(* The boot starts with a full watchdog and nothing of the card in use.    *)
LEMMA InvInit == Init => Inv
BY DEF Init, Inv, Typed, Charge, Progress, Released, Allowed, Thread, Early, Late,
       Failed, CardFailed

(* The types and the order of the two counts.                              *)
LEMMA TypedStep == ASSUME Inv, [Next]_vars PROVE Typed'
<1> USE DEF Inv, Typed, Early, Late, Thread, Leave, ToPause, clc_watchdog
<1>1. CASE Main
  <2> USE DEF card, ready, time
  <2>1. CASE SdInit \/ CardInfo \/ MountTest \/ OpenTest \/ WriteTest \/ Judge
    BY <2>1 DEF SdInit, CardInfo, MountTest, OpenTest, WriteTest, Judge
  <2>2. CASE CloseTest \/ Pause \/ UsbStart \/ Settle \/ Check \/ Blink \/ Rest
    BY <2>2 DEF CloseTest, Pause, UsbStart, Settle, Check, Blink, Rest
  <2>3. QED BY <1>1, <2>1, <2>2 DEF Main
<1>2. CASE Test
  BY <1>2 DEF Test, Passed, InitSem, StartThreads, Feed, card, ready, time
<1>3. CASE start_sampling \/ Wake \/ Done
  BY <1>3 DEF start_sampling, Wake, Done, card, ready, time
<1>4. CASE Spin
  BY <1>4 DEF Spin, Elapse, Counted, ready
<1>5. CASE Tick
  BY <1>5 DEF Tick, Elapse, Counted, card, ready
<1>6. CASE UNCHANGED vars
  BY <1>6 DEF vars, card, ready, time
<1>7. QED
  BY <1>1, <1>2, <1>3, <1>4, <1>5, <1>6 DEF Next

(* Each delay begins with the pin just toggled, or with room for it.       *)
LEMMA ChargeStep == ASSUME Inv, [Next]_vars PROVE Charge'
<1> USE DEF Inv, Typed, Charge, Early, Late, Allowed, Thread, Leave, ToPause,
            clc_watchdog
<1>1. CASE Main
  <2> USE DEF card, ready, time, MainAt
  <2>1. CASE SdInit \/ CardInfo \/ MountTest
    BY <1>1, <2>1 DEF SdInit, CardInfo, MountTest
  <2>2. CASE OpenTest \/ WriteTest \/ Judge \/ CloseTest
    BY <2>2 DEF OpenTest, WriteTest, Judge, CloseTest
  <2>3. CASE Pause \/ UsbStart \/ Settle
    BY <2>3 DEF Pause, UsbStart, Settle
  <2>4. CASE Check \/ Blink \/ Rest
    BY <2>4 DEF Check, Blink, Rest
  <2>5. QED BY <1>1, <2>1, <2>2, <2>3, <2>4 DEF Main
<1>2. CASE Test
  BY <1>2 DEF Test, Passed, InitSem, StartThreads, Feed, TestAt, Progress,
              card, ready, time
<1>3. CASE start_sampling \/ Wake \/ Done
  BY <1>3 DEF start_sampling, Wake, Done, card, ready, time
<1>4. CASE Spin
  BY <1>4 DEF Spin, Elapse, Counted, ready
<1>5. CASE Tick
  BY <1>5 DEF Tick, Elapse, Counted, Progress, card, ready
<1>6. CASE UNCHANGED vars
  BY <1>6 DEF vars, card, ready, time
<1>7. QED
  BY <1>1, <1>2, <1>3, <1>4, <1>5, <1>6 DEF Next

(* The test thread begins when the test is passed, and goes one way.       *)
LEMMA ProgressStep == ASSUME Inv, [Next]_vars PROVE Progress'
<1> USE DEF Inv, Typed, Progress, Failed, CardFailed, Early, Late, Thread, Leave, ToPause
<1>1. CASE Main
  <2> USE DEF card, ready, time, MainAt
  <2>1. CASE SdInit \/ CardInfo \/ MountTest \/ OpenTest \/ WriteTest \/ Judge
    BY <2>1 DEF SdInit, CardInfo, MountTest, OpenTest, WriteTest, Judge
  <2>2. CASE CloseTest \/ Pause \/ UsbStart \/ Settle \/ Check \/ Blink \/ Rest
    BY <2>2 DEF CloseTest, Pause, UsbStart, Settle, Check, Blink, Rest
  <2>3. QED BY <1>1, <2>1, <2>2 DEF Main
<1>2. CASE Test
  BY <1>2 DEF Test, Passed, InitSem, StartThreads, Feed, TestAt, TestMay, card,
              ready, time
<1>3. CASE start_sampling \/ Wake \/ Done
  BY <1>3 DEF start_sampling, ShellMay, TestMay, Wake, Done, card, ready, time
<1>4. CASE Spin
  BY <1>4 DEF Spin, Elapse, ready
<1>5. CASE Tick
  BY <1>5 DEF Tick, Elapse, card, ready
<1>6. CASE UNCHANGED vars
  BY <1>6 DEF vars, card, ready, time
<1>7. QED
  BY <1>1, <1>2, <1>3, <1>4, <1>5, <1>6 DEF Next

(* Each of the four ways out of the test closes the file or has failed.    *)
LEMMA ReleasedStep == ASSUME Inv, [Next]_vars PROVE Released'
<1> USE DEF Inv, Typed, Released, Failed, CardFailed, Early, Late, Thread, Leave, ToPause
<1>1. CASE Main
  <2> USE DEF card, ready, time, MainAt
  <2>1. CASE SdInit \/ CardInfo \/ MountTest \/ OpenTest \/ WriteTest \/ Judge
    BY <2>1 DEF SdInit, CardInfo, MountTest, OpenTest, WriteTest, Judge
  <2>2. CASE CloseTest \/ Pause \/ UsbStart \/ Settle \/ Check \/ Blink \/ Rest
    BY <2>2 DEF CloseTest, Pause, UsbStart, Settle, Check, Blink, Rest
  <2>3. QED BY <1>1, <2>1, <2>2 DEF Main
<1>2. CASE Test
  BY <1>2 DEF Test, Passed, InitSem, StartThreads, Feed, card, ready, time
<1>3. CASE start_sampling \/ Wake \/ Done
  BY <1>3 DEF start_sampling, Wake, Done, card, ready, time
<1>4. CASE Spin
  BY <1>4 DEF Spin, Elapse, ready
<1>5. CASE Tick
  BY <1>5 DEF Tick, Elapse, card, ready
<1>6. CASE UNCHANGED vars
  BY <1>6 DEF vars, card, ready, time
<1>7. QED
  BY <1>1, <1>2, <1>3, <1>4, <1>5, <1>6 DEF Next

(* The invariant holds in every state of the boot and of what follows it.  *)
THEOREM BootInvariance == Spec => []Inv
<1>1. ASSUME Inv, [Next]_vars PROVE Inv'
  BY <1>1, TypedStep, ChargeStep, ProgressStep, ReleasedStep DEF Inv
<1>2. QED
  BY InvInit, <1>1, PTL DEF Spec

(* The pin of the watchdog never rests longer than 300 ms and the time that *)
(* threads spent spinning in the card driver, for every timeout of the      *)
(* driver and every length of the delays of main.                          *)
THEOREM WatchdogAlwaysFed == Spec => []WatchdogFed
<1>1. Inv => WatchdogFed
  BY DEF Inv, Typed, Charge, Allowed, WatchdogFed
<1>2. QED
  BY BootInvariance, <1>1, PTL

(* A session that the shell starts during the boot finds the recorder      *)
(* ready and the test passed.                                              *)
THEOREM NothingStartsEarly == Spec => []StartsPrepared
<1>1. Inv => StartsPrepared
  BY DEF Inv, Progress, StartsPrepared
<1>2. QED
  BY BootInvariance, <1>1, PTL

(* The host gets the card when main has let go of it, or the board is      *)
(* marked as failed and never records.                                     *)
THEOREM CardIsReleased == Spec => []TestLetsGoOfCard
<1>1. Inv => TestLetsGoOfCard
  BY DEF Inv, Progress, Released, TestLetsGoOfCard
<1>2. QED
  BY BootInvariance, <1>1, PTL
=============================================================================
