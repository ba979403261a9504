--------------------------- MODULE SamplingProofs ---------------------------
(***************************************************************************)
(* For every number of files, writes per file and entries of the table of  *)
(* open files: the numbers stay in their ranges whatever happens; when     *)
(* nobody starts or stops while another does, and a pass of the storage    *)
(* thread is shorter than a delay of 100 ms, the flag tells whether the    *)
(* timer runs, a stopped session is closed and a running one records into  *)
(* the file of its number; with the keys alone the card has one owner, and *)
(* on a card that has room and does not fail no data is overwritten.       *)
(***************************************************************************)
EXTENDS Sampling, FiniteSetTheorems, TLAPS

Careful == Patient = {"key1", "key2", "shell"} /\ ~SlowCard

Controls == {"key1", "key2", "shell"}

(* Who can be where, and one control at a time is at work.                 *)
PlacesOK ==
  /\ DOMAIN pc = Threads
  /\ pc["key1"] \in {"idle", "usbdown", "mount", "name", "open", "create", "settle"}
  /\ pc["key2"] \in {"idle", "stop", "clearflag", "close", "again", "unmount",
                     "usbwait", "usbsoon", "rest"}
  /\ pc["shell"] \in {"idle", "asked", "setflag", "mount", "name", "open",
                      "create", "settle", "stop", "clearflag", "close", "again",
                      "unmount"}
  /\ pc["storage"] \in {"idle", "format", "write", "count", "closefull", "space",
                        "load", "store", "name", "open", "create", "stop",
                        "clearflag", "close", "unmount"}
  /\ \A t, u \in Controls : t # u => pc[t] = "idle" \/ pc[u] = "idle"

FlagOK == hdas_sample_flag \in {0, 1} /\ timer \in BOOLEAN

(* A storage thread that is through with its own stop, or nearly so.       *)
Winding == pc["storage"] \in {"idle", "close", "unmount"}
Off == hdas_sample_flag = 0 /\ timer = FALSE
Released == mounted = FALSE

(* While no volume is mounted no file object is valid, and at most one      *)
(* entry is in FatFs's table: that of an f_open which the unmount fell      *)
(* into, and which has ended since.  A session's first f_open finds none.   *)
LockInv ==
  /\ mounted = FALSE => hdas_fil = NoFile /\ \A m, n \in Files : m = n
  /\ mounted = FALSE /\ pc["storage"] = "create" => Files = {}
  /\ \A t \in Controls : pc[t] \in {"name", "open", "create"} =>
       mounted = TRUE /\ Files = {}

(* Nobody starts or stops, but perhaps the storage thread.                 *)
Quiet == pc["key1"] = "idle" /\ pc["key2"] = "idle" /\ pc["shell"] \in {"idle", "asked"}

QuietInv ==
  Quiet => /\ hdas_sample_flag = 0 => timer = FALSE /\ Winding
           /\ hdas_sample_flag = 0 /\ pc["storage"] = "idle" => Released
           /\ hdas_sample_flag = 1 => timer = TRUE \/ pc["storage"] = "clearflag"

(* A start finds the storage thread at its semaphore, and keeps it there    *)
(* until the timer runs.                                                   *)
StartInv ==
  /\ pc["key1"] = "usbdown" => hdas_sample_flag = 1 /\ timer = FALSE /\ Winding
  /\ \A t \in Controls : pc[t] \in {"mount", "name", "open", "create", "settle"} =>
       hdas_sample_flag = 1 /\ timer = FALSE /\ pc["storage"] = "idle"
  /\ pc["shell"] = "setflag" => Off /\ pc["storage"] = "idle"

(* A stop may meet the storage thread anywhere; when it is over, that is    *)
(* back at its semaphore.                                                  *)
StopInv ==
  /\ \A t \in Threads : pc[t] = "clearflag" => timer = FALSE
  /\ \A t \in Controls : pc[t] \in {"close", "again", "unmount"} => Off
  /\ pc["key2"] \in {"usbwait", "usbsoon", "rest"} => Off /\ Released
  /\ pc["key2"] \in {"usbsoon", "rest"} => pc["storage"] = "idle"

ControlInv == PlacesOK /\ FlagOK /\ QuietInv /\ StartInv /\ StopInv

USE DEF Controls, Threads

(* Before any key or command the control state satisfies the invariant.    *)
LEMMA ControlInit == Init => ControlInv
<1> SUFFICES ASSUME Init PROVE ControlInv
  OBVIOUS
<1>1. DOMAIN pc = Threads /\ \A t \in Threads : pc[t] = "idle"
  BY DEF Init
<1>2. PlacesOK /\ FlagOK
  BY <1>1 DEF Init, PlacesOK, FlagOK
<1>3. QuietInv
  BY <1>1 DEF Init, QuietInv, Winding, Released
<1>4. StartInv /\ StopInv
  BY <1>1 DEF StartInv, StopInv
<1>5. QED
  BY <1>2, <1>3, <1>4 DEF ControlInv

(* The shell runs only while the storage thread waits for its semaphore.   *)
LEMMA ShellRuns ==
  ASSUME PlacesOK, MayRun("shell")
  PROVE  pc["storage"] = "idle"
<1>1. Prio["storage"] < Prio["shell"]
  BY DEF Prio
<1>2. pc["storage"] \in Waiting
  BY <1>1 DEF MayRun
<1>3. QED
  BY <1>2 DEF PlacesOK, Waiting

(* Every step of a key, a command or the storage thread keeps it, when each*)
(* waits for the other.                                                    *)
LEMMA ControlStep ==
  ASSUME Careful, ControlInv, [Next]_vars
  PROVE  ControlInv'
<1> USE DEF ControlInv, PlacesOK, FlagOK, QuietInv, StartInv, StopInv, Quiet,
            Winding, Off, Released, At, fileVars, numberVars, nameVars
<1>1. CASE Key1 \/ Key2
  BY <1>1 DEF Careful, Key1, Key2, Asked
<1>2. CASE ShellStart \/ ShellStop
  BY <1>2, ShellRuns DEF Careful, ShellStart, ShellStop, Asked
<1>3. CASE BufferFull
  BY <1>3 DEF BufferFull
<1>4. ASSUME NEW t \in Threads, Mount(t) \/ Name(t) \/ OpenFile(t) \/ CreateFile(t)
      PROVE  ControlInv'
  <2>1. CASE Mount(t)
    BY <2>1 DEF Mount
  <2>2. CASE Name(t)
    BY <2>2 DEF Name
  <2>3. CASE OpenFile(t)
    BY <2>3 DEF OpenFile, AfterOpen
  <2>4. CASE CreateFile(t)
    BY <2>4 DEF CreateFile, AfterOpen
  <2>5. QED BY <1>4, <2>1, <2>2, <2>3, <2>4
<1>5. ASSUME NEW t \in Threads, StartTimer(t) PROVE ControlInv'
  BY <1>5 DEF StartTimer
<1>6. ASSUME NEW t \in Threads, StopTimer(t) PROVE ControlInv'
  BY <1>6 DEF StopTimer
<1>7. ASSUME NEW t \in Threads, ClearFlag(t) PROVE ControlInv'
  BY <1>7 DEF ClearFlag
<1>8. ASSUME NEW t \in Threads, Close(t) PROVE ControlInv'
  BY <1>8 DEF Close, CloseSucceeds, CloseFails
<1>9. ASSUME NEW t \in Threads, CloseAgain(t) PROVE ControlInv'
  BY <1>9 DEF CloseAgain, CloseSucceeds, CloseFails
<1>10. ASSUME NEW t \in Threads, Unmount(t) PROVE ControlInv'
  BY <1>10, ShellRuns DEF Unmount
<1>11. CASE UsbIsDown \/ UsbSoon \/ UsbStarts \/ Rested
  BY <1>11 DEF Careful, UsbIsDown, UsbSoon, UsbStarts, Rested, LongDelay
<1>12. CASE ShellChecks \/ ShellSetsFlag
  BY <1>12, ShellRuns DEF ShellChecks, ShellSetsFlag
<1>13. CASE Storage
  <2>1. CASE Format \/ WriteSome \/ EndWrite \/ Count
    BY <2>1 DEF Format, WriteSome, EndWrite, Count
  <2>2. CASE CloseFull
    BY <2>2 DEF CloseFull, CloseSucceeds, CloseFails
  <2>3. CASE Space
    BY <2>3 DEF Space
  <2>4. CASE LoadNumber \/ StoreNumber
    BY <2>4 DEF LoadNumber, StoreNumber
  <2>5. QED BY <1>13, <2>1, <2>2, <2>3, <2>4 DEF Storage
<1>14. CASE Reset
  <2>1. DOMAIN pc' = Threads /\ \A t \in Threads : pc'[t] = "idle"
    BY <1>14 DEF Reset
  <2>2. PlacesOK' /\ FlagOK'
    BY <1>14, <2>1 DEF Reset
  <2>3. QuietInv'
    BY <1>14, <2>1 DEF Reset
  <2>4. StartInv' /\ StopInv'
    BY <2>1
  <2>5. QED BY <2>2, <2>3, <2>4
<1>15. CASE UNCHANGED vars
  BY <1>15 DEF vars
<1>16. QED
  BY <1>1, <1>2, <1>3, <1>4, <1>5, <1>6, <1>7, <1>8, <1>9, <1>10, <1>11, <1>12,
     <1>13, <1>14, <1>15 DEF Next, Goes, Starting, Stopping

(* Flag, timer, file and volume agree with the places of the threads in    *)
(* every state, when a control waits for the other to end and the card is  *)
(* never slower than the waits.                                            *)
THEOREM ControlInvariance == ASSUME Careful PROVE Spec => []ControlInv
<1>1. ControlInv /\ [Next]_vars => ControlInv'
  BY ControlStep
<1>2. QED
  BY ControlInit, <1>1, PTL DEF Spec

(* The flag says whether the timer runs, whoever started or stopped last,  *)
(* with failing calls, low space and resets (hdas_thread.c:347).           *)
THEOREM FlagIsTrue == ASSUME Careful PROVE Spec => []FlagTellsTimer
<1>1. ControlInv => FlagTellsTimer
  BY DEF ControlInv, PlacesOK, FlagOK, QuietInv, StartInv, StopInv, Quiet,
         Winding, Off, Released, FlagTellsTimer, Settled
<1>2. QED
  BY ControlInvariance, <1>1, PTL

-----------------------------------------------------------------------------
(* No step leaves a valid file object on a volume that is gone, or a second *)
(* entry in the table.                                                     *)
LEMMA LockStep ==
  ASSUME Careful, ControlInv, LockInv, [Next]_vars
  PROVE  LockInv'
<1> USE DEF LockInv, At, fileVars, numberVars, nameVars
<1>0. /\ PlacesOK
      /\ \A t \in Controls : pc[t] \in {"mount", "name", "open", "create", "settle"} =>
           pc["storage"] = "idle"
  BY DEF ControlInv, StartInv
<1> USE DEF PlacesOK
<1>1. CASE Key1 \/ Key2
  BY <1>0, <1>1 DEF Key1, Key2
<1>2. CASE ShellStart \/ ShellStop
  BY <1>0, <1>2 DEF ShellStart, ShellStop
<1>3. CASE BufferFull
  BY <1>0, <1>3 DEF BufferFull
<1>4. ASSUME NEW t \in Threads, Mount(t) PROVE LockInv'
  BY <1>0, <1>4 DEF Mount
<1>5. ASSUME NEW t \in Threads, Name(t) PROVE LockInv'
  BY <1>0, <1>5 DEF Name
<1>6. ASSUME NEW t \in Threads, OpenFile(t) PROVE LockInv'
  BY <1>0, <1>6 DEF OpenFile, AfterOpen
<1>7. ASSUME NEW t \in Threads, CreateFile(t) PROVE LockInv'
  <2>1. \A u \in Controls : pc'[u] \notin {"name", "open", "create"}
    BY <1>0, <1>7 DEF CreateFile, AfterOpen
  <2>2. pc'["storage"] # "create" /\ mounted' = mounted
    BY <1>0, <1>7 DEF CreateFile, AfterOpen
  <2>3. mounted = FALSE => hdas_fil' = NoFile
    BY <1>7 DEF CreateFile
  <2>4. mounted = FALSE => t = "storage" /\ Files = {}
    BY <1>0, <1>7 DEF CreateFile
  <2>5. mounted = FALSE => \A m, n \in Files' : m = n
    BY <1>7, <2>4 DEF CreateFile
  <2>6. QED BY <2>1, <2>2, <2>3, <2>5
<1>8. ASSUME NEW t \in Threads, StartTimer(t) \/ StopTimer(t) \/ ClearFlag(t)
      PROVE  LockInv'
  BY <1>0, <1>8 DEF StartTimer, StopTimer, ClearFlag
<1>9. ASSUME NEW t \in Threads, Close(t) \/ CloseAgain(t) PROVE LockInv'
  BY <1>0, <1>9 DEF Close, CloseAgain, CloseSucceeds, CloseFails
<1>10. ASSUME NEW t \in Threads, Unmount(t) PROVE LockInv'
  BY <1>0, <1>10 DEF Unmount
<1>11. CASE UsbIsDown \/ UsbSoon \/ UsbStarts \/ Rested
  BY <1>0, <1>11 DEF UsbIsDown, UsbSoon, UsbStarts, Rested
<1>12. CASE ShellChecks \/ ShellSetsFlag
  BY <1>0, <1>12 DEF ShellChecks, ShellSetsFlag
<1>13. CASE Format \/ WriteSome \/ EndWrite \/ Count \/ Space \/ LoadNumber \/ StoreNumber
  BY <1>0, <1>13 DEF Format, WriteSome, EndWrite, Count, Space, LoadNumber, StoreNumber
<1>14. CASE CloseFull
  BY <1>0, <1>14 DEF CloseFull, CloseSucceeds, CloseFails
<1>15. CASE Reset
  BY <1>15 DEF Reset
<1>16. CASE UNCHANGED vars
  BY <1>16 DEF vars
<1>17. QED
  BY <1>1, <1>2, <1>3, <1>4, <1>5, <1>6, <1>7, <1>8, <1>9, <1>10, <1>11, <1>12,
     <1>13, <1>14, <1>15, <1>16 DEF Next, Goes, Starting, Stopping, Storage

(* A session that has been stopped leaves no volume mounted and no file that*)
(* a write could reach, wherever the storage thread was, in the middle of   *)
(* its f_open too; the one entry of the table that may be left then is gone *)
(* before the next session opens a file (hdas_thread.c:288, ff.c:3340,3428).*)
THEOREM StopCloses == ASSUME Careful PROVE Spec => []StoppedIsClosed
<1>1. Init => LockInv
  BY DEF Init, LockInv
<1>2. ControlInv /\ LockInv /\ [Next]_vars => LockInv'
  BY LockStep
<1>3. ControlInv /\ LockInv => StoppedIsClosed
  <2> SUFFICES ASSUME ControlInv, LockInv PROVE StoppedIsClosed
    OBVIOUS
  <2>1. Settled /\ ~timer => mounted = FALSE
    BY DEF ControlInv, PlacesOK, FlagOK, QuietInv, StartInv, StopInv, Quiet,
           Winding, Off, Released, Settled
  <2>2. QED BY <2>1 DEF LockInv, StoppedIsClosed
<1>4. QED
  BY ControlInvariance, <1>1, <1>2, <1>3, PTL DEF Spec

-----------------------------------------------------------------------------
(* Key 1 takes the card from the host before it mounts the volume, and key  *)
(* 2 gives it back when the volume is gone.                                *)
OwnerInv ==
  /\ usb \in BOOLEAN /\ mounted \in BOOLEAN
  /\ pc["key1"] # "idle" => usb = FALSE
  /\ pc["shell"] = "idle"
  /\ mounted = TRUE => usb = FALSE

(* No step without the shell mounts the volume while the host has the card,*)
(* or gives the host a mounted card.                                       *)
LEMMA OwnerStep ==
  ASSUME Careful, ~UseShell, ControlInv, OwnerInv, [Next]_vars
  PROVE  OwnerInv'
<1> USE DEF OwnerInv, PlacesOK, ControlInv, At, fileVars, numberVars, nameVars
<1>1. CASE Key1
  BY <1>1 DEF Key1
<1>2. CASE Key2
  BY <1>2 DEF Key2, Careful, Asked
<1>3. CASE ShellStart \/ ShellStop
  BY <1>3 DEF ShellStart, ShellStop
<1>4. CASE BufferFull
  BY <1>4 DEF BufferFull
<1>5. ASSUME NEW t \in Threads, Mount(t) PROVE OwnerInv'
  BY <1>5 DEF Mount
<1>6. ASSUME NEW t \in Threads,
             Name(t) \/ OpenFile(t) \/ CreateFile(t) \/ StartTimer(t)
      PROVE  OwnerInv'
  BY <1>6 DEF Name, OpenFile, CreateFile, AfterOpen, StartTimer
<1>7. ASSUME NEW t \in Threads, Stopping(t) PROVE OwnerInv'
  BY <1>7 DEF Stopping, StopTimer, ClearFlag, Close, CloseAgain, Unmount
<1>8. CASE UsbIsDown \/ UsbSoon \/ Rested
  BY <1>8 DEF UsbIsDown, UsbSoon, Rested
<1>9. CASE UsbStarts
  BY <1>9 DEF UsbStarts, StopInv, Released
<1>10. CASE ShellChecks \/ ShellSetsFlag
  BY <1>10 DEF ShellChecks, ShellSetsFlag
<1>11. CASE Storage
  BY <1>11 DEF Storage, Format, WriteSome, EndWrite, Count, CloseFull, Space, LoadNumber,
     StoreNumber
<1>12. CASE Reset
  BY <1>12 DEF Reset
<1>13. CASE UNCHANGED vars
  BY <1>13 DEF vars
<1>14. QED
  BY <1>1, <1>2, <1>3, <1>4, <1>5, <1>6, <1>7, <1>8, <1>9, <1>10, <1>11, <1>12,
     <1>13 DEF Next, Goes, Starting

(* With the keys alone, the volume is never mounted while the host has the  *)
(* card (hdas_thread.c:438).                                               *)
THEOREM OneOwner ==
  ASSUME Careful, ~UseShell
  PROVE  Spec => []CardHasOneOwner
<1>1. Init => OwnerInv
  BY DEF Init, OwnerInv
<1>2. ControlInv /\ OwnerInv /\ [Next]_vars => OwnerInv'
  BY OwnerStep
<1>3. OwnerInv => CardHasOneOwner
  BY DEF OwnerInv, CardHasOneOwner
<1>4. QED
  BY ControlInvariance, <1>1, <1>2, <1>3, PTL DEF Spec
-----------------------------------------------------------------------------
(* A file number is used up by a buffer that may be the last of its file,   *)
(* and by a stop with key 2.                                                *)
Passing == {"format", "write", "count", "closefull", "space", "load", "store"}

Stops == IF pc["key2"] \in {"stop", "clearflag"} THEN 1 ELSE 0
Passes == IF pc["storage"] \in Passing THEN 1 ELSE 0

NumberInv ==
  /\ loaded <= file_number
  /\ file_number + Stops + Passes <= MaxFile + 1

TypeInv == TypeOK /\ NumberInv

LEMMA Counts ==
  /\ Stops \in {0, 1} /\ Passes \in {0, 1} /\ Stops' \in {0, 1} /\ Passes' \in {0, 1}
  /\ MaxFile \in Nat /\ FS_WRITE_NUM \in Nat \ {0}
BY SamplingAssumption DEF SamplingAssumption, Stops, Passes

LEMMA Budget ==
  ASSUME NEW n \in Nat, NEW l \in Nat, NEW s \in Nat, NEW p \in Nat,
         l <= n, n + s + p <= MaxFile + 1
  PROVE  n \in Numbers /\ l \in Numbers
BY Counts DEF Numbers

(* The number that a file may have: nothing that uses one up is left out.   *)
LEMMA NumberStep ==
  ASSUME TypeInv, [Next]_vars
  PROVE  NumberInv' /\ file_number' \in Numbers /\ loaded' \in Numbers
<1> USE DEF TypeInv, NumberInv, Numbers
<1>0. /\ pc \in [Threads -> Places] /\ file_number \in Numbers /\ loaded \in Numbers
      /\ MaxFile \in Nat
  BY Counts DEF TypeOK
<1> DEFINE Good == NumberInv' /\ file_number' \in Numbers /\ loaded' \in Numbers
<1>a. PICK s \in Nat, p \in Nat :
        s = Stops /\ p = Passes /\ file_number + s + p <= MaxFile + 1
  BY Counts
<1>b. PICK ss \in Nat, pp \in Nat : ss = Stops' /\ pp = Passes'
  BY Counts
<1>c. ASSUME file_number' \in Nat, loaded' \in Nat, loaded' <= file_number',
             file_number' + ss + pp <= MaxFile + 1
      PROVE  Good
  <2>1. file_number' \in Numbers /\ loaded' \in Numbers
    BY <1>c, Budget
  <2>2. loaded' <= file_number' /\ file_number' + Stops' + Passes' <= MaxFile + 1
    BY <1>b, <1>c
  <2>3. QED BY <2>1, <2>2
<1> SUFFICES Good
  OBVIOUS
<1> HIDE DEF Good
<1>1. ASSUME UNCHANGED <<file_number, loaded>>, Stops' + Passes' <= Stops + Passes
      PROVE  Good
  <2>1. ss + pp <= s + p /\ loaded <= file_number
    BY <1>1, <1>a, <1>b
  <2>2. file_number' + ss + pp <= MaxFile + 1
    BY <1>0, <1>1, <1>a, <2>1
  <2>3. QED BY <1>0, <1>1, <1>c, <2>1, <2>2
<1>2. ASSUME UNCHANGED <<file_number, loaded>>, file_number < MaxFile
      PROVE  Good
  <2>1. ss <= 1 /\ pp <= 1 /\ loaded <= file_number
    BY <1>b, Counts
  <2>2. QED BY <1>0, <1>2, <1>c, <2>1
<1>3. CASE Key1 \/ Key2 \/ ShellStart \/ ShellStop \/ BufferFull
  BY <1>2, <1>3 DEF Key1, Key2, ShellStart, ShellStop, BufferFull, Asked, numberVars
<1>4. ASSUME NEW t \in Threads, Starting(t) PROVE Good
  <2>1. UNCHANGED <<file_number, loaded>>
    BY <1>4 DEF Starting, Mount, Name, OpenFile, CreateFile, StartTimer, numberVars
  <2>2. Stops' + Passes' <= Stops + Passes
    BY <1>0, <1>4 DEF Starting, Mount, Name, OpenFile, CreateFile, AfterOpen, StartTimer, At, Stops, Passes, Passing
  <2>3. QED BY <1>1, <2>1, <2>2
<1>5. ASSUME NEW t \in Threads, ClearFlag(t) PROVE Good
  <2>1. pc[t] = "clearflag" /\ pc' = [pc EXCEPT ![t] = "close"]
    BY <1>5 DEF ClearFlag, At
  <2>2. loaded' = loaded /\ file_number' = IF t = "key2" THEN file_number + 1 ELSE file_number
    BY <1>5 DEF ClearFlag
  <2>3. CASE t = "key2"
    <3>1. Stops = 1 /\ Stops' = 0 /\ Passes' = Passes
      BY <1>0, <2>1, <2>3 DEF Stops, Passes
    <3>2. QED BY <1>0, <1>a, <1>b, <1>c, <2>2, <2>3, <3>1
  <2>4. CASE t # "key2"
    <3>1. Stops' + Passes' <= Stops + Passes
      BY <1>0, <2>1, <2>4 DEF Stops, Passes, Passing
    <3>2. UNCHANGED <<file_number, loaded>>
      BY <2>2, <2>4
    <3>3. QED BY <1>1, <3>1, <3>2
  <2>5. QED BY <2>3, <2>4
<1>6. ASSUME NEW t \in Threads,
             StopTimer(t) \/ Close(t) \/ CloseAgain(t) \/ Unmount(t)
      PROVE  Good
  <2>1. UNCHANGED <<file_number, loaded>>
    BY <1>6 DEF StopTimer, Close, CloseAgain, Unmount, numberVars
  <2>2. Stops' + Passes' <= Stops + Passes
    BY <1>0, <1>6 DEF StopTimer, Close, CloseAgain, Unmount, At, Stops, Passes, Passing
  <2>3. QED BY <1>1, <2>1, <2>2
<1>7. CASE UsbIsDown \/ UsbSoon \/ UsbStarts \/ Rested \/ ShellChecks \/ ShellSetsFlag
  <2>1. UNCHANGED <<file_number, loaded>>
    BY <1>7 DEF UsbIsDown, UsbSoon, UsbStarts, Rested, ShellChecks, ShellSetsFlag, numberVars
  <2>2. Stops' + Passes' <= Stops + Passes
    BY <1>0, <1>7 DEF UsbIsDown, UsbSoon, UsbStarts, Rested, ShellChecks, ShellSetsFlag,
       At, Stops, Passes, Passing
  <2>3. QED BY <1>1, <2>1, <2>2
<1>8. CASE Format \/ WriteSome \/ EndWrite \/ Count \/ CloseFull \/ Space
  <2>1. UNCHANGED <<file_number, loaded>>
    BY <1>8 DEF Format, WriteSome, EndWrite, Count, CloseFull, Space, numberVars
  <2>2. Stops' + Passes' <= Stops + Passes
    BY <1>0, <1>8 DEF Format, WriteSome, EndWrite, Count, CloseFull, Space, At, Stops, Passes, Passing
  <2>3. QED BY <1>1, <2>1, <2>2
<1>9. CASE LoadNumber
  <2>1. file_number' = file_number /\ loaded' = file_number
    BY <1>9 DEF LoadNumber
  <2>2. Stops' = Stops /\ Passes' = Passes
    BY <1>0, <1>9 DEF LoadNumber, At, Stops, Passes, Passing
  <2>3. QED BY <1>0, <1>a, <1>b, <1>c, <2>1, <2>2
<1>10. CASE StoreNumber
  <2>1. file_number' = loaded + 1 /\ loaded' = loaded
    BY <1>10 DEF StoreNumber
  <2>2. Stops' = Stops /\ Passes = 1 /\ Passes' = 0
    BY <1>0, <1>10 DEF StoreNumber, At, Stops, Passes, Passing
  <2>3. QED BY <1>0, <1>a, <1>b, <1>c, <2>1, <2>2
<1>11. CASE Reset
  <2>1. file_number' = 0 /\ loaded' = 0 /\ Stops' = 0 /\ Passes' = 0
    BY <1>11 DEF Reset, Stops, Passes, Passing
  <2>2. QED BY <1>0, <1>b, <1>c, <2>1
<1>12. CASE UNCHANGED vars
  <2>1. UNCHANGED <<file_number, loaded>> /\ Stops' = Stops /\ Passes' = Passes
    BY <1>12 DEF vars, numberVars, Stops, Passes
  <2>2. QED BY <1>1, <1>a, <2>1
<1>13. QED
  BY <1>3, <1>4, <1>5, <1>6, <1>7, <1>8, <1>9, <1>10, <1>11, <1>12
     DEF Next, Goes, Stopping, Storage, Good

(* The other types.                                                         *)
LEMMA PcStep ==
  ASSUME pc \in [Threads -> Places], [Next]_vars
  PROVE  pc' \in [Threads -> Places]
<1> USE DEF Places, Waiting
<1>1. ASSUME NEW t \in Threads, NEW from, NEW to \in Places, At(t, from, to)
      PROVE  pc' \in [Threads -> Places]
  BY <1>1 DEF At
<1>2. CASE Key1 \/ Key2 \/ ShellStart \/ ShellStop
  BY <1>1, <1>2 DEF Key1, Key2, ShellStart, ShellStop
<1>3. CASE BufferFull
  BY <1>3 DEF BufferFull
<1>4. ASSUME NEW t \in Threads, Starting(t) PROVE pc' \in [Threads -> Places]
  BY <1>1, <1>4 DEF Starting, Mount, Name, OpenFile, CreateFile, AfterOpen, StartTimer
<1>5. ASSUME NEW t \in Threads, Stopping(t) PROVE pc' \in [Threads -> Places]
  BY <1>1, <1>5 DEF Stopping, StopTimer, ClearFlag, Close, CloseAgain, Unmount
<1>6. CASE UsbIsDown \/ UsbSoon \/ UsbStarts \/ Rested \/ ShellChecks \/ ShellSetsFlag
  BY <1>1, <1>6 DEF UsbIsDown, UsbSoon, UsbStarts, Rested, ShellChecks, ShellSetsFlag
<1>7. CASE Storage
  BY <1>1, <1>7 DEF Storage, Format, WriteSome, EndWrite, Count, CloseFull, Space, LoadNumber,
     StoreNumber
<1>8. CASE Reset
  BY <1>8 DEF Reset
<1>9. CASE UNCHANGED vars
  BY <1>9 DEF vars
<1>10. QED BY <1>2, <1>3, <1>4, <1>5, <1>6, <1>7, <1>8, <1>9 DEF Next, Goes

CardTyped ==
  /\ hdas_fil \in Numbers \cup {NoFile}
  /\ Files \subseteq Numbers
  /\ card \in [Numbers -> {"none", "empty", "data"}]
  /\ hdas_filename \in Numbers /\ opening \in [Threads -> Numbers]

LEMMA CardTypedStep ==
  ASSUME CardTyped, file_number \in Numbers, [Next]_vars
  PROVE  CardTyped'
<1> USE DEF CardTyped, numberVars, nameVars
<1>1. CASE Key1 \/ Key2 \/ ShellStart \/ ShellStop \/ BufferFull
  BY <1>1 DEF Key1, Key2, ShellStart, ShellStop, BufferFull, fileVars
<1>2. ASSUME NEW t \in Threads, Name(t) \/ OpenFile(t) \/ CreateFile(t) PROVE CardTyped'
  <2>1. CASE Name(t)
    BY <2>1 DEF Name, fileVars
  <2>2. CASE OpenFile(t)
    BY <2>2 DEF OpenFile
  <2>3. CASE CreateFile(t)
    <3>1. opening[t] \in Numbers
      OBVIOUS
    <3>2. card' \in {card, [card EXCEPT ![opening[t]] = "empty"]}
      BY <2>3 DEF CreateFile
    <3>3. card' \in [Numbers -> {"none", "empty", "data"}]
      BY <3>2
    <3>4. Files' \subseteq Numbers /\ hdas_fil' \in Numbers \cup {NoFile}
      BY <2>3, <3>1 DEF CreateFile
    <3>5. UNCHANGED <<hdas_filename, opening>>
      BY <2>3 DEF CreateFile
    <3>6. QED BY <3>3, <3>4, <3>5
  <2>4. QED BY <1>2, <2>1, <2>2, <2>3
<1>3. ASSUME NEW t \in Threads, Mount(t) \/ Unmount(t) \/ StartTimer(t) PROVE CardTyped'
  BY <1>3 DEF Mount, Unmount, StartTimer, fileVars
<1>4. ASSUME NEW t \in Threads, StopTimer(t) \/ ClearFlag(t) PROVE CardTyped'
  BY <1>4 DEF StopTimer, ClearFlag, fileVars
<1>5. ASSUME NEW t \in Threads, Close(t) \/ CloseAgain(t) PROVE CardTyped'
  BY <1>5 DEF Close, CloseAgain, CloseSucceeds, CloseFails
<1>6. CASE UsbIsDown \/ UsbSoon \/ UsbStarts \/ Rested \/ ShellChecks \/ ShellSetsFlag
  BY <1>6 DEF UsbIsDown, UsbSoon, UsbStarts, Rested, ShellChecks, ShellSetsFlag, fileVars
<1>7. CASE Format \/ Count \/ Space \/ LoadNumber \/ StoreNumber
  BY <1>7 DEF Format, Count, Space, LoadNumber, StoreNumber, fileVars
<1>8. CASE WriteSome \/ EndWrite
  BY <1>8 DEF WriteSome, EndWrite, fileVars
<1>9. CASE CloseFull
  BY <1>9 DEF CloseFull, CloseSucceeds, CloseFails
<1>10. CASE Reset
  BY <1>10, Counts DEF Reset, Numbers
<1>11. CASE UNCHANGED vars
  BY <1>11 DEF vars, fileVars
<1>12. QED
  BY <1>1, <1>2, <1>3, <1>4, <1>5, <1>6, <1>7, <1>8, <1>9, <1>10, <1>11
     DEF Next, Goes, Starting, Stopping, Storage

SwitchTyped ==
  /\ hdas_sample_flag \in {0, 1}
  /\ timer \in BOOLEAN /\ usb \in BOOLEAN /\ mounted \in BOOLEAN
  /\ signal_file_write_count \in 0 .. FS_WRITE_NUM - 1

LEMMA SwitchTypedStep ==
  ASSUME SwitchTyped, [Next]_vars
  PROVE  SwitchTyped'
<1> USE DEF SwitchTyped, fileVars, numberVars, nameVars
<1>1. CASE Key1 \/ Key2 \/ ShellStart \/ ShellStop \/ BufferFull
  BY <1>1 DEF Key1, Key2, ShellStart, ShellStop, BufferFull
<1>2. ASSUME NEW t \in Threads, Starting(t) PROVE SwitchTyped'
  BY <1>2 DEF Starting, Mount, Name, OpenFile, CreateFile, StartTimer
<1>3. ASSUME NEW t \in Threads, Stopping(t) PROVE SwitchTyped'
  BY <1>3 DEF Stopping, StopTimer, ClearFlag, Close, CloseAgain, Unmount
<1>4. CASE UsbIsDown \/ UsbSoon \/ UsbStarts \/ Rested \/ ShellChecks \/ ShellSetsFlag
  BY <1>4 DEF UsbIsDown, UsbSoon, UsbStarts, Rested, ShellChecks, ShellSetsFlag
<1>5. CASE Format \/ WriteSome \/ EndWrite \/ CloseFull \/ Space \/ LoadNumber \/ StoreNumber
  BY <1>5 DEF Format, WriteSome, EndWrite, CloseFull, Space, LoadNumber, StoreNumber
<1>6. CASE Count
  <2>1. PICK n \in Nat : n = signal_file_write_count + 1
    OBVIOUS
  <2>2. signal_file_write_count' = n % FS_WRITE_NUM
    BY <1>6, <2>1 DEF Count
  <2>3. n % FS_WRITE_NUM \in 0 .. FS_WRITE_NUM - 1
    BY Counts, Z3
  <2>4. UNCHANGED <<hdas_sample_flag, timer, usb, mounted>>
    BY <1>6 DEF Count
  <2>5. QED BY <2>2, <2>3, <2>4
<1>7. CASE Reset
  <2>1. 0 \in 0 .. FS_WRITE_NUM - 1
    BY Counts
  <2>2. QED BY <1>7, <2>1 DEF Reset
<1>8. CASE UNCHANGED vars
  BY <1>8 DEF vars
<1>9. QED
  BY <1>1, <1>2, <1>3, <1>4, <1>5, <1>6, <1>7, <1>8 DEF Next, Goes, Storage

LEMMA TypeParts == TypeOK <=>
  /\ pc \in [Threads -> Places] /\ CardTyped /\ SwitchTyped
  /\ file_number \in Numbers /\ loaded \in Numbers
BY DEF TypeOK, CardTyped, SwitchTyped

LEMMA TypeInvStep == ASSUME TypeInv, [Next]_vars PROVE TypeInv'
<1>1. /\ pc' \in [Threads -> Places] /\ CardTyped' /\ SwitchTyped'
      /\ file_number' \in Numbers /\ loaded' \in Numbers /\ NumberInv'
  BY TypeParts, NumberStep, PcStep, CardTypedStep, SwitchTypedStep DEF TypeInv
<1>2. TypeOK'
  BY <1>1 DEF TypeOK, CardTyped, SwitchTyped
<1>3. QED BY <1>1, <1>2 DEF TypeInv

LEMMA TypeInvInit == Init => TypeInv
<1> SUFFICES ASSUME Init PROVE TypeInv
  OBVIOUS
<1>1. pc \in [Threads -> Places] /\ 0 \in Numbers
  BY Counts DEF Init, Places, Waiting, Numbers
<1>2. CardTyped
  BY <1>1 DEF Init, CardTyped
<1>5. 0 \in 0 .. FS_WRITE_NUM - 1
  BY Counts
<1>6. SwitchTyped
  BY <1>5 DEF Init, SwitchTyped
<1>3. NumberInv
  BY <1>1, Counts DEF Init, NumberInv, Stops, Passes, Passing
<1>4. QED BY <1>1, <1>2, <1>3, <1>6, TypeParts DEF Init, TypeInv

LEMMA TypeInvariance == Spec => []TypeInv
BY TypeInvInit, TypeInvStep, PTL DEF Spec

(* Every number that a file gets lies in the numbering, and the counter of *)
(* writes below its limit, however the threads interleave: no assumption   *)
(* on the priorities' consequences is needed (hdas_thread.c:288).          *)
THEOREM SessionTypes == Spec => []TypeOK
BY TypeInvariance, PTL DEF TypeInv

-----------------------------------------------------------------------------
(* One file is in FatFs's table, the one hdas_fil is valid for, and none    *)
(* between a close and the open that follows.                               *)
TableInv ==
  /\ Files = IF hdas_fil = NoFile THEN {} ELSE {hdas_fil}
  /\ pc["storage"] \in {"space", "load", "store", "name", "open", "create"} =>
       hdas_fil = NoFile
  /\ pc["storage"] = "create" => mounted = TRUE /\ pc["key2"] # "unmount"
  /\ \A t \in Controls : pc[t] \in {"name", "open", "create"} =>
       hdas_fil = NoFile /\ mounted = TRUE

(* While a session runs, its file is the one of the current number.         *)
InSession == Quiet /\ hdas_sample_flag = 1

SessionInv ==
  /\ InSession => mounted = TRUE /\ pc["storage"] \notin {"close", "unmount"}
  /\ InSession /\ pc["storage"] \in {"idle", "format", "write", "count", "closefull"} =>
       hdas_fil = file_number
  /\ InSession /\ pc["storage"] = "open" => hdas_filename = file_number
  /\ InSession /\ pc["storage"] = "create" => opening["storage"] = file_number
  /\ \A t \in Controls :
       /\ pc[t] = "open" => hdas_filename = file_number
       /\ pc[t] = "create" => opening[t] = file_number
       /\ pc[t] = "settle" => hdas_fil = file_number /\ mounted = TRUE

LEMMA NoFileIsNoNumber == NoFile \notin Numbers /\ _FS_LOCK \in Nat \ {0}
BY Counts, SamplingAssumption DEF SamplingAssumption, NoFile, Numbers

(* An empty table has room for any file.                                    *)
LEMMA EmptyTable ==
  ASSUME Files = {}, NEW n
  PROVE  Lockable(n)
<1>1. Cardinality({}) = 0
  BY FS_EmptySet
<1>2. QED BY <1>1, NoFileIsNoNumber DEF Lockable

(* The storage thread runs only while key2_thread waits.                    *)
LEMMA StorageRuns ==
  ASSUME MayRun("storage")
  PROVE  pc["key2"] # "unmount"
<1>1. Prio["key2"] < Prio["storage"]
  BY DEF Prio
<1>2. pc["key2"] \in Waiting
  BY <1>1 DEF MayRun
<1>3. QED
  BY <1>2 DEF Waiting

LEMMA FileStep ==
  ASSUME Careful, ~CardErrors, TypeOK, ControlInv, TableInv, SessionInv, [Next]_vars
  PROVE  TableInv' /\ SessionInv'
<1>0. /\ file_number \in Numbers /\ NoFile \notin Numbers
      /\ hdas_fil \in Numbers \cup {NoFile} /\ mounted \in BOOLEAN
  BY NoFileIsNoNumber DEF TypeOK
<1> DEFINE Good == TableInv' /\ SessionInv'
<1> USE DEF ControlInv, PlacesOK, FlagOK, QuietInv, StartInv, StopInv, Quiet,
            Winding, Off, Released, At, fileVars, numberVars, nameVars,
            TableInv, SessionInv, InSession
<1>1. CASE Key1 \/ Key2
  BY <1>1 DEF Careful, Key1, Key2, Asked
<1>2. CASE ShellStart \/ ShellStop
  BY <1>2 DEF ShellStart, ShellStop, Careful, Asked
<1>3. CASE BufferFull
  BY <1>3 DEF BufferFull
<1>4. ASSUME NEW t \in Threads, Mount(t) PROVE Good
  BY <1>0, <1>4 DEF Mount
<1>5. ASSUME NEW t \in Threads, Name(t) \/ OpenFile(t) \/ CreateFile(t) PROVE Good
  <2>1. CASE Name(t)
    BY <1>0, <2>1 DEF Name
  <2>2. CASE OpenFile(t)
    <3>1. Files = {} /\ hdas_fil = NoFile /\ Lockable(hdas_filename)
      BY <2>2, EmptyTable DEF OpenFile
    <3>2. mounted = TRUE => opening' = [opening EXCEPT ![t] = hdas_filename]
      BY <2>2, <3>1 DEF OpenFile
    <3>3. mounted = FALSE => pc' = [pc EXCEPT ![t] = AfterOpen(t)]
      BY <2>2, <3>1 DEF OpenFile
    <3>4. mounted = TRUE => pc' = [pc EXCEPT ![t] = "create"]
      BY <2>2, <3>1 DEF OpenFile
    <3>5. /\ UNCHANGED <<Files, hdas_fil, mounted, file_number, hdas_sample_flag, hdas_filename>>
          /\ pc[t] = "open"
      BY <2>2, <3>1 DEF OpenFile
    <3>6. t = "storage" => pc["key2"] # "unmount"
      BY <2>2, StorageRuns DEF OpenFile
    <3>7. CASE mounted = TRUE
      <4>1. TableInv'
        BY <1>0, <3>1, <3>4, <3>5, <3>6, <3>7
      <4>2. SessionInv'
        <5>1. /\ InSession' => InSession
              /\ \A u \in Controls : u # t => pc'[u] = pc[u]
          BY <1>0, <3>4, <3>5, <3>7
        <5>2. opening'[t] = hdas_filename
          BY <3>2, <3>7 DEF TypeOK
        <5>3. QED BY <1>0, <3>1, <3>2, <3>4, <3>5, <3>7, <5>1, <5>2 DEF TypeOK
      <4>3. QED BY <4>1, <4>2
    <3>8. CASE mounted = FALSE
      BY <1>0, <3>1, <3>3, <3>5, <3>8 DEF AfterOpen
    <3>9. QED BY <1>0, <3>7, <3>8
  <2>3. CASE CreateFile(t)
    <3>1. Files = {} /\ mounted = TRUE /\ Lockable(opening[t])
      BY <2>3, EmptyTable DEF CreateFile
    <3>2. hdas_fil' = opening[t] /\ Files' = {opening[t]}
      BY <2>3, <3>1 DEF CreateFile
    <3>3. opening[t] \in Numbers
      BY DEF TypeOK
    <3>4. /\ pc[t] = "create" /\ pc' = [pc EXCEPT ![t] = AfterOpen(t)]
          /\ UNCHANGED <<mounted, file_number, hdas_sample_flag, hdas_filename, opening>>
      BY <2>3 DEF CreateFile
    <3>5. QED BY <1>0, <3>1, <3>2, <3>3, <3>4 DEF AfterOpen
  <2>4. QED BY <1>5, <2>1, <2>2, <2>3
<1>6. ASSUME NEW t \in Threads, StartTimer(t) PROVE Good
  BY <1>6 DEF StartTimer
<1>7. ASSUME NEW t \in Threads, StopTimer(t) PROVE Good
  BY <1>7 DEF StopTimer
<1>8. ASSUME NEW t \in Threads, ClearFlag(t) PROVE Good
  BY <1>8 DEF ClearFlag
<1>9. ASSUME NEW t \in Threads, Close(t) PROVE Good
  BY <1>0, <1>9 DEF Close, CloseSucceeds, CloseFails
<1>10. ASSUME NEW t \in Threads, CloseAgain(t) PROVE Good
  BY <1>0, <1>10 DEF CloseAgain, CloseSucceeds, CloseFails, LongDelay, Careful
<1>11. ASSUME NEW t \in Threads, Unmount(t) PROVE Good
  BY <1>0, <1>11, ShellRuns DEF Unmount
<1>12. CASE UsbIsDown \/ UsbSoon \/ UsbStarts \/ Rested
  BY <1>12 DEF Careful, UsbIsDown, UsbSoon, UsbStarts, Rested, LongDelay
<1>13. CASE ShellChecks \/ ShellSetsFlag
  BY <1>13, ShellRuns DEF ShellChecks, ShellSetsFlag
<1>14. CASE Storage
  <2>1. CASE Format \/ WriteSome \/ EndWrite \/ Count
    BY <2>1, <1>0 DEF Format, WriteSome, EndWrite, Count
  <2>2. CASE CloseFull
    BY <2>2, <1>0 DEF CloseFull, CloseSucceeds, CloseFails
  <2>3. CASE Space
    BY <2>3 DEF Space
  <2>4. CASE LoadNumber \/ StoreNumber
    BY <2>4 DEF LoadNumber, StoreNumber
  <2>5. QED BY <1>14, <2>1, <2>2, <2>3, <2>4 DEF Storage
<1>15. CASE Reset
  <2>1. DOMAIN pc' = Threads /\ \A t \in Threads : pc'[t] = "idle"
    BY <1>15 DEF Reset
  <2>2. QED BY <1>15, <2>1 DEF Reset
<1>16. CASE UNCHANGED vars
  BY <1>16 DEF vars
<1>17. QED
  BY <1>1, <1>2, <1>3, <1>4, <1>5, <1>6, <1>7, <1>8, <1>9, <1>10, <1>11, <1>12,
     <1>13, <1>14, <1>15, <1>16 DEF Next, Goes, Starting, Stopping

SessInv == TypeInv /\ ControlInv /\ TableInv /\ SessionInv

LEMMA FileInit == Init => TableInv /\ SessionInv
BY DEF Init, TableInv, SessionInv, InSession

LEMMA SessInvariance ==
  ASSUME Careful, ~CardErrors
  PROVE  Spec => []SessInv
<1>1. Init => SessInv
  BY TypeInvInit, ControlInit, FileInit DEF SessInv
<1>2. SessInv /\ [Next]_vars => SessInv'
  BY TypeInvStep, ControlStep, FileStep DEF SessInv, TypeInv
<1>3. QED
  BY <1>1, <1>2, PTL DEF Spec

(* While a session runs, buffers go to the file of the current number and   *)
(* no other file is held open: through rollovers, stops by keys, commands   *)
(* and low space that meet them, and resets, as long as the card does not   *)
(* fail (hdas_thread.c:288).                                               *)
THEOREM RecordsWhereItShould ==
  ASSUME Careful, ~CardErrors
  PROVE  Spec => []RecordsIntoOpenFile
<1>1. SessInv => RecordsIntoOpenFile
  <2> SUFFICES ASSUME SessInv, Settled, timer = TRUE, pc["storage"] = "idle"
               PROVE  hdas_fil = file_number /\ Files = {file_number}
    BY DEF RecordsIntoOpenFile, SessInv, ControlInv, FlagOK
  <2>1. InSession
    BY DEF SessInv, ControlInv, PlacesOK, FlagOK, QuietInv, StopInv, Quiet, Off,
           Settled, InSession
  <2>2. hdas_fil = file_number
    BY <2>1 DEF SessInv, SessionInv
  <2>3. file_number # NoFile
    BY NoFileIsNoNumber DEF SessInv, TypeInv, TypeOK
  <2>4. QED BY <2>2, <2>3 DEF SessInv, TableInv
<1>2. QED
  BY SessInvariance, <1>1, PTL

-----------------------------------------------------------------------------
(* Nothing but key 2 stops the storage thread, which finds out when the     *)
(* volume is gone.                                                          *)
KeyStopInv ==
  /\ pc["key2"] \in {"stop", "clearflag", "close", "again", "unmount"} => mounted = TRUE
  /\ pc["key2"] \in {"stop", "clearflag"} => hdas_sample_flag = 1
  /\ pc["storage"] # "idle" => mounted = TRUE \/ pc["key2"] = "usbwait"
  /\ pc["storage"] \in {"stop", "clearflag", "close", "unmount"} => pc["key2"] = "usbwait"
  /\ pc["shell"] = "idle"

(* Data lies in files up to the current number, and not in a file that is   *)
(* still to be opened.                                                      *)
DataInv ==
  /\ \A n \in Numbers : card[n] = "data" => n <= file_number
  /\ hdas_sample_flag = 0 \/ pc["storage"] = "name"
       \/ pc["key1"] \in {"usbdown", "mount", "name", "open", "create"} =>
         card[file_number] # "data"
  /\ pc["storage"] = "open" =>
       hdas_filename <= file_number /\ card[hdas_filename] # "data"
  /\ pc["storage"] = "create" =>
       opening["storage"] <= file_number /\ card[opening["storage"]] # "data"
  /\ hdas_fil # NoFile => hdas_fil <= file_number
  /\ pc["storage"] \in {"format", "write", "count", "closefull"} /\ hdas_fil # NoFile
       /\ hdas_sample_flag = 0 => hdas_fil < file_number
  /\ pc["storage"] = "store" =>
       file_number = loaded \/ (file_number = loaded + 1 /\ hdas_sample_flag = 0)

KeysOnly == Careful /\ ~UseShell /\ ~LowSpace /\ ~CardErrors /\ ~Resets

LEMMA KeyStopStep ==
  ASSUME KeysOnly, SessInv, KeyStopInv, [Next]_vars
  PROVE  KeyStopInv'
<1>0. ControlInv /\ SessionInv /\ mounted \in BOOLEAN
  BY DEF SessInv, TypeInv, TypeOK
<1> DEFINE Good == KeyStopInv'
<1> USE DEF ControlInv, PlacesOK, FlagOK, QuietInv, StartInv, StopInv, Quiet,
            Winding, Off, Released, At, fileVars, numberVars, nameVars,
            SessionInv, InSession, KeyStopInv
<1>1. CASE Key1 \/ Key2
  BY <1>0, <1>1 DEF KeysOnly, Careful, Key1, Key2, Asked
<1>2. CASE ShellStart \/ ShellStop
  BY <1>2 DEF KeysOnly, ShellStart, ShellStop
<1>3. CASE BufferFull
  BY <1>0, <1>3 DEF BufferFull
<1>4. ASSUME NEW t \in Threads, Mount(t) PROVE Good
  BY <1>0, <1>4 DEF Mount
<1>5. ASSUME NEW t \in Threads,
             Name(t) \/ OpenFile(t) \/ CreateFile(t) \/ StartTimer(t) \/ StopTimer(t)
      PROVE  Good
  BY <1>0, <1>5 DEF Name, OpenFile, CreateFile, AfterOpen, StartTimer, StopTimer
<1>6. ASSUME NEW t \in Threads, ClearFlag(t) \/ Close(t) \/ CloseAgain(t) PROVE Good
  BY <1>0, <1>6 DEF ClearFlag, Close, CloseAgain
<1>7. ASSUME NEW t \in Threads, Unmount(t) PROVE Good
  BY <1>0, <1>7 DEF Unmount
<1>8. CASE UsbIsDown \/ UsbSoon \/ UsbStarts \/ Rested
  BY <1>0, <1>8 DEF KeysOnly, Careful, UsbIsDown, UsbSoon, UsbStarts, Rested, LongDelay
<1>9. CASE ShellChecks \/ ShellSetsFlag
  BY <1>9 DEF ShellChecks, ShellSetsFlag
<1>10. CASE Format \/ WriteSome \/ EndWrite \/ Count \/ CloseFull \/ LoadNumber \/ StoreNumber
  BY <1>0, <1>10 DEF Format, WriteSome, EndWrite, Count, CloseFull, LoadNumber, StoreNumber
<1>11. CASE Space
  BY <1>0, <1>11 DEF Space, KeysOnly
<1>12. CASE Reset
  BY <1>12 DEF Reset, KeysOnly
<1>13. CASE UNCHANGED vars
  BY <1>13 DEF vars
<1>14. QED
  BY <1>1, <1>2, <1>3, <1>4, <1>5, <1>6, <1>7, <1>8, <1>9, <1>10, <1>11, <1>12,
     <1>13 DEF Next, Goes, Starting, Stopping, Storage

(* A file that holds data is not opened any more.                           *)
Kept == \A n \in Numbers : card[n] = "data" => card'[n] = "data"

LEMMA DataStep ==
  ASSUME KeysOnly, SessInv, KeyStopInv, DataInv, [Next]_vars
  PROVE  DataInv' /\ Kept
<1>0. /\ ControlInv /\ TableInv /\ SessionInv
      /\ card \in [Numbers -> {"none", "empty", "data"}]
      /\ file_number \in Nat /\ loaded \in Nat /\ hdas_fil \in Nat \cup {NoFile}
      /\ file_number \in Numbers /\ hdas_fil \in Numbers \cup {NoFile}
      /\ hdas_filename \in Numbers /\ opening \in [Threads -> Numbers]
      /\ loaded <= file_number /\ file_number' \in Numbers
      /\ \A n \in Numbers : n \in Nat
  BY Counts, TypeInvStep DEF SessInv, TypeInv, TypeOK, NumberInv, Numbers
<1> DEFINE Good == DataInv' /\ Kept
<1> SUFFICES Good
  OBVIOUS
<1> USE DEF ControlInv, PlacesOK, FlagOK, QuietInv, StartInv, StopInv, Quiet,
            Winding, Off, Released, At, fileVars, numberVars, nameVars, TableInv,
            SessionInv, InSession, KeyStopInv, DataInv, Kept
<1>1. CASE Key1 \/ Key2
  BY <1>0, <1>1 DEF KeysOnly, Careful, Key1, Key2, Asked
<1>2. CASE ShellStart \/ ShellStop
  BY <1>2 DEF KeysOnly, ShellStart, ShellStop
<1>3. CASE BufferFull
  BY <1>0, <1>3 DEF BufferFull
<1>4. ASSUME NEW t \in Threads, Mount(t) PROVE Good
  BY <1>0, <1>4 DEF Mount
<1>5. ASSUME NEW t \in Threads, Name(t) \/ OpenFile(t) \/ CreateFile(t) PROVE Good
  <2>1. CASE Name(t)
    BY <1>0, <2>1 DEF Name
  <2>2. CASE OpenFile(t)
    BY <1>0, <2>2 DEF OpenFile, AfterOpen
  <2>3. CASE CreateFile(t)
    <3> DEFINE n == opening[t]
    <3>1. /\ pc[t] = "create" /\ pc' = [pc EXCEPT ![t] = AfterOpen(t)]
          /\ UNCHANGED <<hdas_sample_flag, file_number, loaded, hdas_filename, opening>>
          /\ hdas_fil' \in {n, NoFile}
          /\ card' \in {card, [card EXCEPT ![n] = "empty"]}
      BY <2>3 DEF CreateFile
    <3>2. n \in Numbers /\ n <= file_number /\ card[n] # "data"
      BY <1>0, <3>1
    <3> HIDE DEF n
    <3>3. /\ Kept
          /\ \A m \in Numbers : card'[m] = "data" => card[m] = "data"
      BY <1>0, <3>1, <3>2
    <3>4. DataInv'
      BY <1>0, <3>1, <3>2, <3>3 DEF AfterOpen
    <3>5. QED BY <3>3, <3>4
  <2>4. QED BY <1>5, <2>1, <2>2, <2>3
<1>6. ASSUME NEW t \in Threads, StartTimer(t) \/ StopTimer(t) PROVE Good
  BY <1>0, <1>6 DEF StartTimer, StopTimer
<1>7. ASSUME NEW t \in Threads, ClearFlag(t) PROVE Good
  <2>1. /\ pc[t] = "clearflag" /\ pc' = [pc EXCEPT ![t] = "close"]
        /\ hdas_sample_flag' = 0
        /\ file_number' = IF t = "key2" THEN file_number + 1 ELSE file_number
        /\ UNCHANGED <<hdas_fil, card, loaded, hdas_filename, opening>>
    BY <1>7 DEF ClearFlag
  <2>2. CASE t = "key2"
    <3>1. file_number' = file_number + 1 /\ file_number + 1 \in Numbers
      BY <1>0, <2>1, <2>2
    <3>2. \A n \in Numbers : card[n] = "data" => n <= file_number
      OBVIOUS
    <3>3. card[file_number'] # "data"
      BY <1>0, <3>1, <3>2
    <3>4. pc["key1"] = "idle"
      BY <1>0, <2>1, <2>2
    <3>5. \A n \in Numbers : card'[n] = "data" => n <= file_number'
      BY <1>0, <2>1, <3>1, <3>2
    <3>6. \A u \in Threads : u # "key2" => pc'[u] = pc[u]
      BY <1>0, <2>1, <2>2
    <3>7. pc["storage"] = "store" => file_number = loaded
      BY <1>0, <2>1, <2>2
    <3>a. hdas_filename \in Nat /\ opening["storage"] \in Nat
      BY <1>0
    <3>8. /\ hdas_filename <= file_number => hdas_filename' <= file_number'
          /\ opening["storage"] <= file_number => opening'["storage"] <= file_number'
          /\ hdas_fil <= file_number => hdas_fil' < file_number'
      BY <1>0, <2>1, <3>1, <3>a
    <3>9. hdas_fil' # NoFile => hdas_fil' < file_number'
      BY <1>0, <2>1, <3>8
    <3>10. DataInv'
      BY <1>0, <2>1, <2>2, <3>1, <3>3, <3>4, <3>5, <3>6, <3>7, <3>8, <3>9
    <3>11. QED BY <2>1, <3>10
  <2>3. CASE t # "key2"
    <3>1. t = "storage" /\ hdas_sample_flag = 0
      BY <1>0, <2>1, <2>3
    <3>2. QED BY <1>0, <2>1, <2>3, <3>1
  <2>4. QED BY <2>2, <2>3
<1>8. ASSUME NEW t \in Threads, Close(t) \/ CloseAgain(t) PROVE Good
  BY <1>0, <1>8 DEF Close, CloseAgain, CloseSucceeds, CloseFails
<1>9. ASSUME NEW t \in Threads, Unmount(t) PROVE Good
  BY <1>0, <1>9 DEF Unmount
<1>10. CASE UsbIsDown \/ UsbSoon \/ UsbStarts \/ Rested
  BY <1>0, <1>10 DEF UsbIsDown, UsbSoon, UsbStarts, Rested
<1>11. CASE ShellChecks \/ ShellSetsFlag
  BY <1>11 DEF ShellChecks, ShellSetsFlag
<1>12. CASE Format \/ Count \/ Space
  BY <1>0, <1>12 DEF Format, Count, Space
<1>13. CASE WriteSome \/ EndWrite
  <2>1. /\ pc["storage"] = "write"
        /\ pc' = [pc EXCEPT !["storage"] = "write"] \/ pc' = [pc EXCEPT !["storage"] = "count"]
        /\ UNCHANGED <<hdas_sample_flag, file_number, loaded, hdas_fil, hdas_filename, opening>>
        /\ card' = card \/ (hdas_fil # NoFile /\ card' = [card EXCEPT ![hdas_fil] = "data"])
    BY <1>13 DEF WriteSome, EndWrite
  <2>2. Kept
    BY <1>0, <2>1
  <2>3. hdas_fil # NoFile =>
          hdas_fil <= file_number /\ (hdas_sample_flag = 0 => hdas_fil < file_number)
    BY <2>1
  <2>4. \A n \in Numbers : card'[n] = "data" => n <= file_number
    BY <1>0, <2>1, <2>3
  <2>5. pc["key1"] \notin {"usbdown", "mount", "name", "open", "create"}
    BY <1>0, <2>1
  <2>6. hdas_sample_flag = 0 => card'[file_number] # "data"
    BY <1>0, <2>1, <2>3
  <2>7. QED BY <1>0, <2>1, <2>2, <2>3, <2>4, <2>5, <2>6
<1>14. CASE CloseFull
  BY <1>0, <1>14 DEF CloseFull, CloseSucceeds, CloseFails
<1>15. CASE LoadNumber
  BY <1>0, <1>15 DEF LoadNumber
<1>16. CASE StoreNumber
  <2>1. /\ pc["storage"] = "store" /\ pc' = [pc EXCEPT !["storage"] = "name"]
        /\ UNCHANGED <<hdas_sample_flag, loaded, hdas_fil, card>>
        /\ file_number' = loaded + 1
    BY <1>16 DEF StoreNumber
  <2>2. card[file_number'] # "data"
    <3>1. CASE file_number = loaded
      BY <1>0, <2>1, <3>1
    <3>2. CASE file_number = loaded + 1 /\ hdas_sample_flag = 0
      BY <1>0, <2>1, <3>2
    <3>3. QED BY <2>1, <3>1, <3>2
  <2>3. file_number' >= file_number
    BY <1>0, <2>1
  <2>4. \A n \in Numbers : card'[n] = "data" => n <= file_number'
    BY <1>0, <2>1, <2>3
  <2>5. QED BY <1>0, <2>1, <2>2, <2>4
<1>17. CASE Reset
  BY <1>17 DEF Reset, KeysOnly
<1>18. CASE UNCHANGED vars
  BY <1>18 DEF vars
<1>19. QED
  BY <1>1, <1>2, <1>3, <1>4, <1>5, <1>6, <1>7, <1>8, <1>9, <1>10, <1>11, <1>12,
     <1>13, <1>14, <1>15, <1>16, <1>17, <1>18 DEF Next, Goes, Starting, Stopping, Storage

(* A file with data is never truncated by a later f_open, when sessions are *)
(* started and stopped with the keys, the card has room and does not fail,  *)
(* and power does not: a rollover that a stop meets skips a number, but     *)
(* never takes one twice (hdas_thread.c:288).                               *)
THEOREM DataIsKept ==
  ASSUME KeysOnly
  PROVE  Spec => NoOverwrite
<1>1. Careful /\ ~CardErrors
  BY DEF KeysOnly
<1>2. Init => KeyStopInv /\ DataInv
  <2> SUFFICES ASSUME Init PROVE KeyStopInv /\ DataInv
    OBVIOUS
  <2>1. 0 \in Numbers /\ card = [n \in Numbers |-> "none"] /\ file_number = 0
    BY Counts DEF Init, Numbers
  <2>2. (\A t \in Threads : pc[t] = "idle") /\ hdas_fil = NoFile
    BY DEF Init
  <2>3. QED BY <2>1, <2>2 DEF KeyStopInv, DataInv
<1>3. SessInv /\ KeyStopInv /\ DataInv /\ [Next]_vars => KeyStopInv' /\ DataInv' /\ Kept
  BY KeyStopStep, DataStep
<1>4. Kept => [\A n \in Numbers : card[n] = "data" => card'[n] = "data"]_vars
  BY DEF Kept
<1>5. QED
  BY <1>1, <1>2, <1>3, <1>4, SessInvariance, PTL DEF Spec, NoOverwrite
=============================================================================
