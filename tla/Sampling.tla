------------------------------ MODULE Sampling ------------------------------
(***************************************************************************)
(* Session control: the key threads, the shell commands start_sampling and *)
(* stop_sampling and the storage thread's own stop share the sampling      *)
(* flag, the timer, the volume, hdas_fil, file_number and the USB device,  *)
(* without a lock.  What keeps them apart is priority and time.            *)
(*                                                                         *)
(* A file is its number; the card maps it to what it holds.  The pipeline  *)
(* behind the storage thread is module Acquisition: here an interrupt that *)
(* completes a buffer just wakes it.                                       *)
(***************************************************************************)
EXTENDS Integers, FiniteSets

CONSTANTS
  FS_WRITE_NUM, \* writes per file
  _FS_LOCK,     \* entries of FatFs's table of open files
  MaxFile,      \* bound: no key, command or buffer once file_number is there
  UseShell,     \* commands are typed
  Patient,      \* who is asked only when no other is at work: a set of threads
  LowSpace,     \* the card may have less than 500 MB left
  CardErrors,   \* FatFs calls may fail
  SlowCard,     \* a FatFs call may outlast a delay of 100 ms
  Resets,       \* power may fail
  Windows       \* a delay may end between any two statements of another thread

ASSUME SamplingAssumption ==
  /\ FS_WRITE_NUM \in Nat \ {0} /\ _FS_LOCK \in Nat \ {0} /\ MaxFile \in Nat
  /\ Patient \subseteq {"key1", "key2", "shell"}
  /\ {UseShell, LowSpace, CardErrors, SlowCard, Resets, Windows} \subseteq BOOLEAN

VARIABLES
  pc,               \* where each thread is
  hdas_sample_flag,
  timer,            \* TIM2 runs
  usb,              \* the USB device is started: the host sees the card
  mounted,          \* hdas_fs is registered for the volume
  hdas_fil,         \* number of the file the object is valid for, or NoFile
  Files,            \* numbers in FatFs's table of open files
  file_number,
  loaded,           \* file_number as the storage thread has read it
  hdas_filename,    \* number in the name that f_open is given
  opening,          \* number of the file that f_open of a thread is at
  signal_file_write_count,
  card              \* what each file holds

fileVars == <<mounted, hdas_fil, Files, card>>
nameVars == <<hdas_filename, opening>>
numberVars == <<file_number, loaded, signal_file_write_count, nameVars>>
vars == <<pc, hdas_sample_flag, timer, usb, fileVars, numberVars>>

NoFile == -1
Numbers == 0 .. MaxFile + 1

Threads == {"key1", "key2", "storage", "shell"}
Prio == [key1 |-> 8, key2 |-> 9, storage |-> 10, shell |-> 21]

(* As main and hdas_thread_init leave it: USB is started, no file open.    *)
Init ==
  /\ pc = [t \in Threads |-> "idle"]
  /\ hdas_sample_flag = 0
  /\ timer = FALSE
  /\ usb = TRUE
  /\ mounted = FALSE
  /\ hdas_fil = NoFile
  /\ Files = {}
  /\ file_number = 0 /\ loaded = 0
  /\ hdas_filename = 0 /\ opening = [t \in Threads |-> 0]
  /\ signal_file_write_count = 0
  /\ card = [n \in Numbers |-> "none"]

-----------------------------------------------------------------------------
(* Threads: fixed priorities, and a thread leaves the processor only at    *)
(* rt_thread_mdelay, a key poll or rt_sem_take.                            *)

Waiting == {"idle", "asked", "usbdown", "settle", "again", "usbwait", "usbsoon", "rest"}

MayRun(t) == \A u \in Threads : Prio[u] < Prio[t] => pc[u] \in Waiting

(* A step of t from one place to another.                                  *)
At(t, from, to) ==
  /\ pc[t] = from
  /\ MayRun(t)
  /\ pc' = [pc EXCEPT ![t] = to]

(* Where a thread may spend milliseconds: in the card and in sprintf.      *)
Slow(t) ==
  \/ pc[t] \in {"mount", "open", "create", "format", "write", "space"}
  \/ pc[t] \in {"close", "closefull"} /\ hdas_fil # NoFile

(* A delay is over.  Without Windows it does not fall into the microsecond *)
(* between two statements, which a whole delay could otherwise fit into.   *)
DelayOver == Windows \/ \A t \in Threads : pc[t] \in Waiting \/ Slow(t)

(* A delay of 100 ms or more: a storage thread that keeps up is back at    *)
(* rt_sem_take when it is over (a pass lasts less than 41 ms), unless the  *)
(* card made it wait.                                                      *)
LongDelay == DelayOver /\ (SlowCard \/ pc["storage"] = "idle")

(* A key press or a command.                                               *)
Asked(t) ==
  /\ file_number < MaxFile
  /\ t \in Patient => \A u \in Threads \ {"storage"} : pc[u] = "idle"

-----------------------------------------------------------------------------
(* FatFs                                                                   *)

(* f_mount of a work area: open objects become invalid, their locks go.  A *)
(* failure is logged, the volume is registered all the same.               *)
Mount(t) ==
  /\ At(t, "mount", "name")
  /\ mounted' = TRUE
  /\ hdas_fil' = NoFile
  /\ Files' = {}
  /\ UNCHANGED <<hdas_sample_flag, timer, usb, card, numberVars>>

(* sprintf of the name that f_open is given.                               *)
Name(t) ==
  /\ At(t, "name", "open")
  /\ hdas_filename' = file_number
  /\ UNCHANGED <<hdas_sample_flag, timer, usb, fileVars, file_number, loaded,
                 signal_file_write_count, opening>>

(* f_open with FA_CREATE_ALWAYS lasts as long as its accesses to the card,  *)
(* and key1_thread and key2_thread may come between them.  It begins with   *)
(* find_volume, chk_lock and enq_lock: refused when the volume is not       *)
(* registered, the file is in the table, or the table full.                *)
AfterOpen(t) == IF t = "storage" THEN "idle" ELSE "settle"

Lockable(n) == n \notin Files /\ Cardinality(Files) < _FS_LOCK

OpenFile(t) ==
  /\ \/ /\ mounted /\ Lockable(hdas_filename)
        /\ At(t, "open", "create")
        /\ opening' = [opening EXCEPT ![t] = hdas_filename]
        /\ UNCHANGED hdas_fil
     \/ /\ ~mounted \/ ~Lockable(hdas_filename) \/ CardErrors
        /\ At(t, "open", AfterOpen(t))
        /\ hdas_fil' = NoFile
        /\ UNCHANGED opening
  /\ UNCHANGED <<hdas_sample_flag, timer, usb, mounted, Files, card, file_number,
                 loaded, signal_file_write_count, hdas_filename>>

(* It ends with inc_lock, when the directory entry is written and the old   *)
(* clusters are removed.  The object is valid for the volume it has         *)
(* finished on: an unmount meanwhile leaves an entry of the table behind    *)
(* and an invalid object, or makes an access fail (get_fat knows no type).  *)
CreateFile(t) ==
  LET truncated == [card EXCEPT ![opening[t]] = "empty"] IN
  /\ At(t, "create", AfterOpen(t))
  /\ \/ /\ Lockable(opening[t])
        /\ Files' = Files \cup {opening[t]}
        /\ hdas_fil' = IF mounted THEN opening[t] ELSE NoFile
        /\ card' = truncated
     \/ /\ ~Lockable(opening[t]) \/ ~mounted \/ CardErrors
        /\ hdas_fil' = NoFile
        /\ card' \in {card, truncated}
        /\ UNCHANGED Files
  /\ UNCHANGED <<hdas_sample_flag, timer, usb, mounted, numberVars>>

(* f_close: an invalid object or a disk error leaves everything as it is.  *)
CloseSucceeds ==
  /\ hdas_fil # NoFile
  /\ Files' = Files \ {hdas_fil}
  /\ hdas_fil' = NoFile

CloseFails ==
  /\ hdas_fil = NoFile \/ CardErrors
  /\ UNCHANGED <<hdas_fil, Files>>

(* Mutated form of Unmount: a volume with an open file stays registered.   *)
UnmountIfClosed(t) ==
  /\ At(t, "unmount", IF t = "key2" THEN "usbwait" ELSE "idle")
  /\ mounted' = (mounted /\ hdas_fil # NoFile)
  /\ hdas_fil' = hdas_fil
  /\ Files' = Files
  /\ UNCHANGED <<hdas_sample_flag, timer, usb, card, numberVars>>

(* f_mount(NULL)                                                           *)
Unmount(t) ==
  /\ At(t, "unmount", IF t = "key2" THEN "usbwait" ELSE "idle")
  /\ mounted' = FALSE
  /\ hdas_fil' = NoFile
  /\ Files' = {}
  /\ UNCHANGED <<hdas_sample_flag, timer, usb, card, numberVars>>

-----------------------------------------------------------------------------
(* Starting: key1_thread_entry and start_sampling                          *)

(* Mutated form of Key1: the USB device is left running.                   *)
Key1KeepsUsb ==
  /\ Asked("key1")
  /\ hdas_sample_flag = 0
  /\ At("key1", "idle", "usbdown")
  /\ hdas_sample_flag' = 1
  /\ UNCHANGED <<timer, usb, fileVars, numberVars>>

Key1 ==
  /\ Asked("key1")
  /\ hdas_sample_flag = 0
  /\ At("key1", "idle", "usbdown")
  /\ hdas_sample_flag' = 1
  /\ usb' = FALSE
  /\ UNCHANGED <<timer, fileVars, numberVars>>

UsbIsDown ==
  /\ LongDelay
  /\ At("key1", "usbdown", "mount")
  /\ UNCHANGED <<hdas_sample_flag, timer, usb, fileVars, numberVars>>

(* start_sampling leaves the USB device running.                           *)
ShellStart ==
  /\ UseShell /\ Asked("shell")
  /\ At("shell", "idle", "asked")
  /\ UNCHANGED <<hdas_sample_flag, timer, usb, fileVars, numberVars>>

ShellChecks ==
  /\ DelayOver
  /\ At("shell", "asked", IF hdas_sample_flag = 0 THEN "setflag" ELSE "idle")
  /\ UNCHANGED <<hdas_sample_flag, timer, usb, fileVars, numberVars>>

ShellSetsFlag ==
  /\ At("shell", "setflag", "mount")
  /\ hdas_sample_flag' = 1
  /\ UNCHANGED <<timer, usb, fileVars, numberVars>>

(* AD7606_Start, 10 ms after the file was opened.                          *)
StartTimer(t) ==
  /\ DelayOver
  /\ At(t, "settle", "idle")
  /\ timer' = TRUE
  /\ UNCHANGED <<hdas_sample_flag, usb, fileVars, numberVars>>

-----------------------------------------------------------------------------
(* Stopping: key2_thread_entry, stop_sampling and the storage thread       *)

Key2 ==
  /\ Asked("key2")
  /\ hdas_sample_flag = 1
  /\ At("key2", "idle", "stop")
  /\ UNCHANGED <<hdas_sample_flag, timer, usb, fileVars, numberVars>>

ShellStop ==
  /\ UseShell /\ Asked("shell")
  /\ hdas_sample_flag = 1
  /\ At("shell", "idle", "stop")
  /\ UNCHANGED <<hdas_sample_flag, timer, usb, fileVars, numberVars>>

StopTimer(t) ==
  /\ At(t, "stop", "clearflag")
  /\ timer' = FALSE
  /\ UNCHANGED <<hdas_sample_flag, usb, fileVars, numberVars>>

(* Mutated form of ClearFlag: the low space stop leaves the flag.          *)
ClearFlagOfKeys(t) ==
  /\ At(t, "clearflag", "close")
  /\ hdas_sample_flag' = IF t = "storage" THEN hdas_sample_flag ELSE 0
  /\ file_number' = IF t = "key2" THEN file_number + 1 ELSE file_number
  /\ UNCHANGED <<timer, usb, fileVars, loaded, signal_file_write_count, nameVars>>

(* Mutated form of ClearFlag: the next session reuses the file.            *)
ClearFlagOnly(t) ==
  /\ At(t, "clearflag", "close")
  /\ hdas_sample_flag' = 0
  /\ UNCHANGED <<timer, usb, fileVars, numberVars>>

(* Only key2_thread moves on to the next file number.                      *)
ClearFlag(t) ==
  /\ At(t, "clearflag", "close")
  /\ hdas_sample_flag' = 0
  /\ file_number' = IF t = "key2" THEN file_number + 1 ELSE file_number
  /\ UNCHANGED <<timer, usb, fileVars, loaded, signal_file_write_count, nameVars>>

(* key2_thread and the shell try once more after 100 ms.                   *)
Close(t) ==
  /\ \/ CloseSucceeds /\ At(t, "close", "unmount")
     \/ CloseFails /\ At(t, "close", IF t = "storage" THEN "unmount" ELSE "again")
  /\ UNCHANGED <<hdas_sample_flag, timer, usb, mounted, card, numberVars>>

CloseAgain(t) ==
  /\ LongDelay
  /\ At(t, "again", "unmount")
  /\ CloseSucceeds \/ CloseFails
  /\ UNCHANGED <<hdas_sample_flag, timer, usb, mounted, card, numberVars>>

(* The ten delays outlast every shorter one that had begun before them.    *)
UsbSoon ==
  /\ LongDelay
  /\ pc["key1"] \notin {"usbdown", "settle"}
  /\ At("key2", "usbwait", "usbsoon")
  /\ UNCHANGED <<hdas_sample_flag, timer, usb, fileVars, numberVars>>

(* Mutated form of UsbStarts: the host gets the card at the next start.    *)
UsbStartsLate ==
  /\ LongDelay
  /\ At("key2", "usbsoon", "rest")
  /\ UNCHANGED <<hdas_sample_flag, timer, usb, fileVars, numberVars>>

(* Only key2_thread gives the card back to the host, 1 s later.            *)
UsbStarts ==
  /\ LongDelay
  /\ At("key2", "usbsoon", "rest")
  /\ usb' = TRUE
  /\ UNCHANGED <<hdas_sample_flag, timer, fileVars, numberVars>>

Rested ==
  /\ LongDelay
  /\ At("key2", "rest", "idle")
  /\ UNCHANGED <<hdas_sample_flag, timer, usb, fileVars, numberVars>>

-----------------------------------------------------------------------------
(* The storage thread                                                      *)

(* The interrupt that completes a buffer.                                  *)
BufferFull ==
  /\ file_number < MaxFile
  /\ timer
  /\ pc["storage"] = "idle"
  /\ pc' = [pc EXCEPT !["storage"] = "format"]
  /\ UNCHANGED <<hdas_sample_flag, timer, usb, fileVars, numberVars>>

(* f_write refuses an invalid object at once.                              *)
Format ==
  /\ At("storage", "format", IF hdas_fil = NoFile THEN "count" ELSE "write")
  /\ UNCHANGED <<hdas_sample_flag, timer, usb, fileVars, numberVars>>

(* Inside f_write the thread waits for the card and may be preempted; what  *)
(* has been written then belongs to the file of a close that comes between. *)
WriteSome ==
  /\ At("storage", "write", "write")
  /\ hdas_fil # NoFile
  /\ card' = [card EXCEPT ![hdas_fil] = "data"]
  /\ UNCHANGED <<hdas_sample_flag, timer, usb, mounted, hdas_fil, Files, numberVars>>

EndWrite ==
  /\ At("storage", "write", "count")
  /\ UNCHANGED <<hdas_sample_flag, timer, usb, fileVars, numberVars>>

(* Mutated form of Count: the counter is not reset for the next file.      *)
CountOn ==
  LET n == signal_file_write_count + 1 IN
  /\ At("storage", "count", IF n = FS_WRITE_NUM THEN "closefull" ELSE "idle")
  /\ signal_file_write_count' = n
  /\ UNCHANGED <<hdas_sample_flag, timer, usb, fileVars, file_number, loaded, nameVars>>

Count ==
  LET n == signal_file_write_count + 1 IN
  /\ At("storage", "count", IF n = FS_WRITE_NUM THEN "closefull" ELSE "idle")
  /\ signal_file_write_count' = n % FS_WRITE_NUM
  /\ UNCHANGED <<hdas_sample_flag, timer, usb, fileVars, file_number, loaded, nameVars>>

(* Mutated form of CloseFull: the full file is left open.                  *)
CloseFullForgets ==
  /\ At("storage", "closefull", "space")
  /\ UNCHANGED <<hdas_sample_flag, timer, usb, fileVars, numberVars>>

CloseFull ==
  /\ At("storage", "closefull", "space")
  /\ CloseSucceeds \/ CloseFails
  /\ UNCHANGED <<hdas_sample_flag, timer, usb, mounted, card, numberVars>>

(* Fatfa_GetFree_2 returns 0 when f_getfree fails.                         *)
Space ==
  /\ \/ mounted /\ At("storage", "space", "load")
     \/ (~mounted \/ LowSpace \/ CardErrors) /\ At("storage", "space", "stop")
  /\ UNCHANGED <<hdas_sample_flag, timer, usb, fileVars, numberVars>>

(* file_number++, which key2_thread may come between.                      *)
LoadNumber ==
  /\ At("storage", "load", "store")
  /\ loaded' = file_number
  /\ UNCHANGED <<hdas_sample_flag, timer, usb, fileVars, file_number,
                 signal_file_write_count, nameVars>>

StoreNumber ==
  /\ At("storage", "store", "name")
  /\ file_number' = loaded + 1
  /\ UNCHANGED <<hdas_sample_flag, timer, usb, fileVars, loaded,
                 signal_file_write_count, nameVars>>

-----------------------------------------------------------------------------
(* Power fails; everything but the card starts afresh.                     *)
Reset ==
  /\ Resets
  /\ pc' = [t \in Threads |-> "idle"]
  /\ hdas_sample_flag' = 0
  /\ timer' = FALSE
  /\ usb' = TRUE
  /\ mounted' = FALSE
  /\ hdas_fil' = NoFile
  /\ Files' = {}
  /\ file_number' = 0 /\ loaded' = 0
  /\ hdas_filename' = 0 /\ opening' = [t \in Threads |-> 0]
  /\ signal_file_write_count' = 0
  /\ UNCHANGED card

Starting(t) == Mount(t) \/ Name(t) \/ OpenFile(t) \/ CreateFile(t) \/ StartTimer(t)
Stopping(t) == StopTimer(t) \/ ClearFlag(t) \/ Close(t) \/ CloseAgain(t) \/ Unmount(t)

Storage ==
  \/ Format \/ WriteSome \/ EndWrite \/ Count \/ CloseFull
  \/ Space \/ LoadNumber \/ StoreNumber

(* What the threads do by themselves once asked or woken.                  *)
Goes(t) ==
  \/ Starting(t)
  \/ Stopping(t)
  \/ t = "key1" /\ UsbIsDown
  \/ t = "key2" /\ (UsbSoon \/ UsbStarts \/ Rested)
  \/ t = "storage" /\ Storage
  \/ t = "shell" /\ (ShellChecks \/ ShellSetsFlag)

Next ==
  \/ Key1 \/ Key2 \/ ShellStart \/ ShellStop
  \/ BufferFull
  \/ \E t \in Threads : Goes(t)
  \/ Reset

Spec == Init /\ [][Next]_vars

(* Every delay ends and every FatFs call returns.                          *)
FairSpec == Spec /\ \A t \in Threads : WF_vars(Goes(t))

-----------------------------------------------------------------------------
(* Properties                                                              *)

Places == Waiting \cup
  {"mount", "name", "open", "create", "setflag", "stop", "clearflag", "close", "unmount",
   "format", "write", "count", "closefull", "space", "load", "store"}

(* The types: every number stays within the numbering of files, and the    *)
(* counter of writes below its limit.                                      *)
TypeOK ==
  /\ pc \in [Threads -> Places]
  /\ hdas_sample_flag \in {0, 1}
  /\ timer \in BOOLEAN /\ usb \in BOOLEAN /\ mounted \in BOOLEAN
  /\ hdas_fil \in Numbers \cup {NoFile}
  /\ Files \subseteq Numbers
  /\ file_number \in Numbers /\ loaded \in Numbers
  /\ hdas_filename \in Numbers /\ opening \in [Threads -> Numbers]
  /\ signal_file_write_count \in 0 .. FS_WRITE_NUM - 1
  /\ card \in [Numbers -> {"none", "empty", "data"}]

(* Nobody is in the middle of a start or a stop.                           *)
Settled ==
  /\ \A t \in Threads \ {"storage"} : pc[t] \in {"idle", "asked", "usbwait", "usbsoon", "rest"}
  /\ pc["storage"] \notin {"stop", "clearflag", "close", "unmount"}

(* The flag says whether sampling is on (the comment at its definition),   *)
(* whoever started or stopped it last.                                     *)
FlagTellsTimer == Settled => (hdas_sample_flag = 1) = timer

(* The volume is never mounted while the host has the card: FatFs and the  *)
(* host both cache the allocation table.                                   *)
CardHasOneOwner == ~(mounted /\ usb)

(* While a session runs and the storage thread waits, buffers go to the    *)
(* file of the current number, and no other file is held open.             *)
RecordsIntoOpenFile ==
  Settled /\ timer /\ pc["storage"] = "idle" =>
    hdas_fil = file_number /\ Files = {file_number}

(* A session that has ended leaves no volume mounted and no file that a     *)
(* write could reach, not even when the storage thread was rolling over to  *)
(* the next file.  A stop that falls into its f_open leaves at most that    *)
(* entry in FatFs's table, and it is gone when the next session opens its   *)
(* first file: nothing left behind refuses a start.                        *)
StoppedIsClosed ==
  /\ Settled /\ ~timer =>
       ~mounted /\ hdas_fil = NoFile /\ \A m, n \in Files : m = n
  /\ \A t \in {"key1", "shell"} : pc[t] \in {"name", "open", "create"} => Files = {}

(* A file with data is never truncated by a later f_open.                  *)
NoOverwrite ==
  [][\A n \in Numbers : card[n] = "data" => card'[n] = "data"]_vars

(* After a stop the host gets the card back, unless sampling starts again. *)
UsbComesBack == hdas_sample_flag = 0 ~> usb \/ hdas_sample_flag = 1
=============================================================================
