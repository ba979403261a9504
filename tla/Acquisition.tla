---------------------------- MODULE Acquisition ----------------------------
(***************************************************************************)
(* The acquisition pipeline: TIM2 paces the AD7606, a circular DMA stream  *)
(* fills g_sAd7606Buf, its half and full interrupts set DMAdat_flag and    *)
(* release storage_sem, and storage_thread_entry turns the completed half  *)
(* into text in FsWriteBuf and, once both halves are there, appends the    *)
(* buffer to the file on the SD card, piece by piece.                      *)
(*                                                                         *)
(* A row (8 channels, one conversion) is represented by the number of the  *)
(* conversion that produced it, counted from power on.  Time is counted in *)
(* rows: DmaRow is both the arrival of a row and the clock.  The worst     *)
(* case execution time of a pass of the storage thread is given by         *)
(* FormatMax and WriteMax; nothing else is assumed about its speed.        *)
(*                                                                         *)
(* The control threads appear as far as the pipeline sees them: who may    *)
(* start or stop a session, in which order, is module Sampling.            *)
(***************************************************************************)
EXTENDS Integers, Sequences

CONSTANTS
  Half,         \* rows in half of g_sAd7606Buf: DATA_NUM/2
  FormatMax,    \* rows that may arrive until sprintf_data_to_buf has returned
  WriteMax,     \* rows that may arrive while f_write, f_lseek, roll-over run
  FS_WRITE_NUM, \* writes per file
  MaxSample     \* bound: conversions in a behaviour

ASSUME AcqAssumption ==
  /\ Half \in Nat \ {0}
  /\ FormatMax \in Nat
  /\ WriteMax \in Nat
  /\ FS_WRITE_NUM \in Nat \ {0}
  /\ MaxSample \in Nat

DATA_NUM == 2 * Half
Rows == 0 .. DATA_NUM - 1

(* The storage thread always waits for the next interrupt again before it  *)
(* is raised.                                                              *)
KeepsUp == FormatMax + WriteMax < Half

VARIABLES
  sample,         \* conversions since power on: the number of the next row
  running,        \* TIM2 update requests reach the DMA stream
  pos,            \* row of g_sAd7606Buf the DMA stream writes next
  g_sAd7606Buf,   \* conversion held by each row
  DMAdat_flag,    \* 0: the half interrupt was the last one, 1: the full one
  storage_sem,    \* value of the semaphore
  pc,             \* where the storage thread is
  row,            \* loop variable of sprintf_data_to_buf
  FsWriteBuf,     \* conversion whose text each line holds
  spent,          \* rows that arrived since this pass began
  signal_file_write_count,
  hdas_sample_flag,
  handler,        \* how far each control thread is in its start or stop
  mounted,        \* a work area is registered for the volume
  fileOpen,       \* hdas_fil is a valid object
  fileErr,        \* hdas_fil takes no more data: .err is set or the card full
  done,           \* lines f_write has dealt with in this call
  rec,            \* history: the lines written in this session, in order
  files,          \* history: roll-overs in this session
  fileLen,        \* history: buffers of which the current file holds lines
  cut,            \* history: positions in rec after which lines were lost
  first           \* history: first conversion of this session

dmaVars == <<sample, running, pos, g_sAd7606Buf, DMAdat_flag>>
threadVars == <<storage_sem, pc, row, FsWriteBuf, spent, signal_file_write_count>>
ctlVars == <<hdas_sample_flag, handler, mounted>>
fileVars == <<fileOpen, fileErr, done, rec, files, fileLen, cut, first>>
vars == <<dmaVars, threadVars, ctlVars, fileVars>>

(* key1_thread starts, key2_thread stops, the shell does either.           *)
Handlers == {"key1", "key2", "shell"}

(* Negative numbers stand for what the buffers hold before any conversion: *)
(* zeroes, and the test pattern that Fatfs_RW_test leaves in FsWriteBuf.   *)
Init ==
  /\ sample = 0
  /\ running = FALSE
  /\ pos = 0
  /\ g_sAd7606Buf = [r \in Rows |-> r - DATA_NUM]
  /\ DMAdat_flag = 0
  /\ storage_sem = 0
  /\ pc = "reset"
  /\ row = 0
  /\ FsWriteBuf = [r \in Rows |-> -1]
  /\ spent = 0
  /\ signal_file_write_count = 0
  /\ hdas_sample_flag = 0
  /\ handler = [h \in Handlers |-> "idle"]
  /\ mounted = FALSE
  /\ fileOpen = FALSE /\ fileErr = FALSE /\ done = 0
  /\ rec = <<>> /\ files = 0 /\ fileLen = 0 /\ cut = {}
  /\ first = 0

-----------------------------------------------------------------------------
(* The DMA stream and its interrupt                                        *)

(* The storage thread may still be busy when the next row arrives.         *)
WithinBudget ==
  /\ pc # "blocked" => spent < FormatMax + WriteMax
  /\ pc \in {"check0", "check1", "format"} => spent < FormatMax

(* rt_sem_release from the interrupt: a waiting thread is made ready,      *)
(* otherwise the value is incremented.                                     *)
Release ==
  IF pc = "blocked"
  THEN /\ pc' = "check0" /\ spent' = 0 /\ UNCHANGED storage_sem
  ELSE /\ storage_sem' = storage_sem + 1 /\ spent' = spent + 1 /\ UNCHANGED pc

(* AD7606_DmaHalfCplCb *)
HalfCplt == /\ DMAdat_flag' = 0 /\ Release

(* Mutated form of Cplt: the callback does not release the semaphore.      *)
CpltSilent ==
  /\ DMAdat_flag' = 1
  /\ spent' = IF pc = "blocked" THEN spent ELSE spent + 1
  /\ UNCHANGED <<storage_sem, pc>>

(* AD7606_DmaCplCb *)
Cplt == /\ DMAdat_flag' = 1 /\ Release

NoInterrupt ==
  /\ spent' = IF pc = "blocked" THEN spent ELSE spent + 1
  /\ UNCHANGED <<DMAdat_flag, storage_sem, pc>>

(* One conversion: the row is stored and, at the middle and at the end of  *)
(* the buffer, the interrupt runs (it has the highest priority).  The      *)
(* stream is circular and never restarted: HAL_TIM_Base_MspInit runs only  *)
(* at the first MX_TIM2_Init, and stopping only gates the requests.        *)
DmaRow ==
  /\ running
  /\ sample < MaxSample
  /\ WithinBudget
  /\ g_sAd7606Buf' = [g_sAd7606Buf EXCEPT ![pos] = sample]
  /\ sample' = sample + 1
  /\ pos' = IF pos + 1 = DATA_NUM THEN 0 ELSE pos + 1
  /\ \/ pos + 1 = Half /\ HalfCplt
     \/ pos + 1 = DATA_NUM /\ Cplt
     \/ pos + 1 \notin {Half, DATA_NUM} /\ NoInterrupt
  /\ UNCHANGED <<running, row, FsWriteBuf, signal_file_write_count, ctlVars, fileVars>>

-----------------------------------------------------------------------------
(* storage_thread_entry                                                    *)

(* rt_sem_control(&storage_sem, RT_IPC_CMD_RESET) drops what was released  *)
(* during the pass.                                                        *)
SemReset ==
  /\ pc = "reset"
  /\ storage_sem' = 0
  /\ pc' = "take"
  /\ UNCHANGED <<dmaVars, row, FsWriteBuf, spent, signal_file_write_count, ctlVars, fileVars>>

SemTake ==
  /\ pc = "take"
  /\ IF storage_sem > 0
     THEN storage_sem' = storage_sem - 1 /\ pc' = "check0" /\ spent' = 0
     ELSE pc' = "blocked" /\ UNCHANGED <<storage_sem, spent>>
  /\ UNCHANGED <<dmaVars, row, FsWriteBuf, signal_file_write_count, ctlVars, fileVars>>

(* Mutated form of CheckHalf: the half being filled is formatted.          *)
CheckHalfOther ==
  /\ pc = "check0"
  /\ IF DMAdat_flag = 0 THEN pc' = "format" /\ row' = Half
                        ELSE pc' = "check1" /\ UNCHANGED row
  /\ UNCHANGED <<dmaVars, storage_sem, FsWriteBuf, spent, signal_file_write_count, ctlVars, fileVars>>

(* The flag is read once for each of the two tests, and an interrupt may   *)
(* come between them: then neither branch is taken.                        *)
CheckHalf ==
  /\ pc = "check0"
  /\ IF DMAdat_flag = 0 THEN pc' = "format" /\ row' = 0
                        ELSE pc' = "check1" /\ UNCHANGED row
  /\ UNCHANGED <<dmaVars, storage_sem, FsWriteBuf, spent, signal_file_write_count, ctlVars, fileVars>>

CheckFull ==
  /\ pc = "check1"
  /\ IF DMAdat_flag = 1 THEN pc' = "format" /\ row' = Half
                        ELSE pc' = "reset" /\ UNCHANGED row
  /\ UNCHANGED <<dmaVars, storage_sem, FsWriteBuf, spent, signal_file_write_count, ctlVars, fileVars>>

(* Mutated forms of FormatRow: the loop runs one row too far; the buffer   *)
(* is written after either half.                                           *)
FormatRowTooFar ==
  /\ pc = "format"
  /\ FsWriteBuf' = [FsWriteBuf EXCEPT ![row] = g_sAd7606Buf[row]]
  /\ row' = row + 1
  /\ pc' = IF row + 1 = Half THEN "reset"
           ELSE IF row = DATA_NUM THEN "write" ELSE "format"
  /\ UNCHANGED <<dmaVars, storage_sem, spent, signal_file_write_count, ctlVars, fileVars>>

FormatRowThenWrite ==
  /\ pc = "format"
  /\ FsWriteBuf' = [FsWriteBuf EXCEPT ![row] = g_sAd7606Buf[row]]
  /\ row' = row + 1
  /\ pc' = IF row + 1 \in {Half, DATA_NUM} THEN "write" ELSE "format"
  /\ UNCHANGED <<dmaVars, storage_sem, spent, signal_file_write_count, ctlVars, fileVars>>

(* sprintf_data_to_buf formats the chosen half row by row while the DMA    *)
(* goes on.                                                                *)
FormatRow ==
  /\ pc = "format"
  /\ FsWriteBuf' = [FsWriteBuf EXCEPT ![row] = g_sAd7606Buf[row]]
  /\ row' = row + 1
  /\ pc' = IF row + 1 = Half THEN "reset"
           ELSE IF row + 1 = DATA_NUM THEN "write" ELSE "format"
  /\ UNCHANGED <<dmaVars, storage_sem, spent, signal_file_write_count, ctlVars, fileVars>>

(* f_write asks once whether it may write: not into a closed object or one *)
(* that takes no more, and not while the card does not report the transfer *)
(* state (the next call may then succeed).                                 *)
WriteRefused ==
  /\ pc = "write"
  /\ pc' = "count"
  /\ cut' = cut \cup {Len(rec)}
  /\ UNCHANGED <<dmaVars, storage_sem, row, FsWriteBuf, spent, signal_file_write_count,
                 ctlVars, fileOpen, fileErr, done, rec, files, fileLen, first>>

WriteBegin ==
  /\ pc = "write"
  /\ fileOpen /\ ~fileErr
  /\ pc' = "data"
  /\ UNCHANGED <<dmaVars, storage_sem, row, FsWriteBuf, spent, signal_file_write_count,
                 ctlVars, fileVars>>

(* fptr and objsize move on with every piece on the card.  A line reaches  *)
(* no file any more once key2_thread has closed hdas_fil inside the call.  *)
LineGoesOn ==
  IF fileOpen
  THEN /\ rec' = Append(rec, [file |-> files, at |-> done, conv |-> FsWriteBuf[done]])
       /\ fileLen' = IF done = 0 THEN fileLen + 1 ELSE fileLen
       /\ UNCHANGED cut
  ELSE /\ cut' = cut \cup {Len(rec)}
       /\ UNCHANGED <<rec, fileLen>>

(* Mutated form of WriteLine: the call is given the length of one half.    *)
WriteLineHalf ==
  /\ pc = "data"
  /\ LineGoesOn
  /\ done' = IF done + 1 = Half THEN 0 ELSE done + 1
  /\ pc' = IF done + 1 = Half THEN "count" ELSE "data"
  /\ UNCHANGED <<dmaVars, storage_sem, row, FsWriteBuf, spent, signal_file_write_count,
                 ctlVars, fileOpen, fileErr, files, first>>

WriteLine ==
  /\ pc = "data"
  /\ LineGoesOn
  /\ done' = IF done + 1 = DATA_NUM THEN 0 ELSE done + 1
  /\ pc' = IF done + 1 = DATA_NUM THEN "count" ELSE "data"
  /\ UNCHANGED <<dmaVars, storage_sem, row, FsWriteBuf, spent, signal_file_write_count,
                 ctlVars, fileOpen, fileErr, files, first>>

(* Mutated form of WriteStops: the next call writes behind the front.      *)
WriteStopsOnce ==
  /\ pc = "data"
  /\ cut' = cut \cup {Len(rec)}
  /\ done' = 0
  /\ pc' = "count"
  /\ UNCHANGED <<dmaVars, storage_sem, row, FsWriteBuf, spent, signal_file_write_count,
                 ctlVars, fileOpen, fileErr, rec, files, fileLen, first>>

(* f_write gives up and leaves the front of the buffer in the file: the    *)
(* disk refuses (ABORT sets .err), or no cluster is free (FR_OK, and none  *)
(* will be until the next f_open).                                         *)
WriteStops ==
  /\ pc = "data"
  /\ fileErr' = TRUE
  /\ cut' = cut \cup {Len(rec)}
  /\ done' = 0
  /\ pc' = "count"
  /\ UNCHANGED <<dmaVars, storage_sem, row, FsWriteBuf, spent, signal_file_write_count,
                 ctlVars, fileOpen, rec, files, fileLen, first>>

(* Mutated form of CountWrite: the counter is compared before it is        *)
(* incremented.                                                            *)
CountOneMore ==
  /\ pc = "count"
  /\ signal_file_write_count' = signal_file_write_count + 1
  /\ pc' = IF signal_file_write_count = FS_WRITE_NUM THEN "rollover" ELSE "reset"
  /\ UNCHANGED <<dmaVars, storage_sem, row, FsWriteBuf, spent, ctlVars, fileVars>>

(* The result of f_write is ignored: the call counts whatever became of it. *)
CountWrite ==
  /\ pc = "count"
  /\ signal_file_write_count' = signal_file_write_count + 1
  /\ pc' = IF signal_file_write_count' = FS_WRITE_NUM THEN "rollover" ELSE "reset"
  /\ UNCHANGED <<dmaVars, storage_sem, row, FsWriteBuf, spent, ctlVars, fileVars>>

(* The file is full: it is closed and the next one opened (f_open may      *)
(* fail, which is only logged).                                            *)
NextFile ==
  /\ pc = "rollover"
  /\ mounted
  /\ fileOpen' \in BOOLEAN
  /\ fileErr' = FALSE
  /\ files' = files + 1 /\ fileLen' = 0
  /\ signal_file_write_count' = 0
  /\ pc' = "reset"
  /\ UNCHANGED <<dmaVars, storage_sem, row, FsWriteBuf, spent, ctlVars, done, rec, cut, first>>

(* Fatfa_GetFree_2() < 500, which is also what it returns for an           *)
(* unregistered volume: the storage thread itself ends the session.        *)
LowSpaceStop ==
  /\ pc = "rollover"
  /\ running' = FALSE
  /\ hdas_sample_flag' = 0
  /\ fileOpen' = FALSE
  /\ mounted' = FALSE
  /\ fileLen' = 0
  /\ signal_file_write_count' = 0
  /\ pc' = "reset"
  /\ UNCHANGED <<sample, pos, g_sAd7606Buf, DMAdat_flag, storage_sem, row, FsWriteBuf,
                 spent, handler, fileErr, done, rec, files, cut, first>>

Storage ==
  \/ SemReset \/ SemTake \/ CheckHalf \/ CheckFull
  \/ FormatRow \/ WriteRefused \/ WriteBegin \/ WriteLine \/ WriteStops
  \/ CountWrite \/ NextFile \/ LowSpaceStop

-----------------------------------------------------------------------------
(* What the control threads do to the pipeline                             *)

(* The shell has read the flag; a key thread may come before it acts.  The *)
(* key threads have the higher priority and read and write it at once.     *)
ShellDecides ==
  /\ handler["shell"] = "idle"
  /\ handler' = [handler EXCEPT !["shell"] = IF hdas_sample_flag = 0 THEN "start" ELSE "stop"]
  /\ UNCHANGED <<dmaVars, threadVars, hdas_sample_flag, mounted, fileVars>>

Starts(h) ==
  \/ h = "key1" /\ handler[h] = "idle" /\ hdas_sample_flag = 0
  \/ h = "shell" /\ handler[h] = "start"

Stops(h) ==
  \/ h = "key2" /\ handler[h] = "idle" /\ hdas_sample_flag = 1
  \/ h = "shell" /\ handler[h] = "stop"

(* A start sets the flag first; key1_thread then sleeps 100 ms.            *)
SetFlag(h) ==
  /\ Starts(h)
  /\ hdas_sample_flag' = 1
  /\ handler' = [handler EXCEPT ![h] = "started"]
  /\ UNCHANGED <<dmaVars, threadVars, mounted, fileVars>>

(* f_mount and f_open (either may fail, which is only logged).  MX_DMA_Init, *)
(* MX_TIM2_Init and AD7606_INIT that follow leave the DMA position and the *)
(* buffers alone.  The storage thread waits: the shell has the lower       *)
(* priority, and the 100 ms of key1_thread are more than two passes after  *)
(* the timer was stopped.  Left out: key 1 inside a pass while the timer   *)
(* runs without the flag, which takes the race that module Sampling shows. *)
OpenFile(h) ==
  /\ handler[h] = "started"
  /\ pc = "blocked"
  /\ handler' = [handler EXCEPT ![h] = "opened"]
  /\ mounted' = TRUE
  /\ fileOpen' \in BOOLEAN
  /\ fileErr' = FALSE
  /\ rec' = <<>> /\ files' = 0 /\ fileLen' = 0 /\ cut' = {}
  /\ first' = sample
  /\ UNCHANGED <<dmaVars, threadVars, hdas_sample_flag, done>>

StartTimer(h) ==
  /\ handler[h] = "opened"
  /\ handler' = [handler EXCEPT ![h] = "idle"]
  /\ running' = TRUE
  /\ UNCHANGED <<sample, pos, g_sAd7606Buf, DMAdat_flag, threadVars,
                 hdas_sample_flag, mounted, fileVars>>

StopTimer(h) ==
  /\ Stops(h)
  /\ running' = FALSE
  /\ hdas_sample_flag' = 0
  /\ handler' = [handler EXCEPT ![h] = "stopped"]
  /\ UNCHANGED <<sample, pos, g_sAd7606Buf, DMAdat_flag, threadVars, mounted, fileVars>>

(* f_close, which may fail, and f_mount(NULL), which invalidates the file. *)
CloseFile(h) ==
  /\ handler[h] = "stopped"
  /\ handler' = [handler EXCEPT ![h] = "idle"]
  /\ fileOpen' = FALSE
  /\ mounted' = FALSE
  /\ UNCHANGED <<dmaVars, threadVars, hdas_sample_flag, fileErr, done, rec, files, fileLen,
                 cut, first>>

Control ==
  \/ ShellDecides
  \/ \E h \in Handlers :
       SetFlag(h) \/ OpenFile(h) \/ StartTimer(h) \/ StopTimer(h) \/ CloseFile(h)

Next == DmaRow \/ Storage \/ Control

Spec == Init /\ [][Next]_vars
=============================================================================
