-------------------------- MODULE AcquisitionProofs --------------------------
(***************************************************************************)
(* For every buffer size, file length and number of conversions: if a pass *)
(* of the storage thread is shorter than half a buffer (KeepsUp), what is  *)
(* on the card is whole and complete.                                      *)
(***************************************************************************)
EXTENDS AcquisitionProps, TLAPS

USE AcqAssumption DEF AcqAssumption, DATA_NUM, Rows

(* The steps of f_write and the count that follows it.                     *)
WriteSteps == WriteRefused \/ WriteBegin \/ WriteLine \/ WriteStops \/ CountWrite

(* The steps that deal with the line that is due, and all the others.      *)
Advances == WriteLine \/ WriteStops \/ WriteRefused
Lasts ==
  \/ DmaRow \/ SemReset \/ SemTake \/ CheckHalf \/ CheckFull \/ FormatRow
  \/ WriteBegin \/ CountWrite \/ NextFile \/ LowSpaceStop
  \/ Control \/ UNCHANGED vars

(* The positions of a sequence that was there before an Append.            *)
LEMMA OldIndex ==
  \A n \in Nat : \A i \in 1 .. n + 1 : i # n + 1 => i \in 1 .. n
OBVIOUS

(* The initial values have their types.                                    *)
LEMMA TypeInit == Init => TypeOK
<1> SUFFICES ASSUME Init PROVE TypeOK
  OBVIOUS
<1>1. DmaTypeOK
  BY DEF Init, DmaTypeOK
<1>2. ThreadTypeOK
  BY DEF Init, ThreadTypeOK, PcValues
<1>3. FlagTypeOK
  BY Zenon DEF Init, FlagTypeOK
<1>4. FileTypeOK
  BY DEF Init, FileTypeOK
<1>5. CtlTypeOK
  BY DEF Init, CtlTypeOK
<1>6. QED
  BY <1>1, <1>2, <1>3, <1>4, <1>5 DEF TypeOK

(* Every step keeps them, whatever the speed of the card.                  *)
LEMMA TypeStep ==
  ASSUME TypeOK, [Next]_vars
  PROVE  TypeOK'
<1> USE DEF TypeOK
<1>1. CASE DmaRow
  <2>1. DmaTypeOK'
    BY <1>1 DEF DmaRow, HalfCplt, Cplt, NoInterrupt, DmaTypeOK
  <2>2. ThreadTypeOK'
    <3>1. UNCHANGED <<row, FsWriteBuf, signal_file_write_count>>
      BY <1>1, Zenon DEF DmaRow
    <3>2. \/ UNCHANGED <<storage_sem, pc>>
          \/ pc' = "check0" /\ UNCHANGED storage_sem
          \/ storage_sem' = storage_sem + 1 /\ UNCHANGED pc
      BY <1>1, Zenon DEF DmaRow, HalfCplt, Cplt, NoInterrupt, Release
    <3>3. spent' \in {0, spent, spent + 1}
      BY <1>1 DEF DmaRow, HalfCplt, Cplt, NoInterrupt, Release
    <3>4. QED BY <3>1, <3>2, <3>3 DEF ThreadTypeOK, PcValues
  <2>3. FlagTypeOK'
    BY <1>1, Zenon DEF DmaRow, ctlVars, fileVars, FlagTypeOK
  <2>4. FileTypeOK'
    BY <1>1 DEF DmaRow, ctlVars, fileVars, FileTypeOK
  <2>5. CtlTypeOK'
    <3>1. UNCHANGED <<hdas_sample_flag, handler>>
      BY <1>1, Zenon DEF DmaRow, ctlVars
    <3>2. QED BY <3>1 DEF CtlTypeOK
  <2>6. QED BY <2>1, <2>2, <2>3, <2>4, <2>5
<1>2. CASE SemReset \/ SemTake \/ CheckHalf \/ CheckFull \/ FormatRow
  <2> USE DEF SemReset, SemTake, CheckHalf, CheckFull, FormatRow
  <2>1. DmaTypeOK'
    BY <1>2 DEF dmaVars, DmaTypeOK
  <2>2. ThreadTypeOK'
    <3>1. CASE FormatRow
      BY <3>1 DEF ThreadTypeOK, DmaTypeOK, PcValues
    <3>2. CASE SemReset
      BY <3>2 DEF ThreadTypeOK, PcValues
    <3>3. CASE SemTake
      BY <3>3 DEF ThreadTypeOK, PcValues
    <3>4. CASE CheckHalf
      BY <3>4 DEF ThreadTypeOK, PcValues
    <3>5. CASE CheckFull
      BY <3>5 DEF ThreadTypeOK, PcValues
    <3>6. QED BY <1>2, <3>1, <3>2, <3>3, <3>4, <3>5
  <2>3. FlagTypeOK'
    BY <1>2, Zenon DEF dmaVars, ctlVars, fileVars, FlagTypeOK
  <2>4. FileTypeOK'
    BY <1>2 DEF ctlVars, fileVars, FileTypeOK
  <2>5. CtlTypeOK'
    BY <1>2 DEF ctlVars, CtlTypeOK
  <2>6. QED BY <2>1, <2>2, <2>3, <2>4, <2>5
<1>3. CASE WriteSteps
  <2> USE <1>3 DEF WriteSteps, WriteRefused, WriteBegin, WriteLine, WriteStops, CountWrite
  <2>1. DmaTypeOK'
    BY DEF dmaVars, DmaTypeOK
  <2>2. ThreadTypeOK'
    BY DEF ThreadTypeOK, PcValues
  <2>3. FlagTypeOK'
    BY Zenon DEF dmaVars, ctlVars, fileVars, FlagTypeOK
  <2>4. FileTypeOK'
    <3>1. CASE WriteLine /\ fileOpen
      <4>1. rec' = Append(rec, [file |-> files, at |-> done, conv |-> FsWriteBuf[done]])
            /\ UNCHANGED <<files, first, cut>>
            /\ fileLen' = IF done = 0 THEN fileLen + 1 ELSE fileLen
        BY <3>1, Zenon DEF LineGoesOn
      <4>2. [file |-> files, at |-> done, conv |-> FsWriteBuf[done]] \in Lines
        BY DEF FileTypeOK, ThreadTypeOK, Lines
      <4>3. done' \in Rows
        BY <3>1 DEF FileTypeOK
      <4>4. QED BY <4>1, <4>2, <4>3 DEF FileTypeOK
    <3>2. CASE ~(WriteLine /\ fileOpen)
      <4>1. UNCHANGED <<rec, fileLen, files, first>>
            /\ (cut' = cut \cup {Len(rec)} \/ cut' = cut)
        BY <3>2, Zenon DEF LineGoesOn, fileVars
      <4>2. done' \in Rows
        BY DEF FileTypeOK, fileVars
      <4>3. Len(rec) \in Nat
        BY DEF FileTypeOK
      <4>4. QED BY <4>1, <4>2, <4>3 DEF FileTypeOK
    <3>3. QED BY <3>1, <3>2
  <2>5. CtlTypeOK'
    BY DEF ctlVars, CtlTypeOK
  <2>6. QED BY <2>1, <2>2, <2>3, <2>4, <2>5
<1>4. CASE NextFile \/ LowSpaceStop
  <2> USE <1>4 DEF NextFile, LowSpaceStop
  <2>1. DmaTypeOK'
    BY DEF dmaVars, DmaTypeOK
  <2>2. ThreadTypeOK'
    BY DEF ThreadTypeOK, PcValues
  <2>3. FlagTypeOK'
    BY Zenon DEF dmaVars, ctlVars, FlagTypeOK
  <2>4. FileTypeOK'
    <3>1. UNCHANGED <<done, rec, cut, first>> /\ fileLen' = 0
          /\ (files' = files + 1 \/ files' = files)
      BY Zenon
    <3>2. QED BY <3>1 DEF FileTypeOK
  <2>5. CtlTypeOK'
    BY DEF ctlVars, CtlTypeOK
  <2>6. QED BY <2>1, <2>2, <2>3, <2>4, <2>5
<1>5. CASE Control
  <2> USE <1>5 DEF Control, ShellDecides, SetFlag, OpenFile, StartTimer, StopTimer, CloseFile
  <2>1. DmaTypeOK'
    BY DEF dmaVars, DmaTypeOK
  <2>2. ThreadTypeOK'
    BY DEF threadVars, ThreadTypeOK
  <2>3. FlagTypeOK'
    BY Zenon DEF dmaVars, fileVars, FlagTypeOK
  <2>4. FileTypeOK'
    <3>1. UNCHANGED done
      BY Zenon DEF fileVars
    <3>2. \/ UNCHANGED <<rec, files, fileLen, cut, first>>
          \/ rec' = <<>> /\ files' = 0 /\ fileLen' = 0 /\ cut' = {} /\ first' = sample
      BY Zenon DEF fileVars
    <3>3. CASE UNCHANGED <<rec, files, fileLen, cut, first>>
      BY <3>1, <3>3 DEF FileTypeOK
    <3>4. CASE rec' = <<>> /\ files' = 0 /\ fileLen' = 0 /\ cut' = {} /\ first' = sample
      BY <3>1, <3>4 DEF FileTypeOK, DmaTypeOK
    <3>5. QED BY <3>2, <3>3, <3>4
  <2>5. CtlTypeOK'
    <3>1. hdas_sample_flag' \in {0, 1}
      BY Zenon DEF CtlTypeOK
    <3>2. UNCHANGED handler
          \/ \E h \in Handlers, s \in {"idle", "start", "started", "opened", "stop", "stopped"} :
                handler' = [handler EXCEPT ![h] = s]
      BY Zenon DEF Handlers
    <3>3. QED BY <3>1, <3>2 DEF CtlTypeOK
  <2>6. QED BY <2>1, <2>2, <2>3, <2>4, <2>5
<1>6. CASE UNCHANGED vars
  <2> USE <1>6 DEF vars, dmaVars, threadVars, ctlVars, fileVars
  <2>1. DmaTypeOK' /\ ThreadTypeOK' /\ CtlTypeOK' /\ FileTypeOK'
    BY DEF DmaTypeOK, ThreadTypeOK, CtlTypeOK, FileTypeOK
  <2>2. FlagTypeOK'
    BY Zenon DEF FlagTypeOK
  <2>3. QED BY <2>1, <2>2
<1>7. QED
  BY <1>1, <1>2, <1>3, <1>4, <1>5, <1>6 DEF Next, Storage, WriteSteps

(* The variables keep their types, whatever the speed of the card.         *)
THEOREM TypeCorrect == Spec => []TypeOK
BY TypeInit, TypeStep, PTL DEF Spec

-----------------------------------------------------------------------------
(* Frame lemmas: which variables the groups of actions leave alone.        *)

(* Only the DMA stream moves the position and fills the buffer.            *)
LEMMA OnlyDmaMoves ==
  Storage \/ Control \/ UNCHANGED vars
    => UNCHANGED <<sample, pos, g_sAd7606Buf, DMAdat_flag>>
<1>1. Storage => UNCHANGED <<sample, pos, g_sAd7606Buf, DMAdat_flag>>
  BY Zenon DEF Storage, SemReset, SemTake, CheckHalf, CheckFull, FormatRow, WriteRefused,
               WriteBegin, WriteLine, WriteStops, CountWrite, NextFile, LowSpaceStop, dmaVars
<1>2. Control => UNCHANGED <<sample, pos, g_sAd7606Buf, DMAdat_flag>>
  BY Zenon DEF Control, ShellDecides, SetFlag, OpenFile, StartTimer, StopTimer, CloseFile,
               dmaVars
<1>3. UNCHANGED vars => UNCHANGED <<sample, pos, g_sAd7606Buf, DMAdat_flag>>
  BY Zenon DEF vars, dmaVars
<1>4. QED BY <1>1, <1>2, <1>3

(* The control threads do not touch the state of the storage thread, and   *)
(* leave the recording alone but for closing its file, or begin a new one  *)
(* while the storage thread waits.                                         *)
LEMMA ControlFrame ==
  Control \/ UNCHANGED vars
    => /\ UNCHANGED <<storage_sem, pc, row, FsWriteBuf, spent, signal_file_write_count>>
       /\ UNCHANGED done
       /\ \/ /\ UNCHANGED <<rec, files, fileLen, cut, fileErr>>
             /\ UNCHANGED fileOpen \/ fileOpen' = FALSE
             /\ UNCHANGED first
          \/ /\ rec' = <<>> /\ files' = 0 /\ fileLen' = 0 /\ cut' = {}
             /\ pc = "blocked" /\ first' = sample
BY Zenon DEF Control, ShellDecides, SetFlag, OpenFile, StartTimer, StopTimer, CloseFile,
             vars, threadVars, fileVars

(* The steps of f_write touch nothing but the recording.                   *)
LEMMA WriteFrame ==
  WriteSteps
    => /\ UNCHANGED <<storage_sem, row, FsWriteBuf, spent, files, fileOpen>>
       /\ pc \in {"write", "data", "count"}
       /\ pc' \in {"data", "count", "rollover", "reset"}
       /\ pc' = "data" => pc \in {"write", "data"}
BY Zenon DEF WriteSteps, WriteRefused, WriteBegin, WriteLine, WriteStops, CountWrite,
             ctlVars, fileVars

(* Only f_write, a roll-over and a new session change the recording.       *)
LEMMA OnlyWriteRecords ==
  DmaRow \/ (Storage /\ ~WriteSteps)
    => /\ UNCHANGED <<rec, cut, done, first>>
       /\ ~NextFile /\ ~LowSpaceStop => UNCHANGED <<files, fileOpen, fileErr>>
BY Zenon DEF DmaRow, Storage, WriteSteps, SemReset, SemTake, CheckHalf, CheckFull, FormatRow,
             NextFile, LowSpaceStop, fileVars

-----------------------------------------------------------------------------
(* The circular buffer always holds the last DATA_NUM conversions in the   *)
(* rows where they belong.                                                 *)
LEMMA RingStep ==
  ASSUME TypeOK, RingInv, [Next]_vars
  PROVE  RingInv'
<1>1. CASE DmaRow
  <2>1. /\ g_sAd7606Buf' = [g_sAd7606Buf EXCEPT ![pos] = sample]
        /\ sample' = sample + 1
        /\ pos' = IF pos + 1 = DATA_NUM THEN 0 ELSE pos + 1
    BY <1>1 DEF DmaRow
  <2>0. pos' <= sample'
    BY <2>1 DEF RingInv, TypeOK, DmaTypeOK
  <2> SUFFICES ASSUME NEW r \in Rows
               PROVE  g_sAd7606Buf'[r] = IF r < pos' THEN Base' + r ELSE Base' - DATA_NUM + r
    BY <2>0 DEF RingInv
  <2>2. CASE r = pos
    BY <2>1, <2>2 DEF Base, TypeOK, DmaTypeOK
  <2>3. CASE r # pos
    <3>1. g_sAd7606Buf'[r] = g_sAd7606Buf[r]
      BY <2>1, <2>3 DEF TypeOK, DmaTypeOK
    <3>2. g_sAd7606Buf[r] = IF r < pos THEN Base + r ELSE Base - DATA_NUM + r
      BY DEF RingInv
    <3>3. sample \in Nat /\ pos \in Rows
      BY DEF TypeOK, DmaTypeOK
    <3>4. Base' = IF pos + 1 = DATA_NUM THEN sample + 1 ELSE Base
      BY <2>1, <3>3 DEF Base
    <3>5. CASE pos + 1 = DATA_NUM
      <4>1. r < pos
        BY <2>3, <3>3, <3>5
      <4>2. Base + r = Base' - DATA_NUM + r
        BY <3>3, <3>4, <3>5 DEF Base
      <4>3. pos' = 0
        BY <2>1, <3>5
      <4>4. QED BY <3>1, <3>2, <4>1, <4>2, <4>3
    <3>6. CASE pos + 1 # DATA_NUM
      <4>1. r < pos' <=> r < pos
        BY <2>1, <2>3, <3>3, <3>6
      <4>2. QED BY <3>1, <3>2, <3>4, <3>6, <4>1
    <3>7. QED BY <3>5, <3>6
  <2>4. QED BY <2>2, <2>3
<1>2. CASE Storage \/ Control \/ UNCHANGED vars
  BY <1>2, OnlyDmaMoves DEF RingInv, Base
<1>3. QED
  BY <1>1, <1>2 DEF Next

(* A busy storage thread never sees another interrupt: the rows that       *)
(* arrive during a pass do not reach the next half.                        *)
LEMMA BusyMeansNoInterrupt ==
  ASSUME KeepsUp, TypeOK, PaceInv, DmaRow, pc # "blocked"
  PROVE  /\ NoInterrupt
         /\ pos + 1 < DATA_NUM /\ (pos + 1 < Half <=> pos < Half)
         /\ spent + 1 <= FormatMax + WriteMax
         /\ Checking => spent + 1 <= FormatMax
<1> USE DEF KeepsUp, PaceInv, Checking, TypeOK, DmaTypeOK, ThreadTypeOK, PcValues
<1>1. spent + 1 <= FormatMax + WriteMax /\ (Checking => spent + 1 <= FormatMax)
  BY DEF DmaRow, WithinBudget
<1>2. pos + 1 < DATA_NUM /\ (pos + 1 < Half <=> pos < Half) /\ pos + 1 # Half
  BY <1>1
<1>3. pos + 1 \notin {Half, DATA_NUM}
  BY <1>2
<1>4. NoInterrupt
  BY <1>3, Zenon DEF DmaRow
<1>5. QED BY <1>1, <1>2, <1>4

(* The storage thread keeps pace with the interrupts.                      *)
LEMMA PaceStep ==
  ASSUME KeepsUp, TypeOK, PaceInv, [Next]_vars
  PROVE  PaceInv'
<1> USE DEF KeepsUp, PaceInv, Checking, TypeOK, DmaTypeOK, ThreadTypeOK, PcValues
<1>1. CASE DmaRow
  <2>1. CASE pc = "blocked"
    <3>1. /\ pos' = IF pos + 1 = DATA_NUM THEN 0 ELSE pos + 1
          /\ row' = row
      BY <1>1 DEF DmaRow
    <3>2. CASE pos + 1 = Half /\ HalfCplt
      BY <2>1, <3>1, <3>2 DEF HalfCplt, Release
    <3>3. CASE pos + 1 = DATA_NUM /\ Cplt
      BY <2>1, <3>1, <3>3 DEF Cplt, Release
    <3>4. CASE pos + 1 \notin {Half, DATA_NUM} /\ NoInterrupt
      BY <2>1, <3>1, <3>4 DEF NoInterrupt
    <3>5. QED BY <1>1, <3>2, <3>3, <3>4 DEF DmaRow
  <2>2. CASE pc # "blocked"
    <3>1. /\ NoInterrupt
          /\ pos + 1 < DATA_NUM /\ (pos + 1 < Half <=> pos < Half)
          /\ spent + 1 <= FormatMax + WriteMax
          /\ Checking => spent + 1 <= FormatMax
      BY <1>1, <2>2, BusyMeansNoInterrupt
    <3>2. pos' = pos + 1 /\ row' = row
      BY <1>1, <3>1 DEF DmaRow
    <3>3. spent' = spent + 1 /\ UNCHANGED <<DMAdat_flag, storage_sem, pc>>
      BY <2>2, <3>1 DEF NoInterrupt
    <3>4. QED BY <2>2, <3>1, <3>2, <3>3
  <2>3. QED BY <2>1, <2>2
<1>2. CASE Storage
  <2>1. UNCHANGED <<sample, pos, DMAdat_flag>>
    BY <1>2, OnlyDmaMoves
  <2>2. CASE SemReset
    BY <2>1, <2>2 DEF SemReset
  <2>3. CASE SemTake
    BY <2>1, <2>3 DEF SemTake
  <2>4. CASE CheckHalf
    BY <2>1, <2>4 DEF CheckHalf
  <2>5. CASE CheckFull
    BY <2>1, <2>5 DEF CheckFull
  <2>6. CASE FormatRow
    <3>1. /\ pc = "format" /\ UNCHANGED <<storage_sem, spent>> /\ row' = row + 1
          /\ pc' = IF row + 1 = Half THEN "reset"
                   ELSE IF row + 1 = DATA_NUM THEN "write" ELSE "format"
      BY <2>6 DEF FormatRow
    <3>2. QED BY <2>1, <3>1
  <2>7. CASE WriteSteps \/ NextFile \/ LowSpaceStop
    <3>1. UNCHANGED <<storage_sem, row, spent>> /\ pc \in {"write", "data", "count", "rollover"}
          /\ pc' \in {"data", "count", "rollover", "reset"}
      BY <2>7, WriteFrame, Zenon DEF NextFile, LowSpaceStop
    <3>2. QED BY <2>1, <3>1
  <2>8. QED BY <1>2, <2>2, <2>3, <2>4, <2>5, <2>6, <2>7 DEF Storage, WriteSteps
<1>3. CASE Control \/ UNCHANGED vars
  BY <1>3, ControlFrame, OnlyDmaMoves
<1>4. QED
  BY <1>1, <1>2, <1>3 DEF Next

(* What the passes have formatted is what the ring held.                   *)
LEMMA LinesStep ==
  ASSUME KeepsUp, TypeOK, RingInv, PaceInv, LinesInv, [Next]_vars
  PROVE  LinesInv'
<1> USE DEF KeepsUp, Base, Pending, Checking, Writing, TypeOK, DmaTypeOK, ThreadTypeOK, PcValues
<1>1. CASE DmaRow
  <2>1. /\ sample' = sample + 1
        /\ pos' = IF pos + 1 = DATA_NUM THEN 0 ELSE pos + 1
        /\ UNCHANGED <<row, FsWriteBuf>>
    BY <1>1 DEF DmaRow
  <2>2. CASE pos + 1 = Half /\ HalfCplt /\ pc = "blocked"
    <3>1. pc' = "check0" /\ pos' = Half
      BY <2>1, <2>2 DEF HalfCplt, Release
    <3>2. QED BY <3>1 DEF LinesInv
  <2>3. CASE pos + 1 = DATA_NUM /\ Cplt /\ pc = "blocked"
    <3>1. pc' = "check0" /\ pos' = 0 /\ Base' - DATA_NUM = Base /\ pos >= Half
      BY <2>1, <2>3 DEF Cplt, Release
    <3>2. \A r \in 0 .. Half - 1 : FsWriteBuf[r] = Base + r
      BY <2>3, <3>1 DEF LinesInv
    <3>3. \A r \in 0 .. Half - 1 : FsWriteBuf'[r] = Base' - DATA_NUM + r
      BY <2>1, <3>1, <3>2
    <3>4. QED BY <3>1, <3>3 DEF LinesInv
  <2>4. CASE NoInterrupt /\ pos + 1 \notin {Half, DATA_NUM}
    <3>1. UNCHANGED pc /\ Base' = Base /\ (pos' < Half <=> pos < Half) /\ pos' \in Rows
      BY <2>1, <2>4 DEF NoInterrupt
    <3>2. (Pending' <=> Pending) /\ (pos' >= Half <=> pos >= Half)
      BY <2>1, <3>1
    <3>3. QED BY <2>1, <3>1, <3>2 DEF LinesInv
  <2>5. pc # "blocked" => NoInterrupt /\ pos + 1 \notin {Half, DATA_NUM}
    BY <1>1, BusyMeansNoInterrupt
  <2>6. QED BY <1>1, <2>2, <2>3, <2>4, <2>5 DEF DmaRow
<1>2. CASE Storage
  <2>1. UNCHANGED <<sample, pos, Base>>
    BY <1>2, OnlyDmaMoves
  <2>2. CASE SemReset \/ SemTake
    <3>1. pc \in {"reset", "take"} /\ pc' \in {"take", "blocked"} /\ FsWriteBuf' = FsWriteBuf
      BY <2>2 DEF SemReset, SemTake, PaceInv
    <3>2. QED BY <2>1, <3>1 DEF LinesInv
  <2>3. CASE CheckHalf
    <3>1. FsWriteBuf' = FsWriteBuf /\ pc = "check0"
          /\ IF pos < Half THEN pc' = "check1" ELSE pc' = "format" /\ row' = 0
      BY <2>3 DEF CheckHalf, PaceInv
    <3>2. QED BY <2>1, <3>1 DEF LinesInv
  <2>4. CASE CheckFull
    <3>1. FsWriteBuf' = FsWriteBuf /\ pc = "check1" /\ pos < Half
          /\ pc' = "format" /\ row' = Half
      BY <2>4 DEF CheckFull, PaceInv
    <3>2. QED BY <2>1, <3>1 DEF LinesInv
  <2>5. CASE FormatRow
    <3>1. /\ pc = "format" /\ row \in Rows /\ (row < Half <=> pos >= Half)
          /\ FsWriteBuf' = [FsWriteBuf EXCEPT ![row] = g_sAd7606Buf[row]]
          /\ row' = row + 1
          /\ pc' = IF row + 1 = Half THEN "reset"
                   ELSE IF row + 1 = DATA_NUM THEN "write" ELSE "format"
      BY <2>5 DEF FormatRow, PaceInv
    <3>2. FsWriteBuf'[row] = IF pos >= Half THEN Base + row ELSE Base - DATA_NUM + row
      BY <3>1 DEF RingInv
    <3>3. \A r \in Rows \ {row} : FsWriteBuf'[r] = FsWriteBuf[r]
      BY <3>1
    <3>4. CASE pos >= Half
      <4>1. \A r \in 0 .. row : FsWriteBuf'[r] = Base + r
        <5>1. \A r \in 0 .. row - 1 : FsWriteBuf[r] = Base + r
          BY <3>1, <3>4 DEF LinesInv
        <5>2. \A r \in 0 .. row - 1 : FsWriteBuf'[r] = Base + r
          BY <3>1, <3>3, <5>1
        <5>3. FsWriteBuf'[row] = Base + row
          BY <3>2, <3>4
        <5>4. QED BY <3>1, <5>2, <5>3
      <4>2. row < Half /\ ~Pending' /\ pc' \in {"reset", "format"}
        BY <2>1, <3>1, <3>4
      <4>3. pc' = "reset" => row = Half - 1
        BY <3>1, <4>2
      <4>4. pc' = "reset" => \A r \in 0 .. Half - 1 : FsWriteBuf'[r] = Base + r
        BY <4>1, <4>3
      <4>5. pc' = "format" => \A r \in 0 .. row' - 1 : FsWriteBuf'[r] = Base + r
        <5>1. row' - 1 = row
          BY <3>1
        <5>2. QED BY <4>1, <5>1
      <4>6. pos' >= Half /\ Base' = Base
        BY <2>1, <3>4
      <4>7. QED BY <4>2, <4>4, <4>5, <4>6 DEF LinesInv
    <3>5. CASE pos < Half
      <4>1. \A r \in 0 .. row - 1 : FsWriteBuf[r] = Base - DATA_NUM + r
        BY <3>1, <3>5 DEF LinesInv
      <4>2. \A r \in 0 .. row - 1 : FsWriteBuf'[r] = Base - DATA_NUM + r
        BY <3>1, <3>3, <4>1
      <4>3. \A r \in 0 .. row : FsWriteBuf'[r] = Base - DATA_NUM + r
        <5>1. FsWriteBuf'[row] = Base - DATA_NUM + row
          BY <3>2, <3>5
        <5>2. QED BY <3>1, <4>2, <5>1
      <4>4. pos' < Half /\ row >= Half /\ (pc' = "write" => row = DATA_NUM - 1)
        BY <2>1, <3>1, <3>5
      <4>5. QED BY <2>1, <3>1, <4>3, <4>4 DEF LinesInv
    <3>6. QED BY <3>4, <3>5
  <2>6. CASE NextFile \/ LowSpaceStop
    <3>1. pos < Half /\ pc' = "reset"
      BY <2>6, Zenon DEF NextFile, LowSpaceStop, PaceInv
    <3>2. QED BY <2>1, <3>1 DEF LinesInv
  <2>7. CASE WriteSteps
    <3>1. /\ pos < Half /\ UNCHANGED FsWriteBuf
          /\ pc' \in {"data", "count", "rollover", "reset"}
          /\ pc' = "data" => Writing
      BY <2>7, WriteFrame DEF PaceInv
    <3>2. QED BY <2>1, <3>1 DEF LinesInv
  <2>8. QED BY <1>2, <2>2, <2>3, <2>4, <2>5, <2>6, <2>7 DEF Storage, WriteSteps
<1>3. CASE Control \/ UNCHANGED vars
  BY <1>3, ControlFrame, OnlyDmaMoves DEF LinesInv
<1>4. QED
  BY <1>1, <1>2, <1>3 DEF Next

-----------------------------------------------------------------------------
(* A recording that is not empty has a last line.                          *)
LEMMA LastLine ==
  ASSUME rec \in Seq(Lines), Len(rec) > 0
  PROVE  /\ rec[Len(rec)].file \in Nat
         /\ rec[Len(rec)].at \in Rows
         /\ rec[Len(rec)].conv \in Int
<1> DEFINE last == rec[Len(rec)]
<1>1. last \in Lines
  OBVIOUS
<1> HIDE DEF last
<1>2. last.file \in Nat /\ last.at \in Rows /\ last.conv \in Int
  BY <1>1, Zenon DEF Lines
<1>3. QED BY <1>2 DEF last

(* A pass that ends with f_write appends the lines that were due, from the *)
(* first one on and as far as it gets.                                     *)
LEMMA WriteDue ==
  ASSUME TypeOK, PaceInv, LinesInv, pc = "data"
  PROVE  /\ Due = Base - DATA_NUM + done
         /\ FsWriteBuf[done] = Due
         /\ pos < Half /\ Due \in Int
<1> USE DEF Due, Base, Pending, Writing, TypeOK, DmaTypeOK, ThreadTypeOK, FileTypeOK
<1>1. pos < Half
  BY DEF PaceInv
<1>2. \A r \in 0 .. Half - 1 : FsWriteBuf[r] = Base - DATA_NUM + r
  BY <1>1 DEF LinesInv
<1>3. \A r \in Half .. DATA_NUM - 1 : FsWriteBuf[r] = Base - DATA_NUM + r
  BY DEF LinesInv
<1>4. FsWriteBuf[done] = Base - DATA_NUM + done
  <2>1. CASE done < Half
    BY <1>2, <2>1
  <2>2. CASE done >= Half
    BY <1>3, <2>2
  <2>3. QED BY <2>1, <2>2
<1>5. QED BY <1>1, <1>4

(* The line that goes on the card in a step of f_write.                    *)
LEMMA LineOnCard ==
  ASSUME TypeOK, PaceInv, LinesInv, WriteLine, fileOpen
  PROVE  /\ rec' = Append(rec, [file |-> files, at |-> done, conv |-> Due])
         /\ UNCHANGED <<cut, files, fileOpen, fileErr, sample, pos>>
         /\ pc = "data" /\ done \in Rows /\ Due' = Due + 1
         /\ IF done + 1 = DATA_NUM THEN pc' = "count" /\ done' = 0
                                   ELSE pc' = "data" /\ done' = done + 1
<1>1. pc = "data" /\ done \in Rows /\ pos \in Rows /\ sample \in Nat
  BY DEF WriteLine, TypeOK, FileTypeOK, DmaTypeOK
<1>2. Due = Base - DATA_NUM + done /\ FsWriteBuf[done] = Due /\ pos < Half
  BY <1>1, WriteDue
<1>3. rec' = Append(rec, [file |-> files, at |-> done, conv |-> Due])
      /\ UNCHANGED <<cut, files, fileOpen, fileErr>>
  BY <1>2, Zenon DEF WriteLine, LineGoesOn
<1>4. UNCHANGED <<sample, pos>>
  BY Zenon DEF WriteLine, dmaVars
<1>5. IF done + 1 = DATA_NUM THEN pc' = "count" /\ done' = 0
                             ELSE pc' = "data" /\ done' = done + 1
  BY DEF WriteLine
<1>6. Due' = Due + 1
  BY <1>1, <1>2, <1>4, <1>5 DEF Due, Base, Pending, Checking, Writing
<1>7. QED BY <1>1, <1>3, <1>4, <1>5, <1>6

(* The line that is due changes only when f_write deals with it.           *)
LEMMA DueStep ==
  ASSUME KeepsUp, TypeOK, PaceInv, LinesInv, pc # "data" => done = 0, [Next]_vars
  PROVE  /\ Due \in Int /\ Due' \in Int
         /\ Advances => Due' > Due
         /\ Lasts => Due' = Due
<1> DEFINE due == Due
<1>0. /\ done \in Rows /\ due \in Int /\ pos \in Rows /\ sample \in Nat /\ pc \in PcValues
  BY DEF TypeOK, FileTypeOK, DmaTypeOK, ThreadTypeOK, Due, Base
<1>1. Due' \in Int
  <2>1. pos' \in Rows /\ sample' \in Nat /\ done' \in Rows
    BY TypeStep DEF TypeOK, DmaTypeOK, FileTypeOK
  <2>2. QED BY <2>1 DEF Due, Base
<1>2. ASSUME WriteLine PROVE Due' > Due
  <2>1. pc = "data" /\ UNCHANGED <<sample, pos>>
    BY <1>2, Zenon DEF WriteLine, dmaVars
  <2>2. IF done + 1 = DATA_NUM THEN pc' = "count" /\ done' = 0
                               ELSE pc' = "data" /\ done' = done + 1
    BY <1>2 DEF WriteLine
  <2>3. due = Base - DATA_NUM + done /\ pos < Half
    BY <2>1, WriteDue
  <2>4. QED BY <1>0, <2>1, <2>2, <2>3 DEF Due, Base, Pending, Checking, Writing
<1>3. ASSUME WriteStops PROVE Due' > Due
  <2>1. pc = "data" /\ pc' = "count" /\ UNCHANGED <<sample, pos>> /\ done' = 0
    BY <1>3, Zenon DEF WriteStops, dmaVars
  <2>2. due = Base - DATA_NUM + done /\ pos < Half
    BY <2>1, WriteDue
  <2>3. QED BY <1>0, <2>1, <2>2 DEF Due, Base, Pending, Checking, Writing
<1>4. ASSUME WriteRefused PROVE Due' > Due
  <2>1. pc = "write" /\ pc' = "count" /\ UNCHANGED <<sample, pos, done>>
    BY <1>4, Zenon DEF WriteRefused, dmaVars
  <2>2. done = 0 /\ pos < Half
    BY <2>1 DEF PaceInv
  <2>3. QED BY <1>0, <2>1, <2>2 DEF Due, Base, Pending, Checking, Writing
<1>5. ASSUME WriteBegin \/ CountWrite \/ NextFile \/ LowSpaceStop PROVE Due' = Due
  <2>1. /\ UNCHANGED <<sample, pos, done>>
        /\ \/ pc = "write" /\ pc' = "data"
           \/ pc \in {"count", "rollover"} /\ pc' \in {"rollover", "reset"}
    BY <1>5, Zenon DEF WriteBegin, CountWrite, NextFile, LowSpaceStop, dmaVars, fileVars
  <2>2. done = 0 /\ pos < Half
    BY <2>1 DEF PaceInv
  <2>3. QED BY <1>0, <2>1, <2>2 DEF Due, Base, Pending, Checking, Writing
<1>6. ASSUME DmaRow PROVE Due' = Due
  <2>1. done' = done /\ sample' = sample + 1
        /\ pos' = IF pos + 1 = DATA_NUM THEN 0 ELSE pos + 1
    BY <1>6, Zenon DEF DmaRow, fileVars
  <2>2. CASE pc = "blocked"
    <3>1. done = 0 /\ due = Base
      BY <2>2 DEF Due, Pending, Checking, Writing
    <3>2. CASE pos + 1 = DATA_NUM
      <4>1. pc' = "check0"
        BY <1>6, <2>2, <3>2 DEF DmaRow, HalfCplt, Cplt, NoInterrupt, Release
      <4>2. Due' = Base' - DATA_NUM + 0 /\ Base' = Base + DATA_NUM
        BY <1>0, <2>1, <3>1, <3>2, <4>1 DEF Due, Base, Pending, Checking, Writing
      <4>3. QED BY <1>0, <3>1, <4>2 DEF Base
    <3>3. CASE pos + 1 # DATA_NUM
      <4>1. pos' >= Half \/ pc' = "blocked"
        BY <1>0, <1>6, <2>1, <2>2, <3>3 DEF DmaRow, HalfCplt, NoInterrupt, Release
      <4>2. QED BY <1>0, <2>1, <3>1, <3>3, <4>1 DEF Due, Base, Pending, Checking, Writing
    <3>4. QED BY <3>2, <3>3
  <2>3. CASE pc # "blocked"
    <3>1. NoInterrupt /\ pos + 1 < DATA_NUM /\ (pos + 1 < Half <=> pos < Half)
      BY <1>6, <2>3, BusyMeansNoInterrupt
    <3>2. pc' = pc /\ pos' = pos + 1 /\ Base' = Base
      BY <1>0, <2>1, <3>1 DEF NoInterrupt, Base
    <3>3. QED BY <2>1, <3>1, <3>2 DEF Due, Pending, Checking, Writing
  <2>4. QED BY <2>2, <2>3
<1>7. ASSUME SemReset \/ SemTake \/ CheckHalf \/ CheckFull \/ FormatRow PROVE Due' = Due
  <2>1. UNCHANGED <<sample, pos, done>>
    BY <1>7, Zenon DEF SemReset, SemTake, CheckHalf, CheckFull, FormatRow, dmaVars, fileVars
  <2>2. CASE SemReset \/ SemTake
    <3>1. pc \in {"reset", "take"} /\ pc' \in {"take", "blocked", "check0"}
          /\ (pc' = "check0" => storage_sem > 0)
      BY <2>2 DEF SemReset, SemTake
    <3>2. pc' # "check0"
      BY <3>1 DEF PaceInv
    <3>3. QED BY <2>1, <3>1, <3>2 DEF Due, Base, Pending, Checking, Writing
  <2>3. CASE CheckHalf \/ CheckFull
    <3>1. pc \in {"check0", "check1"} /\ pc' \in {"check1", "format"}
      BY <2>3 DEF CheckHalf, CheckFull, PaceInv
    <3>2. QED BY <2>1, <3>1 DEF Due, Base, Pending, Checking, Writing
  <2>4. CASE FormatRow
    <3>1. pc = "format" /\ (row < Half <=> pos >= Half)
          /\ pc' = IF row + 1 = Half THEN "reset"
                   ELSE IF row + 1 = DATA_NUM THEN "write" ELSE "format"
      BY <2>4 DEF FormatRow, PaceInv
    <3>2. pos < Half => pc' \in {"write", "format"}
      BY <1>0, <3>1 DEF TypeOK, ThreadTypeOK
    <3>3. QED BY <2>1, <3>1, <3>2 DEF Due, Base, Pending, Checking, Writing
  <2>5. QED BY <1>7, <2>2, <2>3, <2>4
<1>8. ASSUME Control \/ UNCHANGED vars PROVE Due' = Due
  <2>1. UNCHANGED <<sample, pos, pc, done>>
    BY <1>8, ControlFrame, OnlyDmaMoves, Zenon
  <2>2. QED BY <2>1 DEF Due, Base, Pending, Checking, Writing
<1>9. Advances => Due' > Due
  BY <1>2, <1>3, <1>4 DEF Advances
<1>10. Lasts => Due' = Due
  BY <1>5, <1>6, <1>7, <1>8, Zenon DEF Lasts
<1>11. QED BY <1>0, <1>1, <1>9, <1>10

(* What is on the card stays whole, complete and in step with what is due. *)
LEMMA CardStep ==
  ASSUME KeepsUp, TypeOK, PaceInv, LinesInv, CardInv, [Next]_vars
  PROVE  CardInv'
<1> USE DEF KeepsUp
<1> DEFINE last == rec[Len(rec)]
           due == Due
<1>0. /\ rec \in Seq(Lines) /\ cut \in SUBSET Nat /\ Len(rec) \in Nat
      /\ done \in Rows /\ files \in Nat /\ due \in Int
      /\ pos \in Rows /\ sample \in Nat /\ pc \in PcValues
  BY DEF TypeOK, FileTypeOK, DmaTypeOK, ThreadTypeOK, Due, Base
<1>d. Due' \in Int /\ (Advances => Due' > due) /\ (Lasts => Due' = due)
  BY DueStep DEF CardInv, FrontInv
<1>l. Len(rec) > 0 => last.file \in Nat /\ last.at \in Rows /\ last.conv \in Int
  BY <1>0, LastLine
<1>1. CASE WriteLine /\ fileOpen
  <2> DEFINE line == [file |-> files, at |-> done, conv |-> due]
  <2>1. /\ rec' = Append(rec, line) /\ cut' = cut /\ files' = files
        /\ pc = "data" /\ Due' = due + 1
        /\ IF done + 1 = DATA_NUM THEN pc' = "count" /\ done' = 0
                                  ELSE pc' = "data" /\ done' = done + 1
    BY <1>1, LineOnCard
  <2>2. /\ Len(rec') = Len(rec) + 1
        /\ rec'[Len(rec) + 1] = line
        /\ \A i \in 1 .. Len(rec) : rec'[i] = rec[i]
    BY <1>0, <2>1
  <2>3. line.file = files /\ line.at = done /\ line.conv = due
    OBVIOUS
  <2>4. \A c \in cut : c \in Nat /\ c <= Len(rec)
    BY <1>0 DEF CardInv, EndInv
  <2>5. Len(rec) > 0 =>
          IF Len(rec) \in cut
          THEN done = 0 /\ (last.at = DATA_NUM - 1 \/ last.file # files)
          ELSE due = last.conv + 1
    <3>1. Len(rec) > 0 /\ Len(rec) \in cut => done = 0
      BY <1>0, <1>1, <2>1 DEF CardInv, FrontInv
    <3>2. Len(rec) > 0 /\ last.file = files /\ last.at # DATA_NUM - 1 => done > 0
      BY <1>0, <1>1, <2>1 DEF CardInv, FrontInv
    <3>3. Len(rec) > 0 /\ Len(rec) \notin cut => due = last.conv + 1
      BY DEF CardInv, EndInv
    <3>4. QED BY <1>0, <3>1, <3>2, <3>3
  <2> HIDE DEF line, last, due
  <2>6. WholeLines'
    <3> SUFFICES ASSUME NEW i \in 1 .. Len(rec') - 1
                 PROVE  \/ rec'[i + 1].conv = rec'[i].conv + 1
                        \/ /\ rec'[i + 1].at = 0
                           /\ rec'[i].at = DATA_NUM - 1 \/ rec'[i].file # rec'[i + 1].file
      BY DEF WholeLines
    <3>1. CASE i = Len(rec)
      <4>1. rec'[i] = last /\ rec'[i + 1] = line /\ Len(rec) > 0
        BY <1>0, <2>2, <3>1 DEF last
      <4>2. QED BY <2>3, <2>5, <4>1
    <3>2. CASE i # Len(rec)
      <4>1. i \in 1 .. Len(rec) - 1 /\ i + 1 \in 1 .. Len(rec) /\ i \in 1 .. Len(rec)
        BY <1>0, <2>2, <3>2
      <4>2. rec'[i] = rec[i] /\ rec'[i + 1] = rec[i + 1]
        BY <2>2, <4>1
      <4>3. QED BY <4>1, <4>2 DEF WholeLines, CardInv
    <3>3. QED BY <3>1, <3>2
  <2>7. NoGap'
    <3> SUFFICES ASSUME NEW i \in 1 .. Len(rec') - 1, i \notin cut'
                 PROVE  rec'[i + 1].conv = rec'[i].conv + 1
      BY DEF NoGap
    <3>1. CASE i = Len(rec)
      <4>1. rec'[i] = last /\ rec'[i + 1] = line /\ Len(rec) > 0
        BY <1>0, <2>2, <3>1 DEF last
      <4>2. QED BY <2>1, <2>3, <2>5, <3>1, <4>1
    <3>2. CASE i # Len(rec)
      <4>1. i \in 1 .. Len(rec) - 1 /\ i + 1 \in 1 .. Len(rec) /\ i \in 1 .. Len(rec)
        BY <1>0, <2>2, <3>2
      <4>2. rec'[i] = rec[i] /\ rec'[i + 1] = rec[i + 1]
        BY <2>2, <4>1
      <4>3. QED BY <2>1, <4>1, <4>2 DEF NoGap, CardInv
    <3>3. QED BY <3>1, <3>2
  <2>8. rec'[Len(rec')] = line /\ Len(rec') > 0 /\ Len(rec') \notin cut'
    BY <1>0, <2>1, <2>2, <2>4
  <2>9. EndInv'
    <3>1. \A c \in cut' : c <= Len(rec')
      BY <1>0, <2>1, <2>2, <2>4
    <3>2. line.conv + 1 = Due'
      BY <1>0, <2>1, <2>3
    <3>3. QED BY <2>8, <3>1, <3>2 DEF EndInv
  <2>10. FrontInv'
    <3>1. CASE done + 1 = DATA_NUM
      <4>1. line.at = DATA_NUM - 1 /\ line.file = files' /\ pc' = "count" /\ done' = 0
        BY <1>0, <2>1, <2>3, <3>1
      <4>2. QED BY <1>0, <2>1, <2>8, <4>1 DEF FrontInv
    <3>2. CASE done + 1 # DATA_NUM
      <4>1. line.at = done' - 1 /\ line.file = files' /\ pc' = "data" /\ done' > 0
        BY <1>0, <2>1, <2>3, <3>2
      <4>2. QED BY <1>0, <2>1, <2>8, <4>1 DEF FrontInv
    <3>3. QED BY <3>1, <3>2
  <2>11. QED BY <2>6, <2>7, <2>9, <2>10 DEF CardInv
<1>2. ASSUME rec' = rec, files' = files,
             cut' = cut \cup {Len(rec)}, Due' > due,
             pc' # "data" => done' = 0,
             pc' = "data" => pc = "data" /\ done' > 0 /\ ~fileOpen',
             ~fileOpen' \/ fileErr' \/ (fileOpen' = fileOpen /\ fileErr' = fileErr /\ pc # "data")
      PROVE  CardInv'
  <2> HIDE DEF last, due
  <2>1. WholeLines'
    BY <1>2 DEF WholeLines, CardInv
  <2>2. NoGap'
    BY <1>2 DEF NoGap, CardInv
  <2>3. EndInv'
    <3>1. \A c \in cut : c \in Nat /\ c <= Len(rec)
      BY <1>0 DEF CardInv, EndInv
    <3>2. \A c \in cut' : c <= Len(rec')
      BY <1>0, <1>2, <3>1
    <3>3. Len(rec) > 0 => last.conv + 1 <= due
      BY <1>0, <1>l DEF CardInv, EndInv, last, due
    <3>4. Len(rec) > 0 => last.conv + 1 < Due'
      BY <1>0, <1>d, <1>l, <1>2, <3>3
    <3>5. QED BY <1>2, <3>2, <3>4 DEF EndInv, last
  <2>4. FrontInv'
    <3>1. Len(rec) > 0 => last.file <= files'
      BY <1>2 DEF CardInv, FrontInv, last
    <3>2. Len(rec') \in cut'
      BY <1>2
    <3>3. Len(rec) > 0 /\ last.file = files' /\ last.at # DATA_NUM - 1
            => \/ ~fileOpen' \/ (pc' # "data" /\ fileErr') \/ (pc' = "data" /\ done' > 0)
      <4>1. CASE ~fileOpen' \/ fileErr'
        BY <1>2, <4>1, Zenon
      <4>2. CASE fileOpen' = fileOpen /\ fileErr' = fileErr /\ pc # "data"
        <5>1. Len(rec) > 0 /\ last.file = files /\ last.at # DATA_NUM - 1
                => ~fileOpen \/ fileErr
          BY <4>2, Zenon DEF CardInv, FrontInv, last
        <5>2. files' = files /\ pc' # "data"
          BY <1>2, <4>2, Zenon
        <5>3. QED BY <4>2, <5>1, <5>2, Zenon
      <4>3. QED BY <1>2, <4>1, <4>2, Zenon
    <3>4. QED BY <1>2, <3>1, <3>2, <3>3, Zenon DEF FrontInv, last
  <2>5. QED BY <2>1, <2>2, <2>3, <2>4 DEF CardInv
<1>3. CASE WriteLine /\ ~fileOpen
  <2>1. /\ pc = "data" /\ UNCHANGED <<sample, pos, rec, files, fileOpen>>
        /\ cut' = cut \cup {Len(rec)}
    BY <1>3, Zenon DEF WriteLine, LineGoesOn, dmaVars
  <2>2. IF done + 1 = DATA_NUM THEN pc' = "count" /\ done' = 0
                               ELSE pc' = "data" /\ done' = done + 1
    BY <1>3 DEF WriteLine
  <2>3. Due' > due
    BY <1>3, <1>d DEF Advances
  <2>4. (pc' # "data" => done' = 0) /\ (pc' = "data" => done' > 0)
    BY <1>0, <2>2
  <2>5. ~fileOpen'
    BY <1>3, <2>1, Zenon
  <2> HIDE DEF due
  <2>6. QED BY <1>2, <2>1, <2>3, <2>4, <2>5
<1>4. CASE WriteStops
  <2>1. /\ pc = "data" /\ pc' = "count" /\ UNCHANGED <<rec, files>>
        /\ cut' = cut \cup {Len(rec)} /\ fileErr' = TRUE /\ done' = 0
    BY <1>4, Zenon DEF WriteStops
  <2>2. Due' > due
    BY <1>4, <1>d DEF Advances
  <2> HIDE DEF due
  <2>3. QED BY <1>2, <2>1, <2>2
<1>5. CASE WriteRefused
  <2>1. /\ pc = "write" /\ pc' = "count" /\ UNCHANGED <<done, rec, files>>
        /\ UNCHANGED <<fileOpen, fileErr>> /\ cut' = cut \cup {Len(rec)}
    BY <1>5, Zenon DEF WriteRefused
  <2>2. done = 0
    BY <2>1 DEF CardInv, FrontInv
  <2>3. Due' > due
    BY <1>5, <1>d DEF Advances
  <2> HIDE DEF due
  <2>4. QED BY <1>2, <2>1, <2>2, <2>3
<1>6. ASSUME UNCHANGED <<rec, cut, done>>, Due' = due, files' >= files,
             pc' = "data" => pc = "data" \/ (fileOpen /\ ~fileErr),
             pc' # "data" => done = 0,
             pc = "data" => pc' = "data",
             files' > files \/ ~fileOpen' \/ UNCHANGED <<fileOpen, fileErr>>,
             files' > files => files' \in Nat /\ pc' # "data" /\ pc # "data",
             fileOpen' => fileOpen \/ files' > files
      PROVE  CardInv'
  <2> HIDE DEF last, due
  <2>1. WholeLines' /\ NoGap'
    BY <1>6 DEF WholeLines, NoGap, CardInv
  <2>2. EndInv'
    BY <1>6 DEF EndInv, CardInv, due
  <2>3. FrontInv'
    <3>1. Len(rec) > 0 => last.file <= files'
      <4>1. Len(rec) > 0 => last.file <= files
        BY DEF CardInv, FrontInv, last
      <4>2. files' \in Nat
        BY <1>0, TypeStep DEF TypeOK, FileTypeOK
      <4>3. QED BY <1>0, <1>l, <1>6, <4>1, <4>2
    <3>2. pc # "data" => done = 0
      BY DEF CardInv, FrontInv
    <3>3. pc' = "data" /\ fileOpen' /\ done' > 0
            => /\ Len(rec) > 0 /\ Len(rec) \notin cut
               /\ last.file = files' /\ last.at = done - 1
      <4> SUFFICES ASSUME pc' = "data", fileOpen', done' > 0
                   PROVE  /\ Len(rec) > 0 /\ Len(rec) \notin cut
                          /\ last.file = files' /\ last.at = done - 1
        OBVIOUS
      <4>1. pc = "data"
        BY <1>0, <1>6, <3>2
      <4>2. fileOpen /\ files' = files
        <5>1. ~(files' > files)
          BY <1>6, <4>1, Zenon
        <5>2. files' \in Nat
          BY <1>0, TypeStep DEF TypeOK, FileTypeOK
        <5>3. files' = files
          BY <1>0, <1>6, <5>1, <5>2
        <5>4. QED BY <1>6, <5>1, <5>3, Zenon
      <4>3. done > 0
        BY <1>6
      <4>4. QED BY <4>1, <4>2, <4>3 DEF CardInv, FrontInv, last
    <3>4. Len(rec) > 0 /\ Len(rec) \notin cut /\ last.at # DATA_NUM - 1
            => pc' = "data" /\ last.at = done - 1
      BY <1>6, Zenon DEF CardInv, FrontInv, last
    <3>5. Len(rec) > 0 /\ last.file = files' /\ last.at # DATA_NUM - 1
            => \/ ~fileOpen'
               \/ pc' # "data" /\ fileErr'
               \/ pc' = "data" /\ done > 0
      <4> SUFFICES ASSUME Len(rec) > 0, last.file = files', last.at # DATA_NUM - 1, fileOpen'
                   PROVE  \/ pc' # "data" /\ fileErr'
                          \/ pc' = "data" /\ done > 0
        OBVIOUS
      <4>1. ~(files' > files)
        <5>1. last.file <= files
          BY DEF CardInv, FrontInv, last
        <5>2. QED BY <1>0, <1>l, <5>1
      <4>2. files' = files
        <5>1. files' \in Nat
          BY <1>0, TypeStep DEF TypeOK, FileTypeOK
        <5>2. QED BY <1>0, <1>6, <4>1, <5>1
      <4>3. UNCHANGED <<fileOpen, fileErr>>
        BY <1>6, <4>1, Zenon
      <4>4. fileOpen
        BY <4>3, Zenon
      <4>5. (pc # "data" /\ fileErr) \/ (pc = "data" /\ done > 0)
        BY <4>2, <4>4, Zenon DEF CardInv, FrontInv, last
      <4>6. CASE pc = "data" /\ done > 0
        BY <1>6, <4>6, Zenon
      <4>7. CASE pc # "data" /\ fileErr
        BY <1>6, <4>3, <4>7, Zenon
      <4>8. QED BY <4>5, <4>6, <4>7, Zenon
    <3>6. QED BY <1>6, <3>1, <3>3, <3>4, <3>5, Zenon DEF FrontInv, last
  <2>4. QED BY <2>1, <2>2, <2>3 DEF CardInv
<1>7. CASE WriteBegin \/ CountWrite
  <2>1. /\ UNCHANGED <<rec, cut, done, files, fileOpen, fileErr>>
        /\ \/ pc = "write" /\ pc' = "data" /\ fileOpen /\ ~fileErr
           \/ pc = "count" /\ pc' \in {"rollover", "reset"}
    BY <1>7, Zenon DEF WriteBegin, CountWrite, fileVars
  <2>2. done = 0
    BY <2>1 DEF CardInv, FrontInv
  <2>3. Due' = due
    BY <1>7, <1>d, Zenon DEF Lasts
  <2>4. pc' = "data" => pc = "data" \/ (fileOpen /\ ~fileErr)
    BY <2>1, Zenon
  <2>5. files' = files /\ files' >= files /\ ~(files' > files)
    BY <1>0, <2>1
  <2>6. pc # "data"
    BY <2>1
  <2>7. fileOpen' => fileOpen
    BY <2>1, Zenon
  <2> HIDE DEF due
  <2>8. QED BY <1>6, <2>1, <2>2, <2>3, <2>4, <2>5, <2>6, <2>7, Zenon
<1>8. CASE NextFile \/ LowSpaceStop
  <2>1. /\ UNCHANGED <<rec, cut, done>> /\ pc = "rollover" /\ pc' = "reset"
        /\ \/ files' = files + 1
           \/ files' = files /\ fileOpen' = FALSE
    BY <1>8, Zenon DEF NextFile, LowSpaceStop
  <2>2. done = 0
    BY <2>1 DEF CardInv, FrontInv
  <2>3. Due' = due
    BY <1>8, <1>d, Zenon DEF Lasts
  <2>4. files' >= files /\ files' \in Nat /\ (files' = files + 1 => files' > files)
    BY <1>0, <2>1
  <2>5. (fileOpen' => fileOpen \/ files' > files) /\ (files' > files \/ ~fileOpen')
    BY <2>1, <2>4, Zenon
  <2>6. pc # "data" /\ pc' # "data"
    BY <2>1
  <2> HIDE DEF due
  <2>7. QED BY <1>6, <2>1, <2>2, <2>3, <2>4, <2>5, <2>6, Zenon
<1>9. ASSUME UNCHANGED <<rec, cut, done, files, fileOpen, fileErr>>, Due' = due,
             pc' = "data" <=> pc = "data"
      PROVE  CardInv'
  <2>1. files' >= files /\ ~(files' > files)
    BY <1>0, <1>9
  <2>2. pc # "data" => done = 0
    BY DEF CardInv, FrontInv
  <2>3. fileOpen' => fileOpen
    BY <1>9, Zenon
  <2> HIDE DEF due
  <2>4. QED BY <1>6, <1>9, <2>1, <2>2, <2>3, Zenon
<1>10. CASE DmaRow \/ SemReset \/ SemTake \/ CheckHalf \/ CheckFull \/ FormatRow
  <2>1. UNCHANGED <<rec, cut, done, files, fileOpen, fileErr>>
    BY <1>10, Zenon DEF DmaRow, SemReset, SemTake, CheckHalf, CheckFull, FormatRow, fileVars
  <2>2. pc' = "data" <=> pc = "data"
    BY <1>10 DEF DmaRow, HalfCplt, Cplt, NoInterrupt, Release,
                 SemReset, SemTake, CheckHalf, CheckFull, FormatRow
  <2>3. Due' = due
    BY <1>10, <1>d, Zenon DEF Lasts
  <2> HIDE DEF due
  <2>4. QED BY <1>9, <2>1, <2>2, <2>3
<1>11. CASE Control \/ UNCHANGED vars
  <2>1. UNCHANGED <<pc, done>>
    BY <1>11, ControlFrame, Zenon
  <2>2. Due' = due
    BY <1>11, <1>d, Zenon DEF Lasts
  <2>3. pc # "data" => done = 0
    BY DEF CardInv, FrontInv
  <2>4. CASE UNCHANGED <<rec, files, cut, fileErr>> /\ (UNCHANGED fileOpen \/ fileOpen' = FALSE)
    <3>1. files' >= files /\ ~(files' > files)
      BY <1>0, <2>4
    <3>2. (~fileOpen' \/ UNCHANGED <<fileOpen, fileErr>>) /\ (fileOpen' => fileOpen)
      <4>1. CASE fileOpen' = FALSE
        BY <4>1, Zenon
      <4>2. CASE UNCHANGED fileOpen
        BY <2>4, <4>2, Zenon
      <4>3. QED BY <2>4, <4>1, <4>2, Zenon
    <3> HIDE DEF due
    <3>3. QED BY <1>6, <2>1, <2>2, <2>3, <2>4, <3>1, <3>2, Zenon
  <2>5. CASE rec' = <<>> /\ files' = 0 /\ cut' = {} /\ pc = "blocked"
    BY <2>1, <2>3, <2>5 DEF CardInv, WholeLines, NoGap, EndInv, FrontInv
  <2>6. QED BY <1>11, <2>4, <2>5, ControlFrame, Zenon
<1>12. QED
  BY <1>1, <1>3, <1>4, <1>5, <1>7, <1>8, <1>10, <1>11 DEF Next, Storage

(* A session's first line is the one that was due when it began, or a      *)
(* later one if a write failed.                                            *)
LEMMA HeadStep ==
  ASSUME KeepsUp, TypeOK, RingInv, PaceInv, LinesInv, CardInv, HeadInv, [Next]_vars
  PROVE  HeadInv'
<1>0. /\ rec \in Seq(Lines) /\ cut \in SUBSET Nat /\ Len(rec) \in Nat /\ first \in Nat
      /\ pos \in Rows /\ sample \in Nat /\ Due \in Int
  BY DEF TypeOK, FileTypeOK, DmaTypeOK, Due, Base
<1>1. Due' \in Int /\ (Advances => Due' > Due) /\ (Lasts => Due' = Due)
  BY DueStep DEF CardInv, FrontInv
<1>2. CASE WriteLine /\ fileOpen
  <2> DEFINE line == [file |-> files, at |-> done, conv |-> Due]
  <2>1. rec' = Append(rec, line) /\ UNCHANGED <<cut, first>> /\ pc = "data" /\ done \in Rows
    BY <1>2, LineOnCard, Zenon DEF WriteLine
  <2>2. line.at = done /\ line.conv = Due
    OBVIOUS
  <2> HIDE DEF line
  <2>3. CASE rec = <<>>
    <3>1. done = 0
      BY <1>2, <2>1, <2>3 DEF CardInv, FrontInv
    <3>2. rec' # <<>> /\ rec'[1] = line
      BY <2>1, <2>3
    <3>3. QED BY <2>1, <2>2, <2>3, <3>1, <3>2 DEF HeadInv
  <2>4. CASE rec # <<>>
    <3>1. rec' # <<>> /\ rec'[1] = rec[1]
      BY <1>0, <2>1, <2>4
    <3>2. QED BY <2>1, <2>4, <3>1 DEF HeadInv
  <2>5. QED BY <2>3, <2>4
<1>3. CASE (WriteLine /\ ~fileOpen) \/ WriteStops \/ WriteRefused
  <2>1. UNCHANGED <<rec, first>> /\ cut' = cut \cup {Len(rec)}
    BY <1>3, Zenon DEF WriteLine, LineGoesOn, WriteStops, WriteRefused
  <2>2. Due' > Due
    BY <1>1, <1>3 DEF Advances
  <2>3. CASE rec = <<>>
    <3>1. 0 \in cut'
      BY <2>1, <2>3
    <3>2. Due + DATA_NUM > first
      BY <2>3 DEF HeadInv
    <3>3. first' = first
      BY <2>1, Zenon
    <3>4. Due' + DATA_NUM > first'
      <4>1. Due \in Int /\ Due' \in Int /\ first \in Nat /\ DATA_NUM \in Nat
        BY <1>0, <1>1
      <4> DEFINE now == Due
                 next == Due'
      <4>2. now \in Int /\ next \in Int /\ next > now /\ now + DATA_NUM > first
        BY <2>2, <3>2, <4>1
      <4> HIDE DEF now, next
      <4>3. next + DATA_NUM > first
        BY <4>1, <4>2
      <4>4. QED BY <3>3, <4>3 DEF next
    <3>5. QED BY <2>1, <2>3, <3>1, <3>4 DEF HeadInv
  <2>4. CASE rec # <<>>
    <3>1. 0 \in cut' => 0 \in cut
      BY <1>0, <2>1, <2>4
    <3>2. 0 \in cut => 0 \in cut'
      BY <2>1
    <3>3. QED BY <2>1, <2>4, <3>1, <3>2 DEF HeadInv
  <2>5. QED BY <2>3, <2>4
<1>4. ASSUME UNCHANGED <<rec, cut, first>>, Due' = Due
      PROVE  HeadInv'
  BY <1>4 DEF HeadInv
<1>5. CASE \/ DmaRow \/ SemReset \/ SemTake \/ CheckHalf \/ CheckFull \/ FormatRow
           \/ WriteBegin \/ CountWrite \/ NextFile \/ LowSpaceStop
  <2>1. UNCHANGED <<rec, cut, first>>
    BY <1>5, Zenon DEF DmaRow, SemReset, SemTake, CheckHalf, CheckFull, FormatRow,
                       WriteBegin, CountWrite, NextFile, LowSpaceStop, fileVars
  <2>2. Due' = Due
    BY <1>1, <1>5, Zenon DEF Lasts
  <2>3. QED BY <1>4, <2>1, <2>2
<1>6. CASE Control \/ UNCHANGED vars
  <2>1. Due' = Due
    BY <1>1, <1>6, Zenon DEF Lasts
  <2>2. CASE rec' = <<>> /\ cut' = {} /\ pc = "blocked" /\ first' = sample
    <3>1. Due = Base
      BY <2>2 DEF Due, Pending, Checking, Writing
    <3>2. Due + DATA_NUM > sample /\ Due <= sample
      BY <1>0, <3>1 DEF Base
    <3>3. QED BY <2>1, <2>2, <3>2 DEF HeadInv
  <2>3. QED BY <1>4, <1>6, <2>1, <2>2, ControlFrame, Zenon
<1>7. QED
  BY <1>2, <1>3, <1>5, <1>6 DEF Next, Storage

-----------------------------------------------------------------------------
(* The invariant holds at power on: the DMA position is 0 and the storage  *)
(* thread is about to wait.                                                *)
LEMMA InitInv == Init => IInv
<1> SUFFICES ASSUME Init PROVE IInv
  OBVIOUS
<1>1. TypeOK
  BY TypeInit
<1>2. RingInv
  BY DEF Init, RingInv, Base
<1>3. PaceInv
  BY DEF Init, PaceInv, Checking
<1>4. LinesInv
  BY DEF Init, LinesInv, Pending, Checking, Writing
<1>5. CardInv
  BY DEF Init, CardInv, WholeLines, NoGap, EndInv, FrontInv
<1>6. HeadInv
  BY DEF Init, HeadInv, Due, Base, Pending, Checking, Writing
<1>7. QED
  BY <1>1, <1>2, <1>3, <1>4, <1>5, <1>6 DEF IInv

(* Under KeepsUp the invariant is inductive.                               *)
THEOREM Invariance ==
  ASSUME KeepsUp
  PROVE  Spec => []IInv
<1>1. IInv /\ [Next]_vars => IInv'
  BY TypeStep, RingStep, PaceStep, LinesStep, CardStep, HeadStep DEF IInv
<1>2. QED
  BY <1>1, InitInv, PTL DEF Spec

(* Whatever cuts an f_write short (an error, a full card, a close by       *)
(* key2_thread inside it), a thread that keeps up leaves no torn or stale  *)
(* line: within a file only whole buffers are missing, the front of a      *)
(* buffer is the last thing in its file, and less than one lap of what a   *)
(* session records is older than the session.                              *)
THEOREM WholeBuffers ==
  ASSUME KeepsUp
  PROVE  Spec => []NoTornBuffer
<1>1. IInv => NoTornBuffer
  BY DEF IInv, CardInv, HeadInv, NoTornBuffer
<1>2. QED
  BY <1>1, Invariance, PTL

(* It loses no line either: there is no gap, before the first line or      *)
(* after it, and no repetition that an f_write which did not finish does   *)
(* not account for.                                                        *)
THEOREM Lossless ==
  ASSUME KeepsUp
  PROVE  Spec => []NoLostBuffer
<1>1. IInv => NoLostBuffer
  BY DEF IInv, CardInv, HeadInv, NoLostBuffer
<1>2. QED
  BY <1>1, Invariance, PTL

(* Whenever the storage thread waits, every buffer that was completed in   *)
(* the session is on the card, unless an f_write did not finish.           *)
THEOREM StoredInTime ==
  ASSUME KeepsUp
  PROVE  Spec => []CompletedIsStored
<1>1. IInv => CompletedIsStored
  <2> SUFFICES ASSUME IInv, pc = "blocked", sample - pos > first, Len(rec) \notin cut
               PROVE  rec # <<>> /\ rec[Len(rec)].conv = sample - pos - 1
    BY DEF CompletedIsStored
  <2>1. Due = sample - pos
    BY DEF Due, Base, Pending, Checking, Writing
  <2>2. rec \in Seq(Lines) /\ Len(rec) \in Nat /\ first \in Nat /\ pos \in Rows /\ sample \in Nat
    BY DEF IInv, TypeOK, FileTypeOK, DmaTypeOK
  <2>3. rec # <<>>
    BY <2>1, <2>2 DEF IInv, HeadInv
  <2>4. Len(rec) > 0 /\ rec[Len(rec)].conv \in Int
    <3>1. Len(rec) > 0
      BY <2>2, <2>3
    <3>2. QED BY <2>2, <3>1, LastLine
  <2>5. rec[Len(rec)].conv + 1 = Due
    BY <2>4 DEF IInv, CardInv, EndInv
  <2>6. QED BY <2>1, <2>2, <2>3, <2>4, <2>5
<1>2. QED
  BY <1>1, Invariance, PTL

(* The DMA stream does not overwrite rows that are still to be formatted.  *)
THEOREM NeverOverrun ==
  ASSUME KeepsUp
  PROVE  Spec => NoOverrun
<1> DEFINE Keeps == pc = "format" =>
             \A r \in row .. (IF row < Half THEN Half ELSE DATA_NUM) - 1 :
               g_sAd7606Buf'[r] = g_sAd7606Buf[r]
<1>1. IInv /\ [Next]_vars => [Keeps]_vars
  <2> SUFFICES ASSUME IInv, Next, pc = "format",
                      NEW r \in row .. (IF row < Half THEN Half ELSE DATA_NUM) - 1
               PROVE  g_sAd7606Buf'[r] = g_sAd7606Buf[r]
    OBVIOUS
  <2>1. CASE DmaRow
    <3>1. r # pos
      BY DEF IInv, PaceInv, TypeOK, DmaTypeOK, ThreadTypeOK
    <3>2. QED BY <2>1, <3>1 DEF DmaRow, IInv, TypeOK, DmaTypeOK
  <2>2. CASE Storage \/ Control
    BY <2>2, OnlyDmaMoves
  <2>3. QED BY <2>1, <2>2 DEF Next
<1>2. QED
  BY <1>1, Invariance, PTL DEF NoOverrun, Spec

-----------------------------------------------------------------------------
(* The write counter never falls behind the file, whatever the speed of    *)
(* the card and whoever starts or stops a session.                         *)
LEMMA CountStep ==
  ASSUME TypeOK, CountInv, [Next]_vars
  PROVE  CountInv'
<1>0. fileLen \in Nat /\ signal_file_write_count \in Nat
  BY DEF TypeOK, ThreadTypeOK, FileTypeOK
<1> USE <1>0 DEF CountInv
<1>1. CASE WriteLine
  <2>1. /\ fileLen' \in {fileLen, IF done = 0 THEN fileLen + 1 ELSE fileLen}
        /\ UNCHANGED signal_file_write_count
    BY <1>1, Zenon DEF WriteLine, LineGoesOn
  <2>2. /\ pc = "data"
        /\ IF done + 1 = DATA_NUM THEN pc' = "count" /\ done' = 0
                                  ELSE pc' = "data" /\ done' = done + 1
    BY <1>1 DEF WriteLine
  <2>3. done \in Rows
    BY DEF TypeOK, FileTypeOK
  <2>4. QED BY <2>1, <2>2, <2>3
<1>6. CASE WriteRefused \/ WriteStops \/ WriteBegin
  <2>1. /\ UNCHANGED <<fileLen, signal_file_write_count>> /\ pc \in {"write", "data"}
        /\ pc' = "count" \/ (pc = "write" /\ pc' = "data")
    BY <1>6, Zenon DEF WriteRefused, WriteStops, WriteBegin, fileVars
  <2>2. QED BY <2>1
<1>7. CASE CountWrite
  <2>1. /\ fileLen' = fileLen
        /\ signal_file_write_count' = signal_file_write_count + 1
        /\ pc = "count"
        /\ pc' = IF signal_file_write_count' = FS_WRITE_NUM THEN "rollover" ELSE "reset"
    BY <1>7 DEF CountWrite, fileVars
  <2>2. QED BY <2>1
<1>2. CASE NextFile \/ LowSpaceStop
  <2>1. fileLen' = 0 /\ signal_file_write_count' = 0 /\ pc' = "reset"
    BY <1>2, Zenon DEF NextFile, LowSpaceStop
  <2>2. QED BY <2>1
<1>3. CASE DmaRow \/ SemReset \/ SemTake \/ CheckHalf \/ CheckFull \/ FormatRow
  <2>1. UNCHANGED <<fileLen, signal_file_write_count>>
    BY <1>3, Zenon DEF DmaRow, SemReset, SemTake, CheckHalf, CheckFull, FormatRow, fileVars
  <2>2. UNCHANGED done
    BY <1>3, Zenon DEF DmaRow, SemReset, SemTake, CheckHalf, CheckFull, FormatRow, fileVars
  <2>3. pc' = pc \/ {pc, pc'} \cap {"rollover", "count", "data"} = {}
    BY <1>3 DEF DmaRow, HalfCplt, Cplt, NoInterrupt, Release,
                SemReset, SemTake, CheckHalf, CheckFull, FormatRow
  <2>4. QED BY <2>1, <2>2, <2>3
<1>4. CASE Control \/ UNCHANGED vars
  <2>1. UNCHANGED <<pc, done, signal_file_write_count>>
        /\ (fileLen' = fileLen \/ fileLen' = 0)
    BY <1>4, ControlFrame, Zenon
  <2>2. QED BY <2>1
<1>5. QED
  BY <1>1, <1>2, <1>3, <1>4, <1>6, <1>7 DEF Next, Storage

(* No file grows beyond FS_WRITE_NUM buffers, at any speed of the card.    *)
THEOREM FileSize == Spec => []FileSizeLimit
<1>1. Init => CountInv
  BY DEF Init, CountInv
<1>2. TypeOK /\ CountInv /\ [Next]_vars => CountInv'
  BY CountStep
<1>3. TypeOK /\ CountInv => FileSizeLimit
  BY DEF CountInv, FileSizeLimit, TypeOK, FileTypeOK, ThreadTypeOK
<1>4. QED
  BY <1>1, <1>2, <1>3, TypeCorrect, PTL DEF Spec

-----------------------------------------------------------------------------
(* The pipeline implements the recorder.                                   *)
THEOREM Refinement ==
  ASSUME KeepsUp
  PROVE  Spec => RefinesRecorder
<1>1. Init => Abstract!Init
  BY DEF Init, Abstract!Init
<1>2. IInv /\ [Next]_vars => [Abstract!Next]_(Abstract!vars)
  <2> SUFFICES ASSUME IInv, [Next]_vars PROVE [Abstract!Next]_(Abstract!vars)
    OBVIOUS
  <2>0. /\ rec \in Seq(Lines) /\ cut \in SUBSET Nat /\ Len(rec) \in Nat
        /\ sample \in Nat /\ pos \in Rows /\ files \in Nat
    BY DEF IInv, TypeOK, FileTypeOK, DmaTypeOK
  <2>1. CASE DmaRow
    <3>1. sample' = sample + 1 /\ UNCHANGED <<rec, cut, files>>
      BY <2>1 DEF DmaRow, fileVars
    <3>2. Abstract!Take
      BY <3>1 DEF Abstract!Take
    <3>3. QED BY <3>2 DEF Abstract!Next
  <2>2. CASE WriteLine /\ fileOpen
    <3> DEFINE line == [file |-> files, at |-> done, conv |-> Due]
               last == rec[Len(rec)]
    <3>1. /\ rec' = Append(rec, line) /\ UNCHANGED <<cut, files, sample>>
          /\ pc = "data" /\ done \in Rows
      BY <2>2, LineOnCard DEF IInv
    <3>2. Due = Base - DATA_NUM + done /\ pos < Half
      BY <3>1, WriteDue DEF IInv
    <3>3. Due \in Int /\ Due - done + DATA_NUM <= sample /\ Due <= sample /\ 0 - DATA_NUM <= Due
      BY <2>0, <3>1, <3>2 DEF Base, IInv, RingInv
    <3>4. Len(rec') = Len(rec) + 1 /\ Len(rec') \notin cut'
      BY <2>0, <3>1 DEF IInv, CardInv, EndInv
    <3>5. rec # <<>> => Len(rec) > 0 /\ last.at \in Rows /\ last.conv \in Int
      <4>1. rec # <<>> => Len(rec) > 0
        BY <2>0
      <4>2. QED BY <2>0, <4>1, LastLine
    <3>6. rec = <<>> => done = 0
      BY <2>2, <3>1 DEF IInv, CardInv, FrontInv
    <3>7. rec # <<>> /\ Len(rec) \notin cut
            => /\ Due = last.conv + 1
               /\ done = IF last.at = DATA_NUM - 1 THEN 0 ELSE last.at + 1
               /\ done > 0 => last.file = files
      <4> SUFFICES ASSUME rec # <<>>, Len(rec) \notin cut
                   PROVE  /\ Due = last.conv + 1
                          /\ done = IF last.at = DATA_NUM - 1 THEN 0 ELSE last.at + 1
                          /\ done > 0 => last.file = files
        OBVIOUS
      <4>1. Due = last.conv + 1
        BY <3>5 DEF IInv, CardInv, EndInv
      <4>2. done > 0 => last.file = files /\ last.at = done - 1
        BY <2>2, <3>1 DEF IInv, CardInv, FrontInv
      <4>3. last.at # DATA_NUM - 1 => last.at = done - 1
        BY <3>5 DEF IInv, CardInv, FrontInv
      <4>4. last.at \in Rows
        BY <3>5
      <4> HIDE DEF last
      <4>5. CASE done > 0
        BY <3>1, <4>1, <4>2, <4>5
      <4>6. CASE done = 0
        BY <4>1, <4>3, <4>4, <4>6
      <4>7. QED BY <3>1, <4>5, <4>6
    <3>8. rec # <<>> /\ Len(rec) \in cut
            => /\ Due > last.conv + 1
               /\ done = 0
               /\ last.file = files => last.at = DATA_NUM - 1
      <4> SUFFICES ASSUME rec # <<>>, Len(rec) \in cut
                   PROVE  /\ Due > last.conv + 1
                          /\ done = 0
                          /\ last.file = files => last.at = DATA_NUM - 1
        OBVIOUS
      <4>1. last.conv + 1 < Due
        BY <3>5 DEF IInv, CardInv, EndInv
      <4>2. ~(done > 0)
        BY <2>2, <3>1 DEF IInv, CardInv, FrontInv
      <4>3. last.file = files /\ last.at # DATA_NUM - 1 => done > 0
        BY <2>2, <3>1, <3>5 DEF IInv, CardInv, FrontInv
      <4> HIDE DEF last
      <4>4. QED BY <3>1, <3>3, <3>5, <4>1, <4>2, <4>3
    <3>9. line.file = files /\ line.at = done /\ line.conv = Due
      OBVIOUS
    <3> HIDE DEF line
    <3>10. Abstract!Record(line)
      <4>1. Abstract!Complete(line)
        BY <3>3, <3>9 DEF Abstract!Complete
      <4>2. CASE rec = <<>>
        BY <3>1, <3>4, <3>6, <3>9, <4>1, <4>2 DEF Abstract!Record
      <4>3. CASE rec # <<>> /\ Len(rec) \in cut
        <5>1. Abstract!Resumes(last, line)
          BY <3>8, <3>9, <4>3 DEF Abstract!Resumes
        <5> HIDE DEF last
        <5>2. QED BY <3>1, <3>4, <4>1, <4>3, <5>1 DEF Abstract!Record, last
      <4>4. CASE rec # <<>> /\ Len(rec) \notin cut
        <5>1. Abstract!Continues(last, line)
          BY <3>7, <3>9, <4>4 DEF Abstract!Continues
        <5> HIDE DEF last
        <5>2. QED BY <3>1, <3>4, <4>1, <4>4, <5>1 DEF Abstract!Record, last
      <4>5. QED BY <4>2, <4>3, <4>4
    <3>11. done \in 0 .. DATA_NUM - 1 /\ Due \in (0 - DATA_NUM) .. sample
      BY <2>0, <3>1, <3>3
    <3>12. QED BY <3>10, <3>11 DEF Abstract!Next, line
  <2>3. CASE (WriteLine /\ ~fileOpen) \/ WriteStops \/ WriteRefused
    <3>1. UNCHANGED <<sample, rec, files>> /\ Len(rec') \in cut'
      <4>1. UNCHANGED <<sample, rec, files>> /\ cut' = cut \cup {Len(rec)}
        BY <2>3, Zenon DEF WriteLine, LineGoesOn, WriteStops, WriteRefused, dmaVars
      <4>2. QED BY <4>1
    <3>2. Abstract!Lose
      BY <3>1 DEF Abstract!Lose
    <3>3. QED BY <3>2 DEF Abstract!Next
  <2>4. CASE WriteBegin \/ CountWrite \/ LowSpaceStop
    <3>1. UNCHANGED <<sample, rec, files, cut>>
      BY <2>4, Zenon DEF WriteBegin, CountWrite, LowSpaceStop, dmaVars, fileVars
    <3>2. QED BY <3>1 DEF Abstract!vars
  <2>5. CASE NextFile
    <3>1. UNCHANGED <<sample, rec, cut>> /\ files' = files + 1
      BY <2>5, Zenon DEF NextFile, dmaVars
    <3>2. Abstract!NextFile
      BY <3>1 DEF Abstract!NextFile
    <3>3. QED BY <3>2 DEF Abstract!Next
  <2>6. CASE SemReset \/ SemTake \/ CheckHalf \/ CheckFull \/ FormatRow
    <3>1. UNCHANGED <<sample, rec, files, cut>>
      BY <2>6, Zenon DEF SemReset, SemTake, CheckHalf, CheckFull, FormatRow, dmaVars, fileVars
    <3>2. QED BY <3>1 DEF Abstract!vars
  <2>7. CASE Control \/ UNCHANGED vars
    <3>1. sample' = sample
      BY <2>7, OnlyDmaMoves
    <3>2. CASE UNCHANGED <<rec, files, cut>>
      BY <3>1, <3>2 DEF Abstract!vars
    <3>3. CASE rec' = <<>> /\ files' = 0 /\ cut' = {}
      BY <3>1, <3>3 DEF Abstract!Next, Abstract!Begin
    <3>4. QED BY <2>7, <3>2, <3>3, ControlFrame, Zenon
  <2>8. QED BY <2>1, <2>2, <2>3, <2>4, <2>5, <2>6, <2>7 DEF Next, Storage
<1>3. QED
  BY <1>1, <1>2, Invariance, PTL DEF Spec, RefinesRecorder, Abstract!Spec
=============================================================================
