-------------------------- MODULE AcquisitionProps --------------------------
(* The correctness properties of the acquisition pipeline.                 *)
EXTENDS Acquisition

PcValues == {"reset", "take", "blocked", "check0", "check1", "format", "write", "data", "count",
             "rollover"}

DmaTypeOK ==
  /\ sample \in Nat
  /\ pos \in Rows
  /\ g_sAd7606Buf \in [Rows -> Int]
  /\ DMAdat_flag \in {0, 1}

ThreadTypeOK ==
  /\ storage_sem \in Nat
  /\ pc \in PcValues
  /\ row \in 0 .. DATA_NUM
  /\ FsWriteBuf \in [Rows -> Int]
  /\ spent \in Nat
  /\ signal_file_write_count \in Nat
  /\ pc = "format" => row < DATA_NUM

FlagTypeOK ==
  /\ running \in BOOLEAN
  /\ mounted \in BOOLEAN
  /\ fileOpen \in BOOLEAN
  /\ fileErr \in BOOLEAN

CtlTypeOK ==
  /\ hdas_sample_flag \in {0, 1}
  /\ handler \in [Handlers -> {"idle", "start", "started", "opened", "stop", "stopped"}]

(* A line on the card: in which file of the session, from which line of    *)
(* FsWriteBuf, of which conversion.                                        *)
Lines == [file : Nat, at : Rows, conv : Int]

FileTypeOK ==
  /\ done \in Rows
  /\ rec \in Seq(Lines)
  /\ files \in Nat
  /\ fileLen \in Nat
  /\ cut \in SUBSET Nat
  /\ first \in Nat

(* The variables have their types, and the loop of sprintf_data_to_buf     *)
(* stays inside the buffers.                                               *)
TypeOK == DmaTypeOK /\ ThreadTypeOK /\ FlagTypeOK /\ CtlTypeOK /\ FileTypeOK

(* Within a file only whole buffers are missing.                           *)
WholeLines ==
  \A i \in 1 .. Len(rec) - 1 :
    \/ rec[i + 1].conv = rec[i].conv + 1
    \/ /\ rec[i + 1].at = 0
       /\ rec[i].at = DATA_NUM - 1 \/ rec[i].file # rec[i + 1].file

(* Only an f_write that did not finish makes a gap.                        *)
NoGap == \A i \in 1 .. Len(rec) - 1 : i \notin cut => rec[i + 1].conv = rec[i].conv + 1

(* No torn or stale line.  The DMA stream keeps writing while the halves   *)
(* are formatted, both come from different passes of storage_thread_entry, *)
(* and f_write may leave a front of its buffer behind when it fails or     *)
(* key2_thread closes the file inside it: such a front is the last thing   *)
(* in its file.  The stream goes on where the last stop left it, so a      *)
(* session begins with rows of the one before: with less than one lap.     *)
NoTornBuffer ==
  /\ WholeLines
  /\ rec # <<>> => rec[1].at = 0 /\ rec[1].conv + DATA_NUM > first

(* No lost and no repeated line: two lines that follow each other on the   *)
(* card were converted one after the other, across files too, and nothing  *)
(* is missing before the first one, unless an f_write did not finish.      *)
(* RT_IPC_CMD_RESET must not have dropped an interrupt that mattered.      *)
NoLostBuffer ==
  /\ NoGap
  /\ rec # <<>> /\ 0 \notin cut => rec[1].conv <= first

(* signal_file_write_count lives across sessions; whatever it was when a   *)
(* session began, no file grows beyond FS_WRITE_NUM buffers (328 MB).      *)
FileSizeLimit == fileLen <= FS_WRITE_NUM

(* The DMA stream never overwrites a row of the half that                  *)
(* sprintf_data_to_buf is copying before the row was copied.               *)
NoOverrun ==
  [][pc = "format" =>
       \A r \in row .. (IF row < Half THEN Half ELSE DATA_NUM) - 1 :
         g_sAd7606Buf'[r] = g_sAd7606Buf[r]]_vars

(* The pipeline implements the lossless recorder.                          *)
Abstract == INSTANCE Recorder WITH
              N <- DATA_NUM, taken <- sample, rec <- rec, file <- files,
              lost <- Len(rec) \in cut
RefinesRecorder == Abstract!Spec

(* When storage_thread_entry waits for the next interrupt, every buffer    *)
(* that was completed in this session is on the card, up to the row before  *)
(* the lap that is being filled, unless an f_write did not finish: what is  *)
(* released, set and counted between the interrupt and the card loses none. *)
CompletedIsStored ==
  pc = "blocked" /\ sample - pos > first /\ Len(rec) \notin cut
    => rec # <<>> /\ rec[Len(rec)].conv = sample - pos - 1

-----------------------------------------------------------------------------
(***************************************************************************)
(* The inductive invariant under KeepsUp.  Base is the first conversion of *)
(* the buffer being filled; a buffer is Pending from its full interrupt    *)
(* until f_write has ended, and Due is the line that is written next.      *)
(***************************************************************************)
Base == sample - pos
Checking == pc \in {"check0", "check1", "format"}
Writing == pc \in {"write", "data"}
Pending == pos < Half /\ (Checking \/ Writing)
Due == IF Pending THEN Base - DATA_NUM + done ELSE Base

(* Each row holds the latest conversion the circular stream left there.    *)
RingInv ==
  /\ pos <= sample
  /\ \A r \in Rows : g_sAd7606Buf[r] = IF r < pos THEN Base + r ELSE Base - DATA_NUM + r

(* The thread still works on the last interrupt: since then fewer than     *)
(* Half rows have arrived, no release is left over and the flag has not    *)
(* changed.                                                                *)
PaceInv ==
  /\ storage_sem = 0
  /\ pc # "blocked" => /\ pos = IF pos < Half THEN spent ELSE Half + spent
                       /\ spent <= FormatMax + WriteMax
  /\ Checking => spent <= FormatMax
  /\ pc \in {"check0", "check1"} => DMAdat_flag = IF pos < Half THEN 1 ELSE 0
  /\ pc \in {"check1", "write", "data", "count", "rollover"} => pos < Half
  /\ pc = "format" => (row < Half <=> pos >= Half)

(* The lines formatted so far hold the conversions of the half, or of the  *)
(* buffer, that is due.                                                    *)
LinesInv ==
  /\ pos >= Half /\ pc \notin {"check0", "format"}
       => \A r \in 0 .. Half - 1 : FsWriteBuf[r] = Base + r
  /\ pos >= Half /\ pc = "format" => \A r \in 0 .. row - 1 : FsWriteBuf[r] = Base + r
  /\ Pending => \A r \in 0 .. Half - 1 : FsWriteBuf[r] = Base - DATA_NUM + r
  /\ Pending /\ pc = "format"
       => \A r \in Half .. row - 1 : FsWriteBuf[r] = Base - DATA_NUM + r
  /\ Writing => \A r \in Half .. DATA_NUM - 1 : FsWriteBuf[r] = Base - DATA_NUM + r

(* What is on the card ends where the next line begins, or before it if a  *)
(* write failed.                                                           *)
EndInv ==
  /\ \A c \in cut : c <= Len(rec)
  /\ Len(rec) > 0 => LET next == rec[Len(rec)].conv + 1
                     IN  IF Len(rec) \in cut THEN next < Due ELSE next = Due

(* Only f_write is inside a buffer; what it has written of it is there,    *)
(* and a front that is left stays the end of its file.                     *)
FrontInv ==
  /\ pc # "data" => done = 0
  /\ Len(rec) > 0 => rec[Len(rec)].file <= files
  /\ pc = "data" /\ fileOpen /\ done > 0
       => /\ Len(rec) > 0 /\ Len(rec) \notin cut
          /\ rec[Len(rec)].file = files /\ rec[Len(rec)].at = done - 1
  /\ Len(rec) > 0 /\ Len(rec) \notin cut /\ rec[Len(rec)].at # DATA_NUM - 1
       => pc = "data" /\ rec[Len(rec)].at = done - 1
  /\ Len(rec) > 0 /\ rec[Len(rec)].file = files /\ rec[Len(rec)].at # DATA_NUM - 1
       => \/ ~fileOpen
          \/ pc # "data" /\ fileErr
          \/ pc = "data" /\ done > 0

CardInv == WholeLines /\ NoGap /\ EndInv /\ FrontInv

(* A session's first line, once it is written, is the one that was due     *)
(* when the session began, or a later one if a write failed.               *)
HeadInv ==
  /\ rec # <<>> => rec[1].at = 0
  /\ LET head == IF rec = <<>> THEN Due ELSE rec[1].conv
     IN  head + DATA_NUM > first /\ (0 \notin cut => head <= first)

(* The counter bounds the file and is reset by every roll-over.            *)
CountInv ==
  /\ fileLen <= signal_file_write_count
       + (IF pc = "count" \/ (pc = "data" /\ done > 0) THEN 1 ELSE 0)
  /\ signal_file_write_count <= FS_WRITE_NUM
  /\ pc # "rollover" => signal_file_write_count < FS_WRITE_NUM

IInv == TypeOK /\ RingInv /\ PaceInv /\ LinesInv /\ CardInv /\ HeadInv

=============================================================================
