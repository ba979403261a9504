------------------------------ MODULE SdDiskIo ------------------------------
(***************************************************************************)
(* The disk driver below FatFs: SD_read and SD_write start a DMA transfer  *)
(* and spin on ReadStatus or WriteStatus, which the SDMMC2 interrupt sets, *)
(* then until the card is back in its transfer state, each for at most     *)
(* SD_TIMEOUT.  The two flags and hsd2 are shared by every thread that is  *)
(* inside FatFs (a thread of higher priority may call while another spins) *)
(* and hsd2 also by the USB interrupt, which serves the host by polling.   *)
(*                                                                         *)
(* A transfer is represented by the number of the call that started it.    *)
(***************************************************************************)
EXTENDS Integers, FiniteSets

CONSTANTS
  Callers,      \* priorities of the threads inside FatFs, higher runs first
  Kinds,        \* calls they make: a subset of {"read", "write"}
  MaxCalls,     \* bound: calls in a behaviour
  Usb,          \* the USB host may access the card
  CardErrors,   \* a transfer may end with an error interrupt
  CardStalls    \* the card may stay busy longer than SD_TIMEOUT

ASSUME SdAssumption ==
  /\ Callers \subseteq Nat
  /\ Kinds \subseteq {"read", "write"}
  /\ MaxCalls \in Nat
  /\ Usb \in BOOLEAN /\ CardErrors \in BOOLEAN /\ CardStalls \in BOOLEAN

VARIABLES
  status,       \* status["write"]: WriteStatus, status["read"]: ReadStatus
  state,        \* hsd2.State
  card,         \* what CMD13 reports: "tran", "data" (moving), "prog" (busy)
  xfer,         \* the transfer the interrupt or the card still works on
  pc,           \* where each caller is
  kind,         \* the function it is in
  req,          \* the number of its call
  calls,        \* calls made so far
  result,       \* history: how its last call returned
  signalled,    \* history: transfers whose completion interrupt came
  stored,       \* history: transfers the card has finished
  failed        \* history: transfers that ended with an error

sharedVars == <<status, state, card, xfer>>
callVars == <<kind, req, calls>>
histVars == <<signalled, stored, failed>>
vars == <<sharedVars, pc, callVars, result, histVars>>

None == [id |-> 0, kind |-> "write"]

Init ==
  /\ status = [k \in {"read", "write"} |-> 0]
  /\ state = "ready" /\ card = "tran" /\ xfer = None
  /\ pc = [t \in Callers |-> "idle"]
  /\ kind = [t \in Callers |-> "write"]
  /\ req = [t \in Callers |-> 0]
  /\ calls = 0
  /\ result = [t \in Callers |-> "none"]
  /\ signalled = {} /\ stored = {} /\ failed = {}

-----------------------------------------------------------------------------
(* The callers                                                             *)

(* The scheduler runs the thread of the highest priority; a spinning       *)
(* thread does not give up the processor.                                  *)
Runs(t) == \A u \in Callers : u > t => pc[u] = "idle"

(* Entry: SD_write clears its flag first, SD_read does not.                *)
Call(t) ==
  /\ Runs(t)
  /\ pc[t] = "idle"
  /\ calls < MaxCalls
  /\ calls' = calls + 1
  /\ req' = [req EXCEPT ![t] = calls + 1]
  /\ \E k \in Kinds :
       /\ kind' = [kind EXCEPT ![t] = k]
       /\ status' = IF k = "write" THEN [status EXCEPT !["write"] = 0] ELSE status
  /\ pc' = [pc EXCEPT ![t] = "check"]
  /\ result' = [result EXCEPT ![t] = "none"]
  /\ UNCHANGED <<state, card, xfer, histVars>>

(* SD_CheckStatusWithTimeout                                               *)
CheckReady(t) ==
  /\ Runs(t)
  /\ pc[t] = "check"
  /\ card = "tran"
  /\ pc' = [pc EXCEPT ![t] = "start"]
  /\ UNCHANGED <<sharedVars, callVars, result, histVars>>

(* The call returns RES_ERROR.  "lost" is an error of a caller that waited *)
(* for a completion interrupt which had come.                              *)
Fail(t) ==
  /\ pc' = [pc EXCEPT ![t] = "idle"]
  /\ result' = [result EXCEPT ![t] =
       IF pc[t] = "wait" /\ req[t] \in signalled THEN "lost" ELSE "error"]

(* BSP_SD_WriteBlocks_DMA and BSP_SD_ReadBlocks_DMA are refused when hsd2  *)
(* is busy, and by a card that is still programming.                       *)
Refused(t) ==
  /\ Runs(t)
  /\ pc[t] = "start"
  /\ state = "busy" \/ card # "tran"
  /\ Fail(t)
  /\ UNCHANGED <<sharedVars, callVars, histVars>>

(* Mutated form of Start: both functions clear their flag afterwards.      *)
StartThenClear(t) ==
  /\ Runs(t)
  /\ pc[t] = "start"
  /\ state = "ready" /\ card = "tran"
  /\ state' = "busy"
  /\ card' = "data"
  /\ xfer' = [id |-> req[t], kind |-> kind[t]]
  /\ pc' = [pc EXCEPT ![t] = "clear"]
  /\ UNCHANGED <<status, callVars, result, histVars>>

Start(t) ==
  /\ Runs(t)
  /\ pc[t] = "start"
  /\ state = "ready" /\ card = "tran"
  /\ state' = "busy"
  /\ card' = "data"
  /\ xfer' = [id |-> req[t], kind |-> kind[t]]
  /\ pc' = [pc EXCEPT ![t] = IF kind[t] = "read" THEN "clear" ELSE "wait"]
  /\ UNCHANGED <<status, callVars, result, histVars>>

(* SD_read clears ReadStatus after it has started the transfer.            *)
ClearRead(t) ==
  /\ Runs(t)
  /\ pc[t] = "clear"
  /\ status' = [status EXCEPT ![kind[t]] = 0]
  /\ pc' = [pc EXCEPT ![t] = "wait"]
  /\ UNCHANGED <<state, card, xfer, callVars, result, histVars>>

(* Mutated form of Seen: the flag is enough for RES_OK.                    *)
SeenReturns(t) ==
  /\ Runs(t)
  /\ pc[t] = "wait"
  /\ status[kind[t]] = 1
  /\ status' = [status EXCEPT ![kind[t]] = 0]
  /\ pc' = [pc EXCEPT ![t] = "idle"]
  /\ result' = [result EXCEPT ![t] = "ok"]
  /\ UNCHANGED <<state, card, xfer, callVars, histVars>>

Seen(t) ==
  /\ Runs(t)
  /\ pc[t] = "wait"
  /\ status[kind[t]] = 1
  /\ status' = [status EXCEPT ![kind[t]] = 0]
  /\ pc' = [pc EXCEPT ![t] = "settle"]
  /\ UNCHANGED <<state, card, xfer, callVars, result, histVars>>

Settled(t) ==
  /\ Runs(t)
  /\ pc[t] = "settle"
  /\ card = "tran"
  /\ pc' = [pc EXCEPT ![t] = "idle"]
  /\ result' = [result EXCEPT ![t] = "ok"]
  /\ UNCHANGED <<sharedVars, callVars, histVars>>

(* Mutated form of Timeout: the wait for the flag has no time limit.       *)
TimeoutOfCard(t) ==
  /\ Runs(t)
  /\ pc[t] \in {"check", "settle"} /\ card # "tran" /\ (CardStalls \/ Usb)
  /\ Fail(t)
  /\ UNCHANGED <<sharedVars, callVars, histVars>>

(* SD_TIMEOUT passes in one of the three loops: because nothing is left    *)
(* that could end the loop, or because the card stalls or the host keeps   *)
(* it busy.                                                                *)
Timeout(t) ==
  /\ Runs(t)
  /\ \/ pc[t] \in {"check", "settle"} /\ card # "tran" /\ (CardStalls \/ Usb)
     \/ pc[t] = "wait" /\ status[kind[t]] = 0 /\ (state = "ready" \/ CardStalls)
  /\ Fail(t)
  /\ UNCHANGED <<sharedVars, callVars, histVars>>

Caller(t) ==
  \/ CheckReady(t) \/ Refused(t) \/ Start(t) \/ ClearRead(t)
  \/ Seen(t) \/ Settled(t) \/ Timeout(t)

-----------------------------------------------------------------------------
(* The card, its interrupt and the USB host                                *)

(* Mutated form of Complete: the callbacks count instead of setting a flag. *)
CompleteCounts ==
  /\ card = "data"
  /\ state' = "ready"
  /\ status' = [status EXCEPT ![xfer.kind] = @ + 1]
  /\ signalled' = signalled \cup {xfer.id}
  /\ IF xfer.kind = "write"
     THEN card' = "prog" /\ UNCHANGED <<stored, xfer>>
     ELSE card' = "tran" /\ stored' = stored \cup {xfer.id} /\ xfer' = None
  /\ UNCHANGED <<pc, callVars, result, failed>>

(* HAL_SD_IRQHandler at the end of the data: hsd2 is ready again and the   *)
(* callback sets the flag.  A card that was written to is still busy.      *)
Complete ==
  /\ card = "data"
  /\ state' = "ready"
  /\ status' = [status EXCEPT ![xfer.kind] = 1]
  /\ signalled' = signalled \cup {xfer.id}
  /\ IF xfer.kind = "write"
     THEN card' = "prog" /\ UNCHANGED <<stored, xfer>>
     ELSE card' = "tran" /\ stored' = stored \cup {xfer.id} /\ xfer' = None
  /\ UNCHANGED <<pc, callVars, result, failed>>

(* HAL_SD_IRQHandler on an error flag: HAL_SD_ErrorCallback does nothing.  *)
ErrorInterrupt ==
  /\ CardErrors
  /\ card = "data"
  /\ state' = "ready"
  /\ card' = "tran"
  /\ xfer' = None
  /\ failed' = failed \cup {xfer.id}
  /\ UNCHANGED <<status, pc, callVars, result, signalled, stored>>

CardReady ==
  /\ card = "prog"
  /\ card' = "tran"
  /\ stored' = stored \cup {xfer.id}
  /\ xfer' = None
  /\ UNCHANGED <<status, state, pc, callVars, result, signalled, failed>>

(* STORAGE_Write_FS in the USB interrupt: HAL_SD_WriteBlocks polls, is     *)
(* refused while hsd2 is busy and may leave the card busy.                 *)
UsbWrite ==
  /\ Usb
  /\ state = "ready"
  /\ card = "tran"
  /\ card' = "prog"
  /\ UNCHANGED <<status, state, xfer, pc, callVars, result, histVars>>

Card == Complete \/ ErrorInterrupt \/ CardReady

Next == Card \/ UsbWrite \/ \E t \in Callers : Call(t) \/ Caller(t)

Spec == Init /\ [][Next]_vars

(* Time passes, and the card ends what it began unless it stalls.          *)
FairSpec ==
  /\ Spec
  /\ \A t \in Callers : WF_vars(Caller(t))
  /\ ~CardStalls => WF_vars(Card)

-----------------------------------------------------------------------------
(* Properties                                                              *)

(* The types, also of the histories.                                       *)
TypeOK ==
  /\ status \in [{"read", "write"} -> {0, 1}]
  /\ state \in {"ready", "busy"}
  /\ card \in {"tran", "data", "prog"}
  /\ xfer \in [id : Nat, kind : {"read", "write"}]
  /\ pc \in [Callers -> {"idle", "check", "start", "clear", "wait", "settle"}]
  /\ kind \in [Callers -> {"read", "write"}]
  /\ req \in [Callers -> Nat]
  /\ calls \in Nat
  /\ result \in [Callers -> {"none", "ok", "error", "lost"}]
  /\ signalled \subseteq Nat /\ stored \subseteq Nat /\ failed \subseteq Nat

(* A call that returns RES_OK has moved its data and the card has taken    *)
(* them, whatever flag the caller may have seen; except that after an      *)
(* error interrupt the flag of another transfer is as good as its own.     *)
OkMeansStored ==
  \A t \in Callers : result[t] = "ok" => req[t] \in stored \cup failed

(* SD_write waits in vain for a completion that has come only if a thread  *)
(* of higher priority has used the driver meanwhile; errors, timeouts and  *)
(* late completions of earlier calls never make it do so.                  *)
LostOnlyIfPreempted ==
  \A t \in Callers :
    result[t] = "lost" =>
      kind[t] = "read" \/ \E u \in Callers : u > t /\ req[u] > req[t]

(* A call ends, whatever the card does.                                    *)
CallsReturn == \A t \in Callers : pc[t] # "idle" ~> pc[t] = "idle"
=============================================================================
