--------------------------- MODULE SdDiskIoProofs ---------------------------
(***************************************************************************)
(* For every set of callers and every number of calls: what RES_OK means,  *)
(* and when a completion is lost.                                          *)
(***************************************************************************)
EXTENDS SdDiskIo, TLAPS

USE SdAssumption DEF SdAssumption

(* Calls are numbered as they come; a call that preempts another came      *)
(* later.  Nothing is in the card's hands once it is back in transfer state.*)
Numbered ==
  /\ \A t \in Callers : req[t] <= calls /\ (pc[t] # "idle" => req[t] > 0)
  /\ \A t, u \in Callers : t # u /\ req[t] = req[u] => req[t] = 0
  /\ \A t, u \in Callers :
       t < u /\ pc[t] # "idle" /\ pc[u] # "idle" => req[t] < req[u]
  /\ xfer.id <= calls
  /\ \A i \in signalled : i <= calls
  /\ card = "tran" => xfer.id = 0

(* A call that has not started its transfer has not been signalled.        *)
Fresh ==
  \A t \in Callers :
    pc[t] \in {"check", "start"} => req[t] \notin signalled /\ req[t] # xfer.id

(* One that has is in the card's hands, or through.                        *)
Handled ==
  \A t \in Callers :
    pc[t] \in {"clear", "wait", "settle"} =>
      req[t] \in stored \/ req[t] \in failed \/ req[t] = xfer.id

(* The interrupt sets the flag the caller looks at.                        *)
OwnFlag ==
  \A t \in Callers :
    /\ pc[t] # "idle" /\ xfer.id = req[t] => xfer.kind = kind[t]
    /\ pc[t] = "clear" => kind[t] = "read"

Preempted(t) == \E u \in Callers : u > t /\ req[u] > req[t]

(* The flag of a signalled write stays set until its caller sees it, but   *)
(* for a caller of higher priority.                                        *)
FlagKept ==
  \A t \in Callers :
    pc[t] = "wait" /\ kind[t] = "write" /\ req[t] \in signalled =>
      status["write"] = 1 \/ Preempted(t)

SdInv ==
  /\ TypeOK /\ Numbered /\ Fresh /\ Handled /\ OwnFlag /\ FlagKept
  /\ OkMeansStored /\ LostOnlyIfPreempted

(* The driver starts idle with its flags clear.                            *)
LEMMA SdInit == Init => SdInv
BY DEF Init, SdInv, TypeOK, Numbered, Fresh, Handled, OwnFlag, FlagKept,
       OkMeansStored, LostOnlyIfPreempted, None

(* Setting or clearing one of the two completion flags keeps them flags.   *)
LEMMA FlagTyped ==
  ASSUME NEW f \in [{"read", "write"} -> {0, 1}], NEW k \in {"read", "write"},
         NEW v \in {0, 1}
  PROVE  [f EXCEPT ![k] = v] \in [{"read", "write"} -> {0, 1}]
OBVIOUS

(* The card at rest is a transfer with the reserved identifier.            *)
LEMMA NoneTyped == None \in [id : Nat, kind : {"read", "write"}] /\ None.id = 0
BY DEF None

(* Every step of a call, of the card and of the host keeps the types.      *)
LEMMA SdTypeStep == ASSUME TypeOK, [Next]_vars PROVE TypeOK'
<1> USE DEF TypeOK, sharedVars, callVars, histVars
<1>1. ASSUME NEW t \in Callers, Call(t) PROVE TypeOK'
  BY <1>1 DEF Call
<1>2. ASSUME NEW t \in Callers, Caller(t) PROVE TypeOK'
  <2>1. CASE Start(t)
    BY <2>1 DEF Start
  <2>2. CASE ClearRead(t) \/ Seen(t)
    <3>1. status' \in [{"read", "write"} -> {0, 1}]
      BY <2>2, FlagTyped DEF ClearRead, Seen
    <3>2. QED
      BY <2>2, <3>1 DEF ClearRead, Seen
  <2>3. CASE CheckReady(t) \/ Settled(t)
    BY <2>3 DEF CheckReady, Settled
  <2>4. CASE Refused(t) \/ Timeout(t)
    BY <2>4 DEF Refused, Timeout, Fail
  <2>5. QED BY <1>2, <2>1, <2>2, <2>3, <2>4 DEF Caller
<1>3. CASE Complete \/ ErrorInterrupt \/ CardReady \/ UsbWrite
  <2>0. xfer.id \in Nat /\ xfer.kind \in {"read", "write"}
    OBVIOUS
  <2>1. CASE Complete
    <3>1. status' \in [{"read", "write"} -> {0, 1}]
      BY <2>1, <2>0, FlagTyped DEF Complete
    <3>2. CASE xfer.kind = "write"
      BY <2>1, <2>0, <3>1, <3>2 DEF Complete
    <3>3. CASE xfer.kind # "write"
      <4>1. /\ xfer' \in [id : Nat, kind : {"read", "write"}]
            /\ stored' \subseteq Nat /\ signalled' \subseteq Nat
        <5>1. /\ xfer' = None /\ stored' = stored \cup {xfer.id}
              /\ signalled' = signalled \cup {xfer.id}
          BY <2>1, <3>3, Zenon DEF Complete
        <5>2. QED BY <5>1, <2>0, NoneTyped
      <4>2. QED
        BY <2>1, <3>1, <3>3, <4>1 DEF Complete
    <3>4. QED BY <3>2, <3>3
  <2>2. CASE ErrorInterrupt
    BY <2>2, <2>0, NoneTyped DEF ErrorInterrupt
  <2>3. CASE CardReady
    BY <2>3, <2>0, NoneTyped DEF CardReady
  <2>4. CASE UsbWrite
    BY <2>4 DEF UsbWrite
  <2>5. QED BY <1>3, <2>1, <2>2, <2>3, <2>4
<1>4. CASE UNCHANGED vars
  BY <1>4 DEF vars
<1>5. QED
  BY <1>1, <1>2, <1>3, <1>4 DEF Next, Card

(* A new call gets a number of its own, higher than that of every call it  *)
(* preempts; and it preempts, or nobody is in the driver above it.         *)
LEMMA NumberedStep == ASSUME SdInv, [Next]_vars PROVE Numbered'
<1> USE DEF SdInv, TypeOK, Numbered, sharedVars, callVars, histVars
<1>1. ASSUME NEW t \in Callers, Call(t) PROVE Numbered'
  BY <1>1 DEF Call, Runs
<1>2. ASSUME NEW t \in Callers, Caller(t) PROVE Numbered'
  <2>1. /\ UNCHANGED <<req, calls, signalled>>
        /\ pc[t] # "idle" /\ pc' = [pc EXCEPT ![t] = pc'[t]]
    BY <1>2 DEF Caller, CheckReady, Start, ClearRead, Seen, Settled, Refused,
                Timeout, Fail
  <2>2. xfer'.id <= calls /\ (card' = "tran" => xfer'.id = 0)
    <3>1. CASE Start(t)
      BY <3>1 DEF Start
    <3>2. CASE ~Start(t)
      BY <1>2, <3>2 DEF Caller, CheckReady, ClearRead, Seen, Settled, Refused,
                        Timeout
    <3>3. QED BY <3>1, <3>2
  <2>3. QED BY <2>1, <2>2
<1>3. CASE Complete \/ ErrorInterrupt \/ CardReady \/ UsbWrite
  <2>1. CASE Complete
    BY <2>1 DEF Complete, None
  <2>2. CASE ErrorInterrupt
    BY <2>2, NoneTyped DEF ErrorInterrupt
  <2>3. CASE CardReady
    BY <2>3, NoneTyped DEF CardReady
  <2>4. CASE UsbWrite
    BY <2>4 DEF UsbWrite
  <2>5. QED BY <1>3, <2>1, <2>2, <2>3, <2>4
<1>4. CASE UNCHANGED vars
  BY <1>4 DEF vars
<1>5. QED
  BY <1>1, <1>2, <1>3, <1>4 DEF Next, Card

(* The number of a call appears in the card, and among the signals, only    *)
(* after its start.                                                        *)
LEMMA FreshStep == ASSUME SdInv, [Next]_vars PROVE Fresh'
<1> USE DEF SdInv, TypeOK, Numbered, Fresh, sharedVars, callVars, histVars
<1>1. ASSUME NEW t \in Callers, Call(t) PROVE Fresh'
  BY <1>1 DEF Call
<1>2. ASSUME NEW t \in Callers, Caller(t) PROVE Fresh'
  <2>1. CASE Start(t)
    BY <2>1 DEF Start
  <2>2. CASE CheckReady(t) \/ ClearRead(t) \/ Seen(t) \/ Settled(t)
    BY <2>2 DEF CheckReady, ClearRead, Seen, Settled
  <2>3. CASE Refused(t) \/ Timeout(t)
    BY <2>3 DEF Refused, Timeout, Fail
  <2>4. QED BY <1>2, <2>1, <2>2, <2>3 DEF Caller
<1>3. CASE Complete \/ ErrorInterrupt \/ CardReady \/ UsbWrite
  BY <1>3 DEF Complete, ErrorInterrupt, CardReady, UsbWrite, None
<1>4. CASE UNCHANGED vars
  BY <1>4 DEF vars
<1>5. QED
  BY <1>1, <1>2, <1>3, <1>4 DEF Next, Card

(* A transfer starts only when the card has none, so no other is forgotten; *)
(* and RES_OK is returned only when the card has none again.               *)
LEMMA HandledStep ==
  ASSUME SdInv, [Next]_vars PROVE Handled' /\ OkMeansStored'
<1> USE DEF SdInv, TypeOK, Numbered, Handled, OkMeansStored, sharedVars,
            callVars, histVars
<1>1. ASSUME NEW t \in Callers, Call(t) PROVE Handled' /\ OkMeansStored'
  BY <1>1 DEF Call
<1>2. ASSUME NEW t \in Callers, Caller(t) PROVE Handled' /\ OkMeansStored'
  <2>1. CASE Start(t)
    BY <2>1 DEF Start
  <2>2. CASE CheckReady(t) \/ ClearRead(t) \/ Seen(t)
    BY <2>2 DEF CheckReady, ClearRead, Seen
  <2>3. CASE Settled(t)
    BY <2>3 DEF Settled
  <2>4. CASE Refused(t) \/ Timeout(t)
    BY <2>4 DEF Refused, Timeout, Fail
  <2>5. QED BY <1>2, <2>1, <2>2, <2>3, <2>4 DEF Caller
<1>3. CASE Complete \/ ErrorInterrupt \/ CardReady \/ UsbWrite
  BY <1>3 DEF Complete, ErrorInterrupt, CardReady, UsbWrite, None
<1>4. CASE UNCHANGED vars
  BY <1>4 DEF vars
<1>5. QED
  BY <1>1, <1>2, <1>3, <1>4 DEF Next, Card

(* Every step keeps a transfer of the kind its caller waits for.           *)
LEMMA OwnFlagStep == ASSUME SdInv, [Next]_vars PROVE OwnFlag'
<1> USE DEF SdInv, TypeOK, Numbered, OwnFlag, sharedVars, callVars, histVars
<1>1. ASSUME NEW t \in Callers, Call(t) PROVE OwnFlag'
  BY <1>1 DEF Call
<1>2. ASSUME NEW t \in Callers, Caller(t) PROVE OwnFlag'
  <2>1. CASE Start(t)
    BY <2>1 DEF Start
  <2>2. CASE CheckReady(t) \/ ClearRead(t) \/ Seen(t) \/ Settled(t)
    BY <2>2 DEF CheckReady, ClearRead, Seen, Settled
  <2>3. CASE Refused(t) \/ Timeout(t)
    BY <2>3 DEF Refused, Timeout, Fail
  <2>4. QED BY <1>2, <2>1, <2>2, <2>3 DEF Caller
<1>3. CASE Complete \/ ErrorInterrupt \/ CardReady \/ UsbWrite
  BY <1>3 DEF Complete, ErrorInterrupt, CardReady, UsbWrite, None
<1>4. CASE UNCHANGED vars
  BY <1>4 DEF vars
<1>5. QED
  BY <1>1, <1>2, <1>3, <1>4 DEF Next, Card

(* WriteStatus is cleared by its own caller or by one that preempts it.    *)
LEMMA FlagKeptStep ==
  ASSUME SdInv, [Next]_vars PROVE FlagKept' /\ LostOnlyIfPreempted'
<1> USE DEF SdInv, TypeOK, Numbered, Fresh, FlagKept, Preempted,
            LostOnlyIfPreempted, sharedVars, callVars, histVars
<1>1. ASSUME NEW t \in Callers, Call(t) PROVE FlagKept' /\ LostOnlyIfPreempted'
  BY <1>1 DEF Call, Runs
<1>2. ASSUME NEW t \in Callers, Caller(t)
      PROVE  FlagKept' /\ LostOnlyIfPreempted'
  <2>1. CASE Start(t)
    BY <2>1 DEF Start
  <2>2. CASE CheckReady(t) \/ Settled(t)
    BY <2>2 DEF CheckReady, Settled
  <2>3. CASE ClearRead(t)
    BY <2>3 DEF ClearRead, OwnFlag
  <2>4. CASE Seen(t)
    BY <2>4 DEF Seen, Runs
  <2>5. CASE Refused(t) \/ Timeout(t)
    BY <2>5 DEF Refused, Timeout, Fail
  <2>6. QED BY <1>2, <2>1, <2>2, <2>3, <2>4, <2>5 DEF Caller
<1>3. CASE Complete
  BY <1>3 DEF Complete, OwnFlag, None
<1>4. CASE ErrorInterrupt \/ CardReady \/ UsbWrite
  BY <1>4 DEF ErrorInterrupt, CardReady, UsbWrite
<1>5. CASE UNCHANGED vars
  BY <1>5 DEF vars
<1>6. QED
  BY <1>1, <1>2, <1>3, <1>4, <1>5 DEF Next, Card

(* The invariant the results below rest on holds in every state, for any   *)
(* set of callers.                                                         *)
THEOREM SdInvariance == Spec => []SdInv
<1>1. ASSUME SdInv, [Next]_vars PROVE SdInv'
  BY <1>1, SdTypeStep, NumberedStep, FreshStep, HandledStep, OwnFlagStep,
     FlagKeptStep DEF SdInv
<1>2. QED
  BY SdInit, <1>1, PTL DEF Spec

(* The driver's state is of the declared types.                            *)
THEOREM SdTypeCorrect == Spec => []TypeOK
BY SdInvariance, PTL DEF SdInv

(* However many threads call, and whatever the host, the card and the      *)
(* errors do, a call that returns RES_OK has moved its data, unless its    *)
(* own transfer ended with an error interrupt (sd_diskio.c:356).           *)
THEOREM OkIsStored == Spec => []OkMeansStored
BY SdInvariance, PTL DEF SdInv

(* SD_write misses a completion that came only when a thread of higher     *)
(* priority has called the driver since (sd_diskio.c:352).                 *)
THEOREM CompletionKept == Spec => []LostOnlyIfPreempted
BY SdInvariance, PTL DEF SdInv
=============================================================================
