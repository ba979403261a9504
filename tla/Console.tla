------------------------------ MODULE Console ------------------------------
(***************************************************************************)
(* The shell's console on UART8: the receive interrupt puts characters     *)
(* into the ring uart8_rbuf, rt_hw_console_getchar takes them out, and     *)
(* every thread prints through HAL_UART_Transmit on the same handle, whose *)
(* HAL lock the interrupt needs to start the next reception.               *)
(*                                                                         *)
(* A character is the number it was typed as.                              *)
(***************************************************************************)
EXTENDS Integers, Sequences, FiniteSets

CONSTANTS
  UART8_RBUF_SIZE,  \* slots of the ring
  UintMax,          \* in and out are unsigned: they wrap to 0 here
  Printers,         \* priorities of the threads that print, higher runs first
  MaxTyped,         \* bound: characters in a behaviour
  Timeouts          \* a transmission may time out

ASSUME ConsoleAssumption ==
  /\ UART8_RBUF_SIZE \in Nat \ {0}
  /\ UintMax \in Nat /\ UintMax > UART8_RBUF_SIZE
  /\ UintMax % UART8_RBUF_SIZE = 0
  /\ Printers \subseteq Nat
  /\ MaxTyped \in Nat
  /\ Timeouts \in BOOLEAN

VARIABLES
  typed,      \* characters typed so far
  RDR,        \* the receive data register, 0 when empty
  armed,      \* RxState is BUSY_RX: the receive interrupt is enabled
  in, out,    \* uart8_rbuf.in and .out
  buf,        \* uart8_rbuf.buf
  storeFirst, \* the build's order: out++ is stored before the slot is read
  reader,     \* where the shell is in rt_hw_console_getchar
  slot,       \* value of out it has loaded
  char,       \* the character it has loaded
  last, got,  \* history: last character put into the ring, last one returned
  gState,     \* huart8.gState
  Lock,       \* huart8.Lock
  printer     \* where each printing thread is in HAL_UART_Transmit

rxVars == <<typed, RDR, armed, storeFirst>>
ringVars == <<in, out, buf, last>>
readVars == <<reader, slot, char, got>>
txVars == <<gState, Lock, printer>>
vars == <<rxVars, ringVars, readVars, txVars>>

Slots == 0 .. UART8_RBUF_SIZE - 1

(* p->in - p->out of two unsigned numbers                                  *)
Used == (in - out + UintMax) % UintMax

Init ==
  /\ typed = 0 /\ RDR = 0 /\ armed = TRUE
  /\ in = 0 /\ out = 0
  /\ buf = [i \in Slots |-> 0]
  /\ storeFirst \in BOOLEAN
  /\ reader = "idle" /\ slot = 0 /\ char = 0
  /\ last = 0 /\ got = 0
  /\ gState = "ready" /\ Lock = FALSE
  /\ printer = [p \in Printers |-> "idle"]

-----------------------------------------------------------------------------
(* A character arrives; one that finds RDR full is lost (overrun).         *)
Type ==
  /\ typed < MaxTyped
  /\ typed' = typed + 1
  /\ RDR' = IF RDR = 0 THEN typed' ELSE RDR
  /\ UNCHANGED <<armed, storeFirst, ringVars, readVars, txVars>>

(* Mutated form of Put: a full ring is one that holds one more character.  *)
PutLate ==
  IF Used <= UART8_RBUF_SIZE
  THEN /\ buf' = [buf EXCEPT ![in % UART8_RBUF_SIZE] = RDR]
       /\ in' = (in + 1) % UintMax
       /\ last' = RDR
  ELSE UNCHANGED <<buf, in, last>>

(* UART_RxChar                                                             *)
Put ==
  IF Used < UART8_RBUF_SIZE
  THEN /\ buf' = [buf EXCEPT ![in % UART8_RBUF_SIZE] = RDR]
       /\ in' = (in + 1) % UintMax
       /\ last' = RDR
  ELSE UNCHANGED <<buf, in, last>>

(* UART8_IRQHandler, UART_RxISR_8BIT and HAL_UART_RxCpltCallback: the       *)
(* reception is over and is started again, unless the handle is locked.    *)
(* (After an overrun the error callback starts it in the same way.)        *)
Receive ==
  /\ armed /\ RDR # 0
  /\ Put
  /\ RDR' = 0
  /\ armed' = ~Lock
  /\ UNCHANGED <<typed, storeFirst, out, readVars, txVars>>

-----------------------------------------------------------------------------
(* rt_hw_console_getchar: UART_GetChar is compiled in one of two orders.   *)

(* Mutated form of IsEmpty: the masked indices are compared.               *)
IsEmptyMasked == in % UART8_RBUF_SIZE = out % UART8_RBUF_SIZE

IsEmpty == in = out

(* Mutated form of Load: the ring is not asked whether it is empty.        *)
LoadAnyway ==
  /\ reader = "idle"
  /\ slot' = out
  /\ reader' = IF storeFirst THEN "store" ELSE "read"
  /\ UNCHANGED <<rxVars, ringVars, char, got, txVars>>

Load ==
  /\ reader = "idle"
  /\ ~IsEmpty
  /\ slot' = out
  /\ reader' = IF storeFirst THEN "store" ELSE "read"
  /\ UNCHANGED <<rxVars, ringVars, char, got, txVars>>

StoreOutFirst ==
  /\ reader = "store"
  /\ out' = (slot + 1) % UintMax
  /\ reader' = "readlast"
  /\ UNCHANGED <<rxVars, in, buf, last, slot, char, got, txVars>>

ReadSlotLast ==
  /\ reader = "readlast"
  /\ got' = buf[slot % UART8_RBUF_SIZE]
  /\ reader' = "idle"
  /\ UNCHANGED <<rxVars, ringVars, slot, char, txVars>>

ReadSlot ==
  /\ reader = "read"
  /\ char' = buf[slot % UART8_RBUF_SIZE]
  /\ reader' = "storelast"
  /\ UNCHANGED <<rxVars, ringVars, slot, got, txVars>>

StoreOutLast ==
  /\ reader = "storelast"
  /\ out' = (slot + 1) % UintMax
  /\ got' = char
  /\ reader' = "idle"
  /\ UNCHANGED <<rxVars, in, buf, last, slot, char, txVars>>

Reader == Load \/ StoreOutFirst \/ ReadSlotLast \/ ReadSlot \/ StoreOutLast

-----------------------------------------------------------------------------
(* HAL_UART_Transmit of one character, from a thread; a thread of higher   *)
(* priority may run at any point.                                          *)

Step(p, from, to) ==
  /\ printer[p] = from
  /\ \A q \in Printers : q > p => printer[q] = "idle"
  /\ printer' = [printer EXCEPT ![p] = to]

(* gState is tested before the handle is locked.                           *)
Enter(p) ==
  /\ Step(p, "idle", "lock")
  /\ gState = "ready"
  /\ UNCHANGED <<rxVars, ringVars, readVars, gState, Lock>>

TakeLock(p) ==
  /\ Step(p, "lock", IF Lock THEN "idle" ELSE "locked")
  /\ Lock' = TRUE
  /\ UNCHANGED <<rxVars, ringVars, readVars, gState>>

(* Mutated form of Unlock: the handle stays locked while it transmits.     *)
UnlockNot(p) ==
  /\ Step(p, "locked", "sending")
  /\ gState' = "busy"
  /\ UNCHANGED <<rxVars, ringVars, readVars, Lock>>

Unlock(p) ==
  /\ Step(p, "locked", "sending")
  /\ gState' = "busy"
  /\ Lock' = FALSE
  /\ UNCHANGED <<rxVars, ringVars, readVars>>

Sent(p) ==
  /\ Step(p, "sending", "idle")
  /\ gState' = "ready"
  /\ UNCHANGED <<rxVars, ringVars, readVars, Lock>>

(* A thread that was kept from the processor for the 10 ms of its timeout   *)
(* ends the reception along with its transmission.                         *)
TimesOut(p) ==
  /\ Timeouts
  /\ Step(p, "sending", "idle")
  /\ gState' = "ready"
  /\ Lock' = FALSE
  /\ armed' = FALSE
  /\ UNCHANGED <<typed, RDR, storeFirst, ringVars, readVars>>

Transmit(p) == TakeLock(p) \/ Unlock(p) \/ Sent(p) \/ TimesOut(p)

Next == Type \/ Receive \/ Reader \/ \E p \in Printers : Enter(p) \/ Transmit(p)

Spec == Init /\ [][Next]_vars

(* The interrupt is served, the shell polls, and a transmission ends.      *)
FairSpec ==
  /\ Spec
  /\ WF_vars(Receive)
  /\ WF_vars(Reader)
  /\ \A p \in Printers : WF_vars(Transmit(p))

-----------------------------------------------------------------------------
(* Properties                                                              *)

(* The types; the ring never holds more characters than it has slots,      *)
(* however often in and out have wrapped.                                  *)
TypeOK ==
  /\ typed \in Nat /\ RDR \in Nat /\ armed \in BOOLEAN /\ storeFirst \in BOOLEAN
  /\ in \in 0 .. UintMax - 1 /\ out \in 0 .. UintMax - 1
  /\ buf \in [Slots -> Nat]
  /\ reader \in {"idle", "store", "readlast", "read", "storelast"}
  /\ slot \in 0 .. UintMax - 1 /\ char \in Nat
  /\ last \in Nat /\ got \in Nat
  /\ gState \in {"ready", "busy"} /\ Lock \in BOOLEAN
  /\ printer \in [Printers -> {"idle", "lock", "locked", "sending"}]
  /\ Used <= UART8_RBUF_SIZE

(* The queue the ring stands for.  A reader that has stored out and not    *)
(* yet read the slot has already taken the character.                      *)
Queue ==
  [i \in 1 .. Used |-> buf[(out + i - 1) % UART8_RBUF_SIZE]]
Got == IF reader = "readlast" THEN buf[slot % UART8_RBUF_SIZE] ELSE got

AbstractQueue ==
  INSTANCE CharQueue WITH
    Size <- UART8_RBUF_SIZE, early <- storeFirst, queue <- Queue,
    handing <- reader = "readlast", got <- Got

(* The ring behaves as a queue: characters are read once and in order.  A   *)
(* build that stores out before it reads the slot has one exception, and it *)
(* has no other: when the ring fills up in between, the newest character is *)
(* read in place of the oldest.                                            *)
IsQueue == AbstractQueue!Spec

(* huart8 is locked only by a thread that will unlock it.                  *)
LockIsHeld == Lock => \E p \in Printers : printer[p] = "locked"

(* A character that is in the ring is eventually handed to the shell; only  *)
(* in a build that stores out first may a later one be in its place.        *)
EveryCharRead ==
  \A c \in 1 .. MaxTyped : last = c ~> got = c \/ (storeFirst /\ got > c)

(* The interrupt starts the next reception, as the comment at the call     *)
(* says ("start receiving").                                               *)
ReceptionRestarts == []<>armed
=============================================================================
