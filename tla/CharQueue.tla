----------------------------- MODULE CharQueue -----------------------------
(***************************************************************************)
(* What the shell may expect of its console: a queue of bounded length.    *)
(* Characters are numbered as they are typed; some never arrive, but those *)
(* that do are read once and in the order in which they were typed.  There *)
(* is one exception, for a console that frees the place of a character     *)
(* before it hands the character out: when the queue fills up in between,  *)
(* the newest character is handed out in its stead.                        *)
(***************************************************************************)
EXTENDS Integers, Sequences

CONSTANTS Size, MaxTyped

VARIABLES
  early,    \* the console frees a place before it hands the character out
  queue,    \* characters received and not yet read
  handing,  \* a place is free whose character is still to be handed out
  last,     \* the last one received
  got       \* the last one read

vars == <<early, queue, handing, last, got>>

Init ==
  /\ early \in BOOLEAN
  /\ queue = <<>> /\ last = 0 /\ got = 0
  /\ handing = FALSE

Put ==
  \E c \in last + 1 .. MaxTyped :
    /\ Len(queue) < Size
    /\ queue' = Append(queue, c)
    /\ last' = c
    /\ got' = IF handing /\ Len(queue) = Size - 1 THEN c ELSE got
    /\ UNCHANGED <<early, handing>>

Get ==
  /\ queue # <<>>
  /\ got' = Head(queue)
  /\ queue' = Tail(queue)
  /\ handing' = early
  /\ UNCHANGED <<early, last>>

HandOut ==
  /\ handing' = FALSE
  /\ UNCHANGED <<early, queue, last, got>>

Next == Put \/ Get \/ HandOut

Spec == Init /\ [][Next]_vars
=============================================================================
