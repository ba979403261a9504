------------------------------ MODULE FileStore ------------------------------
(***************************************************************************)
(* What the volume promises the recorder: one file is open at a time, it    *)
(* begins empty and grows at its end; a close that succeeds stores it as it *)
(* is then; a stored file is what it was until a file of its name is        *)
(* created, and a reset loses the open file only.                           *)
(***************************************************************************)
EXTENDS Integers

CONSTANTS File,     \* file numbers
          Chunk     \* the most sectors that one write to the card adds

VARIABLES stored,   \* what the volume keeps of each file
          open      \* the file that is being recorded

vars == <<stored, open>>

Lost == [kept |-> FALSE, sectors |-> <<>>]
Whole(n, size) == [kept |-> TRUE, sectors |-> [i \in 0 .. size - 1 |-> <<n, i>>]]
Shut == [open |-> FALSE, name |-> 0, size |-> 0]
Empty(n) == [open |-> TRUE, name |-> n, size |-> 0]

Init == stored = [n \in File |-> Lost] /\ open = Shut

\* f_open of a file that exists: the old one is gone before the new one is open.
Discard(n) == /\ ~open.open /\ UNCHANGED open
              /\ stored' = [stored EXCEPT ![n] = Lost]
Begin(n) == /\ ~open.open /\ open' = Empty(n)
            /\ stored[n] = Lost /\ UNCHANGED stored
Create(n) == /\ ~open.open /\ open' = Empty(n)
             /\ stored' = [stored EXCEPT ![n] = Lost]

Extend == /\ open.open /\ \E k \in 1 .. Chunk : open' = [open EXCEPT !.size = @ + k]
          /\ UNCHANGED stored
Close == /\ open.open /\ open' = Shut
         /\ stored' = [stored EXCEPT ![open.name] = Whole(open.name, open.size)]
Crash == open' = Shut /\ UNCHANGED stored

Next == \/ \E n \in File : Discard(n) \/ Begin(n) \/ Create(n)
        \/ Extend \/ Close \/ Crash

Spec == Init /\ [][Next]_vars
=============================================================================
