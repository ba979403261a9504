---------------------------- MODULE KernelLists ----------------------------
(***************************************************************************)
(* The doubly linked lists of the kernel (rtservice.h), as sequences: what *)
(* is common to the ready lists, the suspend list and the list of timers.  *)
(* A function instead of a recursive operator, for the proofs.             *)
(***************************************************************************)
EXTENDS Integers, Sequences

(* The list s after rt_list_remove of each of its nodes in S.               *)
Without(s, S) ==
    LET left[i \in 0 .. Len(s)] ==
            IF i = 0 THEN <<>>
            ELSE IF s[i] \in S THEN left[i - 1] ELSE Append(left[i - 1], s[i])
    IN left[Len(s)]

(* No node is on the list twice.                                            *)
Distinct(s) == \A i, j \in DOMAIN s : s[i] = s[j] => i = j
=============================================================================
