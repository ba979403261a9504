--------------------------- MODULE BlockingCalls ---------------------------
(***************************************************************************)
(* What the blocking calls of the kernel promise to a thread, without      *)
(* ready lists, timers or context switches: rt_sem_take, rt_sem_release,   *)
(* rt_sem_control(RESET) and rt_thread_sleep.                              *)
(*                                                                         *)
(* A take returns RT_EOK for a token that somebody released to it, never   *)
(* for one that another take also got; waiters are served in the order     *)
(* they came; a timed call is never late, and never early.                 *)
(***************************************************************************)
EXTENDS KernelLists, SequencesExt

CONSTANTS Thread,       \* the threads that call the kernel
          Timeout       \* the times, in ticks, they ask for

VARIABLES tokens,       \* releases nobody took yet
          queue,        \* the threads blocked in rt_sem_take, oldest first
          phase,        \* where the call of each thread stands
          limit,        \* ticks after which its timed call ends, or Never
          waited        \* ticks since its timed call began

vars == <<tokens, queue, phase, limit, waited>>

Never == -1

Blocked == {"waiting", "asleep"}
Woken == {"granted", "timeout", "aborted", "rested"}

Init ==
    /\ tokens = 0
    /\ queue = <<>>
    /\ phase = [t \in Thread |-> "idle"]
    /\ limit = [t \in Thread |-> Never]
    /\ waited = [t \in Thread |-> 0]

-----------------------------------------------------------------------------
(* S leaves its calls: each thread of S gets the result res[t], and its     *)
(* clock stops.                                                             *)
Wake(S, res) ==
    /\ queue' = Without(queue, S)
    /\ phase' = [t \in Thread |-> IF t \in S THEN res[t] ELSE phase[t]]
    /\ limit' = [t \in Thread |-> IF t \in S THEN Never ELSE limit[t]]
    /\ waited' = [t \in Thread |-> IF t \in S THEN 0 ELSE waited[t]]

(* A token is there: the call takes it and does not block.                  *)
Take ==
    /\ tokens > 0
    /\ tokens' = tokens - 1
    /\ UNCHANGED <<queue, phase, limit, waited>>

(* None is there: the thread joins the end of the queue.                    *)
Wait(t, n) ==
    /\ phase[t] = "idle" /\ tokens = 0
    /\ queue' = Append(queue, t)
    /\ phase' = [phase EXCEPT ![t] = "waiting"]
    /\ limit' = [limit EXCEPT ![t] = n]
    /\ UNCHANGED <<tokens, waited>>

Sleep(t, n) ==
    /\ phase[t] = "idle"
    /\ phase' = [phase EXCEPT ![t] = "asleep"]
    /\ limit' = [limit EXCEPT ![t] = n]
    /\ UNCHANGED <<tokens, queue, waited>>

(* A release serves the oldest waiter, and leaves a token when none waits.  *)
Post ==
    \/ /\ queue = <<>>
       /\ tokens' = tokens + 1
       /\ UNCHANGED <<queue, phase, limit, waited>>
    \/ /\ queue # <<>>
       /\ Wake({Head(queue)}, [t \in Thread |-> "granted"])
       /\ UNCHANGED tokens

(* RESET: everybody who waits goes away empty-handed, and so do the tokens. *)
Reset ==
    /\ tokens' = 0
    /\ Wake(Range(queue), [t \in Thread |-> "aborted"])

(* Time passes only while no call is overdue: none is late.                 *)
Tick ==
    /\ \A t \in Thread : limit[t] # Never => waited[t] < limit[t]
    /\ waited' = [t \in Thread |-> IF limit[t] # Never THEN waited[t] + 1
                                                       ELSE waited[t]]
    /\ UNCHANGED <<tokens, queue, phase, limit>>

(* Calls end for lack of time only when their time is over: none is early.  *)
Expire ==
    \E S \in SUBSET {t \in Thread : limit[t] # Never /\ waited[t] = limit[t]} :
        /\ Wake(S, [t \in Thread |-> IF phase[t] = "asleep" THEN "rested"
                                                            ELSE "timeout"])
        /\ UNCHANGED tokens

Return(t) ==
    /\ phase[t] \in Woken
    /\ phase' = [phase EXCEPT ![t] = "idle"]
    /\ UNCHANGED <<tokens, queue, limit, waited>>

Next ==
    \/ Take \/ Post \/ Reset \/ Tick \/ Expire
    \/ \E t \in Thread :
          \/ \E n \in Timeout \cup {Never} : Wait(t, n)
          \/ \E n \in Timeout : Sleep(t, n)
          \/ Return(t)

Spec == Init /\ [][Next]_vars

=============================================================================
