------------------------------ MODULE RtKernel ------------------------------
(***************************************************************************)
(* The RT-Thread Nano kernel the program runs on: the ready lists and their *)
(* bitmap, rt_schedule, the scheduler lock, the thread timers and the tick, *)
(* a semaphore, and the switch of contexts in PendSV.                      *)
(*                                                                         *)
(* An action is one critical section (rt_hw_interrupt_disable to           *)
(* rt_hw_interrupt_enable), and an interrupt can come between two of them. *)
(* SysTick and PendSV have the lowest priority of the NVIC (board.c:41,    *)
(* context_rvds.S:189), so neither interrupts the other and PendSV goes    *)
(* first; every device interrupt has priority 0, so a device interrupts    *)
(* the tick handler and nothing interrupts a device.                       *)
(***************************************************************************)
EXTENDS KernelLists, FiniteSets, SequencesExt

CONSTANTS Thread,       \* the threads, the idle thread among them
          Idle,         \* the thread of priority RT_THREAD_PRIORITY_MAX - 1
          First,        \* the thread that starts the others (main)
          Prio,         \* current_priority of each thread, 0 the highest
          Slice,        \* init_tick of each thread
          Timeout,      \* the times that callers ask for, in ticks
          TickWrap,     \* rt_tick counts modulo TickWrap (2^32)
          MaxValue      \* bound: releases a semaphore accumulates

ASSUME KernelAssumption ==
    /\ Idle \in Thread /\ First \in Thread /\ First # Idle
    /\ Prio \in [Thread -> Nat] /\ Slice \in [Thread -> Nat \ {0}]
    /\ \A t \in Thread \ {Idle} : Prio[t] < Prio[Idle]
    /\ TickWrap \in Nat \ {0} /\ MaxValue \in Nat
    /\ \A n \in Timeout : n \in Nat \ {0} /\ n < (TickWrap - 1) \div 2

VARIABLES
    tick,           \* rt_tick
    stat,           \* thread->stat
    ready,          \* rt_thread_priority_table
    group,          \* the bits set in rt_thread_ready_priority_group
    current,        \* rt_current_thread
    lockNest,       \* rt_scheduler_lock_nest
    value,          \* sem->value
    suspended,      \* sem->parent.suspend_thread
    timers,         \* rt_timer_list, threads standing for their thread_timer
    active,         \* the threads whose timer is flagged ACTIVATED
    due,            \* timer->timeout_tick, 0 for a timer that is stopped
    error,          \* thread->error, "EOK" once the call has returned
    remaining,      \* thread->remaining_tick
    pc,             \* where each thread stands in its own code
    handler,        \* where the tick handler stands, and the thread it charges
    cpu,            \* the thread whose registers are in the CPU
    switchFlag,     \* rt_thread_switch_interrupt_flag, with PendSV pending
    fromThread,     \* rt_interrupt_from_thread
    toThread,       \* rt_interrupt_to_thread
    limit, waited   \* what the caller of a timed call asked for, and waited

lists == <<stat, ready, group>>
wait == <<suspended, timers, active, due, limit, waited>>
switch == <<current, switchFlag, fromThread, toThread>>
vars == <<tick, lists, wait, switch, lockNest, value, error, remaining, pc,
          handler, cpu>>

Priority == {Prio[t] : t \in Thread}
Never == -1
HalfTick == (TickWrap - 1) \div 2       \* RT_TICK_MAX / 2
NoTick == [at |-> "none", thread |-> Idle]

Init ==
    /\ tick = 0
    /\ stat = [t \in Thread |-> IF t \in {Idle, First} THEN "ready" ELSE "init"]
    /\ ready = [p \in Priority |-> CASE p = Prio[Idle] -> <<Idle>>
                                     [] p = Prio[First] -> <<First>>
                                     [] OTHER -> <<>>]
    /\ group = {Prio[Idle], Prio[First]}
    /\ current = First /\ cpu = First
    /\ switchFlag = FALSE /\ fromThread = First /\ toThread = First
    /\ lockNest = 0
    /\ value = 0 /\ suspended = <<>>
    /\ timers = <<>> /\ active = {} /\ due = [t \in Thread |-> 0]
    /\ error = [t \in Thread |-> "EOK"]
    /\ remaining = Slice
    /\ pc = [t \in Thread |-> "run"]
    /\ handler = NoTick
    /\ limit = [t \in Thread |-> Never] /\ waited = [t \in Thread |-> 0]

-----------------------------------------------------------------------------
(* The helpers that every call is made of.                                  *)

(* a - b in the unsigned arithmetic of rt_tick_t.                           *)
Elapsed(a, b) == (a - b) % TickWrap

(* The thread that has waited longest at the highest ready priority.        *)
Candidate(rdy, grp) == Head(rdy[CHOOSE p \in grp : \A q \in grp : p <= q])

(* Mutated form of Schedule: a pending switch forgets whom it comes from. *)
ScheduleFromCurrent(rdy, grp) ==
    LET to == Candidate(rdy, grp)
    IN IF lockNest = 0 /\ to # current
       THEN current' = to /\ toThread' = to /\ fromThread' = current /\ switchFlag' = TRUE
       ELSE UNCHANGED switch

(* rt_schedule, seen from inside a critical section that leaves the ready   *)
(* lists as rdy and their bitmap as grp. A switch that is already pending   *)
(* keeps the thread it comes from.                                          *)
Schedule(rdy, grp) ==
    LET to == Candidate(rdy, grp)
    IN IF lockNest = 0 /\ to # current
       THEN /\ current' = to
            /\ toThread' = to
            /\ fromThread' = IF switchFlag THEN fromThread ELSE current
            /\ switchFlag' = TRUE
       ELSE UNCHANGED switch

(* rt_thread_resume of each thread of ws in turn: off the suspend list,     *)
(* timer stopped, to the end of the ready list of its priority.             *)
Resume(ws) ==
    LET W == Range(ws)
        stopped(f, z) == [t \in Thread |-> IF t \in W THEN z ELSE f[t]]
    IN /\ suspended' = Without(suspended, W)
       /\ timers' = Without(timers, W)
       /\ active' = active \ W
       /\ due' = stopped(due, 0)
       /\ limit' = stopped(limit, Never)
       /\ waited' = stopped(waited, 0)
       /\ stat' = stopped(stat, "ready")
       /\ ready' = [p \in Priority |->
                       ready[p] \o Without(ws, {t \in Thread : Prio[t] # p})]
       /\ group' = group \cup {Prio[t] : t \in W}

(* Mutated form of Suspend: the bit of an emptied list stays set. *)
SuspendKeepsBit(t) ==
    /\ stat' = [stat EXCEPT ![t] = "suspend"]
    /\ ready' = [ready EXCEPT ![Prio[t]] = Without(@, {t})]
    /\ UNCHANGED group

(* rt_thread_suspend of the running thread t.                               *)
Suspend(t) ==
    LET left == Without(ready[Prio[t]], {t})
    IN /\ stat' = [stat EXCEPT ![t] = "suspend"]
       /\ ready' = [ready EXCEPT ![Prio[t]] = left]
       /\ group' = IF left = <<>> THEN group \ {Prio[t]} ELSE group

(* Mutated form of PlaceFor: timers in the order they start. *)
PlaceAtEnd(at) == Len(timers) + 1

(* The place rt_timer_start finds: before the first timer that is due later *)
(* than at, so behind those due at the same tick.                           *)
PlaceFor(at) ==
    LET later == {i \in DOMAIN timers :
                     /\ due[timers[i]] # at
                     /\ Elapsed(due[timers[i]], at) < HalfTick}
    IN IF later = {} THEN Len(timers) + 1
       ELSE CHOOSE i \in later : \A j \in later : i <= j

(* rt_timer_control(SET_TIME) and rt_timer_start of the timer of t.         *)
StartTimer(t, n) ==
    LET at == (tick + n) % TickWrap
    IN /\ timers' = InsertAt(timers, PlaceFor(at), t)
       /\ active' = active \cup {t}
       /\ due' = [due EXCEPT ![t] = at]
       /\ limit' = [limit EXCEPT ![t] = n]
       /\ UNCHANGED waited

Goto(t, where) == pc' = [pc EXCEPT ![t] = where]
-----------------------------------------------------------------------------
(* What a thread does between two interrupts.                               *)

Runs(t) == cpu = t /\ ~switchFlag /\ handler.at = "none"

(* A thread other than idle is in its own code and may call the kernel.     *)
Calls(t) == Runs(t) /\ pc[t] = "run" /\ t # Idle

(* rt_thread_startup by a running thread.                                   *)
Startup(t, u) ==
    /\ Calls(t) /\ stat[u] = "init"
    /\ Resume(<<u>>)
    /\ Goto(t, "sched")
    /\ UNCHANGED <<tick, switch, lockNest, value, error, remaining, handler, cpu>>

(* rt_sem_take that finds a token.                                          *)
TakeNow(t) ==
    /\ Calls(t) /\ value > 0
    /\ value' = value - 1
    /\ UNCHANGED <<tick, lists, wait, switch, lockNest, error, remaining, pc,
                   handler, cpu>>

(* rt_sem_take that finds none and may wait (with time = 0 it returns       *)
(* -RT_ETIMEOUT and changes nothing).                                       *)
TakeBlock(t, n) ==
    /\ Calls(t) /\ value = 0
    /\ error' = [error EXCEPT ![t] = "EOK"]
    /\ Suspend(t)
    /\ suspended' = Append(suspended, t)
    /\ IF n = Never THEN UNCHANGED <<timers, active, due, limit, waited>>
                    ELSE StartTimer(t, n)
    /\ Goto(t, "take_sched")
    /\ UNCHANGED <<tick, switch, lockNest, value, remaining, handler, cpu>>

(* rt_thread_sleep, up to its rt_schedule.                                  *)
Sleep(t, n) ==
    /\ Calls(t)
    /\ Suspend(t)
    /\ StartTimer(t, n)
    /\ Goto(t, "sleep_sched")
    /\ UNCHANGED <<tick, suspended, switch, lockNest, value, error, remaining,
                   handler, cpu>>

(* The critical section of rt_sem_release: the oldest waiter, or the value. *)
ReleaseSem ==
    IF suspended # <<>>
    THEN Resume(<<Head(suspended)>>) /\ UNCHANGED value
    ELSE value < MaxValue /\ value' = value + 1 /\ UNCHANGED <<lists, wait>>

Release(t) ==
    /\ Calls(t)
    /\ ReleaseSem
    /\ Goto(t, IF suspended # <<>> THEN "sched" ELSE "run")
    /\ UNCHANGED <<tick, switch, lockNest, error, remaining, handler, cpu>>

(* rt_sem_control(RESET, 0): everybody who waits leaves with -RT_ERROR.     *)
Reset(t) ==
    /\ Calls(t)
    /\ error' = [u \in Thread |-> IF u \in Range(suspended) THEN "ERROR"
                                                            ELSE error[u]]
    /\ Resume(suspended)
    /\ value' = 0
    /\ Goto(t, "sched")
    /\ UNCHANGED <<tick, switch, lockNest, remaining, handler, cpu>>

(* rt_enter_critical and rt_exit_critical, around code that calls nothing   *)
(* of the kernel, as in object.c, rt_thread_find and the idle thread.       *)
EnterCritical(t) ==
    /\ Calls(t)
    /\ lockNest' = lockNest + 1
    /\ Goto(t, "locked")
    /\ UNCHANGED <<tick, lists, wait, switch, value, error, remaining, handler, cpu>>

(* Mutated form of ExitCritical: unlocks without rt_schedule. *)
ExitCriticalOnly(t) ==
    /\ Runs(t) /\ pc[t] = "locked"
    /\ lockNest' = lockNest - 1
    /\ Goto(t, "run")
    /\ UNCHANGED <<tick, lists, wait, switch, value, error, remaining, handler, cpu>>

ExitCritical(t) ==
    /\ Runs(t) /\ pc[t] = "locked"
    /\ lockNest' = lockNest - 1
    /\ Goto(t, "sched")
    /\ UNCHANGED <<tick, lists, wait, switch, value, error, remaining, handler, cpu>>

(* The rt_schedule at the end of a call.                                    *)
CallSchedule(t) ==
    /\ Runs(t) /\ pc[t] \in {"sched", "take_sched", "sleep_sched"}
    /\ Schedule(ready, group)
    /\ Goto(t, CASE pc[t] = "sched" -> "run"
                 [] pc[t] = "take_sched" -> "take_ret"
                 [] pc[t] = "sleep_sched" -> "sleep_ret")
    /\ UNCHANGED <<tick, lists, wait, lockNest, value, error, remaining, handler, cpu>>

(* The blocking call returns, with the error it finds.                      *)
Return(t) ==
    /\ Runs(t) /\ pc[t] \in {"take_ret", "sleep_ret"}
    /\ error' = [error EXCEPT ![t] = "EOK"]
    /\ Goto(t, "run")
    /\ UNCHANGED <<tick, lists, wait, switch, lockNest, value, remaining, handler, cpu>>
-----------------------------------------------------------------------------
(* Interrupts.                                                              *)

(* rt_tick_increase, one action for each stretch a device can interrupt.    *)
TickEnter ==
    /\ handler.at = "none" /\ ~switchFlag
    /\ tick' = (tick + 1) % TickWrap
    /\ waited' = [t \in Thread |-> IF t \in active THEN waited[t] + 1
                                                   ELSE waited[t]]
    /\ handler' = [at |-> "slice", thread |-> current]
    /\ UNCHANGED <<lists, suspended, timers, active, due, limit, switch,
                   lockNest, value, error, remaining, pc, cpu>>

(* Mutated form of TickSlice: a used slice is not renewed. *)
TickSliceNoReload ==
    /\ handler.at = "slice"
    /\ remaining' = [remaining EXCEPT ![handler.thread] = @ - 1]
    /\ handler' = [handler EXCEPT
                      !.at = IF remaining[handler.thread] = 1 THEN "yield" ELSE "check"]
    /\ UNCHANGED <<tick, lists, wait, switch, lockNest, value, error, pc, cpu>>

TickSlice ==
    LET t == handler.thread
        over == remaining[t] = 1
    IN /\ handler.at = "slice"
       /\ remaining' = [remaining EXCEPT ![t] = IF over THEN Slice[t] ELSE @ - 1]
       /\ handler' = [handler EXCEPT !.at = IF over THEN "yield" ELSE "check"]
       /\ UNCHANGED <<tick, lists, wait, switch, lockNest, value, error, pc, cpu>>

(* rt_thread_yield: the running thread to the end of its ready list, when   *)
(* it is ready and has company there.                                       *)
TickYield ==
    LET peers == ready[Prio[current]]
        rotates == stat[current] = "ready" /\ Len(peers) > 1
    IN /\ handler.at = "yield"
       /\ ready' = IF rotates
                   THEN [ready EXCEPT ![Prio[current]] =
                            Append(Without(peers, {current}), current)]
                   ELSE ready
       /\ handler' = [handler EXCEPT !.at = IF rotates THEN "sched" ELSE "check"]
       /\ UNCHANGED <<tick, stat, group, wait, switch, lockNest, value, error,
                      remaining, pc, cpu>>

(* Mutated form of TickSchedule: yields without rt_schedule. *)
TickScheduleNone ==
    /\ handler.at = "sched"
    /\ handler' = [handler EXCEPT !.at = "check"]
    /\ UNCHANGED <<tick, lists, wait, switch, lockNest, value, error, remaining, pc, cpu>>

TickSchedule ==
    /\ handler.at = "sched"
    /\ Schedule(ready, group)
    /\ handler' = [handler EXCEPT !.at = "check"]
    /\ UNCHANGED <<tick, lists, wait, lockNest, value, error, remaining, pc, cpu>>

(* Mutated form of IsDue: the ticks compared as numbers. *)
IsDueNoWrap(t) == tick >= due[t]

(* rt_timer_check takes timers off the head of the list until one is not    *)
(* due; rt_thread_timeout makes their threads ready and calls rt_schedule   *)
(* for each, which comes to calling it once, since no step lowers the       *)
(* priority of the head of the ready lists.                                 *)
IsDue(t) == Elapsed(tick, due[t]) < HalfTick

Fired ==
    LET waiting == {i \in DOMAIN timers : ~IsDue(timers[i])}
    IN IF waiting = {} THEN timers
       ELSE SubSeq(timers, 1, (CHOOSE i \in waiting : \A j \in waiting : i <= j) - 1)

TickCheck ==
    /\ handler.at = "check"
    /\ error' = [t \in Thread |-> IF t \in Range(Fired) THEN "ETIMEOUT" ELSE error[t]]
    /\ Resume(Fired)
    /\ IF Fired = <<>> THEN UNCHANGED switch ELSE Schedule(ready', group')
    /\ handler' = NoTick
    /\ UNCHANGED <<tick, lockNest, value, remaining, pc, cpu>>

(* A device handler that releases the semaphore (DMA, UART8).               *)
DeviceRelease ==
    /\ ReleaseSem
    /\ IF suspended = <<>> THEN UNCHANGED switch ELSE Schedule(ready', group')
    /\ UNCHANGED <<tick, lockNest, error, remaining, pc, handler, cpu>>

(* PendSV_Handler: registers of the CPU to the stack of fromThread, those   *)
(* of toThread into the CPU.                                                *)
PendSV ==
    /\ switchFlag /\ handler.at = "none"
    /\ switchFlag' = FALSE
    /\ cpu' = toThread
    /\ UNCHANGED <<tick, lists, wait, current, fromThread, toThread, lockNest,
                   value, error, remaining, pc, handler>>

Call(t) ==
    \/ \E u \in Thread : Startup(t, u)
    \/ TakeNow(t) \/ Release(t) \/ Reset(t) \/ EnterCritical(t)
    \/ \E n \in Timeout \cup {Never} : TakeBlock(t, n)
    \/ \E n \in Timeout : Sleep(t, n)

(* What a thread goes on to do once it is inside the kernel.                *)
Continue(t) == CallSchedule(t) \/ Return(t) \/ ExitCritical(t)

TickHandler == TickSlice \/ TickYield \/ TickSchedule \/ TickCheck

Next ==
    \/ \E t \in Thread : Call(t) \/ Continue(t)
    \/ TickEnter \/ TickHandler \/ DeviceRelease \/ PendSV

(* The tick comes again and again and its handler ends; PendSV is taken;    *)
(* calls that are in the kernel go on, however often they are interrupted:  *)
(* of whichever thread has the CPU. No fairness for beginning a call, nor   *)
(* for devices: a thread may compute for ever.                              *)
Fairness ==
    /\ SF_vars(TickEnter) /\ WF_vars(TickHandler) /\ WF_vars(PendSV)
    /\ SF_vars(\E t \in Thread : Continue(t))

Spec == Init /\ [][Next]_vars
FairSpec == Spec /\ Fairness
-----------------------------------------------------------------------------
\* The types; each list holds a thread or a timer at most once.
TypeOK ==
    /\ tick \in 0 .. TickWrap - 1
    /\ stat \in [Thread -> {"init", "ready", "suspend"}]
    /\ ready \in [Priority -> Seq(Thread)]
    /\ suspended \in Seq(Thread) /\ timers \in Seq(Thread)
    /\ group \subseteq Priority
    /\ {current, cpu, fromThread, toThread} \subseteq Thread
    /\ switchFlag \in BOOLEAN
    /\ lockNest \in {0, 1}
    /\ value \in 0 .. MaxValue
    /\ active \subseteq Thread
    /\ due \in [Thread -> 0 .. TickWrap - 1]
    /\ limit \in [Thread -> Timeout \cup {Never}] /\ waited \in [Thread -> Nat]
    /\ error \in [Thread -> {"EOK", "ETIMEOUT", "ERROR"}]
    /\ remaining \in [Thread -> Nat]
    /\ \A t \in Thread : remaining[t] \in 1 .. Slice[t]
    /\ pc \in [Thread -> {"run", "sched", "locked", "take_sched", "take_ret",
                          "sleep_sched", "sleep_ret"}]
    /\ handler \in [at : {"none", "slice", "yield", "sched", "check"},
                    thread : Thread]

(* Every thread is on exactly the list its state says, once, and the bitmap *)
(* that rt_schedule reads names exactly the priorities with a ready thread. *)
ReadyTable ==
    /\ \A p \in Priority :
          /\ Distinct(ready[p])
          /\ Range(ready[p]) = {t \in Thread : stat[t] = "ready" /\ Prio[t] = p}
          /\ p \in group <=> ready[p] # <<>>
    /\ Distinct(suspended)

(* rt_timer_check stops at the first timer that is not due: the list is in  *)
(* the order of the due ticks although the counter wraps, counted from the  *)
(* tick that is being handled.                                              *)
TimersInOrder ==
    \A i, j \in DOMAIN timers : i < j =>
        Elapsed(due[timers[i]], tick - 1) <= Elapsed(due[timers[j]], tick - 1)

(* A thread that is suspended will be found by whoever must wake it: it is  *)
(* on the semaphore's list, where nobody waits while there is a token, or   *)
(* its timer runs, at its place in the list of timers. The armed timers     *)
(* belong to suspended threads only (the assertion of rt_thread_timeout,    *)
(* thread.c:739).                                                           *)
NobodyStranded ==
    /\ \A t \in Thread :
          stat[t] = "suspend" <=> t \in Range(suspended) \/ t \in active
    /\ active = Range(timers) /\ Distinct(timers)
    /\ TimersInOrder
    /\ value > 0 => suspended = <<>>

(* Once no rt_schedule is outstanding, the CPU belongs to the thread that   *)
(* has waited longest at the highest ready priority.                        *)
HighestRuns ==
    (/\ handler.at = "none" /\ ~switchFlag /\ lockNest = 0
     /\ pc[cpu] \notin {"sched", "take_sched", "sleep_sched"})
    => \A p \in group : p >= Prio[cpu] /\ cpu = Head(ready[Prio[cpu]])

(* PendSV saves the registers of the CPU as those of fromThread: however    *)
(* many handlers have rescheduled since the switch became pending, that is  *)
(* the thread that was running; and the thread that runs afterwards is the  *)
(* one the kernel calls current.                                            *)
ContextSaved ==
    IF switchFlag THEN fromThread = cpu /\ toThread = current ELSE cpu = current

(* What a caller of rt_sem_take or rt_thread_mdelay sees of its call.       *)
PhaseOf(t) ==
    CASE pc[t] \in {"take_sched", "take_ret"} ->
            (IF t \in Range(suspended) THEN "waiting"
             ELSE CASE error[t] = "EOK" -> "granted"
                    [] error[t] = "ETIMEOUT" -> "timeout"
                    [] OTHER -> "aborted")
      [] pc[t] \in {"sleep_sched", "sleep_ret"} ->
            (IF stat[t] = "suspend" THEN "asleep" ELSE "rested")
      [] OTHER -> "idle"

Promise == INSTANCE BlockingCalls WITH
    tokens <- value, queue <- suspended, phase <- [t \in Thread |-> PhaseOf(t)]

(* The blocking calls keep what they promise, whatever list operations, tick*)
(* handlers and switches they are made of: a token goes to the thread that  *)
(* has waited longest, a call times out at its tick and not before, and no  *)
(* token is lost or given twice (ipc.c:322-469, timer.c:494-553).           *)
CallsKeepPromise == Promise!Spec

(* The threads of the highest priority there is.                            *)
TopPriority == {t \in Thread : \A u \in Thread : Prio[t] <= Prio[u]}

(* Threads of one priority share the CPU by their time slices: each thread  *)
(* of the highest priority that is ready gets to run, even when its peers   *)
(* never block. That takes device interrupts that do not hit the tick       *)
(* handler for ever: one that reschedules between rt_thread_self and        *)
(* rt_thread_yield (clock.c:75-84) makes the handler charge the slice of    *)
(* the thread that was running and send the one that was to run, not the    *)
(* other, to the end of its list.                                           *)
PeersShareCpu ==
    <>[][DeviceRelease => handler.at = "none"]_vars =>
        \A t \in TopPriority : stat[t] = "ready" ~> (cpu = t \/ stat[t] # "ready")
=============================================================================
