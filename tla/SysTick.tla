------------------------------ MODULE SysTick -------------------------------
(***************************************************************************)
(* The tick of Cortex-M: the SysTick driver (cortex_m_systick.c) with      *)
(* tickless idle, the idle thread (idle.c) and the interrupts that end an  *)
(* idle period (isr_wrapper.S), driving the timeout queue.                 *)
(*                                                                         *)
(* The counter is that of the hardware, and runs on while code executes,   *)
(* with interrupts locked or not.  A driver function takes no time, so the *)
(* skew it measures and corrects for is zero.  countflag is left out:      *)
(* sysTickStop() reads the register, which clears it, before               *)
(* _timer_idle_exit() tests it.                                            *)
(***************************************************************************)
EXTENDS TimeoutQ

CONSTANTS
  LoadValue,  \* default_load_value: a tick is one count more
  MaxCount,   \* largest value of the reload register, 0x00ffffff
  Threshold   \* CONFIG_TICKLESS_IDLE_THRESH

ASSUME SysTickAssumption ==
  /\ LoadValue \in Nat \ {0} /\ MaxCount \in Nat /\ MaxCount >= 2 * LoadValue
  /\ Threshold \in Nat /\ Threshold >= 2

VARIABLES
  hw,     \* the timer: [stcvr, strvr, pending]; it is stopped within driver functions alone
  mode,   \* the driver: [one_shot, tickless, count, ticks]
  cpu,    \* "run": threads and ISRs; "lock": idle thread, interrupts locked; "wfi": asleep
  idle    \* _kernel.idle, once asleep; before that, the ticks it will be

svars == <<tq, delta, ticking, hw, mode, cpu, idle>>

max_system_ticks == MaxCount \div LoadValue
max_load_value == max_system_ticks * LoadValue

Periodic == [one_shot |-> FALSE, tickless |-> FALSE, count |-> 0, ticks |-> 0]

\* sysTickReloadSet(n) and sysTickStart(): the counter takes the value with the next clock.
Reload(h, n) == LET c == n % (MaxCount + 1) IN [h EXCEPT !.strvr = c, !.stcvr = c]

\* _sys_clock_driver_init()
SysTickInit ==
  /\ Init
  /\ hw = [stcvr |-> LoadValue, strvr |-> LoadValue, pending |-> FALSE]
  /\ mode = Periodic
  /\ cpu = "run"
  /\ idle = 0

\* The counter: the interrupt is due when it gets to 0, and it starts again after that,
\* whatever the CPU does and however long the interrupt is held up.
clock ==
  /\ hw' = [hw EXCEPT !.stcvr = IF @ = 0 THEN hw.strvr ELSE @ - 1,
                      !.pending = @ \/ hw.stcvr = 1]
  /\ UNCHANGED <<tq, delta, ticking, mode, cpu, idle>>

(***************************************************************************)
(* Idle                                                                    *)
(***************************************************************************)

Tickless(ticks) == ticks = -1 \/ ticks >= Threshold

\* idle(): irq_lock(), and how long there is nothing to do.  No interrupt is due while
\* a thread runs with interrupts open.
idle_lock ==
  /\ cpu = "run" /\ ~ticking /\ ~hw.pending
  /\ cpu' = "lock"
  /\ idle' = get_next_timeout_expiry
  /\ UNCHANGED <<tq, delta, ticking, hw, mode>>

\* Mutant: an idle period of any length is programmed.
enter_unlimited(ticks) ==
  LET n == ticks - 1
  IN [one_shot |-> TRUE, tickless |-> TRUE, count |-> hw.stcvr + n * LoadValue, ticks |-> n]

\* _timer_idle_enter(): the ticks less one, on top of what is left of the current one
timer_idle_enter(ticks) ==
  LET n == IF ticks = -1 \/ ticks > max_system_ticks THEN max_system_ticks - 1 ELSE ticks - 1
  IN [one_shot |-> TRUE, tickless |-> TRUE, count |-> hw.stcvr + n * LoadValue, ticks |-> n]

\* _sys_power_save_idle() and the wait for an interrupt
sys_power_save_idle ==
  /\ cpu = "lock"
  /\ cpu' = "wfi"
  /\ IF Tickless(idle)
     THEN mode' = timer_idle_enter(idle) /\ hw' = Reload(hw, mode'.count)
     ELSE UNCHANGED <<mode, hw>>
  /\ UNCHANGED <<tq, delta, ticking, idle>>

\* Mutant: no special case on a tick boundary.
exit_on_boundary ==
  LET count == hw.stcvr
      elapsed == mode.count - count
      rest == elapsed % LoadValue
      ticks == elapsed \div LoadValue
  IN CASE ~mode.one_shot -> [hw |-> hw, mode |-> mode, ticks |-> -1]
       [] mode.one_shot /\ count = 0 ->
            [hw |-> Reload(hw, LoadValue), mode |-> Periodic, ticks |-> mode.ticks - 1]
       [] OTHER ->
            [hw |-> IF count > rest THEN Reload(hw, rest) ELSE hw,
             mode |-> IF rest = 0 THEN Periodic ELSE [mode EXCEPT !.tickless = FALSE],
             ticks |-> IF ticks = 0 THEN -1 ELSE ticks]

\* What _timer_idle_exit() makes of the timer and the driver, and the ticks it announces,
\* -1 for none.  The timer is left alone if it expires before the remaining time is up.
timer_idle_exit ==
  LET count == hw.stcvr
      elapsed == mode.count - count
      rest == elapsed % LoadValue
      ticks == elapsed \div LoadValue
  IN CASE ~mode.one_shot -> [hw |-> hw, mode |-> mode, ticks |-> -1]
       [] mode.one_shot /\ count = 0 ->
            [hw |-> Reload(hw, LoadValue), mode |-> Periodic, ticks |-> mode.ticks - 1]
       [] OTHER ->
            [hw |-> IF rest = 0 THEN Reload(hw, LoadValue)
                    ELSE IF count > rest THEN Reload(hw, rest) ELSE hw,
             mode |-> IF rest = 0 THEN Periodic ELSE [mode EXCEPT !.tickless = FALSE],
             ticks |-> IF ticks = 0 THEN -1 ELSE ticks]

Announce(n) == IF n = -1 THEN UNCHANGED qvars ELSE handle_expired_timeouts(n)

\* _isr_wrapper() of another interrupt, which ends the idle period
isr_wrapper ==
  /\ cpu = "wfi"
  /\ cpu' = "run"
  /\ idle' = 0
  /\ IF Tickless(idle)
     THEN LET x == timer_idle_exit IN hw' = x.hw /\ mode' = x.mode /\ Announce(x.ticks)
     ELSE UNCHANGED <<tq, delta, ticking, hw, mode>>

(***************************************************************************)
(* The tick                                                                *)
(***************************************************************************)

\* Mutant: the ticks of the idle period are announced whether or not it was cut short.
elapsed_at_interrupt_always == mode.ticks + 1

\* An idle period that was not cut short is over, or one more tick is.
elapsed_at_interrupt == IF mode.tickless THEN mode.ticks + 1 ELSE 1

\* _timer_int_handler(): back to periodic ticks if the timer was not; the call of
\* _sys_power_save_idle_exit() then finds nothing to do.
timer_int_handler ==
  /\ hw.pending /\ cpu # "lock" /\ ~ticking
  /\ hw' = [IF mode.one_shot THEN Reload(hw, LoadValue) ELSE hw EXCEPT !.pending = FALSE]
  /\ mode' = Periodic
  /\ Announce(elapsed_at_interrupt)
  /\ cpu' = "run" /\ idle' = 0

\* More ticks were announced than the first timeout had left.  Its delta can pass for the
\* sentinel, and a node that is linked be linked again: what the queue becomes is out of
\* the model, whose tick does not end.
Corrupt == tq # << >> /\ delta[Head(tq)] < 0

handle_timeouts ==
  /\ ~Corrupt
  /\ handle_timeouts_end \/ \E n \in 0..MaxTicks : handle_one_timeout(n)
  /\ UNCHANGED <<hw, mode, cpu, idle>>

\* Threads, ISRs and, during a tick, the callbacks of timeouts
users ==
  /\ cpu = "run" /\ ~Corrupt
  /\ \E t \in Timeout : Abort(t) \/ \E n \in 1..MaxTicks : Arm(t, n) \/ Rearm(t, n)
  /\ UNCHANGED <<hw, mode, cpu, idle>>

SysTickNext ==
  \/ clock \/ idle_lock \/ sys_power_save_idle \/ isr_wrapper \/ timer_int_handler
  \/ handle_timeouts \/ users

SysTickSpec == SysTickInit /\ [][SysTickNext]_svars

\* The counter counts; interrupts that are due and not locked are taken; code that runs
\* with interrupts locked ends.
SysTickFairSpec ==
  /\ SysTickSpec
  /\ WF_svars(clock) /\ WF_svars(timer_int_handler)
  /\ WF_svars(sys_power_save_idle) /\ WF_svars(handle_timeouts)

(***************************************************************************)
(* Properties                                                              *)
(***************************************************************************)

\* The count that is programmed for an idle period fits the reload register, with the
\* left over count of the current tick added.  The code does not have it: the counter may
\* start again in the locked section of idle(), from the count of an earlier idle period
\* that _timer_idle_exit() left in the register.
CountFits == mode.count <= MaxCount

\* The idle period was programmed on top of more than a tick.
Overrun == mode.tickless /\ mode.count > (mode.ticks + 1) * LoadValue

\* A count that does not fit is programmed only when the tick's interrupt is due already,
\* so that the CPU never sleeps on what _timer_idle_enter() has truncated.
OverflowOnlyIfDue == mode.tickless /\ ~CountFits => hw.pending

\* However many ticks the driver announces at the end of an idle period, and whenever
\* interrupts come, the timeout queue stays consistent.  The one thing that breaks it
\* is another interrupt that ends an overrun idle period before the tick's is taken.
QueueUnlessOverrun ==
  QueueMatchesDeltas /\ [][QueueMatchesDeltas' \/ (Overrun /\ isr_wrapper)]_qvars

\* Under tickless idle the delta queue implements independent countdowns, step by step,
\* with the same one exception.
DeadlinesUnlessOverrun ==
  /\ Countdowns!Init
  /\ [][Countdowns!Next \/ (Overrun /\ isr_wrapper)]_(Countdowns!vars)

\* Unless idle periods are cut short over and over, ticks keep coming: no order of an
\* idle period's start and end and the interrupts leaves the timer silent, with a reload value
\* of 0 say.
TicksUnlessCut ==
  <>Corrupt \/ []<><<isr_wrapper>>_svars \/ []<><<timer_int_handler>>_svars
=============================================================================
