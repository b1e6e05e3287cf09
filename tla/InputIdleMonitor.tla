-------------------------- MODULE InputIdleMonitor --------------------------
(***************************************************************************)
(* The agent's fallback idle monitor: a timerfd and the evdev devices      *)
(* behind one epoll descriptor.  poll() takes the ready sources and serves *)
(* them one after the other; time passes and input arrives at any moment,  *)
(* also between epoll_wait and the handlers.                               *)
(*                                                                         *)
(* elapsed is mono_ms() - m_last_event_ms and timer the time left until    *)
(* the timerfd expires.                                                    *)
(***************************************************************************)
EXTENDS IdleTiming

VARIABLES
  m_dim_ms, m_sleep_ms,   \* configured timeouts
  m_dimmed, m_sleeping,   \* thresholds already reported
  elapsed,                \* time since m_last_event_ms
  timer,                  \* time left, 0 = expired and readable, Disarmed
  pending,                \* a device has unread input
  batch,                  \* sources of the current epoll_wait not yet served
  changes,                \* number of set_timeouts calls
  told,                   \* history: last callback, as the daemon sees it
  quiet                   \* history: time since the user's last input

idleVars == <<m_dim_ms, m_sleep_ms, m_dimmed, m_sleeping, elapsed, timer,
              pending, batch, changes, told, quiet>>

Disarmed == -1

-----------------------------------------------------------------------------
\* "Fire at the earliest": the dim timeout when there is one.
FirstMs(dim, sleep) == IF dim > 0 THEN dim ELSE sleep

\* reset_idle_timer returns early when both timeouts are 0: an armed timer
\* stays armed and the flags keep their values.
ResetIdleTimer(dim, sleep) ==
  IF FirstMs(dim, sleep) > 0
  THEN /\ timer' = FirstMs(dim, sleep)
       /\ m_dimmed' = FALSE
       /\ m_sleeping' = FALSE
  ELSE UNCHANGED <<timer, m_dimmed, m_sleeping>>

\* Mutation of SetTimeouts: the timer is not armed again.
SetTimeoutsOnly(dim, sleep) ==
  /\ batch = {}
  /\ changes < MaxChanges
  /\ changes' = changes + 1
  /\ m_dim_ms' = dim
  /\ m_sleep_ms' = sleep
  /\ UNCHANGED <<m_dimmed, m_sleeping, elapsed, timer, pending, batch, told,
                 quiet>>

\* set_timeouts leaves m_last_event_ms alone: the new timeouts count from
\* the last input, the timer counts from now.
SetTimeouts(dim, sleep) ==
  /\ batch = {}
  /\ changes < MaxChanges
  /\ changes' = changes + 1
  /\ m_dim_ms' = dim
  /\ m_sleep_ms' = sleep
  /\ ResetIdleTimer(dim, sleep)
  /\ UNCHANGED <<elapsed, pending, batch, told, quiet>>

\* epoll_wait(m_epoll_fd, ..., 0) in poll().
Ready == {s \in {"timer", "input"} : IF s = "timer" THEN timer = 0 ELSE pending}

EpollWait ==
  /\ batch = {} /\ Ready # {}
  /\ batch' = Ready
  /\ UNCHANGED <<m_dim_ms, m_sleep_ms, m_dimmed, m_sleeping, elapsed, timer,
                 pending, changes, told, quiet>>

\* Mutation of SleepDue: off by one.
SleepPassed == ~m_sleeping /\ m_sleep_ms > 0 /\ elapsed > m_sleep_ms

SleepDue == ~m_sleeping /\ m_sleep_ms > 0 /\ elapsed >= m_sleep_ms

\* Mutation of DimDue: the timer is taken for the proof of idleness.
DimOnTimer == ~m_dimmed /\ m_dim_ms > 0

DimDue == ~m_dimmed /\ m_dim_ms > 0 /\ elapsed >= m_dim_ms

\* What the timerfd holds after its event: read() drains it when it has
\* expired, and fails when an input served first has armed it again.
Drained == IF timer = 0 THEN Disarmed ELSE timer

\* Mutation of TimeLeft: the operands are swapped.
TimeLeftSwapped == elapsed - m_sleep_ms

TimeLeft == IF m_sleep_ms - elapsed < 1 THEN 1 ELSE m_sleep_ms - elapsed

\* Mutation of RearmForSleep: dim does not arm the timer again.
NoRearm == Drained

\* After dim, the timer is set for the rest of the sleep timeout.
RearmForSleep == IF m_sleep_ms > 0 /\ ~m_sleeping THEN TimeLeft ELSE Drained

OnTimeout ==
  /\ "timer" \in batch
  /\ batch' = batch \ {"timer"}
  /\ \/ /\ SleepDue
        /\ m_sleeping' = TRUE
        /\ told' = "sleep"
        /\ timer' = Drained
        /\ UNCHANGED m_dimmed
     \/ /\ ~SleepDue /\ DimDue
        /\ m_dimmed' = TRUE
        /\ told' = "dim"
        /\ timer' = RearmForSleep
        /\ UNCHANGED m_sleeping
     \/ /\ ~SleepDue /\ ~DimDue
        /\ timer' = Drained
        /\ UNCHANGED <<m_dimmed, m_sleeping, told>>
  /\ UNCHANGED <<m_dim_ms, m_sleep_ms, elapsed, pending, changes, quiet>>

OnInput ==
  /\ "input" \in batch
  /\ batch' = batch \ {"input"}
  /\ pending' = FALSE
  /\ elapsed' = 0
  /\ ResetIdleTimer(m_dim_ms, m_sleep_ms)
  /\ told' = IF m_dimmed \/ m_sleeping THEN "active" ELSE told
  /\ UNCHANGED <<m_dim_ms, m_sleep_ms, changes, quiet>>

-----------------------------------------------------------------------------
\* Outside the agent: the clock and the user.
Tick ==
  /\ elapsed' = Saturate(elapsed)
  /\ quiet' = Saturate(quiet)
  /\ timer' = IF timer > 0 THEN timer - 1 ELSE timer
  /\ UNCHANGED <<m_dim_ms, m_sleep_ms, m_dimmed, m_sleeping, pending, batch,
                 changes, told>>

UserInput ==
  /\ pending' = TRUE
  /\ quiet' = 0
  /\ UNCHANGED <<m_dim_ms, m_sleep_ms, m_dimmed, m_sleeping, elapsed, timer,
                 batch, changes, told>>

\* init(dim, sleep)
IdleInit ==
  /\ m_dim_ms \in Timeouts /\ m_sleep_ms \in Timeouts
  /\ m_dimmed = FALSE /\ m_sleeping = FALSE
  /\ elapsed = 0 /\ quiet = 0
  /\ timer = IF FirstMs(m_dim_ms, m_sleep_ms) > 0
             THEN FirstMs(m_dim_ms, m_sleep_ms) ELSE Disarmed
  /\ pending = FALSE /\ batch = {} /\ changes = 0
  /\ told = "active"

Poll == EpollWait \/ OnTimeout \/ OnInput

IdleNext ==
  \/ Poll
  \/ Tick
  \/ UserInput
  \/ \E dim, sleep \in Timeouts : SetTimeouts(dim, sleep)

IdleSpec == IdleInit /\ [][IdleNext]_idleVars

\* The agent's loop serves a readable monitor, and time passes.
FairIdleSpec == IdleSpec /\ WF_idleVars(Poll) /\ WF_idleVars(Tick)
=============================================================================
