--------------------------- MODULE IdleProperties ---------------------------
(* Correctness of the fallback idle monitor.                               *)
EXTENDS InputIdleMonitor

FlagsOK ==
  /\ m_dimmed \in BOOLEAN /\ m_sleeping \in BOOLEAN
  /\ pending \in BOOLEAN /\ batch \subseteq {"timer", "input"}
  /\ told \in {"active", "dim", "sleep"}

TimesOK ==
  /\ m_dim_ms \in Timeouts /\ m_sleep_ms \in Timeouts
  /\ elapsed \in 0 .. MaxElapsed /\ quiet \in 0 .. MaxElapsed
  /\ timer \in Int /\ timer >= Disarmed
  /\ changes \in 0 .. MaxChanges

\* Type correctness of InputIdleMonitor's members: the timer is never armed
\* for a negative time, which timerfd_settime would refuse.
IdleTypeOK == FlagsOK /\ TimesOK

\* poll(), on_timeout(), set_timeouts(): as long as a configured threshold
\* has not been reported there is a timer that will look at it again,
\* whatever the order in which timer and input of one epoll_wait are served.
NoLostTimer ==
  /\ m_sleep_ms > 0 /\ ~m_sleeping => timer # Disarmed
  /\ m_dim_ms > 0 /\ ~m_dimmed /\ ~m_sleeping => timer # Disarmed

\* on_timeout(): an expired timer is never the last one before a threshold:
\* when it is served, the threshold it was armed for has been reached, also
\* after set_timeouts() has armed it in the middle of an idle period.
TimerCoversThreshold ==
  timer # Disarmed /\ ~m_dimmed /\ ~m_sleeping
    /\ FirstMs(m_dim_ms, m_sleep_ms) > 0
    => elapsed + timer >= FirstMs(m_dim_ms, m_sleep_ms)

\* on_timeout(): IDLE_DIM or IDLE_SLEEP is never sent while the user's last
\* input, if it has been read, is younger than the timeout.
NoFalseIdle ==
  [][/\ told' = "dim"   /\ told # "dim"   => pending \/ quiet >= m_dim_ms
     /\ told' = "sleep" /\ told # "sleep" => pending \/ quiet >= m_sleep_ms]_idleVars
=============================================================================
