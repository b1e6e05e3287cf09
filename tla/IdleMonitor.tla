----------------------------- MODULE IdleMonitor -----------------------------
(***************************************************************************)
(* What IIdleMonitor promises the agent, whichever backend implements it:  *)
(* a threshold is reported once per idle period and never while the input  *)
(* that has been noticed is younger than the timeout, and whoever has been *)
(* reported idle is reported active when the next input is noticed, unless *)
(* the timeouts were changed in between.                                   *)
(***************************************************************************)
EXTENDS Integers

CONSTANTS
  Timeouts,   \* values of dim_timeout and sleep_timeout, 0 = never
  MaxQuiet    \* bound: quiet saturates here, above all timeouts

Thresholds == {"dim", "sleep"}

VARIABLES
  timeout,    \* the configured timeout of each threshold
  quiet,      \* time since the user's last input
  unread,     \* there is input the monitor has not noticed yet
  reported,   \* thresholds reported and not yet taken back
  told        \* the last callback

monitorVars == <<timeout, quiet, unread, reported, told>>

-----------------------------------------------------------------------------
TimePasses ==
  /\ quiet' = IF quiet < MaxQuiet THEN quiet + 1 ELSE quiet
  /\ UNCHANGED <<timeout, unread, reported, told>>

\* Input after an idle report is always noticed in the end; other input may
\* never be.
UserActs ==
  /\ quiet' = 0
  /\ unread' \in {TRUE, unread \/ reported # {}}
  /\ UNCHANGED <<timeout, reported, told>>

\* on_dim or on_sleep is called.
Report(t) ==
  /\ timeout[t] > 0 /\ t \notin reported
  /\ unread \/ quiet >= timeout[t]
  /\ reported' = reported \cup {t}
  /\ told' = t
  /\ UNCHANGED <<timeout, quiet, unread>>

\* on_active is called; a backend may do so once per threshold.
ReportActive ==
  /\ unread
  /\ unread' \in BOOLEAN
  /\ reported' \in SUBSET reported
  /\ told' = "active"
  /\ UNCHANGED <<timeout, quiet>>

\* Input while nobody has been reported idle.
NoticeInput ==
  /\ unread /\ reported = {}
  /\ unread' = FALSE
  /\ UNCHANGED <<timeout, quiet, reported, told>>

\* set_timeouts may forget what was reported and what has not been read.
Configure(new) ==
  /\ timeout' = new
  /\ unread' \in {unread, FALSE}
  /\ reported' \in SUBSET reported
  /\ UNCHANGED <<quiet, told>>

MonitorInit ==
  /\ timeout \in [Thresholds -> Timeouts]
  /\ quiet = 0
  /\ unread = FALSE
  /\ reported = {}
  /\ told = "active"

MonitorNext ==
  \/ TimePasses
  \/ UserActs
  \/ \E t \in Thresholds : Report(t)
  \/ ReportActive
  \/ NoticeInput
  \/ \E new \in [Thresholds -> Timeouts] : Configure(new)

MonitorSpec == MonitorInit /\ [][MonitorNext]_monitorVars
=============================================================================
