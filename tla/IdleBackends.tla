---------------------------- MODULE IdleBackends ----------------------------
(***************************************************************************)
(* The idle monitor the agent ends up with: setup_idle_monitor takes the   *)
(* Wayland monitor when the compositor offers one and the input monitor    *)
(* otherwise.  Both are shown to implement IdleMonitor.                    *)
(***************************************************************************)
EXTENDS IdleProperties, WaylandIdleMonitor

VARIABLE backend    \* which monitor m_impl->idle is

backendVars == <<idleVars, waylandVars, backend>>

\* setup_idle_monitor(dim, sleep): the monitor that is not used stays as it
\* is here.
BackendInit ==
  /\ backend \in {"wayland", "input"}
  /\ WaylandInit
  /\ IdleInit /\ m_dim_ms = notif["dim"] /\ m_sleep_ms = notif["sleep"]

BackendNext ==
  /\ \/ backend = "wayland" /\ WaylandNext /\ UNCHANGED idleVars
     \/ backend = "input" /\ IdleNext /\ UNCHANGED waylandVars
  /\ UNCHANGED backend

BackendSpec == BackendInit /\ [][BackendNext]_backendVars

\* The agent's loop serves a readable monitor, the compositor keeps its
\* promise and time passes.
FairBackendSpec ==
  /\ BackendSpec
  /\ WF_backendVars(backend = "input" /\ Poll /\ UNCHANGED <<waylandVars, backend>>)
  /\ WF_backendVars(backend = "input" /\ Tick /\ UNCHANGED <<waylandVars, backend>>)
  /\ WF_backendVars(backend = "wayland" /\ WaylandPoll
                    /\ UNCHANGED <<idleVars, backend>>)
  /\ WF_backendVars(backend = "wayland" /\ SeatTick
                    /\ UNCHANGED <<idleVars, backend>>)
  /\ \A n \in Notifications :
       WF_backendVars(backend = "wayland" /\ SendIdled(n)
                      /\ UNCHANGED <<idleVars, backend>>)

-----------------------------------------------------------------------------
(* The refinement mapping *)

\* Events the compositor has sent and the agent has not handled, and those of
\* one notification among them.
Queue == dispatch \o socket
EventsOf(n) == {i \in DOMAIN Queue : Queue[i].of = n}

\* The agent has seen idled and not yet the resumed that follows it.
SeenIdle(n) ==
  \/ EventsOf(n) = {} /\ n \in idled
  \/ \E i \in EventsOf(n) : /\ Queue[i].kind = "resumed"
                            /\ \A j \in EventsOf(n) : i <= j

WaylandUnread == \E i \in DOMAIN Queue : Queue[i].kind = "resumed"

OnWayland == backend = "wayland"

Reported == IF OnWayland
            THEN {n \in Notifications : SeenIdle(n)}
            ELSE {n \in Notifications : IF n = "dim" THEN m_dimmed
                                                     ELSE m_sleeping}
TimeoutOf(n) == IF OnWayland THEN notif[n]
                ELSE IF n = "dim" THEN m_dim_ms ELSE m_sleep_ms
Configured == [n \in Notifications |-> TimeoutOf(n)]
QuietTime  == IF OnWayland THEN wquiet ELSE quiet
Unread     == IF OnWayland THEN WaylandUnread ELSE pending
LastTold   == IF OnWayland THEN wtold ELSE told

Monitor == INSTANCE IdleMonitor WITH
  MaxQuiet <- MaxElapsed,
  timeout  <- Configured,
  quiet    <- QuietTime,
  unread   <- Unread,
  reported <- Reported,
  told     <- LastTold

\* Both backends keep the contract of IIdleMonitor: no report without the
\* idle time behind it, one per threshold and idle period, and ACTIVE for
\* the input that ends a reported idle period, in whatever order events of
\* the compositor or the devices, the clock and CONFIG messages come.
ImplementsMonitor == Monitor!MonitorSpec

\* A user who stays away is reported idle by either backend: with a sleep
\* timeout configured, IDLE_SLEEP is sent unless somebody touches an input
\* device or the timeout is switched off (on_timeout, on_notification_idled).
SleepReported ==
  TimeoutOf("sleep") > 0 /\ QuietTime > 0
    ~> \/ "sleep" \in Reported
       \/ QuietTime = 0
       \/ TimeoutOf("sleep") = 0
=============================================================================
