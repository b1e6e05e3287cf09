-------------------------- MODULE SystemProperties --------------------------
(***************************************************************************)
(* What the agent and the daemon achieve together: each property needs     *)
(* steps of both processes and of the idle monitor.                        *)
(***************************************************************************)
EXTENDS System

ProcessTypeOK ==
  /\ proc \in AgentStates
  /\ attached \in BOOLEAN /\ hung_up \in BOOLEAN
  /\ has_idle \in BOOLEAN /\ m_inhibiting \in BOOLEAN /\ unsaid \in BOOLEAN
  /\ has_idle => proc \notin {"starting", "exited", "killed"}

QueueTypeOK ==
  /\ Len(up) <= MaxUp /\ Len(down) <= MaxDown
  /\ failed \subseteq {"up", "down"}

RecordTypeOK ==
  /\ fd \in Fds /\ members \subseteq Fds
  /\ inhibits \in [Fds -> SUBSET {Why}]
  /\ setting \in Settings \cup {NoSetting}

MonitorTypeOK == quiet \in 0 .. MaxQuiet /\ reported \subseteq {"dim", "sleep"}

\* Type invariant: the connection, the monitor and the daemon stay in range,
\* and the agent has a monitor only while its process lives.
SystemTypeOK == ProcessTypeOK /\ QueueTypeOK /\ RecordTypeOK /\ MonitorTypeOK

\* The two ends agree: no line is under way in either direction.
InTouch == proc = "running" /\ attached /\ fd \in members
           /\ up = <<>> /\ down = <<>>

\* With no line under way and unless one to the agent was lost, the monitor
\* counts with the timeouts of the profile that is active now, whatever the
\* order of hello, set_profile, reload_config and restarts of either process
\* (send_config, broadcast_config, on_daemon_line, set_timeouts).
MonitorFollowsProfile ==
  InTouch /\ has_idle /\ "down" \notin failed => timeout = TimeoutsOf(setting)

\* With no line under way and unless one to the daemon was lost, the daemon
\* holds an inhibit of the agent exactly while its MprisMonitor is
\* inhibiting, but for a state that init() found and nobody was told of.  A
\* new connection starts without inhibits (on_hello) and MprisMonitor reports
\* changes only, so this rests on a new connection being a new process:
\* loop() returns after a reconnection.
InhibitInSync ==
  InTouch /\ "up" \notin failed =>
    (inhibits[fd] # {} <=> m_inhibiting /\ ~unsaid)

\* Once the agent process is gone, the daemon forgets it and its inhibits,
\* if the machine does not stay suspended and no line to the daemon was
\* lost: a torn one may get the connection closed without on_disconnect
\* (handle_client, on_disconnect, close_client in on_line).
GoneAgentForgotten ==
  []<>~asleep => (proc \in {"exited", "killed"} /\ "up" \notin failed
                    ~> (fd \notin members \/ proc = "starting"))

\* A user who comes back to a display that was dimmed for them gets the
\* brightness back, unless since the dim the timeouts were set again, the
\* active session has changed or one of the processes has ended, or a line
\* to the daemon was lost: each of these can leave the display dimmed, because
\* the monitor forgets what it has reported, or on_active comes from an agent
\* that is not active, or not at all (set_timeouts, on_active, on_disconnect,
\* send).
Kept == clean /\ "up" \notin failed
ActivityRestores ==
  []<>~asleep => (dimmed /\ Kept /\ quiet = 0 ~> ~dimmed \/ ~Kept)

\* "daemon disconnected - reconnecting" (on_daemon_disconnect): a daemon that
\* is stopped and started again, and then stays, finds the agent again, if
\* nobody ends the agent.
Reconnects ==
  ([]<>~asleep /\ <>[]on /\ [](proc # "killed")) => []<>(fd \in members)
=============================================================================
