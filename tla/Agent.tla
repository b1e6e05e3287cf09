------------------------------- MODULE Agent -------------------------------
(***************************************************************************)
(* draind-agent as a process: its connection to the daemon, the monitor it *)
(* creates when the first CONFIG arrives, and the commands it runs.  The   *)
(* handlers of one epoll_wait run one after the other and share nothing    *)
(* but the connection, so they are steps of their own here.                *)
(*                                                                         *)
(* A connection is two queues of lines.  What is in them when the process  *)
(* on the other side ends is never handled: feed() meets the end of the    *)
(* stream before it extracts a line.                                       *)
(***************************************************************************)
EXTENDS Integers, Sequences

CONSTANTS
  MaxUp,      \* lines that fit into the socket to the daemon
  MaxDown,    \* lines that fit into the socket to the agent
  Worlds      \* bound: the surroundings that are looked at, see World

\* The directions in which a socket is ever full, in the others its reader is
\* fast enough; and whether a monitor can be set up.
World == [full : SUBSET {"up", "down"}, monitor : BOOLEAN]

VARIABLES
  world,         \* the surroundings, which stay the same
  proc,          \* where the agent is: see AgentStates
  attached,      \* daemon_fd >= 0 and the daemon has not closed its end
  hung_up,       \* the agent has closed its end, the daemon has not seen it
  up,            \* lines to the daemon
  down,          \* lines to the agent
  torn_up,       \* the line that was written in part behind them, if any
  torn_down,
  failed,        \* history: directions in which a write of this connection
                 \* has failed
  has_idle,      \* m_impl->idle is set
  m_inhibiting,  \* MprisMonitor::m_inhibiting
  unsaid         \* history: init() has set it and it has not changed since

upVars    == <<up, torn_up>>
downVars  == <<down, torn_down>>
linkVars  == <<world, attached, hung_up, upVars, downVars, failed>>
mprisVars == <<m_inhibiting, unsaid>>
agentVars == <<proc, linkVars, has_idle, mprisVars>>

\* "lost": the daemon is gone and connect_to_daemon tries again; "leaving":
\* it has succeeded and loop() is about to return.
AgentStates == {"starting", "running", "lost", "leaving", "exited",
                "killed"}

Line(type)     == [type |-> type]
Config(new)    == [type |-> "config", timeouts |-> new]

-----------------------------------------------------------------------------
\* write_line on a non-blocking socket.  What is written behind a torn line
\* becomes part of it: the reader finds the torn line, if nothing but its end
\* was missing, or one that does not decode.
Joined(torn, line) == IF torn = <<>> THEN {line}
                                     ELSE {Head(torn), Line("malformed")}

\* The socket is full: the line is lost, or its beginning is written.
Torn(torn, line) == IF torn = <<>> THEN {<<>>, <<line>>} ELSE {torn}

\* send(): a message is dropped when there is no connection, and a write
\* that fails is logged and forgotten.
Send(type) ==
  \/ ~attached /\ UNCHANGED <<upVars, failed>>
  \/ /\ attached /\ Len(up) < MaxUp
     /\ \E line \in Joined(torn_up, Line(type)) : up' = Append(up, line)
     /\ torn_up' = <<>>
     /\ UNCHANGED failed
  \/ /\ attached /\ Len(up) = MaxUp /\ "up" \in world.full
     /\ torn_up' \in Torn(torn_up, Line(type))
     /\ failed' = failed \cup {"up"}
     /\ UNCHANGED up

\* connect_to_daemon: retried every two seconds until it succeeds; hello is
\* the first line.
Connect ==
  /\ ~attached /\ ~hung_up /\ up = <<>>
  /\ attached' = TRUE
  /\ up' = <<Line("hello")>> /\ torn_up' = <<>>
  /\ down' = <<>> /\ torn_down' = <<>>
  /\ failed' = {}
  /\ UNCHANGED <<world, hung_up, has_idle>>

\* run(): connect, look for players, set the callbacks, then loop.  A player
\* found playing is not reported.
AgentStarts ==
  /\ proc = "starting"
  /\ Connect
  /\ m_inhibiting' \in BOOLEAN
  /\ unsaid' = m_inhibiting'
  /\ proc' = "running"

\* loop(): feed() fails, on_daemon_disconnect drops what was not handled.
DaemonLost ==
  /\ proc = "running" /\ ~attached
  /\ proc' = "lost"
  /\ down' = <<>> /\ torn_down' = <<>>
  /\ UNCHANGED <<world, attached, hung_up, upVars, failed, has_idle,
                 mprisVars>>

\* Mutation of AgentReconnects: loop() goes on.
ReconnectAndStay ==
  /\ proc = "lost"
  /\ Connect
  /\ proc' = "running"
  /\ UNCHANGED mprisVars

\* on_daemon_disconnect returns to loop(), which returns to run().
AgentReconnects ==
  /\ proc = "lost"
  /\ Connect
  /\ proc' = "leaving"
  /\ UNCHANGED mprisVars

\* Mutation of EndProcess: the monitor outlives the connection.
EndConnection ==
  /\ attached' = FALSE
  /\ hung_up' = attached
  /\ down' = <<>> /\ torn_down' = <<>>
  /\ UNCHANGED <<world, upVars, failed, has_idle, mprisVars>>

\* The process ends and the kernel closes its socket.
EndProcess ==
  /\ attached' = FALSE
  /\ hung_up' = attached
  /\ down' = <<>> /\ torn_down' = <<>>
  /\ has_idle' = FALSE
  /\ m_inhibiting' = FALSE /\ unsaid' = FALSE
  /\ UNCHANGED <<world, upVars, failed>>

\* run() returns.
AgentExits ==
  /\ proc = "leaving"
  /\ proc' = "exited"
  /\ EndProcess

\* SIGTERM or SIGINT sets s_quit, which every loop looks at; SIGPIPE, which
\* is not ignored, when send() meets a connection the daemon has closed.
AgentKilled ==
  /\ proc \notin {"exited", "killed"}
  /\ proc' = "killed"
  /\ EndProcess

\* The compositor starts an agent at login.
AgentSpawned ==
  /\ proc \in {"exited", "killed"} /\ ~hung_up
  /\ proc' = "starting"
  /\ UNCHANGED <<linkVars, has_idle, mprisVars>>

-----------------------------------------------------------------------------
(* on_daemon_line *)

OnDaemonLine(type) ==
  /\ proc = "running" /\ down # <<>> /\ Head(down).type = type
  /\ down' = Tail(down)
  /\ UNCHANGED <<world, proc, attached, hung_up, upVars, torn_down, failed,
                 mprisVars>>

\* CONFIG: a monitor that exists is given the new timeouts, otherwise one is
\* set up, which may fail and is tried again at the next CONFIG.
SetupIdleMonitor == has_idle' \in {has_idle, has_idle \/ world.monitor}

OnConfigLine ==
  /\ OnDaemonLine("config")
  /\ SetupIdleMonitor

\* LOCK: run_lock_cmd forks and does not wait.  A line that does not decode
\* is ignored.
OnOtherLine ==
  /\ OnDaemonLine("lock") \/ OnDaemonLine("malformed")
  /\ UNCHANGED has_idle

\* PRE_SLEEP is never sent: see PreSleepReachesAgents in DaemonProperties.

-----------------------------------------------------------------------------
(* Callbacks of the monitors *)

OnIdleCallback(type) ==
  /\ proc = "running" /\ has_idle
  /\ Send(type)
  /\ UNCHANGED <<world, proc, attached, hung_up, downVars, has_idle, mprisVars>>

\* MprisMonitor changes its mind and calls on_inhibit or on_uninhibit.
OnMprisCallback ==
  /\ proc = "running"
  /\ m_inhibiting' = ~m_inhibiting
  /\ unsaid' = FALSE
  /\ Send(IF m_inhibiting THEN "uninhibit" ELSE "inhibit")
  /\ UNCHANGED <<world, proc, attached, hung_up, downVars, has_idle>>

AgentInit ==
  /\ world \in Worlds
  /\ proc = "starting"
  /\ attached = FALSE /\ hung_up = FALSE
  /\ up = <<>> /\ down = <<>> /\ torn_up = <<>> /\ torn_down = <<>>
  /\ failed = {}
  /\ has_idle = FALSE /\ m_inhibiting = FALSE /\ unsaid = FALSE
=============================================================================
