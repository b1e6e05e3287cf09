------------------------------- MODULE System -------------------------------
(***************************************************************************)
(* One user's agent and the daemon, end to end: input that the idle        *)
(* monitor notices becomes lines on the socket, lines become decisions of  *)
(* the daemon, and its CONFIG lines come back to the monitor.  The monitor *)
(* is any IdleMonitor and the daemon decides as PowerPolicy: both backends *)
(* and Daemon are shown to implement the parts taken here.                 *)
(*                                                                         *)
(* Timeouts are seconds and handlers take far less: time passes only when  *)
(* every line that can be handled has been.                                *)
(***************************************************************************)
EXTENDS Agent

CONSTANTS
  Fds,          \* descriptors its connection may get in the daemon
  own,          \* its session
  NoId,         \* no session, or any other one
  Settings,     \* [dim, sleep] of the profiles
  NoSetting,    \* no profile is active
  MaxQuiet      \* bound: quiet time saturates here

\* A connection begins with a hello, so there is room for one line.
ASSUME SystemAssumption ==
  /\ Fds # {} /\ Worlds \subseteq World
  /\ MaxUp \in Nat \ {0} /\ MaxDown \in Nat
  /\ MaxQuiet \in Nat

VARIABLES
  members, session, inhibits, active, setting, dimmed, request, asleep,
  timeout, quiet, unread, reported, told,
  on,           \* the daemon runs
  fd,           \* the connection's descriptor in the daemon
  clean         \* history: on_dim was called on the active session, and since
                \* then nothing has made the monitor or the daemon forget it

Why == "mpris-playing"

Policy == INSTANCE PowerPolicy WITH
  Clients <- Fds, Ids <- {own, NoId}, Whys <- {Why},
  Buttons <- {}, pressed <- [b \in {} |-> 0]

Idle == INSTANCE IdleMonitor WITH
  Timeouts <- UNION {{s.dim, s.sleep} : s \in Settings}

policyVars  == <<members, session, inhibits, active, setting, dimmed, request,
                 asleep>>
monitorVars == <<timeout, quiet, unread, reported, told>>
systemVars  == <<agentVars, policyVars, monitorVars, on, fd, clean>>

TimeoutsOf(s) == IF s = NoSetting THEN [dim |-> 0, sleep |-> 0] ELSE s

-----------------------------------------------------------------------------
(* The daemon handles a line *)

Running == on /\ ~asleep

\* Server::send ignores a write that fails; sent to a connection that is gone
\* the line is lost.
Tell(line) ==
  \/ ~attached /\ UNCHANGED <<downVars, failed>>
  \/ /\ attached /\ Len(down) < MaxDown
     /\ \E l \in Joined(torn_down, line) : down' = Append(down, l)
     /\ torn_down' = <<>>
     /\ UNCHANGED failed
  \/ /\ attached /\ Len(down) = MaxDown /\ "down" \in world.full
     /\ torn_down' \in Torn(torn_down, line)
     /\ failed' = failed \cup {"down"}
     /\ UNCHANGED down

TellNothing == UNCHANGED <<downVars, failed>>

\* Lines read before the agent hung up are still handled after it has.
HandleLine(type) ==
  /\ Running /\ up # <<>> /\ Head(up).type = type
  /\ up' = Tail(up)
  /\ UNCHANGED <<world, proc, attached, hung_up, torn_up, has_idle, mprisVars,
                 monitorVars, on, fd, clean>>

\* A line that does not decode gets the connection closed, and the record of
\* the agent stays; the lines that were read together with it are handled.
HandleMalformed ==
  /\ Running /\ up # <<>> /\ Head(up).type = "malformed"
  /\ attached' = FALSE /\ hung_up' = FALSE
  /\ \E n \in 0 .. Len(up) - 1 : up' = SubSeq(Tail(up), 1, n)
  /\ torn_up' = <<>>
  /\ TellNothing
  /\ UNCHANGED <<world, proc, has_idle, mprisVars, policyVars, monitorVars, on, fd,
                 clean>>

HandleHello ==
  /\ HandleLine("hello")
  /\ Policy!Register(fd, own)
  /\ Tell(Config(TimeoutsOf(setting)))

HandleIdleDim ==
  /\ HandleLine("idle_dim")
  /\ IF Policy!MayDim(fd) THEN Policy!DimFor(fd) ELSE UNCHANGED policyVars
  /\ TellNothing

\* LOCK is sent before logind is asked, and logind may refuse.
HandleIdleSleep ==
  /\ HandleLine("idle_sleep")
  /\ IF Policy!MaySuspend(fd)
     THEN /\ Policy!SuspendFor(fd) \/ UNCHANGED policyVars
          /\ \E c \in {c \in Fds : Policy!OnSeat(c)} :
               IF c = fd THEN Tell(Line("lock")) ELSE TellNothing
     ELSE UNCHANGED policyVars /\ TellNothing

\* Mutation of HandleActive: the inhibit check of on_idle_dim is copied.
ActiveUnlessInhibited ==
  /\ HandleLine("active")
  /\ IF Policy!MayUndim(fd) /\ ~Policy!Inhibited
     THEN Policy!UndimFor(fd) ELSE UNCHANGED policyVars
  /\ TellNothing

HandleActive ==
  /\ HandleLine("active")
  /\ IF Policy!MayUndim(fd) THEN Policy!UndimFor(fd) ELSE UNCHANGED policyVars
  /\ TellNothing

\* The ACK that answers an inhibit is ignored by the agent and left out.
HandleInhibit ==
  /\ \/ HandleLine("inhibit") /\ Policy!Inhibit(fd, Why)
     \/ HandleLine("uninhibit") /\ Policy!Uninhibit(fd, Why)
  /\ TellNothing

\* Mutation of HandleHangup: close_client without on_disconnect.
HangupKeepsRecord ==
  /\ Running /\ hung_up
  /\ hung_up' = FALSE
  /\ up' = <<>> /\ torn_up' = <<>>
  /\ TellNothing
  /\ UNCHANGED <<world, proc, attached, has_idle, mprisVars, policyVars,
                 monitorVars, on, fd, clean>>

\* The agent has closed its end: what it wrote last is dropped.
HandleHangup ==
  /\ Running /\ hung_up
  /\ hung_up' = FALSE
  /\ up' = <<>> /\ torn_up' = <<>>
  /\ TellNothing
  /\ Policy!Unregister(fd)
  /\ UNCHANGED <<world, proc, attached, has_idle, mprisVars, monitorVars, on, fd,
                 clean>>

Handle ==
  \/ HandleHello \/ HandleIdleDim \/ HandleIdleSleep \/ HandleActive
  \/ HandleInhibit \/ HandleHangup \/ HandleMalformed

\* Another client is given the descriptor of a connection that was closed over
\* such a line, and leaves: on_disconnect erases the record.
OtherClientLeaves(c) ==
  /\ Running
  /\ c \in members
  /\ c # fd \/ (~attached /\ ~hung_up /\ up = <<>>)
  /\ Policy!Unregister(c)
  /\ UNCHANGED <<agentVars, monitorVars, on, fd, clean>>

\* set_profile and reload_config, which may leave no profile active: every
\* registered agent gets the CONFIG.
SetProfile(new) ==
  /\ Running /\ new # setting
  /\ Policy!ApplySetting(new)
  /\ IF fd \in members THEN Tell(Config(TimeoutsOf(new))) ELSE TellNothing
  /\ UNCHANGED <<world, proc, attached, hung_up, upVars, has_idle, mprisVars,
                 monitorVars, on, fd, clean>>

DaemonStarts ==
  /\ ~on /\ on' = TRUE
  /\ \E s \in {own, NoId}, new \in Settings : Policy!Boot(s, new)
  /\ UNCHANGED <<agentVars, monitorVars, fd, clean>>

\* Connections end with the daemon, and what it had not handled.
DaemonStops ==
  /\ Running
  /\ on' = FALSE
  /\ attached' = FALSE /\ hung_up' = FALSE
  /\ up' = <<>> /\ torn_up' = <<>>
  /\ clean' = FALSE
  /\ Policy!Shutdown
  /\ UNCHANGED <<world, proc, downVars, failed, has_idle, mprisVars, monitorVars, fd>>

-----------------------------------------------------------------------------
(* The agent *)

\* It counts from now.
NewMonitor(new) ==
  /\ timeout' = new
  /\ quiet' = 0 /\ unread' = FALSE /\ reported' = {} /\ told' = "active"

\* The monitor ends with its process.
NoMonitor == NewMonitor(TimeoutsOf(NoSetting)) /\ clean' = FALSE

\* Mutation of ApplyConfig: a monitor that exists keeps its timeouts.
KeepTimeouts(new) ==
  IF ~has_idle /\ has_idle' THEN NewMonitor(new) ELSE UNCHANGED monitorVars

\* set_timeouts, or a new monitor if it could be set up.
ApplyConfig(new) ==
  IF has_idle THEN Idle!Configure(new)
  ELSE IF has_idle' THEN NewMonitor(new) ELSE UNCHANGED monitorVars

AgentReads ==
  /\ ~asleep
  /\ \/ /\ OnConfigLine
        /\ ApplyConfig(Head(down).timeouts)
        /\ clean' = FALSE
     \/ OnOtherLine /\ UNCHANGED <<monitorVars, clean>>
  /\ UNCHANGED <<policyVars, on, fd>>

\* Descriptors without a record are interchangeable: the connection may get
\* another one than the last only if the last has left a record behind.
AgentConnects ==
  /\ on /\ ~asleep
  /\ AgentStarts \/ AgentReconnects
  /\ fd' \in IF fd \in members THEN Fds ELSE {fd}
  /\ UNCHANGED <<policyVars, monitorVars, on, clean>>

AgentLeaves ==
  /\ ~asleep
  /\ \/ DaemonLost /\ UNCHANGED <<monitorVars, clean>>
     \/ AgentExits /\ NoMonitor
  /\ UNCHANGED <<policyVars, on, fd>>

MonitorReports ==
  /\ ~asleep
  /\ \E t \in {"dim", "sleep"} :
       /\ Idle!Report(t)
       /\ OnIdleCallback(IF t = "dim" THEN "idle_dim" ELSE "idle_sleep")
       /\ clean' = (clean \/ (t = "dim" /\ Policy!OnSeat(fd)))
  /\ UNCHANGED <<policyVars, on, fd>>

MonitorNotices ==
  /\ ~asleep
  /\ \/ Idle!ReportActive /\ OnIdleCallback("active")
     \/ has_idle /\ Idle!NoticeInput /\ UNCHANGED agentVars
  /\ UNCHANGED <<policyVars, on, fd, clean>>

MediaChanges ==
  /\ ~asleep
  /\ OnMprisCallback
  /\ UNCHANGED <<policyVars, monitorVars, on, fd, clean>>

-----------------------------------------------------------------------------
(* The user, the seat, the kernel *)

Settled == up = <<>> /\ down = <<>> /\ ~hung_up /\ ~unread

Tick ==
  /\ ~asleep /\ Settled /\ has_idle
  /\ Idle!TimePasses
  /\ UNCHANGED <<agentVars, policyVars, on, fd, clean>>

UserInput ==
  /\ ~asleep /\ has_idle
  /\ Idle!UserActs
  /\ UNCHANGED <<agentVars, policyVars, on, fd, clean>>

SessionSwitches ==
  /\ Running
  /\ \E s \in {own, NoId} \ {active} : Policy!SwitchTo(s)
  /\ clean' = FALSE
  /\ UNCHANGED <<agentVars, monitorVars, on, fd>>

AgentComesAndGoes ==
  /\ ~asleep
  /\ \/ AgentKilled /\ NoMonitor
     \/ AgentSpawned /\ UNCHANGED <<monitorVars, clean>>
  /\ UNCHANGED <<policyVars, on, fd>>

SleepsAndWakes ==
  /\ Policy!GoToSleep \/ Policy!ComeBack
  /\ UNCHANGED <<agentVars, monitorVars, on, fd, clean>>

-----------------------------------------------------------------------------
SystemInit ==
  /\ AgentInit /\ Policy!PolicyInit
  /\ timeout = [t \in {"dim", "sleep"} |-> 0]
  /\ quiet = 0 /\ unread = FALSE /\ reported = {} /\ told = "active"
  /\ on = FALSE /\ clean = FALSE
  /\ fd = CHOOSE c \in Fds : TRUE

AgentSteps == AgentReads \/ AgentConnects \/ AgentLeaves

Surroundings ==
  \/ MonitorReports \/ MediaChanges \/ Tick \/ UserInput \/ SessionSwitches
  \/ AgentComesAndGoes \/ SleepsAndWakes \/ DaemonStarts \/ DaemonStops
  \/ \E new \in Settings \cup {NoSetting} : SetProfile(new)
  \/ \E c \in Fds : OtherClientLeaves(c)

SystemNext == Handle \/ AgentSteps \/ MonitorNotices \/ Surroundings

SystemSpec == SystemInit /\ [][SystemNext]_systemVars

\* The loops of the daemon and of the agent keep running.  Every turn of the
\* agent's loop polls the monitor: a line queue that is full now and then,
\* or a suspend, does not keep input from being noticed for ever.
FairSystem ==
  /\ SystemSpec
  /\ WF_systemVars(Handle)
  /\ WF_systemVars(AgentReads)
  /\ WF_systemVars(AgentConnects)
  /\ WF_systemVars(AgentLeaves)
  /\ SF_systemVars(MonitorNotices)
=============================================================================
