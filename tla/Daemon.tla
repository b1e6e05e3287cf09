------------------------------- MODULE Daemon -------------------------------
(***************************************************************************)
(* draind: the event loop of Daemon over its five components.  Agents      *)
(* register with hello and then report idleness and inhibits; the daemon   *)
(* dims, undims and suspends on behalf of the agent of the active session  *)
(* and lets draindctl change the configuration.                            *)
(*                                                                         *)
(* Clients are unconstrained: every connection may write any message of    *)
(* Messages at any time.  A message is [type, arg]; for the messages of    *)
(* draindctl the type is the command.                                      *)
(***************************************************************************)
EXTENDS PowerManager, ConfigManager, SessionTracker, Server, HwEventMonitor

CONSTANTS
  Reasons,      \* inhibit reasons
  UserLevels    \* raw brightness values the user's own keys produce

VARIABLES
  up,          \* the daemon process runs and has finished setup()
  agents,      \* descriptors with an AgentState
  session,     \* AgentState::session_id
  inhibits,    \* AgentState::inhibits
  m_dimmed,    \* Daemon::m_dimmed
  told,        \* history: the last CONFIG a connection was sent
  lock,        \* history: where the last LOCK of this turn of the loop went,
               \* NoFd if nowhere
  presleep,    \* history: receivers of the last PRE_SLEEP of this turn
  greeted,     \* history: the client has written a hello
  wants,       \* history: reasons the client asserted since its hello
  stale        \* history: records whose connection a malformed line got
               \* closed, and that nothing has replaced or erased since

agentVars == <<agents, session, inhibits>>
sentVars  == <<told, lock, presleep>>
peerVars  == <<greeted, wants, stale>>
vars == <<powerVars, configVars, trackerVars, serverVars, hwVars, agentVars,
          sentVars, peerVars, up, m_dimmed>>

AgentTypes == {"hello", "idle_dim", "idle_sleep", "active", "inhibit",
               "uninhibit", "unknown"}
CtlTypes   == {"set_profile", "reload_config", "lock", "query"}
Message    ==
  [type : AgentTypes \cup CtlTypes \cup {"malformed"},
   arg  : SessionIds \cup Reasons \cup Names \cup {NoName}]

\* Documented ranges of the profile settings, and messages that carry the
\* argument their type asks for.
ASSUME DaemonAssumption ==
  /\ \A p \in Profiles :
       /\ p.brightness_percent \in Percent
       /\ p.dim_brightness_percent \in Percent
       /\ p.dim_timeout \in Nat /\ p.sleep_timeout \in Nat
       /\ p.cpu \in [CpuKnobs -> CpuSettings \cup {KeepSetting}]
  /\ UserLevels \subseteq 0 .. MaxBrightness
  /\ Messages \subseteq Message
  /\ \A m \in Messages :
       /\ m.type = "hello" => m.arg \in SessionIds
       /\ m.type \in {"inhibit", "uninhibit"} => m.arg \in Reasons

-----------------------------------------------------------------------------
(* Helpers of Daemon *)

\* Mutation of IsActiveAgent: every registered agent counts.
IsRegistered(fd) == fd \in agents

IsActiveAgent(fd) == fd \in agents /\ IsActive(session[fd])

HasAnyInhibit == \E fd \in agents : inhibits[fd] # {}

\* The CONFIG of a profile, and "none sent on this connection".
Timeouts(p) ==
  IF p = NoProfile THEN [dim |-> 0, sleep |-> 0]
                   ELSE [dim |-> p.dim_timeout, sleep |-> p.sleep_timeout]
NoConfig == [dim |-> -1, sleep |-> -1]

\* send_config: a write to a descriptor that is closed fails and is ignored.
SendConfig(fd) ==
  told' = IF fd \in conns
          THEN [told EXCEPT ![fd] = Timeouts(ActiveProfile)]
          ELSE told

\* Mutation of BroadcastConfig: the CONFIG of the outgoing profile is sent.
BroadcastOldConfig ==
  told' = [fd \in Fds |-> IF fd \in agents \cap conns
                          THEN Timeouts(ActiveProfile) ELSE told[fd]]

\* Runs inside on_change, after the configuration has changed.
BroadcastConfig ==
  told' = [fd \in Fds |-> IF fd \in agents \cap conns
                          THEN Timeouts(ActiveProfile') ELSE told[fd]]

\* Mutation of LockReceivers: the search for the active session is skipped.
SoleAgentOnly == IF \E fd \in Fds : agents = {fd} THEN agents ELSE {NoFd}

\* send_lock_to_active_agent: unordered_map order decides between several
\* agents of the active session.
LockReceivers ==
  IF \E fd \in agents : IsActive(session[fd])
  THEN {fd \in agents : IsActive(session[fd])}
  ELSE IF \E fd \in Fds : agents = {fd} THEN agents ELSE {NoFd}

SendLock == lock' \in LockReceivers

\* The whole pre-suspend sequence, in a single call of the event loop.
DoSuspend(action) ==
  /\ SendLock
  /\ presleep' = BroadcastReceivers
  /\ RunHwAction(action)
  /\ UNCHANGED told

\* on_change callback, with the profile that is active after the change
OnChange ==
  /\ IF ActiveProfile' # NoProfile THEN Apply(ActiveProfile')
                                   ELSE UNCHANGED powerVars
  /\ BroadcastConfig
  /\ UNCHANGED <<lock, presleep>>

\* agents.erase(fd)
Forget(fd) ==
  /\ agents' = agents \ {fd}
  /\ session' = [session EXCEPT ![fd] = NoSession]
  /\ inhibits' = [inhibits EXCEPT ![fd] = {}]

\* What is known about a connection ends with it.
EndHistory(fd) ==
  /\ told' = [told EXCEPT ![fd] = NoConfig]
  /\ greeted' = [greeted EXCEPT ![fd] = FALSE]
  /\ wants' = [wants EXCEPT ![fd] = {}]
  /\ UNCHANGED <<lock, presleep>>

-----------------------------------------------------------------------------
(* The event loop *)

Running == up /\ ~asleep

\* What epoll_wait reports besides the bus; clients may be waiting in the
\* listen queue or not.
ReadySources(pending) ==
  ReadyClients \cup pending \cup IF HwReady THEN {Hw} ELSE {}

\* sessions.poll() runs before any source is served: the whole batch sees
\* one active session.
EpollWait ==
  /\ Running
  /\ \E pending \in SUBSET {Listen} :
       /\ ReadySources(pending) # {} \/ bus # <<>>
       /\ TakeBatch(ReadySources(pending))
  /\ DrainBus
  /\ lock' = NoFd /\ presleep' = {}
  /\ UNCHANGED <<powerVars, configVars, hwVars, agentVars, told, peerVars, up,
                 m_dimmed>>

AcceptClient ==
  /\ Running
  /\ AcceptFails \/ \E fd \in Fds : Accept(fd)
  /\ UNCHANGED <<powerVars, configVars, trackerVars, hwVars, agentVars,
                 sentVars, peerVars, up, m_dimmed>>

HandleClient ==
  /\ Running
  /\ \E fd \in Fds : ReadMore(fd) \/ Read(fd)
  /\ UNCHANGED <<powerVars, configVars, trackerVars, hwVars, agentVars,
                 sentVars, peerVars, up, m_dimmed>>

\* Mutation of OnDisconnect: the AgentState is not erased.
OnDisconnectKeep(fd) ==
  /\ Hangup(fd)
  /\ EndHistory(fd)
  /\ stale' = stale \ {fd}
  /\ UNCHANGED <<powerVars, configVars, trackerVars, hwVars, agentVars, up,
                 m_dimmed>>

\* on_disconnect followed by close_client; m_dimmed is not touched.
OnDisconnect(fd) ==
  /\ Hangup(fd)
  /\ Forget(fd)
  /\ EndHistory(fd)
  /\ stale' = stale \ {fd}
  /\ UNCHANGED <<powerVars, configVars, trackerVars, hwVars, up, m_dimmed>>

HandleDisconnect == Running /\ \E fd \in Fds : OnDisconnect(fd)

\* One event of HwEventMonitor::poll, which reads until the devices are
\* empty before another source is served.
HwStep(e) ==
  /\ cur = Hw \/ (cur = NoFd /\ Hw \in batch)
  /\ TakeEvent(e)
  /\ cur' = IF HwReady' THEN Hw ELSE NoFd
  /\ batch' = batch \ {Hw}
  /\ UNCHANGED <<conns, is_agent, socketVars, feeding, lines>>

OnHwEvent ==
  /\ Running
  /\ \E e \in HwEvents :
       /\ HwStep(e)
       /\ IF ActiveProfile = NoProfile
          THEN UNCHANGED <<sentVars, request, asleep>>
          ELSE LET action == ActionFor(ActiveProfile, e) IN
               IF action \in SleepActions
               THEN DoSuspend(action)
               ELSE RunHwAction(action) /\ UNCHANGED sentVars
  /\ UNCHANGED <<powerVars, configVars, trackerVars, agentVars, peerVars, up,
                 m_dimmed>>

-----------------------------------------------------------------------------
(* on_line: one action per message type *)

Line == Head(lines)

OnLine(types) ==
  /\ Running /\ cur \in Fds /\ ~feeding
  /\ lines # <<>> /\ Line.type \in types

\* close_client without on_disconnect: the AgentState stays behind.
OnMalformed ==
  /\ OnLine({"malformed"})
  /\ LineCloses
  /\ EndHistory(cur)
  /\ stale' = IF cur \in agents THEN stale \cup {cur} ELSE stale
  /\ UNCHANGED <<powerVars, configVars, trackerVars, hwVars, agentVars, up,
                 m_dimmed>>

OnHello ==
  /\ OnLine({"hello"})
  /\ LineDone
  /\ agents' = agents \cup {cur}
  /\ session' = [session EXCEPT ![cur] = Line.arg]
  /\ inhibits' = [inhibits EXCEPT ![cur] = {}]
  /\ SendConfig(cur)
  /\ stale' = IF cur \in conns THEN stale \ {cur} ELSE stale \cup {cur}
  /\ UNCHANGED <<lock, presleep, greeted, wants>>
  /\ UNCHANGED <<powerVars, configVars, trackerVars, hwVars, up, m_dimmed>>

\* An agent message before hello, or one of an unknown type.
OnIgnored ==
  /\ \/ OnLine(AgentTypes \ {"hello"}) /\ cur \notin agents
     \/ OnLine({"unknown"})
  /\ LineDone
  /\ UNCHANGED <<powerVars, configVars, trackerVars, hwVars, agentVars,
                 sentVars, peerVars, up, m_dimmed>>

\* Mutation of MayIdle: only the inhibits of the agent itself are consulted.
IdleUnlessOwnInhibit == IsActiveAgent(cur) /\ inhibits[cur] = {}

MayIdle == IsActiveAgent(cur) /\ ~HasAnyInhibit

\* Mutation of DimAllowed: a second idle_dim dims again.
DimAgain == MayIdle /\ ActiveProfile # NoProfile

DimAllowed == MayIdle /\ ~m_dimmed /\ ActiveProfile # NoProfile

OnIdleDim ==
  /\ OnLine({"idle_dim"}) /\ cur \in agents
  /\ LineDone
  /\ IF DimAllowed
     THEN Dim(ActiveProfile) /\ m_dimmed' = TRUE
     ELSE UNCHANGED <<powerVars, m_dimmed>>
  /\ UNCHANGED <<configVars, trackerVars, hwVars, agentVars, sentVars,
                 peerVars, up>>

\* Mutation of SleepAllowed: the inhibits are consulted for dimming only.
SleepDespiteInhibit ==
  /\ IsActiveAgent(cur)
  /\ ActiveProfile # NoProfile
  /\ ActiveProfile.sleep_timeout > 0

SleepAllowed ==
  /\ MayIdle
  /\ ActiveProfile # NoProfile
  /\ ActiveProfile.sleep_timeout > 0

OnIdleSleep ==
  /\ OnLine({"idle_sleep"}) /\ cur \in agents
  /\ LineDone
  /\ IF SleepAllowed
     THEN DoSuspend("suspend") /\ UNCHANGED hwq
     ELSE UNCHANGED <<sentVars, hwVars>>
  /\ UNCHANGED <<powerVars, configVars, trackerVars, agentVars, peerVars, up,
                 m_dimmed>>

OnActive ==
  /\ OnLine({"active"}) /\ cur \in agents
  /\ LineDone
  /\ IF IsActiveAgent(cur) /\ m_dimmed /\ ActiveProfile # NoProfile
     THEN Undim(ActiveProfile) /\ m_dimmed' = FALSE
     ELSE UNCHANGED <<powerVars, m_dimmed>>
  /\ UNCHANGED <<configVars, trackerVars, hwVars, agentVars, sentVars,
                 peerVars, up>>

OnInhibit ==
  /\ OnLine({"inhibit"}) /\ cur \in agents
  /\ LineDone
  /\ inhibits' = [inhibits EXCEPT ![cur] = @ \cup {Line.arg}]
  /\ UNCHANGED <<agents, session>>
  /\ UNCHANGED <<powerVars, configVars, trackerVars, hwVars, sentVars,
                 peerVars, up, m_dimmed>>

OnUninhibit ==
  /\ OnLine({"uninhibit"}) /\ cur \in agents
  /\ LineDone
  /\ inhibits' = [inhibits EXCEPT ![cur] = @ \ {Line.arg}]
  /\ UNCHANGED <<agents, session>>
  /\ UNCHANGED <<powerVars, configVars, trackerVars, hwVars, sentVars,
                 peerVars, up, m_dimmed>>

-----------------------------------------------------------------------------
(* on_ctl: needs no hello.  The replies go to draindctl and change nothing *)
(* here; the commands that only read state are one type, "query".          *)

OnSetProfile ==
  /\ OnLine({"set_profile"})
  /\ LineDone
  /\ IF Defines(m_config, Line.arg)
     THEN SetActive(Line.arg) /\ OnChange
     ELSE UNCHANGED <<configVars, powerVars, sentVars>>
  /\ UNCHANGED <<trackerVars, hwVars, agentVars, peerVars, up, m_dimmed>>

\* A file that does not load leaves the previous configuration in place.
OnReloadConfig ==
  /\ OnLine({"reload_config"})
  /\ LineDone
  /\ IF Loadable(file)
     THEN Load(file) /\ UNCHANGED file /\ OnChange
     ELSE UNCHANGED <<configVars, powerVars, sentVars>>
  /\ UNCHANGED <<trackerVars, hwVars, agentVars, peerVars, up, m_dimmed>>

OnLock ==
  /\ OnLine({"lock"})
  /\ LineDone
  /\ SendLock
  /\ UNCHANGED <<told, presleep>>
  /\ UNCHANGED <<powerVars, configVars, trackerVars, hwVars, agentVars,
                 peerVars, up, m_dimmed>>

OnQuery ==
  /\ OnLine({"query"})
  /\ LineDone
  /\ UNCHANGED <<powerVars, configVars, trackerVars, hwVars, agentVars,
                 sentVars, peerVars, up, m_dimmed>>

-----------------------------------------------------------------------------
(* The process and its surroundings *)

\* setup(): needs a configuration that loads; a crash may follow anywhere.
Start ==
  /\ ~up /\ ~asleep
  /\ Load(file) /\ UNCHANGED file
  /\ TrackerStart
  /\ IF ActiveProfile' # NoProfile THEN Apply(ActiveProfile')
                                   ELSE UNCHANGED powerVars
  /\ up' = TRUE
  /\ UNCHANGED <<serverVars, hwVars, agentVars, sentVars, peerVars, m_dimmed>>

\* SIGTERM, SIGINT, a crash or a power-off: nothing in memory survives.
Stop ==
  /\ Running
  /\ up' = FALSE
  /\ m_dimmed' = FALSE
  /\ PowerReset /\ ConfigReset /\ TrackerReset /\ ServerReset /\ HwReset
  /\ agents' = {}
  /\ session' = [fd \in Fds |-> NoSession]
  /\ inhibits' = [fd \in Fds |-> {}]
  /\ told' = [fd \in Fds |-> NoConfig]
  /\ lock' = NoFd
  /\ presleep' = {}
  /\ greeted' = [fd \in Fds |-> FALSE]
  /\ wants' = [fd \in Fds |-> {}]
  /\ stale' = {}

\* The reasons a client stands for once it has written m after the others.
WantsAfter(m, fd) ==
  CASE m.type = "hello"                       -> {}
    [] m.type = "inhibit" /\ greeted[fd]      -> wants[fd] \cup {m.arg}
    [] m.type = "uninhibit" /\ greeted[fd]    -> wants[fd] \ {m.arg}
    [] OTHER                                  -> wants[fd]

PeerWrites ==
  /\ Running
  /\ \E fd \in Fds, m \in Messages :
       /\ ClientWrites(fd, m)
       /\ wants' = [wants EXCEPT ![fd] = WantsAfter(m, fd)]
       /\ greeted' = [greeted EXCEPT ![fd] = @ \/ m.type = "hello"]
  /\ UNCHANGED <<powerVars, configVars, trackerVars, hwVars, agentVars,
                 sentVars, stale, up, m_dimmed>>

PeerWritesPiece ==
  /\ Running
  /\ \E fd \in Fds : ClientWritesPiece(fd)
  /\ UNCHANGED <<powerVars, configVars, trackerVars, hwVars, agentVars,
                 sentVars, peerVars, up, m_dimmed>>

PeerCloses ==
  /\ Running
  /\ \E fd \in Fds : ClientCloses(fd)
  /\ UNCHANGED <<powerVars, configVars, trackerVars, hwVars, agentVars,
                 sentVars, peerVars, up, m_dimmed>>

UserPresses ==
  /\ Running
  /\ \E e \in HwEvents : Press(e)
  /\ UNCHANGED <<powerVars, configVars, trackerVars, serverVars, agentVars,
                 sentVars, peerVars, up, m_dimmed>>

UserDims ==
  /\ ~asleep
  /\ \E raw \in UserLevels : UserSetsBacklight(raw)
  /\ UNCHANGED <<configVars, trackerVars, serverVars, hwVars, agentVars,
                 sentVars, peerVars, up, m_dimmed>>

SeatSwitches ==
  /\ ~asleep
  /\ \E id \in SessionIds : SwitchSession(id)
  /\ UNCHANGED <<powerVars, configVars, serverVars, hwVars, agentVars,
                 sentVars, peerVars, up, m_dimmed>>

AdminEdits ==
  /\ ~asleep
  /\ \E f \in ConfigFiles \ {file} : EditFile(f)
  /\ UNCHANGED <<powerVars, trackerVars, serverVars, hwVars, agentVars,
                 sentVars, peerVars, up, m_dimmed>>

Suspends ==
  /\ FallAsleep
  /\ UNCHANGED <<powerVars, configVars, trackerVars, serverVars, agentVars,
                 sentVars, peerVars, up, m_dimmed>>

Resumes ==
  /\ WakeUp
  /\ UNCHANGED <<powerVars, configVars, trackerVars, serverVars, agentVars,
                 sentVars, peerVars, up, m_dimmed>>

-----------------------------------------------------------------------------
Init ==
  /\ PowerInit /\ ConfigInit /\ TrackerInit /\ ServerInit /\ HwInit
  /\ up = FALSE
  /\ m_dimmed = FALSE
  /\ agents = {}
  /\ session = [fd \in Fds |-> NoSession]
  /\ inhibits = [fd \in Fds |-> {}]
  /\ told = [fd \in Fds |-> NoConfig]
  /\ lock = NoFd
  /\ presleep = {}
  /\ greeted = [fd \in Fds |-> FALSE]
  /\ wants = [fd \in Fds |-> {}]
  /\ stale = {}

OnLineAny ==
  \/ OnMalformed \/ OnHello \/ OnIgnored
  \/ OnIdleDim \/ OnIdleSleep \/ OnActive \/ OnInhibit \/ OnUninhibit
  \/ OnSetProfile \/ OnReloadConfig \/ OnLock \/ OnQuery

\* The daemon's own steps, and those of its surroundings.
Loop == EpollWait \/ AcceptClient \/ HandleClient \/ HandleDisconnect
          \/ OnHwEvent \/ OnLineAny
Environment == PeerWrites \/ PeerWritesPiece \/ PeerCloses \/ UserPresses \/ UserDims
                 \/ SeatSwitches \/ AdminEdits \/ Suspends \/ Resumes

Next == Start \/ Stop \/ Loop \/ Environment

Spec == Init /\ [][Next]_vars
=============================================================================
