---------------------------- MODULE SystemProofs ----------------------------
(***************************************************************************)
(* The agent and the daemon agree once their lines are handled, unless a   *)
(* write has failed, for every set of profiles and descriptors and any     *)
(* number of lines under way.                                              *)
(*                                                                         *)
(* The two agreements are stated for empty queues and are not inductive.   *)
(* The invariant says what the queues will have done once they are empty:  *)
(* the last CONFIG under way, or the monitor if there is none, has the     *)
(* timeouts of the active profile (ConfigUnderWay), and the last inhibit   *)
(* or uninhibit under way, or the hello, or the daemon's record if there   *)
(* is neither, has what the agent has announced (MediaUnderWay).  Both     *)
(* need to know what may stand in a queue, and that a torn line is a write *)
(* that has failed (LinkInv).                                              *)
(***************************************************************************)
EXTENDS SystemProperties, TLAPS

ReportTypes == {"idle_dim", "idle_sleep", "active", "inhibit", "uninhibit"}
ReportLines == [type : ReportTypes \cup {"malformed"}]
UpLines     == ReportLines \cup {Line("hello")}
DownLines   == [type : {"lock", "malformed"}]
                 \cup [type     : {"config"},
                       timeouts : {TimeoutsOf(s) : s \in Settings \cup {NoSetting}}]

LinesOK ==
  /\ up \in Seq(UpLines) /\ down \in Seq(DownLines)
  /\ torn_up \in {<<>>} \cup {<<line>> : line \in ReportLines}
  /\ torn_down \in {<<>>} \cup {<<line>> : line \in DownLines}

\* A connection needs both processes, and only a process that has ended has
\* hung up.
EndsOK ==
  /\ attached => on /\ ~hung_up /\ proc \in {"running", "leaving"}
  /\ hung_up => proc \in {"exited", "killed"}

\* Hello comes first.
HelloFirst == \A i \in DOMAIN up : up[i].type = "hello" => i = 1

\* A line is torn by a write that fails.
TornOK ==
  /\ torn_up # <<>> => "up" \in failed
  /\ torn_down # <<>> => "down" \in failed

LinkInv == world \in World /\ LinesOK /\ EndsOK /\ HelloFirst /\ TornOK

IsConfig(i) == down[i].type = "config"

ConfigUnderWay ==
  proc = "running" /\ attached /\ fd \in members /\ "down" \notin failed =>
    /\ \A i \in DOMAIN down :
         IsConfig(i) /\ (\A j \in DOMAIN down : j > i => ~IsConfig(j))
           => down[i].timeouts = TimeoutsOf(setting)
    /\ has_idle /\ (\A i \in DOMAIN down : ~IsConfig(i))
         => timeout = TimeoutsOf(setting)

IsMedia(i)   == up[i].type \in {"inhibit", "uninhibit"}
HelloUnderWay == \E i \in DOMAIN up : up[i].type = "hello"
Announced    == m_inhibiting /\ ~unsaid

MediaUnderWay ==
  proc = "running" /\ attached /\ "up" \notin failed =>
    /\ \A i \in DOMAIN up :
         IsMedia(i) /\ (\A j \in DOMAIN up : j > i => ~IsMedia(j))
           => (Announced <=> up[i].type = "inhibit")
    /\ (\A i \in DOMAIN up : ~IsMedia(i)) =>
         (Announced <=> ~HelloUnderWay /\ inhibits[fd] # {})

SystemInv == SystemTypeOK /\ LinkInv /\ ConfigUnderWay /\ MediaUnderWay
-----------------------------------------------------------------------------
(* Queues *)

LEMMA EmptyQueue == ASSUME NEW S PROVE <<>> \in Seq(S)
OBVIOUS

\* A line is put at the end of a queue.
LEMMA Enqueue ==
  ASSUME NEW S, NEW q \in Seq(S), NEW x \in S
  PROVE  /\ Append(q, x) \in Seq(S)
         /\ Append(q, x) # <<>>
         /\ Len(Append(q, x)) = Len(q) + 1
         /\ DOMAIN Append(q, x) = DOMAIN q \cup {Len(q) + 1}
         /\ Append(q, x)[Len(q) + 1] = x
         /\ \A i \in DOMAIN q : Append(q, x)[i] = q[i] /\ i < Len(q) + 1
OBVIOUS

\* The first line is taken from a queue and the others move up.
LEMMA Dequeue ==
  ASSUME NEW S, NEW q \in Seq(S), q # <<>>
  PROVE  /\ Tail(q) \in Seq(S)
         /\ Len(Tail(q)) = Len(q) - 1
         /\ 1 \in DOMAIN q /\ Head(q) = q[1] /\ Head(q) \in S
         /\ \A i \in DOMAIN Tail(q) : i + 1 \in DOMAIN q /\ Tail(q)[i] = q[i + 1]
         /\ \A i \in DOMAIN q : i # 1 => i - 1 \in DOMAIN Tail(q)
                                        /\ Tail(q)[i - 1] = q[i]
         /\ \A i \in DOMAIN q : i \in Nat /\ i >= 1
OBVIOUS

\* Some lines behind the first are kept, the others dropped.
LEMMA Cut ==
  ASSUME NEW S, NEW q \in Seq(S), q # <<>>, NEW n \in 0 .. Len(q) - 1
  PROVE  /\ SubSeq(Tail(q), 1, n) \in Seq(S)
         /\ Len(SubSeq(Tail(q), 1, n)) = n
         /\ \A i \in DOMAIN SubSeq(Tail(q), 1, n) :
              i \in Nat /\ i >= 1 /\ i + 1 \in DOMAIN q
                /\ SubSeq(Tail(q), 1, n)[i] = q[i + 1]
<1>1. Tail(q) \in Seq(S) /\ Len(Tail(q)) = Len(q) - 1
  OBVIOUS
<1>2. PICK r : r = Tail(q)
  OBVIOUS
<1>3. \A i \in 1 .. Len(r) : r[i] = q[i + 1]
  BY <1>2
<1>4. Len(r) \in Nat /\ n \in Nat /\ n <= Len(r) /\ r \in Seq(S)
  BY <1>1, <1>2
<1>5. SubSeq(r, 1, n) \in Seq(S) /\ Len(SubSeq(r, 1, n)) = n
      /\ \A i \in 1 .. n : SubSeq(r, 1, n)[i] = r[i]
  BY <1>4
<1>6. DOMAIN SubSeq(r, 1, n) = 1 .. n
  BY <1>5
<1> QED  BY <1>1, <1>2, <1>3, <1>4, <1>5, <1>6

-----------------------------------------------------------------------------
(* Lines *)

\* The lines of the protocol.
LEMMA LineTypes ==
  /\ \A type \in ReportTypes : Line(type) \in ReportLines
  /\ Line("malformed") \in ReportLines /\ Line("malformed") \in DownLines
  /\ Line("lock") \in DownLines
  /\ \A s \in Settings \cup {NoSetting} : Config(TimeoutsOf(s)) \in DownLines
BY DEF Line, Config, ReportLines, DownLines

\* What is read of a torn line and the one behind it is the torn line or one
\* that does not decode.
LEMMA JoinedLine ==
  ASSUME NEW S, NEW torn \in {<<>>} \cup {<<line>> : line \in S},
         NEW line \in S, Line("malformed") \in S
  PROVE  /\ Joined(torn, line) \subseteq S
         /\ torn = <<>> => Joined(torn, line) = {line}
         /\ Torn(torn, line) \subseteq {<<>>} \cup {<<l>> : l \in S}
<1>1. CASE torn = <<>>
  BY <1>1 DEF Joined, Torn
<1>2. ASSUME NEW l \in S, torn = <<l>>
      PROVE  Joined(torn, line) \subseteq S /\ torn # <<>>
             /\ Torn(torn, line) \subseteq {<<>>} \cup {<<x>> : x \in S}
  <2>1. Head(torn) = l /\ torn # <<>>
    BY <1>2
  <2> QED  BY <2>1 DEF Joined, Torn
<1> QED  BY <1>1, <1>2

\* send() puts a line behind the others, loses it or tears it.
LEMMA SendStep ==
  ASSUME LinesOK, NEW type \in ReportTypes, Send(type)
  PROVE  /\ torn_up' \in {<<>>} \cup {<<line>> : line \in ReportLines}
         /\ \/ UNCHANGED up
            \/ attached /\ Len(up) < MaxUp
               /\ \E line \in ReportLines : up' = Append(up, line)
<1>1. /\ Joined(torn_up, Line(type)) \subseteq ReportLines
      /\ Torn(torn_up, Line(type)) \subseteq {<<>>} \cup {<<l>> : l \in ReportLines}
  BY LineTypes, JoinedLine DEF LinesOK
<1>2. CASE UNCHANGED <<upVars, failed>>
  BY <1>2 DEF upVars, LinesOK
<1> QED  BY <1>1, <1>2 DEF Send

\* Server::send puts a line behind the others, loses it or tears it.
LEMMA TellStep ==
  ASSUME LinesOK, NEW line \in DownLines, Tell(line)
  PROVE  /\ torn_down' \in {<<>>} \cup {<<l>> : l \in DownLines}
         /\ \/ UNCHANGED down
            \/ attached /\ Len(down) < MaxDown
               /\ \E l \in DownLines : down' = Append(down, l)
<1>1. /\ Joined(torn_down, line) \subseteq DownLines
      /\ Torn(torn_down, line) \subseteq {<<>>} \cup {<<l>> : l \in DownLines}
  BY LineTypes, JoinedLine DEF LinesOK
<1>2. CASE UNCHANGED <<downVars, failed>>
  BY <1>2 DEF downVars, LinesOK
<1> QED  BY <1>1, <1>2 DEF Tell

\* On a connection without a failed write the line itself arrives.
LEMMA SendWhole ==
  ASSUME LinesOK, TornOK, attached, NEW type \in ReportTypes, Send(type),
         "up" \notin failed'
  PROVE  up' = Append(up, Line(type))
<1>1. "up" \notin failed
  BY DEF Send
<1>2. torn_up = <<>>
  BY <1>1 DEF TornOK
<1>3. Joined(torn_up, Line(type)) = {Line(type)}
  BY <1>2 DEF Joined
<1> QED  BY <1>3 DEF Send

LEMMA TellWhole ==
  ASSUME LinesOK, TornOK, attached, NEW line \in DownLines, Tell(line),
         "down" \notin failed'
  PROVE  down' = Append(down, line)
<1>1. "down" \notin failed
  BY DEF Tell
<1>2. torn_down = <<>>
  BY <1>1 DEF TornOK
<1>3. Joined(torn_down, line) = {line}
  BY <1>2 DEF Joined
<1> QED  BY <1>3 DEF Tell

-----------------------------------------------------------------------------
(* What each part of the state is changed by *)

\* Only these steps change who is registered and what they inhibit.
LEMMA RecordFrame ==
  ASSUME [SystemNext]_systemVars, ~HandleHello, ~HandleInhibit, ~HandleHangup,
         ~(\E c \in Fds : OtherClientLeaves(c)), ~DaemonStops
  PROVE  UNCHANGED <<members, inhibits>>
BY DEF systemVars, agentVars, linkVars, upVars, downVars, mprisVars,
       policyVars, monitorVars, Policy!memberVars, Policy!sleepVars,
       SystemNext, Handle, AgentSteps, Surroundings, HandleIdleDim,
       HandleLine, Policy!DimFor, TellNothing, HandleIdleSleep,
       Policy!SuspendFor, Tell, HandleActive, Policy!UndimFor,
       HandleMalformed, SetProfile, Policy!ApplySetting, DaemonStarts,
       Policy!Boot, AgentReads, OnConfigLine, OnOtherLine, OnDaemonLine,
       SetupIdleMonitor, ApplyConfig, NewMonitor, Idle!Configure,
       AgentConnects, AgentStarts, AgentReconnects, Connect, AgentLeaves,
       DaemonLost, AgentExits, EndProcess, NoMonitor, MonitorReports,
       OnIdleCallback, Send, Idle!Report, MonitorNotices, Idle!ReportActive,
       Idle!NoticeInput, MediaChanges, OnMprisCallback, Tick,
       Idle!TimePasses, UserInput, Idle!UserActs, SessionSwitches,
       Policy!SwitchTo, AgentComesAndGoes, AgentKilled, AgentSpawned,
       SleepsAndWakes, Policy!GoToSleep, Policy!ComeBack

\* Only these steps change the profile.
LEMMA SettingFrame ==
  ASSUME [SystemNext]_systemVars,
         ~(\E new \in Settings \cup {NoSetting} : SetProfile(new)),
         ~DaemonStarts, ~DaemonStops
  PROVE  UNCHANGED setting
BY DEF systemVars, agentVars, linkVars, upVars, downVars, mprisVars,
       policyVars, monitorVars, Policy!memberVars, Policy!sleepVars,
       SystemNext, Handle, AgentSteps, Surroundings, HandleHello, HandleLine,
       Policy!Register, Tell, HandleIdleDim, Policy!DimFor, TellNothing,
       HandleIdleSleep, Policy!SuspendFor, HandleActive, Policy!UndimFor,
       HandleInhibit, Policy!Inhibit, Policy!Uninhibit, HandleHangup,
       Policy!Unregister, HandleMalformed, OtherClientLeaves, AgentReads,
       OnConfigLine, OnOtherLine, OnDaemonLine, SetupIdleMonitor,
       ApplyConfig, NewMonitor, Idle!Configure, AgentConnects, AgentStarts,
       AgentReconnects, Connect, AgentLeaves, DaemonLost, AgentExits,
       EndProcess, NoMonitor, MonitorReports, OnIdleCallback, Send,
       Idle!Report, MonitorNotices, Idle!ReportActive, Idle!NoticeInput,
       MediaChanges, OnMprisCallback, Tick, Idle!TimePasses, UserInput,
       Idle!UserActs, SessionSwitches, Policy!SwitchTo, AgentComesAndGoes,
       AgentKilled, AgentSpawned, SleepsAndWakes, Policy!GoToSleep,
       Policy!ComeBack

\* Only these steps change whether the daemon runs.
LEMMA OnFrame ==
  ASSUME [SystemNext]_systemVars, ~DaemonStarts, ~DaemonStops
  PROVE  UNCHANGED on
BY DEF systemVars, agentVars, linkVars, upVars, downVars, mprisVars,
       policyVars, monitorVars, Policy!memberVars, Policy!sleepVars,
       SystemNext, Handle, AgentSteps, Surroundings, HandleHello, HandleLine,
       Policy!Register, Tell, HandleIdleDim, Policy!DimFor, TellNothing,
       HandleIdleSleep, Policy!SuspendFor, HandleActive, Policy!UndimFor,
       HandleInhibit, Policy!Inhibit, Policy!Uninhibit, HandleHangup,
       Policy!Unregister, HandleMalformed, OtherClientLeaves, SetProfile,
       Policy!ApplySetting, AgentReads, OnConfigLine, OnOtherLine,
       OnDaemonLine, SetupIdleMonitor, ApplyConfig, NewMonitor,
       Idle!Configure, AgentConnects, AgentStarts, AgentReconnects, Connect,
       AgentLeaves, DaemonLost, AgentExits, EndProcess, NoMonitor,
       MonitorReports, OnIdleCallback, Send, Idle!Report, MonitorNotices,
       Idle!ReportActive, Idle!NoticeInput, MediaChanges, OnMprisCallback,
       Tick, Idle!TimePasses, UserInput, Idle!UserActs, SessionSwitches,
       Policy!SwitchTo, AgentComesAndGoes, AgentKilled, AgentSpawned,
       SleepsAndWakes, Policy!GoToSleep, Policy!ComeBack

\* Only a new connection gets a descriptor; the surroundings stay.
LEMMA FdFrame ==
  ASSUME [SystemNext]_systemVars, ~AgentConnects
  PROVE  UNCHANGED <<fd, world>>
BY DEF systemVars, agentVars, linkVars, upVars, downVars, mprisVars,
       policyVars, monitorVars, Policy!memberVars, Policy!sleepVars,
       SystemNext, Handle, AgentSteps, Surroundings, HandleHello, HandleLine,
       Policy!Register, Tell, HandleIdleDim, Policy!DimFor, TellNothing,
       HandleIdleSleep, Policy!SuspendFor, HandleActive, Policy!UndimFor,
       HandleInhibit, Policy!Inhibit, Policy!Uninhibit, HandleHangup,
       Policy!Unregister, HandleMalformed, OtherClientLeaves, SetProfile,
       Policy!ApplySetting, DaemonStarts, Policy!Boot, DaemonStops,
       Policy!Shutdown, AgentReads, OnConfigLine, OnOtherLine, OnDaemonLine,
       SetupIdleMonitor, ApplyConfig, NewMonitor, Idle!Configure,
       AgentLeaves, DaemonLost, AgentExits, EndProcess, NoMonitor,
       MonitorReports, OnIdleCallback, Send, Idle!Report, MonitorNotices,
       Idle!ReportActive, Idle!NoticeInput, MediaChanges, OnMprisCallback,
       Tick, Idle!TimePasses, UserInput, Idle!UserActs, SessionSwitches,
       Policy!SwitchTo, AgentComesAndGoes, AgentKilled, AgentSpawned,
       SleepsAndWakes, Policy!GoToSleep, Policy!ComeBack

\* Only these steps change the monitor and its timeouts.
LEMMA TimeoutFrame ==
  ASSUME [SystemNext]_systemVars, ~AgentReads, ~AgentLeaves, ~AgentComesAndGoes
  PROVE  UNCHANGED <<timeout, has_idle>>
BY DEF systemVars, agentVars, linkVars, upVars, downVars, mprisVars,
       policyVars, monitorVars, Policy!memberVars, Policy!sleepVars,
       SystemNext, Handle, AgentSteps, Surroundings, HandleHello, HandleLine,
       Policy!Register, Tell, HandleIdleDim, Policy!DimFor, TellNothing,
       HandleIdleSleep, Policy!SuspendFor, HandleActive, Policy!UndimFor,
       HandleInhibit, Policy!Inhibit, Policy!Uninhibit, HandleHangup,
       Policy!Unregister, HandleMalformed, OtherClientLeaves, SetProfile,
       Policy!ApplySetting, DaemonStarts, Policy!Boot, DaemonStops,
       Policy!Shutdown, AgentConnects, AgentStarts, AgentReconnects, Connect,
       MonitorReports, OnIdleCallback, Send, Idle!Report, MonitorNotices,
       Idle!ReportActive, Idle!NoticeInput, MediaChanges, OnMprisCallback,
       Tick, Idle!TimePasses, UserInput, Idle!UserActs, SessionSwitches,
       Policy!SwitchTo, SleepsAndWakes, Policy!GoToSleep, Policy!ComeBack

\* Only these steps change what the monitor counts and has reported.
LEMMA MonitorFrame ==
  ASSUME [SystemNext]_systemVars, ~AgentReads, ~AgentLeaves,
         ~AgentComesAndGoes, ~MonitorReports, ~MonitorNotices, ~Tick,
         ~UserInput
  PROVE  UNCHANGED <<quiet, reported>>
BY DEF systemVars, agentVars, linkVars, upVars, downVars, mprisVars,
       policyVars, monitorVars, Policy!memberVars, Policy!sleepVars,
       SystemNext, Handle, AgentSteps, Surroundings, HandleHello, HandleLine,
       Policy!Register, Tell, HandleIdleDim, Policy!DimFor, TellNothing,
       HandleIdleSleep, Policy!SuspendFor, HandleActive, Policy!UndimFor,
       HandleInhibit, Policy!Inhibit, Policy!Uninhibit, HandleHangup,
       Policy!Unregister, HandleMalformed, OtherClientLeaves, SetProfile,
       Policy!ApplySetting, DaemonStarts, Policy!Boot, DaemonStops,
       Policy!Shutdown, AgentConnects, AgentStarts, AgentReconnects, Connect,
       MediaChanges, OnMprisCallback, Send, SessionSwitches, Policy!SwitchTo,
       SleepsAndWakes, Policy!GoToSleep, Policy!ComeBack

\* Only these steps change the lines to the daemon.
LEMMA UpFrame ==
  ASSUME [SystemNext]_systemVars, ~HandleHello, ~HandleIdleDim,
         ~HandleIdleSleep, ~HandleActive, ~HandleInhibit, ~HandleHangup,
         ~HandleMalformed, ~DaemonStops, ~AgentConnects, ~MonitorReports,
         ~MonitorNotices, ~MediaChanges
  PROVE  UNCHANGED <<up, torn_up>>
BY DEF systemVars, agentVars, linkVars, upVars, downVars, mprisVars,
       policyVars, monitorVars, Policy!memberVars, Policy!sleepVars,
       SystemNext, Handle, AgentSteps, Surroundings, OtherClientLeaves,
       Policy!Unregister, SetProfile, Tell, TellNothing, Policy!ApplySetting,
       DaemonStarts, Policy!Boot, AgentReads, OnConfigLine, OnOtherLine,
       OnDaemonLine, SetupIdleMonitor, ApplyConfig, NewMonitor,
       Idle!Configure, AgentLeaves, DaemonLost, AgentExits, EndProcess,
       NoMonitor, Tick, Idle!TimePasses, UserInput, Idle!UserActs,
       SessionSwitches, Policy!SwitchTo, AgentComesAndGoes, AgentKilled,
       AgentSpawned, SleepsAndWakes, Policy!GoToSleep, Policy!ComeBack

\* Only these steps change the lines to the agent.
LEMMA DownFrame ==
  ASSUME [SystemNext]_systemVars, ~HandleHello, ~HandleIdleSleep,
         ~(\E new \in Settings \cup {NoSetting} : SetProfile(new)),
         ~AgentReads, ~AgentConnects, ~AgentLeaves, ~AgentComesAndGoes
  PROVE  UNCHANGED <<down, torn_down>>
BY DEF systemVars, agentVars, linkVars, upVars, downVars, mprisVars,
       policyVars, monitorVars, Policy!memberVars, Policy!sleepVars,
       SystemNext, Handle, AgentSteps, Surroundings, HandleIdleDim,
       HandleLine, Policy!DimFor, TellNothing, HandleActive, Policy!UndimFor,
       HandleInhibit, Policy!Inhibit, Policy!Uninhibit, HandleHangup,
       Policy!Unregister, HandleMalformed, OtherClientLeaves, DaemonStarts,
       Policy!Boot, DaemonStops, Policy!Shutdown, MonitorReports,
       OnIdleCallback, Send, Idle!Report, MonitorNotices, Idle!ReportActive,
       Idle!NoticeInput, MediaChanges, OnMprisCallback, Tick,
       Idle!TimePasses, UserInput, Idle!UserActs, SessionSwitches,
       Policy!SwitchTo, SleepsAndWakes, Policy!GoToSleep, Policy!ComeBack

\* A connection does not forget that a write has failed.
LEMMA FailedFrame ==
  ASSUME [SystemNext]_systemVars, ~AgentConnects
  PROVE  /\ failed \subseteq failed'
         /\ failed' \subseteq failed \cup {"up", "down"}
BY DEF systemVars, agentVars, linkVars, upVars, downVars, mprisVars,
       policyVars, monitorVars, Policy!memberVars, Policy!sleepVars,
       SystemNext, Handle, AgentSteps, Surroundings, HandleHello, HandleLine,
       Policy!Register, Tell, HandleIdleDim, Policy!DimFor, TellNothing,
       HandleIdleSleep, Policy!SuspendFor, HandleActive, Policy!UndimFor,
       HandleInhibit, Policy!Inhibit, Policy!Uninhibit, HandleHangup,
       Policy!Unregister, HandleMalformed, OtherClientLeaves, SetProfile,
       Policy!ApplySetting, DaemonStarts, Policy!Boot, DaemonStops,
       Policy!Shutdown, AgentReads, OnConfigLine, OnOtherLine, OnDaemonLine,
       SetupIdleMonitor, ApplyConfig, NewMonitor, Idle!Configure,
       AgentLeaves, DaemonLost, AgentExits, EndProcess, NoMonitor,
       MonitorReports, OnIdleCallback, Send, Idle!Report, MonitorNotices,
       Idle!ReportActive, Idle!NoticeInput, MediaChanges, OnMprisCallback,
       Tick, Idle!TimePasses, UserInput, Idle!UserActs, SessionSwitches,
       Policy!SwitchTo, AgentComesAndGoes, AgentKilled, AgentSpawned,
       SleepsAndWakes, Policy!GoToSleep, Policy!ComeBack

\* Only these steps change the connection.
LEMMA LinkFrame ==
  ASSUME [SystemNext]_systemVars, ~HandleHangup, ~HandleMalformed,
         ~DaemonStops, ~AgentConnects, ~AgentLeaves, ~AgentComesAndGoes
  PROVE  UNCHANGED <<attached, hung_up>>
BY DEF systemVars, agentVars, linkVars, upVars, downVars, mprisVars,
       policyVars, monitorVars, Policy!memberVars, Policy!sleepVars,
       SystemNext, Handle, AgentSteps, Surroundings, HandleHello, HandleLine,
       Policy!Register, Tell, HandleIdleDim, Policy!DimFor, TellNothing,
       HandleIdleSleep, Policy!SuspendFor, HandleActive, Policy!UndimFor,
       HandleInhibit, Policy!Inhibit, Policy!Uninhibit, OtherClientLeaves,
       Policy!Unregister, SetProfile, Policy!ApplySetting, DaemonStarts,
       Policy!Boot, AgentReads, OnConfigLine, OnOtherLine, OnDaemonLine,
       SetupIdleMonitor, ApplyConfig, NewMonitor, Idle!Configure,
       MonitorReports, OnIdleCallback, Send, Idle!Report, MonitorNotices,
       Idle!ReportActive, Idle!NoticeInput, MediaChanges, OnMprisCallback,
       Tick, Idle!TimePasses, UserInput, Idle!UserActs, SessionSwitches,
       Policy!SwitchTo, SleepsAndWakes, Policy!GoToSleep, Policy!ComeBack

\* Only these steps change where the agent is.
LEMMA ProcFrame ==
  ASSUME [SystemNext]_systemVars, ~AgentConnects, ~AgentLeaves,
         ~AgentComesAndGoes
  PROVE  UNCHANGED proc
BY DEF systemVars, agentVars, linkVars, upVars, downVars, mprisVars,
       policyVars, monitorVars, Policy!memberVars, Policy!sleepVars,
       SystemNext, Handle, AgentSteps, Surroundings, HandleHello, HandleLine,
       Policy!Register, Tell, HandleIdleDim, Policy!DimFor, TellNothing,
       HandleIdleSleep, Policy!SuspendFor, HandleActive, Policy!UndimFor,
       HandleInhibit, Policy!Inhibit, Policy!Uninhibit, HandleHangup,
       Policy!Unregister, HandleMalformed, OtherClientLeaves, SetProfile,
       Policy!ApplySetting, DaemonStarts, Policy!Boot, DaemonStops,
       Policy!Shutdown, AgentReads, OnConfigLine, OnOtherLine, OnDaemonLine,
       SetupIdleMonitor, ApplyConfig, NewMonitor, Idle!Configure,
       MonitorReports, OnIdleCallback, Send, Idle!Report, MonitorNotices,
       Idle!ReportActive, Idle!NoticeInput, MediaChanges, OnMprisCallback,
       Tick, Idle!TimePasses, UserInput, Idle!UserActs, SessionSwitches,
       Policy!SwitchTo, SleepsAndWakes, Policy!GoToSleep, Policy!ComeBack

\* Only these steps change what MprisMonitor has made of the players.
LEMMA MprisFrame ==
  ASSUME [SystemNext]_systemVars, ~MediaChanges, ~AgentConnects, ~AgentLeaves,
         ~AgentComesAndGoes
  PROVE  UNCHANGED <<m_inhibiting, unsaid>>
BY DEF systemVars, agentVars, linkVars, upVars, downVars, mprisVars,
       policyVars, monitorVars, Policy!memberVars, Policy!sleepVars,
       SystemNext, Handle, AgentSteps, Surroundings, HandleHello, HandleLine,
       Policy!Register, Tell, HandleIdleDim, Policy!DimFor, TellNothing,
       HandleIdleSleep, Policy!SuspendFor, HandleActive, Policy!UndimFor,
       HandleInhibit, Policy!Inhibit, Policy!Uninhibit, HandleHangup,
       Policy!Unregister, HandleMalformed, OtherClientLeaves, SetProfile,
       Policy!ApplySetting, DaemonStarts, Policy!Boot, DaemonStops,
       Policy!Shutdown, AgentReads, OnConfigLine, OnOtherLine, OnDaemonLine,
       SetupIdleMonitor, ApplyConfig, NewMonitor, Idle!Configure,
       MonitorReports, OnIdleCallback, Send, Idle!Report, MonitorNotices,
       Idle!ReportActive, Idle!NoticeInput, Tick, Idle!TimePasses, UserInput,
       Idle!UserActs, SessionSwitches, Policy!SwitchTo, SleepsAndWakes,
       Policy!GoToSleep, Policy!ComeBack

-----------------------------------------------------------------------------
(* Types *)

LEMMA ProcessTypeStep ==
  ASSUME ProcessTypeOK, world \in World, [SystemNext]_systemVars
  PROVE  ProcessTypeOK'
<1> USE DEF ProcessTypeOK, AgentStates
<1>1. CASE AgentConnects
  <2>1. UNCHANGED <<hung_up, has_idle>> /\ attached' \in BOOLEAN
    BY <1>1, Zenon DEF AgentConnects, AgentStarts, AgentReconnects, Connect
  <2>2. proc' \in {"running", "leaving"}
    BY <1>1 DEF AgentConnects, AgentStarts, AgentReconnects
  <2>3. m_inhibiting' \in BOOLEAN /\ unsaid' \in BOOLEAN
    BY <1>1 DEF AgentConnects, AgentStarts, AgentReconnects, mprisVars
  <2> QED  BY <2>1, <2>2, <2>3
<1>2. CASE AgentLeaves
  <2>1. CASE DaemonLost
    BY <2>1 DEF DaemonLost, mprisVars
  <2>2. CASE AgentExits
    BY <2>2 DEF AgentExits, EndProcess
  <2> QED  BY <1>2, <2>1, <2>2 DEF AgentLeaves
<1>3. CASE AgentComesAndGoes
  <2>1. CASE AgentKilled
    BY <2>1 DEF AgentKilled, EndProcess
  <2>2. CASE AgentSpawned
    BY <2>2 DEF AgentSpawned, linkVars, mprisVars
  <2> QED  BY <1>3, <2>1, <2>2 DEF AgentComesAndGoes
<1>4. CASE ~AgentConnects /\ ~AgentLeaves /\ ~AgentComesAndGoes
  <2>1. UNCHANGED proc
    BY <1>4, ProcFrame
  <2>2. attached' \in BOOLEAN /\ hung_up' \in BOOLEAN
    BY <1>4, LinkFrame DEF HandleHangup, HandleMalformed, DaemonStops
  <2>3. m_inhibiting' \in BOOLEAN /\ unsaid' \in BOOLEAN
    BY <1>4, MprisFrame DEF MediaChanges, OnMprisCallback
  <2>4. UNCHANGED has_idle \/ (has_idle' = TRUE /\ proc = "running")
    <3>1. CASE AgentReads
      BY <3>1 DEF AgentReads, OnConfigLine, OnOtherLine, OnDaemonLine,
                  SetupIdleMonitor, World
    <3> QED  BY <1>4, <3>1, TimeoutFrame
  <2>5. has_idle' \in BOOLEAN
    BY <2>4
  <2>6. (has_idle => proc \notin {"starting", "exited", "killed"})'
    <3>1. CASE UNCHANGED has_idle
      BY <3>1, <2>1
    <3>2. CASE proc = "running"
      BY <3>2, <2>1
    <3> QED  BY <3>1, <3>2, <2>4
  <2> QED  BY <2>1, <2>2, <2>3, <2>5, <2>6
<1> QED  BY <1>1, <1>2, <1>3, <1>4

LEMMA RecordTypeStep ==
  ASSUME RecordTypeOK, [SystemNext]_systemVars
  PROVE  RecordTypeOK'
<1> USE DEF RecordTypeOK
<1>1. members' \subseteq Fds /\ inhibits' \in [Fds -> SUBSET {Why}]
  <2>1. CASE HandleHello
    BY <2>1 DEF HandleHello, Policy!Register
  <2>2. CASE HandleInhibit
    BY <2>2 DEF HandleInhibit, Policy!Inhibit, Policy!Uninhibit
  <2>3. CASE HandleHangup
    BY <2>3 DEF HandleHangup, Policy!Unregister
  <2>4. CASE DaemonStops
    BY <2>4 DEF DaemonStops, Policy!Shutdown
  <2>5. ASSUME NEW c \in Fds, OtherClientLeaves(c)
        PROVE  members' \subseteq Fds /\ inhibits' \in [Fds -> SUBSET {Why}]
    BY <2>5 DEF OtherClientLeaves, Policy!Unregister
  <2> QED  BY <2>1, <2>2, <2>3, <2>4, <2>5, RecordFrame
<1>3. fd' \in Fds
  <2>1. CASE AgentConnects
    BY <2>1 DEF AgentConnects
  <2> QED  BY <2>1, FdFrame
<1>2. setting' \in Settings \cup {NoSetting}
  BY SettingFrame DEF SetProfile, Policy!ApplySetting, DaemonStarts,
                      Policy!Boot, DaemonStops, Policy!Shutdown
<1> QED  BY <1>1, <1>2, <1>3

LEMMA MonitorTypeStep ==
  ASSUME MonitorTypeOK, [SystemNext]_systemVars
  PROVE  MonitorTypeOK'
<1> USE SystemAssumption DEF MonitorTypeOK
<1>1. ASSUME NEW new, NewMonitor(new) PROVE MonitorTypeOK'
  BY <1>1 DEF NewMonitor
<1>2. CASE AgentReads
  <2>1. ASSUME NEW new, Idle!Configure(new) PROVE MonitorTypeOK'
    BY <2>1 DEF Idle!Configure
  <2>2. CASE UNCHANGED monitorVars
    BY <2>2 DEF monitorVars
  <2> QED  BY <1>1, <1>2, <2>1, <2>2 DEF AgentReads, ApplyConfig
<1>3. CASE AgentLeaves \/ AgentComesAndGoes
  <2>1. CASE UNCHANGED monitorVars
    BY <2>1 DEF monitorVars
  <2> QED  BY <1>1, <1>3, <2>1 DEF AgentLeaves, AgentComesAndGoes, NoMonitor
<1>4. CASE MonitorReports \/ MonitorNotices
  BY <1>4 DEF MonitorReports, MonitorNotices, Idle!Report, Idle!ReportActive,
              Idle!NoticeInput
<1>5. CASE Tick
  BY <1>5 DEF Tick, Idle!TimePasses
<1>6. CASE UserInput
  BY <1>6 DEF UserInput, Idle!UserActs
<1> QED  BY <1>2, <1>3, <1>4, <1>5, <1>6, MonitorFrame

-----------------------------------------------------------------------------
(* The connection *)

\* What a step does to the lines to the daemon.
LEMMA UpSteps ==
  ASSUME LinesOK, [SystemNext]_systemVars
  PROVE  \/ UNCHANGED <<up, torn_up>>
         \/ /\ up # <<>> /\ up' = Tail(up) /\ UNCHANGED torn_up
            /\ \E type : HandleLine(type)
         \/ HandleHangup \/ DaemonStops \/ HandleMalformed \/ AgentConnects
         \/ \E type \in ReportTypes :
              /\ proc = "running" /\ Send(type)
              /\ \/ UNCHANGED up
                 \/ attached /\ Len(up) < MaxUp
                    /\ \E line \in ReportLines : up' = Append(up, line)
<1>1. MonitorNotices \/ MonitorReports \/ MediaChanges =>
        \/ UNCHANGED <<up, torn_up>>
        \/ \E type \in ReportTypes : proc = "running" /\ Send(type)
  BY DEF MonitorNotices, MonitorReports, MediaChanges, OnIdleCallback,
         OnMprisCallback, agentVars, linkVars, upVars, ReportTypes
<1>2. \A type : HandleLine(type) => up # <<>> /\ up' = Tail(up) /\ UNCHANGED torn_up
  BY DEF HandleLine
<1> QED
  BY <1>1, <1>2, UpFrame, SendStep
  DEF HandleHello, HandleIdleDim, HandleIdleSleep, HandleActive, HandleInhibit

\* What a step does to the lines to the agent.
LEMMA DownSteps ==
  ASSUME RecordTypeOK, [SystemNext]_systemVars
  PROVE  \/ UNCHANGED <<down, torn_down>>
         \/ \E line \in DownLines : Tell(line)
         \/ down # <<>> /\ down' = Tail(down) /\ UNCHANGED torn_down
         \/ down' = <<>> /\ torn_down' = <<>>
<1>1. CASE HandleIdleSleep
  BY <1>1, LineTypes DEF HandleIdleSleep, TellNothing, downVars
<1>2. ASSUME NEW new \in Settings \cup {NoSetting}, SetProfile(new)
      PROVE  UNCHANGED <<down, torn_down>> \/ \E line \in DownLines : Tell(line)
  BY <1>2, LineTypes DEF SetProfile, TellNothing, downVars
<1>3. CASE AgentReads
  BY <1>3 DEF AgentReads, OnConfigLine, OnOtherLine, OnDaemonLine
<1>4. CASE AgentConnects
  BY <1>4 DEF AgentConnects, AgentStarts, AgentReconnects, Connect
<1>5. CASE AgentLeaves \/ AgentComesAndGoes
  BY <1>5 DEF AgentLeaves, AgentComesAndGoes, DaemonLost, AgentExits,
              AgentKilled, AgentSpawned, EndProcess, linkVars, downVars
<1>6. CASE HandleHello
  BY <1>6, LineTypes DEF HandleHello, RecordTypeOK
<1> QED  BY <1>1, <1>2, <1>3, <1>4, <1>5, <1>6, DownFrame

LEMMA QueueTypeStep ==
  ASSUME QueueTypeOK, RecordTypeOK, LinkInv, [SystemNext]_systemVars
  PROVE  QueueTypeOK'
<1>a. /\ Len(up) \in Nat /\ Len(down) \in Nat /\ Len(<<>>) = 0
      /\ up # <<>> => Len(Tail(up)) = Len(up) - 1
      /\ down # <<>> => Len(Tail(down)) = Len(down) - 1
      /\ \A line : /\ Len(Append(up, line)) = Len(up) + 1
                   /\ Len(Append(down, line)) = Len(down) + 1
                   /\ Len(<<line>>) = 1
  BY DEF LinkInv, LinesOK
<1>1. Len(up') <= MaxUp
  <2> USE SystemAssumption, <1>a DEF QueueTypeOK
  <2>1. CASE up # <<>> /\ up' = Tail(up)
    BY <2>1
  <2>2. CASE HandleHangup \/ DaemonStops
    BY <2>2 DEF HandleHangup, DaemonStops
  <2>3. CASE AgentConnects
    <3>1. up' = <<Line("hello")>>
      BY <2>3 DEF AgentConnects, AgentStarts, AgentReconnects, Connect
    <3>2. Len(up') = 1
      BY <3>1
    <3> QED  BY <3>2
  <2>4. CASE Len(up) < MaxUp /\ \E line : up' = Append(up, line)
    BY <2>4
  <2>5. CASE UNCHANGED up
    BY <2>5
  <2>6. CASE HandleMalformed
    <3>1. PICK n \in 0 .. Len(up) - 1 : up # <<>> /\ up' = SubSeq(Tail(up), 1, n)
      BY <2>6 DEF HandleMalformed
    <3>2. Len(up') = n
      BY <3>1, Cut DEF LinkInv, LinesOK
    <3> QED  BY <3>1, <3>2
  <2> HIDE SystemAssumption, <1>a
  <2> QED  BY <2>1, <2>2, <2>3, <2>4, <2>5, <2>6, UpSteps DEF LinkInv
<1>2. Len(down') <= MaxDown
  <2> USE SystemAssumption, <1>a DEF QueueTypeOK
  <2>1. CASE Len(down) < MaxDown /\ \E line : down' = Append(down, line)
    BY <2>1
  <2>2. CASE UNCHANGED down
    BY <2>2
  <2>3. CASE down' = <<>>
    BY <2>3
  <2>4. CASE down # <<>> /\ down' = Tail(down)
    BY <2>4
  <2> HIDE SystemAssumption, <1>a
  <2> QED  BY <2>1, <2>2, <2>3, <2>4, DownSteps, TellStep DEF LinkInv
<1>3. failed' \subseteq {"up", "down"}
  <2>1. CASE AgentConnects
    BY <2>1 DEF AgentConnects, AgentStarts, AgentReconnects, Connect
  <2> QED  BY <2>1, FailedFrame DEF QueueTypeOK
<1> QED  BY <1>1, <1>2, <1>3 DEF QueueTypeOK

LEMMA LinesStep ==
  ASSUME RecordTypeOK, LinesOK, [SystemNext]_systemVars
  PROVE  LinesOK'
<1> DEFINE TornUp == {<<>>} \cup {<<line>> : line \in ReportLines}
           TornDown == {<<>>} \cup {<<line>> : line \in DownLines}
<1>1. up \in Seq(UpLines) /\ torn_up \in TornUp
      /\ down \in Seq(DownLines) /\ torn_down \in TornDown
  BY DEF LinesOK
<1>2. ReportLines \subseteq UpLines /\ Line("hello") \in UpLines
  BY DEF UpLines
<1>3. up' \in Seq(UpLines) /\ torn_up' \in TornUp
  <2>1. CASE up # <<>> /\ up' = Tail(up) /\ UNCHANGED torn_up
    BY <1>1, <2>1, Dequeue
  <2>2. CASE HandleHangup \/ DaemonStops
    BY <2>2, EmptyQueue DEF HandleHangup, DaemonStops
  <2>3. CASE AgentConnects
    <3>1. up' = <<Line("hello")>> /\ torn_up' = <<>>
      BY <2>3 DEF AgentConnects, AgentStarts, AgentReconnects, Connect
    <3> QED  BY <1>2, <3>1
  <2>4. ASSUME NEW type \in ReportTypes, Send(type)
        PROVE  up' \in Seq(UpLines) /\ torn_up' \in TornUp
    <3>1. UNCHANGED up \/ \E line \in ReportLines : up' = Append(up, line)
      BY <2>4, SendStep
    <3>2. up' \in Seq(UpLines)
      BY <1>1, <1>2, <3>1, Enqueue
    <3> QED  BY <2>4, <3>2, SendStep
  <2>5. CASE HandleMalformed
    <3>1. PICK n \in 0 .. Len(up) - 1 : up # <<>> /\ up' = SubSeq(Tail(up), 1, n)
      BY <2>5 DEF HandleMalformed
    <3>2. torn_up' = <<>>
      BY <2>5 DEF HandleMalformed
    <3> QED  BY <1>1, <3>1, <3>2, Cut
  <2> QED  BY <1>1, <2>1, <2>2, <2>3, <2>4, <2>5, UpSteps
<1>4. down' \in Seq(DownLines) /\ torn_down' \in TornDown
  <2>1. ASSUME NEW line \in DownLines, Tell(line)
        PROVE  down' \in Seq(DownLines) /\ torn_down' \in TornDown
    <3>1. UNCHANGED down \/ \E l \in DownLines : down' = Append(down, l)
      BY <2>1, TellStep
    <3>2. down' \in Seq(DownLines)
      BY <1>1, <3>1, Enqueue
    <3> QED  BY <2>1, <3>2, TellStep
  <2>2. CASE down # <<>> /\ down' = Tail(down) /\ UNCHANGED torn_down
    BY <1>1, <2>2, Dequeue
  <2> QED  BY <1>1, <2>1, <2>2, DownSteps, EmptyQueue
<1> QED  BY <1>3, <1>4 DEF LinesOK

LEMMA EndsStep ==
  ASSUME ProcessTypeOK, EndsOK, [SystemNext]_systemVars
  PROVE  EndsOK'
<1> USE DEF ProcessTypeOK, EndsOK
<1>1. CASE HandleHangup
  BY <1>1, ProcFrame, OnFrame DEF HandleHangup
<1>2. CASE DaemonStops \/ HandleMalformed
  BY <1>2 DEF DaemonStops, HandleMalformed
<1>3. CASE DaemonStarts
  BY <1>3 DEF DaemonStarts, agentVars, linkVars
<1>4. CASE AgentConnects
  BY <1>4 DEF AgentConnects, AgentStarts, AgentReconnects, Connect
<1>5. CASE AgentLeaves
  BY <1>5 DEF AgentLeaves, DaemonLost, AgentExits, EndProcess
<1>6. CASE AgentComesAndGoes
  BY <1>6 DEF AgentComesAndGoes, AgentKilled, AgentSpawned, EndProcess, linkVars
<1>7. CASE UNCHANGED <<on, attached, hung_up, proc>>
  BY <1>7
<1> QED
  BY <1>1, <1>2, <1>3, <1>4, <1>5, <1>6, <1>7, OnFrame, LinkFrame, ProcFrame

\* A line that is taken from the queue is the only one that can be a hello.
LEMMA HelloTail ==
  ASSUME LinesOK, HelloFirst, up # <<>>, up' = Tail(up)
  PROVE  \A i \in DOMAIN up' : up'[i].type # "hello"
<1>1. \A i \in DOMAIN up' : i + 1 \in DOMAIN up /\ up'[i] = up[i + 1]
                            /\ i + 1 # 1
  BY Dequeue DEF LinesOK
<1> QED  BY <1>1 DEF HelloFirst

LEMMA HelloStep ==
  ASSUME LinkInv, [SystemNext]_systemVars
  PROVE  HelloFirst'
<1> USE DEF LinkInv, LinesOK, HelloFirst
<1>1. CASE up # <<>> /\ up' = Tail(up)
  BY <1>1, HelloTail
<1>2. CASE HandleHangup \/ DaemonStops
  BY <1>2 DEF HandleHangup, DaemonStops
<1>3. CASE AgentConnects
  <2>1. up' = <<Line("hello")>>
    BY <1>3 DEF AgentConnects, AgentStarts, AgentReconnects, Connect
  <2> QED  BY <2>1
<1>4. ASSUME NEW line \in ReportLines, up' = Append(up, line)
      PROVE  HelloFirst'
  <2>1. line.type # "hello" /\ line \in UpLines
    BY <1>4 DEF ReportLines, ReportTypes, UpLines
  <2> QED  BY <1>4, <2>1, Enqueue
<1>5. CASE UNCHANGED up
  BY <1>5
<1>6. CASE HandleMalformed
  <2>1. PICK n \in 0 .. Len(up) - 1 : up # <<>> /\ up' = SubSeq(Tail(up), 1, n)
    BY <1>6 DEF HandleMalformed
  <2>2. \A i \in DOMAIN up' : i \in Nat /\ i >= 1 /\ i + 1 \in DOMAIN up
                              /\ up'[i] = up[i + 1]
    BY <2>1, Cut
  <2>3. \A i \in DOMAIN up' : up'[i].type # "hello"
    BY <2>2
  <2> QED  BY <2>3
<1> QED
  BY <1>1, <1>2, <1>3, <1>4, <1>5, <1>6, UpSteps

LEMMA TornStep ==
  ASSUME RecordTypeOK, LinkInv, [SystemNext]_systemVars
  PROVE  TornOK'
<1> USE DEF TornOK, LinkInv
<1>1. torn_up' # <<>> => "up" \in failed'
  <2>1. ASSUME NEW type \in ReportTypes, Send(type), torn_up' # <<>>
        PROVE  "up" \in failed'
    BY <2>1 DEF Send, upVars
  <2>2. CASE HandleHangup \/ DaemonStops \/ HandleMalformed \/ AgentConnects
    BY <2>2 DEF HandleHangup, DaemonStops, HandleMalformed, AgentConnects,
                AgentStarts, AgentReconnects, Connect
  <2>3. CASE ~AgentConnects /\ UNCHANGED torn_up
    BY <2>3, FailedFrame
  <2> QED  BY <2>1, <2>2, <2>3, UpSteps
<1>2. torn_down' # <<>> => "down" \in failed'
  <2>1. ASSUME NEW line \in DownLines, Tell(line), torn_down' # <<>>
        PROVE  "down" \in failed'
    BY <2>1 DEF Tell, downVars
  <2>2. CASE AgentConnects
    BY <2>2 DEF AgentConnects, AgentStarts, AgentReconnects, Connect
  <2>3. CASE ~AgentConnects /\ UNCHANGED torn_down
    BY <2>3, FailedFrame
  <2> QED  BY <2>1, <2>2, <2>3, DownSteps
<1> QED  BY <1>1, <1>2

LEMMA LinkStep ==
  ASSUME SystemTypeOK, LinkInv, [SystemNext]_systemVars
  PROVE  LinkInv'
<1>1. world' \in World
  <2>1. CASE AgentConnects
    BY <2>1 DEF AgentConnects, AgentStarts, AgentReconnects, Connect, LinkInv
  <2> QED  BY <2>1, FdFrame DEF LinkInv
<1> QED  BY <1>1, LinesStep, EndsStep, HelloStep, TornStep
         DEF SystemTypeOK, LinkInv

-----------------------------------------------------------------------------
(* The CONFIG under way *)

\* A CONFIG with the timeouts of the profile is the last line from now on.
LEMMA ConfigAppended ==
  ASSUME LinesOK, setting' \in Settings \cup {NoSetting},
         down' = Append(down, Config(TimeoutsOf(setting')))
  PROVE  ConfigUnderWay'
<1> DEFINE n == Len(down) + 1
           line == Config(TimeoutsOf(setting'))
<1>1. /\ DOMAIN down' = DOMAIN down \cup {n}
      /\ down'[n] = line
      /\ \A i \in DOMAIN down : i < n
  BY LineTypes, Enqueue DEF LinesOK
<1>2. line.type = "config" /\ line.timeouts = TimeoutsOf(setting')
  BY DEF Config
<1> HIDE DEF line, n
<1> QED  BY <1>1, <1>2 DEF ConfigUnderWay, IsConfig

\* A LOCK is sent behind what is under way.
LEMMA LockAppended ==
  ASSUME LinesOK, ConfigUnderWay, down' = Append(down, Line("lock")),
         failed \subseteq failed', fd \in members,
         UNCHANGED <<proc, attached, fd, setting, has_idle, timeout>>
  PROVE  ConfigUnderWay'
<1> DEFINE n == Len(down) + 1
<1>1. /\ DOMAIN down' = DOMAIN down \cup {n}
      /\ down'[n] = Line("lock")
      /\ \A i \in DOMAIN down : down'[i] = down[i]
  BY LineTypes, Enqueue DEF LinesOK
<1>2. Line("lock").type # "config"
  BY DEF Line
<1> HIDE DEF n
<1> QED  BY <1>1, <1>2 DEF ConfigUnderWay, IsConfig

\* The agent reads a line: what it was told moves from the queue to the
\* monitor.
LEMMA ConfigRead ==
  ASSUME LinesOK, ConfigUnderWay, AgentReads
  PROVE  ConfigUnderWay'
<1>1. /\ down # <<>> /\ down' = Tail(down)
      /\ UNCHANGED <<proc, attached, fd, members, setting, failed>>
  BY DEF AgentReads, OnConfigLine, OnOtherLine, OnDaemonLine, policyVars
<1>2. /\ 1 \in DOMAIN down /\ Head(down) = down[1]
      /\ \A i \in DOMAIN down' : /\ i \in Nat /\ i >= 1
                                 /\ i + 1 \in DOMAIN down
                                 /\ down'[i] = down[i + 1]
      /\ \A i \in DOMAIN down : /\ i \in Nat /\ i >= 1
                                /\ i # 1 => /\ i - 1 \in DOMAIN down'
                                            /\ down'[i - 1] = down[i]
  BY <1>1, Dequeue DEF LinesOK
<1> SUFFICES ASSUME proc = "running" /\ attached /\ fd \in members,
                    "down" \notin failed
             PROVE  ConfigUnderWay'
  BY <1>1 DEF ConfigUnderWay
<1>3. ASSUME NEW i \in DOMAIN down', IsConfig(i)',
             \A j \in DOMAIN down' : j > i => ~IsConfig(j)'
      PROVE  down'[i].timeouts = TimeoutsOf(setting)
  <2>1. i + 1 \in DOMAIN down /\ IsConfig(i + 1)
    BY <1>2, <1>3 DEF IsConfig
  <2>2. ASSUME NEW j \in DOMAIN down, j > i + 1
        PROVE  ~IsConfig(j)
    <3>1. j - 1 \in DOMAIN down' /\ j - 1 > i /\ down'[j - 1] = down[j]
      BY <1>2, <2>2
    <3> QED  BY <1>3, <3>1 DEF IsConfig
  <2>3. down[i + 1].timeouts = TimeoutsOf(setting)
    BY <2>1, <2>2 DEF ConfigUnderWay
  <2> QED  BY <1>2, <2>3
<1>4. ASSUME has_idle', \A i \in DOMAIN down' : ~IsConfig(i)'
      PROVE  timeout' = TimeoutsOf(setting)
  <2>1. \A j \in DOMAIN down : j # 1 => ~IsConfig(j)
    BY <1>2, <1>4 DEF IsConfig
  <2>2. CASE OnConfigLine /\ ApplyConfig(Head(down).timeouts)
    <3>1. IsConfig(1)
      BY <1>2, <2>2 DEF OnConfigLine, OnDaemonLine, IsConfig
    <3>2. timeout' = down[1].timeouts
      BY <1>2, <1>4, <2>2 DEF ApplyConfig, Idle!Configure, NewMonitor
    <3>3. \A j \in DOMAIN down : j > 1 => ~IsConfig(j)
      BY <1>2, <2>1
    <3> QED  BY <1>2, <3>1, <3>2, <3>3 DEF ConfigUnderWay
  <2>3. CASE OnOtherLine /\ UNCHANGED <<monitorVars, clean>>
    <3>1. ~IsConfig(1)
      BY <1>2, <2>3 DEF OnOtherLine, OnDaemonLine, IsConfig
    <3>2. UNCHANGED <<timeout, has_idle>>
      BY <2>3 DEF OnOtherLine, monitorVars
    <3> QED  BY <1>4, <2>1, <3>1, <3>2 DEF ConfigUnderWay
  <2> QED  BY <2>2, <2>3 DEF AgentReads
<1> QED  BY <1>1, <1>3, <1>4 DEF ConfigUnderWay

LEMMA ConfigStep ==
  ASSUME SystemTypeOK, LinkInv, ConfigUnderWay, [SystemNext]_systemVars
  PROVE  ConfigUnderWay'
<1> SUFFICES ASSUME (proc = "running" /\ attached /\ fd \in members)',
                    "down" \notin failed'
             PROVE  ConfigUnderWay'
  BY DEF ConfigUnderWay
<1>1. CASE AgentConnects
  <2>1. AgentStarts
    BY <1>1 DEF AgentConnects, AgentReconnects
  <2>2. down' = <<>> /\ has_idle' = FALSE
    BY <2>1 DEF AgentStarts, Connect, SystemTypeOK, ProcessTypeOK
  <2> QED  BY <2>2 DEF ConfigUnderWay
<1>2. ~AgentLeaves /\ ~AgentComesAndGoes
  BY DEF AgentLeaves, AgentComesAndGoes, DaemonLost, AgentExits, AgentKilled,
         AgentSpawned
<1>3. ~DaemonStops /\ ~HandleMalformed
  BY DEF DaemonStops, HandleMalformed
<1>4. CASE ~AgentConnects
  <2>1. ~HandleHangup
    BY DEF HandleHangup, LinkInv, EndsOK
  <2>2. UNCHANGED <<proc, attached, hung_up>>
    BY <1>2, <1>3, <1>4, <2>1, ProcFrame, LinkFrame
  <2>3. ~DaemonStarts
    BY <2>2 DEF DaemonStarts, LinkInv, EndsOK
  <2>4. UNCHANGED fd /\ failed \subseteq failed'
    BY <1>4, FdFrame, FailedFrame
  <2>5. CASE AgentReads
    BY <2>5, ConfigRead DEF LinkInv
  <2>6. CASE ~AgentReads
    <3>1. UNCHANGED <<timeout, has_idle>>
      BY <1>2, <2>6, TimeoutFrame
    <3>2. CASE HandleHello
      <4>1. UNCHANGED setting
        BY <3>2 DEF HandleHello, Policy!Register
      <4>2. Tell(Config(TimeoutsOf(setting'))) /\ setting' \in Settings \cup {NoSetting}
        BY <3>2, <4>1 DEF HandleHello, SystemTypeOK, RecordTypeOK
      <4>3. down' = Append(down, Config(TimeoutsOf(setting')))
        BY <2>2, <4>2, LineTypes, TellWhole DEF LinkInv
      <4> QED  BY <4>2, <4>3, ConfigAppended DEF LinkInv
    <3>3. ASSUME NEW new \in Settings \cup {NoSetting}, SetProfile(new)
          PROVE  ConfigUnderWay'
      <4>1. setting' = new /\ UNCHANGED members
        BY <3>3 DEF SetProfile, Policy!ApplySetting, Policy!memberVars
      <4>2. Tell(Config(TimeoutsOf(setting'))) /\ setting' \in Settings \cup {NoSetting}
        BY <2>4, <3>3, <4>1 DEF SetProfile
      <4>3. down' = Append(down, Config(TimeoutsOf(setting')))
        BY <2>2, <4>2, LineTypes, TellWhole DEF LinkInv
      <4> QED  BY <4>2, <4>3, ConfigAppended DEF LinkInv
    <3>4. CASE ~HandleHello
               /\ ~(\E new \in Settings \cup {NoSetting} : SetProfile(new))
      <4>1. UNCHANGED setting
        BY <1>3, <2>3, <3>4, SettingFrame
      <4>2. fd \in members
        <5>1. CASE HandleInhibit
          BY <2>4, <5>1 DEF HandleInhibit, Policy!Inhibit, Policy!Uninhibit
        <5>2. ASSUME NEW c \in Fds, OtherClientLeaves(c) PROVE fd \in members
          BY <2>4, <5>2 DEF OtherClientLeaves, Policy!Unregister
        <5> QED  BY <1>3, <2>1, <2>4, <3>4, <5>1, <5>2, RecordFrame
      <4>3. UNCHANGED down \/ Tell(Line("lock"))
        <5>1. CASE HandleIdleSleep
          BY <5>1 DEF HandleIdleSleep, TellNothing, downVars
        <5> QED  BY <1>2, <1>4, <2>6, <3>4, <5>1, DownFrame
      <4>4. CASE UNCHANGED down
        BY <2>2, <2>4, <3>1, <4>1, <4>2, <4>4 DEF ConfigUnderWay, IsConfig
      <4>5. CASE Tell(Line("lock"))
        <5>1. down' = Append(down, Line("lock"))
          BY <2>2, <4>5, LineTypes, TellWhole DEF LinkInv
        <5> QED  BY <2>2, <2>4, <3>1, <4>1, <4>2, <5>1, LockAppended DEF LinkInv
      <4> QED  BY <4>3, <4>4, <4>5
    <3> QED  BY <3>2, <3>3, <3>4
  <2> QED  BY <2>5, <2>6
<1> QED  BY <1>1, <1>4

-----------------------------------------------------------------------------
(* The inhibit under way *)

MediaTypes == {"inhibit", "uninhibit"}

\* A line that is not about players is sent behind what is under way.
LEMMA OtherAppended ==
  ASSUME LinesOK, MediaUnderWay, failed \subseteq failed',
         NEW type \in {"idle_dim", "idle_sleep", "active"},
         up' = Append(up, Line(type)),
         UNCHANGED <<proc, attached, fd, m_inhibiting, unsaid, inhibits>>
  PROVE  MediaUnderWay'
<1>1. PICK n : n = Len(up) + 1
  OBVIOUS
<1>2. Line(type) \in UpLines
  BY LineTypes DEF ReportTypes, UpLines
<1>3. /\ DOMAIN up' = DOMAIN up \cup {n}
      /\ up'[n] = Line(type)
      /\ \A i \in DOMAIN up : up'[i] = up[i]
  BY <1>1, <1>2, Enqueue DEF LinesOK
<1>4. Line(type).type \notin MediaTypes /\ Line(type).type # "hello"
  BY DEF Line, MediaTypes
<1>5. HelloUnderWay' <=> HelloUnderWay
  BY <1>3, <1>4 DEF HelloUnderWay
<1>6. \A i \in DOMAIN up : IsMedia(i)' <=> IsMedia(i)
  BY <1>3 DEF IsMedia
<1>7. ~IsMedia(n)'
  BY <1>3, <1>4 DEF IsMedia, MediaTypes
<1>8. Announced' <=> Announced
  BY DEF Announced
<1> QED  BY <1>3, <1>5, <1>6, <1>7, <1>8 DEF MediaUnderWay

\* The players' new state is the last line from now on.
LEMMA MediaAppended ==
  ASSUME LinesOK, NEW type \in MediaTypes, up' = Append(up, Line(type)),
         Announced' <=> type = "inhibit"
  PROVE  MediaUnderWay'
<1>1. PICK n : n = Len(up) + 1
  OBVIOUS
<1>2. Line(type) \in UpLines
  BY LineTypes DEF ReportTypes, UpLines, MediaTypes
<1>3. /\ DOMAIN up' = DOMAIN up \cup {n}
      /\ up'[n] = Line(type)
      /\ \A i \in DOMAIN up : i < n
  BY <1>1, <1>2, Enqueue DEF LinesOK
<1>4. Line(type).type = type
  BY DEF Line
<1>5. IsMedia(n)' /\ n \in DOMAIN up'
  BY <1>3, <1>4 DEF IsMedia, MediaTypes
<1> QED  BY <1>3, <1>4, <1>5 DEF MediaUnderWay

\* The daemon handles a line: what it was told moves from the queue to the
\* record.
LEMMA MediaHandled ==
  ASSUME LinesOK, HelloFirst, MediaUnderWay, up # <<>>, up' = Tail(up),
         failed \subseteq failed',
         UNCHANGED <<proc, attached, fd, m_inhibiting, unsaid>>,
         Head(up).type \in MediaTypes =>
           (inhibits'[fd] # {} <=> Head(up).type = "inhibit"),
         Head(up).type = "hello" => inhibits'[fd] = {},
         Head(up).type \notin MediaTypes \cup {"hello"} =>
           inhibits'[fd] = inhibits[fd]
  PROVE  MediaUnderWay'
<1>1. /\ 1 \in DOMAIN up /\ Head(up) = up[1]
      /\ \A i \in DOMAIN up' : /\ i \in Nat /\ i >= 1
                               /\ i + 1 \in DOMAIN up /\ up'[i] = up[i + 1]
      /\ \A i \in DOMAIN up : /\ i \in Nat /\ i >= 1
                              /\ i # 1 => /\ i - 1 \in DOMAIN up'
                                          /\ up'[i - 1] = up[i]
  BY Dequeue DEF LinesOK
<1> SUFFICES ASSUME proc = "running" /\ attached, "up" \notin failed
             PROVE  MediaUnderWay'
  BY DEF MediaUnderWay
<1>2. ASSUME NEW i \in DOMAIN up', IsMedia(i)',
             \A j \in DOMAIN up' : j > i => ~IsMedia(j)'
      PROVE  Announced <=> up'[i].type = "inhibit"
  <2>1. i + 1 \in DOMAIN up /\ IsMedia(i + 1)
    BY <1>1, <1>2 DEF IsMedia
  <2>2. ASSUME NEW j \in DOMAIN up, j > i + 1
        PROVE  ~IsMedia(j)
    <3>1. j - 1 \in DOMAIN up' /\ j - 1 > i /\ up'[j - 1] = up[j]
      BY <1>1, <2>2
    <3> QED  BY <1>2, <3>1 DEF IsMedia
  <2>3. Announced <=> up[i + 1].type = "inhibit"
    BY <2>1, <2>2 DEF MediaUnderWay
  <2> QED  BY <1>1, <2>3
<1>3. ASSUME \A i \in DOMAIN up' : ~IsMedia(i)'
      PROVE  Announced <=> inhibits'[fd] # {}
  <2>1. \A j \in DOMAIN up : j # 1 => ~IsMedia(j)
    BY <1>1, <1>3 DEF IsMedia
  <2>2. CASE IsMedia(1)
    <3>1. \A j \in DOMAIN up : j > 1 => ~IsMedia(j)
      BY <1>1, <2>1
    <3>2. Announced <=> up[1].type = "inhibit"
      BY <1>1, <2>2, <3>1 DEF MediaUnderWay
    <3> QED  BY <1>1, <2>2, <3>2 DEF IsMedia, MediaTypes
  <2>3. CASE ~IsMedia(1)
    <3>1. Announced <=> ~HelloUnderWay /\ inhibits[fd] # {}
      BY <2>1, <2>3 DEF MediaUnderWay
    <3>2. CASE up[1].type = "hello"
      BY <1>1, <3>1, <3>2 DEF HelloUnderWay
    <3>3. CASE up[1].type # "hello"
      <4>1. ~HelloUnderWay
        BY <1>1, <3>3 DEF HelloUnderWay, HelloFirst
      <4>2. inhibits'[fd] = inhibits[fd]
        BY <1>1, <2>3, <3>3 DEF IsMedia, MediaTypes
      <4> QED  BY <3>1, <4>1, <4>2
    <3> QED  BY <3>2, <3>3
  <2> QED  BY <2>2, <2>3
<1>4. ~HelloUnderWay'
  BY HelloTail DEF HelloUnderWay
<1>5. Announced' <=> Announced
  BY DEF Announced
<1> QED  BY <1>2, <1>3, <1>4, <1>5 DEF MediaUnderWay

LEMMA MediaStep ==
  ASSUME SystemTypeOK, LinkInv, MediaUnderWay, [SystemNext]_systemVars
  PROVE  MediaUnderWay'
<1> SUFFICES ASSUME (proc = "running" /\ attached)', "up" \notin failed'
             PROVE  MediaUnderWay'
  BY DEF MediaUnderWay
<1>1. ~AgentLeaves /\ ~AgentComesAndGoes
  BY DEF AgentLeaves, AgentComesAndGoes, DaemonLost, AgentExits, AgentKilled,
         AgentSpawned
<1>2. ~DaemonStops /\ ~HandleMalformed /\ ~HandleHangup
  BY DEF DaemonStops, HandleMalformed, HandleHangup, LinkInv, EndsOK
<1>3. CASE AgentConnects
  <2>1. AgentStarts
    BY <1>3 DEF AgentConnects, AgentReconnects
  <2>2. up' = <<Line("hello")>> /\ unsaid' = m_inhibiting'
    BY <2>1 DEF AgentStarts, Connect
  <2>3. ~Announced'
    BY <2>2 DEF Announced
  <2>4. DOMAIN up' = {1} /\ up'[1].type = "hello"
    BY <2>2 DEF Line
  <2>5. HelloUnderWay' /\ \A i \in DOMAIN up' : ~IsMedia(i)'
    BY <2>4 DEF HelloUnderWay, IsMedia
  <2> QED  BY <2>3, <2>5 DEF MediaUnderWay
<1>4. CASE ~AgentConnects
  <2>1. UNCHANGED <<proc, attached>>
    BY <1>1, <1>2, <1>4, ProcFrame, LinkFrame
  <2>2. UNCHANGED fd /\ failed \subseteq failed'
    BY <1>4, FdFrame, FailedFrame
  <2>3. CASE MediaChanges
    <3>1. PICK type \in MediaTypes :
            /\ type = IF m_inhibiting THEN "uninhibit" ELSE "inhibit"
            /\ Send(type)
      BY <2>3 DEF MediaChanges, OnMprisCallback, MediaTypes
    <3>2. up' = Append(up, Line(type))
      BY <2>1, <3>1, SendWhole DEF LinkInv, MediaTypes, ReportTypes
    <3>3. m_inhibiting' = ~m_inhibiting /\ unsaid' = FALSE
      BY <2>3 DEF MediaChanges, OnMprisCallback
    <3>4. Announced' <=> type = "inhibit"
      BY <3>1, <3>3 DEF Announced, SystemTypeOK, ProcessTypeOK
    <3> QED  BY <3>2, <3>4, MediaAppended DEF LinkInv
  <2>4. CASE ~MediaChanges
    <3>1. UNCHANGED <<m_inhibiting, unsaid>>
      BY <1>1, <1>4, <2>4, MprisFrame
    <3>2. CASE HandleInhibit
      <4>1. up # <<>> /\ up' = Tail(up) /\ Head(up).type \in MediaTypes
        BY <3>2 DEF HandleInhibit, HandleLine, MediaTypes
      <4>2. inhibits'[fd] # {} <=> Head(up).type = "inhibit"
        BY <3>2 DEF HandleInhibit, HandleLine, Policy!Inhibit,
                    Policy!Uninhibit, SystemTypeOK, RecordTypeOK
      <4>3. Head(up).type # "hello"
        BY <4>1 DEF MediaTypes
      <4> QED  BY <2>1, <2>2, <3>1, <4>1, <4>2, <4>3, MediaHandled DEF LinkInv
    <3>3. CASE HandleHello
      <4>1. up # <<>> /\ up' = Tail(up) /\ Head(up).type = "hello"
        BY <3>3 DEF HandleHello, HandleLine
      <4>2. inhibits'[fd] = {}
        BY <3>3 DEF HandleHello, Policy!Register, SystemTypeOK, RecordTypeOK
      <4>3. Head(up).type \notin MediaTypes
        BY <4>1 DEF MediaTypes
      <4> QED  BY <2>1, <2>2, <3>1, <4>1, <4>2, <4>3, MediaHandled DEF LinkInv
    <3>4. ASSUME NEW c \in Fds, OtherClientLeaves(c) PROVE MediaUnderWay'
      <4>1. UNCHANGED up /\ inhibits'[fd] = inhibits[fd]
        BY <2>1, <3>4 DEF OtherClientLeaves, Policy!Unregister, agentVars,
                          linkVars, upVars, SystemTypeOK, RecordTypeOK
      <4> QED
        BY <2>1, <2>2, <3>1, <4>1
        DEF MediaUnderWay, IsMedia, HelloUnderWay, Announced
    <3>5. CASE ~HandleInhibit /\ ~HandleHello
               /\ ~(\E c \in Fds : OtherClientLeaves(c))
      <4>1. UNCHANGED inhibits
        BY <1>2, <3>5, RecordFrame
      <4>2. CASE HandleIdleDim \/ HandleIdleSleep \/ HandleActive
        <5>1. up # <<>> /\ up' = Tail(up)
              /\ Head(up).type \notin MediaTypes /\ Head(up).type # "hello"
          BY <4>2 DEF HandleIdleDim, HandleIdleSleep, HandleActive, HandleLine,
                      MediaTypes
        <5> QED  BY <2>1, <2>2, <3>1, <4>1, <5>1, MediaHandled DEF LinkInv
      <4>3. CASE UNCHANGED up
        BY <2>1, <2>2, <3>1, <4>1, <4>3
        DEF MediaUnderWay, IsMedia, HelloUnderWay, Announced
      <4>4. CASE MonitorReports \/ MonitorNotices
        <5>1. UNCHANGED up
              \/ \E type \in {"idle_dim", "idle_sleep", "active"} : Send(type)
          BY <4>4 DEF MonitorReports, MonitorNotices, OnIdleCallback,
                      agentVars, linkVars, upVars
        <5>2. ASSUME NEW type \in {"idle_dim", "idle_sleep", "active"},
                     Send(type)
              PROVE  MediaUnderWay'
          <6>1. up' = Append(up, Line(type))
            BY <2>1, <5>2, SendWhole DEF LinkInv, ReportTypes
          <6> QED  BY <2>1, <2>2, <3>1, <4>1, <6>1, OtherAppended DEF LinkInv
        <5> QED  BY <4>3, <5>1, <5>2
      <4> QED
        BY <1>2, <1>4, <2>4, <3>5, <4>2, <4>3, <4>4, UpFrame
    <3> QED  BY <3>2, <3>3, <3>4, <3>5
  <2> QED  BY <2>3, <2>4
<1> QED  BY <1>3, <1>4

-----------------------------------------------------------------------------
(* The theorems *)

LEMMA SystemInitial == SystemInit => SystemInv
<1> SUFFICES ASSUME SystemInit PROVE SystemInv
  OBVIOUS
<1>1. /\ proc = "starting" /\ attached = FALSE /\ hung_up = FALSE
      /\ up = <<>> /\ down = <<>> /\ torn_up = <<>> /\ torn_down = <<>>
      /\ failed = {} /\ has_idle = FALSE
      /\ m_inhibiting = FALSE /\ unsaid = FALSE
      /\ members = {} /\ inhibits = [c \in Fds |-> {}] /\ setting = NoSetting
      /\ quiet = 0 /\ reported = {}
  BY DEF SystemInit, AgentInit, Policy!PolicyInit
<1>2. fd \in Fds /\ world \in World
  BY SystemAssumption DEF SystemInit, AgentInit
<1>3. ProcessTypeOK /\ RecordTypeOK
  BY <1>1, <1>2 DEF ProcessTypeOK, RecordTypeOK, AgentStates
<1>4. QueueTypeOK /\ MonitorTypeOK
  BY <1>1, SystemAssumption DEF QueueTypeOK, MonitorTypeOK
<1>5. LinesOK
  BY <1>1, EmptyQueue DEF LinesOK
<1>6. EndsOK /\ HelloFirst /\ TornOK
  BY <1>1 DEF EndsOK, HelloFirst, TornOK
<1>7. ConfigUnderWay /\ MediaUnderWay
  BY <1>1 DEF ConfigUnderWay, MediaUnderWay
<1> QED  BY <1>2, <1>3, <1>4, <1>5, <1>6, <1>7
         DEF SystemInv, SystemTypeOK, LinkInv

LEMMA SystemStep == SystemInv /\ [SystemNext]_systemVars => SystemInv'
BY ProcessTypeStep, QueueTypeStep, RecordTypeStep, MonitorTypeStep, LinkStep,
   ConfigStep, MediaStep
DEF SystemInv, SystemTypeOK, LinkInv

LEMMA SystemInvariant == SystemSpec => []SystemInv
BY SystemInitial, SystemStep, PTL DEF SystemSpec

\* The connection, the monitor and the daemon stay in range, and a monitor
\* lives only in a living agent, for every set of profiles and every bound
\* (Agent::run, on_daemon_line, set_timeouts).
THEOREM SystemTypeCorrect == SystemSpec => []SystemTypeOK
<1>1. SystemInv => SystemTypeOK
  BY DEF SystemInv
<1> QED  BY <1>1, SystemInvariant, PTL

\* With no line under way the monitor counts with the timeouts of the active
\* profile unless a line to the agent was lost, for every set of profiles and
\* descriptors and however many lines were under way (send_config, broadcast_config, on_daemon_line, set_timeouts).
THEOREM MonitorCorrect == SystemSpec => []MonitorFollowsProfile
<1>1. SystemInv => MonitorFollowsProfile
  BY DEF SystemInv, MonitorFollowsProfile, InTouch, ConfigUnderWay
<1> QED  BY <1>1, SystemInvariant, PTL

\* With no line under way the daemon holds the agent's inhibit exactly while
\* its MprisMonitor is inhibiting and has said so, unless a line to the daemon
\* was lost: however many inhibits were under way, whichever process was
\* restarted and whatever record the descriptor's last connection has left
\* behind (on_hello, on_inhibit, on_uninhibit, send).
THEOREM InhibitSyncCorrect == SystemSpec => []InhibitInSync
<1>1. SystemInv => InhibitInSync
  BY DEF SystemInv, InhibitInSync, InTouch, MediaUnderWay,
         HelloUnderWay, Announced
<1> QED  BY <1>1, SystemInvariant, PTL
=============================================================================
