------------------------- MODULE DaemonPolicyProofs -------------------------
(***************************************************************************)
(* Daemon implements PowerPolicy, for every set of clients, sessions,      *)
(* profiles and messages: each step of the event loop and of its           *)
(* surroundings is one decision of the policy, or none.                    *)
(*                                                                         *)
(* Next to type correctness the argument needs one fact that no property   *)
(* states: a daemon that does not run has no records and no profile, so    *)
(* that a start of the process is Boot.                                    *)
(***************************************************************************)
EXTENDS DaemonTypeProofs

DownInv == ~up => agents = {} /\ ActiveProfile = NoProfile

\* Before the first start there are no records and no profile.
LEMMA DownInit == Init => DownInv
BY ConfigAssumption DEF Init, ConfigInit, DownInv, ActiveProfile, Find, Defines

\* Only a running daemon registers clients or loads profiles.
LEMMA DownStep ==
  ASSUME TypeOK, DownInv, [Next]_vars
  PROVE  DownInv'
<1>1. CASE Start
  BY <1>1 DEF Start, DownInv
<1>2. CASE Stop
  BY <1>2, ConfigAssumption
  DEF Stop, ConfigReset, DownInv, ActiveProfile, Find, Defines
<1>3. CASE up /\ ~(Start \/ Stop)
  BY <1>3, UpFrame DEF DownInv
<1>4. CASE ~up /\ ~(Start \/ Stop)
  <2>1. ~(OnHello \/ OnInhibit \/ OnUninhibit \/ HandleDisconnect
          \/ OnSetProfile \/ OnReloadConfig)
    BY <1>4 DEF OnHello, OnInhibit, OnUninhibit, HandleDisconnect,
                OnSetProfile, OnReloadConfig, OnLine, Running
  <2>2. UNCHANGED agentVars
    BY <1>4, <2>1, AgentFrame
  <2>3. UNCHANGED <<m_config, m_active>>
    <3>1. CASE AdminEdits
      BY <3>1 DEF AdminEdits, EditFile
    <3>2. CASE ~AdminEdits
      BY <1>4, <2>1, <3>2, ConfigFrame DEF configVars
    <3> QED  BY <3>1, <3>2
  <2> QED  BY <1>4, <2>2, <2>3, UpFrame
           DEF DownInv, agentVars, ActiveProfile, Find, Defines
<1> QED  BY <1>1, <1>2, <1>3, <1>4

-----------------------------------------------------------------------------
(* The mapped configuration *)

\* CONFIG values are those of a profile, and none of them is NoConfig.
LEMMA SettingType ==
  ASSUME TypeOK, [Next]_vars
  PROVE  /\ Setting \in {Timeouts(p) : p \in Profiles} \cup {NoConfig}
         /\ Setting' \in {Timeouts(p) : p \in Profiles} \cup {NoConfig}
         /\ Setting = NoConfig <=> ActiveProfile = NoProfile
         /\ ActiveProfile # NoProfile
              => Setting.sleep = ActiveProfile.sleep_timeout
<1>1. ASSUME NEW p \in Profiles
      PROVE  Timeouts(p) # NoConfig /\ Timeouts(p).sleep = p.sleep_timeout
  <2>1. p # NoProfile /\ p.dim_timeout \in Nat
    BY DaemonAssumption, ConfigAssumption
  <2>2. Timeouts(p).dim = p.dim_timeout /\ NoConfig.dim = -1
    BY <2>1 DEF Timeouts, NoConfig
  <2> QED  BY <2>1, <2>2 DEF Timeouts
<1> QED  BY <1>1, ActiveProfileStep DEF Setting

\* What the policy does not see.
LEMMA PolicyStutter ==
  ASSUME UNCHANGED <<agentVars, m_config, m_active, m_active_session_id,
                     m_dimmed, hwq, request, asleep>>
  PROVE  UNCHANGED Policy!policyVars
BY DEF agentVars, Setting, ActiveProfile, Find, Defines, Timeouts,
       Policy!policyVars, Policy!memberVars, Policy!sleepVars

-----------------------------------------------------------------------------
(* Steps of the daemon as decisions of the policy *)

\* setup() is Boot.
LEMMA PolicyStart ==
  ASSUME TypeOK, DownInv, Start
  PROVE  Policy!PolicyNext
<1>1. Setting = NoConfig /\ agents = {}
  BY DEF Start, DownInv, Setting
<1>2. Setting' \in {Timeouts(p) : p \in Profiles} \cup {NoConfig}
  BY SettingType DEF Next
<1>3. m_active_session_id' \in SessionIds
  BY TrackerStep DEF Next, TrackerTypeOK
<1>4. Policy!Boot(m_active_session_id', Setting')
  BY <1>1 DEF Start, Policy!Boot, Policy!Awake, Policy!memberVars,
              Policy!sleepVars, agentVars, hwVars
<1> QED  BY <1>2, <1>3, <1>4 DEF Policy!PolicyNext

\* The end of the process is Shutdown.
LEMMA PolicyStop ==
  ASSUME TypeOK, Stop
  PROVE  Policy!PolicyNext
<1>1. Setting' = NoConfig
  BY ConfigAssumption
  DEF Stop, ConfigReset, Setting, ActiveProfile, Find, Defines
<1>2. Policy!Shutdown
  BY <1>1 DEF Stop, Running, TrackerReset, HwReset, Policy!Shutdown, Policy!Awake
<1> QED  BY <1>2 DEF Policy!PolicyNext

\* A turn of the loop applies what logind has announced.
LEMMA PolicySwitch ==
  ASSUME TypeOK, EpollWait
  PROVE  Policy!PolicyNext
<1>1. m_active_session_id' \in SessionIds
  BY TrackerStep DEF Next, Loop, TrackerTypeOK
<1>2. UNCHANGED Setting
  BY DEF EpollWait, configVars, Setting, ActiveProfile, Find, Defines, Timeouts
<1>3. Policy!SwitchTo(m_active_session_id')
  BY <1>2 DEF EpollWait, Running, Policy!SwitchTo, Policy!Awake,
              Policy!memberVars, Policy!sleepVars, agentVars, hwVars
<1> QED  BY <1>1, <1>3 DEF Policy!PolicyNext

\* on_disconnect is Unregister.
LEMMA PolicyLeave ==
  ASSUME TypeOK, HandleDisconnect
  PROVE  Policy!PolicyNext
<1>1. PICK fd \in Fds : OnDisconnect(fd)
  BY DEF HandleDisconnect
<1>2. UNCHANGED Setting
  BY <1>1 DEF OnDisconnect, configVars, Setting, ActiveProfile, Find, Defines,
              Timeouts
<1>3. Policy!Unregister(fd)
  BY <1>1, <1>2
  DEF OnDisconnect, Forget, HandleDisconnect, Running, Policy!Unregister,
      Policy!Awake, Policy!sleepVars, trackerVars, hwVars
<1> QED  BY <1>3 DEF Policy!PolicyNext

\* Taking a press out of its device is ButtonAction, whatever it asks logind
\* for.
LEMMA PolicyButton ==
  ASSUME TypeOK, OnHwEvent
  PROVE  Policy!PolicyNext
<1>1. PICK e \in HwEvents :
        /\ TakeEvent(e)
        /\ IF ActiveProfile = NoProfile
           THEN UNCHANGED <<sentVars, request, asleep>>
           ELSE \/ DoSuspend(ActionFor(ActiveProfile, e))
                \/ RunHwAction(ActionFor(ActiveProfile, e))
  BY DEF OnHwEvent, HwStep
<1>2. ~asleep /\ UNCHANGED <<agentVars, m_config, m_active,
                             m_active_session_id, m_dimmed>>
  BY DEF OnHwEvent, Running, configVars, trackerVars
<1>3. /\ UNCHANGED asleep
      /\ \/ ActiveProfile # NoProfile /\ request = "none" /\ request' = "sleep"
         \/ ActiveProfile # NoProfile /\ request' = "poweroff"
         \/ UNCHANGED request
  BY <1>1 DEF DoSuspend, RunHwAction
<1>4. UNCHANGED Setting
  BY <1>2 DEF Setting, ActiveProfile, Find, Defines, Timeouts
<1>5. ActiveProfile # NoProfile => Setting # NoConfig
  BY SettingType DEF Next, Loop
<1>6. Policy!ButtonAction(e)
  BY <1>1, <1>2, <1>3, <1>4, <1>5
     DEF TakeEvent, Policy!ButtonAction, Policy!Awake, Policy!memberVars, agentVars
<1> QED  BY <1>6 DEF Policy!PolicyNext

\* A press that waits in its device is PressButton.
LEMMA PolicyPress ==
  ASSUME UserPresses
  PROVE  Policy!PolicyNext
<1>1. PICK e \in HwEvents : Press(e)
  BY DEF UserPresses
<1>2. ~asleep /\ UNCHANGED <<agentVars, m_config, m_active,
                             m_active_session_id, m_dimmed>>
  BY DEF UserPresses, Running, configVars, trackerVars
<1>3. UNCHANGED Setting
  BY <1>2 DEF Setting, ActiveProfile, Find, Defines, Timeouts
<1>4. Policy!PressButton(e)
  BY <1>1, <1>2, <1>3
     DEF Press, Policy!PressButton, Policy!Awake, Policy!memberVars,
         Policy!sleepVars, agentVars
<1> QED  BY <1>4 DEF Policy!PolicyNext

\* hello is Register.
LEMMA PolicyHello ==
  ASSUME TypeOK, OnHello
  PROVE  Policy!PolicyNext
<1>1. cur \in Fds /\ Line.arg \in SessionIds
  BY LineType DEF OnHello, OnLine, TypeOK
<1>2. UNCHANGED Setting
  BY DEF OnHello, configVars, Setting, ActiveProfile, Find, Defines, Timeouts
<1>3. Policy!Register(cur, Line.arg)
  BY <1>2 DEF OnHello, OnLine, Running, Policy!Register, Policy!Awake,
              Policy!sleepVars, trackerVars, hwVars
<1> QED  BY <1>1, <1>3 DEF Policy!PolicyNext

\* inhibit and uninhibit.
LEMMA PolicyInhibit ==
  ASSUME TypeOK, OnInhibit \/ OnUninhibit
  PROVE  Policy!PolicyNext
<1>1. cur \in Fds /\ Line.arg \in Reasons
  BY LineType DEF OnInhibit, OnUninhibit, OnLine, TypeOK
<1>2. UNCHANGED Setting
  BY DEF OnInhibit, OnUninhibit, configVars, Setting, ActiveProfile, Find,
         Defines, Timeouts
<1>3. CASE OnInhibit
  <2>1. Policy!Inhibit(cur, Line.arg)
    BY <1>2, <1>3 DEF OnInhibit, OnLine, Running, Policy!Inhibit, Policy!Awake,
                      Policy!sleepVars, trackerVars, hwVars
  <2> QED  BY <1>1, <2>1 DEF Policy!PolicyNext
<1>4. CASE OnUninhibit
  <2>1. Policy!Uninhibit(cur, Line.arg)
    BY <1>2, <1>4 DEF OnUninhibit, OnLine, Running, Policy!Uninhibit,
                      Policy!Awake, Policy!sleepVars, trackerVars, hwVars
  <2> QED  BY <1>1, <2>1 DEF Policy!PolicyNext
<1> QED  BY <1>3, <1>4

\* The early returns of on_idle_dim leave exactly the dims that are allowed.
LEMMA PolicyDim ==
  ASSUME TypeOK, OnIdleDim
  PROVE  [Policy!PolicyNext]_(Policy!policyVars)
<1>1. /\ ~asleep /\ cur \in Fds
      /\ UNCHANGED <<agentVars, m_config, m_active, m_active_session_id,
                     hwq, request, asleep>>
  BY DEF OnIdleDim, OnLine, Running, configVars, trackerVars, hwVars
<1>2. CASE DimAllowed
  <2>1. UNCHANGED Setting
    BY <1>1 DEF Setting, ActiveProfile, Find, Defines, Timeouts
  <2>2. Setting # NoConfig
    BY <1>2, SettingType DEF DimAllowed, Next, Loop, OnLineAny
  <2>3. Policy!MayDim(cur)
    BY <1>2, <2>2 DEF DimAllowed, MayIdle, IsActiveAgent, IsActive, HasAnyInhibit,
                      Policy!MayDim, Policy!OnSeat, Policy!Inhibited
  <2>4. Policy!DimFor(cur)
    BY <1>1, <1>2, <2>1, <2>3 DEF OnIdleDim, Policy!DimFor, Policy!Awake,
       Policy!memberVars, Policy!sleepVars, agentVars
  <2> QED  BY <1>1, <2>4 DEF Policy!PolicyNext
<1>3. CASE ~DimAllowed
  BY <1>1, <1>3, PolicyStutter DEF OnIdleDim
<1> QED  BY <1>2, <1>3

\* on_active undims for the agent of the active session only.
LEMMA PolicyUndim ==
  ASSUME TypeOK, OnActive
  PROVE  [Policy!PolicyNext]_(Policy!policyVars)
<1>1. /\ ~asleep /\ cur \in Fds
      /\ UNCHANGED <<agentVars, m_config, m_active, m_active_session_id,
                     hwq, request, asleep>>
  BY DEF OnActive, OnLine, Running, configVars, trackerVars, hwVars
<1> DEFINE Allowed == IsActiveAgent(cur) /\ m_dimmed /\ ActiveProfile # NoProfile
<1>2. CASE Allowed
  <2>1. UNCHANGED Setting
    BY <1>1 DEF Setting, ActiveProfile, Find, Defines, Timeouts
  <2>2. Setting # NoConfig
    BY <1>2, SettingType DEF Next, Loop, OnLineAny
  <2>3. Policy!MayUndim(cur)
    BY <1>2, <2>2 DEF IsActiveAgent, IsActive, Policy!MayUndim, Policy!OnSeat
  <2>4. Policy!UndimFor(cur)
    BY <1>1, <1>2, <2>1, <2>3 DEF OnActive, Policy!UndimFor, Policy!Awake,
       Policy!memberVars, Policy!sleepVars, agentVars
  <2> QED  BY <1>1, <2>4 DEF Policy!PolicyNext
<1>3. CASE ~Allowed
  BY <1>1, <1>3, PolicyStutter DEF OnActive
<1> QED  BY <1>2, <1>3

\* idle_sleep asks for a suspend only as MaySuspend allows.
LEMMA PolicySuspend ==
  ASSUME TypeOK, OnIdleSleep
  PROVE  [Policy!PolicyNext]_(Policy!policyVars)
<1>1. /\ ~asleep /\ cur \in Fds
      /\ UNCHANGED <<agentVars, m_config, m_active, m_active_session_id,
                     m_dimmed, hwq, asleep>>
  BY DEF OnIdleSleep, OnLine, Running, DoSuspend, RunHwAction, configVars,
         trackerVars, hwVars
<1>2. CASE request' # request
  <2>1. SleepAllowed /\ request = "none" /\ request' = "sleep"
    BY <1>2 DEF OnIdleSleep, DoSuspend, RunHwAction, hwVars, SleepActions
  <2>2. UNCHANGED Setting
    BY <1>1 DEF Setting, ActiveProfile, Find, Defines, Timeouts
  <2>3. Setting # NoConfig /\ Setting.sleep > 0
    BY <2>1, SettingType DEF SleepAllowed, Next, Loop, OnLineAny
  <2>4. Policy!MaySuspend(cur)
    BY <2>1, <2>3 DEF SleepAllowed, MayIdle, IsActiveAgent, IsActive,
       HasAnyInhibit, Policy!MaySuspend, Policy!OnSeat, Policy!Inhibited
  <2>5. Policy!SuspendFor(cur)
    BY <1>1, <2>1, <2>2, <2>4 DEF Policy!SuspendFor, Policy!Awake,
       Policy!memberVars, agentVars
  <2> QED  BY <1>1, <2>5 DEF Policy!PolicyNext
<1>3. CASE request' = request
  BY <1>1, <1>3, PolicyStutter
<1> QED  BY <1>2, <1>3

\* set_profile and reload_config install a setting, or leave it.
LEMMA PolicyConfig ==
  ASSUME TypeOK, OnSetProfile \/ OnReloadConfig
  PROVE  Policy!PolicyNext
<1>1. Setting' \in {Timeouts(p) : p \in Profiles} \cup {NoConfig}
  BY SettingType DEF Next, Loop, OnLineAny
<1>2. Policy!ApplySetting(Setting')
  BY DEF OnSetProfile, OnReloadConfig, OnLine, Running, Policy!ApplySetting,
         Policy!Awake, Policy!memberVars, Policy!sleepVars, agentVars,
         trackerVars, hwVars
<1> QED  BY <1>1, <1>2 DEF Policy!PolicyNext

\* Suspend and resume of the machine.
LEMMA PolicySleep ==
  ASSUME TypeOK, Suspends \/ Resumes
  PROVE  Policy!PolicyNext
<1>1. UNCHANGED Setting
  BY DEF Suspends, Resumes, configVars, Setting, ActiveProfile, Find, Defines,
         Timeouts
<1>2. CASE Suspends
  <2>1. Policy!GoToSleep
    BY <1>1, <1>2 DEF Suspends, FallAsleep, Policy!GoToSleep, Policy!Awake,
       Policy!memberVars, agentVars, trackerVars
  <2> QED  BY <2>1 DEF Policy!PolicyNext
<1>3. CASE Resumes
  <2>1. Policy!ComeBack
    BY <1>1, <1>3 DEF Resumes, WakeUp, Policy!ComeBack, Policy!memberVars,
       agentVars, trackerVars
  <2> QED  BY <2>1 DEF Policy!PolicyNext
<1> QED  BY <1>2, <1>3

\* Every other step is invisible to the policy.
LEMMA PolicyInvisible ==
  ASSUME [Next]_vars,
         ~(Start \/ Stop \/ EpollWait \/ HandleDisconnect \/ OnHwEvent
           \/ OnHello \/ OnInhibit \/ OnUninhibit \/ OnIdleDim \/ OnActive
           \/ OnIdleSleep \/ OnSetProfile \/ OnReloadConfig
           \/ UserPresses \/ Suspends \/ Resumes)
  PROVE  UNCHANGED Policy!policyVars
<1>1. UNCHANGED agentVars /\ UNCHANGED m_dimmed
  BY AgentFrame, DimmedFrame
<1>2. UNCHANGED <<m_config, m_active>>
  <2>1. CASE AdminEdits
    BY <2>1 DEF AdminEdits, EditFile
  <2>2. CASE ~AdminEdits
    BY <2>2, ConfigFrame DEF configVars
  <2> QED  BY <2>1, <2>2
<1>3. UNCHANGED m_active_session_id
  <2>1. CASE SeatSwitches
    BY <2>1 DEF SeatSwitches, SwitchSession
  <2>2. CASE ~SeatSwitches
    BY <2>2, TrackerFrame DEF trackerVars
  <2> QED  BY <2>1, <2>2
<1>4. UNCHANGED <<hwq, request, asleep>>
  BY HwFrame DEF hwVars
<1> QED  BY <1>1, <1>2, <1>3, <1>4, PolicyStutter

\* One step of the daemon is one step of the policy or none.
LEMMA PolicyStep ==
  ASSUME TypeOK, DownInv, [Next]_vars
  PROVE  [Policy!PolicyNext]_(Policy!policyVars)
BY PolicyStart, PolicyStop, PolicySwitch, PolicyLeave, PolicyButton,
   PolicyHello, PolicyInhibit, PolicyDim, PolicyUndim, PolicySuspend,
   PolicyConfig, PolicySleep, PolicyPress, PolicyInvisible

\* Before the first start the policy is in its initial state.
LEMMA PolicyInitial == Init => Policy!PolicyInit
BY ConfigAssumption
DEF Init, ConfigInit, TrackerInit, HwInit, Setting, ActiveProfile, Find,
    Defines, Policy!PolicyInit

\* The daemon implements its policy: whatever clients write and however their
\* lines are split over reads, batches and connections, it registers, dims,
\* undims and suspends only as PowerPolicy says, for every set of clients,
\* sessions and profiles.
THEOREM PolicyCorrect == Spec => ImplementsPolicy
<1>1. Spec => []DownInv
  BY TypeCorrect, DownInit, DownStep, PTL DEF Spec
<1> QED  BY <1>1, TypeCorrect, PolicyInitial, PolicyStep, PTL
         DEF Spec, ImplementsPolicy, Policy!PolicySpec
=============================================================================
