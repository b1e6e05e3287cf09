---------------------------- MODULE PowerPolicy ----------------------------
(***************************************************************************)
(* What the daemon decides, without how it gets there: who is registered,  *)
(* who inhibits, which session is active, and when the display is dimmed   *)
(* and the machine suspended.  Connections, reads, the epoll batch, the    *)
(* configuration file and the brightness values are left to Daemon, which  *)
(* implements this specification.                                          *)
(***************************************************************************)
EXTENDS Integers

CONSTANTS
  Clients,      \* those that may register
  Ids,          \* session ids
  NoId,         \* no session
  Whys,         \* inhibit reasons
  Settings,     \* [dim, sleep] timeouts of the profiles
  NoSetting,    \* no profile is active
  Buttons       \* buttons and the lid

VARIABLES
  members,      \* registered clients
  session,      \* the session of each
  inhibits,     \* the reasons each stands for
  active,       \* the session on the seat, as far as the daemon knows
  setting,      \* timeouts of the active profile
  dimmed,       \* the display is dimmed
  pressed,      \* how often each button waits to be noticed
  request,      \* what logind has been asked for
  asleep        \* the machine is suspended

memberVars == <<members, session, inhibits>>
sleepVars  == <<request, asleep>>
policyVars == <<memberVars, active, setting, dimmed, pressed, sleepVars>>

-----------------------------------------------------------------------------
Awake       == ~asleep
OnSeat(c)   == c \in members /\ session[c] # NoId /\ session[c] = active
Inhibited   == \E c \in members : inhibits[c] # {}

Register(c, s) ==
  /\ Awake
  /\ members' = members \cup {c}
  /\ session' = [session EXCEPT ![c] = s]
  /\ inhibits' = [inhibits EXCEPT ![c] = {}]
  /\ UNCHANGED <<active, setting, dimmed, pressed, sleepVars>>

Unregister(c) ==
  /\ Awake
  /\ members' = members \ {c}
  /\ session' = [session EXCEPT ![c] = NoId]
  /\ inhibits' = [inhibits EXCEPT ![c] = {}]
  /\ UNCHANGED <<active, setting, dimmed, pressed, sleepVars>>

Inhibit(c, why) ==
  /\ Awake /\ c \in members
  /\ inhibits' = [inhibits EXCEPT ![c] = @ \cup {why}]
  /\ UNCHANGED <<members, session, active, setting, dimmed, pressed, sleepVars>>

Uninhibit(c, why) ==
  /\ Awake /\ c \in members
  /\ inhibits' = [inhibits EXCEPT ![c] = @ \ {why}]
  /\ UNCHANGED <<members, session, active, setting, dimmed, pressed, sleepVars>>

MayDim(c) == OnSeat(c) /\ ~Inhibited /\ ~dimmed /\ setting # NoSetting

DimFor(c) ==
  /\ Awake /\ MayDim(c)
  /\ dimmed' = TRUE
  /\ UNCHANGED <<memberVars, active, setting, pressed, sleepVars>>

MayUndim(c) == OnSeat(c) /\ dimmed /\ setting # NoSetting

UndimFor(c) ==
  /\ Awake /\ MayUndim(c)
  /\ dimmed' = FALSE
  /\ UNCHANGED <<memberVars, active, setting, pressed, sleepVars>>

MaySuspend(c) ==
  /\ OnSeat(c) /\ ~Inhibited
  /\ setting # NoSetting /\ setting.sleep > 0
  /\ request = "none"

SuspendFor(c) ==
  /\ Awake /\ MaySuspend(c)
  /\ request' = "sleep"
  /\ UNCHANGED <<memberVars, active, setting, dimmed, pressed, asleep>>

PressButton(b) ==
  /\ Awake
  /\ pressed' = [pressed EXCEPT ![b] = @ + 1]
  /\ UNCHANGED <<memberVars, active, setting, dimmed, sleepVars>>

\* Every press is noticed once.  What it asks for is configured and hidden
\* here; logind may refuse.
ButtonAction(b) ==
  /\ Awake /\ pressed[b] > 0
  /\ pressed' = [pressed EXCEPT ![b] = @ - 1]
  /\ \/ setting # NoSetting /\ request = "none" /\ request' = "sleep"
     \/ setting # NoSetting /\ request' = "poweroff"
     \/ UNCHANGED request
  /\ UNCHANGED <<memberVars, active, setting, dimmed, asleep>>

SwitchTo(s) ==
  /\ Awake
  /\ active' = s
  /\ UNCHANGED <<memberVars, setting, dimmed, pressed, sleepVars>>

ApplySetting(new) ==
  /\ Awake
  /\ setting' = new
  /\ UNCHANGED <<memberVars, active, dimmed, pressed, sleepVars>>

\* The daemon process begins with nobody registered, and ends.
Boot(s, new) ==
  /\ Awake /\ members = {} /\ setting = NoSetting
  /\ active' = s
  /\ setting' = new
  /\ UNCHANGED <<memberVars, dimmed, pressed, sleepVars>>

Shutdown ==
  /\ Awake
  /\ members' = {}
  /\ session' = [c \in Clients |-> NoId]
  /\ inhibits' = [c \in Clients |-> {}]
  /\ active' = NoId
  /\ setting' = NoSetting
  /\ dimmed' = FALSE
  /\ pressed' = [b \in Buttons |-> 0]
  /\ request' = IF request = "poweroff" THEN "none" ELSE request
  /\ UNCHANGED asleep

GoToSleep ==
  /\ request = "sleep" /\ Awake
  /\ asleep' = TRUE
  /\ UNCHANGED <<memberVars, active, setting, dimmed, pressed, request>>

ComeBack ==
  /\ asleep
  /\ asleep' = FALSE
  /\ request' = "none"
  /\ UNCHANGED <<memberVars, active, setting, dimmed, pressed>>

-----------------------------------------------------------------------------
PolicyInit ==
  /\ members = {}
  /\ session = [c \in Clients |-> NoId]
  /\ inhibits = [c \in Clients |-> {}]
  /\ active = NoId
  /\ setting = NoSetting
  /\ dimmed = FALSE
  /\ pressed = [b \in Buttons |-> 0]
  /\ request = "none"
  /\ asleep = FALSE

PolicyNext ==
  \/ \E c \in Clients :
       \/ Unregister(c) \/ DimFor(c) \/ UndimFor(c) \/ SuspendFor(c)
       \/ \E s \in Ids : Register(c, s)
       \/ \E why \in Whys : Inhibit(c, why) \/ Uninhibit(c, why)
  \/ \E s \in Ids : \/ SwitchTo(s)
                    \/ \E new \in Settings \cup {NoSetting} : Boot(s, new)
  \/ \E new \in Settings \cup {NoSetting} : ApplySetting(new)
  \/ \E b \in Buttons : PressButton(b) \/ ButtonAction(b)
  \/ Shutdown \/ GoToSleep \/ ComeBack

PolicySpec == PolicyInit /\ [][PolicyNext]_policyVars
=============================================================================
