--------------------------- MODULE HwEventMonitor ---------------------------
(***************************************************************************)
(* The daemon's HwEventMonitor and run_hw_action: lid, power and sleep     *)
(* button events wait in the evdev devices until poll() drains them, and   *)
(* the configured action is handed to logind by systemctl.                 *)
(*                                                                         *)
(* Every kind of event is one device; poll() drains the ready devices one  *)
(* after the other, so only the number of events of a kind matters.        *)
(***************************************************************************)
EXTENDS Integers

CONSTANTS
  HwEvents,   \* the kinds that occur in a run
  MaxHw       \* bound: queued events per kind

ASSUME HwAssumption ==
  /\ HwEvents \subseteq {"LidClose", "LidOpen", "PowerButton", "SleepButton"}
  /\ MaxHw \in Nat

VARIABLES
  hwq,       \* events queued in the devices
  request,   \* what logind has been asked for and has not done yet
  asleep     \* the machine is suspended: nothing runs

hwVars == <<hwq, request, asleep>>

SleepActions == {"suspend", "hibernate", "hybrid-sleep"}
Requests     == {"none", "sleep", "poweroff"}

-----------------------------------------------------------------------------
HwReady == \E e \in HwEvents : hwq[e] > 0

TakeEvent(e) ==
  /\ hwq[e] > 0
  /\ hwq' = [hwq EXCEPT ![e] = @ - 1]

\* The action a profile configures for an event; a lid that opens has none.
ActionFor(p, e) ==
  CASE e = "LidClose"    -> p.lid_close_action
    [] e = "PowerButton" -> p.power_button_action
    [] e = "SleepButton" -> p.sleep_button_action
    [] OTHER             -> ""

\* run_hw_action: systemctl may refuse (another operation is under way, a
\* policy forbids it); any other action name is only logged.
RunHwAction(action) ==
  /\ \/ /\ action \in SleepActions
        /\ request = "none"
        /\ request' = "sleep"
     \/ /\ action = "poweroff"
        /\ request' = "poweroff"
     \/ UNCHANGED request
  /\ UNCHANGED asleep

\* Outside draind: a user presses a button, the kernel suspends and resumes.
Press(e) ==
  /\ hwq[e] < MaxHw
  /\ hwq' = [hwq EXCEPT ![e] = @ + 1]
  /\ UNCHANGED <<request, asleep>>

FallAsleep ==
  /\ request = "sleep" /\ ~asleep
  /\ asleep' = TRUE
  /\ UNCHANGED <<hwq, request>>

WakeUp ==
  /\ asleep
  /\ asleep' = FALSE
  /\ request' = "none"
  /\ UNCHANGED hwq

HwInit ==
  /\ hwq = [e \in HwEvents |-> 0]
  /\ request = "none"
  /\ asleep = FALSE

\* The devices are reopened by the next process, their queues start empty.
HwReset ==
  /\ hwq' = [e \in HwEvents |-> 0]
  /\ request' = IF request = "poweroff" THEN "none" ELSE request
  /\ UNCHANGED asleep
=============================================================================
