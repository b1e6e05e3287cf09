---------------------------- MODULE PowerManager ----------------------------
(***************************************************************************)
(* The daemon's PowerManager: the only writer of the sysfs backlight and   *)
(* cpufreq nodes inside draind.  The backlight node holds a RAW value in   *)
(* 0 .. MaxBrightness, while profiles and the cached user brightness are   *)
(* percentages; both conversions truncate, as the int arithmetic does.     *)
(*                                                                         *)
(* The module offers action operators over its own variables; module       *)
(* Daemon says when they are taken.                                        *)
(***************************************************************************)
EXTENDS Integers

CONSTANTS
  MaxBrightness,     \* content of <backlight>/max_brightness
  BacklightPresent,  \* FALSE: /sys/class/backlight has no readable node
  CpuSettings        \* names of governors and EPPs

ASSUME BacklightAssumption ==
  /\ MaxBrightness \in Nat \ {0}
  /\ BacklightPresent \in BOOLEAN

\* max_val * pct stays inside the code's 32-bit int.
ASSUME BacklightWidth == MaxBrightness * 100 <= 2147483647

VARIABLES
  backlight,           \* raw content of <backlight>/brightness
  m_user_brightness,   \* percent cached by dim(), -1 = not set
  cpu,                 \* "governor" and "epp" last written to the policies
  predim               \* history: raw brightness before the display was dimmed

powerVars == <<backlight, m_user_brightness, cpu, predim>>

Percent     == 0 .. 100
CpuKnobs    == {"governor", "epp"}
KeepSetting == ""      \* an empty governor / EPP leaves the node alone

-----------------------------------------------------------------------------
\* Mutation of RawOf: the percentage is not scaled down.
RawOfUnscaled(pct) == MaxBrightness * pct

\* max_val * pct / 100
RawOf(pct) == (MaxBrightness * pct) \div 100

\* cur * 100 / max_val
PercentOf(raw) == (raw * 100) \div MaxBrightness

GetBrightnessPercent ==
  IF BacklightPresent THEN PercentOf(backlight) ELSE -1

SetBrightnessPercent(pct) ==
  backlight' = IF BacklightPresent THEN RawOf(pct) ELSE backlight

\* Mutation of SetCpu: the EPP write is forgotten.
SetGovernorOnly(p) ==
  cpu' = [cpu EXCEPT !["governor"] = IF p.cpu["governor"] = KeepSetting
                                     THEN @ ELSE p.cpu["governor"]]

SetCpu(p) ==
  cpu' = [k \in CpuKnobs |-> IF p.cpu[k] = KeepSetting THEN cpu[k] ELSE p.cpu[k]]

Apply(p) ==
  /\ SetCpu(p)
  /\ SetBrightnessPercent(p.brightness_percent)
  /\ UNCHANGED <<m_user_brightness, predim>>

Dim(p) ==
  /\ m_user_brightness' = IF GetBrightnessPercent < 0
                          THEN p.brightness_percent
                          ELSE GetBrightnessPercent
  /\ SetBrightnessPercent(p.dim_brightness_percent)
  /\ predim' = IF m_user_brightness < 0 THEN backlight ELSE predim
  /\ UNCHANGED cpu

\* Mutation of Undim: the cache is not invalidated.
UndimKeepCache(p) ==
  /\ SetBrightnessPercent(IF m_user_brightness >= 0 THEN m_user_brightness
                                                    ELSE p.brightness_percent)
  /\ UNCHANGED <<m_user_brightness, cpu, predim>>

Undim(p) ==
  /\ SetBrightnessPercent(IF m_user_brightness >= 0 THEN m_user_brightness
                                                    ELSE p.brightness_percent)
  /\ m_user_brightness' = -1
  /\ UNCHANGED <<cpu, predim>>

\* The user's own brightness keys write the same node (not draind code).
UserSetsBacklight(raw) ==
  /\ BacklightPresent
  /\ backlight' = raw
  /\ UNCHANGED <<m_user_brightness, cpu, predim>>

PowerInit ==
  /\ backlight = MaxBrightness
  /\ m_user_brightness = -1
  /\ cpu = [k \in CpuKnobs |-> KeepSetting]
  /\ predim = 0

\* A new daemon process: sysfs keeps its content, the cache is gone.
PowerReset ==
  /\ m_user_brightness' = -1
  /\ predim' = 0
  /\ UNCHANGED <<backlight, cpu>>
=============================================================================
