----------------------------- MODULE MetaMonitor -----------------------------
(***************************************************************************)
(* The watchdog container of meta_monitor/: once per interval it probes    *)
(* every component and tells a Feishu group of its own about failures, not *)
(* more often than once per window while one lasts, and about recoveries.  *)
(*                                                                         *)
(* What it remembers lives in its process; Docker restarts the container.  *)
(* A message that cannot be sent is dropped and counts as sent.  Time is   *)
(* counted in probing intervals; every count of it stops at Window, since  *)
(* the code only compares with the window.                                 *)
(***************************************************************************)
EXTENDS Naturals, Sequences

CONSTANTS
  Probes,      \* PROBES: the components in probing order
  Window,      \* _DEDUP_WINDOW                 (code: 300 s, 5 intervals)
  MaxGap,      \* longest time from one round to the next: sleep and slow probes
  MaxFaults    \* bound: messages lost and restarts of the container

Components == {Probes[i] : i \in 1..Len(Probes)}

(* Not in _alert_state: distinct from every age. *)
NoAlarm == Window + 1

ASSUME MonitorAssumption ==
  /\ Probes \in Seq(Components)
  /\ Window \in Nat \ {0} /\ MaxGap \in Nat \ {0} /\ MaxFaults \in Nat

VARIABLES
  up,       \* up[c]: would a probe of c succeed now?
  uptime,   \* time.monotonic() of the round: counted from the boot of the host
  at,       \* the probe of the round that comes next; after the last: asleep
  alarm,    \* alarm[c]: time since alerted_at of _alert_state[c], or NoAlarm
  heard,    \* heard[c]: the last message about c that the group received
  spoilt,   \* spoilt[c]: a fault since then made that message unreliable
  faults    \* faults so far

vars == <<up, uptime, at, alarm, heard, spoilt, faults>>

TypeOK ==
  /\ up \in [Components -> BOOLEAN]
  /\ uptime \in 0..Window
  /\ at \in 1..(Len(Probes) + 1)
  /\ alarm \in [Components -> 0..Window \cup {NoAlarm}]
  /\ heard \in [Components -> {"nothing", "FAIL", "RECOVERED"}]
  /\ spoilt \in [Components -> BOOLEAN]
  /\ faults \in 0..MaxFaults

Init ==
  /\ up \in [Components -> BOOLEAN]
  /\ uptime \in 0..Window
  /\ at = Len(Probes) + 1
  /\ alarm = [c \in Components |-> NoAlarm]
  /\ heard = [c \in Components |-> "nothing"]
  /\ spoilt = [c \in Components |-> FALSE]
  /\ faults = 0

Later(t, d) == IF t + d < Window THEN t + d ELSE Window

-----------------------------------------------------------------------------
(* One round: now is read once, then the probes run one after the other.   *)

StartRound ==
  /\ at > Len(Probes)
  /\ \E d \in 1..MaxGap :
       /\ uptime' = Later(uptime, d)
       /\ alarm' = [c \in Components |->
                      IF alarm[c] = NoAlarm THEN NoAlarm ELSE Later(alarm[c], d)]
  /\ at' = 1
  /\ UNCHANGED <<up, heard, spoilt, faults>>

Delivered(c, message) ==
  /\ heard' = [heard EXCEPT ![c] = message]
  /\ spoilt' = [spoilt EXCEPT ![c] = FALSE]
  /\ UNCHANGED faults

Lost(c) ==
  /\ faults < MaxFaults
  /\ faults' = faults + 1
  /\ spoilt' = [spoilt EXCEPT ![c] = TRUE]
  /\ UNCHANGED heard

(* send_alert: an error of the webhook is printed, never raised. *)
SendAlert(c, message) == Delivered(c, message) \/ Lost(c)

Silent == UNCHANGED <<heard, spoilt, faults>>

(* The last alert, for a component not in _alert_state at time 0.0 of a    *)
(* clock that started with the host.                                       *)
LastAlerted(c) == IF alarm[c] = NoAlarm THEN uptime ELSE alarm[c]

(* Mutant: a component that is in the state is never reported again.       *)
NeverRemind(c) ==
  IF alarm[c] # NoAlarm \/ uptime < Window
  THEN Silent /\ UNCHANGED alarm
  ELSE SendAlert(c, "FAIL") /\ alarm' = [alarm EXCEPT ![c] = 0]

(* _handle_failure *)
HandleFailure(c) ==
  IF LastAlerted(c) < Window
  THEN Silent /\ UNCHANGED alarm
  ELSE SendAlert(c, "FAIL") /\ alarm' = [alarm EXCEPT ![c] = 0]

(* Mutant: the alarm is not taken down.                                    *)
RecoverKeepingAlarm(c) ==
  /\ IF alarm[c] = NoAlarm THEN Silent ELSE SendAlert(c, "RECOVERED")
  /\ UNCHANGED alarm

(* _handle_recovery *)
HandleRecovery(c) ==
  IF alarm[c] = NoAlarm
  THEN Silent /\ UNCHANGED alarm
  ELSE SendAlert(c, "RECOVERED") /\ alarm' = [alarm EXCEPT ![c] = NoAlarm]

(* A probe that raises has failed. *)
Probe ==
  /\ at <= Len(Probes)
  /\ IF up[Probes[at]] THEN HandleRecovery(Probes[at]) ELSE HandleFailure(Probes[at])
  /\ at' = at + 1
  /\ UNCHANGED <<up, uptime>>

-----------------------------------------------------------------------------
(* The world around it.                                                    *)

(* A component goes down or comes back, between any two probes. *)
Change(c) ==
  /\ up' = [up EXCEPT ![c] = ~@]
  /\ UNCHANGED <<uptime, at, alarm, heard, spoilt, faults>>

(* The container, or the host under it, starts again: _alert_state is      *)
(* empty, and what the group heard of a failure may never be taken back.   *)
Restart ==
  /\ faults < MaxFaults
  /\ faults' = faults + 1
  /\ uptime' \in {uptime, 0}
  /\ at' = Len(Probes) + 1
  /\ alarm' = [c \in Components |-> NoAlarm]
  /\ spoilt' = [c \in Components |-> spoilt[c] \/ alarm[c] # NoAlarm]
  /\ UNCHANGED <<up, heard>>

Next == StartRound \/ Probe \/ Restart \/ \E c \in Components : Change(c)

Spec == Init /\ [][Next]_vars

(* main_loop never ends; components change as they like. *)
FairSpec == Spec /\ WF_vars(StartRound) /\ WF_vars(Probe)

-----------------------------------------------------------------------------
(* Properties.                                                             *)

(* The group's last word on a component is what the monitor believes of    *)
(* it, unless a message was lost or the monitor restarted since: nobody is *)
(* left with a FAIL that was cleared, or without one that stands.          *)
GroupIsInTheKnow ==
  \A c \in Components :
    ~spoilt[c] => (alarm[c] # NoAlarm <=> heard[c] = "FAIL")

(* A component that is down for good is reported in the end, whatever was  *)
(* lost, forgotten or swallowed after a boot before: reminders go on.  One *)
(* that is well for good is not left under a FAIL, unless its RECOVERED    *)
(* was lost or a restart forgot the alarm.                                 *)
TheGroupLearns ==
  \A c \in Components :
    /\ <>[]~up[c] => <>[](heard[c] = "FAIL")
    /\ <>[]up[c] => <>[](heard[c] = "FAIL" => spoilt[c])
=============================================================================
