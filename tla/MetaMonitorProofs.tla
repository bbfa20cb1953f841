-------------------------- MODULE MetaMonitorProofs --------------------------
(***************************************************************************)
(* The watchdog for any list of probes, window, round length and number of *)
(* faults: its variables keep their types, and the group's last word on a  *)
(* component is what the watchdog believes unless a fault came in between. *)
(***************************************************************************)
EXTENDS MetaMonitor, TLAPS

(* Time stops counting at the window.                                      *)
LEMMA LaterTyped ==
  ASSUME NEW t \in 0..Window, NEW d \in 1..MaxGap
  PROVE  Later(t, d) \in 0..Window /\ Later(t, d) # NoAlarm
  BY MonitorAssumption DEF Later, NoAlarm

(* What sending a message about one component leaves of the types.         *)
LEMMA SendTyped ==
  ASSUME TypeOK, NEW c \in Components, NEW m \in {"FAIL", "RECOVERED"}, SendAlert(c, m)
  PROVE  /\ heard' \in [Components -> {"nothing", "FAIL", "RECOVERED"}]
         /\ spoilt' \in [Components -> BOOLEAN]
         /\ faults' \in 0..MaxFaults
<1>1. CASE Delivered(c, m)
  BY <1>1 DEF TypeOK, Delivered
<1>2. CASE Lost(c)
  BY <1>2, MonitorAssumption DEF TypeOK, Lost
<1> QED
  BY <1>1, <1>2 DEF SendAlert

(* The probe that comes next is one of the components.                     *)
LEMMA ProbeIsComponent ==
  ASSUME TypeOK, at <= Len(Probes)
  PROVE  Probes[at] \in Components
  BY MonitorAssumption DEF TypeOK, Components

(* A handler changes only what the group heard and the alarm, well typed.  *)
LEMMA HandlersTyped ==
  ASSUME TypeOK, NEW c \in Components, HandleFailure(c) \/ HandleRecovery(c)
  PROVE  /\ alarm' \in [Components -> 0..Window \cup {NoAlarm}]
         /\ heard' \in [Components -> {"nothing", "FAIL", "RECOVERED"}]
         /\ spoilt' \in [Components -> BOOLEAN]
         /\ faults' \in 0..MaxFaults
<1>1. CASE Silent /\ UNCHANGED alarm
  BY <1>1 DEF TypeOK, Silent
<1>2. CASE SendAlert(c, "FAIL") /\ alarm' = [alarm EXCEPT ![c] = 0]
  <2>1. alarm' \in [Components -> 0..Window \cup {NoAlarm}]
    BY <1>2, MonitorAssumption DEF TypeOK
  <2> QED
    BY <1>2, <2>1, SendTyped
<1>3. CASE SendAlert(c, "RECOVERED") /\ alarm' = [alarm EXCEPT ![c] = NoAlarm]
  <2>1. alarm' \in [Components -> 0..Window \cup {NoAlarm}]
    BY <1>3 DEF TypeOK
  <2> QED
    BY <1>3, <2>1, SendTyped
<1> QED
  BY <1>1, <1>2, <1>3 DEF HandleFailure, HandleRecovery

(* The variables keep their types: in particular the probe index stays in  *)
(* PROBES and no age passes the window (run_once, _handle_failure).        *)
THEOREM TypeCorrect == Spec => []TypeOK
<1>1. Init => TypeOK
  <2> SUFFICES ASSUME Init PROVE TypeOK
    OBVIOUS
  <2>1. Len(Probes) \in Nat
    BY MonitorAssumption
  <2> QED
    BY <2>1, MonitorAssumption DEF Init, TypeOK
<1>2. TypeOK /\ [Next]_vars => TypeOK'
  <2> SUFFICES ASSUME TypeOK, [Next]_vars PROVE TypeOK'
    OBVIOUS
  <2>0. Len(Probes) \in Nat
    BY MonitorAssumption
  <2>1. CASE StartRound
    <3> PICK d \in 1..MaxGap :
          /\ uptime' = Later(uptime, d)
          /\ alarm' = [c \in Components |->
                         IF alarm[c] = NoAlarm THEN NoAlarm ELSE Later(alarm[c], d)]
      BY <2>1 DEF StartRound
    <3>1. uptime' \in 0..Window
      BY LaterTyped DEF TypeOK
    <3>2. alarm' \in [Components -> 0..Window \cup {NoAlarm}]
      BY LaterTyped DEF TypeOK
    <3>3. at' \in 1..(Len(Probes) + 1)
      BY <2>0, <2>1 DEF StartRound
    <3> QED
      BY <2>1, <3>1, <3>2, <3>3 DEF TypeOK, StartRound
  <2>2. CASE Probe
    <3>1. HandleFailure(Probes[at]) \/ HandleRecovery(Probes[at])
      BY <2>2 DEF Probe
    <3>2. at' \in 1..(Len(Probes) + 1)
      BY <2>0, <2>2 DEF Probe, TypeOK
    <3> QED
      BY <2>2, <3>1, <3>2, ProbeIsComponent, HandlersTyped DEF TypeOK, Probe
  <2>3. CASE Restart
    <3>1. uptime' \in 0..Window /\ faults' \in 0..MaxFaults
      BY <2>3, MonitorAssumption DEF Restart, TypeOK
    <3>2. at' \in 1..(Len(Probes) + 1)
      BY <2>0, <2>3 DEF Restart
    <3> QED
      BY <2>3, <3>1, <3>2 DEF Restart, TypeOK
  <2>4. CASE \E c \in Components : Change(c)
    BY <2>4 DEF Change, TypeOK
  <2>5. CASE UNCHANGED vars
    BY <2>5 DEF vars, TypeOK
  <2> QED
    BY <2>1, <2>2, <2>3, <2>4, <2>5 DEF Next
<1> QED
  BY <1>1, <1>2, PTL DEF Spec

(* A message that goes out and the change of the alarm that goes with it   *)
(* keep the group's picture and the monitor's together.                    *)
LEMMA HandlersTell ==
  ASSUME TypeOK, GroupIsInTheKnow, NEW c \in Components,
         HandleFailure(c) \/ HandleRecovery(c)
  PROVE  GroupIsInTheKnow'
<1> SUFFICES ASSUME NEW b \in Components, ~spoilt'[b]
             PROVE  alarm'[b] # NoAlarm <=> heard'[b] = "FAIL"
  BY DEF GroupIsInTheKnow
<1>1. CASE Silent /\ UNCHANGED alarm
  BY <1>1 DEF Silent, GroupIsInTheKnow
<1>2. CASE SendAlert(c, "FAIL") /\ alarm' = [alarm EXCEPT ![c] = 0]
  <2>1. 0 # NoAlarm
    BY MonitorAssumption DEF NoAlarm
  <2> QED
    BY <1>2, <2>1 DEF SendAlert, Delivered, Lost, TypeOK, GroupIsInTheKnow
<1>3. CASE SendAlert(c, "RECOVERED") /\ alarm' = [alarm EXCEPT ![c] = NoAlarm]
  BY <1>3 DEF SendAlert, Delivered, Lost, TypeOK, GroupIsInTheKnow
<1> QED
  BY <1>1, <1>2, <1>3 DEF HandleFailure, HandleRecovery

(* The group's last word on a component agrees with _alert_state unless a  *)
(* message was lost or the container restarted (send_alert, Restart).      *)
THEOREM GroupKnows == Spec => []GroupIsInTheKnow
<1>1. Init => GroupIsInTheKnow
  BY DEF Init, GroupIsInTheKnow
<1>2. TypeOK /\ GroupIsInTheKnow /\ [Next]_vars => GroupIsInTheKnow'
  <2> SUFFICES ASSUME TypeOK, GroupIsInTheKnow, [Next]_vars PROVE GroupIsInTheKnow'
    OBVIOUS
  <2>1. CASE StartRound
    <3> PICK d \in 1..MaxGap :
          alarm' = [c \in Components |->
                      IF alarm[c] = NoAlarm THEN NoAlarm ELSE Later(alarm[c], d)]
      BY <2>1 DEF StartRound
    <3>1. \A c \in Components : alarm'[c] = NoAlarm <=> alarm[c] = NoAlarm
      BY LaterTyped DEF TypeOK
    <3> QED
      BY <2>1, <3>1 DEF StartRound, GroupIsInTheKnow
  <2>2. CASE Probe
    BY <2>2, ProbeIsComponent, HandlersTell DEF Probe
  <2>3. CASE Restart
    BY <2>3 DEF Restart, GroupIsInTheKnow, TypeOK
  <2>4. CASE \E c \in Components : Change(c)
    BY <2>4 DEF Change, GroupIsInTheKnow
  <2>5. CASE UNCHANGED vars
    BY <2>5 DEF vars, GroupIsInTheKnow
  <2> QED
    BY <2>1, <2>2, <2>3, <2>4, <2>5 DEF Next
<1> QED
  BY <1>1, <1>2, TypeCorrect, PTL DEF Spec
=============================================================================
