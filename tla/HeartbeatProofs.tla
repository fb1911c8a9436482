-------------------------- MODULE HeartbeatProofs --------------------------
(***************************************************************************)
(* The silence watch for all times: one alert per silence, and, if the      *)
(* threshold is not below a check's period, none overlooked.                *)
(***************************************************************************)
EXTENDS Heartbeat, TLAPS

USE TimesAssumption

\* An alert is only begun in a silence not warned of, and while the loop runs
\* the flag remembers it until a check of a shorter silence.
WarnedSound ==
  /\ asked # 0 => asked = 1 /\ age > Threshold /\ life # "starting"
  /\ loop = "sleep" /\ asked # 0 => alerted
  /\ loop = "send" => ~alerted

\* How old the last signal can be: what the process has spent starting, what the
\* alert under way has taken since, and what will have passed at the next check.
AgeSound ==
  /\ life = "starting" => age <= spent
  /\ loop = "send" /\ asked = 0 => age <= spent
  /\ loop = "sleep" /\ asked = 0 =>
       /\ age + left <= Threshold + Interval
       /\ alerted => age + left <= SendTime + Interval

\* The horizon is a time beyond every other.
LEMMA HorizonIsNat == Horizon \in Nat /\ Horizon > Threshold + Interval
BY DEF Horizon

\* THEOREM: the variables keep their types, and a loop lives with its process.
THEOREM TypeCorrect == Spec => []TypeOK
<1> USE HorizonIsNat DEF TypeOK
<1>1. Init => TypeOK
  <2>1. Init => alerted \in BOOLEAN
    BY Zenon DEF Init
  <2> QED
    BY <2>1 DEF Init
<1>2. TypeOK /\ [Next]_vars => TypeOK'
  <2> SUFFICES ASSUME TypeOK, [Next]_vars PROVE TypeOK'
    OBVIOUS
  <2>1. CASE Boot      BY <2>1 DEF Boot
  <2>2. CASE Serve
    <3>1. alerted' \in BOOLEAN
      BY <2>2, Zenon DEF Serve
    <3> QED
      BY <2>2, <3>1 DEF Serve, Sleep
  <2>3. CASE Signal    BY <2>3 DEF Signal
  <2>4. CASE Check
    <3>1. alerted' \in BOOLEAN
      BY <2>4, Zenon DEF Check, Warn
    <3> QED
      BY <2>4, <3>1 DEF Check, Warn, Sleep
  <2>5. CASE Sent      BY <2>5 DEF Sent, Sleep
  <2>6. CASE Stop      BY <2>6 DEF Stop
  <2>7. CASE Stopped   BY <2>7 DEF Stopped
  <2>8. CASE Crash     BY <2>8 DEF Crash
  <2>9. CASE Tick      BY <2>9 DEF Tick, Sending
  <2>10. CASE UNCHANGED vars  BY <2>10 DEF vars
  <2> QED
    BY <2>1, <2>2, <2>3, <2>4, <2>5, <2>6, <2>7, <2>8, <2>9, <2>10 DEF Next
<1> QED
  BY <1>1, <1>2, PTL DEF Spec

\* A step keeps the count of warnings of a silence.
LEMMA WarnedStep == TypeOK /\ WarnedSound /\ [Next]_vars => WarnedSound'
<1> SUFFICES ASSUME TypeOK, WarnedSound, [Next]_vars PROVE WarnedSound'
  OBVIOUS
<1> USE HorizonIsNat DEF TypeOK, WarnedSound
<1>1. CASE Boot      BY <1>1 DEF Boot
<1>2. CASE Serve     BY <1>2 DEF Serve, Sleep
<1>3. CASE Signal    BY <1>3 DEF Signal
<1>4. CASE Check     BY <1>4 DEF Check, Warn, Sleep
<1>5. CASE Sent      BY <1>5 DEF Sent, Sleep
<1>6. CASE Stop      BY <1>6 DEF Stop
<1>7. CASE Stopped   BY <1>7 DEF Stopped
<1>8. CASE Crash     BY <1>8 DEF Crash
<1>9. CASE Tick      BY <1>9 DEF Tick
<1>10. CASE UNCHANGED vars  BY <1>10 DEF vars
<1> QED
  BY <1>1, <1>2, <1>3, <1>4, <1>5, <1>6, <1>7, <1>8, <1>9, <1>10 DEF Next

\* The trader is warned once per silence, and only of one over the threshold.
THEOREM WarnedOnce == Spec => []OncePerSilence
<1>1. Init => WarnedSound
  BY DEF Init, WarnedSound
<1>2. WarnedSound => OncePerSilence
  BY DEF WarnedSound, OncePerSilence
<1> QED
  BY <1>1, <1>2, WarnedStep, TypeCorrect, PTL DEF Spec

\* A step keeps the bound on the age of a signal.
LEMMA AgeStep ==
  ASSUME Threshold >= Interval + SendTime, TypeOK, WarnedSound, AgeSound, [Next]_vars
  PROVE  AgeSound'
<1> USE HorizonIsNat DEF TypeOK, AgeSound
<1>1. CASE Boot
  BY <1>1 DEF Boot
<1>2. CASE Serve
  BY <1>2 DEF Serve, Sleep
<1>3. CASE Signal
  BY <1>3 DEF Signal
<1>4. CASE Check
  \* The flag is left from an earlier silence only within a period of the signal.
  <2>1. asked = 0 /\ alerted => age <= Threshold
    BY <1>4 DEF Check
  <2> QED
    BY <1>4, <2>1 DEF Check, Warn, Sleep
<1>5. CASE Sent
  BY <1>5 DEF Sent, Sleep
<1>6. CASE Stop
  BY <1>6 DEF Stop
<1>7. CASE Stopped
  BY <1>7 DEF Stopped
<1>8. CASE Crash
  BY <1>8 DEF Crash
<1>9. CASE Tick
  BY <1>9 DEF Tick, Sending
<1>10. CASE UNCHANGED vars
  BY <1>10 DEF vars
<1> QED
  BY <1>1, <1>2, <1>3, <1>4, <1>5, <1>6, <1>7, <1>8, <1>9, <1>10 DEF Next

\* With a threshold of at least a check's period (its sleep and the longest send)
\* no silence is overlooked.
THEOREM NoneOverlooked ==
  ASSUME Threshold >= Interval + SendTime
  PROVE  Spec => []NoticedInTime
<1>1. Init => WarnedSound /\ AgeSound
  BY DEF Init, WarnedSound, AgeSound
<1>2. TypeOK /\ AgeSound => NoticedInTime
  BY DEF TypeOK, AgeSound, NoticedInTime
<1>3. TypeOK /\ WarnedSound /\ AgeSound /\ [Next]_vars => AgeSound'
  BY AgeStep
<1> QED
  BY <1>1, <1>2, <1>3, WarnedStep, TypeCorrect, PTL DEF Spec

=============================================================================
