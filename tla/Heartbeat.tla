----------------------------- MODULE Heartbeat -----------------------------
(***************************************************************************)
(* The silence watch of one worker process: Monitor._heartbeat_loop in      *)
(* monitor/heartbeat.py, started and stopped by the lifespan in main.py.    *)
(* Each process has a monitor of its own and hears only its own signals.    *)
(*                                                                          *)
(* Time passes in ticks.  What is due runs before the next tick; a message  *)
(* takes up to SendTime, the HTTP client's timeouts.                        *)
(***************************************************************************)
EXTENDS Naturals

CONSTANTS Interval,   \* check_interval
          Threshold,  \* silence_threshold: MONITOR_SILENCE_HOURS
          SendTime    \* longest time a Telegram message takes

ASSUME TimesAssumption ==
  /\ Interval \in Nat \ {0} /\ Threshold \in Nat /\ SendTime \in Nat

\* Bound on age: it is only compared with times below.
Horizon == Threshold + Interval + 1

VARIABLES
  life,     \* where the lifespan stands
  loop,     \* where _heartbeat_loop stands; "none" without a task
  alerted,  \* alerted_for_current_silence
  age,      \* time since _last_signal_ts, up to Horizon
  left,     \* what is left of the loop's sleep
  spent,    \* time the message under way has taken
  asked     \* history: alerts begun since the last signal

vars == <<life, loop, alerted, age, left, spent, asked>>

-----------------------------------------------------------------------------

Init ==
  /\ life = "down" /\ loop = "none" /\ alerted = FALSE
  /\ age = 0 /\ left = 0 /\ spent = 0 /\ asked = 0

\* lifespan: the monitor is made and says hello.
Boot ==
  /\ life = "down"
  /\ life' = "starting" /\ age' = 0 /\ spent' = 0 /\ asked' = 0
  /\ UNCHANGED <<loop, alerted, left>>

Sleep == loop' = "sleep" /\ left' = Interval

\* The message is sent or has failed; start_heartbeat, whatever the threshold.
Serve ==
  /\ life = "starting"
  /\ life' = "serving" /\ alerted' = FALSE
  /\ Sleep
  /\ UNCHANGED <<age, spent, asked>>

\* A handler marks its signal.
Signal ==
  /\ life = "serving"
  /\ age' = 0 /\ asked' = 0
  /\ UNCHANGED <<life, loop, alerted, left, spent>>

Warn ==
  /\ loop' = "send" /\ spent' = 0 /\ asked' = asked + 1
  /\ UNCHANGED <<alerted, left>>

\* Fault: every check of a silence warns.
CheckUnflagged ==
  /\ loop = "sleep" /\ left = 0
  /\ \/ /\ age > Threshold
        /\ Warn
     \/ /\ age <= Threshold
        /\ alerted' = FALSE
        /\ Sleep
        /\ UNCHANGED <<spent, asked>>
  /\ UNCHANGED <<life, age>>

\* Fault: the flag is not taken back.
CheckWithoutReset ==
  /\ loop = "sleep" /\ left = 0
  /\ \/ /\ age > Threshold /\ ~alerted
        /\ Warn
     \/ /\ age <= Threshold \/ alerted
        /\ Sleep
        /\ UNCHANGED <<alerted, spent, asked>>
  /\ UNCHANGED <<life, age>>

\* The sleep is over: one look at the time of the last signal.
Check ==
  /\ loop = "sleep" /\ left = 0
  /\ \/ /\ age > Threshold /\ ~alerted
        /\ Warn
     \/ /\ age > Threshold /\ alerted
        /\ Sleep
        /\ UNCHANGED <<alerted, spent, asked>>
     \/ /\ age <= Threshold
        /\ alerted' = FALSE
        /\ Sleep
        /\ UNCHANGED <<spent, asked>>
  /\ UNCHANGED <<life, age>>

\* notify_silence returns, True or False; signals may have come meanwhile.
Sent ==
  /\ loop = "send"
  /\ alerted' = TRUE
  /\ Sleep
  /\ UNCHANGED <<life, age, spent, asked>>

\* Shutdown: no request is left and the farewell is sent while the loop goes on.
Stop ==
  /\ life = "serving"
  /\ life' = "stopping"
  /\ UNCHANGED <<loop, alerted, age, left, spent, asked>>

\* Fault: the task is not cancelled.
StoppedWithoutCancel ==
  /\ life = "stopping"
  /\ life' = "down"
  /\ UNCHANGED <<loop, alerted, age, left, spent, asked>>

\* stop_heartbeat cancels the loop at the await where it stands.
Stopped ==
  /\ life = "stopping"
  /\ life' = "down" /\ loop' = "none"
  /\ UNCHANGED <<alerted, age, left, spent, asked>>

Crash ==
  /\ life # "down"
  /\ life' = "down" /\ loop' = "none"
  /\ UNCHANGED <<alerted, age, left, spent, asked>>

Sending == life = "starting" \/ loop = "send"

Tick ==
  /\ life # "down"
  /\ loop = "sleep" => left > 0
  /\ Sending => spent < SendTime
  /\ age' = IF age < Horizon THEN age + 1 ELSE age
  /\ left' = IF loop = "sleep" THEN left - 1 ELSE left
  /\ spent' = IF Sending THEN spent + 1 ELSE spent
  /\ UNCHANGED <<life, loop, alerted, asked>>

Next == Boot \/ Serve \/ Signal \/ Check \/ Sent \/ Stop \/ Stopped \/ Crash \/ Tick

Spec == Init /\ [][Next]_vars

-----------------------------------------------------------------------------

\* The variables keep their types; a process that is down has no loop, and one
\* that serves has one (main.py:113-124, heartbeat.py:330-356).
TypeOK ==
  /\ life \in {"down", "starting", "serving", "stopping"}
  /\ loop \in {"none", "sleep", "send"}
  /\ (loop = "none") <=> (life \in {"down", "starting"})
  /\ alerted \in BOOLEAN
  /\ age \in 0..Horizon /\ left \in 0..Interval /\ spent \in 0..SendTime
  /\ asked \in Nat

\* One alert per silence: between two signals the trader is warned at most once,
\* and only of a silence longer than the threshold, also when signals come
\* while a warning is being sent ("avoid spam", heartbeat.py:307-308).
OncePerSilence ==
  asked # 0 => asked = 1 /\ age > Threshold

\* No silence is overlooked: while the watch runs, a silence that has not been
\* warned of is at most one check older than the threshold, although the flag
\* is taken back by checks and not by signals (heartbeat.py:311-325).
NoticedInTime ==
  loop # "none" /\ asked = 0 => age <= Threshold + Interval

=============================================================================
