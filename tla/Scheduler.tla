------------------------------ MODULE Scheduler ------------------------------
(***************************************************************************)
(* The scheduler: one process that every hour runs the hourly commands,    *)
(* and once a day, from 08:00 UTC on, the daily ones, of which one rolls   *)
(* up the metrics of the day before.  The day of the last complete daily   *)
(* set is held twice: in memory and, over restarts, in a row of the        *)
(* database; both the reading and the writing of that row may fail and are *)
(* then passed over.  Orders to stop arrive at any moment, and a process   *)
(* that is too slow to obey is killed.                                     *)
(***************************************************************************)
EXTENDS Integers

CONSTANTS
  Hourly,     \* the number of HOURLY_COMMANDS
  Daily,      \* the number of DAILY_COMMANDS
  Rollup,     \* the place of rollup_daily_metrics among them
  LastDay,    \* bound: days
  MaxFaults,  \* bound: failing commands, failing markers, stops and kills
  NoDay

ASSUME Commands == Hourly \in Nat /\ Daily \in Nat /\ Rollup \in 1..Daily
ASSUME Days == LastDay \in Nat /\ MaxFaults \in Nat
ASSUME NoneIsNoDay == NoDay \notin Int

VARIABLES
  time,      \* 0..2 * LastDay + 1, half days: before and from DAILY_HOUR_UTC
  pc,        \* "down", "wait", or the set of commands under way
  next,      \* the command to run next, or one past the last
  now,       \* the time at which the cycle began
  failed,    \* SUBSET {"hourly", "daily"}, sets with an exit code that is not 0
  stop,      \* _stop_event
  first,     \* first_cycle
  last,      \* last_daily: a day or NoDay
  marker,    \* the day in scheduler_daily_state, or NoDay
  touched,   \* is the liveness marker of the last cycle there
  metrics,   \* [Day -> {"none", "part", "whole"}], DailyAdMetrics
  ran,       \* history: <<day, command>> run with exit code 0 in a cycle of day
  lost,      \* history: days whose record_daily failed
  blind,     \* history: did this process fail to read the marker
  late,      \* history: days whose rollup ran on the day after
  faults

clock == <<time>>
cycle == <<pc, next, now, failed>>
process == <<stop, first, last>>
history == <<ran, lost, blind, late>>
schedulerVars ==
  <<time, pc, next, now, failed, stop, first, last, marker, touched,
    metrics, ran, lost, blind, late, faults>>

Day == 0..LastDay
DayOf(t) == t \div 2
Today == DayOf(time)
YesNo == {"yes", "no"}

Fault == faults < MaxFaults /\ faults' = faults + 1

SchedulerInit ==
  /\ time = 0 /\ pc = "down" /\ next = 1 /\ now = 0 /\ failed = {}
  /\ stop = "no" /\ first = "yes" /\ last = NoDay /\ marker = NoDay
  /\ touched = "no" /\ metrics = [d \in Day |-> "none"]
  /\ ran = {} /\ lost = {} /\ blind = "no" /\ late = {} /\ faults = 0

-----------------------------------------------------------------------------
(* The world around: time, operators, the container. *)

Tick == /\ time < 2 * LastDay + 1 /\ time' = time + 1
        /\ UNCHANGED <<cycle, process, marker, touched, metrics, history, faults>>

\* Mutant: bulk_create with ignore_conflicts keeps the row of an earlier run.
RolledUpOnce(d, today) ==
  [metrics EXCEPT ![d] = IF @ # "none" THEN @ ELSE IF d < today THEN "whole" ELSE "part"]

\* rollup_daily_metrics, run on day `today` for day d.  Its upsert replaces
\* what an earlier run wrote; a day is whole once it is over.
RolledUp(d, today) ==
  [metrics EXCEPT ![d] = IF d < today THEN "whole" ELSE "part"]

\* An operator runs it with --date.
RollUpByHand(d) ==
  /\ d <= Today /\ metrics' = RolledUp(d, Today)
  /\ UNCHANGED <<clock, cycle, process, marker, touched, history, faults>>

\* _handle_shutdown_signal
Signal == /\ pc # "down" /\ stop = "no" /\ stop' = "yes" /\ Fault
          /\ UNCHANGED <<clock, cycle, first, last, marker, touched, metrics, history>>

\* SIGKILL when stop_grace_period is over, or a crash.
Kill == /\ pc # "down" /\ Fault /\ pc' = "down"
        /\ UNCHANGED <<clock, next, now, failed, process, marker, touched,
                       metrics, history>>

-----------------------------------------------------------------------------
(* run_scheduler *)

\* The start of the process (restart: unless-stopped).  A marker that cannot
\* be read is reported as None.
Start ==
  /\ pc = "down" /\ pc' = "wait" /\ stop' = "no" /\ first' = "yes"
  /\ \/ last' = marker /\ blind' = "no" /\ UNCHANGED faults
     \/ last' = NoDay /\ blind' = "yes" /\ Fault
  /\ UNCHANGED <<clock, next, now, failed, marker, touched, metrics, ran, lost, late>>

\* The top of the loop: out, or into another cycle.
LeaveLoop ==
  /\ pc = "wait" /\ stop = "yes" /\ pc' = "down"
  /\ UNCHANGED <<clock, next, now, failed, process, marker, touched,
                 metrics, history, faults>>

BeginCycle ==
  /\ pc = "wait" /\ stop = "no"
  /\ pc' = "hourly" /\ next' = 1 /\ now' = time /\ failed' = {}
  /\ UNCHANGED <<clock, process, marker, touched, metrics, history, faults>>

\* `except Exception`: the cycle raises outside _dispatch.
CycleRaises ==
  /\ pc \in {"hourly", "daily"} /\ Fault /\ pc' = "wait" /\ first' = "no"
  /\ UNCHANGED <<clock, next, now, failed, stop, last, marker, touched, metrics,
                 history>>

-----------------------------------------------------------------------------
(* run_one_cycle *)

Size(set) == IF set = "hourly" THEN Hourly ELSE Daily

\* _stop_aware_dispatch: a command declined for a stop counts as 0.
Skip ==
  /\ pc \in {"hourly", "daily"} /\ next <= Size(pc) /\ stop = "yes"
  /\ next' = next + 1
  /\ UNCHANGED <<clock, pc, now, failed, process, marker, touched, metrics,
                 history, faults>>

\* _run_command_subprocess under _dispatch: exit code 0; any other, a timeout
\* and an exception all count as a failure of the set.
RunHourly ==
  /\ pc = "hourly" /\ next <= Hourly /\ stop = "no" /\ next' = next + 1
  /\ \/ UNCHANGED <<failed, faults>>
     \/ failed' = failed \cup {"hourly"} /\ Fault
  /\ UNCHANGED <<clock, pc, now, process, marker, touched, metrics, history>>

RunDaily ==
  /\ pc = "daily" /\ next <= Daily /\ stop = "no" /\ next' = next + 1
  /\ \/ /\ ran' = ran \cup {<<DayOf(now), next>>}
        /\ IF next = Rollup /\ Today > 0
             THEN metrics' = RolledUp(Today - 1, Today) ELSE UNCHANGED metrics
        /\ late' = IF next = Rollup /\ Today # DayOf(now)
                     THEN late \cup {DayOf(now)} ELSE late
        /\ UNCHANGED <<failed, faults>>
     \/ /\ failed' = failed \cup {"daily"} /\ Fault
        /\ UNCHANGED <<ran, metrics, late>>
  /\ UNCHANGED <<clock, pc, now, process, marker, touched, lost, blind>>

\* Mutant: the day that was last run is not asked for.
RunEveryHour(t, day) == t % 2 = 1

\* Mutant: a process or a row that has seen a daily set asks for no other.
RunOnce(t, day) == day = NoDay /\ t % 2 = 1

should_run_daily(t, day) == day # DayOf(t) /\ t % 2 = 1

\* The end of a cycle and its liveness marker, refreshed after a clean cycle
\* and after the first of a process.
Finish(bad, stopping) ==
  /\ pc' = "wait" /\ first' = "no"
  /\ touched' = IF (bad = {} /\ stopping = "no") \/ first = "yes" THEN "yes" ELSE "no"

\* The hourly set is over: on to the daily one if it is due.
AfterHourly ==
  /\ pc = "hourly" /\ next > Hourly
  /\ IF should_run_daily(now, last)
       THEN pc' = "daily" /\ next' = 1 /\ UNCHANGED <<first, touched>>
       ELSE Finish(failed, stop) /\ UNCHANGED next
  /\ UNCHANGED <<clock, now, failed, stop, last, marker, metrics, history, faults>>

\* Mutant: commands that were declined for a stop pass for done.
EveryCommandRan == "daily" \notin failed

\* The exit codes are judged only when no stop was requested.
DailySetIsClean == stop = "no" /\ "daily" \notin failed

\* record_daily, which may fail unnoticed; memory advances all the same.
RecordDaily ==
  /\ pc = "daily" /\ next > Daily /\ DailySetIsClean
  /\ last' = DayOf(now)
  /\ \/ marker' = DayOf(now) /\ UNCHANGED <<lost, faults>>
     \/ UNCHANGED marker /\ lost' = lost \cup {DayOf(now)} /\ Fault
  /\ Finish(failed, stop)
  /\ UNCHANGED <<clock, next, now, failed, stop, metrics, ran, blind, late>>

LeaveUnrecorded ==
  /\ pc = "daily" /\ next > Daily /\ ~DailySetIsClean
  /\ Finish(failed, stop)
  /\ UNCHANGED <<clock, next, now, failed, stop, last, marker, metrics, history,
                 faults>>

-----------------------------------------------------------------------------
Step == \/ Start \/ LeaveLoop \/ BeginCycle \/ Skip \/ RunHourly \/ AfterHourly
        \/ RunDaily \/ RecordDaily \/ LeaveUnrecorded

SchedulerNext ==
  \/ Tick \/ Signal \/ Kill \/ CycleRaises \/ Step
  \/ \E d \in Day : RollUpByHand(d)

SchedulerSpec == SchedulerInit /\ [][SchedulerNext]_schedulerVars

\* The container is restarted, commands end (SCHEDULER_COMMAND_TIMEOUT) and
\* the wait between two cycles is over.
FairSchedulerSpec == SchedulerSpec /\ WF_schedulerVars(Step)
=============================================================================
