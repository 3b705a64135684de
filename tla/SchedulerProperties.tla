------------------------- MODULE SchedulerProperties -------------------------
(***************************************************************************)
(* What the scheduler promises about the daily set.                        *)
(***************************************************************************)
EXTENDS Scheduler

(* "Records the calendar date the daily set last completed cleanly"         *)
(* (SchedulerDailyState): on a recorded day every daily command was run, in *)
(* a cycle of that day, with exit code 0; a stop between two of them, whose *)
(* declined commands also count as 0, never makes a day complete.           *)
RecordedDaysRan ==
  \A d \in {last, marker} \ {NoDay} : \A c \in 1..Daily : <<d, c>> \in ran

(* "a marker problem must re-run, never skip", and nothing else re-runs: a  *)
(* recorded day is begun again only by a process that could not read it.    *)
OnlyTheBlindRepeat ==
  [][pc = "hourly" /\ pc' = "daily" => marker # DayOf(now) \/ blind = "yes"]_schedulerVars

(* On a recorded day the metrics of the day before are whole, unless the    *)
(* cycle went over midnight: rollup_daily_metrics takes the yesterday of    *)
(* its own clock and not that of the cycle.  A partial rollup by hand is    *)
(* made good.                                                               *)
RecordedDaysRolledUp ==
  marker # NoDay /\ marker > 0 /\ marker \notin late => metrics[marker - 1] = "whole"

(* The daily set happens: on a day that lasts, from 08:00 on, whatever      *)
(* failed, stopped or was killed before, the set is run and remembered.     *)
DailyHappens ==
  \A d \in Day : (time = 2 * d + 1) ~> (last = d \/ time > 2 * d + 1)

-----------------------------------------------------------------------------
(* Why they hold. *)

SchedulerTypeOK ==
  /\ time \in 0..(2 * LastDay + 1) /\ now \in 0..(2 * LastDay + 1)
  /\ pc \in {"down", "wait", "hourly", "daily"} /\ next \in Nat
  /\ failed \subseteq {"hourly", "daily"}
  /\ stop \in YesNo /\ first \in YesNo /\ touched \in YesNo /\ blind \in YesNo
  /\ last \in Day \cup {NoDay} /\ marker \in Day \cup {NoDay}
  /\ metrics \in [Day -> {"none", "part", "whole"}]
  /\ ran \subseteq Day \X (1..Daily)
  /\ lost \subseteq Day /\ late \subseteq Day /\ faults \in Nat

\* Every daily command before `next` has run unless a set failed or stopped.
Progressed ==
  /\ 1 <= next
  /\ pc = "daily" /\ stop = "no" /\ "daily" \notin failed =>
       \A c \in 1..(next - 1) : c \in 1..Daily => <<DayOf(now), c>> \in ran

\* What memory and marker know of each other.
Remembered ==
  /\ last # NoDay => last <= Today
  /\ marker # NoDay => marker <= Today
  /\ now <= time
  /\ pc \in {"hourly", "daily"} /\ last # NoDay => last <= DayOf(now)
  /\ \A d \in Day, c \in 1..Daily : <<d, c>> \in ran => d <= Today
  /\ pc # "down" /\ blind = "no" /\ marker # NoDay => last # NoDay /\ last >= marker

\* Once a rollup of today's cycle has run on its day, yesterday is whole.
Aggregated ==
  \A d \in Day : d > 0 /\ <<d, Rollup>> \in ran /\ d \notin late
                   => metrics[d - 1] = "whole"

SInv == SchedulerTypeOK /\ Progressed /\ Remembered /\ RecordedDaysRan /\ Aggregated
=============================================================================
