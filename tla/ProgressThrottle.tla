--------------------------- MODULE ProgressThrottle ---------------------------
(***************************************************************************)
(* How the progress of one task reaches observers: report_progress() sends  *)
(* at once when the interval has passed since the last event, and otherwise *)
(* leaves the report pending for a flush that a timer runs; settle() sends  *)
(* what is pending before the end.  All three hold the registry lock, so    *)
(* each is one step.                                                        *)
(*                                                                         *)
(* A report carries everything the observers are to see, so it stands for   *)
(* its number.                                                              *)
(***************************************************************************)
EXTENDS Integers

CONSTANTS
  Interval,    \* Config::progress_interval, in ticks
  MaxReports,  \* bound: how many reports the body makes
  MaxTime,     \* bound: when the clock stops; reports stop Interval before
  Never        \* Option::None, of a time

ASSUME ThrottleAssumption ==
  /\ Interval \in Nat /\ MaxReports \in Nat /\ MaxTime \in Nat
  /\ Never \notin Nat

VARIABLES
  now,        \* Instant::now()
  entry,      \* "live", then "settled", then "evicted" from the registry
  progress,   \* TaskInfo::progress, as the number of the latest report
  lastSent,   \* Throttle::last_sent
  pending,    \* Throttle::pending
  timer,      \* when the flush is due; Throttle::flush_scheduled is # Never
  delivered   \* the report the latest Progressed event carried, 0 for none

progressVars == <<now, entry, progress, lastSent, pending, timer, delivered>>

ProgressInit ==
  /\ now = 0
  /\ entry = "live"
  /\ progress = 0
  /\ lastSent = Never
  /\ pending = FALSE
  /\ timer = Never
  /\ delivered = 0

Send == delivered' = progress'

(* Reports stop early enough for the flush of the last one to be in time. *)
MayReport == entry = "live" /\ progress < MaxReports /\ now + Interval <= MaxTime

IntervalPassed == lastSent # Never => now - lastSent >= Interval

(* A timer that is set stays set: its flush finds what is pending by then. *)
ReportNow ==
  /\ MayReport
  /\ IntervalPassed
  /\ progress' = progress + 1
  /\ lastSent' = now
  /\ pending' = FALSE
  /\ Send
  /\ UNCHANGED <<now, entry, timer>>

ReportLater ==
  /\ MayReport
  /\ ~IntervalPassed
  /\ progress' = progress + 1
  /\ pending' = TRUE
  /\ timer' = IF timer = Never THEN lastSent + Interval ELSE timer
  /\ UNCHANGED <<now, entry, lastSent, delivered>>

(* Mutant of Flush: one that fires within the interval sends nothing. *)
FlushUnlessRecent ==
  /\ timer # Never /\ now >= timer
  /\ timer' = Never
  /\ IF entry = "live" /\ pending /\ IntervalPassed
     THEN /\ pending' = FALSE /\ lastSent' = now
          /\ UNCHANGED <<now, entry, progress>>
          /\ Send
     ELSE UNCHANGED <<now, entry, progress, lastSent, pending, delivered>>

(* The timer fires when it is due or, as timers do, some time after. *)
Flush ==
  /\ timer # Never /\ now >= timer
  /\ timer' = Never
  /\ IF entry = "live" /\ pending
     THEN /\ pending' = FALSE
          /\ lastSent' = now
          /\ UNCHANGED <<now, entry, progress>>
          /\ Send
     ELSE UNCHANGED <<now, entry, progress, lastSent, pending, delivered>>

(* Mutant of SettleProgress: what is pending is left for the flush. *)
SettleSendsNothing ==
  /\ entry = "live"
  /\ entry' = "settled"
  /\ UNCHANGED <<now, progress, lastSent, pending, timer, delivered>>

SettleProgress ==
  /\ entry = "live"
  /\ entry' = "settled"
  /\ pending' = FALSE
  /\ UNCHANGED <<now, progress, lastSent, timer>>
  /\ IF pending THEN Send ELSE UNCHANGED delivered

Evict ==
  /\ entry = "settled"
  /\ entry' = "evicted"
  /\ UNCHANGED <<now, progress, lastSent, pending, timer, delivered>>

Tick ==
  /\ now < MaxTime
  /\ now' = now + 1
  /\ UNCHANGED <<entry, progress, lastSent, pending, timer, delivered>>

ProgressAtRest ==
  /\ entry = "evicted" /\ timer = Never /\ now = MaxTime
  /\ UNCHANGED progressVars

ProgressNext == ReportNow \/ ReportLater \/ Flush \/ SettleProgress \/ Evict \/ Tick \/ ProgressAtRest

(* Time passes and tokio runs a timer that is due.  Nothing makes the body   *)
(* report, or the task settle.                                              *)
ProgressSpec == ProgressInit /\ [][ProgressNext]_progressVars
FairProgressSpec == ProgressSpec /\ WF_progressVars(Tick) /\ WF_progressVars(Flush)

-----------------------------------------------------------------------------
(* The throttle's times are times that were, and no event is ahead of the    *)
(* reports.                                                                  *)
ProgressTypeOK ==
  /\ now \in 0..MaxTime
  /\ entry \in {"live", "settled", "evicted"}
  /\ progress \in 0..MaxReports
  /\ lastSent \in {Never} \cup 0..now
  /\ pending \in BOOLEAN
  /\ timer \in {Never} \cup Nat
  /\ delivered \in 0..progress

(* The latest report reaches observers before the end (mod.rs:204), whichever *)
(* of a direct send, a late flush and settle() comes first.                  *)
LatestBeforeEnd == entry # "live" => delivered = progress

(* A report that was held back is not forgotten: while the task lives, either *)
(* the latest report was sent or a flush is scheduled for it.                 *)
HeldBackIsScheduled ==
  entry = "live" /\ delivered # progress => pending /\ timer # Never

(* A report reaches observers, or a later one does in its stead. *)
EveryReportReaches ==
  \A r \in 1..MaxReports : progress = r ~> delivered >= r
==============================================================================
