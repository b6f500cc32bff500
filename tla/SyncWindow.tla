---------------------------- MODULE SyncWindow ----------------------------
(***************************************************************************)
(* The hours in which a unit may be auto-synced:                           *)
(* internal/config/syncwindow.go.  Times are UTC, as WindowsAllow makes    *)
(* them; a day has Hours hours and a week has Weekdays days.               *)
(***************************************************************************)
EXTENDS Integers

CONSTANTS Hours, Weekdays

ASSUME WeekAssumption == Hours \in Nat \ {0} /\ Weekdays \in Nat \ {0}

Day == 0..(Weekdays - 1)
Time == [day : Day, hour : 0..(Hours - 1)]

\* What SyncWindow.validate lets through.
Window == {w \in [kind : {"allow", "deny"}, days : SUBSET Day,
                  start : 0..Hours, end : 0..Hours] :
             w.start = w.end => w.start = 0}

DayMatches(w, day) == w.days = {} \/ day \in w.days

DayBefore(day) == IF day = 0 THEN Weekdays - 1 ELSE day - 1

\* Mutant of WindowMatches: the early hours look at today's weekday.
WindowMatchesToday(w, t) ==
  /\ DayMatches(w, t.day)
  /\ \/ w.start = w.end
     \/ w.start < w.end /\ t.hour \in w.start..(w.end - 1)
     \/ w.start > w.end /\ (t.hour >= w.start \/ t.hour < w.end)

\* A window that wraps past midnight belongs to the day it starts on.
WindowMatches(w, t) ==
  \/ w.start = w.end /\ DayMatches(w, t.day)
  \/ w.start < w.end /\ DayMatches(w, t.day) /\ t.hour \in w.start..(w.end - 1)
  \/ w.start > w.end /\ t.hour >= w.start /\ DayMatches(w, t.day)
  \/ w.start > w.end /\ t.hour < w.start /\ t.hour < w.end
       /\ DayMatches(w, DayBefore(t.day))

\* A deny window wins; once there is an allow window, one has to match.
WindowsAllow(windows, t) ==
  /\ ~ \E w \in windows : w.kind = "deny" /\ WindowMatches(w, t)
  /\ (\E w \in windows : w.kind = "allow")
       => \E w \in windows : w.kind = "allow" /\ WindowMatches(w, t)

-----------------------------------------------------------------------------
\* The reference: the hours of the week, on a circle, that a window covers
\* from the start hour of each of its days on.
Span(w) == IF w.end > w.start THEN w.end - w.start ELSE Hours - w.start + w.end

Covers(w) ==
  {(d * Hours + w.start + i) % (Weekdays * Hours) :
     d \in IF w.days = {} THEN Day ELSE w.days, i \in 0..(Span(w) - 1)}

HourOfWeek(t) == t.day * Hours + t.hour
=============================================================================
