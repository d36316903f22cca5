------------------------------ MODULE LocalTime ------------------------------
(***************************************************************************)
(* Civil-time intervals of one month that a wall clock cannot resolve,     *)
(* src/fareline/m2/localtime.py. Instants and wall clocks are integers on  *)
(* one line: the month begins at 0 in both, and a zone's offset takes one  *)
(* to the other.                                                           *)
(***************************************************************************)
EXTENDS Integers

CONSTANTS
  TimeZones,  \* zones of the time-zone database
  Change,     \* each zone's offset change: [at, before, after]
  Hour,
  Second,
  MonthEnd    \* length of the month

ASSUME ClockAssumption ==
  /\ Second \in Nat \ {0} /\ Hour \in Nat /\ MonthEnd \in Nat
  /\ Change \in [TimeZones -> [at : Int, before : Int, after : Int]]

(* Offsets change on quarter hours of universal time, as they do in the    *)
(* years of the trips; months last whole hours, and an hour halves twice.  *)
ASSUME QuarterAssumption ==
  /\ Hour % 4 = 0 /\ Hour \div 2 > Second /\ MonthEnd % Hour = 0
  /\ \A z \in TimeZones : Change[z].at % (Hour \div 4) = 0

(* datetime.astimezone(zone).utcoffset()                                   *)
OffsetAt(z, u) == IF u < Change[z].at THEN Change[z].before ELSE Change[z].after

(* Mutant: the bisection ends on the instant before the change.             *)
BisectToBefore(z, before, after) ==
  LET narrow[b \in Int, a \in Int] ==
        LET middle == b + (a - b) \div 2 IN
        CASE a - b <= Second -> b
          [] OffsetAt(z, middle) = OffsetAt(z, before) -> narrow[middle, a]
          [] OTHER -> narrow[b, middle]
  IN narrow[before, after]

(* Narrow an hour that contains an offset change down to the second.       *)
TransitionInstant(z, before, after) ==
  LET narrow[i \in Int \X Int] ==
        LET middle == i[1] + (i[2] - i[1]) \div 2 IN
        IF i[2] - i[1] <= Second THEN i[2]
        ELSE IF OffsetAt(z, middle) = OffsetAt(z, before) THEN narrow[<<middle, i[2]>>]
        ELSE narrow[<<i[1], middle>>]
  IN narrow[<<before, after>>]

(* Mutant: both kinds are written down in the order the clock meets them.   *)
IntervalAsMet(instant, before, after) ==
  [kind |-> IF after > before THEN "nonexistent" ELSE "ambiguous",
   start |-> instant + before, end |-> instant + after]

(* A jump forward skips wall clocks, a jump back repeats them.             *)
Interval(instant, before, after) ==
  IF after > before
  THEN [kind |-> "nonexistent", start |-> instant + before, end |-> instant + after]
  ELSE [kind |-> "ambiguous", start |-> instant + after, end |-> instant + before]

(* The walk begins one hour before the month and ends with it.             *)
Cursors == {h * Hour : h \in -1 .. (MonthEnd \div Hour) - 1}

Transitions(z) ==
  LET changed == {u \in Cursors : OffsetAt(z, u) # OffsetAt(z, u + Hour)}
      found == {Interval(TransitionInstant(z, u, u + Hour), OffsetAt(z, u), OffsetAt(z, u + Hour)) :
                  u \in changed}
  IN {i \in found : 0 <= i.start /\ i.start < MonthEnd}
=============================================================================
