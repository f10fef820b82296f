---------------------------- MODULE Temperatures ----------------------------
(***************************************************************************)
(* The scripts of linux-fun-2012 that look for extreme temperatures.  A    *)
(* reading is the day of its directory and its temperature, in the order   *)
(* in which find lists the files; a file is named by its place in it.      *)
(***************************************************************************)
EXTENDS Integers, SequencesExt

(* test -gt, or test -lt where the lowest is looked for.                   *)
Beats(order, t, u) == IF order = "max" THEN t > u ELSE t < u

(* find-hottest-day.sh, max-temp.sh and min-temp.sh: the extreme so far    *)
(* and its file, 0 as long as there is none.                               *)
Better(order, e, f, t) == IF Beats(order, t, e.temp) THEN [temp |-> t, file |-> f] ELSE e

Extreme(order, first, temps) ==
  FoldLeftDomain(LAMBDA e, f : Better(order, e, f, temps[f]),
                 [temp |-> first, file |-> 0], temps)

max_temp(temps) == Extreme("max", 0, temps)
min_temp(temps) == Extreme("min", 60, temps)

(* daily-max-redux.sh, daily-min-redux.sh: a new directory prints the last *)
(* one's extreme, unless it is the value the script starts with.           *)
(* Slip: the extreme of the last day is kept.                              *)
NewDay_Keeps(s, f, reading, order, first) ==
  [lines |-> IF s.temp = first THEN s.lines ELSE Append(s.lines, <<s.file, s.temp>>),
   day |-> reading.day,
   temp |-> IF Beats(order, reading.temp, s.temp) THEN reading.temp ELSE s.temp,
   file |-> f]

NewDay(s, f, reading, order, first) ==
  [lines |-> IF s.temp = first THEN s.lines ELSE Append(s.lines, <<s.file, s.temp>>),
   day |-> reading.day, temp |-> reading.temp, file |-> f]

DailyStep(s, f, reading, order, first) ==
  IF reading.day # s.day THEN NewDay(s, f, reading, order, first)
  ELSE IF Beats(order, reading.temp, s.temp) THEN [s EXCEPT !.temp = reading.temp, !.file = f]
  ELSE s

Daily(order, first, readings) ==
  LET s == FoldLeftDomain(LAMBDA r, f : DailyStep(r, f, readings[f], order, first),
                          [lines |-> <<>>, day |-> "", temp |-> first, file |-> 0],
                          readings)
  IN  Append(s.lines, <<s.file, s.temp>>)

daily_max(readings) == Daily("max", 0, readings)
daily_min(readings) == Daily("min", 70, readings)

(* week5/max-temp.sh looks for both in one pass; a new highest reading is  *)
(* not looked at as a lowest one.                                          *)
BothStep(s, t) ==
  IF t > s.high THEN [s EXCEPT !.high = t]
  ELSE IF t < s.low THEN [s EXCEPT !.low = t]
  ELSE s

max_and_min(temps) == FoldLeft(BothStep, [high |-> 0, low |-> 60], temps)
=============================================================================
