----------------------------- MODULE Algorithms -----------------------------
(***************************************************************************)
(* The functions of Response, Measurements and Temperatures against their  *)
(* reference definitions, for every input within the bounds.  The initial  *)
(* states are the inputs.                                                  *)
(***************************************************************************)
EXTENDS Response, Measurements, Temperatures

CONSTANTS
  MaxCommands, MaxPieces, MaxPiece, MAXLINE,   \* bounds of the commands
  Separators,            \* places of the buffer where strtok may put a NUL
  MaxTotal, MaxRead, MaxReads,                 \* bounds of the bytes to send and the reads
  FirstSize, LastSize, MaxLimit,               \* 50000, 100000, and bound of sendto
  MaxReadings, Temps                           \* bounds of the readings

ASSUME AlgorithmsAssumption ==
  /\ {MaxCommands, MaxPieces, MaxPiece, MAXLINE} \subseteq Nat
  /\ {MaxTotal, MaxRead, MaxReads, MaxLimit, MaxReadings} \subseteq Nat
  /\ MaxCommands * (MaxPieces * MaxPiece) <= MAXLINE  \* ptr stays inside the buffer
  /\ FirstSize \in Nat /\ LastSize \in Nat /\ FirstSize <= LastSize
  /\ Temps \subseteq Int

VARIABLES program, input
inputs == <<program, input>>

ECommands ==
  {[letter |-> "E", pieces |-> p] :
     p \in BoundedSeq(1 .. MaxPiece, MaxPieces) \ {<<>>, <<1>>}}
FCommands ==
  [letter : {"F"}, pieces : {<<1>>, <<2>>}, ends : {"before", "after", "no"},
   nuls : SUBSET Separators]
Commands ==
  ECommands \cup FCommands \cup [letter : {"C", "Q", "#"}, pieces : {<<1>>, <<2>>}]
Transfers == {t \in [total : 0 .. MaxTotal, each : 1 .. MaxTotal] : t.total >= t.each}

AnyInput ==
  \/ program = "response" /\ input \in BoundedSeq(Commands, MaxCommands)
  \/ program = "client" /\ input \in Transfers
  \/ program = "server" /\ input \in BoundedSeq(1 .. MaxRead, MaxReads) \X (1 .. MaxReads)
  \/ program = "q1-client" /\ input \in 1 .. MaxLimit
  \/ program = "max-temp" /\ input \in BoundedSeq(Temps, MaxReadings)
  \/ program = "redux" /\ input \in BoundedSeq([day : {"d1", "d2"}, temp : Temps], MaxReadings)

Stay == UNCHANGED inputs
AlgorithmsSpec == AnyInput /\ [][Stay]_inputs
-----------------------------------------------------------------------------
(* UNIX_TL gets one answer, in order, for every E and C command and every  *)
(* F command that names a port and a file it finds (229, 273), up to a Q   *)
(* or an F command that ends the child: nothing is heard after it.  An E   *)
(* command is answered with its own bytes exactly if it is the first one   *)
(* that came in pieces, or whole and as long as the last one that did      *)
(* (client.c:200-218): elsewhere ptr and byte are those of an earlier      *)
(* command, or nothing at all.                                             *)
EchoAnswers ==
  program = "response" =>
    LET answers == response(input, MAXLINE).answers IN
    /\ Len(answers) = Cardinality(Answered(input, Len(input)))
    /\ \A c \in Heard(input) : input[c].letter = "E" =>
         (answers[Cardinality(Answered(input, c))] = Own(c, input[c])
            <=> FindsItsPlace(input, c))

(* exercise4/client.c makes the fewest writes that send at least the total *)
(* of its command line: exactly the total only if the block size divides   *)
(* it (client.c:53-56, 78-79).                                             *)
FewestWrites ==
  program = "client" =>
    LET sent(writes) == writes * input.each
        writes == Writes(input.total, input.each)
    IN  /\ sent(writes) >= input.total /\ sent(writes - 1) < input.total
        /\ sent(writes) = input.total <=> input.total % input.each = 0

(* The clock of exercise4/server.c runs from the first read that brings    *)
(* data to the first that finds the end of the file, and the time is       *)
(* printed once, although read goes on returning 0 for ever                *)
(* (exercise4/problems.txt task 2; server.c:93-113).                       *)
TimedOnce ==
  program = "server" =>
    LET data == input[1]
        reads == data \o [k \in 1 .. input[2] |-> 0]
    IN  read_data(reads) = IF data = <<>> THEN <<>> ELSE <<<<1, Len(data) + 1>>>>

(* q1-client.c prints one byte more than the largest datagram that can be  *)
(* sent, as long as that size is between its bounds; nothing for a limit   *)
(* above the last size it tries (q1-client.c:59-67).                       *)
OneTooMany ==
  program = "q1-client" =>
    Printed(FirstSize, LastSize, input) =
      IF input >= LastSize THEN 0 ELSE Max({FirstSize, input + 1})

(* Both ends of the bulk transfer of exercise4: what is sent, and for how  *)
(* long the clock runs.                                                    *)
BulkTransfer == FewestWrites /\ TimedOnce

(* The days of the readings, as the intervals of files of one directory.   *)
Starts(readings) ==
  {f \in 1 .. Len(readings) : f = 1 \/ readings[f - 1].day # readings[f].day}

Days(readings) ==
  {d \in [from : Starts(readings), to : 1 .. Len(readings)] :
     /\ d.from <= d.to /\ (d.from + 1) .. d.to \cap Starts(readings) = {}
     /\ d.to = Len(readings) \/ d.to + 1 \in Starts(readings)}

(* What a daily script should print: for each day the first file with the  *)
(* day's extreme.                                                          *)
Best(order, temps) == IF order = "max" THEN Max(temps) ELSE Min(temps)

DayLine(readings, d, order) ==
  LET temp == Best(order, {readings[f].temp : f \in d.from .. d.to})
  IN  <<Min({f \in d.from .. d.to : readings[f].temp = temp}), temp>>

DayLines(readings, order, first) ==
  LET days == {d \in Days(readings) :
                 DayLine(readings, d, order)[2] # first \/ d.to = Len(readings)}
  IN  {DayLine(readings, d, order) : d \in days}

InOrder(lines) == \A j, k \in DOMAIN lines : j < k => lines[j][1] < lines[k][1]

(* The daily scripts print the extreme of every day, in the order of the   *)
(* days, but for a day other than the last whose extreme is the value the  *)
(* script starts with (daily-max-redux.sh:18, daily-min-redux.sh:18).      *)
DailyExtremes ==
  program = "redux" /\ input # <<>> =>
    /\ InOrder(daily_max(input)) /\ InOrder(daily_min(input))
    /\ ToSet(daily_max(input)) = DayLines(input, "max", 0)
    /\ ToSet(daily_min(input)) = DayLines(input, "min", 70)

(* The scripts without days name the first file with the highest           *)
(* temperature above 0 and the lowest below 60, and the script that looks  *)
(* for both in one pass agrees with them, unless the lowest reading is the *)
(* very first: that one is only looked at as a highest                     *)
(* (week5/max-temp.sh:22-28).                                              *)
OnePass ==
  program = "max-temp" =>
    LET n == Len(input)
        high == Max(Range(input) \cup {0})
        low == Min(Range(input) \cup {60})
        FirstOf(t) == IF t \in Range(input) THEN Min({f \in 1 .. n : input[f] = t}) ELSE 0
    IN  /\ max_temp(input) = [temp |-> high, file |-> IF high = 0 THEN 0 ELSE FirstOf(high)]
        /\ min_temp(input) = [temp |-> low, file |-> IF low = 60 THEN 0 ELSE FirstOf(low)]
        /\ max_and_min(input).high = high
        /\ max_and_min(input).low # low =>
             /\ input[1] = low /\ low > 0
             /\ \A f \in 2 .. n : input[f] # low

(* All scripts of linux-fun-2012 find the extremes they look for, but for  *)
(* the exceptions above.                                                   *)
Extremes == DailyExtremes /\ OnePass
=============================================================================
