------------------------------ MODULE LogStream ------------------------------
(***************************************************************************)
(* One log line: a Logger with its LogStream and FixedBuffer (src/log).    *)
(* Texts and numbers are put into a buffer of fixed size, each of them     *)
(* whole or not at all; convert turns a number into digits without ever    *)
(* negating it.                                                            *)
(***************************************************************************)
EXTENDS Integers, SequencesExt

CONSTANTS
  SIZE,               \* of the buffer: small_buffer
  number_size_limit,  \* the room that a number asks for
  Width,              \* of the integers, in bits
  TextLengths,        \* of the texts that are logged
  TimeLength,         \* of the time at the beginning of the line
  NameLength,         \* of the file name at its end
  LineNumber,         \* the line in that file
  MaxItems,           \* bound: how many items are logged in a line
  MaxNumbers,         \* bound: how many of them are integers
  minus, ch           \* the sign, and any character of a text

ASSUME StreamAssumption ==
  /\ {SIZE, number_size_limit, Width, TimeLength, NameLength, LineNumber} \subseteq Nat \ {0}
  /\ TextLengths \subseteq Nat
  /\ {MaxItems, MaxNumbers} \subseteq Nat
  /\ minus \notin 0 .. 9

VARIABLES
  data,   \* data_ up to cur_
  top,    \* history: how many bytes of data_ have ever been written
  put,    \* history: the numbers in the buffer, with their places
  items,  \* how many items the program has logged
  stage   \* where the Logger is: new, open, or the part that its destructor adds

logVars == <<data, top, put, items, stage>>

\* The signed and the unsigned integers of this width.
Values == -(2 ^ (Width - 1)) .. 2 ^ Width - 1

LogTypeOK ==
  /\ data \in Seq(0 .. 9 \cup {minus, ch})
  /\ top \in 0 .. SIZE /\ Len(data) < SIZE
  /\ put \subseteq [from : Nat, to : Nat, value : Values]
  /\ items \in 0 .. MaxItems
  /\ stage \in {"new", "open", "dash", "name", "colon", "line", "newline", "output"}

LogInit ==
  /\ data = <<>>
  /\ top = 0
  /\ put = {}
  /\ items = 0
  /\ stage = "new"

-----------------------------------------------------------------------------
(* Numbers and the buffer. *)

\* C's division rounds towards zero, and the remainder has the sign of i.
Quotient(i) == IF i >= 0 THEN i \div 10 ELSE -((-i) \div 10)
Remainder(i) == i - 10 * Quotient(i)

\* The table has a digit for every remainder, and zero points to its middle.
digits == <<9, 8, 7, 6, 5, 4, 3, 2, 1, 0, 1, 2, 3, 4, 5, 6, 7, 8, 9>>
zero(lsd) == digits[10 + lsd]

\* The digits of a number, the least one first.
lsds[i \in Int] ==
  <<zero(Remainder(i))>> \o (IF Quotient(i) = 0 THEN <<>> ELSE lsds[Quotient(i)])

convert(v) == Reverse(lsds[v] \o (IF v < 0 THEN <<minus>> ELSE <<>>))

\* Every number of this width is shorter than the room it asks for.
ASSUME NumbersFit ==
  /\ LineNumber \in Values
  /\ \A v \in Values : Len(convert(v)) < number_size_limit

avail == SIZE - Len(data)

\* n bytes are written behind cur_, perhaps with a NUL after them.
Wrote(n) == top' = Max({top, Len(data) + n})

\* FixedBuffer::append, for every kind of text.
append(n) ==
  /\ UNCHANGED put
  /\ IF avail > n
     THEN data' = data \o [i \in 1 .. n |-> ch] /\ Wrote(n)
     ELSE UNCHANGED <<data, top>>

\* Mutant: a number asks for room as a text does.
RoomForOne == avail > 0

\* A number is dropped when the room for the longest number is not there.
RoomForNumber == avail >= number_size_limit

\* format_integer; convert writes a NUL as well.
format_integer(v) ==
  IF RoomForNumber
  THEN LET s == convert(v)
       IN  /\ data' = data \o s
           /\ Wrote(Len(s) + 1)
           /\ put' = put \cup {[from |-> Len(data) + 1, to |-> Len(data) + Len(s), value |-> v]}
  ELSE UNCHANGED <<data, top, put>>

\* A double is printed by snprintf, which writes less than number_size_limit
\* characters and a NUL.
format_double(n) ==
  /\ n < number_size_limit
  /\ UNCHANGED put
  /\ IF RoomForNumber
     THEN data' = data \o [i \in 1 .. n |-> ch] /\ Wrote(n + 1)
     ELSE UNCHANGED <<data, top>>

-----------------------------------------------------------------------------
(* The Logger. *)

\* The constructor begins the line with the time.
format_time ==
  /\ stage = "new" /\ stage' = "open"
  /\ append(TimeLength)
  /\ UNCHANGED items

LogItem ==
  /\ stage = "open" /\ items < MaxItems
  /\ items' = items + 1
  /\ \/ \E n \in TextLengths : append(n) \/ format_double(n)
     \/ Cardinality(put) < MaxNumbers /\ \E v \in Values : format_integer(v)
  /\ UNCHANGED stage

\* The destructor adds the place in the program, part by part, ...
EndLine ==
  /\ UNCHANGED items
  /\ \/ stage = "open" /\ stage' = "dash" /\ append(4)
     \/ stage = "dash" /\ stage' = "name" /\ append(NameLength)
     \/ stage = "name" /\ stage' = "colon" /\ append(1)
     \/ stage = "colon" /\ stage' = "line" /\ format_integer(LineNumber)
     \/ stage = "line" /\ stage' = "newline" /\ append(1)

\* ... and gives the line to output.
Output ==
  /\ stage = "newline" /\ stage' = "output"
  /\ UNCHANGED <<data, top, put, items>>

LogNext == format_time \/ LogItem \/ EndLine \/ Output

LogSpec == LogInit /\ [][LogNext]_logVars

-----------------------------------------------------------------------------

\* The number that stands in a place of the buffer, as a reader has it.
Digits(s) ==
  LET upto[n \in 0 .. Len(s)] == IF n = 0 THEN 0 ELSE 10 * upto[n - 1] + s[n]
  IN  upto[Len(s)]
ReadBack(s) == IF s[1] = minus THEN -Digits(Tail(s)) ELSE Digits(s)

\* The line never goes beyond its buffer, the NUL after a number included, and
\* every number in it, the most negative one too, is whole and reads as what was
\* logged.
LineIsSound ==
  /\ top <= SIZE
  /\ \A p \in put : p.to <= Len(data) /\ ReadBack(SubSeq(data, p.from, p.to)) = p.value
=============================================================================
