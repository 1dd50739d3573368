----------------------------- MODULE PhasorFrames -----------------------------
(***************************************************************************)
(* What PMUs, PDCs and the SPDC write into messages and read out of them.  *)
(* A text is a sequence of atoms: the separators, the padding character,   *)
(* and pieces that no operation cuts (a time stamp, a part of a name, a    *)
(* measured value).                                                        *)
(***************************************************************************)
EXTENDS Integers, SequencesExt

CONSTANTS
  Name,          \* the name of each PMU, a sequence of atoms
  Pieces,        \* the pieces that names are made of
  padded_size    \* the size of a padded message, in atoms

semicolon    == <<";">>
newline      == <<"\n">>
padding_char == <<"*">>
Stamp(ts)    == <<"stamp", ts>>
Value(p, ts) == <<"value", p, ts>>

ASSUME PaddedSizeAssumption == padded_size \in Nat

\* The scenario has cut the names out of the lines of a file, at the semicolons.
ASSUME NamesAssumption ==
  /\ {semicolon, newline, padding_char} \cap Pieces = {}
  /\ \A p \in DOMAIN Name : Name[p] \in Seq(Pieces \cup {padding_char})

(***************************************************************************)
(* Padding.  AddPadding aborts on a text that is too long.                 *)
(***************************************************************************)
Fits(data) == Len(data) <= padded_size

AddPadding(data) == data \o [i \in 1 .. (padded_size - Len(data)) |-> padding_char]

\* Fault: one character is removed instead of all.
RemovePaddingOnce(data) == RemoveFirst(data, padding_char)

\* Every padding character goes, also one inside the data.
RemovePadding(data) ==
  LET kept[i \in 0 .. Len(data)] ==
        IF i = 0 THEN <<>>
        ELSE IF data[i] = padding_char THEN kept[i - 1] ELSE Append(kept[i - 1], data[i])
  IN  kept[Len(data)]

(***************************************************************************)
(* std::getline: what is before the first of the separators, and after it. *)
(***************************************************************************)
Before(data, separators) ==
  LET i == SelectInSeq(data, LAMBDA c : c \in separators)
  IN  IF i = 0 THEN data ELSE SubSeq(data, 1, i - 1)

After(data, separators) ==
  SubSeq(data, Len(Before(data, separators)) + 2, Len(data))

(***************************************************************************)
(* A measurement: time stamp, name and value.                              *)
(***************************************************************************)
Payload(p, ts) == Name[p] \o <<semicolon, Value(p, ts)>>

Measurement(p, ts) == <<Stamp(ts), semicolon>> \o Payload(p, ts)

\* The time stamp of a measurement or of a frame.
TimeStamp(data) == Before(data, {semicolon, newline})[1][2]

(***************************************************************************)
(* A frame: the time stamp, and every payload on a line of its own.        *)
(***************************************************************************)
\* Fault: the lines are not separated.
AggregateJoined(ts, payloads) == <<Stamp(ts), newline>> \o FlattenSeq(payloads)

Aggregate(ts, payloads) ==
  LET frame[n \in 0 .. Len(payloads)] ==
        IF n = 0 THEN <<Stamp(ts)>> ELSE frame[n - 1] \o <<newline>> \o payloads[n]
  IN  frame[Len(payloads)]

\* What std::getline reads, line by line.
Lines(text) ==
  LET line[i \in 0 .. Len(text)] ==
        IF i = 0 THEN <<>>
        ELSE IF text[i] = newline THEN <<>> ELSE Append(line[i - 1], text[i])
      before[i \in 0 .. Len(text)] ==
        IF i = 0 THEN <<>>
        ELSE IF text[i] = newline THEN Append(before[i - 1], line[i - 1]) ELSE before[i - 1]
  IN  Append(before[Len(text)], line[Len(text)])

\* The name at the beginning of a line.
NameIn(line) == Before(line, {semicolon})

NamesIn(text) == [n \in DOMAIN Lines(text) |-> NameIn(Lines(text)[n])]

\* The names DoRead of the SPDC finds: the first line is not searched.
LoggedNames(text) == {NamesIn(text)[n] : n \in 2 .. Len(Lines(text))}

===============================================================================
