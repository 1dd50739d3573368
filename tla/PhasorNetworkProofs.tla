------------------------- MODULE PhasorNetworkProofs -------------------------
(***************************************************************************)
(* Theorems about PhasorNetwork for all PMUs, PDCs, names, times and       *)
(* timers, with any delay, order and loss of packets.                      *)
(***************************************************************************)
EXTENDS PhasorNetwork, PhasorFramesProofs, FiniteSetTheorems

(***************************************************************************)
(* The invariant.  An item is a packet, or the call that will send one.    *)
(***************************************************************************)
Items == sends \cup network
Message(x) == m_messages[x.to][x.tag]

Text(p, ts)  == AddPadding(Measurement(p, ts))
Clean(p, ts) == RemovePadding(Payload(p, ts))
FrameOf(c, ts) == AddPadding(Aggregate(ts, payloads[c][ts]))

Begun(a, ts) == payloads[a][ts] # <<>>

Letters ==
  Pieces \cup {semicolon} \cup {Stamp(ts) : ts \in Timestamps}
    \cup {Value(p, ts) : p \in PMUs, ts \in Timestamps}
Characters == Letters \cup {newline}

PMUNames == {PMUName(p) : p \in PMUs}

Call   == [from : Apps, to : Concentrators, tag : Nat, at : Nat]
Packet == [from : Apps, to : Concentrators, tag : Nat, sent : Nat]
Read   == [ts : Timestamps, size : Nat, at : Nat]

TypedClock ==
  /\ now \in 0 .. End /\ status \in [Apps -> {"open", "closed"}]
  /\ generate \in [PMUs -> Nat] /\ slow \subseteq Timestamps

TypedItems == sends \subseteq Call /\ network \subseteq Packet

TypedMaps ==
  /\ m_next_tag_id \in [Concentrators -> Nat] /\ DOMAIN m_messages = Concentrators
  /\ \A a \in Concentrators : DOMAIN m_messages[a] \subseteq 0 .. (m_next_tag_id[a] - 1)

TypedHeld ==
  /\ DOMAIN payloads = Concentrators
  /\ \A a \in Concentrators : DOMAIN payloads[a] = Timestamps
  /\ \A c \in PDCs, ts \in Timestamps : payloads[c][ts] \in Seq(Seq(Letters))
  /\ \A ts \in Timestamps : payloads[SPDC][ts] \in Seq(Seq(Characters))
  /\ first_arrival \in [Concentrators -> [Timestamps -> Nat]]
  /\ last_arrival \in [Concentrators -> [Timestamps -> Nat]]
  /\ send_events \in [Concentrators -> [Timestamps -> Nat]]

TypedReads ==
  /\ reads \subseteq Read /\ frames \in [Concentrators -> Seq(Read)]
  /\ DOMAIN delays = Timestamps /\ \A ts \in Timestamps : DOMAIN delays[ts] \subseteq PMUNames

Typed == TypedClock /\ TypedItems /\ TypedMaps /\ TypedHeld /\ TypedReads

\* PMUs send to their PDC, PDCs to the SPDC.
Directed ==
  \A x \in Items :
    \/ x.from \in PMUs /\ x.to = Target[x.from]
    \/ x.from \in PDCs /\ x.to = SPDC

\* A tag is carried by one packet, and its message is there.
TagsUnique ==
  /\ \A x \in Items : x.tag \in DOMAIN m_messages[x.to]
  /\ \A x, y \in Items : x.to = y.to /\ x.tag = y.tag => x = y

\* What is under way to a PDC is a measurement that it does not hold yet.
Measured(x, ts) ==
  /\ Message(x) = Text(x.from, ts) /\ ts < generate[x.from]
  /\ \A i \in DOMAIN payloads[x.to][ts] : payloads[x.to][ts][i] # Clean(x.from, ts)

MeasurementsUnderWay ==
  /\ \A x \in Items : x.to \in PDCs => \E ts \in Timestamps : Measured(x, ts)
  /\ \A x, y \in Items :
       x.to \in PDCs /\ x.from = y.from /\ Message(x) = Message(y) => x = y

\* What is under way to the SPDC is all that its PDC holds of a time stamp.
IsFrameOf(x, ts) ==
  /\ Begun(x.from, ts) /\ x.tag = send_events[x.from][ts]
  /\ Message(x) = FrameOf(x.from, ts)

FramesUnderWay ==
  \A x \in Items : x.to = SPDC => \E ts \in Timestamps : IsFrameOf(x, ts)

\* The EventId of a time stamp is that of no other.
EventsUnique ==
  /\ \A c \in PDCs, ts \in Timestamps :
       Begun(c, ts) => send_events[c][ts] < m_next_tag_id[SPDC]
  /\ \A c, d \in PDCs, ts, us \in Timestamps :
       Begun(c, ts) /\ Begun(d, us) /\ send_events[c][ts] = send_events[d][us]
         => c = d /\ ts = us

PDCHolds ==
  \A c \in PDCs, ts \in Timestamps :
    /\ \A i \in DOMAIN payloads[c][ts] :
         \E p \in PMUsOf(c) : payloads[c][ts][i] = Clean(p, ts) /\ ts < generate[p]
    /\ \A i, j \in DOMAIN payloads[c][ts] : payloads[c][ts][i] = payloads[c][ts][j] => i = j

\* The frame of a time stamp is neither waiting nor under way any more: it will not
\* come again, and the PDC adds nothing to what was in it.
Gone(c, ts) ==
  Begun(c, ts) /\ \A x \in Items : ~ (x.to = SPDC /\ x.tag = send_events[c][ts])

Reflects(from, ts) ==
  \A i \in DOMAIN payloads[SPDC][ts] :
    Gone(from[i], ts) /\ Lines(payloads[SPDC][ts][i]) = payloads[from[i]][ts]

SPDCHolds ==
  \A ts \in Timestamps :
    \E from \in Injection(DOMAIN payloads[SPDC][ts], PDCs) : Reflects(from, ts)

Times ==
  /\ \A e \in sends \cup reads : e.at >= now
  /\ \A k \in network : k.sent <= now
  /\ \A a \in Concentrators, ts \in Timestamps :
       first_arrival[a][ts] <= last_arrival[a][ts] /\ last_arrival[a][ts] <= now
  /\ \A c \in PDCs : /\ status[c] = "closed" => now >= StopTime(c)
                     /\ status[c] = "open" => now <= StopTime(c)

\* A frame waits for its timer, or a little for one packet more.
LeavesAt(c, ts, time) ==
  \/ time = first_arrival[c][ts] + timer[c] + Jitter
  \/ Len(payloads[c][ts]) >= nb_aggregates[c] /\ time <= last_arrival[c][ts] + Jitter

Waiting ==
  \A e \in sends, ts \in Timestamps :
    e.from \in PDCs /\ Begun(e.from, ts) /\ e.tag = send_events[e.from][ts]
      => LeavesAt(e.from, ts, e.at)

\* What was begun is waiting, has left, or came too close to the stop.
Waits(c, ts) == \E e \in sends : e.from = c /\ e.tag = send_events[c][ts]
HasLeft(c, ts) == \E i \in DOMAIN frames[c] : frames[c][i].ts = ts
IsLost(c, ts) ==
  /\ status[c] = "closed"
  /\ \/ first_arrival[c][ts] + timer[c] + Jitter >= StopTime(c)
     \/ last_arrival[c][ts] + Jitter >= StopTime(c)

Left ==
  \A c \in PDCs, ts \in Timestamps :
    Begun(c, ts) => Waits(c, ts) \/ HasLeft(c, ts) \/ IsLost(c, ts)

Contents ==
  /\ Directed /\ MeasurementsUnderWay /\ FramesUnderWay /\ EventsUnique
  /\ PDCHolds /\ SPDCHolds

Inv == Typed /\ TagsUnique /\ Contents /\ Times /\ Waiting /\ Left

(***************************************************************************)
(* Constants.                                                              *)
(***************************************************************************)
LEMMA Constants ==
  /\ Timestamps \subseteq Nat /\ End \in Nat /\ Jitter \in Nat /\ stop_time \in Nat
  /\ \A c \in Concentrators : timer[c] \in Nat /\ nb_aggregates[c] \in Nat
  /\ PMUs \subseteq Apps /\ Concentrators \subseteq Apps
  /\ PDCs \subseteq Concentrators /\ SPDC \in Concentrators
  /\ SPDC \notin PDCs /\ PMUs \cap Concentrators = {}
  /\ PMUs \subseteq DOMAIN Name
  /\ \A p \in PMUs : Target[p] \in PDCs
<1>1. Timestamps \subseteq Nat
  BY TimesAssumption DEF Timestamps
<1>2. End \in Nat /\ Jitter \in Nat /\ stop_time \in Nat
  BY TimesAssumption DEF End
<1>3. PMUs \subseteq DOMAIN Name
  BY ApplicationsAssumption DEF PMUs, ToSet
<1>4. QED
  BY <1>1, <1>2, <1>3, ApplicationsAssumption, AttributesAssumption DEF Apps, Concentrators

LEMMA StopTimeOfPDC ==
  ASSUME NEW c \in PDCs
  PROVE  StopTime(c) = stop_time + timer[c] /\ StopTime(c) \in Nat
<1>1. c \notin PMUs
  BY Constants
<1>2. StopTime(c) = stop_time + timer[c]
  BY <1>1 DEF StopTime
<1>3. QED
  BY <1>2, Constants

LEMMA LettersPlain ==
  /\ newline \notin Letters /\ padding_char \notin Letters
  /\ \A ts \in Timestamps : Stamp(ts) \in Letters
<1>0. /\ newline # semicolon /\ padding_char # semicolon
      /\ \A ts : newline # Stamp(ts) /\ padding_char # Stamp(ts)
      /\ \A p, ts : newline # Value(p, ts) /\ padding_char # Value(p, ts)
  BY DEF newline, padding_char, semicolon, Stamp, Value
<1>1. newline \notin Letters
  BY <1>0, NamesAssumption DEF Letters
<1>2. padding_char \notin Letters
  BY <1>0, NamesAssumption DEF Letters
<1>3. \A ts \in Timestamps : Stamp(ts) \in Letters
  BY DEF Letters
<1>4. QED BY <1>1, <1>2, <1>3

(***************************************************************************)
(* Messages.                                                               *)
(***************************************************************************)
LEMMA CleanType ==
  ASSUME NEW p \in PMUs, NEW ts \in Timestamps
  PROVE  Clean(p, ts) \in Seq(Letters)
<1>1. p \in DOMAIN Name
  BY Constants
<1>2. Payload(p, ts) \in Seq(MessageAtoms(p, ts) \cup {padding_char})
  BY <1>1, PayloadText
<1>3. RemovePadding(Payload(p, ts)) \in Seq((MessageAtoms(p, ts) \cup {padding_char}) \ {padding_char})
  BY <1>2, PaddingRemoved
<1>4. (MessageAtoms(p, ts) \cup {padding_char}) \ {padding_char} \subseteq Letters
  BY DEF MessageAtoms, Letters
<1>5. QED
  <2> DEFINE A == (MessageAtoms(p, ts) \cup {padding_char}) \ {padding_char}
             s == RemovePadding(Payload(p, ts))
  <2>1. s \in Seq(A) /\ A \subseteq Letters
    BY <1>3, <1>4
  <2> HIDE DEF A, s
  <2>2. s \in Seq(Letters)
    BY <2>1
  <2>3. QED BY <2>2 DEF s, Clean

LEMMA TextReads ==
  ASSUME NEW p \in PMUs, NEW ts \in Timestamps
  PROVE  /\ TimeStamp(Text(p, ts)) = ts
         /\ TimeStamp(RemovePadding(Text(p, ts))) = ts
         /\ After(RemovePadding(Text(p, ts)), {semicolon}) = Clean(p, ts)
         /\ NameIn(Clean(p, ts)) = PMUName(p)
<1>1. p \in DOMAIN Name
  BY Constants
<1>2. /\ TimeStamp(Text(p, ts)) = ts
      /\ TimeStamp(RemovePadding(Text(p, ts))) = ts
      /\ After(RemovePadding(Text(p, ts)), {semicolon}) = Clean(p, ts)
  BY <1>1, MeasurementReadsBack DEF Text, Clean
<1>3. NameIn(After(RemovePadding(Text(p, ts)), {semicolon})) = PMUName(p)
  BY <1>1, MeasurementReadsBack DEF Text, PMUName
<1>4. QED BY <1>2, <1>3

LEMMA CleanTells ==
  ASSUME NEW p \in PMUs, NEW ts, NEW q \in PMUs, NEW us, Clean(p, ts) = Clean(q, us)
  PROVE  p = q /\ ts = us
<1>1. p \in DOMAIN Name /\ q \in DOMAIN Name
  BY Constants
<1>2. QED
  BY <1>1, PayloadTells DEF Clean

LEMMA FrameReads ==
  ASSUME TypedHeld, NEW c \in PDCs, NEW ts \in Timestamps, Begun(c, ts)
  PROVE  /\ TimeStamp(FrameOf(c, ts)) = ts
         /\ TimeStamp(RemovePadding(FrameOf(c, ts))) = ts
         /\ Lines(After(RemovePadding(FrameOf(c, ts)), {newline})) = payloads[c][ts]
         /\ LinesIn(FrameOf(c, ts)) = Len(payloads[c][ts])
         /\ After(RemovePadding(FrameOf(c, ts)), {newline}) \in Seq(Characters)
<1> DEFINE held == payloads[c][ts]
<1>1. held \in Seq(Seq(Letters)) /\ held # <<>> /\ Len(held) \in Nat
  BY DEF TypedHeld, Begun
<1>2. newline \notin Letters /\ padding_char \notin Letters /\ Stamp(ts) \in Letters
  BY LettersPlain
<1>3. FrameOf(c, ts) = AddPadding(Aggregate(ts, held))
  BY DEF FrameOf
<1> HIDE DEF held
<1>4. /\ TimeStamp(AddPadding(Aggregate(ts, held))) = ts
      /\ TimeStamp(RemovePadding(AddPadding(Aggregate(ts, held)))) = ts
      /\ Lines(After(RemovePadding(AddPadding(Aggregate(ts, held))), {newline})) = held
      /\ Len(Lines(RemovePadding(AddPadding(Aggregate(ts, held))))) = Len(held) + 1
      /\ After(RemovePadding(AddPadding(Aggregate(ts, held))), {newline}) \in Seq(Letters \cup {newline})
  BY <1>1, <1>2, FrameReadsBack
<1>5. LinesIn(FrameOf(c, ts)) = Len(held)
  BY <1>1, <1>3, <1>4 DEF LinesIn
<1>6. QED
  BY <1>3, <1>4, <1>5 DEF held, Characters

(***************************************************************************)
(* The initial states.                                                     *)
(***************************************************************************)
LEMMA InitInv == Init => Inv
<1> SUFFICES ASSUME Init PROVE Inv
  OBVIOUS
<1> USE Constants
<1>1. /\ DOMAIN payloads = Concentrators
      /\ \A a \in Concentrators : DOMAIN payloads[a] = Timestamps
      /\ \A a \in Concentrators, ts \in Timestamps : payloads[a][ts] = <<>>
  BY DEF Init, ForAll, Empty
<1>2. \A a \in Concentrators, ts \in Timestamps : ~ Begun(a, ts)
  BY <1>1 DEF Begun
<1>3. TypedClock
  <2>1. start_time \in Nat
    BY TimesAssumption
  <2>2. QED BY <2>1 DEF Init, TypedClock
<1>4. TypedItems
  BY DEF Init, TypedItems
<1>5. TypedMaps
  BY DEF Init, TypedMaps, Empty
<1>6. TypedHeld
  <2> DEFINE S == Seq(Letters)
             R == Seq(Characters)
  <2> HIDE DEF S, R
  <2>0. <<>> \in Seq(S) /\ <<>> \in Seq(R)
    BY EmptySeq
  <2>1. \A a \in Concentrators, ts \in Timestamps :
          payloads[a][ts] \in Seq(Seq(Letters)) /\ payloads[a][ts] \in Seq(Seq(Characters))
    BY <1>1, <2>0 DEF S, R
  <2>2. QED BY <1>1, <2>1 DEF Init, TypedHeld, ForAll, Empty
<1>7. TypedReads
  BY DEF Init, TypedReads, Empty
<1>8. Items = {}
  BY DEF Init, Items
<1>9. Directed /\ TagsUnique /\ MeasurementsUnderWay /\ FramesUnderWay
  BY <1>8 DEF Directed, TagsUnique, MeasurementsUnderWay, FramesUnderWay
<1>10. EventsUnique /\ Waiting /\ Left
  <2>1. sends = {}
    BY DEF Init
  <2>2. QED BY <1>2, <2>1 DEF EventsUnique, Waiting, Left
<1>11. \A a \in Concentrators, ts \in Timestamps : DOMAIN payloads[a][ts] = {}
  BY <1>1
<1>12. PDCHolds
  BY <1>11 DEF PDCHolds
<1>13. SPDCHolds
  <2> SUFFICES ASSUME NEW ts \in Timestamps
               PROVE  \E from \in Injection(DOMAIN payloads[SPDC][ts], PDCs) : Reflects(from, ts)
    BY DEF SPDCHolds
  <2> DEFINE from == [i \in {} |-> i]
  <2>1. from \in Injection(DOMAIN payloads[SPDC][ts], PDCs)
    BY <1>11 DEF Injection, IsInjective
  <2>2. Reflects(from, ts)
    BY <1>11 DEF Reflects
  <2>3. QED BY <2>1, <2>2
<1>14. Times
  <2>1. \A c \in PDCs : status[c] = "open" /\ StopTime(c) \in Nat
    BY StopTimeOfPDC DEF Init
  <2>2. QED BY <2>1 DEF Init, Times, ForAll, Empty
<1>15. QED
  BY <1>3, <1>4, <1>5, <1>6, <1>7, <1>9, <1>10, <1>12, <1>13, <1>14 DEF Inv, Typed, Contents

(***************************************************************************)
(* Steps that bring nothing under way, and accept nothing.                 *)
(***************************************************************************)
\* Every item is one that was there before, as a call or as a packet, with its message.
ItemsKept ==
  \A x \in Items' : \E z \in Items :
    /\ z.from = x.from /\ z.to = x.to /\ z.tag = x.tag
    /\ z.tag \in DOMAIN m_messages'[z.to] /\ m_messages'[z.to][z.tag] = m_messages[z.to][z.tag]

LEMMA KeepsItems ==
  ASSUME Inv, ItemsKept, TagsUnique', UNCHANGED <<generate, payloads, send_events, m_next_tag_id>>
  PROVE  Contents'
<1>0. Directed /\ MeasurementsUnderWay /\ FramesUnderWay /\ EventsUnique /\ PDCHolds /\ SPDCHolds
  BY DEF Inv, Contents
<1>1. \A x \in Items' : \E z \in Items :
        /\ z.from = x.from /\ z.to = x.to /\ z.tag = x.tag
        /\ Message(x)' = Message(z)
  BY DEF ItemsKept, Message
<1>2. Directed'
  BY <1>0, <1>1 DEF Directed
<1>3. \A a, ts : Begun(a, ts)' = Begun(a, ts) /\ FrameOf(a, ts)' = FrameOf(a, ts)
  BY DEF Begun, FrameOf
<1>4. MeasurementsUnderWay'
  <2>1. ASSUME NEW x \in Items', x.to \in PDCs PROVE \E ts \in Timestamps : Measured(x, ts)'
    <3>1. PICK z \in Items : /\ z.from = x.from /\ z.to = x.to /\ z.tag = x.tag
                             /\ Message(x)' = Message(z)
      BY <1>1
    <3>2. PICK ts \in Timestamps : Measured(z, ts)
      BY <3>1, <2>1, <1>0 DEF MeasurementsUnderWay
    <3>3. Measured(x, ts)'
      BY <3>1, <3>2 DEF Measured
    <3>4. QED BY <3>3
  <2>2. ASSUME NEW x \in Items', NEW y \in Items',
               x.to \in PDCs, x.from = y.from, Message(x)' = Message(y)'
        PROVE  x = y
    <3>1. PICK z \in Items : /\ z.from = x.from /\ z.to = x.to /\ z.tag = x.tag
                             /\ Message(x)' = Message(z)
      BY <1>1
    <3>2. PICK w \in Items : /\ w.from = y.from /\ w.to = y.to /\ w.tag = y.tag
                             /\ Message(y)' = Message(w)
      BY <1>1
    <3>3. z = w
      BY <3>1, <3>2, <2>2, <1>0 DEF MeasurementsUnderWay
    <3>4. QED BY <3>1, <3>2, <3>3 DEF TagsUnique
  <2>3. QED BY <2>1, <2>2 DEF MeasurementsUnderWay
<1>5. FramesUnderWay'
  <2> SUFFICES ASSUME NEW x \in Items', x.to = SPDC PROVE \E ts \in Timestamps : IsFrameOf(x, ts)'
    BY DEF FramesUnderWay
  <2>1. PICK z \in Items : /\ z.from = x.from /\ z.to = x.to /\ z.tag = x.tag
                           /\ Message(x)' = Message(z)
    BY <1>1
  <2>2. PICK ts \in Timestamps : IsFrameOf(z, ts)
    BY <2>1, <1>0 DEF FramesUnderWay
  <2>3. IsFrameOf(x, ts)'
    BY <2>1, <2>2, <1>3 DEF IsFrameOf
  <2>4. QED BY <2>3
<1>6. EventsUnique'
  BY <1>0, <1>3 DEF EventsUnique
<1>7. PDCHolds'
  BY <1>0 DEF PDCHolds
<1>8. \A c, ts : Gone(c, ts) => Gone(c, ts)'
  BY <1>1, <1>3 DEF Gone
<1>9. SPDCHolds'
  <2>1. \A from, ts : Reflects(from, ts) => Reflects(from, ts)'
    BY <1>8 DEF Reflects
  <2>2. QED BY <1>0, <2>1 DEF SPDCHolds
<1>10. QED
  BY <1>2, <1>4, <1>5, <1>6, <1>7, <1>9 DEF Contents

(***************************************************************************)
(* Time and stops.                                                         *)
(***************************************************************************)
LEMMA ItemTypes ==
  ASSUME Inv, NEW x \in Items
  PROVE  /\ x.from \in Apps /\ x.to \in Concentrators /\ x.tag \in Nat
         /\ x.tag \in DOMAIN m_messages[x.to]
         /\ \/ x.from \in PMUs /\ x.to = Target[x.from] /\ x.to \in PDCs
            \/ x.from \in PDCs /\ x.to = SPDC
<1>1. x \in Call \/ x \in Packet
  BY DEF Inv, Typed, TypedItems, Items
<1>2. x.from \in Apps /\ x.to \in Concentrators /\ x.tag \in Nat
  BY <1>1 DEF Call, Packet
<1>3. x.tag \in DOMAIN m_messages[x.to]
  BY DEF Inv, TagsUnique
<1>4. \/ x.from \in PMUs /\ x.to = Target[x.from] /\ x.to \in PDCs
      \/ x.from \in PDCs /\ x.to = SPDC
  BY Constants DEF Inv, Contents, Directed
<1>5. QED BY <1>2, <1>3, <1>4

LEMMA MessageTime ==
  ASSUME Inv, NEW x \in Items
  PROVE  TimeStamp(Message(x)) \in Timestamps
<1>1. CASE x.to \in PDCs
  <2>1. x.from \in PMUs
    BY <1>1, ItemTypes, Constants
  <2>2. PICK ts \in Timestamps : Measured(x, ts)
    BY <1>1 DEF Inv, Contents, MeasurementsUnderWay
  <2>3. QED BY <2>1, <2>2, TextReads DEF Measured
<1>2. CASE x.to = SPDC
  <2>1. x.from \in PDCs
    BY <1>2, ItemTypes, Constants
  <2>2. PICK ts \in Timestamps : IsFrameOf(x, ts)
    BY <1>2 DEF Inv, Contents, FramesUnderWay
  <2>3. QED BY <2>1, <2>2, FrameReads DEF IsFrameOf, Inv, Typed
<1>3. QED BY <1>1, <1>2, ItemTypes DEF Concentrators

\* Items and what they refer to do not change.
LEMMA ItemsUnchanged ==
  ASSUME Inv, UNCHANGED <<sends, network, m_messages, generate, payloads, send_events, m_next_tag_id>>
  PROVE  TagsUnique' /\ Contents'
<1>1. Items' = Items
  BY DEF Items
<1>2. TagsUnique'
  BY <1>1 DEF Inv, TagsUnique
<1>3. ItemsKept
  BY <1>1, ItemTypes DEF ItemsKept
<1>4. QED BY <1>2, <1>3, KeepsItems

\* No frame is put off, none leaves.
LEMMA FramesUnchanged ==
  ASSUME Inv, UNCHANGED <<payloads, send_events, first_arrival, last_arrival, frames>>,
         sends' = sends,
         \A c \in PDCs : status[c] = "closed" => status'[c] = "closed"
  PROVE  Waiting' /\ Left'
<1>1. \A c, ts : Begun(c, ts)' = Begun(c, ts)
  BY DEF Begun
<1>2. Waiting'
  BY <1>1 DEF Inv, Waiting, LeavesAt
<1>3. \A c, ts : Waits(c, ts)' = Waits(c, ts) /\ HasLeft(c, ts)' = HasLeft(c, ts)
  BY DEF Waits, HasLeft
<1>4. \A c \in PDCs : \A ts : IsLost(c, ts) => IsLost(c, ts)'
  BY DEF IsLost
<1>5. Left'
  BY <1>1, <1>3, <1>4 DEF Inv, Left
<1>6. QED BY <1>2, <1>5

LEMMA TypedUnchanged ==
  /\ TypedClock /\ UNCHANGED <<now, status, generate, slow>> => TypedClock'
  /\ TypedItems /\ UNCHANGED <<sends, network>> => TypedItems'
  /\ TypedMaps /\ UNCHANGED <<m_next_tag_id, m_messages>> => TypedMaps'
  /\ TypedHeld /\ UNCHANGED <<payloads, first_arrival, last_arrival, send_events>> => TypedHeld'
  /\ TypedReads /\ UNCHANGED <<reads, frames, delays>> => TypedReads'
BY DEF TypedClock, TypedItems, TypedMaps, TypedHeld, TypedReads

LEMMA StopInv ==
  ASSUME Inv, StopApplications
  PROVE  Inv'
<1> USE DEF StopApplications
<1>1. TagsUnique' /\ Contents'
  BY ItemsUnchanged
<1>2. Typed'
  <2>1. TypedClock'
    BY DEF Inv, Typed, TypedClock
  <2>2. QED BY <2>1, TypedUnchanged DEF Inv, Typed
<1>3. Waiting' /\ Left'
  <2>1. \A c \in PDCs : status[c] = "closed" => status'[c] = "closed"
    BY Constants
  <2>2. QED BY <2>1, FramesUnchanged
<1>4. Times'
  <2>1. \A c \in PDCs : /\ status'[c] = "closed" => now >= StopTime(c)
                        /\ status'[c] = "open" => now <= StopTime(c)
    BY Constants, StopTimeOfPDC DEF Inv, Times, Typed, TypedClock, Stopping
  <2>2. QED BY <2>1 DEF Inv, Times
<1>5. QED BY <1>1, <1>2, <1>3, <1>4 DEF Inv

LEMMA TickInv ==
  ASSUME Inv, Tick
  PROVE  Inv'
<1> USE DEF Tick
<1>1. TagsUnique' /\ Contents'
  BY ItemsUnchanged
<1>2. Typed'
  <2>1. now' \in 0 .. End
    BY Constants DEF Inv, Typed, TypedClock, Runs
  <2>2. \A k \in network : TimeStamp(m_messages[k.to][k.tag]) \in Timestamps
    BY MessageTime DEF Message, Items
  <2>3. slow' \subseteq Timestamps
    BY <2>2 DEF Inv, Typed, TypedClock
  <2>4. TypedClock'
    BY <2>1, <2>3 DEF Inv, Typed, TypedClock
  <2>5. QED BY <2>4, TypedUnchanged DEF Inv, Typed
<1>3. Waiting' /\ Left'
  BY FramesUnchanged
<1>4. Times'
  <2>0. now \in Nat /\ now' = now + 1
    BY DEF Inv, Typed, TypedClock
  <2>1. \A e \in sends \cup reads : e.at \in Nat /\ e.at > now
    BY DEF Inv, Typed, TypedItems, TypedReads, Call, Read
  <2>2. \A k \in network : k.sent \in Nat /\ k.sent <= now
    BY DEF Inv, Typed, Times, TypedItems, Packet
  <2>3. \A c \in PDCs : /\ status[c] = "closed" => now' >= StopTime(c)
                        /\ status[c] = "open" => now' <= StopTime(c)
    <3> TAKE c \in PDCs
    <3>1. StopTime(c) \in Nat /\ c \in Apps
      BY StopTimeOfPDC, Constants
    <3>2. status[c] = "open" => now # StopTime(c)
      BY <3>1 DEF Runs, Stopping
    <3>3. QED BY <3>1, <3>2, <2>0 DEF Inv, Times
  <2>4. \A a \in Concentrators, ts \in Timestamps :
          first_arrival[a][ts] <= last_arrival[a][ts] /\ last_arrival[a][ts] <= now'
    BY <2>0 DEF Inv, Times, Typed, TypedHeld
  <2>5. QED BY <2>0, <2>1, <2>2, <2>3, <2>4 DEF Times
<1>5. QED BY <1>1, <1>2, <1>3, <1>4 DEF Inv

LEMMA ReadPayloadsInv ==
  ASSUME Inv, NEW e \in reads, ReadPayloads(e)
  PROVE  Inv'
<1> USE DEF ReadPayloads
<1>1. TagsUnique' /\ Contents'
  BY ItemsUnchanged
<1>2. Typed'
  <2>1. TypedReads'
    <3>1. e \in Read /\ frames[SPDC] \in Seq(Read)
      BY Constants DEF Inv, Typed, TypedReads
    <3>2. Append(frames[SPDC], e) \in Seq(Read)
      BY <3>1
    <3>3. frames' \in [Concentrators -> Seq(Read)]
      BY <3>2, Constants DEF Inv, Typed, TypedReads
    <3>4. QED BY <3>3 DEF Inv, Typed, TypedReads
  <2>2. QED BY <2>1, TypedUnchanged DEF Inv, Typed
<1>3. Waiting' /\ Left'
  <2>1. \A c \in PDCs : frames'[c] = frames[c]
    BY Constants DEF Inv, Typed, TypedReads
  <2>2. \A c, ts : Begun(c, ts)' = Begun(c, ts)
    BY DEF Begun
  <2>3. Waiting'
    BY <2>2 DEF Inv, Waiting, LeavesAt
  <2>4. \A c \in PDCs : \A ts : /\ Waits(c, ts)' = Waits(c, ts)
                                /\ HasLeft(c, ts)' = HasLeft(c, ts)
                                /\ IsLost(c, ts)' = IsLost(c, ts)
    BY <2>1 DEF Waits, HasLeft, IsLost
  <2>5. Left'
    BY <2>2, <2>4 DEF Inv, Left
  <2>6. QED BY <2>3, <2>5
<1>4. Times'
  BY DEF Inv, Times
<1>5. QED BY <1>1, <1>2, <1>3, <1>4 DEF Inv

(***************************************************************************)
(* Packets leave and are lost.                                             *)
(***************************************************************************)
LEMMA CallIsNoPacket ==
  ASSUME Inv
  PROVE  \A e \in sends, k \in network : e # k /\ ~ (e.to = k.to /\ e.tag = k.tag)
<1> TAKE e \in sends, k \in network
<1>1. e \in Call /\ k \in Packet
  BY DEF Inv, Typed, TypedItems
<1>2. "at" \in DOMAIN e /\ "at" \notin DOMAIN k
  BY <1>1 DEF Call, Packet
<1>3. e # k
  BY <1>2
<1>4. QED BY <1>3 DEF Inv, TagsUnique, Items

\* With fewer calls and packets, and the messages of those that remain.
LEMMA ItemsLess ==
  ASSUME Inv, sends' \subseteq sends, network' \subseteq network,
         UNCHANGED <<generate, payloads, send_events, m_next_tag_id>>,
         \A x \in Items' : /\ x.tag \in DOMAIN m_messages'[x.to]
                           /\ m_messages'[x.to][x.tag] = m_messages[x.to][x.tag]
  PROVE  TagsUnique' /\ Contents'
<1>1. Items' \subseteq Items
  BY DEF Items
<1>2. TagsUnique'
  BY <1>1 DEF Inv, TagsUnique
<1>3. ItemsKept
  BY <1>1 DEF ItemsKept
<1>4. QED BY <1>2, <1>3, KeepsItems

LEMMA LoseInv ==
  ASSUME Inv, NEW k \in network, Lose(k)
  PROVE  Inv'
<1> USE DEF Lose
<1>1. Items' \subseteq Items
  BY DEF Items
<1>2. TagsUnique' /\ Contents'
  <2>1. \A x \in Items' : x.tag \in DOMAIN m_messages'[x.to]
    BY <1>1, ItemTypes
  <2>2. QED BY <2>1, ItemsLess
<1>3. Typed'
  <2>1. TypedItems'
    BY DEF Inv, Typed, TypedItems
  <2>2. QED BY <2>1, TypedUnchanged DEF Inv, Typed
<1>4. Waiting' /\ Left'
  BY FramesUnchanged
<1>5. Times'
  BY DEF Inv, Times
<1>6. QED BY <1>2, <1>3, <1>4, <1>5 DEF Inv

\* What a frame under way from a PDC is in the names of HelicsPDCApplication.
LEMMA AsFrameIs ==
  ASSUME Inv, NEW e \in sends, e.from \in PDCs
  PROVE  \E ts \in Timestamps :
           /\ Begun(e.from, ts) /\ e.tag = send_events[e.from][ts]
           /\ AsFrame(e) = [ts |-> ts, size |-> Len(payloads[e.from][ts]), at |-> e.at]
<1>1. e \in Items
  BY DEF Items
<1>2. e.to = SPDC
  BY <1>1, ItemTypes, Constants
<1>3. PICK ts \in Timestamps : IsFrameOf(e, ts)
  BY <1>1, <1>2 DEF Inv, Contents, FramesUnderWay
<1>4. /\ TimeStamp(FrameOf(e.from, ts)) = ts
      /\ LinesIn(FrameOf(e.from, ts)) = Len(payloads[e.from][ts])
  BY <1>3, FrameReads DEF IsFrameOf, Inv, Typed
<1>5. AsFrame(e) = [ts |-> ts, size |-> Len(payloads[e.from][ts]), at |-> e.at]
  BY <1>3, <1>4 DEF IsFrameOf, Message, AsFrame
<1>6. QED BY <1>3, <1>5 DEF IsFrameOf

LEMMA DueFrame ==
  ASSUME Inv, NEW e \in sends, e.from \in PDCs
  PROVE  /\ AsFrame(e) \in Read
         /\ \A ts \in Timestamps :
              Begun(e.from, ts) /\ e.tag = send_events[e.from][ts] => AsFrame(e).ts = ts
<1>1. PICK us \in Timestamps :
        /\ Begun(e.from, us) /\ e.tag = send_events[e.from][us]
        /\ AsFrame(e) = [ts |-> us, size |-> Len(payloads[e.from][us]), at |-> e.at]
  BY AsFrameIs
<1>2. Len(payloads[e.from][us]) \in Nat /\ e \in Call
  BY DEF Inv, Typed, TypedHeld, TypedItems
<1>3. AsFrame(e) \in Read
  BY <1>1, <1>2 DEF Read, Call
<1>4. ASSUME NEW ts \in Timestamps, Begun(e.from, ts), e.tag = send_events[e.from][ts]
      PROVE  ts = us
  BY <1>1, <1>4 DEF Inv, Contents, EventsUnique
<1>5. QED BY <1>1, <1>3, <1>4

LEMMA SendToInv ==
  ASSUME Inv, NEW e \in sends, SendTo(e)
  PROVE  Inv'
<1> USE DEF SendTo
<1> DEFINE k == [from |-> e.from, to |-> e.to, tag |-> e.tag, sent |-> now]
<1>1. e \in Items /\ e \in Call /\ e.at = now /\ now \in Nat
  BY DEF Items, Inv, Typed, TypedItems, TypedClock
<1>2. k \in Packet /\ network' \subseteq network \cup {k} /\ sends' = sends \ {e}
  BY <1>1 DEF Call, Packet
<1>3. \A x \in Items' : (x \in Items /\ x # e) \/ x = k
  BY <1>2, CallIsNoPacket DEF Items
<1>4. k.from = e.from /\ k.to = e.to /\ k.tag = e.tag
  OBVIOUS
<1> HIDE DEF k
<1>5. TagsUnique'
  <2>1. \A x \in Items' : x.tag \in DOMAIN m_messages'[x.to]
    BY <1>1, <1>3, <1>4, ItemTypes
  <2>2. ASSUME NEW x \in Items', NEW y \in Items', x.to = y.to, x.tag = y.tag PROVE x = y
    <3>1. CASE x \in Items /\ x # e
      BY <1>1, <1>3, <1>4, <2>2, <3>1 DEF Inv, TagsUnique
    <3>2. CASE x = k
      BY <1>1, <1>3, <1>4, <2>2, <3>2 DEF Inv, TagsUnique
    <3>3. QED BY <1>3, <3>1, <3>2
  <2>3. QED BY <2>1, <2>2 DEF TagsUnique
<1>6. Contents'
  <2>1. ItemsKept
    <3> SUFFICES ASSUME NEW x \in Items'
                 PROVE  \E z \in Items :
                          /\ z.from = x.from /\ z.to = x.to /\ z.tag = x.tag
                          /\ z.tag \in DOMAIN m_messages'[z.to]
                          /\ m_messages'[z.to][z.tag] = m_messages[z.to][z.tag]
      BY DEF ItemsKept
    <3>1. CASE x \in Items
      BY <3>1, ItemTypes
    <3>2. CASE x = k
      BY <3>2, <1>1, <1>4, ItemTypes
    <3>3. QED BY <1>3, <3>1, <3>2
  <2>2. QED BY <2>1, <1>5, KeepsItems
<1>7. /\ frames' = IF status[e.from] = "open" /\ e.from \in PDCs
                   THEN [frames EXCEPT ![e.from] = Append(@, AsFrame(e))] ELSE frames
      /\ frames \in [Concentrators -> Seq(Read)] /\ PDCs \subseteq Concentrators
  BY Constants DEF Inv, Typed, TypedReads
<1>8. Typed'
  <2>1. TypedItems'
    BY <1>2 DEF Inv, Typed, TypedItems
  <2>2. frames' \in [Concentrators -> Seq(Read)]
    BY <1>7, DueFrame
  <2>3. TypedReads'
    BY <2>2 DEF Inv, Typed, TypedReads
  <2>4. QED BY <2>1, <2>3, TypedUnchanged DEF Inv, Typed
<1>9. Times'
  BY <1>1, <1>2 DEF Inv, Times, k
<1>10. \A c, ts : Begun(c, ts)' = Begun(c, ts)
  BY DEF Begun
<1>11. Waiting'
  BY <1>2, <1>10 DEF Inv, Waiting, LeavesAt
<1>12. \A c \in PDCs, ts \in Timestamps :
         /\ HasLeft(c, ts) => HasLeft(c, ts)'
         /\ IsLost(c, ts)' = IsLost(c, ts)
  <2> TAKE c \in PDCs, ts \in Timestamps
  <2>1. HasLeft(c, ts) => HasLeft(c, ts)'
    <3>1. CASE frames'[c] = frames[c]
      BY <3>1 DEF HasLeft
    <3>2. CASE c = e.from /\ frames'[c] = Append(frames[c], AsFrame(e))
      <4>1. frames[c] \in Seq(Read)
        BY <1>7
      <4>2. \A i \in DOMAIN frames[c] : i \in DOMAIN frames'[c] /\ frames'[c][i] = frames[c][i]
        BY <4>1, <3>2
      <4>3. QED BY <4>2 DEF HasLeft
    <3>3. QED BY <1>7, <3>1, <3>2
  <2>2. QED BY <2>1 DEF IsLost
<1>13. Left'
  <2> SUFFICES ASSUME NEW c \in PDCs, NEW ts \in Timestamps, Begun(c, ts)
               PROVE  Waits(c, ts)' \/ HasLeft(c, ts)' \/ IsLost(c, ts)'
    BY <1>10 DEF Left
  <2>1. CASE HasLeft(c, ts) \/ IsLost(c, ts)
    BY <2>1, <1>12
  <2>2. ASSUME NEW o \in sends, o.from = c, o.tag = send_events[c][ts], o # e
        PROVE  Waits(c, ts)'
    BY <2>2, <1>2 DEF Waits
  <2>3. CASE e.from = c /\ e.tag = send_events[c][ts]
    <3>1. CASE status[c] = "open"
      <4>1. frames'[c] = Append(frames[c], AsFrame(e)) /\ frames[c] \in Seq(Read)
        BY <1>7, <2>3, <3>1
      <4>2. AsFrame(e).ts = ts
        BY <2>3, DueFrame
      <4> DEFINE n == Len(frames[c]) + 1
      <4>3. n \in DOMAIN frames'[c] /\ frames'[c][n] = AsFrame(e)
        BY <4>1
      <4>4. QED BY <4>2, <4>3 DEF HasLeft
    <3>2. CASE status[c] = "closed"
      <4>1. LeavesAt(c, ts, now)
        BY <1>1, <2>3 DEF Inv, Waiting
      <4>2. now >= StopTime(c)
        BY <3>2 DEF Inv, Times
      <4>3. /\ first_arrival[c][ts] \in Nat /\ last_arrival[c][ts] \in Nat
            /\ timer[c] \in Nat /\ Jitter \in Nat /\ StopTime(c) \in Nat
        BY Constants, StopTimeOfPDC DEF Inv, Typed, TypedHeld
      <4>4. IsLost(c, ts)
        BY <1>1, <3>2, <4>1, <4>2, <4>3 DEF LeavesAt, IsLost
      <4>5. QED BY <4>4, <1>12
    <3>3. status[c] \in {"open", "closed"}
      BY Constants DEF Inv, Typed, TypedClock
    <3>4. QED BY <3>1, <3>2, <3>3
  <2>4. QED BY <2>1, <2>2, <2>3 DEF Inv, Left, Waits
<1>14. QED BY <1>5, <1>6, <1>8, <1>9, <1>11, <1>13 DEF Inv

(***************************************************************************)
(* A measurement.                                                          *)
(***************************************************************************)
\* A new entry of a map of messages.
LEMMA Inserted ==
  ASSUME NEW map, NEW n, NEW message, n \notin DOMAIN map
  PROVE  /\ DOMAIN Insert(map, n, message) = DOMAIN map \cup {n}
         /\ Insert(map, n, message)[n] = message
         /\ \A t \in DOMAIN map : t # n /\ Insert(map, n, message)[t] = map[t]
BY DEF Insert

LEMMA NextTagFree ==
  ASSUME Inv, NEW a \in Concentrators
  PROVE  m_next_tag_id[a] \in Nat /\ m_next_tag_id[a] \notin DOMAIN m_messages[a]
BY DEF Inv, Typed, TypedMaps

LEMMA GenerateInv ==
  ASSUME Inv, NEW p \in PMUs, GenerateMeasurement(p)
  PROVE  Inv'
<1>0. PICK ts, to, n, e :
        /\ ts = generate[p] /\ to = Target[p]
        /\ n = m_next_tag_id[to] /\ e = SendAt(p, to, ts)
  OBVIOUS
<1>1. /\ ts = now /\ ts \in Timestamps /\ ts \in Nat /\ now \in Nat
      /\ to \in PDCs /\ to \in Concentrators /\ to # SPDC /\ p \notin PDCs /\ p \in Apps
  BY <1>0, Constants DEF GenerateMeasurement, Inv, Typed, TypedClock
<1>2. /\ m_messages' = [m_messages EXCEPT ![to] = Insert(@, n, Text(p, ts))]
      /\ m_next_tag_id' = [m_next_tag_id EXCEPT ![to] = @ + 1]
      /\ sends' = sends \cup {e}
      /\ generate' = [generate EXCEPT ![p] = ts + sampling_period]
      /\ UNCHANGED <<now, status, network, payloads, first_arrival, send_events, reads,
                     delays, arrived, last_arrival, frames, slow>>
  BY <1>0 DEF GenerateMeasurement, NewTag, Text
<1>3. n \in Nat /\ n \notin DOMAIN m_messages[to] /\ DOMAIN m_messages = Concentrators
  BY <1>0, <1>1, NextTagFree DEF Inv, Typed, TypedMaps
<1>4. e = [from |-> p, to |-> to, tag |-> n, at |-> ts + Jitter]
  BY <1>0 DEF SendAt
<1>5. /\ e \in Call /\ e.from = p /\ e.to = to /\ e.tag = n /\ e.at = ts + Jitter
      /\ Jitter \in Nat
  BY <1>1, <1>3, <1>4, Constants DEF Call
<1>6. /\ m_messages'[to] = Insert(m_messages[to], n, Text(p, ts))
      /\ \A a \in Concentrators : a # to => m_messages'[a] = m_messages[a]
      /\ DOMAIN m_messages' = Concentrators
  BY <1>1, <1>2, <1>3
<1>7. /\ DOMAIN m_messages'[to] = DOMAIN m_messages[to] \cup {n}
      /\ m_messages'[to][n] = Text(p, ts)
      /\ \A t \in DOMAIN m_messages[to] : t # n /\ m_messages'[to][t] = m_messages[to][t]
  BY <1>3, <1>6 DEF Insert
<1>8. Items' = Items \cup {e}
  BY <1>2 DEF Items
<1>9. \A x \in Items :
        /\ x.tag \in DOMAIN m_messages'[x.to] /\ Message(x)' = Message(x)
        /\ ~ (x.to = e.to /\ x.tag = e.tag)
  <2> TAKE x \in Items
  <2>1. x.to \in Concentrators /\ x.tag \in DOMAIN m_messages[x.to]
    BY ItemTypes
  <2>2. QED BY <2>1, <1>3, <1>5, <1>6, <1>7 DEF Message
<1>10. Message(e)' = Text(p, ts) /\ e.tag \in DOMAIN m_messages'[e.to]
  BY <1>5, <1>7 DEF Message
<1>11. /\ generate' \in [PMUs -> Nat] /\ ts < generate'[p]
       /\ \A q \in PMUs : generate[q] \in Nat /\ generate'[q] \in Nat /\ generate[q] <= generate'[q]
  <2>1. sampling_period \in Nat /\ sampling_period > 0 /\ generate \in [PMUs -> Nat]
    BY TimesAssumption DEF Inv, Typed, TypedClock
  <2>2. QED BY <1>1, <1>2, <2>1, <1>0
<1>12. TagsUnique'
  <2>1. \A x \in Items' : x.tag \in DOMAIN m_messages'[x.to]
    BY <1>8, <1>9, <1>10
  <2>2. \A x, y \in Items' : x.to = y.to /\ x.tag = y.tag => x = y
    BY <1>8, <1>9 DEF Inv, TagsUnique
  <2>3. QED BY <2>1, <2>2 DEF TagsUnique
<1>13. Directed'
  BY <1>0, <1>1, <1>5, <1>8 DEF Inv, Contents, Directed
<1>14. \A c, us : Begun(c, us)' = Begun(c, us) /\ FrameOf(c, us)' = FrameOf(c, us)
  BY <1>2 DEF Begun, FrameOf
<1>15. \A us \in Timestamps : us \in Nat
  BY Constants
<1>16. MeasurementsUnderWay'
  <2>1. ASSUME NEW x \in Items, x.to \in PDCs PROVE \E us \in Timestamps : Measured(x, us)'
    <3>1. PICK us \in Timestamps : Measured(x, us)
      BY <2>1 DEF Inv, Contents, MeasurementsUnderWay
    <3>2. x.from \in PMUs
      BY <2>1, ItemTypes, Constants
    <3>3. us < generate'[x.from]
      BY <3>1, <3>2, <1>11, <1>15 DEF Measured
    <3>4. Measured(x, us)'
      BY <3>1, <3>3, <1>2, <1>9 DEF Measured
    <3>5. QED BY <3>4
  <2>2. Measured(e, ts)'
    <3>1. ASSUME NEW i \in DOMAIN payloads[to][ts] PROVE payloads[to][ts][i] # Clean(p, ts)
      <4>1. PICK q \in PMUsOf(to) : payloads[to][ts][i] = Clean(q, ts) /\ ts < generate[q]
        BY <1>1 DEF Inv, Contents, PDCHolds
      <4>2. q \in PMUs /\ ts < generate[q]
        BY <4>1 DEF PMUsOf
      <4>3. ASSUME q = p PROVE FALSE
        <5>1. ts < ts
          BY <4>2, <4>3, <1>0
        <5>2. QED BY <5>1, <1>1
      <4>4. QED BY <4>1, <4>2, <4>3, CleanTells
    <3>2. QED BY <3>1, <1>2, <1>5, <1>10, <1>11 DEF Measured
  <2>3. ASSUME NEW x \in Items, x.to \in PDCs, x.from = p PROVE Message(x) # Text(p, ts)
    <3>1. PICK us \in Timestamps : Measured(x, us)
      BY <2>3 DEF Inv, Contents, MeasurementsUnderWay
    <3>2. us < ts
      BY <1>0, <2>3, <3>1 DEF Measured
    <3>3. us # ts
      BY <3>2, <1>1, <1>15
    <3>4. Message(x) = Text(p, us)
      BY <2>3, <3>1 DEF Measured
    <3>5. TimeStamp(Text(p, us)) = us /\ TimeStamp(Text(p, ts)) = ts
      BY <1>1, TextReads
    <3>6. QED BY <3>3, <3>4, <3>5
  <2>4. ASSUME NEW x \in Items', NEW y \in Items',
               x.to \in PDCs, x.from = y.from, Message(x)' = Message(y)'
        PROVE  x = y
    <3>0. \A z \in Items : z.from = p => z.to \in PDCs
      BY ItemTypes, <1>1
    <3>1. CASE x \in Items /\ y \in Items
      BY <3>1, <2>4, <1>9 DEF Inv, Contents, MeasurementsUnderWay
    <3>2. CASE x \in Items /\ y = e
      BY <3>2, <2>3, <2>4, <1>5, <1>9, <1>10
    <3>3. CASE x = e /\ y \in Items
      BY <3>0, <3>3, <2>3, <2>4, <1>5, <1>9, <1>10
    <3>4. QED BY <3>1, <3>2, <3>3, <1>8
  <2>5. \A x \in Items' : x.to \in PDCs => \E us \in Timestamps : Measured(x, us)'
    BY <2>1, <2>2, <1>1, <1>8
  <2>6. QED BY <2>4, <2>5 DEF MeasurementsUnderWay
<1>17. FramesUnderWay'
  <2> SUFFICES ASSUME NEW x \in Items', x.to = SPDC PROVE \E us \in Timestamps : IsFrameOf(x, us)'
    BY DEF FramesUnderWay
  <2>1. x \in Items
    BY <1>1, <1>5, <1>8
  <2>2. PICK us \in Timestamps : IsFrameOf(x, us)
    BY <2>1 DEF Inv, Contents, FramesUnderWay
  <2>3. IsFrameOf(x, us)'
    BY <2>1, <2>2, <1>2, <1>9, <1>14 DEF IsFrameOf
  <2>4. QED BY <2>3
<1>18. m_next_tag_id'[SPDC] = m_next_tag_id[SPDC]
  BY <1>1, <1>2, Constants DEF Inv, Typed, TypedMaps
<1>19. EventsUnique'
  BY <1>2, <1>14, <1>18 DEF Inv, Contents, EventsUnique
<1>20. PDCHolds'
  <2> SUFFICES ASSUME NEW c \in PDCs, NEW us \in Timestamps
               PROVE  /\ \A i \in DOMAIN payloads[c][us] :
                           \E q \in PMUsOf(c) : payloads[c][us][i] = Clean(q, us) /\ us < generate'[q]
                      /\ \A i, j \in DOMAIN payloads[c][us] :
                           payloads[c][us][i] = payloads[c][us][j] => i = j
    BY <1>2 DEF PDCHolds
  <2>1. ASSUME NEW i \in DOMAIN payloads[c][us]
        PROVE  \E q \in PMUsOf(c) : payloads[c][us][i] = Clean(q, us) /\ us < generate'[q]
    <3>1. PICK q \in PMUsOf(c) : payloads[c][us][i] = Clean(q, us) /\ us < generate[q]
      BY DEF Inv, Contents, PDCHolds
    <3>2. us < generate'[q]
      BY <3>1, <1>11, <1>15 DEF PMUsOf
    <3>3. QED BY <3>1, <3>2
  <2>2. QED BY <2>1 DEF Inv, Contents, PDCHolds
<1>21. SPDCHolds'
  <2>1. \A c, us : Gone(c, us) => Gone(c, us)'
    BY <1>1, <1>2, <1>5, <1>8, <1>14 DEF Gone
  <2>2. \A from, us : Reflects(from, us) => Reflects(from, us)'
    BY <1>2, <2>1 DEF Reflects
  <2>3. QED BY <1>2, <2>2 DEF Inv, Contents, SPDCHolds
<1>22. Contents'
  BY <1>13, <1>16, <1>17, <1>19, <1>20, <1>21 DEF Contents
<1>23. Typed'
  <2>1. TypedClock'
    BY <1>2, <1>11 DEF Inv, Typed, TypedClock
  <2>2. TypedItems'
    BY <1>2, <1>5 DEF Inv, Typed, TypedItems
  <2>3. TypedMaps'
    <3>1. /\ m_next_tag_id' \in [Concentrators -> Nat] /\ m_next_tag_id'[to] = n + 1
          /\ \A a \in Concentrators : a # to => m_next_tag_id'[a] = m_next_tag_id[a]
      BY <1>0, <1>1, <1>2 DEF Inv, Typed, TypedMaps
    <3>2. DOMAIN m_messages[to] \subseteq 0 .. (n - 1)
      BY <1>0, <1>1 DEF Inv, Typed, TypedMaps
    <3>3. DOMAIN m_messages'[to] \subseteq 0 .. ((n + 1) - 1)
      BY <3>2, <1>3, <1>7
    <3>4. QED BY <3>1, <3>3, <1>6 DEF Inv, Typed, TypedMaps
  <2>4. QED BY <2>1, <2>2, <2>3, <1>2, TypedUnchanged DEF Inv, Typed
<1>24. Times'
  BY <1>1, <1>2, <1>5 DEF Inv, Times
<1>25. Waiting'
  BY <1>1, <1>2, <1>5, <1>14 DEF Inv, Waiting, LeavesAt
<1>26. Left'
  <2>1. \A c, us : /\ Waits(c, us) => Waits(c, us)'
                   /\ HasLeft(c, us)' = HasLeft(c, us) /\ IsLost(c, us)' = IsLost(c, us)
    BY <1>2 DEF Waits, HasLeft, IsLost
  <2>2. QED BY <2>1, <1>14 DEF Inv, Left
<1>27. QED BY <1>12, <1>22, <1>23, <1>24, <1>25, <1>26 DEF Inv

(***************************************************************************)
(* What is read out of a packet.                                           *)
(***************************************************************************)
NameOf(x) == IF x.to = SPDC THEN x.from ELSE PMUName(x.from)

\* What HandleRead reads out of a packet, and what it does with it.
ReadsAt(k, ts, payload) ==
  /\ arrived' = [arrived EXCEPT ![k.to] = @ \cup {<<ts, NameOf(k)>>}]
  /\ IF IsLate(k.to, ts) THEN Discard(k)
     ELSE IF k.to = SPDC THEN SPDCDoRead(k, ts, payload) ELSE PDCDoRead(k, ts, payload)

LEMMA ReadDetails ==
  ASSUME Inv, NEW k \in network, HandleRead(k)
  PROVE  /\ network' = network \ {k} /\ UNCHANGED <<now, status, generate, frames, slow>>
         /\ Runs /\ status[k.to] = "open" /\ k \in Items /\ k.to \in Concentrators
         /\ \E ts \in Timestamps : \E payload :
              /\ ReadsAt(k, ts, payload)
              /\ k.to \in PDCs => Measured(k, ts) /\ payload = Clean(k.from, ts)
              /\ k.to = SPDC => /\ IsFrameOf(k, ts) /\ payload \in Seq(Characters)
                                /\ Lines(payload) = payloads[k.from][ts]
<1>0. k \in Items /\ k.to \in Concentrators
  BY ItemTypes DEF Items
<1>1. PICK data, ts :
        /\ data = RemovePadding(Message(k)) /\ ts = TimeStamp(data)
        /\ arrived' = [arrived EXCEPT ![k.to] = @ \cup {<<ts, Sender(k, data)>>}]
        /\ IF IsLate(k.to, ts) THEN Discard(k)
           ELSE IF k.to = SPDC THEN SPDCDoRead(k, ts, After(data, {newline}))
           ELSE PDCDoRead(k, ts, After(data, {semicolon}))
  BY DEF HandleRead, Message
<1>2. CASE k.to \in PDCs
  <2>1. k.from \in PMUs /\ k.to # SPDC
    BY <1>0, <1>2, ItemTypes, Constants
  <2>2. PICK us \in Timestamps : Measured(k, us)
    BY <1>0, <1>2 DEF Inv, Contents, MeasurementsUnderWay
  <2>3. data = RemovePadding(Text(k.from, us))
    BY <1>1, <2>2 DEF Measured
  <2>4. /\ ts = us /\ After(data, {semicolon}) = Clean(k.from, us)
        /\ NameIn(After(data, {semicolon})) = PMUName(k.from)
    BY <1>1, <2>1, <2>3, TextReads
  <2>5. ReadsAt(k, us, Clean(k.from, us))
    BY <1>1, <2>1, <2>4 DEF ReadsAt, Sender, NameOf
  <2>6. QED BY <1>0, <1>2, <2>1, <2>2, <2>5 DEF HandleRead
<1>3. CASE k.to = SPDC
  <2>1. k.from \in PDCs /\ k.to \notin PDCs
    BY <1>0, <1>3, ItemTypes, Constants
  <2>2. PICK us \in Timestamps : IsFrameOf(k, us)
    BY <1>0, <1>3 DEF Inv, Contents, FramesUnderWay
  <2>3. data = RemovePadding(FrameOf(k.from, us)) /\ Begun(k.from, us)
    BY <1>1, <2>2 DEF IsFrameOf
  <2> DEFINE text == After(data, {newline})
  <2>4. ts = us /\ text \in Seq(Characters) /\ Lines(text) = payloads[k.from][us]
    BY <1>1, <2>1, <2>3, FrameReads DEF Inv, Typed
  <2>5. ReadsAt(k, us, text)
    BY <1>1, <1>3, <2>4 DEF ReadsAt, Sender, NameOf
  <2> HIDE DEF text
  <2>6. QED BY <1>0, <2>1, <2>2, <2>4, <2>5 DEF HandleRead
<1>4. QED BY <1>0, <1>2, <1>3 DEF Concentrators

ReadsMeasurement(k) ==
  /\ k.to \in PDCs
  /\ \E ts \in Timestamps : Measured(k, ts) /\ ~ IsLate(k.to, ts)
                            /\ PDCDoRead(k, ts, Clean(k.from, ts))

ReadsFrame(k) ==
  /\ k.to = SPDC
  /\ \E ts \in Timestamps, text \in Seq(Characters) :
       /\ IsFrameOf(k, ts) /\ ~ IsLate(SPDC, ts)
       /\ Lines(text) = payloads[k.from][ts]
       /\ SPDCDoRead(k, ts, text)

LEMMA ReadCases ==
  ASSUME Inv, NEW k \in network, HandleRead(k)
  PROVE  /\ network' = network \ {k} /\ UNCHANGED <<now, status, generate, frames, slow>>
         /\ k \in Items
         /\ Discard(k) \/ ReadsMeasurement(k) \/ ReadsFrame(k)
<1>1. PICK ts \in Timestamps : \E payload :
        /\ ReadsAt(k, ts, payload)
        /\ k.to \in PDCs => Measured(k, ts) /\ payload = Clean(k.from, ts)
        /\ k.to = SPDC => /\ IsFrameOf(k, ts) /\ payload \in Seq(Characters)
                          /\ Lines(payload) = payloads[k.from][ts]
  BY ReadDetails
<1>2. CASE IsLate(k.to, ts)
  BY <1>1, <1>2, ReadDetails DEF ReadsAt
<1>3. CASE ~ IsLate(k.to, ts) /\ k.to \in PDCs
  <2>1. ReadsMeasurement(k)
    BY <1>1, <1>3, Constants DEF ReadsAt, ReadsMeasurement
  <2>2. QED BY <2>1, ReadDetails
<1>4. CASE ~ IsLate(k.to, ts) /\ k.to = SPDC
  <2>1. ReadsFrame(k)
    BY <1>1, <1>4 DEF ReadsAt, ReadsFrame
  <2>2. QED BY <2>1, ReadDetails
<1>5. QED BY <1>2, <1>3, <1>4, ReadDetails DEF Concentrators

\* The entry of a packet that was read is taken out of the map.
LEMMA Erased ==
  ASSUME Inv, NEW k \in Items, NEW x \in Items, x # k, x.to = k.to
  PROVE  /\ x.tag \in DOMAIN Erase(m_messages[k.to], k.tag)
         /\ Erase(m_messages[k.to], k.tag)[x.tag] = m_messages[k.to][x.tag]
<1>1. x.tag # k.tag /\ x.tag \in DOMAIN m_messages[k.to]
  BY DEF Inv, TagsUnique
<1>2. QED BY <1>1 DEF Erase, Restrict

LEMMA DiscardInv ==
  ASSUME Inv, NEW k \in network, HandleRead(k), Discard(k)
  PROVE  Inv'
<1> USE DEF Discard
<1>1. network' = network \ {k} /\ UNCHANGED <<now, status, generate, frames, slow>> /\ k \in Items
  BY ReadCases
<1>2. k.to \in Concentrators /\ DOMAIN m_messages = Concentrators
  BY <1>1, ItemTypes DEF Inv, Typed, TypedMaps
<1>3. /\ m_messages'[k.to] = Erase(m_messages[k.to], k.tag)
      /\ \A a \in Concentrators : a # k.to => m_messages'[a] = m_messages[a]
      /\ DOMAIN m_messages' = Concentrators
  BY <1>2
<1>4. \A x \in Items' : x \in Items /\ x # k
  BY <1>1, CallIsNoPacket DEF Items
<1>5. TagsUnique' /\ Contents'
  <2>1. \A x \in Items' : /\ x.tag \in DOMAIN m_messages'[x.to]
                          /\ m_messages'[x.to][x.tag] = m_messages[x.to][x.tag]
    <3> TAKE x \in Items'
    <3>1. x \in Items /\ x # k /\ x.to \in Concentrators /\ x.tag \in DOMAIN m_messages[x.to]
      BY <1>4, ItemTypes
    <3>2. CASE x.to = k.to
      BY <3>1, <3>2, <1>1, <1>3, Erased
    <3>3. CASE x.to # k.to
      BY <3>1, <3>3, <1>3
    <3>4. QED BY <3>2, <3>3
  <2>2. QED BY <2>1, <1>1, ItemsLess
<1>6. Typed'
  <2>1. TypedItems'
    BY <1>1 DEF Inv, Typed, TypedItems
  <2>2. TypedMaps'
    <3>1. DOMAIN m_messages'[k.to] \subseteq DOMAIN m_messages[k.to]
      BY <1>3 DEF Erase, Restrict
    <3>2. QED BY <3>1, <1>2, <1>3 DEF Inv, Typed, TypedMaps
  <2>3. QED BY <1>1, <2>1, <2>2, TypedUnchanged DEF Inv, Typed
<1>7. Waiting' /\ Left'
  BY <1>1, FramesUnchanged
<1>8. Times'
  BY <1>1 DEF Inv, Times
<1>9. QED BY <1>5, <1>6, <1>7, <1>8 DEF Inv

(***************************************************************************)
(* A measurement reaches its PDC.                                          *)
(***************************************************************************)
\* What is accepted becomes the last of what is held.
LEMMA Appended ==
  ASSUME NEW S, NEW held \in Seq(S), NEW payload \in S
  PROVE  /\ Append(held, payload) \in Seq(S) /\ Append(held, payload) # <<>>
         /\ Len(Append(held, payload)) = Len(held) + 1 /\ Len(held) \in Nat
         /\ DOMAIN Append(held, payload) = DOMAIN held \cup {Len(held) + 1}
         /\ Len(held) + 1 \notin DOMAIN held
         /\ \A i \in DOMAIN held : Append(held, payload)[i] = held[i]
         /\ Append(held, payload)[Len(held) + 1] = payload
<1>1. /\ Append(held, payload) \in Seq(S)
      /\ Len(Append(held, payload)) = Len(held) + 1 /\ Len(held) \in Nat
      /\ \A i \in 1 .. Len(held) : Append(held, payload)[i] = held[i]
      /\ Append(held, payload)[Len(held) + 1] = payload
  OBVIOUS
<1>2. DOMAIN held = 1 .. Len(held) /\ DOMAIN Append(held, payload) = 1 .. (Len(held) + 1)
  BY <1>1
<1>3. 1 .. (Len(held) + 1) = (1 .. Len(held)) \cup {Len(held) + 1}
  BY <1>1
<1>4. Len(held) + 1 \notin 1 .. Len(held)
  BY <1>1
<1>5. Append(held, payload) # <<>>
  BY <1>1
<1>6. QED BY <1>1, <1>2, <1>3, <1>4, <1>5

LEMMA AppendFills ==
  ASSUME NEW S, NEW s \in Seq(S), NEW x
  PROVE  Append(s, x) # <<>> /\ Len(Append(s, x)) = Len(s) + 1
<1> DEFINE R == S \cup {x}
<1>1. s \in Seq(R) /\ x \in R
  OBVIOUS
<1> HIDE DEF R
<1>2. QED BY <1>1, Appended

\* A sequence that is mapped, with one element more.
LEMMA AppendIs ==
  ASSUME NEW S, NEW s \in Seq(S), NEW y, NEW f, NEW g,
         f = [i \in DOMAIN s |-> f[i]],
         g = [i \in DOMAIN s \cup {Len(s) + 1} |-> g[i]],
         \A i \in DOMAIN s : g[i] = f[i],
         g[Len(s) + 1] = y
  PROVE  g = Append(f, y) /\ Len(f) = Len(s) /\ (f = <<>> <=> s = <<>>)
<1>1. DOMAIN s = 1 .. Len(s) /\ Len(s) \in Nat /\ (s = <<>> <=> Len(s) = 0)
  OBVIOUS
<1> DEFINE R == {f[i] : i \in DOMAIN s} \cup {y}
<1>2. f \in Seq(R) /\ Len(f) = Len(s) /\ (f = <<>> <=> Len(f) = 0) /\ y \in R
  <2>1. f \in [1 .. Len(s) -> R] /\ y \in R
    BY <1>1
  <2> HIDE DEF R
  <2>2. f \in Seq(R)
    BY <1>1, <2>1
  <2>3. Len(f) = Len(s)
    BY <1>1, <2>1, <2>2
  <2>4. QED BY <2>1, <2>2, <2>3
<1> HIDE DEF R
<1>3. /\ DOMAIN Append(f, y) = DOMAIN s \cup {Len(s) + 1}
      /\ \A i \in DOMAIN s : Append(f, y)[i] = f[i]
      /\ Append(f, y)[Len(s) + 1] = y
      /\ Append(f, y) \in Seq(R)
  <2>1. DOMAIN f = DOMAIN s
    BY <1>1, <1>2
  <2>2. QED BY <1>2, <2>1, Appended
<1>4. Append(f, y) = [i \in DOMAIN s \cup {Len(s) + 1} |-> Append(f, y)[i]]
  BY <1>3
<1>5. \A i \in DOMAIN s \cup {Len(s) + 1} : Append(f, y)[i] = g[i]
  BY <1>3
<1>6. g = Append(f, y)
  BY <1>4, <1>5
<1>7. QED BY <1>1, <1>2, <1>6

\* A time stamp that still waits is neither gone nor under way.
LEMMA OpenTimestamp ==
  ASSUME Inv, NEW c \in PDCs, NEW ts \in Timestamps, Begun(c, ts), ~ IsLate(c, ts)
  PROVE  \E e \in sends : /\ e.from = c /\ e.to = SPDC /\ e.tag = send_events[c][ts]
                          /\ \A x \in Items : x.to = SPDC /\ x.tag = e.tag => x = e
<1>1. c # SPDC
  BY Constants
<1>2. PICK e \in sends : e.from = c /\ e.tag = send_events[c][ts]
  BY <1>1 DEF IsLate, IsFirst, Begun, IsExpired
<1>3. e \in Items
  BY DEF Items
<1>4. e.to = SPDC
  BY <1>2, <1>3, ItemTypes, Constants
<1>5. \A x \in Items : x.to = SPDC /\ x.tag = e.tag => x = e
  BY <1>3, <1>4 DEF Inv, TagsUnique
<1>6. QED BY <1>2, <1>4, <1>5

\* A frame that is to wait does not wait for a time that has passed.
LEMMA NotInThePast ==
  ASSUME Inv, NEW c \in PDCs, NEW ts \in Timestamps, ~ IsLate(c, ts)
  PROVE  LET time == IF IsComplete(c, ts) THEN now ELSE Deadline(c, ts)
         IN  time \in Nat /\ time + Jitter >= now
<1>1. /\ now \in Nat /\ timer[c] \in Nat /\ Jitter \in Nat /\ nb_aggregates[c] \in Nat
      /\ first_arrival[c][ts] \in Nat /\ last_arrival[c][ts] \in Nat
      /\ Len(payloads[c][ts]) \in Nat
  BY Constants DEF Inv, Typed, TypedClock, TypedHeld
<1>2. CASE IsComplete(c, ts)
  BY <1>1, <1>2
<1>3. CASE ~ IsComplete(c, ts) /\ IsFirst(c, ts)
  BY <1>1, <1>3 DEF Deadline
<1>4. CASE ~ IsComplete(c, ts) /\ ~ IsFirst(c, ts)
  <2>1. Begun(c, ts) /\ Deadline(c, ts) = first_arrival[c][ts] + timer[c]
    BY <1>4 DEF Begun, IsFirst, Deadline
  <2>2. PICK e \in sends : e.from = c /\ e.tag = send_events[c][ts]
    BY <2>1, OpenTimestamp
  <2>3. LeavesAt(c, ts, e.at) /\ e.at >= now
    BY <2>1, <2>2 DEF Inv, Waiting, Times
  <2>4. ~ (Len(payloads[c][ts]) + 1 >= nb_aggregates[c])
    BY <1>4 DEF IsComplete
  <2>5. e.at = first_arrival[c][ts] + timer[c] + Jitter
    BY <2>3, <2>4, <1>1 DEF LeavesAt
  <2>6. QED BY <1>1, <1>4, <2>1, <2>3, <2>5
<1>5. QED BY <1>2, <1>3, <1>4

LEMMA AcceptTimes ==
  ASSUME Inv, NEW a \in Concentrators, NEW ts \in Timestamps, NEW payload, Accept(a, ts, payload)
  PROVE  /\ first_arrival' \in [Concentrators -> [Timestamps -> Nat]]
         /\ last_arrival' \in [Concentrators -> [Timestamps -> Nat]]
         /\ first_arrival'[a][ts] = IF IsFirst(a, ts) THEN now ELSE first_arrival[a][ts]
         /\ last_arrival'[a][ts] = now
         /\ \A b \in Concentrators, us \in Timestamps : ~ (b = a /\ us = ts) =>
              /\ first_arrival'[b][us] = first_arrival[b][us]
              /\ last_arrival'[b][us] = last_arrival[b][us]
         /\ \A b \in Concentrators, us \in Timestamps :
              first_arrival'[b][us] <= last_arrival'[b][us] /\ last_arrival'[b][us] <= now
<1>1. /\ now \in Nat
      /\ first_arrival \in [Concentrators -> [Timestamps -> Nat]]
      /\ last_arrival \in [Concentrators -> [Timestamps -> Nat]]
  BY DEF Inv, Typed, TypedClock, TypedHeld
<1>2. /\ first_arrival' \in [Concentrators -> [Timestamps -> Nat]]
      /\ first_arrival'[a][ts] = IF IsFirst(a, ts) THEN now ELSE first_arrival[a][ts]
      /\ \A b \in Concentrators, us \in Timestamps : ~ (b = a /\ us = ts) =>
           first_arrival'[b][us] = first_arrival[b][us]
  <2>1. CASE IsFirst(a, ts)
    BY <1>1, <2>1 DEF Accept
  <2>2. CASE ~ IsFirst(a, ts)
    BY <1>1, <2>2 DEF Accept
  <2>3. QED BY <2>1, <2>2
<1>3. /\ last_arrival' \in [Concentrators -> [Timestamps -> Nat]]
      /\ last_arrival'[a][ts] = now
      /\ \A b \in Concentrators, us \in Timestamps : ~ (b = a /\ us = ts) =>
           last_arrival'[b][us] = last_arrival[b][us]
  BY <1>1 DEF Accept
<1>4. ASSUME NEW b \in Concentrators, NEW us \in Timestamps
      PROVE  first_arrival'[b][us] <= last_arrival'[b][us] /\ last_arrival'[b][us] <= now
  <2>1. /\ first_arrival[b][us] \in Nat /\ last_arrival[b][us] \in Nat
        /\ first_arrival[b][us] <= last_arrival[b][us] /\ last_arrival[b][us] <= now
    BY <1>1 DEF Inv, Times
  <2>2. CASE b = a /\ us = ts
    BY <1>1, <1>2, <1>3, <2>1, <2>2
  <2>3. CASE ~ (b = a /\ us = ts)
    BY <1>2, <1>3, <2>1, <2>3
  <2>4. QED BY <2>2, <2>3
<1>5. QED BY <1>2, <1>3, <1>4

LEMMA AcceptHeld ==
  ASSUME Inv, NEW a \in Concentrators, NEW ts \in Timestamps, NEW payload, Accept(a, ts, payload)
  PROVE  /\ DOMAIN payloads' = Concentrators
         /\ \A b \in Concentrators : DOMAIN payloads'[b] = Timestamps
         /\ payloads'[a][ts] = Append(payloads[a][ts], payload)
         /\ \A b \in Concentrators, us \in Timestamps :
              ~ (b = a /\ us = ts) => payloads'[b][us] = payloads[b][us]
<1>1. DOMAIN payloads = Concentrators /\ \A b \in Concentrators : DOMAIN payloads[b] = Timestamps
  BY DEF Inv, Typed, TypedHeld
<1> DEFINE more == Append(payloads[a][ts], payload)
<1>2. payloads' = [payloads EXCEPT ![a][ts] = more]
  BY DEF Accept
<1> HIDE DEF more
<1>3. /\ DOMAIN payloads' = Concentrators
      /\ \A b \in Concentrators : DOMAIN payloads'[b] = Timestamps
      /\ payloads'[a][ts] = more
      /\ \A b \in Concentrators, us \in Timestamps :
           ~ (b = a /\ us = ts) => payloads'[b][us] = payloads[b][us]
  BY <1>1, <1>2
<1>4. QED BY <1>3 DEF more

LEMMA PDCDoReadInv ==
  ASSUME Inv, NEW k \in network, HandleRead(k), ReadsMeasurement(k)
  PROVE  Inv'
<1>0. /\ network' = network \ {k} /\ UNCHANGED <<now, status, generate, frames, slow>>
      /\ k \in Items /\ k.to \in PDCs
  BY ReadCases DEF ReadsMeasurement
<1>1. PICK ts \in Timestamps : /\ Measured(k, ts) /\ ~ IsLate(k.to, ts)
                               /\ PDCDoRead(k, ts, Clean(k.from, ts))
  BY DEF ReadsMeasurement
<1>2. PICK c, p, n, payload, time, new, more, message :
        /\ c = k.to /\ p = k.from /\ n = m_next_tag_id[SPDC] /\ payload = Clean(p, ts)
        /\ time = IF IsComplete(c, ts) THEN now ELSE Deadline(c, ts)
        /\ new = SendAt(c, SPDC, time)
        /\ more = Append(payloads[c][ts], payload)
        /\ message = AddPadding(Aggregate(ts, more))
  OBVIOUS
<1>3. /\ c \in PDCs /\ c # SPDC /\ c \in Concentrators /\ SPDC \in Concentrators /\ c \in Apps
      /\ p \in PMUsOf(c) /\ p \in PMUs /\ c \notin PMUs
  BY <1>0, <1>2, ItemTypes, Constants DEF PMUsOf
<1>4. /\ n \in Nat /\ n \notin DOMAIN m_messages[SPDC] /\ DOMAIN m_messages = Concentrators
      /\ now \in Nat /\ Jitter \in Nat
  BY <1>2, <1>3, NextTagFree, Constants DEF Inv, Typed, TypedMaps, TypedClock
<1>5. time \in Nat /\ time + Jitter >= now
  BY <1>1, <1>2, <1>3, NotInThePast
<1>6. /\ new \in Call /\ new.from = c /\ new.to = SPDC /\ new.tag = n /\ new.at = time + Jitter
  <2>1. new = [from |-> c, to |-> SPDC, tag |-> n, at |-> time + Jitter]
    BY <1>2 DEF SendAt
  <2>2. QED BY <2>1, <1>3, <1>4, <1>5 DEF Call
<1>7. /\ Accept(c, ts, payload)
      /\ m_messages' = [m_messages EXCEPT ![c] = Erase(@, k.tag), ![SPDC] = Insert(@, n, message)]
      /\ NewTag(SPDC)
      /\ \A e : e \in sends' <=>
           \/ e \in sends /\ ~ (e.from = c /\ e.tag = send_events[c][ts] /\ Begun(c, ts))
           \/ e = new
      /\ send_events' = [send_events EXCEPT ![c][ts] = n]
      /\ UNCHANGED <<reads, delays>>
  <2>1. PDCDoRead(k, ts, payload)
    BY <1>1, <1>2
  <2>2. IsFirst(c, ts) <=> ~ Begun(c, ts)
    BY DEF IsFirst, Begun
  <2>3. QED BY <2>1, <2>2, <1>2 DEF PDCDoRead
\* What is held afterwards.
<1>8. /\ more \in Seq(Seq(Letters)) /\ more # <<>>
      /\ Len(more) = Len(payloads[c][ts]) + 1 /\ Len(payloads[c][ts]) \in Nat
      /\ DOMAIN more = DOMAIN payloads[c][ts] \cup {Len(payloads[c][ts]) + 1}
      /\ \A i \in DOMAIN payloads[c][ts] : more[i] = payloads[c][ts][i]
      /\ more[Len(payloads[c][ts]) + 1] = payload
  <2>1. payload \in Seq(Letters)
    BY <1>2, <1>3, CleanType
  <2>2. payloads[c][ts] \in Seq(Seq(Letters))
    BY <1>3 DEF Inv, Typed, TypedHeld
  <2>3. QED BY <2>1, <2>2, <1>2, Appended
<1>9. /\ DOMAIN payloads' = Concentrators
      /\ \A b \in Concentrators : DOMAIN payloads'[b] = Timestamps
      /\ payloads'[c][ts] = more
      /\ \A b \in Concentrators, us \in Timestamps :
           ~ (b = c /\ us = ts) => payloads'[b][us] = payloads[b][us]
  BY <1>2, <1>3, <1>7, AcceptHeld
<1>10. /\ Begun(c, ts)' /\ FrameOf(c, ts)' = message
       /\ \A b \in Concentrators, us \in Timestamps : ~ (b = c /\ us = ts) =>
            Begun(b, us)' = Begun(b, us) /\ FrameOf(b, us)' = FrameOf(b, us)
  <2>1. Begun(c, ts)'
    BY <1>8, <1>9 DEF Begun
  <2>2. FrameOf(c, ts)' = message
    BY <1>2, <1>9 DEF FrameOf
  <2>3. QED BY <2>1, <2>2, <1>9 DEF Begun, FrameOf
<1>11. /\ send_events' \in [Concentrators -> [Timestamps -> Nat]]
       /\ send_events'[c][ts] = n
       /\ \A b \in Concentrators, us \in Timestamps :
            ~ (b = c /\ us = ts) => send_events'[b][us] = send_events[b][us]
  <2>1. send_events \in [Concentrators -> [Timestamps -> Nat]]
    BY DEF Inv, Typed, TypedHeld
  <2>2. QED BY <2>1, <1>3, <1>4, <1>7
<1>12. /\ m_next_tag_id' \in [Concentrators -> Nat] /\ m_next_tag_id'[SPDC] = n + 1
       /\ \A a \in Concentrators : a # SPDC => m_next_tag_id'[a] = m_next_tag_id[a]
  BY <1>2, <1>3, <1>7 DEF NewTag, Inv, Typed, TypedMaps
\* What is under way afterwards.
<1>13. /\ DOMAIN m_messages' = Concentrators
       /\ m_messages'[c] = Erase(m_messages[c], k.tag)
       /\ m_messages'[SPDC] = Insert(m_messages[SPDC], n, message)
       /\ \A a \in Concentrators : a # c /\ a # SPDC => m_messages'[a] = m_messages[a]
  BY <1>3, <1>4, <1>7
<1>14. /\ DOMAIN m_messages'[SPDC] = DOMAIN m_messages[SPDC] \cup {n}
       /\ m_messages'[SPDC][n] = message
       /\ \A t \in DOMAIN m_messages[SPDC] : t # n /\ m_messages'[SPDC][t] = m_messages[SPDC][t]
  BY <1>4, <1>13 DEF Insert
<1>15. ASSUME NEW x \in Items', x # new
       PROVE  /\ x \in Items /\ x # k
              /\ x \in sends => x \in sends'
              /\ ~ (Begun(c, ts) /\ x.to = SPDC /\ x.tag = send_events[c][ts])
  <2>1. CASE x \in sends'
    <3>1. x \in sends /\ ~ (x.from = c /\ x.tag = send_events[c][ts] /\ Begun(c, ts))
      BY <1>7, <1>15, <2>1
    <3>2. x \in Items /\ x # k
      BY <3>1, CallIsNoPacket DEF Items
    <3>3. ASSUME Begun(c, ts), x.to = SPDC, x.tag = send_events[c][ts] PROVE FALSE
      <4>1. PICK e \in sends : /\ e.from = c /\ e.to = SPDC /\ e.tag = send_events[c][ts]
                               /\ \A z \in Items : z.to = SPDC /\ z.tag = e.tag => z = e
        BY <1>1, <1>2, <1>3, <3>3, OpenTimestamp
      <4>2. x = e
        BY <3>2, <3>3, <4>1
      <4>3. QED BY <3>1, <3>3, <4>1, <4>2
    <3>4. QED BY <2>1, <3>2, <3>3
  <2>2. CASE x \in network'
    <3>1. x \in network /\ x # k /\ x \in Items
      BY <1>0, <2>2 DEF Items
    <3>2. x \notin sends
      BY <3>1, CallIsNoPacket
    <3>3. ASSUME Begun(c, ts), x.to = SPDC, x.tag = send_events[c][ts] PROVE FALSE
      <4>1. PICK e \in sends : /\ e.from = c /\ e.to = SPDC /\ e.tag = send_events[c][ts]
                               /\ \A z \in Items : z.to = SPDC /\ z.tag = e.tag => z = e
        BY <1>1, <1>2, <1>3, <3>3, OpenTimestamp
      <4>2. x = e
        BY <3>1, <3>3, <4>1
      <4>3. QED BY <3>2, <4>2
    <3>4. QED BY <3>1, <3>2, <3>3
  <2>3. QED BY <2>1, <2>2 DEF Items
<1>16. new \in Items' /\ new \in sends' /\ new.tag \in DOMAIN m_messages'[SPDC] /\ Message(new)' = message
  BY <1>6, <1>7, <1>14 DEF Items, Message
<1>17. ASSUME NEW x \in Items', x # new
       PROVE  /\ x.tag \in DOMAIN m_messages'[x.to] /\ Message(x)' = Message(x)
              /\ ~ (x.to = new.to /\ x.tag = new.tag)
  <2>1. x \in Items /\ x # k /\ x.to \in Concentrators /\ x.tag \in DOMAIN m_messages[x.to]
    BY <1>15, <1>17, ItemTypes
  <2>2. CASE x.to = c
    BY <2>1, <2>2, <1>0, <1>2, <1>3, <1>6, <1>13, Erased DEF Message
  <2>3. CASE x.to = SPDC
    BY <2>1, <2>3, <1>6, <1>14 DEF Message
  <2>4. CASE x.to # c /\ x.to # SPDC
    BY <2>1, <2>4, <1>6, <1>13 DEF Message
  <2>5. QED BY <2>2, <2>3, <2>4
<1>18. TagsUnique'
  <2>1. \A x \in Items' : x.tag \in DOMAIN m_messages'[x.to]
    BY <1>6, <1>16, <1>17
  <2>2. \A x, y \in Items' : x.to = y.to /\ x.tag = y.tag => x = y
    BY <1>15, <1>17 DEF Inv, TagsUnique
  <2>3. QED BY <2>1, <2>2 DEF TagsUnique
<1>19. Directed'
  BY <1>3, <1>6, <1>15 DEF Inv, Contents, Directed
<1>20. MeasurementsUnderWay'
  <2>1. ASSUME NEW x \in Items', x.to \in PDCs PROVE \E us \in Timestamps : Measured(x, us)'
    <3>1. x # new /\ x \in Items /\ x # k
      BY <2>1, <1>6, <1>15, Constants
    <3>2. PICK us \in Timestamps : Measured(x, us)
      BY <2>1, <3>1 DEF Inv, Contents, MeasurementsUnderWay
    <3>3. x.from \in PMUs /\ x.to \in Concentrators
      BY <2>1, <3>1, ItemTypes, Constants
    <3>4. ASSUME NEW i \in DOMAIN payloads'[x.to][us]
          PROVE  payloads'[x.to][us][i] # Clean(x.from, us)
      <4>1. CASE ~ (x.to = c /\ us = ts)
        BY <4>1, <3>2, <3>3, <3>4, <1>9 DEF Measured
      <4>2. CASE x.to = c /\ us = ts
        <5>1. CASE i \in DOMAIN payloads[c][ts]
          BY <4>2, <5>1, <3>2, <1>8, <1>9 DEF Measured
        <5>2. CASE payloads'[x.to][us][i] = payload
          <6>1. ASSUME x.from = p PROVE FALSE
            <7>1. Message(x) = Text(p, ts) /\ Message(k) = Text(p, ts)
              BY <1>1, <1>2, <3>2, <4>2, <6>1 DEF Measured
            <7>2. x = k
              BY <7>1, <6>1, <2>1, <3>1, <1>0, <1>2 DEF Inv, Contents, MeasurementsUnderWay
            <7>3. QED BY <7>2, <3>1
          <6>2. QED BY <5>2, <6>1, <4>2, <3>3, <1>2, <1>3, CleanTells
        <5>3. QED BY <5>1, <5>2, <4>2, <3>4, <1>8, <1>9
      <4>3. QED BY <4>1, <4>2
    <3>5. Measured(x, us)'
      BY <3>1, <3>2, <3>4, <1>0, <1>17 DEF Measured
    <3>6. QED BY <3>5
  <2>2. ASSUME NEW x \in Items', NEW y \in Items',
               x.to \in PDCs, x.from = y.from, Message(x)' = Message(y)'
        PROVE  x = y
    <3>1. x # new
      BY <2>2, <1>6, Constants
    <3>2. x \in Items /\ x.from \in PMUs
      BY <2>2, <3>1, <1>15, ItemTypes, Constants
    <3>3. y # new
      BY <2>2, <3>2, <1>3, <1>6
    <3>4. QED BY <2>2, <3>1, <3>3, <1>15, <1>17 DEF Inv, Contents, MeasurementsUnderWay
  <2>3. QED BY <2>1, <2>2 DEF MeasurementsUnderWay
<1>21. FramesUnderWay'
  <2> SUFFICES ASSUME NEW x \in Items', x.to = SPDC PROVE \E us \in Timestamps : IsFrameOf(x, us)'
    BY DEF FramesUnderWay
  <2>1. CASE x = new
    <3>1. IsFrameOf(new, ts)'
      BY <1>6, <1>10, <1>11, <1>16 DEF IsFrameOf
    <3>2. QED BY <2>1, <3>1
  <2>2. CASE x # new
    <3>1. x \in Items /\ ~ (Begun(c, ts) /\ x.tag = send_events[c][ts])
      BY <2>2, <1>15
    <3>2. PICK us \in Timestamps : IsFrameOf(x, us)
      BY <3>1 DEF Inv, Contents, FramesUnderWay
    <3>3. ~ (x.from = c /\ us = ts) /\ x.from \in Concentrators
      BY <3>1, <3>2, ItemTypes, Constants DEF IsFrameOf
    <3>4. IsFrameOf(x, us)'
      BY <2>2, <3>2, <3>3, <1>10, <1>11, <1>17 DEF IsFrameOf
    <3>5. QED BY <3>4
  <2>3. QED BY <2>1, <2>2
<1>22. \A d \in PDCs, us \in Timestamps : Begun(d, us) => send_events[d][us] \in Nat /\ send_events[d][us] < n
  <2>1. PDCs \subseteq Concentrators
    BY Constants
  <2>2. QED BY <2>1, <1>2 DEF Inv, Typed, TypedHeld, Contents, EventsUnique
<1>23. EventsUnique'
  <2>0. PDCs \subseteq Concentrators
    BY Constants
  <2>1. ASSUME NEW d \in PDCs, NEW us \in Timestamps, Begun(d, us)'
        PROVE  /\ send_events'[d][us] < n + 1
               /\ ~ (d = c /\ us = ts) => /\ Begun(d, us) /\ send_events'[d][us] = send_events[d][us]
                                         /\ send_events'[d][us] # n
    <3>1. CASE d = c /\ us = ts
      BY <3>1, <1>4, <1>11
    <3>2. CASE ~ (d = c /\ us = ts)
      <4>1. Begun(d, us) /\ send_events'[d][us] = send_events[d][us]
        BY <2>0, <2>1, <3>2, <1>10, <1>11
      <4>2. QED BY <4>1, <1>4, <1>22
    <3>3. QED BY <3>1, <3>2
  <2>2. ASSUME NEW d \in PDCs, NEW b \in PDCs, NEW us \in Timestamps, NEW vs \in Timestamps,
               Begun(d, us)', Begun(b, vs)', send_events'[d][us] = send_events'[b][vs]
        PROVE  d = b /\ us = vs
    <3>1. CASE d = c /\ us = ts
      BY <3>1, <2>1, <2>2, <1>11
    <3>2. CASE b = c /\ vs = ts
      BY <3>2, <2>1, <2>2, <1>11
    <3>3. CASE ~ (d = c /\ us = ts) /\ ~ (b = c /\ vs = ts)
      BY <3>3, <2>1, <2>2 DEF Inv, Contents, EventsUnique
    <3>4. QED BY <3>1, <3>2, <3>3
  <2>3. QED BY <2>1, <2>2, <1>12 DEF EventsUnique
<1>24. PDCHolds'
  <2> SUFFICES ASSUME NEW d \in PDCs, NEW us \in Timestamps
               PROVE  /\ \A i \in DOMAIN payloads'[d][us] :
                           \E q \in PMUsOf(d) : payloads'[d][us][i] = Clean(q, us) /\ us < generate[q]
                      /\ \A i, j \in DOMAIN payloads'[d][us] :
                           payloads'[d][us][i] = payloads'[d][us][j] => i = j
    BY <1>0 DEF PDCHolds
  <2>0. d \in Concentrators
    BY Constants
  <2>1. /\ \A i \in DOMAIN payloads[d][us] :
             \E q \in PMUsOf(d) : payloads[d][us][i] = Clean(q, us) /\ us < generate[q]
        /\ \A i, j \in DOMAIN payloads[d][us] : payloads[d][us][i] = payloads[d][us][j] => i = j
    BY DEF Inv, Contents, PDCHolds
  <2>2. CASE ~ (d = c /\ us = ts)
    BY <2>0, <2>1, <2>2, <1>9
  <2>3. CASE d = c /\ us = ts
    <3>1. payload = Clean(p, ts) /\ ts < generate[p] /\ p \in PMUsOf(c)
          /\ \A i \in DOMAIN payloads[c][ts] : payloads[c][ts][i] # payload
      BY <1>1, <1>2, <1>3 DEF Measured
    <3>2. ASSUME NEW i \in DOMAIN more
          PROVE  \E q \in PMUsOf(c) : more[i] = Clean(q, ts) /\ ts < generate[q]
      <4>1. CASE i \in DOMAIN payloads[c][ts]
        BY <4>1, <2>1, <2>3, <1>8
      <4>2. CASE i = Len(payloads[c][ts]) + 1
        BY <4>2, <3>1, <1>8
      <4>3. QED BY <4>1, <4>2, <3>2, <1>8
    <3>3. \A i, j \in DOMAIN more : more[i] = more[j] => i = j
      BY <3>1, <2>1, <2>3, <1>8
    <3>4. QED BY <3>2, <3>3, <2>3, <1>9
  <2>4. QED BY <2>2, <2>3
<1>25. SPDCHolds'
  <2>1. ASSUME NEW d \in PDCs, NEW us \in Timestamps, Gone(d, us)
        PROVE  Gone(d, us)' /\ payloads'[d][us] = payloads[d][us]
    <3>1. ~ (d = c /\ us = ts)
      <4>1. ASSUME d = c, us = ts PROVE FALSE
        <5>1. PICK e \in sends : e.to = SPDC /\ e.tag = send_events[c][ts]
          BY <2>1, <4>1, <1>1, <1>2, OpenTimestamp DEF Gone
        <5>2. e \in Items
          BY DEF Items
        <5>3. QED BY <2>1, <4>1, <5>1, <5>2 DEF Gone
      <4>2. QED BY <4>1
    <3>2. d \in Concentrators
      BY Constants
    <3>3. /\ Begun(d, us) /\ Begun(d, us)' /\ send_events'[d][us] = send_events[d][us]
          /\ send_events[d][us] # n /\ payloads'[d][us] = payloads[d][us]
      BY <2>1, <3>1, <3>2, <1>4, <1>9, <1>10, <1>11, <1>22 DEF Gone
    <3>4. \A x \in Items' : ~ (x.to = SPDC /\ x.tag = send_events'[d][us])
      BY <2>1, <3>3, <1>6, <1>15 DEF Gone
    <3>5. QED BY <3>3, <3>4 DEF Gone
  <2>2. \A us \in Timestamps : payloads'[SPDC][us] = payloads[SPDC][us]
    BY <1>3, <1>9
  <2>3. ASSUME NEW us \in Timestamps
        PROVE  \E from \in Injection(DOMAIN payloads'[SPDC][us], PDCs) : Reflects(from, us)'
    <3>1. PICK from \in Injection(DOMAIN payloads[SPDC][us], PDCs) : Reflects(from, us)
      BY DEF Inv, Contents, SPDCHolds
    <3>2. \A i \in DOMAIN payloads[SPDC][us] : from[i] \in PDCs
      BY <3>1 DEF Injection
    <3>3. Reflects(from, us)'
      BY <2>1, <2>2, <3>1, <3>2 DEF Reflects
    <3>4. QED BY <3>1, <3>3, <2>2
  <2>4. QED BY <2>3 DEF SPDCHolds
<1>26. Contents'
  BY <1>19, <1>20, <1>21, <1>23, <1>24, <1>25 DEF Contents
\* Types and times.
<1>27. /\ first_arrival' \in [Concentrators -> [Timestamps -> Nat]]
       /\ last_arrival' \in [Concentrators -> [Timestamps -> Nat]]
       /\ first_arrival'[c][ts] = IF IsFirst(c, ts) THEN now ELSE first_arrival[c][ts]
       /\ last_arrival'[c][ts] = now
       /\ \A b \in Concentrators, us \in Timestamps : ~ (b = c /\ us = ts) =>
            /\ first_arrival'[b][us] = first_arrival[b][us]
            /\ last_arrival'[b][us] = last_arrival[b][us]
       /\ \A b \in Concentrators, us \in Timestamps :
            first_arrival'[b][us] <= last_arrival'[b][us] /\ last_arrival'[b][us] <= now
  BY <1>3, <1>7, AcceptTimes
<1>28. Typed'
  <2>1. TypedItems'
    BY <1>0, <1>6, <1>7 DEF Inv, Typed, TypedItems
  <2>2. TypedMaps'
    <3>1. DOMAIN m_messages[SPDC] \subseteq 0 .. (n - 1)
      BY <1>2, <1>3 DEF Inv, Typed, TypedMaps
    <3>2. DOMAIN m_messages'[SPDC] \subseteq 0 .. ((n + 1) - 1)
      BY <3>1, <1>4, <1>14
    <3>3. DOMAIN m_messages'[c] \subseteq DOMAIN m_messages[c]
      BY <1>13 DEF Erase, Restrict
    <3>4. QED BY <3>2, <3>3, <1>3, <1>12, <1>13 DEF Inv, Typed, TypedMaps
  <2>3. TypedHeld'
    <3>1. \A d \in PDCs, us \in Timestamps : payloads'[d][us] \in Seq(Seq(Letters))
      BY <1>8, <1>9, Constants DEF Inv, Typed, TypedHeld
    <3>2. \A us \in Timestamps : payloads'[SPDC][us] \in Seq(Seq(Characters))
      BY <1>3, <1>9 DEF Inv, Typed, TypedHeld
    <3>3. QED BY <3>1, <3>2, <1>9, <1>11, <1>27 DEF TypedHeld
  <2>4. QED BY <1>0, <1>7, <2>1, <2>2, <2>3, TypedUnchanged DEF Inv, Typed
<1>29. Times'
  BY <1>0, <1>5, <1>6, <1>7, <1>27 DEF Inv, Times
<1>30. Waiting'
  <2> SUFFICES ASSUME NEW e \in sends', NEW us \in Timestamps, e.from \in PDCs,
                      Begun(e.from, us)', e.tag = send_events'[e.from][us]
               PROVE  LeavesAt(e.from, us, e.at)'
    BY DEF Waiting
  <2>0. e.from \in Concentrators
    BY Constants
  <2>1. CASE e.from = c /\ us = ts
    <3>1. e = new
      <4>1. ASSUME e # new PROVE FALSE
        <5>1. e \in Items' /\ e \in Items
          BY <4>1, <1>15 DEF Items
        <5>2. e.to = SPDC
          BY <5>1, ItemTypes, Constants
        <5>3. QED BY <2>1, <4>1, <5>1, <5>2, <1>6, <1>11, <1>17
      <4>2. QED BY <4>1
    <3>2. CASE IsComplete(c, ts)
      <4>1. Len(payloads'[c][ts]) >= nb_aggregates[c]
        BY <3>2, <1>8, <1>9 DEF IsComplete
      <4>2. e.at <= last_arrival'[c][ts] + Jitter
        BY <3>1, <3>2, <1>2, <1>4, <1>6, <1>27
      <4>3. QED BY <2>1, <4>1, <4>2 DEF LeavesAt
    <3>3. CASE ~ IsComplete(c, ts)
      <4>1. e.at = first_arrival'[c][ts] + timer[c] + Jitter
        BY <3>1, <3>3, <1>2, <1>6, <1>27 DEF Deadline
      <4>2. QED BY <2>1, <4>1 DEF LeavesAt
    <3>4. QED BY <3>2, <3>3
  <2>2. CASE ~ (e.from = c /\ us = ts)
    <3>1. Begun(e.from, us) /\ e.tag = send_events[e.from][us]
      BY <2>0, <2>2, <1>10, <1>11
    <3>2. e # new
      BY <3>1, <1>6, <1>22
    <3>3. e \in sends
      BY <3>2, <1>7
    <3>4. LeavesAt(e.from, us, e.at)
      BY <3>1, <3>3 DEF Inv, Waiting
    <3>5. QED BY <3>4, <2>0, <2>2, <1>9, <1>27 DEF LeavesAt
  <2>3. QED BY <2>1, <2>2
<1>31. Left'
  <2> SUFFICES ASSUME NEW d \in PDCs, NEW us \in Timestamps, Begun(d, us)'
               PROVE  Waits(d, us)' \/ HasLeft(d, us)' \/ IsLost(d, us)'
    BY DEF Left
  <2>0. d \in Concentrators
    BY Constants
  <2>1. CASE d = c /\ us = ts
    BY <2>1, <1>6, <1>11, <1>16 DEF Waits
  <2>2. CASE ~ (d = c /\ us = ts)
    <3>1. Begun(d, us) /\ send_events'[d][us] = send_events[d][us]
      BY <2>0, <2>2, <1>10, <1>11
    <3>2. Waits(d, us) => Waits(d, us)'
      <4>1. ASSUME NEW e \in sends, e.from = d, e.tag = send_events[d][us] PROVE Waits(d, us)'
        <5>1. ~ (e.from = c /\ e.tag = send_events[c][ts] /\ Begun(c, ts))
          BY <2>2, <3>1, <4>1, <1>3 DEF Inv, Contents, EventsUnique
        <5>2. e \in sends'
          BY <5>1, <1>7
        <5>3. QED BY <3>1, <4>1, <5>2 DEF Waits
      <4>2. QED BY <4>1 DEF Waits
    <3>3. HasLeft(d, us)' = HasLeft(d, us)
      BY <1>0 DEF HasLeft
    <3>4. IsLost(d, us)' = IsLost(d, us)
      BY <2>0, <2>2, <1>0, <1>27 DEF IsLost
    <3>5. QED BY <3>1, <3>2, <3>3, <3>4 DEF Inv, Left
  <2>3. QED BY <2>1, <2>2
<1>32. QED BY <1>18, <1>26, <1>28, <1>29, <1>30, <1>31 DEF Inv

(***************************************************************************)
(* A frame reaches the SPDC.                                               *)
(***************************************************************************)
LEMMA LoggedArePMUs ==
  ASSUME Inv, NEW c \in PDCs, NEW ts \in Timestamps, NEW text, Lines(text) = payloads[c][ts]
  PROVE  LoggedNames(text) \subseteq PMUNames
<1> SUFFICES ASSUME NEW n \in 2 .. Len(Lines(text)) PROVE NamesIn(text)[n] \in PMUNames
  BY DEF LoggedNames
<1>1. payloads[c][ts] \in Seq(Seq(Letters))
  BY DEF Inv, Typed, TypedHeld
<1>2. n \in DOMAIN payloads[c][ts] /\ n \in DOMAIN Lines(text)
  <2> DEFINE held == payloads[c][ts]
  <2>1. held \in Seq(Seq(Letters)) /\ n \in 2 .. Len(held)
    BY <1>1
  <2> HIDE DEF held
  <2>2. n \in DOMAIN held
    BY <2>1
  <2>3. QED BY <2>2 DEF held
<1>3. PICK p \in PMUsOf(c) : payloads[c][ts][n] = Clean(p, ts)
  BY <1>2 DEF Inv, Contents, PDCHolds
<1>4. p \in PMUs
  BY <1>3 DEF PMUsOf
<1>5. NamesIn(text)[n] = NameIn(Lines(text)[n])
  BY <1>2 DEF NamesIn
<1>6. NamesIn(text)[n] = PMUName(p)
  BY <1>3, <1>4, <1>5, TextReads
<1>7. QED BY <1>4, <1>6 DEF PMUNames

LEMMA SPDCDoReadInv ==
  ASSUME Inv, NEW k \in network, HandleRead(k), ReadsFrame(k)
  PROVE  Inv'
<1>0. /\ network' = network \ {k} /\ UNCHANGED <<now, status, generate, frames, slow>>
      /\ k \in Items /\ k.to = SPDC
  BY ReadCases DEF ReadsFrame
<1>1. PICK ts \in Timestamps, text \in Seq(Characters) :
        /\ IsFrameOf(k, ts) /\ ~ IsLate(SPDC, ts)
        /\ Lines(text) = payloads[k.from][ts]
        /\ SPDCDoRead(k, ts, text)
  BY DEF ReadsFrame
<1>2. PICK c, held, more, size, delay :
        /\ c = k.from /\ held = payloads[SPDC][ts] /\ more = Append(held, text)
        /\ size = Len(held) + 1
        /\ delay = IF IsComplete(SPDC, ts) THEN 0 ELSE Deadline(SPDC, ts)
  OBVIOUS
<1>3. c \in PDCs /\ c # SPDC /\ c \in Concentrators /\ SPDC \in Concentrators /\ PDCs \subseteq Concentrators
  BY <1>0, <1>2, ItemTypes, Constants
<1>4. /\ Accept(SPDC, ts, text) /\ LogDelays(ts, LoggedNames(text))
      /\ reads' = {e \in reads : e.ts # ts \/ e.size # send_events[SPDC][ts]} \cup
                    {[ts |-> ts, size |-> size, at |-> now + delay]}
      /\ send_events' = [send_events EXCEPT ![SPDC][ts] = size]
      /\ m_messages' = [m_messages EXCEPT ![SPDC] = Erase(@, k.tag)]
      /\ UNCHANGED <<m_next_tag_id, sends>>
  BY <1>1, <1>2 DEF SPDCDoRead
<1>5. /\ now \in Nat /\ delay \in Nat /\ size \in Nat
      /\ held \in Seq(Seq(Characters)) /\ DOMAIN m_messages = Concentrators
  <2>1. now \in Nat /\ first_arrival[SPDC][ts] \in Nat /\ timer[SPDC] \in Nat
    BY <1>3, Constants DEF Inv, Typed, TypedClock, TypedHeld
  <2>2. held \in Seq(Seq(Characters)) /\ DOMAIN m_messages = Concentrators
    BY <1>2 DEF Inv, Typed, TypedHeld, TypedMaps
  <2>3. Len(held) \in Nat
    BY <2>2
  <2>4. QED BY <2>1, <2>2, <2>3, <1>2 DEF Deadline
<1>6. /\ more \in Seq(Seq(Characters)) /\ Len(held) \in Nat
      /\ DOMAIN more = DOMAIN held \cup {size} /\ size \notin DOMAIN held
      /\ \A i \in DOMAIN held : more[i] = held[i]
      /\ more[size] = text
  BY <1>2, <1>5, Appended
<1>7. /\ DOMAIN payloads' = Concentrators
      /\ \A b \in Concentrators : DOMAIN payloads'[b] = Timestamps
      /\ payloads'[SPDC][ts] = more
      /\ \A b \in Concentrators, us \in Timestamps :
           ~ (b = SPDC /\ us = ts) => payloads'[b][us] = payloads[b][us]
  BY <1>2, <1>3, <1>4, AcceptHeld
<1>8. /\ send_events' \in [Concentrators -> [Timestamps -> Nat]]
      /\ \A b \in PDCs, us \in Timestamps : send_events'[b][us] = send_events[b][us]
  <2>1. send_events \in [Concentrators -> [Timestamps -> Nat]]
    BY DEF Inv, Typed, TypedHeld
  <2>2. QED BY <2>1, <1>3, <1>4, <1>5, Constants
<1>9. \A d \in PDCs, us \in Timestamps :
        /\ payloads'[d][us] = payloads[d][us]
        /\ Begun(d, us)' = Begun(d, us) /\ FrameOf(d, us)' = FrameOf(d, us)
  <2>1. \A d \in PDCs, us \in Timestamps : payloads'[d][us] = payloads[d][us]
    BY <1>3, <1>7, Constants
  <2>2. QED BY <2>1 DEF Begun, FrameOf
<1>10. \A x \in Items' : x \in Items /\ x # k
  BY <1>0, <1>4, CallIsNoPacket DEF Items
<1>11. ASSUME NEW x \in Items'
       PROVE  x.tag \in DOMAIN m_messages'[x.to] /\ Message(x)' = Message(x)
  <2>1. x \in Items /\ x # k /\ x.to \in Concentrators /\ x.tag \in DOMAIN m_messages[x.to]
    BY <1>10, ItemTypes
  <2>2. CASE x.to = SPDC
    <3>1. m_messages'[SPDC] = Erase(m_messages[SPDC], k.tag)
      BY <1>3, <1>4, <1>5
    <3>2. QED BY <2>1, <2>2, <3>1, <1>0, Erased DEF Message
  <2>3. CASE x.to # SPDC
    BY <2>1, <2>3, <1>4, <1>5 DEF Message
  <2>4. QED BY <2>2, <2>3
<1>12. TagsUnique'
  BY <1>10, <1>11 DEF Inv, TagsUnique
<1>13. Directed'
  BY <1>10 DEF Inv, Contents, Directed
<1>14. MeasurementsUnderWay'
  <2>1. ASSUME NEW x \in Items', x.to \in PDCs PROVE \E us \in Timestamps : Measured(x, us)'
    <3>1. PICK us \in Timestamps : Measured(x, us)
      BY <2>1, <1>10 DEF Inv, Contents, MeasurementsUnderWay
    <3>2. Measured(x, us)'
      BY <2>1, <3>1, <1>0, <1>9, <1>11 DEF Measured
    <3>3. QED BY <3>2
  <2>2. QED BY <2>1, <1>10, <1>11 DEF Inv, Contents, MeasurementsUnderWay
<1>15. FramesUnderWay'
  <2> SUFFICES ASSUME NEW x \in Items', x.to = SPDC PROVE \E us \in Timestamps : IsFrameOf(x, us)'
    BY DEF FramesUnderWay
  <2>1. PICK us \in Timestamps : IsFrameOf(x, us)
    BY <1>10 DEF Inv, Contents, FramesUnderWay
  <2>2. x.from \in PDCs
    BY <1>10, ItemTypes, Constants
  <2>3. IsFrameOf(x, us)'
    BY <2>1, <2>2, <1>8, <1>9, <1>11 DEF IsFrameOf
  <2>4. QED BY <2>3
<1>16. EventsUnique'
  BY <1>4, <1>8, <1>9 DEF Inv, Contents, EventsUnique
<1>17. PDCHolds'
  BY <1>0, <1>9 DEF Inv, Contents, PDCHolds
<1>18. ASSUME NEW d \in PDCs, NEW us \in Timestamps, Gone(d, us)
       PROVE  Gone(d, us)'
  BY <1>8, <1>9, <1>10, <1>18 DEF Gone
<1>19. SPDCHolds'
  <2> SUFFICES ASSUME NEW us \in Timestamps
               PROVE  \E from \in Injection(DOMAIN payloads'[SPDC][us], PDCs) : Reflects(from, us)'
    BY DEF SPDCHolds
  <2>1. PICK from \in Injection(DOMAIN payloads[SPDC][us], PDCs) : Reflects(from, us)
    BY DEF Inv, Contents, SPDCHolds
  <2>2. \A i \in DOMAIN payloads[SPDC][us] :
          from[i] \in PDCs /\ Gone(from[i], us)' /\ payloads'[from[i]][us] = payloads[from[i]][us]
    BY <2>1, <1>9, <1>18 DEF Injection, Reflects
  <2>3. CASE us # ts
    <3>1. payloads'[SPDC][us] = payloads[SPDC][us]
      BY <2>3, <1>3, <1>7
    <3>2. Reflects(from, us)'
      BY <2>1, <2>2, <3>1 DEF Reflects
    <3>3. QED BY <2>1, <3>1, <3>2
  <2>4. CASE us = ts
    <3>1. DOMAIN payloads'[SPDC][ts] = DOMAIN held \cup {size} /\ payloads[SPDC][ts] = held
      BY <1>2, <1>6, <1>7
    <3> DEFINE all == [i \in DOMAIN held \cup {size} |-> IF i = size THEN c ELSE from[i]]
    <3>2. Begun(c, ts) /\ k.tag = send_events[c][ts]
      BY <1>1, <1>2 DEF IsFrameOf
    <3>3. \A i \in DOMAIN held : from[i] # c /\ from[i] \in PDCs
      BY <2>1, <2>2, <2>4, <3>1, <3>2, <1>0 DEF Reflects, Gone
    <3>4. Gone(c, ts)'
      <4>1. \A x \in Items' : ~ (x.to = SPDC /\ x.tag = k.tag)
        BY <1>0, <1>10 DEF Inv, TagsUnique
      <4>2. QED BY <3>2, <4>1, <1>3, <1>8, <1>9 DEF Gone
    <3>5. /\ all \in [DOMAIN held \cup {size} -> PDCs]
          /\ \A i, j \in DOMAIN held : from[i] = from[j] => i = j
      BY <2>1, <2>4, <3>1, <3>3, <1>3 DEF Injection, IsInjective
    <3>6. all \in Injection(DOMAIN held \cup {size}, PDCs)
      BY <3>3, <3>5, <1>6 DEF Injection, IsInjective
    <3>7. ASSUME NEW i \in DOMAIN held \cup {size}
          PROVE  Gone(all[i], ts)' /\ Lines(more[i]) = payloads'[all[i]][ts]
      <4>1. CASE i = size
        BY <4>1, <3>4, <1>1, <1>2, <1>3, <1>6, <1>9
      <4>2. CASE i \in DOMAIN held
        BY <4>2, <2>1, <2>2, <2>4, <3>1, <1>6 DEF Reflects
      <4>3. QED BY <4>1, <4>2
    <3> HIDE DEF all
    <3>8. Reflects(all, ts)'
      BY <3>1, <3>7, <1>7 DEF Reflects
    <3>9. QED BY <2>4, <3>1, <3>6, <3>8
  <2>5. QED BY <2>3, <2>4
<1>20. Contents'
  BY <1>13, <1>14, <1>15, <1>16, <1>17, <1>19 DEF Contents
<1>21. /\ first_arrival' \in [Concentrators -> [Timestamps -> Nat]]
       /\ last_arrival' \in [Concentrators -> [Timestamps -> Nat]]
       /\ \A b \in Concentrators, us \in Timestamps : ~ (b = SPDC /\ us = ts) =>
            /\ first_arrival'[b][us] = first_arrival[b][us]
            /\ last_arrival'[b][us] = last_arrival[b][us]
       /\ \A b \in Concentrators, us \in Timestamps :
            first_arrival'[b][us] <= last_arrival'[b][us] /\ last_arrival'[b][us] <= now
  BY <1>3, <1>4, AcceptTimes
<1>22. Typed'
  <2>1. TypedItems'
    BY <1>0, <1>4 DEF Inv, Typed, TypedItems
  <2>2. TypedMaps'
    <3>1. /\ DOMAIN m_messages' = Concentrators
          /\ m_messages'[SPDC] = Erase(m_messages[SPDC], k.tag)
          /\ \A a \in Concentrators : a # SPDC => m_messages'[a] = m_messages[a]
      BY <1>3, <1>4, <1>5
    <3>2. DOMAIN m_messages'[SPDC] \subseteq DOMAIN m_messages[SPDC]
      BY <3>1 DEF Erase, Restrict
    <3>3. QED BY <3>1, <3>2, <1>3, <1>4 DEF Inv, Typed, TypedMaps
  <2>3. TypedHeld'
    <3>1. \A d \in PDCs, us \in Timestamps : payloads'[d][us] \in Seq(Seq(Letters))
      BY <1>9 DEF Inv, Typed, TypedHeld
    <3>2. \A us \in Timestamps : payloads'[SPDC][us] \in Seq(Seq(Characters))
      BY <1>3, <1>6, <1>7 DEF Inv, Typed, TypedHeld
    <3>3. QED BY <3>1, <3>2, <1>7, <1>8, <1>21 DEF TypedHeld
  <2>4. TypedReads'
    <3>1. reads' \subseteq Read
      BY <1>4, <1>5 DEF Inv, Typed, TypedReads, Read
    <3>2. LoggedNames(text) \subseteq PMUNames
      BY <1>1, <1>2, <1>3, LoggedArePMUs
    <3>3. DOMAIN delays' = Timestamps /\ \A us \in Timestamps : DOMAIN delays'[us] \subseteq PMUNames
      BY <3>2, <1>4 DEF LogDelays, Inv, Typed, TypedReads
    <3>4. QED BY <3>1, <3>3, <1>0 DEF Inv, Typed, TypedReads
  <2>5. QED BY <1>0, <2>1, <2>2, <2>3, <2>4, TypedUnchanged DEF Inv, Typed
<1>23. Times'
  BY <1>0, <1>4, <1>5, <1>21 DEF Inv, Times
<1>24. \A d \in PDCs, us \in Timestamps :
         first_arrival'[d][us] = first_arrival[d][us] /\ last_arrival'[d][us] = last_arrival[d][us]
  BY <1>3, <1>21, Constants
<1>25. Waiting'
  BY <1>4, <1>8, <1>9, <1>24 DEF Inv, Waiting, LeavesAt
<1>26. Left'
  <2>1. \A d \in PDCs, us \in Timestamps : /\ Waits(d, us)' = Waits(d, us)
                                           /\ HasLeft(d, us)' = HasLeft(d, us)
                                           /\ IsLost(d, us)' = IsLost(d, us)
    BY <1>0, <1>4, <1>8, <1>24 DEF Waits, HasLeft, IsLost
  <2>2. QED BY <2>1, <1>9 DEF Inv, Left
<1>27. QED BY <1>12, <1>20, <1>22, <1>23, <1>25, <1>26 DEF Inv

(***************************************************************************)
(* Every step.                                                             *)
(***************************************************************************)
LEMMA NextInv == Inv /\ [Next]_vars => Inv'
<1> SUFFICES ASSUME Inv, [Next]_vars PROVE Inv'
  OBVIOUS
<1>1. CASE StopApplications
  BY <1>1, StopInv
<1>2. ASSUME NEW p \in PMUs, GenerateMeasurement(p) PROVE Inv'
  BY <1>2, GenerateInv
<1>3. ASSUME NEW e \in sends, SendTo(e) PROVE Inv'
  BY <1>3, SendToInv
<1>4. ASSUME NEW e \in reads, ReadPayloads(e) PROVE Inv'
  BY <1>4, ReadPayloadsInv
<1>5. ASSUME NEW k \in network, HandleRead(k) PROVE Inv'
  BY <1>5, ReadCases, DiscardInv, PDCDoReadInv, SPDCDoReadInv
<1>6. ASSUME NEW k \in network, Lose(k) PROVE Inv'
  BY <1>6, LoseInv
<1>7. CASE Tick
  BY <1>7, TickInv
<1>8. CASE UNCHANGED vars
  <2>1. TagsUnique' /\ Contents'
    BY <1>8, ItemsUnchanged DEF vars
  <2>2. Typed'
    BY <1>8, TypedUnchanged DEF vars, Inv, Typed
  <2>3. Waiting' /\ Left'
    BY <1>8, FramesUnchanged DEF vars
  <2>4. Times'
    BY <1>8 DEF vars, Inv, Times
  <2>5. QED BY <2>1, <2>2, <2>3, <2>4 DEF Inv
<1>9. QED
  BY <1>1, <1>2, <1>3, <1>4, <1>5, <1>6, <1>7, <1>8 DEF Next, Event, Transport, Finished

LEMMA Invariant == Spec => []Inv
<1>1. Init => Inv
  BY InitInv
<1>2. Inv /\ [Next]_vars => Inv'
  BY NextInv
<1>3. QED BY <1>1, <1>2, PTL DEF Spec

(***************************************************************************)
(* The parts in the whole: what a concentrator assumes of those who send   *)
(* to it.                                                                  *)
(***************************************************************************)
\* What is under way to a PDC has not been heard, and is not of the future.
Unheard ==
  \A x \in Items, ts \in Timestamps :
    x.to \in PDCs /\ Message(x) = Text(x.from, ts) =>
      <<ts, PMUName(x.from)>> \notin arrived[x.to] /\ ts <= now

\* What is still to be measured has not been heard.
HeardBefore ==
  \A p \in PMUs, ts \in Timestamps :
    <<ts, PMUName(p)>> \in arrived[Target[p]] => ts < generate[p]

\* A frame that the SPDC has heard will not come again.
HeardOnce ==
  \A c \in PDCs, ts \in Timestamps : <<ts, c>> \in arrived[SPDC] => Gone(c, ts)

InTime ==
  /\ \A c \in PDCs, ts \in Timestamps : Begun(c, ts) => ts <= now
  /\ \A e \in reads : Begun(SPDC, e.ts)

Surroundings ==
  DOMAIN arrived = Concentrators /\ Unheard /\ HeardBefore /\ HeardOnce /\ InTime

\* A step that only moves what is under way, or time.
Quiet ==
  /\ UNCHANGED <<generate, m_messages, payloads, first_arrival, send_events, arrived,
                 last_arrival>>
  /\ now' >= now /\ reads' \subseteq reads
  /\ \A x \in Items' : \E z \in Items : z.from = x.from /\ z.to = x.to /\ z.tag = x.tag

LEMMA StepKinds ==
  ASSUME Inv, [Next]_vars
  PROVE  \/ Quiet
         \/ \E p \in PMUs : GenerateMeasurement(p)
         \/ \E k \in network : HandleRead(k)
<1>0. now \in Nat
  BY DEF Inv, Typed, TypedClock
<1>1. CASE StopApplications
  BY <1>0, <1>1 DEF StopApplications, Quiet, Items
<1>2. ASSUME NEW e \in sends, SendTo(e) PROVE Quiet
  <2> DEFINE k == [from |-> e.from, to |-> e.to, tag |-> e.tag, sent |-> now]
  <2>1. network' \subseteq network \cup {k} /\ sends' \subseteq sends
    BY <1>2 DEF SendTo
  <2>2. k.from = e.from /\ k.to = e.to /\ k.tag = e.tag /\ e \in Items
    BY DEF Items
  <2> HIDE DEF k
  <2>3. \A x \in Items' : x \in Items \/ x = k
    BY <2>1 DEF Items
  <2>4. QED BY <1>0, <1>2, <2>2, <2>3 DEF SendTo, Quiet
<1>3. ASSUME NEW e \in reads, ReadPayloads(e) PROVE Quiet
  BY <1>0, <1>3 DEF ReadPayloads, Quiet, Items
<1>4. ASSUME NEW k \in network, Lose(k) PROVE Quiet
  BY <1>0, <1>4 DEF Lose, Quiet, Items
<1>5. CASE Tick
  BY <1>0, <1>5 DEF Tick, Quiet, Items
<1>6. CASE UNCHANGED vars
  BY <1>0, <1>6 DEF vars, Quiet, Items
<1>7. QED
  BY <1>1, <1>2, <1>3, <1>4, <1>5, <1>6 DEF Next, Event, Transport, Finished

\* What a packet changes, besides what its destination holds.
LEMMA ReadEffects ==
  ASSUME Inv, NEW k \in network, HandleRead(k),
         NEW ts \in Timestamps, NEW payload, ReadsAt(k, ts, payload)
  PROVE  /\ \A a \in Concentrators \ {k.to} :
              /\ payloads'[a] = payloads[a] /\ send_events'[a] = send_events[a]
              /\ first_arrival'[a] = first_arrival[a] /\ last_arrival'[a] = last_arrival[a]
         /\ \A e : e.from # k.to => (e \in sends' <=> e \in sends)
         /\ k.to # SPDC => UNCHANGED <<reads, delays>>
         /\ IsLate(k.to, ts) =>
              UNCHANGED <<payloads, send_events, first_arrival, last_arrival, sends, reads, delays>>
         /\ \A us \in Timestamps \ {ts} :
              /\ payloads'[k.to][us] = payloads[k.to][us]
              /\ send_events'[k.to][us] = send_events[k.to][us]
         /\ \A x \in Items' :
              \/ x \in Items /\ x # k /\ Message(x)' = Message(x)
              \/ x.from = k.to /\ x.to = SPDC /\ x.tag = m_next_tag_id[SPDC] /\ k.to \in PDCs
<1>0. /\ k \in Items /\ k.to \in Concentrators /\ network' = network \ {k}
      /\ DOMAIN m_messages = Concentrators
      /\ SPDC \in Concentrators /\ PDCs = Concentrators \ {SPDC}
  BY ReadDetails, Constants DEF Inv, Typed, TypedMaps, Concentrators
<1>1. /\ DOMAIN payloads = Concentrators /\ DOMAIN payloads[k.to] = Timestamps
      /\ first_arrival \in [Concentrators -> [Timestamps -> Nat]]
      /\ last_arrival \in [Concentrators -> [Timestamps -> Nat]]
      /\ send_events \in [Concentrators -> [Timestamps -> Nat]]
  BY <1>0 DEF Inv, Typed, TypedHeld
\* What stays.
<1>2. ASSUME NEW x \in Items, x # k, m_messages'[k.to] = Erase(m_messages[k.to], k.tag),
             \A a \in Concentrators \ {k.to} : m_messages'[a] = m_messages[a]
      PROVE  Message(x)' = Message(x)
  <2>1. x.to \in Concentrators
    BY ItemTypes
  <2>2. CASE x.to = k.to
    BY <1>0, <1>2, <2>2, Erased DEF Message
  <2>3. CASE x.to # k.to
    BY <1>2, <2>1, <2>3 DEF Message
  <2>4. QED BY <2>2, <2>3
<1>3. ASSUME sends' = sends
      PROVE  \A x \in Items' : x \in Items /\ x # k
  BY <1>0, <1>3, CallIsNoPacket DEF Items
<1>4. CASE IsLate(k.to, ts)
  <2>1. Discard(k)
    BY <1>4 DEF ReadsAt
  <2>2. /\ m_messages'[k.to] = Erase(m_messages[k.to], k.tag)
        /\ \A a \in Concentrators \ {k.to} : m_messages'[a] = m_messages[a]
    BY <1>0, <2>1 DEF Discard
  <2>3. UNCHANGED <<payloads, send_events, first_arrival, last_arrival, sends, reads, delays>>
    BY <2>1 DEF Discard
  <2>4. QED BY <2>2, <2>3, <1>2, <1>3
<1>5. ASSUME Accept(k.to, ts, payload)
      PROVE  /\ \A a \in Concentrators \ {k.to} :
                  /\ payloads'[a] = payloads[a]
                  /\ first_arrival'[a] = first_arrival[a] /\ last_arrival'[a] = last_arrival[a]
             /\ \A us \in Timestamps \ {ts} : payloads'[k.to][us] = payloads[k.to][us]
  <2>1. /\ \A a \in Concentrators \ {k.to} : payloads'[a] = payloads[a]
        /\ \A us \in Timestamps \ {ts} : payloads'[k.to][us] = payloads[k.to][us]
    BY <1>0, <1>1, <1>5 DEF Accept
  <2>2. \A a \in Concentrators \ {k.to} :
          first_arrival'[a] = first_arrival[a] /\ last_arrival'[a] = last_arrival[a]
    BY <1>0, <1>1, <1>5 DEF Accept
  <2>3. QED BY <2>1, <2>2
<1>6. CASE ~ IsLate(k.to, ts) /\ k.to = SPDC
  <2>1. /\ SPDCDoRead(k, ts, payload) /\ sends' = sends
        /\ \E size : send_events' = [send_events EXCEPT ![k.to][ts] = size]
        /\ Accept(k.to, ts, payload)
        /\ m_messages' = [m_messages EXCEPT ![k.to] = Erase(@, k.tag)]
    BY <1>6 DEF ReadsAt, SPDCDoRead
  <2>2. /\ m_messages'[k.to] = Erase(m_messages[k.to], k.tag)
        /\ \A a \in Concentrators \ {k.to} : m_messages'[a] = m_messages[a]
    BY <1>0, <2>1
  <2>3. /\ \A a \in Concentrators \ {k.to} : send_events'[a] = send_events[a]
        /\ \A us \in Timestamps \ {ts} : send_events'[k.to][us] = send_events[k.to][us]
    BY <1>0, <1>1, <2>1
  <2>4. QED BY <2>1, <2>2, <2>3, <1>2, <1>3, <1>5, <1>6
<1>7. CASE ~ IsLate(k.to, ts) /\ k.to \in PDCs
  <2> DEFINE n == m_next_tag_id[SPDC]
  <2>1. PICK message, new :
          /\ m_messages' = [m_messages EXCEPT
               ![k.to] = Erase(@, k.tag), ![SPDC] = Insert(@, n, message)]
          /\ new.from = k.to /\ new.to = SPDC /\ new.tag = n
          /\ \A e : e \in sends' => e \in sends \/ e = new
          /\ \A e : e.from # k.to => (e \in sends' <=> e \in sends)
          /\ send_events' = [send_events EXCEPT ![k.to][ts] = n]
          /\ Accept(k.to, ts, payload) /\ UNCHANGED <<reads, delays>>
    <3>1. PDCDoRead(k, ts, payload)
      BY <1>0, <1>7 DEF ReadsAt
    <3> DEFINE new == SendAt(k.to, SPDC, IF IsComplete(k.to, ts) THEN now ELSE Deadline(k.to, ts))
               message == AddPadding(Aggregate(ts, Append(payloads[k.to][ts], payload)))
    <3>2. new.from = k.to /\ new.to = SPDC /\ new.tag = n
      BY DEF SendAt
    <3>3. /\ \A e : e \in sends' => e \in sends \/ e = new
          /\ \A e : e.from # k.to => (e \in sends' <=> e \in sends)
      <4>1. \A e : e \in sends' <=>
              \/ e \in sends /\ ~ (e.from = k.to /\ e.tag = send_events[k.to][ts] /\ ~ IsFirst(k.to, ts))
              \/ e = new
        BY <3>1 DEF PDCDoRead
      <4> HIDE DEF new
      <4>2. QED BY <4>1, <3>2
    <3>4. m_messages' = [m_messages EXCEPT ![k.to] = Erase(@, k.tag), ![SPDC] = Insert(@, n, message)]
      BY <3>1 DEF PDCDoRead
    <3> HIDE DEF new, message
    <3>5. QED BY <3>1, <3>2, <3>3, <3>4 DEF PDCDoRead
  <2>2. n \notin DOMAIN m_messages[SPDC] /\ k.to # SPDC
    BY <1>0, <1>7, NextTagFree
  <2>3. /\ m_messages'[k.to] = Erase(m_messages[k.to], k.tag)
        /\ m_messages'[SPDC] = Insert(m_messages[SPDC], n, message)
        /\ \A a \in Concentrators \ {k.to, SPDC} : m_messages'[a] = m_messages[a]
    BY <1>0, <2>1, <2>2
  <2>4. ASSUME NEW x \in Items', x # new PROVE x \in Items /\ x # k /\ Message(x)' = Message(x)
    <3>1. x \in Items /\ x # k
      BY <2>1, <2>4, <1>0, CallIsNoPacket DEF Items
    <3>2. x.to \in Concentrators /\ x.tag \in DOMAIN m_messages[x.to]
      BY <3>1, ItemTypes
    <3>3. CASE x.to = k.to
      BY <1>0, <2>3, <3>1, <3>3, Erased DEF Message
    <3>4. CASE x.to = SPDC
      <4>1. \A t \in DOMAIN m_messages[SPDC] : m_messages'[SPDC][t] = m_messages[SPDC][t]
        BY <2>2, <2>3 DEF Insert
      <4>2. QED BY <3>1, <3>2, <3>4, <4>1 DEF Message
    <3>5. CASE x.to # k.to /\ x.to # SPDC
      BY <2>3, <3>1, <3>2, <3>5 DEF Message
    <3>6. QED BY <3>1, <3>3, <3>4, <3>5
  <2>5. /\ \A a \in Concentrators \ {k.to} : send_events'[a] = send_events[a]
        /\ \A us \in Timestamps \ {ts} : send_events'[k.to][us] = send_events[k.to][us]
    BY <1>0, <1>1, <2>1
  <2>6. QED BY <1>5, <1>7, <2>1, <2>4, <2>5
<1>8. QED BY <1>0, <1>4, <1>6, <1>7

\* What has been put together for good stays as it is.
LEMMA GoneStays ==
  ASSUME Inv, [Next]_vars, NEW c \in PDCs, NEW ts \in Timestamps, Gone(c, ts)
  PROVE  Gone(c, ts)'
<1>0. /\ c \in Concentrators /\ c # SPDC /\ Begun(c, ts)
      /\ send_events[c][ts] < m_next_tag_id[SPDC] /\ send_events[c][ts] \in Nat
      /\ m_next_tag_id[SPDC] \in Nat
  BY Constants DEF Gone, Inv, Contents, EventsUnique, Typed, TypedHeld, TypedMaps
<1>1. IsLate(c, ts)
  <2>1. ASSUME ~ IsLate(c, ts) PROVE FALSE
    <3>1. PICK e \in sends : e.to = SPDC /\ e.tag = send_events[c][ts]
      BY <1>0, <2>1, OpenTimestamp
    <3>2. QED BY <3>1 DEF Gone, Items
  <2>2. QED BY <2>1
<1>2. CASE Quiet
  BY <1>2 DEF Quiet, Gone, Begun
<1>3. ASSUME NEW p \in PMUs, GenerateMeasurement(p) PROVE Gone(c, ts)'
  <2> DEFINE e == SendAt(p, Target[p], generate[p])
  <2>1. sends' = sends \cup {e} /\ UNCHANGED <<network, payloads, send_events>>
    BY <1>3 DEF GenerateMeasurement
  <2>2. e.to # SPDC
    BY Constants DEF SendAt
  <2> HIDE DEF e
  <2>3. \A x \in Items' : x \in Items \/ x = e
    BY <2>1 DEF Items
  <2>4. QED BY <2>1, <2>2, <2>3 DEF Gone, Begun
<1>4. ASSUME NEW k \in network, HandleRead(k) PROVE Gone(c, ts)'
  <2>1. PICK us \in Timestamps : \E payload : ReadsAt(k, us, payload)
    BY <1>4, ReadDetails
  <2>2. PICK payload : ReadsAt(k, us, payload)
    BY <2>1
  <2>3. k.to \in Concentrators
    BY <1>4, ReadDetails
  <2>4. payloads'[c][ts] = payloads[c][ts] /\ send_events'[c][ts] = send_events[c][ts]
    BY <1>0, <1>1, <1>4, <2>2, <2>3, ReadEffects
  <2>5. \A x \in Items' : x \in Items \/ x.tag = m_next_tag_id[SPDC]
    BY <1>4, <2>2, ReadEffects
  <2>6. QED BY <1>0, <2>4, <2>5 DEF Gone, Begun
<1>5. QED BY <1>2, <1>3, <1>4, StepKinds

LEMMA InitSurroundings == Init => Surroundings
<1> SUFFICES ASSUME Init PROVE Surroundings
  OBVIOUS
<1>1. /\ DOMAIN arrived = Concentrators /\ \A a \in Concentrators : arrived[a] = {}
      /\ Items = {} /\ reads = {}
  BY DEF Init, Empty, Items
<1>2. \A c \in PDCs, ts \in Timestamps : ~ Begun(c, ts)
  BY Constants DEF Init, ForAll, Empty, Begun
<1>3. QED
  BY <1>1, <1>2, Constants DEF Surroundings, Unheard, HeardBefore, HeardOnce, InTime

LEMMA QuietSurroundings ==
  ASSUME Inv, Inv', Surroundings, [Next]_vars, Quiet
  PROVE  Surroundings'
<1> USE DEF Quiet
<1>0. now \in Nat /\ now' \in Nat /\ Timestamps \subseteq Nat
  BY Constants DEF Inv, Typed, TypedClock
<1>1. \A a, ts : Begun(a, ts)' = Begun(a, ts)
  BY DEF Begun
<1>2. Unheard'
  <2> SUFFICES ASSUME NEW x \in Items', NEW ts \in Timestamps,
                      x.to \in PDCs, Message(x)' = Text(x.from, ts)
               PROVE  <<ts, PMUName(x.from)>> \notin arrived'[x.to] /\ ts <= now'
    BY DEF Unheard
  <2>1. PICK z \in Items : z.from = x.from /\ z.to = x.to /\ z.tag = x.tag
    OBVIOUS
  <2>2. Message(z) = Text(z.from, ts)
    BY <2>1 DEF Message
  <2>3. <<ts, PMUName(z.from)>> \notin arrived[z.to] /\ ts <= now
    BY <2>1, <2>2 DEF Surroundings, Unheard
  <2>4. QED BY <1>0, <2>1, <2>3
<1>3. HeardBefore' /\ HeardOnce'
  BY GoneStays DEF Surroundings, HeardBefore, HeardOnce
<1>4. InTime'
  BY <1>0, <1>1 DEF Surroundings, InTime
<1>5. QED BY <1>2, <1>3, <1>4 DEF Surroundings

LEMMA TextTells ==
  ASSUME NEW p \in PMUs, NEW ts \in Timestamps, NEW us \in Timestamps, Text(p, ts) = Text(p, us)
  PROVE  ts = us
<1>1. TimeStamp(Text(p, ts)) = ts /\ TimeStamp(Text(p, us)) = us
  BY TextReads
<1>2. QED BY <1>1

LEMMA GenerateSurroundings ==
  ASSUME Inv, Inv', Surroundings, [Next]_vars, NEW p \in PMUs, GenerateMeasurement(p)
  PROVE  Surroundings'
<1>0. PICK ts, to, n, e :
        ts = generate[p] /\ to = Target[p] /\ n = m_next_tag_id[to] /\ e = SendAt(p, to, ts)
  OBVIOUS
<1>1. /\ ts = now /\ ts \in Timestamps /\ now \in Nat /\ to \in PDCs /\ to \in Concentrators
      /\ m_messages' = [m_messages EXCEPT ![to] = Insert(@, n, Text(p, ts))]
      /\ sends' = sends \cup {e}
      /\ generate' = [generate EXCEPT ![p] = ts + sampling_period]
      /\ UNCHANGED <<now, network, payloads, reads, arrived>>
  BY <1>0, Constants DEF GenerateMeasurement, Text, Inv, Typed, TypedClock
<1>2. /\ e.from = p /\ e.to = to /\ e.tag = n
      /\ n \notin DOMAIN m_messages[to] /\ DOMAIN m_messages = Concentrators
  BY <1>0, <1>1, NextTagFree DEF SendAt, Inv, Typed, TypedMaps
<1>3. /\ m_messages'[to] = Insert(m_messages[to], n, Text(p, ts))
      /\ \A a \in Concentrators \ {to} : m_messages'[a] = m_messages[a]
  BY <1>1, <1>2
<1>4. /\ m_messages'[to][n] = Text(p, ts)
      /\ \A t \in DOMAIN m_messages[to] : m_messages'[to][t] = m_messages[to][t]
  BY <1>2, <1>3 DEF Insert
<1>5. \A x \in Items' : x = e \/ (x \in Items /\ Message(x)' = Message(x))
  <2> SUFFICES ASSUME NEW x \in Items PROVE Message(x)' = Message(x)
    BY <1>1 DEF Items
  <2>1. x.to \in Concentrators /\ x.tag \in DOMAIN m_messages[x.to]
    BY ItemTypes
  <2>2. CASE x.to = to
    BY <1>4, <2>1, <2>2 DEF Message
  <2>3. CASE x.to # to
    BY <1>3, <2>1, <2>3 DEF Message
  <2>4. QED BY <2>2, <2>3
<1>6. Unheard'
  <2> SUFFICES ASSUME NEW x \in Items', NEW us \in Timestamps,
                      x.to \in PDCs, Message(x)' = Text(x.from, us)
               PROVE  <<us, PMUName(x.from)>> \notin arrived[x.to] /\ us <= now
    BY <1>1 DEF Unheard
  <2>1. CASE x = e
    <3>1. us = ts
      <4>1. Message(x)' = Text(p, ts)
        BY <1>2, <1>4, <2>1 DEF Message
      <4>2. QED BY <1>1, <1>2, <2>1, <4>1, TextTells
    <3>2. <<ts, PMUName(p)>> \notin arrived[to]
      <4>1. ts \in Nat
        BY <1>1
      <4>2. ~ (ts < generate[p])
        BY <4>1, <1>0
      <4>3. QED BY <4>2, <1>0, <1>1 DEF Surroundings, HeardBefore
    <3>3. QED BY <1>1, <1>2, <2>1, <3>1, <3>2
  <2>2. CASE x \in Items /\ Message(x)' = Message(x)
    BY <2>2 DEF Surroundings, Unheard
  <2>3. QED BY <1>5, <2>1, <2>2
<1>7. HeardBefore'
  <2>1. generate \in [PMUs -> Nat] /\ sampling_period \in Nat
    BY TimesAssumption DEF Inv, Typed, TypedClock
  <2>2. ASSUME NEW q \in PMUs
        PROVE  generate'[q] >= generate[q] /\ generate[q] \in Nat /\ generate'[q] \in Nat
    <3>1. CASE q = p
      <4>1. ts \in Nat /\ generate'[q] = ts + sampling_period /\ generate[q] = ts
        BY <1>0, <1>1, <2>1, <3>1
      <4>2. QED BY <2>1, <4>1
    <3>2. CASE q # p
      BY <1>1, <2>1, <3>2
    <3>3. QED BY <3>1, <3>2
  <2>3. QED BY <1>1, <2>1, <2>2, Constants DEF Surroundings, HeardBefore
<1>8. HeardOnce'
  BY <1>1, GoneStays DEF Surroundings, HeardOnce
<1>9. InTime'
  BY <1>1 DEF Surroundings, InTime, Begun
<1>10. QED BY <1>1, <1>6, <1>7, <1>8, <1>9 DEF Surroundings

\* A packet that is read has begun its time stamp, and ends none.
LEMMA ReadBegins ==
  ASSUME Inv, NEW k \in network, HandleRead(k),
         NEW ts \in Timestamps, NEW payload, ReadsAt(k, ts, payload)
  PROVE  /\ Begun(k.to, ts)'
         /\ \A a \in Concentrators, us \in Timestamps : Begun(a, us) => Begun(a, us)'
<1>0. k.to \in Concentrators
  BY ReadDetails
<1>1. CASE IsLate(k.to, ts)
  <2>1. payloads' = payloads
    BY <1>1, ReadEffects
  <2>2. QED BY <1>1, <2>1 DEF IsLate, IsFirst, Begun
<1>2. CASE ~ IsLate(k.to, ts)
  <2>1. Accept(k.to, ts, payload)
    BY <1>2 DEF ReadsAt, SPDCDoRead, PDCDoRead
  <2>2. /\ payloads'[k.to][ts] = Append(payloads[k.to][ts], payload)
        /\ \A b \in Concentrators, us \in Timestamps :
             ~ (b = k.to /\ us = ts) => payloads'[b][us] = payloads[b][us]
    BY <1>0, <2>1, AcceptHeld
  <2>3. payloads[k.to][ts] \in Seq(Seq(Letters)) \/ payloads[k.to][ts] \in Seq(Seq(Characters))
    BY <1>0 DEF Inv, Typed, TypedHeld, Concentrators
  <2>4. payloads'[k.to][ts] # <<>>
    BY <2>2, <2>3, AppendFills
  <2>5. QED BY <2>2, <2>4 DEF Begun
<1>3. QED BY <1>1, <1>2

LEMMA ReadSurroundings ==
  ASSUME NamesDiffer, Inv, Inv', Surroundings, [Next]_vars, NEW k \in network, HandleRead(k)
  PROVE  Surroundings'
<1>1. PICK ts \in Timestamps : \E payload :
        /\ ReadsAt(k, ts, payload)
        /\ k.to \in PDCs => Measured(k, ts) /\ payload = Clean(k.from, ts)
        /\ k.to = SPDC => IsFrameOf(k, ts) /\ Lines(payload) = payloads[k.from][ts]
  BY ReadDetails
<1>2. PICK payload :
        /\ ReadsAt(k, ts, payload)
        /\ k.to \in PDCs => Measured(k, ts) /\ payload = Clean(k.from, ts)
        /\ k.to = SPDC => IsFrameOf(k, ts) /\ Lines(payload) = payloads[k.from][ts]
  BY <1>1
<1>3. /\ UNCHANGED <<now, generate>> /\ k \in Items /\ k.to \in Concentrators
      /\ \/ k.from \in PMUs /\ k.to = Target[k.from] /\ k.to \in PDCs /\ k.to # SPDC
         \/ k.from \in PDCs /\ k.to = SPDC /\ k.to \notin PDCs
  BY ReadDetails, ItemTypes, Constants
<1>4. /\ \A a \in Concentrators \ {k.to} : payloads'[a] = payloads[a] /\ send_events'[a] = send_events[a]
      /\ k.to # SPDC => UNCHANGED reads
      /\ IsLate(k.to, ts) => UNCHANGED <<payloads, reads>>
      /\ \A us \in Timestamps \ {ts} : payloads'[k.to][us] = payloads[k.to][us]
      /\ \A x \in Items' :
           \/ x \in Items /\ x # k /\ Message(x)' = Message(x)
           \/ x.to = SPDC /\ k.to \in PDCs
  BY <1>2, ReadEffects
<1>5. /\ DOMAIN arrived' = Concentrators
      /\ arrived'[k.to] = arrived[k.to] \cup {<<ts, NameOf(k)>>}
      /\ \A a \in Concentrators \ {k.to} : arrived'[a] = arrived[a]
  BY <1>2, <1>3 DEF ReadsAt, Surroundings
<1>6. \A p \in PMUs : Target[p] = k.to /\ PMUName(p) = NameOf(k) => p = k.from /\ k.to # SPDC
  BY <1>3, Constants DEF NameOf, NamesDiffer
<1>7. Unheard'
  <2> SUFFICES ASSUME NEW x \in Items', NEW us \in Timestamps,
                      x.to \in PDCs, Message(x)' = Text(x.from, us)
               PROVE  <<us, PMUName(x.from)>> \notin arrived'[x.to] /\ us <= now
    BY <1>3 DEF Unheard
  <2>1. x \in Items /\ x # k /\ Message(x)' = Message(x)
    BY <1>4, Constants
  <2>2. <<us, PMUName(x.from)>> \notin arrived[x.to] /\ us <= now
    BY <2>1 DEF Surroundings, Unheard
  <2>3. x.from \in PMUs /\ x.to = Target[x.from] /\ x.to \in Concentrators
    BY <2>1, ItemTypes, Constants
  <2>4. ASSUME x.to = k.to, us = ts, PMUName(x.from) = NameOf(k) PROVE FALSE
    <3>1. x.from = k.from /\ k.to \in PDCs
      BY <1>6, <2>3, <2>4
    <3>2. Message(x) = Message(k)
      BY <1>2, <2>1, <2>4, <3>1 DEF Measured
    <3>3. QED BY <1>3, <2>1, <3>1, <3>2 DEF Inv, Contents, MeasurementsUnderWay
  <2>5. QED BY <1>5, <2>2, <2>3, <2>4
<1>8. HeardBefore'
  <2> SUFFICES ASSUME NEW p \in PMUs, NEW us \in Timestamps,
                      <<us, PMUName(p)>> \in arrived'[Target[p]]
               PROVE  us < generate[p]
    BY <1>3 DEF HeardBefore
  <2>1. CASE <<us, PMUName(p)>> \in arrived[Target[p]]
    BY <2>1 DEF Surroundings, HeardBefore
  <2>2. CASE Target[p] = k.to /\ us = ts /\ PMUName(p) = NameOf(k)
    BY <1>2, <1>3, <1>6, <2>2 DEF Measured
  <2>3. Target[p] \in Concentrators
    BY Constants
  <2>4. QED BY <1>5, <2>1, <2>2, <2>3
<1>9. HeardOnce'
  <2> SUFFICES ASSUME NEW c \in PDCs, NEW us \in Timestamps, <<us, c>> \in arrived'[SPDC]
               PROVE  Gone(c, us)'
    BY DEF HeardOnce
  <2>1. CASE <<us, c>> \in arrived[SPDC]
    BY <2>1, GoneStays DEF Surroundings, HeardOnce
  <2>2. CASE k.to = SPDC /\ us = ts /\ c = NameOf(k)
    <3>1. IsFrameOf(k, ts) /\ c = k.from /\ c \in Concentrators \ {k.to}
      BY <1>2, <2>2, Constants DEF NameOf
    <3>2. /\ payloads'[c] = payloads[c] /\ send_events'[c] = send_events[c]
          /\ \A x \in Items' : x \in Items /\ x # k
      BY <1>3, <1>4, <2>2, <3>1
    <3>3. \A x \in Items' : ~ (x.to = SPDC /\ x.tag = k.tag)
      BY <1>3, <2>2, <3>2 DEF Inv, TagsUnique
    <3>4. QED BY <2>2, <3>1, <3>2, <3>3 DEF IsFrameOf, Gone, Begun
  <2>3. QED BY <1>5, <2>1, <2>2, Constants
<1>10. InTime'
  <2>0. /\ Begun(k.to, ts)'
        /\ \A a \in Concentrators, us \in Timestamps : Begun(a, us) => Begun(a, us)'
    BY <1>2, ReadBegins
  <2>1. ASSUME NEW c \in PDCs, NEW us \in Timestamps, Begun(c, us)' PROVE us <= now
    <3>1. CASE c = k.to /\ us = ts
      BY <1>2, <1>3, <3>1 DEF Surroundings, Unheard, Measured
    <3>2. CASE ~ (c = k.to /\ us = ts)
      BY <1>4, <2>1, <3>2, Constants DEF Begun, Surroundings, InTime
    <3>3. QED BY <3>1, <3>2
  <2>2. ASSUME NEW e \in reads' PROVE Begun(SPDC, e.ts)'
    <3>1. CASE e \in reads
      BY <2>0, <3>1, Constants DEF Surroundings, InTime, Inv, Typed, TypedReads, Read
    <3>2. CASE e \notin reads
      <4>1. k.to = SPDC /\ SPDCDoRead(k, ts, payload)
        BY <1>2, <1>4, <2>2, <3>2 DEF ReadsAt
      <4>2. e.ts = ts
        BY <2>2, <3>2, <4>1 DEF SPDCDoRead
      <4>3. QED BY <2>0, <4>1, <4>2
    <3>3. QED BY <3>1, <3>2
  <2>3. QED BY <1>3, <2>1, <2>2 DEF InTime
<1>11. QED BY <1>5, <1>7, <1>8, <1>9, <1>10 DEF Surroundings

LEMMA SurroundingsInvariant == NamesDiffer => (Spec => []Surroundings)
<1> SUFFICES ASSUME NamesDiffer PROVE Spec => []Surroundings
  OBVIOUS
<1>1. Inv /\ Inv' /\ Surroundings /\ [Next]_vars => Surroundings'
  BY StepKinds, QuietSurroundings, GenerateSurroundings, ReadSurroundings
<1>2. QED BY <1>1, InitSurroundings, Invariant, PTL DEF Spec

(***************************************************************************)
(* A PDC as HelicsPDCApplication sees it.                                  *)
(***************************************************************************)
Leaves(c, ts, e, f) ==
  /\ Begun(c, ts) /\ e.from = c /\ e.tag = send_events[c][ts]
  /\ f = [ts |-> ts, size |-> Len(payloads[c][ts]), at |-> e.at]

ScheduledFrames ==
  \A c \in PDCs : \A f :
    f \in Scheduled(c) <=> \E ts \in Timestamps, e \in sends : Leaves(c, ts, e, f)

LEMMA ScheduledNow == Inv => ScheduledFrames
<1> SUFFICES ASSUME Inv, NEW c \in PDCs, NEW f
             PROVE  f \in Scheduled(c) <=> \E ts \in Timestamps, e \in sends : Leaves(c, ts, e, f)
  BY DEF ScheduledFrames
<1>1. ASSUME f \in Scheduled(c)
      PROVE  \E ts \in Timestamps, e \in sends : Leaves(c, ts, e, f)
  <2>1. PICK e \in sends : e.from = c /\ f = AsFrame(e)
    BY <1>1 DEF Scheduled
  <2>2. QED BY <2>1, AsFrameIs DEF Leaves
<1>2. ASSUME NEW ts \in Timestamps, NEW e \in sends, Leaves(c, ts, e, f)
      PROVE  f \in Scheduled(c)
  <2>1. PICK us \in Timestamps :
          /\ Begun(c, us) /\ e.tag = send_events[c][us]
          /\ AsFrame(e) = [ts |-> us, size |-> Len(payloads[c][us]), at |-> e.at]
    BY <1>2, AsFrameIs DEF Leaves
  <2>2. us = ts
    BY <1>2, <2>1 DEF Leaves, Inv, Contents, EventsUnique
  <2>3. QED BY <1>2, <2>1, <2>2 DEF Leaves, Scheduled
<1>3. QED BY <1>1, <1>2

LEMMA ScheduledNext == Inv' => ScheduledFrames'
BY ScheduledNow, PTL

\* What does not touch what a PDC holds and sends does not touch its queue.
LEMMA SameScheduled ==
  ASSUME Inv, Inv', NEW c \in PDCs,
         payloads'[c] = payloads[c], send_events'[c] = send_events[c],
         \A e : e.from = c => (e \in sends' <=> e \in sends)
  PROVE  Scheduled(c)' = Scheduled(c)
<1>1. \A f : f \in Scheduled(c) <=> \E ts \in Timestamps, e \in sends : Leaves(c, ts, e, f)
  BY ScheduledNow DEF ScheduledFrames
<1>2. \A f : f \in Scheduled(c)' <=> \E ts \in Timestamps, e \in sends' : Leaves(c, ts, e, f)'
  BY ScheduledNext DEF ScheduledFrames
<1>3. \A ts, e, f : Leaves(c, ts, e, f)' <=> Leaves(c, ts, e, f)
  BY DEF Leaves, Begun
<1>4. \A f : f \in Scheduled(c)' <=> f \in Scheduled(c)
  BY <1>1, <1>2, <1>3 DEF Leaves
<1>5. QED BY <1>4

LEMMA PDCIdle ==
  ASSUME Inv, Inv', NEW c \in PDCs, now' = now, status'[c] = status[c],
         arrived'[c] = arrived[c], payloads'[c] = payloads[c],
         first_arrival'[c] = first_arrival[c], last_arrival'[c] = last_arrival[c],
         send_events'[c] = send_events[c], frames'[c] = frames[c],
         \A e : e.from = c => (e \in sends' <=> e \in sends)
  PROVE  UNCHANGED PDC(c)!vars
<1>1. Scheduled(c)' = Scheduled(c)
  BY SameScheduled
<1>2. Held(c)' = Held(c) /\ Sizes(c)' = Sizes(c)
  BY DEF Held, Sizes
<1>3. QED BY <1>1, <1>2 DEF PDC!vars, PDC!pdcVars

(***************************************************************************)
(* What a PDC does, in the names of HelicsPDCApplication.                  *)
(***************************************************************************)
LEMMA HeldIs ==
  ASSUME Inv, NEW c \in PDCs, NEW ts \in Timestamps
  PROVE  /\ Len(Held(c)[ts]) = Len(payloads[c][ts]) /\ Len(payloads[c][ts]) \in Nat
         /\ (Held(c)[ts] = <<>> <=> payloads[c][ts] = <<>>)
<1>1. payloads[c][ts] \in Seq(Seq(Letters))
  BY DEF Inv, Typed, TypedHeld
<1> DEFINE s == payloads[c][ts]
           f == Held(c)[ts]
           g == [i \in DOMAIN s \cup {Len(s) + 1} |-> IF i = Len(s) + 1 THEN 0 ELSE f[i]]
<1>2. f = [i \in DOMAIN s |-> NameIn(s[i])]
  BY DEF Held
<1>3. DOMAIN s = 1 .. Len(s) /\ Len(s) \in Nat
  BY <1>1
<1> HIDE DEF f, s
<1>4. /\ f = [i \in DOMAIN s |-> f[i]]
      /\ g = [i \in DOMAIN s \cup {Len(s) + 1} |-> g[i]]
      /\ \A i \in DOMAIN s : g[i] = f[i]
      /\ g[Len(s) + 1] = 0
  BY <1>2, <1>3
<1> HIDE DEF g
<1>5. s \in Seq(Seq(Letters))
  BY <1>1 DEF s
<1>6. Len(f) = Len(s) /\ (f = <<>> <=> s = <<>>)
  BY <1>4, <1>5, AppendIs
<1>7. QED BY <1>3, <1>6 DEF f, s

LEMMA HeldNext ==
  ASSUME Inv, NEW c \in PDCs, NEW ts \in Timestamps, NEW payload, Accept(c, ts, payload)
  PROVE  /\ Held(c)' = [Held(c) EXCEPT ![ts] = Append(@, NameIn(payload))]
         /\ Sizes(c)' = [Sizes(c) EXCEPT ![ts] = Len(Held(c)[ts]) + 1]
         /\ Len(payloads'[c][ts]) = Len(payloads[c][ts]) + 1
<1>1. payloads[c][ts] \in Seq(Seq(Letters)) /\ c \in Concentrators
  BY Constants DEF Inv, Typed, TypedHeld
<1>2. /\ payloads'[c][ts] = Append(payloads[c][ts], payload)
      /\ \A us \in Timestamps : us # ts => payloads'[c][us] = payloads[c][us]
  BY <1>1, AcceptHeld
<1> DEFINE s == payloads[c][ts]
           t == payloads'[c][ts]
           f == [i \in DOMAIN s |-> NameIn(s[i])]
           g == [i \in DOMAIN t |-> NameIn(t[i])]
<1>3. /\ DOMAIN t = DOMAIN s \cup {Len(s) + 1} /\ Len(t) = Len(s) + 1
      /\ \A i \in DOMAIN s : t[i] = s[i]
      /\ t[Len(s) + 1] = payload /\ Len(s) + 1 \notin DOMAIN s
  <2>1. s \in Seq(Seq(Letters) \cup {payload}) /\ payload \in Seq(Letters) \cup {payload}
    BY <1>1
  <2> DEFINE R == Seq(Letters) \cup {payload}
  <2>2. t = Append(s, payload)
    BY <1>2
  <2> HIDE DEF R, s, t
  <2>3. QED BY <2>1, <2>2, Appended DEF R
<1>4. s \in Seq(Seq(Letters))
  BY <1>1
<1>5. Held(c)[ts] = f /\ Held(c)'[ts] = g
  BY DEF Held
<1> HIDE DEF s, t
<1>6. /\ f = [i \in DOMAIN s |-> f[i]]
      /\ g = [i \in DOMAIN s \cup {Len(s) + 1} |-> g[i]]
      /\ \A i \in DOMAIN s : g[i] = f[i]
      /\ g[Len(s) + 1] = NameIn(payload)
  BY <1>3
<1> HIDE DEF f, g
<1>7. g = Append(f, NameIn(payload)) /\ Len(f) = Len(s)
  BY <1>4, <1>6, AppendIs
<1>8. \A us \in Timestamps : us # ts => Held(c)'[us] = Held(c)[us]
  BY <1>2 DEF Held
<1>9. Held(c)' = [Held(c) EXCEPT ![ts] = Append(@, NameIn(payload))]
  <2>1. /\ Held(c)' = [us \in Timestamps |-> Held(c)'[us]]
        /\ Held(c) = [us \in Timestamps |-> Held(c)[us]]
    BY DEF Held
  <2>2. Held(c)'[ts] = Append(Held(c)[ts], NameIn(payload))
    BY <1>5, <1>7
  <2>3. QED BY <1>8, <2>1, <2>2
<1>10. Sizes(c)' = [Sizes(c) EXCEPT ![ts] = Len(Held(c)[ts]) + 1]
  <2>1. \A us \in Timestamps : us # ts => Len(payloads'[c][us]) = Len(payloads[c][us])
    BY <1>2
  <2>2. Len(payloads'[c][ts]) = Len(Held(c)[ts]) + 1
    BY <1>3, <1>5, <1>7 DEF t
  <2>3. QED BY <2>1, <2>2 DEF Sizes
<1>11. QED BY <1>3, <1>9, <1>10 DEF s, t

\* The frame waits in both or in neither.
LEMMA ExpiredIs ==
  ASSUME Inv, NEW c \in PDCs, NEW ts \in Timestamps, Begun(c, ts)
  PROVE  /\ PDC(c)!IsExpired(ts) <=> IsExpired(c, ts)
         /\ PDC(c)!Scheduled(ts) = {f \in Scheduled(c) : f.ts = ts}
<1>1. \A f : f \in Scheduled(c) <=> \E us \in Timestamps, e \in sends : Leaves(c, us, e, f)
  BY ScheduledNow DEF ScheduledFrames
<1>2. ASSUME NEW f \in Scheduled(c), f.ts = ts PROVE f.size = Sizes(c)[ts]
  BY <1>1, <1>2 DEF Leaves, Sizes
<1>3. PDC(c)!Scheduled(ts) = {f \in Scheduled(c) : f.ts = ts}
  BY <1>2 DEF PDC!Scheduled
<1>4. c # SPDC
  BY Constants
<1>5. ASSUME NEW f \in Scheduled(c), f.ts = ts
      PROVE  \E e \in sends : e.from = c /\ e.tag = send_events[c][ts]
  BY <1>1, <1>5 DEF Leaves
<1>6. ASSUME NEW e \in sends, e.from = c, e.tag = send_events[c][ts]
      PROVE  \E f \in Scheduled(c) : f.ts = ts
  <2> DEFINE f == [ts |-> ts, size |-> Len(payloads[c][ts]), at |-> e.at]
  <2>1. Leaves(c, ts, e, f) /\ f.ts = ts
    BY <1>6 DEF Leaves
  <2>2. QED BY <1>1, <2>1
<1>7. PDC(c)!IsExpired(ts) <=> IsExpired(c, ts)
  BY <1>3, <1>4, <1>5, <1>6 DEF PDC!IsExpired, IsExpired
<1>8. QED BY <1>3, <1>7

LEMMA PMUsFinite ==
  ASSUME NEW c \in PDCs
  PROVE  IsFiniteSet(PMUsOf(c)) /\ Cardinality(PMUsOf(c)) \in Nat
<1>1. IsFiniteSet(PMUsOf(c))
  <2>1. DOMAIN PMU_names = 1 .. Len(PMU_names) /\ Len(PMU_names) \in Nat
    BY ApplicationsAssumption
  <2>2. IsFiniteSet(DOMAIN PMU_names)
    BY <2>1, FS_Interval
  <2> DEFINE f == [i \in DOMAIN PMU_names |-> PMU_names[i]]
  <2>3. f \in Surjection(DOMAIN PMU_names, PMUs)
    BY DEF PMUs, ToSet, Surjection
  <2> HIDE DEF f
  <2>4. IsFiniteSet(PMUs)
    BY <2>2, <2>3, FS_Surjection
  <2>5. PMUsOf(c) \in SUBSET PMUs
    BY DEF PMUsOf
  <2>6. QED BY <2>4, <2>5, FS_Subset
<1>2. QED BY <1>1, FS_CardinalityType

\* A PDC holds no more payloads than it has PMUs.
LEMMA FewHeld ==
  ASSUME Inv, NEW c \in PDCs, NEW ts \in Timestamps
  PROVE  Len(payloads[c][ts]) <= Cardinality(PMUsOf(c))
<1>1. IsFiniteSet(PMUsOf(c))
  BY PMUsFinite
<1> DEFINE set == DOMAIN payloads[c][ts]
           of == [i \in set |-> CHOOSE p \in PMUsOf(c) : payloads[c][ts][i] = Clean(p, ts)]
<1>2. \A i \in set : of[i] \in PMUsOf(c) /\ payloads[c][ts][i] = Clean(of[i], ts)
  BY DEF Inv, Contents, PDCHolds
<1>3. of \in [set -> PMUsOf(c)]
  BY <1>2
<1> HIDE DEF of
<1>4. \A i, j \in set : of[i] = of[j] => i = j
  <2> TAKE i, j \in set
  <2> HAVE of[i] = of[j]
  <2>1. payloads[c][ts][i] = payloads[c][ts][j]
    BY <1>2
  <2>2. QED BY <2>1 DEF Inv, Contents, PDCHolds
<1>5. of \in Injection(set, PMUsOf(c))
  BY <1>3, <1>4 DEF Injection, IsInjective
<1>6. Cardinality(set) <= Cardinality(PMUsOf(c))
  BY <1>1, <1>5, FS_Injection
<1>7. set = 1 .. Len(payloads[c][ts]) /\ Len(payloads[c][ts]) \in Nat
  BY DEF Inv, Typed, TypedHeld
<1>8. Cardinality(set) = Len(payloads[c][ts])
  BY <1>7, FS_Interval
<1>9. QED BY <1>6, <1>8

FramesFit == \A c \in PDCs, ts \in Timestamps : Len(payloads[c][ts]) <= Cardinality(PMUsOf(c))

LEMMA FewHeldNext == Inv' => FramesFit'
<1>1. Inv => FramesFit
  BY FewHeld DEF FramesFit
<1>2. QED BY <1>1, PTL

\* The frame that a packet replaces, or begins.
LEMMA ReadSchedules ==
  ASSUME Inv, Inv', NEW k \in network, HandleRead(k), k.to \in PDCs,
         NEW ts \in Timestamps, NEW payload, PDCDoRead(k, ts, payload)
  PROVE  LET c == k.to
             time == IF IsComplete(c, ts) THEN now ELSE Deadline(c, ts)
         IN  Scheduled(c)' =
               {f \in Scheduled(c) : f.ts # ts} \cup
                 {[ts |-> ts, size |-> Len(payloads[c][ts]) + 1, at |-> time + Jitter]}
<1> DEFINE c == k.to
           time == IF IsComplete(c, ts) THEN now ELSE Deadline(c, ts)
           n == m_next_tag_id[SPDC]
           new == SendAt(c, SPDC, time)
<1>1. /\ c \in PDCs /\ c \in Concentrators /\ SPDC \in Concentrators
      /\ Accept(c, ts, payload)
      /\ \A e : e \in sends' <=>
           \/ e \in sends /\ ~ (e.from = c /\ e.tag = send_events[c][ts] /\ Begun(c, ts))
           \/ e = new
      /\ send_events' = [send_events EXCEPT ![c][ts] = n]
  BY Constants DEF PDCDoRead, IsFirst, Begun
<1>2. /\ new.from = c /\ new.tag = n /\ new.at = time + Jitter
      /\ n \in Nat /\ n \notin DOMAIN m_messages[SPDC]
  BY <1>1, NextTagFree DEF SendAt
<1> HIDE DEF c, time, n, new
<1>3. /\ Len(payloads'[c][ts]) = Len(payloads[c][ts]) + 1
      /\ \A us \in Timestamps : us # ts => payloads'[c][us] = payloads[c][us]
  BY <1>1, HeldNext, AcceptHeld
<1>4. send_events'[c][ts] = n /\ \A us \in Timestamps : us # ts => send_events'[c][us] = send_events[c][us]
  <2>1. send_events \in [Concentrators -> [Timestamps -> Nat]]
    BY DEF Inv, Typed, TypedHeld
  <2>2. QED BY <1>1, <2>1
<1>5. Begun(c, ts)'
  <2>1. payloads'[c][ts] = Append(payloads[c][ts], payload) /\ payloads[c][ts] \in Seq(Seq(Letters))
    BY <1>1, AcceptHeld DEF Inv, Typed, TypedHeld
  <2>2. QED BY <2>1, AppendFills DEF Begun
<1>6. \A e \in sends : e.from = c => e.tag # n
  <2> SUFFICES ASSUME NEW e \in sends, e.from = c PROVE e.tag # n
    OBVIOUS
  <2>1. e \in Items
    BY DEF Items
  <2>2. e.to = SPDC /\ e.tag \in DOMAIN m_messages[SPDC]
    BY <1>1, <2>1, ItemTypes, Constants
  <2>3. QED BY <1>2, <2>2
<1>7. \A us \in Timestamps : Begun(c, us) => send_events[c][us] < n /\ send_events[c][us] \in Nat
  <2>1. send_events \in [Concentrators -> [Timestamps -> Nat]]
    BY DEF Inv, Typed, TypedHeld
  <2>2. \A us \in Timestamps : Begun(c, us) => send_events[c][us] < n
    BY <1>1 DEF Inv, Contents, EventsUnique, n
  <2>3. QED BY <1>1, <2>1, <2>2
<1>8. \A f : f \in Scheduled(c) <=> \E us \in Timestamps, e \in sends : Leaves(c, us, e, f)
  BY <1>1, ScheduledNow DEF ScheduledFrames
<1>9. \A f : f \in Scheduled(c)' <=> \E us \in Timestamps, e \in sends' : Leaves(c, us, e, f)'
  BY <1>1, ScheduledNext DEF ScheduledFrames
<1> DEFINE frame == [ts |-> ts, size |-> Len(payloads[c][ts]) + 1, at |-> time + Jitter]
<1>10. ASSUME NEW us \in Timestamps, NEW e, NEW f, us = ts
       PROVE  e \in sends' /\ Leaves(c, us, e, f)' <=> e = new /\ f = frame
  <2>1. e \in sends' /\ e.from = c /\ e.tag = n <=> e = new
    BY <1>1, <1>2, <1>6
  <2>2. QED BY <1>2, <1>3, <1>4, <1>5, <1>10, <2>1 DEF Leaves
<1>11. ASSUME NEW us \in Timestamps, NEW e, NEW f, us # ts
       PROVE  e \in sends' /\ Leaves(c, us, e, f)' <=> e \in sends /\ Leaves(c, us, e, f)
  <2>1. payloads'[c][us] = payloads[c][us] /\ send_events'[c][us] = send_events[c][us]
    BY <1>3, <1>4, <1>11
  <2>2. Leaves(c, us, e, f)' <=> Leaves(c, us, e, f)
    BY <2>1 DEF Leaves, Begun
  <2>3. ASSUME Leaves(c, us, e, f)
        PROVE  e # new /\ ~ (e.from = c /\ e.tag = send_events[c][ts] /\ Begun(c, ts))
    <3>1. Begun(c, us) /\ e.tag = send_events[c][us]
      BY <2>3 DEF Leaves
    <3>2. e # new
      BY <1>2, <1>7, <3>1
    <3>3. ASSUME e.tag = send_events[c][ts], Begun(c, ts) PROVE FALSE
      BY <1>1, <1>11, <3>1, <3>3 DEF Inv, Contents, EventsUnique
    <3>4. QED BY <3>2, <3>3
  <2>4. QED BY <1>1, <2>2, <2>3
<1>12. \A us, e, f : Leaves(c, us, e, f) => f.ts = us
  BY DEF Leaves
<1> HIDE DEF frame
<1>13. \A f : f \in Scheduled(c)' <=> (f \in Scheduled(c) /\ f.ts # ts) \/ f = frame
  <2> TAKE f
  <2>1. f \in Scheduled(c)' <=>
          \/ \E e \in sends' : Leaves(c, ts, e, f)'
          \/ \E us \in Timestamps \ {ts} : \E e \in sends' : Leaves(c, us, e, f)'
    BY <1>9
  <2>2. (\E e \in sends' : Leaves(c, ts, e, f)') <=> f = frame
    <3>1. \A e : e \in sends' /\ Leaves(c, ts, e, f)' <=> e = new /\ f = frame
      BY <1>10
    <3>2. QED BY <3>1
  <2>3. (\E us \in Timestamps \ {ts} : \E e \in sends' : Leaves(c, us, e, f)')
          <=> \E us \in Timestamps \ {ts} : \E e \in sends : Leaves(c, us, e, f)
    BY <1>11
  <2>4. (\E us \in Timestamps \ {ts} : \E e \in sends : Leaves(c, us, e, f))
          <=> f \in Scheduled(c) /\ f.ts # ts
    BY <1>8, <1>12
  <2>5. QED BY <2>1, <2>2, <2>3, <2>4
<1>14. Scheduled(c)' = {f \in Scheduled(c) : f.ts # ts} \cup {frame}
  BY <1>13
<1>15. QED BY <1>14 DEF c, time, frame

LEMMA PDCReads ==
  ASSUME Inv, Inv', Surroundings, NEW k \in network, HandleRead(k), k.to \in PDCs
  PROVE  PDC(k.to)!Next
<1>1. PICK ts \in Timestamps : \E payload :
        ReadsAt(k, ts, payload) /\ Measured(k, ts) /\ payload = Clean(k.from, ts)
  BY ReadDetails
<1> DEFINE c == k.to
           name == PMUName(k.from)
           payload == Clean(k.from, ts)
           time == IF IsComplete(c, ts) THEN now ELSE Deadline(c, ts)
<1>2. ReadsAt(k, ts, payload) /\ Measured(k, ts)
  BY <1>1
<1>3. /\ UNCHANGED <<now, status, frames>> /\ Runs /\ status[c] = "open" /\ k \in Items
      /\ c \in PDCs /\ c \in Concentrators /\ c # SPDC
      /\ k.from \in PMUs /\ c = Target[k.from]
  BY ReadDetails, ItemTypes, Constants
<1>4. name \in NamesOf[c] /\ NameIn(payload) = name /\ NameOf(k) = name
  BY <1>3, TextReads DEF NamesOf, PMUsOf, NameOf
<1> HIDE DEF name, payload
<1>5. PDC(c)!Arrive(ts, name)
  <2>1. <<ts, name>> \notin arrived[c]
    BY <1>2, <1>3 DEF Surroundings, Unheard, Measured, name
  <2>2. arrived'[c] = arrived[c] \cup {<<ts, name>>}
    BY <1>2, <1>3, <1>4 DEF ReadsAt, Surroundings
  <2>3. QED BY <1>3, <2>1, <2>2 DEF PDC!Arrive
<1>6. CASE IsLate(c, ts)
  <2>1. /\ UNCHANGED <<payloads, send_events, first_arrival, last_arrival, sends>>
        /\ Begun(c, ts) /\ IsExpired(c, ts)
    BY <1>2, <1>6, ReadEffects DEF IsLate, IsFirst, Begun
  <2>2. Held(c)[ts] # <<>> /\ PDC(c)!IsExpired(ts)
    BY <1>3, <2>1, HeldIs, ExpiredIs DEF Begun
  <2>3. UNCHANGED <<Held(c), Sizes(c), Scheduled(c)>>
    BY <1>3, <2>1, SameScheduled DEF Held, Sizes
  <2>4. PDC(c)!LatePacket(ts, name)
    BY <1>3, <1>5, <2>1, <2>2, <2>3 DEF PDC!LatePacket, PDC!pdcVars
  <2>5. QED BY <1>3, <1>4, <2>4 DEF PDC!Next, PDC!DoRead, c
<1>7. CASE ~ IsLate(c, ts)
  <2>1. PDCDoRead(k, ts, payload)
    BY <1>2, <1>3, <1>7 DEF ReadsAt
  <2>2. Accept(c, ts, payload)
    BY <2>1 DEF PDCDoRead
  <2>3. /\ Held(c)' = [Held(c) EXCEPT ![ts] = Append(@, name)]
        /\ Sizes(c)' = [Sizes(c) EXCEPT ![ts] = Len(Held(c)[ts]) + 1]
        /\ Len(payloads'[c][ts]) = Len(Held(c)[ts]) + 1
        /\ Len(Held(c)[ts]) = Len(payloads[c][ts])
        /\ Held(c)[ts] = <<>> <=> payloads[c][ts] = <<>>
    <3>1. /\ Held(c)' = [Held(c) EXCEPT ![ts] = Append(@, NameIn(payload))]
          /\ Sizes(c)' = [Sizes(c) EXCEPT ![ts] = Len(Held(c)[ts]) + 1]
          /\ Len(payloads'[c][ts]) = Len(payloads[c][ts]) + 1
      BY <1>3, <2>2, HeldNext
    <3>2. /\ Len(Held(c)[ts]) = Len(payloads[c][ts])
          /\ Held(c)[ts] = <<>> <=> payloads[c][ts] = <<>>
      BY <1>3, HeldIs
    <3>3. QED BY <1>4, <3>1, <3>2
  <2>4. /\ last_arrival'[c] = [last_arrival[c] EXCEPT ![ts] = now]
        /\ first_arrival'[c] = IF IsFirst(c, ts) THEN [first_arrival[c] EXCEPT ![ts] = now]
                               ELSE first_arrival[c]
    <3>1. /\ first_arrival \in [Concentrators -> [Timestamps -> Nat]]
          /\ last_arrival \in [Concentrators -> [Timestamps -> Nat]]
      BY DEF Inv, Typed, TypedHeld
    <3>2. QED BY <1>3, <2>2, <3>1 DEF Accept
  <2>5. PDC(c)!Accept(ts, name)
    BY <2>3, <2>4 DEF PDC!Accept
  <2>6. time \in Nat /\ time + Jitter >= now
    BY <1>3, <1>7, NotInThePast
  <2>7. Scheduled(c)' = {f \in Scheduled(c) : f.ts # ts} \cup
                          {[ts |-> ts, size |-> Len(Held(c)[ts]) + 1, at |-> time + Jitter]}
    BY <1>3, <2>1, <2>3, ReadSchedules
  <2> HIDE DEF time
  <2>8. ~ (Len(Held(c)[ts]) + 1 > Cardinality(PMUsOf(c)))
    <3>1. Len(payloads'[c][ts]) <= Cardinality(PMUsOf(c))
      BY <1>3, FewHeldNext DEF FramesFit
    <3>2. ASSUME NEW x, x = Len(Held(c)[ts]) + 1, x = Len(payloads'[c][ts]) PROVE ~ (x > Cardinality(PMUsOf(c)))
      <4>1. Cardinality(PMUsOf(c)) \in Nat /\ x \in Nat
        BY <1>3, <2>3, <3>2, HeldIs, PMUsFinite
      <4>2. QED BY <3>1, <3>2, <4>1
    <3>3. QED BY <2>3, <3>2
  <2>9. ASSUME NEW cancelled, Scheduled(c) \ cancelled = {f \in Scheduled(c) : f.ts # ts}
        PROVE  PDC(c)!SendPadded(ts, time, cancelled)
    <3>1. now \in Nat /\ Jitter \in Nat /\ Jitter \in {Jitter}
      BY Constants DEF Inv, Typed, TypedClock
    <3>2. ~ (time + Jitter - now < 0)
      BY <2>6, <3>1
    <3>3. PDC(c)!Send(ts, time, cancelled)
      BY <1>3, <2>3, <2>7, <2>9, <3>1, <3>2 DEF PDC!Send
    <3>4. QED BY <2>8, <3>3 DEF PDC!SendPadded
  <2>10. CASE IsFirst(c, ts)
    <3>1. time = now + timer[c] /\ Held(c)[ts] = <<>>
      BY <2>3, <2>10 DEF time, IsFirst, IsComplete, Deadline
    <3>2. Scheduled(c) \ {} = {f \in Scheduled(c) : f.ts # ts}
      <4>1. \A f \in Scheduled(c) : f.ts # ts
        BY <1>3, <2>10, ScheduledNow DEF ScheduledFrames, Leaves, Begun, IsFirst
      <4>2. QED BY <4>1
    <3>3. PDC(c)!SendPadded(ts, now + timer[c], {})
      BY <2>9, <3>1, <3>2
    <3>4. now + timer[c] + 2 * PDC(c)!MaxJitter <= Unbounded
      <4>1. PDC(c)!MaxJitter = Jitter /\ Jitter \in Nat
        BY Constants DEF PDC!MaxJitter
      <4>2. /\ now \in Nat /\ End \in Nat /\ now < End /\ timer[c] \in Nat /\ timer[SPDC] \in Nat
            /\ timer[c] + timer[SPDC] < cleanup_time /\ End = stop_time + cleanup_time
            /\ stop_time \in Nat /\ cleanup_time \in Nat
        BY <1>3, Constants, TimesAssumption, CleanupAssumption
        DEF Runs, Inv, Typed, TypedClock, End
      <4>3. QED BY <4>1, <4>2 DEF Unbounded
    <3>5. first_arrival'[c] = [first_arrival[c] EXCEPT ![ts] = now]
      BY <2>4, <2>10
    <3>6. PDC(c)!FirstPacket(ts, name)
      BY <1>3, <1>5, <2>5, <3>1, <3>3, <3>4, <3>5 DEF PDC!FirstPacket
    <3>7. QED BY <1>3, <1>4, <3>6 DEF PDC!Next, PDC!DoRead, c
  <2>11. CASE ~ IsFirst(c, ts)
    <3>1. Begun(c, ts) /\ ~ IsExpired(c, ts) /\ Held(c)[ts] # <<>>
      BY <1>7, <2>3, <2>11 DEF IsFirst, Begun, IsLate
    <3>2. ~ PDC(c)!IsExpired(ts) /\ PDC(c)!Scheduled(ts) = {f \in Scheduled(c) : f.ts = ts}
      BY <1>3, <3>1, ExpiredIs
    <3>3. PDC(c)!FrameTime(ts) = time
      BY <2>3, <2>11 DEF PDC!FrameTime, PDC!IsComplete, time, IsComplete, Deadline
    <3>4. Scheduled(c) \ PDC(c)!Scheduled(ts) = {f \in Scheduled(c) : f.ts # ts}
      BY <3>2
    <3>5. PDC(c)!SendPadded(ts, PDC(c)!FrameTime(ts), PDC(c)!Scheduled(ts))
      BY <2>9, <3>3, <3>4
    <3>6. first_arrival'[c] = first_arrival[c]
      BY <2>4, <2>11
    <3>7. PDC(c)!NextPacket(ts, name)
      BY <1>3, <1>5, <2>5, <3>1, <3>2, <3>5, <3>6 DEF PDC!NextPacket
    <3>8. QED BY <1>3, <1>4, <3>7 DEF PDC!Next, PDC!DoRead, c
  <2>12. QED BY <2>10, <2>11
<1>8. QED BY <1>6, <1>7

LEMMA PDCSends ==
  ASSUME Inv, Inv', NEW e \in sends, SendTo(e), e.from \in PDCs
  PROVE  PDC(e.from)!Next
<1> DEFINE c == e.from
<1>1. /\ e.at = now /\ sends' = sends \ {e} /\ c \in PDCs /\ c \in Concentrators /\ c \in Apps
      /\ UNCHANGED <<now, status, m_messages, payloads, first_arrival, send_events, arrived, last_arrival>>
      /\ frames' = IF status[c] = "open" THEN [frames EXCEPT ![c] = Append(@, AsFrame(e))] ELSE frames
  BY Constants DEF SendTo
<1>2. AsFrame(e) \in Scheduled(c) /\ AsFrame(e).at = now
  BY <1>1, AsFrameIs DEF Scheduled
<1>3. \A o \in sends : o.from = c /\ AsFrame(o) = AsFrame(e) => o = e
  <2> SUFFICES ASSUME NEW o \in sends, o.from = c, AsFrame(o) = AsFrame(e) PROVE o = e
    OBVIOUS
  <2>1. o.tag = e.tag
    BY <1>1, AsFrameIs
  <2>2. o.to = SPDC /\ e.to = SPDC /\ o \in Items /\ e \in Items
    BY <1>1, ItemTypes, Constants DEF Items
  <2>3. QED BY <2>1, <2>2 DEF Inv, TagsUnique
<1>4. Scheduled(c)' = Scheduled(c) \ {AsFrame(e)}
  <2>1. \A o : AsFrame(o)' = AsFrame(o)
    BY <1>1 DEF AsFrame
  <2>2. Scheduled(c)' = {AsFrame(o) : o \in {o \in sends \ {e} : o.from = c}}
    BY <1>1, <2>1 DEF Scheduled
  <2>3. QED BY <1>3, <2>2 DEF Scheduled
<1>5. UNCHANGED <<Held(c), Sizes(c)>>
  BY <1>1 DEF Held, Sizes
<1>6. frames'[c] = IF status[c] = "open" THEN Append(frames[c], AsFrame(e)) ELSE frames[c]
  <2>1. frames \in [Concentrators -> Seq(Read)]
    BY DEF Inv, Typed, TypedReads
  <2>2. QED BY <1>1, <2>1
<1>7. status[c] \in {"open", "closed"}
  BY <1>1 DEF Inv, Typed, TypedClock
<1>8. PDC(c)!SendTo(AsFrame(e))
  BY <1>1, <1>2, <1>4, <1>5, <1>6, <1>7 DEF PDC!SendTo, PDC!Running, PDC!pdcVars
<1>9. QED BY <1>2, <1>8 DEF PDC!Next, c

LEMMA PDCStops ==
  ASSUME Inv, Inv', NEW c \in PDCs, StopApplications
  PROVE  PDC(c)!Next \/ UNCHANGED PDC(c)!vars
<1> USE DEF StopApplications
<1>1. c \in Apps
  BY Constants
<1>2. CASE c \in Stopping
  <2>1. status[c] = "open" /\ status'[c] = "closed"
    BY <1>1, <1>2 DEF Stopping
  <2>2. UNCHANGED <<Held(c), Sizes(c), Scheduled(c)>>
    BY SameScheduled DEF Held, Sizes
  <2>3. PDC(c)!StopApplication
    BY <2>1, <2>2 DEF PDC!StopApplication, PDC!pdcVars
  <2>4. QED BY <2>3 DEF PDC!Next
<1>3. CASE c \notin Stopping
  <2>1. status'[c] = status[c]
    BY <1>1, <1>3
  <2>2. QED BY <2>1, PDCIdle
<1>4. QED BY <1>2, <1>3

LEMMA PDCTicks ==
  ASSUME Inv, Inv', NEW c \in PDCs, Tick
  PROVE  PDC(c)!Next
<1> USE DEF Tick
<1>1. \A f \in Scheduled(c) : f.at > now
  BY ScheduledNow DEF ScheduledFrames, Leaves
<1>2. now < Unbounded
  <2>1. now \in Nat /\ End \in Nat /\ Jitter \in Nat /\ timer[SPDC] \in Nat /\ now < End
    BY Constants DEF Inv, Typed, TypedClock, Runs
  <2>2. QED BY <2>1 DEF Unbounded
<1>3. UNCHANGED <<Held(c), Sizes(c), Scheduled(c)>>
  BY SameScheduled DEF Held, Sizes
<1>4. status[c] \in {"open", "closed"}
  BY Constants DEF Inv, Typed, TypedClock
<1>5. PDC(c)!Tick
  BY <1>1, <1>2, <1>3, <1>4 DEF PDC!Tick, PDC!Running, PDC!pdcVars
<1>6. QED BY <1>5 DEF PDC!Next

LEMMA PDCStep ==
  ASSUME Inv, Inv', Surroundings, [Next]_vars, NEW c \in PDCs
  PROVE  [PDC(c)!Next]_(PDC(c)!vars)
<1>0. c \in Concentrators /\ c # SPDC /\ c \notin PMUs
  BY Constants
<1>1. CASE StopApplications
  BY <1>1, PDCStops
<1>2. ASSUME NEW p \in PMUs, GenerateMeasurement(p) PROVE UNCHANGED PDC(c)!vars
  <2>1. \A e : e.from = c => (e \in sends' <=> e \in sends)
    <3>1. SendAt(p, Target[p], generate[p]).from # c
      BY <1>0 DEF SendAt
    <3>2. sends' = sends \cup {SendAt(p, Target[p], generate[p])}
      BY <1>2 DEF GenerateMeasurement
    <3>3. QED BY <3>1, <3>2
  <2>2. QED BY <1>2, <2>1, PDCIdle DEF GenerateMeasurement
<1>3. ASSUME NEW e \in sends, SendTo(e) PROVE PDC(c)!Next \/ UNCHANGED PDC(c)!vars
  <2>1. CASE e.from = c
    BY <1>3, <2>1, PDCSends
  <2>2. CASE e.from # c
    <3>1. frames'[c] = frames[c]
      <4>1. DOMAIN frames = Concentrators
        BY DEF Inv, Typed, TypedReads
      <4>2. \/ frames' = frames
            \/ frames' = [frames EXCEPT ![e.from] = Append(@, AsFrame(e))]
        BY <1>3 DEF SendTo
      <4>3. QED BY <1>0, <2>2, <4>1, <4>2
    <3>2. \A o : o.from = c => (o \in sends' <=> o \in sends)
      BY <1>3, <2>2 DEF SendTo
    <3>3. QED BY <1>3, <3>1, <3>2, PDCIdle DEF SendTo
  <2>3. QED BY <2>1, <2>2
<1>4. ASSUME NEW e \in reads, ReadPayloads(e) PROVE UNCHANGED PDC(c)!vars
  <2>1. frames'[c] = frames[c]
    BY <1>0, <1>4 DEF ReadPayloads
  <2>2. QED BY <1>4, <2>1, PDCIdle DEF ReadPayloads
<1>5. ASSUME NEW k \in network, HandleRead(k) PROVE PDC(c)!Next \/ UNCHANGED PDC(c)!vars
  <2>1. CASE k.to = c
    BY <1>5, <2>1, PDCReads
  <2>2. CASE k.to # c
    <3>1. PICK ts \in Timestamps : \E payload : ReadsAt(k, ts, payload)
      BY <1>5, ReadDetails
    <3>2. PICK payload : ReadsAt(k, ts, payload)
      BY <3>1
    <3>3. UNCHANGED <<now, status, frames>>
      BY <1>5, ReadDetails
    <3>4. arrived'[c] = arrived[c]
      BY <2>2, <3>2, <1>0 DEF ReadsAt, Surroundings
    <3>5. /\ payloads'[c] = payloads[c] /\ send_events'[c] = send_events[c]
          /\ first_arrival'[c] = first_arrival[c] /\ last_arrival'[c] = last_arrival[c]
      BY <1>0, <1>5, <2>2, <3>2, ReadEffects
    <3>6. \A e : e.from = c => (e \in sends' <=> e \in sends)
      BY <1>5, <2>2, <3>2, ReadEffects
    <3>7. QED BY <3>3, <3>4, <3>5, <3>6, PDCIdle
  <2>3. QED BY <2>1, <2>2
<1>6. ASSUME NEW k \in network, Lose(k) PROVE UNCHANGED PDC(c)!vars
  BY <1>6, PDCIdle DEF Lose
<1>7. CASE Tick
  BY <1>7, PDCTicks
<1>8. CASE UNCHANGED vars
  BY <1>8, PDCIdle DEF vars
<1>9. QED
  BY <1>1, <1>2, <1>3, <1>4, <1>5, <1>6, <1>7, <1>8 DEF Next, Event, Transport, Finished

LEMMA PDCInit == Init => \A c \in PDCs : PDC(c)!Init
<1> SUFFICES ASSUME Init, NEW c \in PDCs PROVE PDC(c)!Init
  OBVIOUS
<1>1. c \in Concentrators /\ c \in Apps
  BY Constants
<1>2. /\ now = 0 /\ status[c] = "open" /\ arrived[c] = {} /\ frames[c] = <<>> /\ sends = {}
      /\ \A ts \in Timestamps : payloads[c][ts] = <<>>
      /\ first_arrival[c] = [ts \in Timestamps |-> 0]
      /\ last_arrival[c] = [ts \in Timestamps |-> 0]
  BY <1>1 DEF Init, ForAll, Empty
<1>3. Held(c) = [ts \in Timestamps |-> <<>>]
  <2>1. ASSUME NEW ts \in Timestamps PROVE Held(c)[ts] = <<>>
    <3>1. DOMAIN payloads[c][ts] = {}
      BY <1>2
    <3>2. Held(c)[ts] = [i \in {} |-> NameIn(payloads[c][ts][i])]
      BY <3>1 DEF Held
    <3>3. QED BY <3>2
  <2>2. QED BY <2>1 DEF Held
<1>4. Sizes(c) = [ts \in Timestamps |-> 0] /\ Scheduled(c) = {}
  BY <1>2 DEF Sizes, Scheduled
<1>5. QED BY <1>2, <1>3, <1>4 DEF PDC!Init

(***************************************************************************)
(* The SPDC as HelicsSPDCApplication sees it.                              *)
(***************************************************************************)
\* What a PDC puts together is a frame as the SPDC expects it from this PDC.
LEMMA FrameSent ==
  ASSUME NamesDiffer, Inv, NEW c \in PDCs, NEW ts \in Timestamps, Begun(c, ts),
         NEW text, Lines(text) = payloads[c][ts]
  PROVE  /\ NamesIn(text) \in FramesOf[c]
         /\ Control!NamedIn(NamesIn(text)) = LoggedNames(text)
<1> DEFINE s == payloads[c][ts]
           f == NamesIn(text)
           D == 1 .. Len(s)
           names == {f[i] : i \in D}
<1>1. s \in Seq(Seq(Letters)) /\ s # <<>>
  BY DEF Inv, Typed, TypedHeld, Begun
<1>2. Len(s) \in Nat /\ Len(s) > 0 /\ DOMAIN s = D
  BY <1>1
<1>3. f = [i \in D |-> NameIn(s[i])]
  BY <1>2 DEF NamesIn
<1>4. ASSUME NEW i \in D
      PROVE  \E p \in PMUsOf(c) : s[i] = Clean(p, ts) /\ NameIn(s[i]) = PMUName(p)
  <2>1. PICK p \in PMUsOf(c) : s[i] = Clean(p, ts)
    BY <1>2 DEF Inv, Contents, PDCHolds
  <2>2. NameIn(Clean(p, ts)) = PMUName(p)
    BY TextReads DEF PMUsOf
  <2>3. QED BY <2>1, <2>2
<1>5. \A i, j \in D : f[i] = f[j] => i = j
  <2> SUFFICES ASSUME NEW i \in D, NEW j \in D, NameIn(s[i]) = NameIn(s[j]) PROVE i = j
    BY <1>3
  <2>1. PICK p \in PMUsOf(c) : s[i] = Clean(p, ts) /\ NameIn(s[i]) = PMUName(p)
    BY <1>4
  <2>2. PICK q \in PMUsOf(c) : s[j] = Clean(q, ts) /\ NameIn(s[j]) = PMUName(q)
    BY <1>4
  <2>3. p = q
    BY <2>1, <2>2 DEF NamesDiffer, PMUsOf
  <2>4. QED BY <1>2, <2>1, <2>2, <2>3 DEF Inv, Contents, PDCHolds
<1>6. names \in (SUBSET NamesOf[c]) \ {{}}
  <2>1. \A i \in D : f[i] \in NamesOf[c]
    BY <1>3, <1>4 DEF NamesOf
  <2>2. 1 \in D
    BY <1>2
  <2> HIDE DEF f, D
  <2>3. names \subseteq NamesOf[c] /\ names # {}
    BY <2>1, <2>2
  <2>4. QED BY <2>3
<1>7. Cardinality(names) = Len(s)
  <2>1. f \in [D -> names]
    BY <1>3
  <2>2. IsFiniteSet(D) /\ Cardinality(D) = Len(s)
    BY <1>2, FS_Interval
  <2> HIDE DEF f, D
  <2>3. f \in Bijection(D, names)
    BY <1>5, <2>1 DEF Bijection, Injection, Surjection, IsInjective
  <2>4. ExistsBijection(D, names)
    BY <2>3 DEF ExistsBijection
  <2>5. QED BY <2>2, <2>4, FS_Bijection
<1>8. f \in SetToSeqs(names)
  <2>1. f \in [D -> names]
    BY <1>3
  <2> HIDE DEF f, names
  <2>2. QED BY <1>5, <1>7, <2>1 DEF SetToSeqs
<1>9. f \in FramesOf[c]
  <2> HIDE DEF f, names
  <2>1. QED BY <1>6, <1>8 DEF FramesOf
<1>10. Control!NamedIn(f) = LoggedNames(text)
  <2>1. Len(f) = Len(s)
    <3>1. f \in [1 .. Len(s) -> names]
      BY <1>3
    <3> HIDE DEF f, names
    <3>2. f \in Seq(names)
      BY <1>2, <3>1
    <3>3. QED BY <1>2, <3>1, <3>2
  <2> HIDE DEF f
  <2>2. QED BY <2>1 DEF Control!NamedIn, LoggedNames, f
<1>11. QED BY <1>9, <1>10

LEMMA FramesHeldIs ==
  ASSUME Inv, NEW ts \in Timestamps
  PROVE  /\ Len(HeldFrames[ts]) = Len(payloads[SPDC][ts]) /\ Len(payloads[SPDC][ts]) \in Nat
         /\ (HeldFrames[ts] = <<>> <=> payloads[SPDC][ts] = <<>>)
<1>1. payloads[SPDC][ts] \in Seq(Seq(Characters))
  BY DEF Inv, Typed, TypedHeld
<1> DEFINE s == payloads[SPDC][ts]
           f == HeldFrames[ts]
           g == [i \in DOMAIN s \cup {Len(s) + 1} |-> IF i = Len(s) + 1 THEN 0 ELSE f[i]]
<1>2. f = [i \in DOMAIN s |-> NamesIn(s[i])]
  BY DEF HeldFrames
<1>3. DOMAIN s = 1 .. Len(s) /\ Len(s) \in Nat
  BY <1>1
<1> HIDE DEF f, s
<1>4. /\ f = [i \in DOMAIN s |-> f[i]]
      /\ g = [i \in DOMAIN s \cup {Len(s) + 1} |-> g[i]]
      /\ \A i \in DOMAIN s : g[i] = f[i]
      /\ g[Len(s) + 1] = 0
  BY <1>2, <1>3
<1> HIDE DEF g
<1>5. s \in Seq(Seq(Characters))
  BY <1>1 DEF s
<1>6. Len(f) = Len(s) /\ (f = <<>> <=> s = <<>>)
  BY <1>4, <1>5, AppendIs
<1>7. QED BY <1>3, <1>6 DEF f, s

LEMMA FramesHeldNext ==
  ASSUME Inv, NEW ts \in Timestamps, NEW payload, Accept(SPDC, ts, payload)
  PROVE  HeldFrames' = [HeldFrames EXCEPT ![ts] = Append(@, NamesIn(payload))]
<1>1. payloads[SPDC][ts] \in Seq(Seq(Characters)) /\ SPDC \in Concentrators
  BY Constants DEF Inv, Typed, TypedHeld
<1>2. /\ payloads'[SPDC][ts] = Append(payloads[SPDC][ts], payload)
      /\ \A us \in Timestamps : us # ts => payloads'[SPDC][us] = payloads[SPDC][us]
  BY <1>1, AcceptHeld
<1> DEFINE s == payloads[SPDC][ts]
           t == payloads'[SPDC][ts]
           f == [i \in DOMAIN s |-> NamesIn(s[i])]
           g == [i \in DOMAIN t |-> NamesIn(t[i])]
<1>3. /\ DOMAIN t = DOMAIN s \cup {Len(s) + 1}
      /\ \A i \in DOMAIN s : t[i] = s[i]
      /\ t[Len(s) + 1] = payload /\ Len(s) + 1 \notin DOMAIN s
  <2>1. s \in Seq(Seq(Characters) \cup {payload}) /\ payload \in Seq(Characters) \cup {payload}
    BY <1>1
  <2> DEFINE R == Seq(Characters) \cup {payload}
  <2>2. t = Append(s, payload)
    BY <1>2
  <2> HIDE DEF R, s, t
  <2>3. QED BY <2>1, <2>2, Appended DEF R
<1>4. s \in Seq(Seq(Characters))
  BY <1>1
<1>5. HeldFrames[ts] = f /\ HeldFrames'[ts] = g
  BY DEF HeldFrames
<1> HIDE DEF s, t
<1>6. /\ f = [i \in DOMAIN s |-> f[i]]
      /\ g = [i \in DOMAIN s \cup {Len(s) + 1} |-> g[i]]
      /\ \A i \in DOMAIN s : g[i] = f[i]
      /\ g[Len(s) + 1] = NamesIn(payload)
  BY <1>3
<1> HIDE DEF f, g
<1>7. g = Append(f, NamesIn(payload))
  BY <1>4, <1>6, AppendIs
<1>8. \A us \in Timestamps : us # ts => HeldFrames'[us] = HeldFrames[us]
  BY <1>2 DEF HeldFrames
<1>9. /\ HeldFrames' = [us \in Timestamps |-> HeldFrames'[us]]
      /\ HeldFrames = [us \in Timestamps |-> HeldFrames[us]]
  BY DEF HeldFrames
<1>10. HeldFrames'[ts] = Append(HeldFrames[ts], NamesIn(payload))
  BY <1>5, <1>7
<1>11. QED BY <1>8, <1>9, <1>10

LEMMA Horizons ==
  ASSUME Inv, now < End
  PROVE  /\ nb_aggregates[SPDC] * (now + timer[SPDC]) <= (1 + nb_aggregates[SPDC]) * Unbounded
         /\ now < (1 + nb_aggregates[SPDC]) * Unbounded
<1>1. /\ now \in Nat /\ End \in Nat /\ Jitter \in Nat
      /\ timer[SPDC] \in Nat /\ nb_aggregates[SPDC] \in Nat
  BY Constants DEF Inv, Typed, TypedClock
<1> DEFINE n == nb_aggregates[SPDC]
           u == Unbounded
           t == now + timer[SPDC]
<1>2. u \in Nat /\ t \in Nat /\ t <= u /\ n \in Nat /\ now < u
  BY <1>1 DEF Unbounded
<1> HIDE DEF n, u, t
<1>3. (1 + n) * u = u + n * u /\ n * t \in Nat /\ n * u \in Nat
  BY <1>2
<1>4. n * t <= n * u
  <2>1. PICK d \in Nat : u = t + d
    <3>1. u - t \in Nat /\ u = t + (u - t)
      BY <1>2
    <3>2. QED BY <3>1
  <2>2. n * u = n * t + n * d /\ n * d \in Nat
    BY <1>2, <2>1
  <2>3. QED BY <1>3, <2>2
<1>5. n * t <= (1 + n) * u /\ now < (1 + n) * u
  BY <1>1, <1>2, <1>3, <1>4
<1>6. QED BY <1>5 DEF n, t, u

LEMMA ControlReads ==
  ASSUME NamesDiffer, Inv, Surroundings, NEW k \in network, HandleRead(k), k.to = SPDC
  PROVE  Control!SPDCNext
<1>1. PICK ts \in Timestamps : \E payload :
        /\ ReadsAt(k, ts, payload) /\ IsFrameOf(k, ts)
        /\ Lines(payload) = payloads[k.from][ts]
  BY ReadDetails
<1>2. PICK payload :
        /\ ReadsAt(k, ts, payload) /\ IsFrameOf(k, ts)
        /\ Lines(payload) = payloads[k.from][ts]
  BY <1>1
<1> DEFINE c == k.from
           pmus == NamesIn(payload)
<1>3. /\ UNCHANGED <<now, status, frames>> /\ Runs /\ status[SPDC] = "open" /\ k \in Items
      /\ c \in PDCs /\ SPDC \notin PDCs /\ SPDC \in Concentrators
  BY ReadDetails, ItemTypes, Constants
<1>4. Begun(c, ts) /\ k.tag = send_events[c][ts] /\ ts <= now
  BY <1>2, <1>3 DEF IsFrameOf, Surroundings, InTime
<1>5. pmus \in FramesOf[c] /\ Control!NamedIn(pmus) = LoggedNames(payload)
  BY <1>2, <1>3, <1>4, FrameSent
<1> HIDE DEF c, pmus
<1>6. Control!Arrive(ts, c)
  <2>1. <<ts, c>> \notin arrived[SPDC]
    BY <1>3, <1>4 DEF Surroundings, HeardOnce, Gone
  <2>2. arrived'[SPDC] = arrived[SPDC] \cup {<<ts, c>>}
    BY <1>2, <1>3 DEF ReadsAt, Surroundings, NameOf, c
  <2>3. QED BY <1>3, <2>1, <2>2 DEF Control!Arrive
<1>7. ASSUME Control!DoReadFrame(ts, c, pmus) PROVE Control!SPDCNext
  BY <1>3, <1>5, <1>7 DEF Control!SPDCNext
<1>8. ASSUME Begun(SPDC, ts) PROVE HeldFrames[ts] # <<>> /\ (Control!IsExpired(ts) <=> IsExpired(SPDC, ts))
  BY <1>8, FramesHeldIs DEF Begun, Control!IsExpired, Control!Scheduled, IsExpired
<1>9. CASE IsLate(SPDC, ts)
  <2>1. UNCHANGED <<payloads, send_events, first_arrival, last_arrival, reads, delays>>
    BY <1>2, <1>9, ReadEffects
  <2>2. HeldFrames' = HeldFrames
    BY <2>1 DEF HeldFrames
  <2>3. HeldFrames[ts] # <<>> /\ Control!IsExpired(ts)
    BY <1>8, <1>9 DEF IsLate, IsFirst, Begun
  <2>4. Control!LateFrame(ts, c, pmus)
    BY <1>3, <1>6, <2>1, <2>2, <2>3
    DEF Control!LateFrame, Control!LatePacket, Control!pdcVars
  <2>5. QED BY <1>7, <2>4 DEF Control!DoReadFrame
<1>10. CASE ~ IsLate(SPDC, ts)
  <2> DEFINE size == Len(payloads[SPDC][ts]) + 1
             delay == IF IsComplete(SPDC, ts) THEN 0 ELSE Deadline(SPDC, ts)
  <2>1. SPDCDoRead(k, ts, payload)
    BY <1>2, <1>10 DEF ReadsAt
  <2>2. /\ Accept(SPDC, ts, payload)
        /\ LogDelays(ts, LoggedNames(payload))
        /\ reads' = {e \in reads : e.ts # ts \/ e.size # send_events[SPDC][ts]} \cup
                      {[ts |-> ts, size |-> size, at |-> now + delay]}
        /\ send_events' = [send_events EXCEPT ![SPDC][ts] = size]
    BY <2>1, <1>3 DEF SPDCDoRead
  <2>3. /\ last_arrival'[SPDC] = [last_arrival[SPDC] EXCEPT ![ts] = now]
        /\ first_arrival'[SPDC] = IF IsFirst(SPDC, ts)
                                  THEN [first_arrival[SPDC] EXCEPT ![ts] = now]
                                  ELSE first_arrival[SPDC]
        /\ send_events'[SPDC] = [send_events[SPDC] EXCEPT ![ts] = size]
    <3>1. /\ first_arrival \in [Concentrators -> [Timestamps -> Nat]]
          /\ last_arrival \in [Concentrators -> [Timestamps -> Nat]]
          /\ send_events \in [Concentrators -> [Timestamps -> Nat]]
      BY DEF Inv, Typed, TypedHeld
    <3> HIDE DEF size
    <3>2. QED BY <1>3, <2>2, <3>1 DEF Accept
  <2>4. Control!Accept(ts, pmus)
    BY <2>2, <2>3, FramesHeldNext DEF Control!Accept, pmus
  <2>5. Control!LogDelays(ts, pmus)
    BY <1>5, <2>2 DEF Control!LogDelays, LogDelays
  <2>6. size = Len(HeldFrames[ts]) + 1 /\ (HeldFrames[ts] = <<>> <=> IsFirst(SPDC, ts))
    BY FramesHeldIs DEF IsFirst
  <2> HIDE DEF size, delay
  <2>7. ASSUME NEW cancelled,
               reads \ cancelled = {e \in reads : e.ts # ts \/ e.size # send_events[SPDC][ts]}
        PROVE  Control!ScheduleRead(ts, delay, cancelled)
    BY <2>2, <2>3, <2>6, <2>7 DEF Control!ScheduleRead
  <2>8. CASE IsFirst(SPDC, ts)
    <3>1. delay = now + timer[SPDC]
      BY <2>8 DEF delay, IsFirst, IsComplete, Deadline
    <3>2. \A e \in reads : e.ts # ts
      BY <2>8 DEF Surroundings, InTime, Begun, IsFirst
    <3>3. reads \ {} = {e \in reads : e.ts # ts \/ e.size # send_events[SPDC][ts]}
      BY <3>2
    <3>4. Control!ScheduleRead(ts, now + timer[SPDC], {})
      BY <2>7, <3>1, <3>3
    <3>5. nb_aggregates[SPDC] * (now + timer[SPDC]) <= (1 + nb_aggregates[SPDC]) * Unbounded
      BY <1>3, Horizons DEF Runs
    <3>6. first_arrival'[SPDC] = [first_arrival[SPDC] EXCEPT ![ts] = now]
      BY <2>3, <2>8
    <3>7. Control!FirstFrame(ts, c, pmus)
      BY <1>3, <1>4, <1>6, <2>4, <2>5, <2>6, <2>8, <3>4, <3>5, <3>6 DEF Control!FirstFrame
    <3>8. QED BY <1>7, <3>7 DEF Control!DoReadFrame
  <2>9. CASE ~ IsFirst(SPDC, ts)
    <3>1. HeldFrames[ts] # <<>> /\ ~ Control!IsExpired(ts)
      BY <1>8, <1>10, <2>9 DEF IsLate, IsFirst, Begun
    <3>2. delay = IF Control!IsComplete(ts) THEN 0 ELSE first_arrival[SPDC][ts] + timer[SPDC]
      BY <2>9, FramesHeldIs DEF delay, IsComplete, Deadline, Control!IsComplete
    <3>3. reads \ Control!Scheduled(ts)
            = {e \in reads : e.ts # ts \/ e.size # send_events[SPDC][ts]}
      BY DEF Control!Scheduled
    <3>4. Control!ScheduleRead(ts, IF Control!IsComplete(ts) THEN 0
                                   ELSE first_arrival[SPDC][ts] + timer[SPDC],
                               Control!Scheduled(ts))
      BY <2>7, <3>2, <3>3
    <3>5. first_arrival'[SPDC] = first_arrival[SPDC]
      BY <2>3, <2>9
    <3>6. Control!NextFrame(ts, c, pmus)
      BY <1>3, <1>6, <2>4, <2>5, <3>1, <3>4, <3>5 DEF Control!NextFrame
    <3>7. QED BY <1>7, <3>6 DEF Control!DoReadFrame
  <2>10. QED BY <2>8, <2>9
<1>11. QED BY <1>9, <1>10

LEMMA ControlIdle ==
  ASSUME now' = now, status'[SPDC] = status[SPDC], arrived'[SPDC] = arrived[SPDC],
         payloads'[SPDC] = payloads[SPDC], send_events'[SPDC] = send_events[SPDC],
         first_arrival'[SPDC] = first_arrival[SPDC], last_arrival'[SPDC] = last_arrival[SPDC],
         frames'[SPDC] = frames[SPDC], UNCHANGED <<reads, delays>>
  PROVE  UNCHANGED Control!spdcVars
<1>1. HeldFrames' = HeldFrames
  BY DEF HeldFrames
<1>2. QED BY <1>1 DEF Control!spdcVars, Control!vars, Control!pdcVars

LEMMA ControlStep ==
  ASSUME NamesDiffer, Inv, Surroundings, [Next]_vars
  PROVE  [Control!SPDCNext]_(Control!spdcVars)
<1>0. /\ SPDC \in Concentrators /\ SPDC \notin PDCs /\ SPDC \in Apps
      /\ DOMAIN frames = Concentrators /\ status[SPDC] \in {"open", "closed"}
  BY Constants DEF Inv, Typed, TypedReads, TypedClock
<1>1. CASE StopApplications
  <2>1. CASE SPDC \in Stopping
    <3>1. status[SPDC] = "open" /\ status'[SPDC] = "closed"
      BY <1>0, <1>1, <2>1 DEF Stopping, StopApplications
    <3>2. HeldFrames' = HeldFrames
      BY <1>1 DEF HeldFrames, StopApplications
    <3>3. Control!StopApplication /\ UNCHANGED delays
      BY <1>1, <3>1, <3>2 DEF StopApplications, Control!StopApplication, Control!pdcVars
    <3>4. QED BY <3>3 DEF Control!SPDCNext
  <2>2. CASE SPDC \notin Stopping
    <3>1. status'[SPDC] = status[SPDC]
      BY <1>0, <1>1, <2>2 DEF StopApplications
    <3>2. QED BY <1>1, <3>1, ControlIdle DEF StopApplications
  <2>3. QED BY <2>1, <2>2
<1>2. ASSUME NEW p \in PMUs, GenerateMeasurement(p) PROVE UNCHANGED Control!spdcVars
  BY <1>2, ControlIdle DEF GenerateMeasurement
<1>3. ASSUME NEW e \in sends, SendTo(e) PROVE UNCHANGED Control!spdcVars
  <2>1. \/ frames' = frames
        \/ e.from \in PDCs /\ frames' = [frames EXCEPT ![e.from] = Append(@, AsFrame(e))]
    BY <1>3 DEF SendTo
  <2>2. frames'[SPDC] = frames[SPDC]
    BY <1>0, <2>1
  <2>3. QED BY <1>3, <2>2, ControlIdle DEF SendTo
<1>4. ASSUME NEW e \in reads, ReadPayloads(e) PROVE Control!SPDCNext
  <2>1. frames'[SPDC] = Append(frames[SPDC], e)
    BY <1>0, <1>4 DEF ReadPayloads
  <2>2. HeldFrames' = HeldFrames
    BY <1>4 DEF HeldFrames, ReadPayloads
  <2>3. Control!ReadPayloads(e)
    BY <1>0, <1>4, <2>1, <2>2
    DEF ReadPayloads, Control!ReadPayloads, Control!Running, Control!pdcVars
  <2>4. QED BY <2>3 DEF Control!SPDCNext
<1>5. ASSUME NEW k \in network, HandleRead(k)
      PROVE  Control!SPDCNext \/ UNCHANGED Control!spdcVars
  <2>1. CASE k.to = SPDC
    BY <1>5, <2>1, ControlReads
  <2>2. CASE k.to # SPDC
    <3>1. PICK ts \in Timestamps : \E payload : ReadsAt(k, ts, payload)
      BY <1>5, ReadDetails
    <3>2. PICK payload : ReadsAt(k, ts, payload)
      BY <3>1
    <3>3. UNCHANGED <<now, status, frames>>
      BY <1>5, ReadDetails
    <3>4. arrived'[SPDC] = arrived[SPDC]
      BY <2>2, <3>2, <1>0 DEF ReadsAt, Surroundings
    <3>5. /\ payloads'[SPDC] = payloads[SPDC] /\ send_events'[SPDC] = send_events[SPDC]
          /\ first_arrival'[SPDC] = first_arrival[SPDC]
          /\ last_arrival'[SPDC] = last_arrival[SPDC]
          /\ UNCHANGED <<reads, delays>>
      BY <1>0, <1>5, <2>2, <3>2, ReadEffects
    <3>6. QED BY <3>3, <3>4, <3>5, ControlIdle
  <2>3. QED BY <2>1, <2>2
<1>6. ASSUME NEW k \in network, Lose(k) PROVE UNCHANGED Control!spdcVars
  BY <1>6, ControlIdle DEF Lose
<1>7. CASE Tick
  <2>1. HeldFrames' = HeldFrames
    BY <1>7 DEF HeldFrames, Tick
  <2>2. now < (1 + nb_aggregates[SPDC]) * Unbounded
    BY <1>7, Horizons DEF Tick, Runs
  <2>3. Control!Tick /\ UNCHANGED delays
    BY <1>0, <1>7, <2>1, <2>2 DEF Tick, Control!Tick, Control!Running, Control!pdcVars
  <2>4. QED BY <2>3 DEF Control!SPDCNext
<1>8. CASE UNCHANGED vars
  BY <1>8, ControlIdle DEF vars
<1>9. QED
  BY <1>1, <1>2, <1>3, <1>4, <1>5, <1>6, <1>7, <1>8 DEF Next, Event, Transport, Finished

LEMMA ControlInit == Init => Control!SPDCInit
<1> SUFFICES ASSUME Init PROVE Control!SPDCInit
  OBVIOUS
<1>1. SPDC \in Concentrators /\ SPDC \in Apps
  BY Constants
<1>2. /\ now = 0 /\ status[SPDC] = "open" /\ arrived[SPDC] = {} /\ frames[SPDC] = <<>>
      /\ reads = {} /\ delays = [ts \in Timestamps |-> <<>>]
      /\ \A ts \in Timestamps : payloads[SPDC][ts] = <<>>
      /\ first_arrival[SPDC] = [ts \in Timestamps |-> 0]
      /\ last_arrival[SPDC] = [ts \in Timestamps |-> 0]
      /\ send_events[SPDC] = [ts \in Timestamps |-> 0]
  BY <1>1 DEF Init, ForAll, Empty
<1>3. HeldFrames = [ts \in Timestamps |-> <<>>]
  <2>1. ASSUME NEW ts \in Timestamps PROVE HeldFrames[ts] = <<>>
    <3>1. DOMAIN payloads[SPDC][ts] = {}
      BY <1>2
    <3>2. HeldFrames[ts] = [i \in {} |-> NamesIn(payloads[SPDC][ts][i])]
      BY <3>1 DEF HeldFrames
    <3>3. QED BY <3>2
  <2>2. QED BY <2>1 DEF HeldFrames
<1>4. QED BY <1>2, <1>3 DEF Control!SPDCInit, Control!Init

(***************************************************************************)
(* Theorems.                                                               *)
(***************************************************************************)
\* Every variable stays in its range: in particular a packet always finds its message
\* under its tag, no call is scheduled in the past, and the SPDC logs delays under the
\* names of PMUs only (Send, DoRead, LogDelays).
THEOREM TypeCorrectness == Spec => []TypeOK
<1>1. Inv => TypeOK
  <2> SUFFICES ASSUME Inv PROVE TypeOK
    OBVIOUS
  <2>1. \A e \in sends : e.from \in Apps /\ e.tag \in DOMAIN m_messages[e.to] /\ e.at >= now
    BY ItemTypes DEF Items, Inv, Times
  <2>2. \A k \in network : k.from \in Apps /\ k.tag \in DOMAIN m_messages[k.to] /\ k.sent <= now
    BY ItemTypes DEF Items, Inv, Times
  <2>3. \A e \in reads : e.ts \in Timestamps /\ e.at >= now
    BY DEF Inv, Typed, TypedReads, Read, Times
  <2>4. \A a \in Concentrators, ts \in Timestamps : first_arrival[a][ts] <= last_arrival[a][ts]
    BY DEF Inv, Times
  <2>5. \A ts \in Timestamps : DOMAIN delays[ts] \subseteq {PMUName(p) : p \in PMUs}
    BY DEF Inv, Typed, TypedReads, PMUNames
  <2>6. /\ now \in 0 .. End /\ status \in [Apps -> {"open", "closed"}]
        /\ generate \in [PMUs -> Nat] /\ slow \subseteq Timestamps
        /\ \A a \in Concentrators : DOMAIN m_messages[a] \subseteq 0 .. (m_next_tag_id[a] - 1)
    BY DEF Inv, Typed, TypedClock, TypedMaps
  <2>7. QED BY <2>1, <2>2, <2>3, <2>4, <2>5, <2>6 DEF TypeOK
<1>2. QED BY <1>1, Invariant, PTL

\* What the SPDC holds of a time stamp are, line by line, the payloads that its PDCs
\* hold, each PDC at most once, and what a PDC holds are the measurements of its own
\* PMUs, each at most once and unaltered but for padding characters, whatever is lost
\* or overtaken on the way (GenerateMeasurement, Send, DoRead, Aggregate).
THEOREM ControlIsTrue == Spec => []ControlSeesMeasurements
<1>1. Inv => ControlSeesMeasurements
  <2> SUFFICES ASSUME Inv, NEW ts \in Timestamps
               PROVE  /\ \E from \in Injection(DOMAIN payloads[SPDC][ts], PDCs) :
                           \A i \in DOMAIN payloads[SPDC][ts] :
                             Lines(payloads[SPDC][ts][i]) = payloads[from[i]][ts]
                      /\ \A c \in PDCs :
                           \E of \in Injection(DOMAIN payloads[c][ts], PMUsOf(c)) :
                             \A i \in DOMAIN of :
                               payloads[c][ts][i] = RemovePadding(Payload(of[i], ts))
    BY DEF ControlSeesMeasurements
  <2>1. \E from \in Injection(DOMAIN payloads[SPDC][ts], PDCs) :
          \A i \in DOMAIN payloads[SPDC][ts] :
            Lines(payloads[SPDC][ts][i]) = payloads[from[i]][ts]
    BY DEF Inv, Contents, SPDCHolds, Reflects
  <2>2. ASSUME NEW c \in PDCs
        PROVE  \E of \in Injection(DOMAIN payloads[c][ts], PMUsOf(c)) :
                 \A i \in DOMAIN of : payloads[c][ts][i] = RemovePadding(Payload(of[i], ts))
    <3> DEFINE set == DOMAIN payloads[c][ts]
               of == [i \in set |-> CHOOSE p \in PMUsOf(c) : payloads[c][ts][i] = Clean(p, ts)]
    <3>1. \A i \in set : \E p \in PMUsOf(c) : payloads[c][ts][i] = Clean(p, ts)
      BY DEF Inv, Contents, PDCHolds
    <3>2. \A i \in set : of[i] \in PMUsOf(c) /\ payloads[c][ts][i] = Clean(of[i], ts)
      BY <3>1
    <3>3. of \in [set -> PMUsOf(c)] /\ DOMAIN of = set
      BY <3>2
    <3> HIDE DEF of
    <3>4. \A i, j \in set : of[i] = of[j] => i = j
      <4> TAKE i, j \in set
      <4> HAVE of[i] = of[j]
      <4>1. payloads[c][ts][i] = payloads[c][ts][j]
        BY <3>2
      <4>2. QED BY <4>1 DEF Inv, Contents, PDCHolds
    <3>5. of \in Injection(set, PMUsOf(c))
      BY <3>3, <3>4 DEF Injection, IsInjective
    <3>6. QED BY <3>2, <3>3, <3>5 DEF Clean
  <2>3. QED BY <2>1, <2>2
<1>2. QED BY <1>1, Invariant, PTL

\* A PDC that is stopped has sent on every frame that it began before the PMUs stopped,
\* unless a packet came within the jitter of the stop itself (SetStopTime of the
\* scenario, DoRead and StopApplication of the PDC).
THEOREM StopIsStaggered == Spec => []StopLosesOnlyLate
<1>1. Inv => StopLosesOnlyLate
  <2> SUFFICES ASSUME Inv, NEW c \in PDCs, NEW ts \in Timestamps,
                      status[c] = "closed", payloads[c][ts] # <<>>,
                      first_arrival[c][ts] + Jitter < stop_time,
                      last_arrival[c][ts] + Jitter < stop_time + timer[c]
               PROVE  HasLeft(c, ts)
    BY DEF StopLosesOnlyLate, HasLeft
  <2>1. Begun(c, ts)
    BY DEF Begun
  <2>2. /\ now \in Nat /\ timer[c] \in Nat /\ Jitter \in Nat /\ stop_time \in Nat
        /\ first_arrival[c][ts] \in Nat /\ last_arrival[c][ts] \in Nat
        /\ StopTime(c) = stop_time + timer[c]
    BY Constants, StopTimeOfPDC DEF Inv, Typed, TypedClock, TypedHeld
  <2>3. ~ IsLost(c, ts)
    BY <2>2 DEF IsLost
  <2>4. ASSUME Waits(c, ts) PROVE FALSE
    <3>1. PICK e \in sends : e.from = c /\ e.tag = send_events[c][ts]
      BY <2>4 DEF Waits
    <3>2. e.at \in Nat /\ e.at >= now /\ now >= StopTime(c) /\ LeavesAt(c, ts, e.at)
      BY <2>1, <3>1 DEF Inv, Typed, TypedItems, Call, Times, Waiting
    <3>3. QED BY <2>2, <3>2 DEF LeavesAt
  <2>5. QED BY <2>1, <2>3, <2>4 DEF Inv, Left
<1>2. QED BY <1>1, Invariant, PTL

\* What the two modules assume of their constants holds of the parts of the system.
LEMMA PartsAsAssumed ==
  /\ Unbounded \in Nat /\ (1 + nb_aggregates[SPDC]) * Unbounded \in Nat
  /\ \A c \in Concentrators : timer[c] \in Nat /\ nb_aggregates[c] \in Nat
  /\ \A j \in {Jitter} : j \in Nat /\ j <= Jitter
  /\ \A c \in PDCs : Cardinality(PMUsOf(c)) \in Nat /\ IsFiniteSet(NamesOf[c])
  /\ Cardinality(PDCs) \in Nat /\ IsFiniteSet(PDCs) /\ Timestamps \subseteq Nat
  /\ \A c \in PDCs : FramesOf[c] \subseteq Seq(PMUNames) /\ <<>> \notin FramesOf[c]
  /\ Stof \in [Timestamps -> Nat]
<1>1. /\ Unbounded \in Nat /\ Jitter \in Nat
      /\ \A c \in Concentrators : timer[c] \in Nat /\ nb_aggregates[c] \in Nat
      /\ SPDC \in Concentrators
  BY Constants DEF Unbounded
<1>2. (1 + nb_aggregates[SPDC]) * Unbounded \in Nat
  <2>1. \A m, n \in Nat : m * n \in Nat
    OBVIOUS
  <2>2. QED BY <1>1, <2>1
<1>3. \A c \in PDCs : IsFiniteSet(NamesOf[c])
  <2> SUFFICES ASSUME NEW c \in PDCs PROVE IsFiniteSet(NamesOf[c])
    OBVIOUS
  <2> DEFINE f == [p \in PMUsOf(c) |-> PMUName(p)]
  <2>1. f \in Surjection(PMUsOf(c), NamesOf[c])
    BY DEF NamesOf, Surjection
  <2> HIDE DEF f
  <2>2. QED BY <2>1, PMUsFinite, FS_Surjection
<1>4. IsFiniteSet(PDCs) /\ Cardinality(PDCs) \in Nat
  BY ApplicationsAssumption, FS_CardinalityType
<1>5. ASSUME NEW c \in PDCs, NEW f \in FramesOf[c] PROVE f \in Seq(PMUNames) /\ f # <<>>
  <2>1. PICK names \in (SUBSET NamesOf[c]) \ {{}} : f \in SetToSeqs(names)
    BY <1>5 DEF FramesOf
  <2>2. IsFiniteSet(names) /\ Cardinality(names) \in Nat /\ Cardinality(names) # 0
    BY <1>3, <2>1, FS_Subset, FS_CardinalityType, FS_EmptySet
  <2>3. f \in [1 .. Cardinality(names) -> names]
    BY <2>1 DEF SetToSeqs
  <2>4. names \subseteq PMUNames
    BY <2>1 DEF NamesOf, PMUsOf, PMUNames
  <2>5. f \in [1 .. Cardinality(names) -> PMUNames]
    BY <2>3, <2>4
  <2>6. f \in Seq(PMUNames)
    BY <2>2, <2>5
  <2>7. 1 \in DOMAIN f
    BY <2>2, <2>3
  <2>8. QED BY <2>6, <2>7
<1>6. \A c \in PDCs : FramesOf[c] \subseteq Seq(PMUNames) /\ <<>> \notin FramesOf[c]
  BY <1>5
<1>7. \A c \in PDCs : Cardinality(PMUsOf(c)) \in Nat
  BY PMUsFinite
<1>8. \A j \in {Jitter} : j \in Nat /\ j <= Jitter
  BY <1>1
<1>9. Timestamps \subseteq Nat
  BY Constants
<1>10. QED BY <1>1, <1>2, <1>3, <1>4, <1>6, <1>7, <1>8, <1>9, StofAssumption

\* In the system every PDC and the SPDC do what HelicsPDCApplication and
\* HelicsSPDCApplication let one do alone, for any number of them and of PMUs, with
\* any delay, order and loss of packets, provided that the PMUs of a PDC can be told
\* apart by what is left of their names (DoRead, Send, StopApplication).
THEOREM ConcentratorsAsModelled == NamesDiffer => (Spec => ImplementsConcentrators)
<1> SUFFICES ASSUME NamesDiffer PROVE Spec => ImplementsConcentrators
  OBVIOUS
<1> DEFINE AllInit == \A c \in PDCs : PDC(c)!Init
           AllNext == \A c \in PDCs : [PDC(c)!Next]_(PDC(c)!vars)
<1>1. Init => AllInit
  BY PDCInit
<1>2. Inv /\ Inv' /\ Surroundings /\ [Next]_vars => AllNext
  BY PDCStep
<1>3. Inv /\ Surroundings /\ [Next]_vars => [Control!SPDCNext]_(Control!spdcVars)
  BY ControlStep
<1>4. Spec => []Surroundings
  BY SurroundingsInvariant
<1> HIDE DEF AllInit, AllNext
<1>5. Spec => AllInit /\ [][AllNext]_vars
  BY <1>1, <1>2, <1>4, Invariant, PTL DEF Spec
<1>6. Spec => Control!SPDCInit /\ [][Control!SPDCNext]_(Control!spdcVars)
  BY <1>3, <1>4, Invariant, ControlInit, PTL DEF Spec
<1>7. QED
  BY <1>5, <1>6 DEF AllInit, AllNext, ImplementsConcentrators, ImplementsPDCs, Control!SPDCSpec

===============================================================================
