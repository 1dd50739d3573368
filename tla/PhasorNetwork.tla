---------------------------- MODULE PhasorNetwork ----------------------------
(***************************************************************************)
(* PMUs, PDCs and an SPDC as one system, as examples/39BusNetwork.cc puts  *)
(* them together: PMUs measure at the same instants and send to their PDC, *)
(* PDCs aggregate and send to the SPDC, which runs the control.  What they *)
(* send is kept in the map of the destination; the network carries tags.   *)
(*                                                                         *)
(* Start and stop times are those of the scenario.  The random delays of   *)
(* Send are one and the same here, and no frame outgrows its padding: what *)
(* other values lead to is in HelicsPDCApplication.                        *)
(***************************************************************************)
EXTENDS PhasorFrames, Functions, FiniteSets

CONSTANTS
  PMU_names,     \* the PMUs, in the order of their installation
  PDCs, SPDC,    \* the concentrators
  Target,        \* the PDC of each PMU
  nb_aggregates, \* how many senders each concentrator expects
  timer,         \* the timer of each concentrator
  sampling_period, start_time, stop_time, cleanup_time,
  Jitter,        \* the delay that Send adds
  Quickest,      \* what a packet takes at least
  Punctual,      \* what a packet takes in a network without trouble, at most
  Stof,          \* what std::stof makes of a time stamp
  MaxDelay,      \* bound: the network delivers by then, or never
  MaxSlow        \* bound: time stamps that see trouble in the network

Concentrators == PDCs \cup {SPDC}
PMUs == ToSet(PMU_names)
Apps == PMUs \cup Concentrators

ASSUME TimesAssumption ==
  /\ {sampling_period, start_time, stop_time, cleanup_time, Jitter,
       Quickest, Punctual, MaxDelay} \subseteq Nat
  /\ sampling_period > 0 /\ start_time < stop_time /\ Punctual < MaxDelay
\* Every PMU has a name and a PDC; nobody is in two places.
ASSUME ApplicationsAssumption ==
  /\ IsFiniteSet(PDCs)
  /\ PMU_names \in Seq(DOMAIN Name) /\ Target \in [PMUs -> PDCs]
  /\ SPDC \notin PDCs /\ PMUs \cap Concentrators = {}
ASSUME AttributesAssumption ==
  timer \in [Concentrators -> Nat] /\ nb_aggregates \in [Concentrators -> Nat]

VARIABLES
  now,           \* Simulator::Now
  status,        \* "open" or "closed" (StopApplication)
  generate,      \* per PMU: the time of its next GenerateMeasurement
  sends,         \* scheduled SendTo: [from, to, tag, at]
  network,       \* packets under way: [from, to, tag, sent]
  m_next_tag_id, \* per concentrator
  m_messages,    \* per concentrator: map from tags to messages
  payloads,      \* per concentrator and time stamp: what it has accepted
  first_arrival, \* per concentrator and time stamp
  send_events,   \* per concentrator and time stamp: the EventId, named by the
                 \* tag of the frame (PDC) or by the number of payloads (SPDC)
  reads,         \* scheduled ReadPayloads: [ts, size, at]
  delays,        \* per time stamp: map from names to delays
  arrived,       \* history: per concentrator, the packets that have reached it
  last_arrival,  \* history: per concentrator and time stamp
  frames,        \* history: per concentrator, what has left or been read
  slow           \* history: the time stamps of which a packet was not punctual

vars == <<now, status, generate, sends, network, m_next_tag_id, m_messages, payloads,
          first_arrival, send_events, reads, delays, arrived, last_arrival, frames, slow>>

(***************************************************************************)
(* The scenario.                                                           *)
(***************************************************************************)
Timestamps ==
  {ts \in start_time .. (stop_time - 1) : (ts - start_time) % sampling_period = 0}

\* Fault: the PDCs stop with the PMUs.
StopTimeTogether(a) ==
  CASE a \in PMUs \cup PDCs -> stop_time
    [] OTHER -> stop_time + timer[Target[PMU_names[1]]] + timer[SPDC]

\* PMUs, PDCs and SPDC stop one after the other, each when its timer has run out.
StopTime(a) ==
  CASE a \in PMUs -> stop_time
    [] a \in PDCs -> stop_time + timer[a]
    [] OTHER      -> stop_time + timer[Target[PMU_names[1]]] + timer[SPDC]

\* Simulator::Stop.
End == stop_time + cleanup_time

ASSUME StofAssumption == Stof \in [Timestamps -> Nat]

\* NS_FATAL_ERROR ("Cleanup time too short").
ASSUME CleanupAssumption == \A c \in PDCs : timer[c] + timer[SPDC] < cleanup_time
\* No text outgrows its padding.
ASSUME SizeAssumption ==
  \A ts \in Timestamps : \A c \in PDCs :
    LET mine == SelectSeq(PMU_names, LAMBDA p : Target[p] = c)
    IN  /\ \A p \in PMUs : Fits(Measurement(p, ts))
        /\ Fits(Aggregate(ts, [n \in DOMAIN mine |-> RemovePadding(Payload(mine[n], ts))]))

Empty(x) == [a \in Concentrators |-> x]
ForAll(x) == Empty([ts \in Timestamps |-> x])

Init ==
  /\ now = 0
  /\ status = [a \in Apps |-> "open"]
  /\ generate = [p \in PMUs |-> start_time]
  /\ sends = {} /\ network = {} /\ reads = {}
  /\ m_next_tag_id = Empty(0) /\ m_messages = Empty(<<>>)
  /\ payloads = ForAll(<<>>) /\ first_arrival = ForAll(0) /\ send_events = ForAll(0)
  /\ delays = [ts \in Timestamps |-> <<>>]
  /\ arrived = Empty({}) /\ last_arrival = ForAll(0)
  /\ frames = Empty(<<>>) /\ slow = {}

(***************************************************************************)
(* Events of one instant: what ns-3 has scheduled before Run comes first.  *)
(***************************************************************************)
Stopping == {a \in Apps : status[a] = "open" /\ StopTime(a) = now}

Runs == now < End /\ Stopping = {}

StopApplications ==
  /\ now < End /\ Stopping # {}
  /\ status' = [a \in Apps |-> IF a \in Stopping THEN "closed" ELSE status[a]]
  /\ UNCHANGED <<now, generate, sends, network, m_next_tag_id, m_messages, payloads,
                 first_arrival, send_events, reads, delays, arrived, last_arrival,
                 frames, slow>>

(***************************************************************************)
(* Send: the message goes into the map of the destination under the next   *)
(* tag, the packet with the tag leaves later.                              *)
(***************************************************************************)
Insert(map, tag, message) ==
  [t \in DOMAIN map \cup {tag} |-> IF t = tag THEN message ELSE map[t]]

Erase(map, tag) == Restrict(map, DOMAIN map \ {tag})

SendAt(from, to, time) ==
  [from |-> from, to |-> to, tag |-> m_next_tag_id[to], at |-> time + Jitter]

\* Fault: the tag is not used up.
NewTagKept(to) == UNCHANGED m_next_tag_id

NewTag(to) == m_next_tag_id' = [m_next_tag_id EXCEPT ![to] = @ + 1]

(***************************************************************************)
(* PMU.  The first call comes from StartApplication, the others from the   *)
(* one before; at one instant the PMUs measure in the order they were      *)
(* installed.                                                              *)
(***************************************************************************)
GenerateMeasurement(p) ==
  LET ts == generate[p]  to == Target[p]
  IN  /\ Runs /\ ts = now /\ ts \in Timestamps
      /\ \A i, k \in DOMAIN PMU_names :
           i < k /\ PMU_names[k] = p => generate[PMU_names[i]] # now
      /\ m_messages' = [m_messages EXCEPT ![to] =
           Insert(@, m_next_tag_id[to], AddPadding(Measurement(p, ts)))]
      /\ NewTag(to)
      /\ sends' = sends \cup {SendAt(p, to, ts)}
      /\ generate' = [generate EXCEPT ![p] = ts + sampling_period]
      /\ UNCHANGED <<now, status, network, payloads, first_arrival, send_events, reads,
                     delays, arrived, last_arrival, frames, slow>>

(***************************************************************************)
(* The network.                                                            *)
(***************************************************************************)
\* The number of payloads in a frame.
LinesIn(frame) == Len(Lines(RemovePadding(frame))) - 1

\* A scheduled frame of a PDC, as HelicsPDCApplication names it.
AsFrame(e) ==
  LET frame == m_messages[e.to][e.tag]
  IN  [ts |-> TimeStamp(frame), size |-> LinesIn(frame), at |-> e.at]

\* Events of one instant run in the order in which they were scheduled, which is that
\* of the tags.  On the socket that StopApplication has closed the call fails.
SendTo(e) ==
  /\ Runs /\ e.at = now
  /\ \A o \in sends : o.to = e.to /\ o.at = now => e.tag <= o.tag
  /\ sends' = sends \ {e}
  /\ IF status[e.from] = "open"
     THEN /\ network' = network \cup
               {[from |-> e.from, to |-> e.to, tag |-> e.tag, sent |-> now]}
          /\ frames' = IF e.from \in PDCs
                       THEN [frames EXCEPT ![e.from] = Append(@, AsFrame(e))] ELSE frames
     ELSE UNCHANGED <<network, frames>>
  /\ UNCHANGED <<now, status, generate, m_next_tag_id, m_messages, payloads,
                 first_arrival, send_events, reads, delays, arrived, last_arrival, slow>>

Lose(k) ==
  /\ Runs /\ now = k.sent + MaxDelay
  /\ network' = network \ {k}
  /\ UNCHANGED <<now, status, generate, sends, m_next_tag_id, m_messages, payloads,
                 first_arrival, send_events, reads, delays, arrived, last_arrival, frames,
                 slow>>

(***************************************************************************)
(* DoRead of PDC and SPDC.                                                 *)
(***************************************************************************)
IsExpired(a, ts) ==
  IF a = SPDC THEN \A e \in reads : ~ (e.ts = ts /\ e.size = send_events[a][ts])
              ELSE \A e \in sends : ~ (e.from = a /\ e.tag = send_events[a][ts])

IsFirst(a, ts) == payloads[a][ts] = <<>>

\* Fault: the condition is the wrong way round.
IsLateNegated(a, ts) == ~ IsFirst(a, ts) /\ ~ IsExpired(a, ts)

IsLate(a, ts) == ~ IsFirst(a, ts) /\ IsExpired(a, ts)

\* The first payload starts the timer.
Accept(a, ts, payload) ==
  /\ payloads' = [payloads EXCEPT ![a][ts] = Append(@, payload)]
  /\ first_arrival' = IF IsFirst(a, ts) THEN [first_arrival EXCEPT ![a][ts] = now]
                      ELSE first_arrival
  /\ last_arrival' = [last_arrival EXCEPT ![a][ts] = now]

IsComplete(a, ts) == ~ IsFirst(a, ts) /\ Len(payloads[a][ts]) + 1 >= nb_aggregates[a]

Deadline(a, ts) == (IF IsFirst(a, ts) THEN now ELSE first_arrival[a][ts]) + timer[a]

Discard(k) ==
  /\ m_messages' = [m_messages EXCEPT ![k.to] = Erase(@, k.tag)]
  /\ UNCHANGED <<payloads, first_arrival, last_arrival, send_events, m_next_tag_id, sends,
                 reads, delays>>

\* The frame that waits is cancelled; what it was to send stays in the map.
PDCDoRead(k, ts, payload) ==
  LET c == k.to
      IsOld(e) == e.from = c /\ e.tag = send_events[c][ts] /\ ~ IsFirst(c, ts)
      frame == Aggregate(ts, Append(payloads[c][ts], payload))
  IN  /\ Accept(c, ts, payload)
      /\ m_messages' = [m_messages EXCEPT
           ![c] = Erase(@, k.tag), ![SPDC] = Insert(@, m_next_tag_id[SPDC], AddPadding(frame))]
      /\ NewTag(SPDC)
      /\ sends' = {e \in sends : ~ IsOld(e)} \cup
                    {SendAt(c, SPDC, IF IsComplete(c, ts) THEN now ELSE Deadline(c, ts))}
      /\ send_events' = [send_events EXCEPT ![c][ts] = m_next_tag_id[SPDC]]
      /\ UNCHANGED <<reads, delays>>

LogDelays(ts, names) ==
  delays' = [delays EXCEPT ![ts] =
    [n \in DOMAIN @ \cup names |-> IF n \in names THEN now - Stof[ts] ELSE @[n]]]

\* The deadline is passed to Schedule as a delay.
SPDCDoRead(k, ts, payload) ==
  LET size == Len(payloads[SPDC][ts]) + 1
      delay == IF IsComplete(SPDC, ts) THEN 0 ELSE Deadline(SPDC, ts)
  IN  /\ Accept(SPDC, ts, payload)
      /\ LogDelays(ts, LoggedNames(payload))
      /\ reads' = {e \in reads : e.ts # ts \/ e.size # send_events[SPDC][ts]} \cup
                    {[ts |-> ts, size |-> size, at |-> now + delay]}
      /\ send_events' = [send_events EXCEPT ![SPDC][ts] = size]
      /\ m_messages' = [m_messages EXCEPT ![SPDC] = Erase(@, k.tag)]
      /\ UNCHANGED <<m_next_tag_id, sends>>

\* Who a packet is from, in the names of HelicsPDCApplication.
Sender(k, data) == IF k.to = SPDC THEN k.from ELSE NameIn(After(data, {semicolon}))

HandleRead(k) ==
  /\ Runs /\ now >= k.sent + Quickest
  /\ status[k.to] = "open" /\ k.tag \in DOMAIN m_messages[k.to]
  /\ network' = network \ {k}
  /\ \E data \in {RemovePadding(m_messages[k.to][k.tag])} :
       LET ts == TimeStamp(data)
       IN  /\ arrived' = [arrived EXCEPT ![k.to] = @ \cup {<<ts, Sender(k, data)>>}]
           /\ IF IsLate(k.to, ts) THEN Discard(k)
              ELSE IF k.to = SPDC THEN SPDCDoRead(k, ts, After(data, {newline}))
              ELSE PDCDoRead(k, ts, After(data, {semicolon}))
  /\ UNCHANGED <<now, status, generate, frames, slow>>

ReadPayloads(e) ==
  /\ Runs /\ e.at = now
  /\ reads' = reads \ {e}
  /\ frames' = [frames EXCEPT ![SPDC] = Append(@, e)]
  /\ UNCHANGED <<now, status, generate, sends, network, m_next_tag_id, m_messages,
                 payloads, first_arrival, send_events, delays, arrived, last_arrival, slow>>

(***************************************************************************)
(* Specification.                                                          *)
(***************************************************************************)
Tick ==
  /\ Runs
  /\ \A p \in PMUs : now \in Timestamps => generate[p] # now
  /\ \A e \in sends \cup reads : e.at > now
  /\ \A k \in network : now < k.sent + MaxDelay
  /\ now' = now + 1
  /\ slow' = slow \cup {TimeStamp(m_messages[k.to][k.tag]) :
                          k \in {k \in network : now' > k.sent + Punctual}}
  /\ Cardinality(slow') <= MaxSlow
  /\ UNCHANGED <<status, generate, sends, network, m_next_tag_id, m_messages, payloads,
                 first_arrival, send_events, reads, delays, arrived, last_arrival, frames>>

\* An event of the simulator.
Event ==
  \/ StopApplications
  \/ \E p \in PMUs : GenerateMeasurement(p)
  \/ \E e \in sends : SendTo(e)
  \/ \E e \in reads : ReadPayloads(e)

Transport == \E k \in network : HandleRead(k) \/ Lose(k)

\* Simulator::Stop has ended Run.
Finished == now = End /\ UNCHANGED vars

Next == Event \/ Transport \/ Tick \/ Finished

Spec == Init /\ [][Next]_vars

FairSpec == Spec /\ WF_vars(Event \/ Transport \/ Tick)

(***************************************************************************)
(* Properties.                                                             *)
(***************************************************************************)
PMUName(p) == RemovePadding(Name[p])
PMUsOf(c) == {p \in PMUs : Target[p] = c}
NamesOf == [c \in PDCs |-> {PMUName(p) : p \in PMUsOf(c)}]

\* The PMUs of a PDC can be told apart by what is left of their names.
NamesDiffer ==
  \A p, q \in PMUs : Target[p] = Target[q] /\ PMUName(p) = PMUName(q) => p = q

\* Every variable stays in its range.
TypeOK ==
  /\ now \in 0 .. End /\ status \in [Apps -> {"open", "closed"}]
  /\ generate \in [PMUs -> Nat]
  /\ \A e \in sends : e.from \in Apps /\ e.tag \in DOMAIN m_messages[e.to] /\ e.at >= now
  /\ \A k \in network : k.from \in Apps /\ k.tag \in DOMAIN m_messages[k.to] /\ k.sent <= now
  /\ \A a \in Concentrators : DOMAIN m_messages[a] \subseteq 0 .. (m_next_tag_id[a] - 1)
  /\ \A a \in Concentrators, ts \in Timestamps : first_arrival[a][ts] <= last_arrival[a][ts]
  /\ \A e \in reads : e.ts \in Timestamps /\ e.at >= now
  /\ \A ts \in Timestamps : DOMAIN delays[ts] \subseteq {PMUName(p) : p \in PMUs}
  /\ slow \subseteq Timestamps

Unbounded == 2 * (End + Jitter) + timer[SPDC]

\* A PDC as HelicsPDCApplication sees it.
Held(c)      == [ts \in Timestamps |->
                   [i \in DOMAIN payloads[c][ts] |-> NameIn(payloads[c][ts][i])]]
Sizes(c)     == [ts \in Timestamps |-> Len(payloads[c][ts])]
Scheduled(c) == {AsFrame(e) : e \in {e \in sends : e.from = c}}

PDC(c) == INSTANCE HelicsPDCApplication WITH
  Senders       <- NamesOf[c],
  timer         <- timer[c],
  nb_aggregates <- nb_aggregates[c],
  Jitters       <- {Jitter},
  Capacity      <- Cardinality(PMUsOf(c)),
  Horizon       <- Unbounded,
  status        <- status[c],
  arrived       <- arrived[c],
  payloads      <- Held(c),
  first_arrival <- first_arrival[c],
  send_events   <- Sizes(c),
  queue         <- Scheduled(c),
  frames        <- frames[c],
  last_arrival  <- last_arrival[c]

ImplementsPDCs ==
  /\ \A c \in PDCs : PDC(c)!Init
  /\ [][\A c \in PDCs : [PDC(c)!Next]_(PDC(c)!vars)]_vars

\* The SPDC as HelicsSPDCApplication sees it.
FramesOf == [c \in PDCs |-> UNION {SetToSeqs(names) : names \in (SUBSET NamesOf[c]) \ {{}}}]

HeldFrames ==
  [ts \in Timestamps |->
     [i \in DOMAIN payloads[SPDC][ts] |-> NamesIn(payloads[SPDC][ts][i])]]

Control == INSTANCE HelicsSPDCApplication WITH
  Senders       <- PDCs,
  PMU_names     <- {PMUName(p) : p \in PMUs},
  Frames        <- FramesOf,
  timer         <- timer[SPDC],
  nb_aggregates <- nb_aggregates[SPDC],
  Jitters       <- {Jitter},
  Capacity      <- Cardinality(PDCs),
  Horizon       <- (1 + nb_aggregates[SPDC]) * Unbounded,
  status        <- status[SPDC],
  arrived       <- arrived[SPDC],
  payloads      <- HeldFrames,
  first_arrival <- first_arrival[SPDC],
  send_events   <- send_events[SPDC],
  queue         <- reads,
  frames        <- frames[SPDC],
  last_arrival  <- last_arrival[SPDC]

\* In the system every concentrator does what HelicsPDCApplication and
\* HelicsSPDCApplication let one do alone, so that what is shown there holds here:
\* the texts carry what those modules assume, a PDC hears each PMU at most once per
\* time stamp, and what it puts together is a frame as the SPDC reads it, one per
\* time stamp and never ahead of it.
ImplementsConcentrators == ImplementsPDCs /\ Control!SPDCSpec

\* From PMU to control: what the SPDC holds of a time stamp are, line by line, the
\* payloads that one of its PDCs holds, each PDC at most once, and what a PDC holds
\* are the measurements of its own PMUs, each at most once and unaltered but for
\* padding characters inside it.
ControlSeesMeasurements ==
  \A ts \in Timestamps :
    LET held(i) == Lines(payloads[SPDC][ts][i])
        set == DOMAIN payloads[SPDC][ts]
    IN  /\ \E from \in Injection(set, PDCs) : \A i \in set : held(i) = payloads[from[i]][ts]
        /\ \A c \in PDCs :
             \E of \in Injection(DOMAIN payloads[c][ts], PMUsOf(c)) :
               \A i \in DOMAIN of : payloads[c][ts][i] = RemovePadding(Payload(of[i], ts))

\* The staggered stop loses no frame that a punctual network could have started: a
\* PDC that stops has sent on all that it began before the PMUs stopped.  (A packet
\* that comes within the jitter of the stop itself may still put the frame off.)
StopLosesOnlyLate ==
  \A c \in PDCs, ts \in Timestamps :
    (/\ status[c] = "closed" /\ payloads[c][ts] # <<>>
     /\ first_arrival[c][ts] + Jitter < stop_time
     /\ last_arrival[c][ts] + Jitter < stop_time + timer[c])
    => \E i \in DOMAIN frames[c] : frames[c][i].ts = ts

\* The timers cover what a punctual network takes, no PDC sends before it has heard all
\* of its PMUs, every PDC has something to send, and the SPDC counts them all: a lone
\* PDC's lines would never be complete, as DoRead does not look for that on the first.
TimersSuffice ==
  /\ \A c \in PDCs : Punctual < timer[c] /\ timer[c] + 2 * (Jitter + Punctual) < timer[SPDC]
  /\ \A ts \in Timestamps : ts + 2 * Jitter + Punctual < stop_time
  /\ \A c \in PDCs : PMUsOf(c) # {} /\ Cardinality(PMUsOf(c)) <= nb_aggregates[c]
  /\ 1 < Cardinality(PDCs) /\ nb_aggregates[SPDC] = Cardinality(PDCs)

\* The control has been run on all that was measured at the instant.
Controlled(ts) ==
  /\ \E i \in DOMAIN frames[SPDC] :
       frames[SPDC][i].ts = ts /\ frames[SPDC][i].size = Cardinality(PDCs)
  /\ \A c \in PDCs : Len(payloads[c][ts]) = Cardinality(PMUsOf(c))

\* A set that stays incomplete is read as well, if the call that waits for the rest
\* comes up before Simulator::Stop: at the deadline, counted from the last arrival.
ReadByEnd(ts) ==
  payloads[SPDC][ts] # <<>> /\
    first_arrival[SPDC][ts] + timer[SPDC] + last_arrival[SPDC][ts] < End =>
      \E i \in DOMAIN frames[SPDC] : frames[SPDC][i].ts = ts

\* The simulation comes to its end, and by then, with timers that cover the network,
\* all that was measured at an instant has reached the control in one piece, unless a
\* packet of that instant was lost or late: neither another instant's trouble nor the
\* stop of the applications nor the end of the run gets in its way.  What has come of
\* an instant in trouble is read too, or its call was put off beyond the end.
EveryInstantControlled ==
  <>(/\ now = End
     /\ \A ts \in Timestamps : ReadByEnd(ts)
     /\ TimersSuffice => \A ts \in Timestamps \ slow : Controlled(ts))

==============================================================================
