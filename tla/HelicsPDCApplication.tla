------------------------- MODULE HelicsPDCApplication -------------------------
(***************************************************************************)
(* The phasor data concentrator of model/helics-PDC-application.cc: it     *)
(* aggregates the measurements that carry one time stamp into one frame,   *)
(* which leaves when all senders have been heard or when a timer that      *)
(* started with the first of them runs out.                                *)
(*                                                                         *)
(* The packets come from HelicsApplication, which hands each to DoRead at  *)
(* most once, at any time and in any order.  The frame that is waiting to  *)
(* leave is a scheduled call of Socket::SendTo, cancelled and replaced on  *)
(* every packet; a jitter is added to its time.                            *)
(***************************************************************************)
EXTENDS Integers, Sequences, FiniteSets

CONSTANTS
  Senders,        \* the applications that send to this one
  Timestamps,     \* time stamps of measurements
  timer,          \* attribute Timer, in time steps
  nb_aggregates,  \* attribute NbPMUs
  Jitters,        \* the random send delay, less a tick that its time may lose
  Capacity,       \* payloads that fit into a padded frame
  Horizon         \* bound: the simulated time ends here

ASSUME AttributesAssumption ==
  /\ timer \in Nat /\ nb_aggregates \in Nat /\ Capacity \in Nat /\ Horizon \in Nat
\* The attributes JitterMinNs and JitterMaxNs delimit the jitter; the smallest, 1000
\* ticks by default, outweighs the one that the way through helics::Time may cost.
ASSUME JittersAssumption ==
  Jitters \subseteq Nat /\ \E j \in Jitters : \A i \in Jitters : i <= j
ASSUME SendersAssumption == IsFiniteSet(Senders)

VARIABLES
  now,            \* Simulator::Now
  status,         \* "open", "closed" (StopApplication), "fatal" or "aborted"
  arrived,        \* packets that have reached this application
  payloads,       \* per time stamp: what has been accepted, in order
  first_arrival,  \* per time stamp: when the first packet came
  send_events,    \* per time stamp: the EventId, named by the size of its frame
  queue,          \* scheduled frames: [ts, size, at]
  frames,         \* history: the frames that left, in order
  last_arrival    \* history: when the last accepted packet came

pdcVars == <<payloads, first_arrival, send_events>>
vars == <<now, status, arrived, pdcVars, queue, frames, last_arrival>>

Packet == Timestamps \X Senders
Frame  == [ts : Timestamps, size : Nat, at : Nat]

Init ==
  /\ now = 0 /\ status = "open" /\ arrived = {}
  /\ payloads = [ts \in Timestamps |-> <<>>]
  /\ first_arrival = [ts \in Timestamps |-> 0]
  /\ send_events = [ts \in Timestamps |-> 0]
  /\ queue = {} /\ frames = <<>>
  /\ last_arrival = [ts \in Timestamps |-> 0]

(***************************************************************************)
(* Events.  The frame of an event is the first "size" payloads.            *)
(***************************************************************************)
Scheduled(ts) == {e \in queue : e.ts = ts /\ e.size = send_events[ts]}

IsExpired(ts) == Scheduled(ts) = {}

\* Send at "time" plus jitter, in the place of the events in "cancelled".  The
\* delay passed to Schedule must not be negative (an assertion of Schedule).
Send(ts, time, cancelled) ==
  LET size == Len(payloads[ts]) + 1
  IN  \E j \in Jitters :
        IF time + j - now < 0
        THEN /\ status' = "aborted"
             /\ queue' = queue \ cancelled
             /\ UNCHANGED send_events
        ELSE /\ queue' = (queue \ cancelled) \cup
                           {[ts |-> ts, size |-> size, at |-> time + j]}
             /\ send_events' = [send_events EXCEPT ![ts] = size]
             /\ UNCHANGED status

\* AddPadding: NS_FATAL_ERROR when the frame has outgrown the packet.
SendPadded(ts, time, cancelled) ==
  IF Len(payloads[ts]) + 1 > Capacity
  THEN /\ status' = "fatal"
       /\ queue' = queue \ cancelled
       /\ UNCHANGED send_events
  ELSE Send(ts, time, cancelled)

(***************************************************************************)
(* DoRead.                                                                 *)
(***************************************************************************)
Arrive(ts, s) ==
  /\ status = "open" /\ <<ts, s>> \notin arrived
  /\ arrived' = arrived \cup {<<ts, s>>}

\* Fault: the time stamp is stored for the payload.
AcceptTimestamp(ts, s) ==
  /\ payloads' = [payloads EXCEPT ![ts] = Append(@, ts)]
  /\ last_arrival' = [last_arrival EXCEPT ![ts] = now]

Accept(ts, s) ==
  /\ payloads' = [payloads EXCEPT ![ts] = Append(@, s)]
  /\ last_arrival' = [last_arrival EXCEPT ![ts] = now]

MaxJitter == CHOOSE j \in Jitters : \A i \in Jitters : i <= j

\* Bound: a time stamp is started only if its frame can leave by Horizon.
FirstPacket(ts, s) ==
  /\ Arrive(ts, s) /\ payloads[ts] = <<>>
  /\ now + timer + 2 * MaxJitter <= Horizon
  /\ Accept(ts, s)
  /\ first_arrival' = [first_arrival EXCEPT ![ts] = now]
  /\ SendPadded(ts, now + timer, {})
  /\ UNCHANGED <<now, frames>>

\* The frame has left: the packet is disregarded.
LatePacket(ts, s) ==
  /\ Arrive(ts, s) /\ payloads[ts] # <<>> /\ IsExpired(ts)
  /\ UNCHANGED <<now, status, pdcVars, queue, frames, last_arrival>>

\* Fault: the size is compared before the payload is added.
IsCompleteOffByOne(ts) == Len(payloads[ts]) >= nb_aggregates

\* payloads[timeStamp].size () < nb_aggregates fails, the new packet included.
IsComplete(ts) == Len(payloads[ts]) + 1 >= nb_aggregates

\* Fault: the timer starts again with every packet.
FrameTimeRestarted(ts) == IF IsComplete(ts) THEN now ELSE now + timer

FrameTime(ts) == IF IsComplete(ts) THEN now ELSE first_arrival[ts] + timer

\* Fault: the waiting frame is not cancelled.
NextPacketKeepsEvent(ts, s) ==
  /\ Arrive(ts, s) /\ payloads[ts] # <<>> /\ ~ IsExpired(ts)
  /\ Accept(ts, s)
  /\ SendPadded(ts, FrameTime(ts), {})
  /\ UNCHANGED <<now, first_arrival, frames>>

\* Fault: Cancel comes after the new frame is scheduled, and hits it too.
NextPacketCancelsLast(ts, s) ==
  /\ Arrive(ts, s) /\ payloads[ts] # <<>> /\ ~ IsExpired(ts)
  /\ Accept(ts, s)
  /\ queue' = queue \ Scheduled(ts)
  /\ send_events' = [send_events EXCEPT ![ts] = Len(payloads[ts]) + 1]
  /\ UNCHANGED <<now, status, first_arrival, frames>>

NextPacket(ts, s) ==
  /\ Arrive(ts, s) /\ payloads[ts] # <<>> /\ ~ IsExpired(ts)
  /\ Accept(ts, s)
  /\ SendPadded(ts, FrameTime(ts), Scheduled(ts))
  /\ UNCHANGED <<now, first_arrival, frames>>

DoRead(ts, s) == FirstPacket(ts, s) \/ LatePacket(ts, s) \/ NextPacket(ts, s)

(***************************************************************************)
(* The rest of the simulation.  Packets and frames of one instant run in   *)
(* either order: it depends on which of them was scheduled first.          *)
(***************************************************************************)
Running == status \in {"open", "closed"}

\* SendTo on the socket that StopApplication has closed fails.
SendTo(e) ==
  /\ Running /\ e.at = now
  /\ queue' = queue \ {e}
  /\ frames' = IF status = "open" THEN Append(frames, e) ELSE frames
  /\ UNCHANGED <<now, status, arrived, pdcVars, last_arrival>>

StopApplication ==
  /\ status = "open" /\ status' = "closed"
  /\ UNCHANGED <<now, arrived, pdcVars, queue, frames, last_arrival>>

Tick ==
  /\ Running /\ now < Horizon /\ \A e \in queue : e.at > now
  /\ now' = now + 1
  /\ UNCHANGED <<status, arrived, pdcVars, queue, frames, last_arrival>>

\* The program aborts, or the horizon is reached.
Finished == (~ Running \/ (now = Horizon /\ queue = {})) /\ UNCHANGED vars

(***************************************************************************)
(* Specification.                                                          *)
(***************************************************************************)
Next ==
  \/ \E ts \in Timestamps, s \in Senders : DoRead(ts, s)
  \/ \E e \in queue : SendTo(e)
  \/ StopApplication \/ Tick \/ Finished

Spec == Init /\ [][Next]_vars

SendDue == \E e \in queue : SendTo(e)
Fairness == WF_vars(Tick) /\ WF_vars(SendDue)
FairSpec == Spec /\ Fairness

(***************************************************************************)
(* Properties.                                                             *)
(***************************************************************************)
\* Every variable stays in its range.
TypeOK ==
  /\ now \in Nat /\ status \in {"open", "closed", "fatal", "aborted"}
  /\ arrived \subseteq Packet
  /\ payloads \in [Timestamps -> Seq(Senders)]
  /\ first_arrival \in [Timestamps -> Nat] /\ last_arrival \in [Timestamps -> Nat]
  /\ send_events \in [Timestamps -> Nat]
  /\ queue \subseteq Frame /\ frames \in Seq(Frame)

\* The frames that have left, with what they carry, and the time stamps whose
\* event is no longer waiting.
Released ==
  [i \in DOMAIN frames |->
     [ts |-> frames[i].ts, content |-> SubSeq(payloads[frames[i].ts], 1, frames[i].size)]]

Closed == {ts \in Timestamps : payloads[ts] # <<>> /\ IsExpired(ts)}

\* DoRead, the waiting frame that every packet replaces, its jitter and its race
\* with the packets implement "collect, then release all of it once": no payload
\* is accepted when its frame has left, none is left out of it, none is sent
\* twice, and no cancelled event takes a time stamp's frame with it.
Concentrates == INSTANCE Concentrator WITH
  collected <- payloads, closed <- Closed, released <- Released,
  working <- status = "open"

ImplementsConcentrator == Concentrates!Spec

\* One aggregated frame per time stamp, whatever the race between packets and
\* the waiting frame: none is sent twice and none is sent besides a waiting one.
OneFramePerTimestamp ==
  /\ \A i, j \in DOMAIN frames : frames[i].ts = frames[j].ts => i = j
  /\ \A e \in queue :
       /\ \A i \in DOMAIN frames : frames[i].ts # e.ts
       /\ \A o \in queue : o.ts = e.ts => o = e

\* The frame that leaves holds every payload that was ever accepted for its
\* time stamp: a packet is in the frame or disregarded, never accepted too late.
FrameIsWhole ==
  \A i \in DOMAIN frames : frames[i].size = Len(payloads[frames[i].ts])

\* The frame waits no longer than the timer and two jitters: a packet may come
\* in while the timer has run out and the jitter has not, and adds its own.
\* (With more senders than nb_aggregates each of them may add one more.)
FrameLeavesInTime ==
  Cardinality(Senders) <= nb_aggregates =>
    \A i \in DOMAIN frames :
      frames[i].at <= first_arrival[frames[i].ts] + timer + 2 * MaxJitter

\* A complete frame does not wait for the timer.  (A single expected sender is
\* the exception: the first packet of a time stamp is never seen as completing.)
CompleteFrameLeavesAtOnce ==
  nb_aggregates >= 2 =>
    \A e \in queue :
      Len(payloads[e.ts]) >= nb_aggregates /\ Running =>
        e.at <= last_arrival[e.ts] + MaxJitter

\* Every time stamp that was begun gets its frame, unless the application is
\* stopped or the program aborts.
EveryTimestampLeaves ==
  \A ts \in Timestamps :
    payloads[ts] # <<>> ~> (status # "open" \/ \E i \in DOMAIN frames : frames[i].ts = ts)

\* The assertion of Simulator::Schedule that a delay is not negative holds for
\* every frame that is scheduled.
NeverScheduledInThePast == status # "aborted"

===============================================================================
