---------------------- MODULE HelicsPDCApplicationProofs ----------------------
(***************************************************************************)
(* Proofs about HelicsPDCApplication, for every value of its constants:    *)
(* any number of senders and time stamps, any timer and any jitters.       *)
(***************************************************************************)
EXTENDS HelicsPDCApplication, FiniteSetTheorems, SequenceTheorems, TLAPS

(***************************************************************************)
(* The inductive invariant.                                                *)
(***************************************************************************)
\* A scheduled frame is not overdue, is the one the map send_events knows, and
\* holds all that has been accepted.
QueueOK ==
  \A e \in queue :
    /\ now <= e.at
    /\ e.size = send_events[e.ts] /\ e.size = Len(payloads[e.ts])
    /\ payloads[e.ts] # <<>>

\* What has left belongs to a time stamp that was begun.
FramesOK == \A i \in DOMAIN frames : payloads[frames[i].ts] # <<>>

\* A frame that still misses a payload waits for the timer and one jitter, ...
IncompleteInTime ==
  \A e \in queue :
    Len(payloads[e.ts]) < nb_aggregates =>
      e.at <= first_arrival[e.ts] + timer + MaxJitter

\* ... and one that does not, for another jitter at most.
QueueInTime ==
  Cardinality(Senders) <= nb_aggregates =>
    \A e \in queue : e.at <= first_arrival[e.ts] + timer + 2 * MaxJitter

HeardFrom(ts) == {s \in Senders : <<ts, s>> \in arrived}

\* Each sender is accepted once at most.
AcceptedHaveArrived ==
  \A ts \in Timestamps : Len(payloads[ts]) <= Cardinality(HeardFrom(ts))

CompleteAtOnce ==
  nb_aggregates >= 2 =>
    \A e \in queue :
      Len(payloads[e.ts]) >= nb_aggregates => e.at <= last_arrival[e.ts] + MaxJitter

IInv ==
  /\ TypeOK /\ QueueOK /\ FramesOK
  /\ OneFramePerTimestamp /\ FrameIsWhole
  /\ AcceptedHaveArrived
  /\ IncompleteInTime /\ QueueInTime /\ FrameLeavesInTime /\ CompleteAtOnce

(***************************************************************************)
(* Small facts.                                                            *)
(***************************************************************************)
LEMMA MaxJitterIsMaximal ==
  MaxJitter \in Nat /\ \A j \in Jitters : j \in Nat /\ j <= MaxJitter
BY JittersAssumption DEF MaxJitter

LEMMA FramesTyped ==
  ASSUME frames \in Seq(Frame)
  PROVE  \A i \in DOMAIN frames : frames[i] \in Frame /\ frames[i].ts \in Timestamps
<1>1. \A i \in DOMAIN frames : frames[i] \in Frame
  BY ElementOfSeq
<1>2. QED  BY <1>1 DEF Frame

\* The number of senders heard grows by one with each of them and is bounded.
LEMMA OneMoreHeard ==
  ASSUME NEW ts \in Timestamps, NEW s \in Senders, Arrive(ts, s)
  PROVE  /\ Cardinality(HeardFrom(ts)) \in Nat
         /\ Cardinality(HeardFrom(ts)') = Cardinality(HeardFrom(ts)) + 1
         /\ Cardinality(HeardFrom(ts)') <= Cardinality(Senders)
         /\ Cardinality(Senders) \in Nat
         /\ \A o \in Timestamps \ {ts} : HeardFrom(o)' = HeardFrom(o)
<1>1. arrived' = arrived \cup {<<ts, s>>} /\ s \notin HeardFrom(ts)
  BY DEF Arrive, HeardFrom
<1>2. HeardFrom(ts)' = HeardFrom(ts) \cup {s}
  BY <1>1 DEF HeardFrom
<1>3. IsFiniteSet(Senders) /\ HeardFrom(ts) \subseteq Senders /\ HeardFrom(ts)' \subseteq Senders
  BY SendersAssumption DEF HeardFrom
<1>4. IsFiniteSet(HeardFrom(ts)) /\ IsFiniteSet(HeardFrom(ts)')
  BY <1>3, FS_Subset
<1>5. \A o \in Timestamps \ {ts} : HeardFrom(o)' = HeardFrom(o)
  BY <1>1 DEF HeardFrom
<1>6. QED  BY <1>1, <1>2, <1>3, <1>4, <1>5, FS_AddElement, FS_Subset, FS_CardinalityType

\* An event of the queue is the one that send_events names, and the only one.
LEMMA ScheduledFrame ==
  ASSUME IInv, NEW ts \in Timestamps
  PROVE  /\ \A e \in queue : e.ts = ts => e \in Scheduled(ts)
         /\ Scheduled(ts) = {e \in queue : e.ts = ts}
BY DEF IInv, QueueOK, Scheduled

(***************************************************************************)
(* What an accepted packet does.                                           *)
(***************************************************************************)
Newest(ts, at) == [ts |-> ts, size |-> Len(payloads[ts]) + 1, at |-> at]

\* The frame is scheduled for "time" plus a jitter in the place of the one that
\* waited, or the program aborts.
Accepted(ts, s, time) ==
  /\ Arrive(ts, s) /\ Accept(ts, s)
  /\ \/ /\ status' \in {"aborted", "fatal"}
        /\ queue' = queue \ Scheduled(ts)
        /\ UNCHANGED send_events
     \/ \E j \in Jitters :
          /\ now <= time + j
          /\ UNCHANGED status
          /\ queue' = (queue \ Scheduled(ts)) \cup {Newest(ts, time + j)}
          /\ send_events' = [send_events EXCEPT ![ts] = Len(payloads[ts]) + 1]
  /\ UNCHANGED <<now, frames>>

LEMMA SendPaddedEffect ==
  ASSUME TypeOK, NEW ts \in Timestamps, NEW time \in Nat, NEW C,
         SendPadded(ts, time, C)
  PROVE  \/ /\ status' \in {"aborted", "fatal"}
            /\ queue' = queue \ C
            /\ UNCHANGED send_events
         \/ \E j \in Jitters :
              /\ now <= time + j
              /\ UNCHANGED status
              /\ queue' = (queue \ C) \cup {Newest(ts, time + j)}
              /\ send_events' = [send_events EXCEPT ![ts] = Len(payloads[ts]) + 1]
<1>1. CASE Len(payloads[ts]) + 1 > Capacity
  BY <1>1 DEF SendPadded
<1>2. CASE ~ (Len(payloads[ts]) + 1 > Capacity)
  <2>1. Send(ts, time, C)
    BY <1>2 DEF SendPadded
  <2>2. PICK j \in Jitters :
          IF time + j - now < 0
          THEN status' = "aborted" /\ queue' = queue \ C /\ UNCHANGED send_events
          ELSE /\ queue' = (queue \ C) \cup {Newest(ts, time + j)}
               /\ send_events' = [send_events EXCEPT ![ts] = Len(payloads[ts]) + 1]
               /\ UNCHANGED status
    BY <2>1 DEF Send, Newest
  <2>3. j \in Nat /\ now \in Nat
    BY MaxJitterIsMaximal DEF TypeOK
  <2>4. QED  BY <2>2, <2>3
<1>3. QED  BY <1>1, <1>2

LEMMA AcceptStep ==
  ASSUME IInv, NEW ts \in Timestamps, NEW s \in Senders, NEW time \in Nat,
         Accepted(ts, s, time),
         \A i \in DOMAIN frames : frames[i].ts # ts,
         first_arrival' \in [Timestamps -> Nat],
         \A o \in Timestamps \ {ts} : first_arrival'[o] = first_arrival[o],
         Len(payloads[ts]) + 1 < nb_aggregates => time <= first_arrival'[ts] + timer,
         Cardinality(Senders) <= nb_aggregates =>
           time <= first_arrival'[ts] + timer + MaxJitter,
         nb_aggregates >= 2 /\ Len(payloads[ts]) + 1 >= nb_aggregates => time <= now
  PROVE  IInv'
<1> DEFINE size == Len(payloads[ts]) + 1
<1>1. /\ now \in Nat /\ payloads \in [Timestamps -> Seq(Senders)]
      /\ last_arrival \in [Timestamps -> Nat] /\ send_events \in [Timestamps -> Nat]
      /\ queue \subseteq Frame /\ frames \in Seq(Frame)
  BY DEF IInv, TypeOK
<1>2. /\ payloads' = [payloads EXCEPT ![ts] = Append(@, s)]
      /\ last_arrival' = [last_arrival EXCEPT ![ts] = now]
      /\ arrived' = arrived \cup {<<ts, s>>}
      /\ now' = now /\ frames' = frames
  BY DEF Accepted, Accept, Arrive
<1>3. /\ payloads' \in [Timestamps -> Seq(Senders)]
      /\ Len(payloads'[ts]) = size /\ payloads'[ts] # <<>>
      /\ \A o \in Timestamps \ {ts} : payloads'[o] = payloads[o]
      /\ size \in Nat
  BY <1>1, <1>2
<1>4. /\ last_arrival' \in [Timestamps -> Nat] /\ last_arrival'[ts] = now
      /\ \A o \in Timestamps \ {ts} : last_arrival'[o] = last_arrival[o]
  BY <1>1, <1>2
<1>5. \/ /\ status' \in {"aborted", "fatal"}
         /\ queue' = queue \ Scheduled(ts) /\ send_events' = send_events
      \/ \E j \in Jitters :
           /\ now <= time + j /\ status' = status
           /\ queue' = (queue \ Scheduled(ts)) \cup {Newest(ts, time + j)}
           /\ send_events' = [send_events EXCEPT ![ts] = size]
  BY DEF Accepted
<1>6. /\ send_events' \in [Timestamps -> Nat]
      /\ \A o \in Timestamps \ {ts} : send_events'[o] = send_events[o]
  BY <1>1, <1>3, <1>5
\* The old frames of other time stamps, and the new one.
<1>7. \A e \in queue' :
        \/ e \in queue /\ e.ts # ts
        \/ \E j \in Jitters : /\ e = Newest(ts, time + j) /\ now <= time + j
                              /\ send_events'[ts] = size
  <2>1. Scheduled(ts) = {e \in queue : e.ts = ts}
    BY ScheduledFrame
  <2>2. QED  BY <2>1, <1>1, <1>5
<1>8. \A e, o \in queue' : e.ts = ts /\ o.ts = ts => e = o
  <2>1. \A e \in queue' : e.ts = ts =>
          \E j \in Jitters :
            /\ queue' = (queue \ Scheduled(ts)) \cup {Newest(ts, time + j)}
            /\ e = Newest(ts, time + j)
    <3>1. Scheduled(ts) = {e \in queue : e.ts = ts}
      BY ScheduledFrame
    <3>2. QED  BY <3>1, <1>5
  <2>2. ASSUME NEW e \in queue', NEW o \in queue', e.ts = ts, o.ts = ts PROVE e = o
    <3>1. PICK j \in Jitters :
            /\ queue' = (queue \ Scheduled(ts)) \cup {Newest(ts, time + j)}
            /\ e = Newest(ts, time + j)
      BY <2>1, <2>2
    <3>2. Scheduled(ts) = {q \in queue : q.ts = ts}
      BY ScheduledFrame
    <3>3. QED  BY <3>1, <3>2, <2>2
  <2>3. QED  BY <2>2
<1>9. \A j \in Jitters : /\ Newest(ts, time + j) \in Frame
                         /\ Newest(ts, time + j).ts = ts
                         /\ Newest(ts, time + j).size = size
                         /\ Newest(ts, time + j).at = time + j
                         /\ j \in Nat /\ j <= MaxJitter /\ MaxJitter \in Nat
  BY <1>3, MaxJitterIsMaximal DEF Newest, Frame
<1>10. \A e \in queue : e.ts \in Timestamps /\ e.at \in Nat /\ e.size \in Nat
  BY <1>1 DEF Frame
<1>10a. \A i \in DOMAIN frames : frames[i].ts \in Timestamps
  BY <1>1, FramesTyped
<1>11. TypeOK'
  <2>1. queue' \subseteq Frame
    BY <1>1, <1>7, <1>9
  <2>2. arrived' \subseteq Packet
    BY <1>2 DEF IInv, TypeOK, Packet
  <2>3. status' \in {"open", "closed", "fatal", "aborted"}
    BY <1>5 DEF IInv, TypeOK
  <2>4. QED  BY <2>1, <2>2, <2>3, <1>1, <1>2, <1>3, <1>4, <1>6 DEF TypeOK
<1>12. QueueOK'
  <2>1. ASSUME NEW e \in queue'
        PROVE  /\ now <= e.at /\ e.size = send_events'[e.ts]
               /\ e.size = Len(payloads'[e.ts]) /\ payloads'[e.ts] # <<>>
    <3>1. CASE e \in queue /\ e.ts # ts
      BY <3>1, <1>3, <1>6, <1>10 DEF IInv, QueueOK
    <3>2. ASSUME NEW j \in Jitters, e = Newest(ts, time + j), now <= time + j,
                 send_events'[ts] = size
          PROVE  /\ now <= e.at /\ e.size = send_events'[e.ts]
                 /\ e.size = Len(payloads'[e.ts]) /\ payloads'[e.ts] # <<>>
      BY <3>2, <1>3, <1>9
    <3>3. QED  BY <3>1, <3>2, <1>7
  <2>2. QED  BY <2>1, <1>2 DEF QueueOK
<1>13. FramesOK' /\ FrameIsWhole'
  <2>1. ASSUME NEW i \in DOMAIN frames
        PROVE  payloads'[frames[i].ts] = payloads[frames[i].ts]
    <3>1. frames[i].ts \in Timestamps
      BY <1>10a
    <3>2. QED  BY <3>1, <1>3
  <2>2. QED  BY <2>1, <1>2 DEF IInv, FramesOK, FrameIsWhole
<1>14. OneFramePerTimestamp'
  <2>1. ASSUME NEW e \in queue'
        PROVE  /\ \A i \in DOMAIN frames : frames[i].ts # e.ts
               /\ \A o \in queue' : o.ts = e.ts => o = e
    <3>1. CASE e \in queue /\ e.ts # ts
      <4>1. \A i \in DOMAIN frames : frames[i].ts # e.ts
        BY <3>1 DEF IInv, OneFramePerTimestamp
      <4>2. ASSUME NEW o \in queue', o.ts = e.ts PROVE o = e
        <5>1. o \in queue
          BY <4>2, <3>1, <1>7, <1>9
        <5>2. QED  BY <5>1, <4>2, <3>1 DEF IInv, OneFramePerTimestamp
      <4>3. QED  BY <4>1, <4>2
    <3>2. CASE e.ts = ts
      BY <3>2, <1>8
    <3>3. QED  BY <3>1, <3>2, <1>7, <1>9
  <2>2. QED  BY <2>1, <1>2 DEF IInv, OneFramePerTimestamp
<1>15. AcceptedHaveArrived'
  <2>1. Arrive(ts, s)
    BY DEF Accepted
  <2>2. /\ Cardinality(HeardFrom(ts)') = Cardinality(HeardFrom(ts)) + 1
        /\ Cardinality(HeardFrom(ts)) \in Nat
        /\ \A o \in Timestamps \ {ts} : HeardFrom(o)' = HeardFrom(o)
    BY <2>1, OneMoreHeard
  <2>3. Len(payloads'[ts]) <= Cardinality(HeardFrom(ts)')
    <3>1. Len(payloads[ts]) <= Cardinality(HeardFrom(ts)) /\ Len(payloads[ts]) \in Nat
      BY <1>1 DEF IInv, AcceptedHaveArrived
    <3>2. QED  BY <3>1, <2>2, <1>3
  <2>4. \A o \in Timestamps \ {ts} : Len(payloads'[o]) <= Cardinality(HeardFrom(o)')
    BY <2>2, <1>3 DEF IInv, AcceptedHaveArrived
  <2>5. QED  BY <2>3, <2>4 DEF AcceptedHaveArrived, HeardFrom
<1>16. IncompleteInTime'
  <2>1. ASSUME NEW e \in queue', Len(payloads'[e.ts]) < nb_aggregates
        PROVE  e.at <= first_arrival'[e.ts] + timer + MaxJitter
    <3>1. CASE e \in queue /\ e.ts # ts
      BY <3>1, <2>1, <1>3, <1>10 DEF IInv, IncompleteInTime
    <3>2. ASSUME NEW j \in Jitters, e = Newest(ts, time + j)
          PROVE  e.at <= first_arrival'[e.ts] + timer + MaxJitter
      <4>1. e.ts = ts /\ e.at = time + j /\ j <= MaxJitter /\ j \in Nat /\ MaxJitter \in Nat
        BY <3>2, <1>9
      <4>2. time <= first_arrival'[ts] + timer
        BY <4>1, <2>1, <1>3
      <4>3. QED  BY <4>1, <4>2, AttributesAssumption
    <3>3. QED  BY <3>1, <3>2, <1>7
  <2>2. QED  BY <2>1 DEF IncompleteInTime, MaxJitter
<1>17. QueueInTime'
  <2>1. ASSUME NEW e \in queue', Cardinality(Senders) <= nb_aggregates
        PROVE  e.at <= first_arrival'[e.ts] + timer + 2 * MaxJitter
    <3>1. CASE e \in queue /\ e.ts # ts
      BY <3>1, <2>1, <1>10 DEF IInv, QueueInTime
    <3>2. ASSUME NEW j \in Jitters, e = Newest(ts, time + j)
          PROVE  e.at <= first_arrival'[e.ts] + timer + 2 * MaxJitter
      <4>1. e.ts = ts /\ e.at = time + j /\ j <= MaxJitter /\ j \in Nat /\ MaxJitter \in Nat
        BY <3>2, <1>9
      <4>2. QED  BY <4>1, <2>1, AttributesAssumption
    <3>3. QED  BY <3>1, <3>2, <1>7
  <2>2. QED  BY <2>1 DEF QueueInTime, MaxJitter
<1>18. FrameLeavesInTime'
  <2>1. \A i \in DOMAIN frames : frames[i].ts \in Timestamps \ {ts}
    BY <1>10a
  <2>2. QED  BY <2>1, <1>2 DEF IInv, FrameLeavesInTime, MaxJitter
<1>19. CompleteAtOnce'
  <2>1. ASSUME NEW e \in queue', nb_aggregates >= 2, Len(payloads'[e.ts]) >= nb_aggregates
        PROVE  e.at <= last_arrival'[e.ts] + MaxJitter
    <3>1. CASE e \in queue /\ e.ts # ts
      BY <3>1, <2>1, <1>3, <1>4, <1>10 DEF IInv, CompleteAtOnce
    <3>2. ASSUME NEW j \in Jitters, e = Newest(ts, time + j)
          PROVE  e.at <= last_arrival'[e.ts] + MaxJitter
      <4>1. e.ts = ts /\ e.at = time + j /\ j <= MaxJitter /\ j \in Nat /\ MaxJitter \in Nat
        BY <3>2, <1>9
      <4>2. time <= now
        BY <4>1, <2>1, <1>3
      <4>3. QED  BY <4>1, <4>2, <1>1, <1>4
    <3>3. QED  BY <3>1, <3>2, <1>7
  <2>2. QED  BY <2>1 DEF CompleteAtOnce, MaxJitter
<1>20. QED
  BY <1>11, <1>12, <1>13, <1>14, <1>15, <1>16, <1>17, <1>18, <1>19 DEF IInv

(***************************************************************************)
(* The steps.                                                              *)
(***************************************************************************)
LEMMA InitEstablishes == Init => IInv
<1> SUFFICES ASSUME Init PROVE IInv
  OBVIOUS
<1>1. /\ queue = {} /\ frames = <<>> /\ arrived = {} /\ now = 0 /\ status = "open"
      /\ payloads = [ts \in Timestamps |-> <<>>]
      /\ first_arrival = [ts \in Timestamps |-> 0]
      /\ send_events = [ts \in Timestamps |-> 0]
      /\ last_arrival = [ts \in Timestamps |-> 0]
  BY DEF Init
<1>2. TypeOK
  BY <1>1 DEF TypeOK
<1>3. AcceptedHaveArrived
  <2>1. ASSUME NEW ts \in Timestamps PROVE Len(payloads[ts]) <= Cardinality(HeardFrom(ts))
    <3>1. HeardFrom(ts) = {}
      BY <1>1 DEF HeardFrom
    <3>2. Cardinality(HeardFrom(ts)) = 0
      BY <3>1, FS_EmptySet
    <3>3. QED  BY <3>2, <1>1
  <2>2. QED  BY <2>1 DEF AcceptedHaveArrived
<1>4. QED
  BY <1>1, <1>2, <1>3 DEF IInv, QueueOK, FramesOK, OneFramePerTimestamp, FrameIsWhole,
     IncompleteInTime, QueueInTime, FrameLeavesInTime, CompleteAtOnce

LEMMA FirstPacketStep ==
  ASSUME IInv, NEW ts \in Timestamps, NEW s \in Senders, FirstPacket(ts, s)
  PROVE  IInv'
<1>1. /\ Arrive(ts, s) /\ payloads[ts] = <<>> /\ Accept(ts, s)
      /\ first_arrival' = [first_arrival EXCEPT ![ts] = now]
      /\ SendPadded(ts, now + timer, {}) /\ UNCHANGED <<now, frames>>
  BY DEF FirstPacket
<1>2. now \in Nat /\ first_arrival \in [Timestamps -> Nat] /\ TypeOK
  BY DEF IInv, TypeOK
<1>3. Scheduled(ts) = {}
  <2>1. Scheduled(ts) = {e \in queue : e.ts = ts}
    BY ScheduledFrame
  <2>2. QED  BY <2>1, <1>1 DEF IInv, QueueOK
<1>4. now + timer \in Nat
  BY <1>2, AttributesAssumption
<1>5. Accepted(ts, s, now + timer)
  BY <1>1, <1>2, <1>3, <1>4, SendPaddedEffect DEF Accepted
<1>6. \A i \in DOMAIN frames : frames[i].ts # ts
  BY <1>1 DEF IInv, FramesOK
<1>7. /\ first_arrival' \in [Timestamps -> Nat] /\ first_arrival'[ts] = now
      /\ \A o \in Timestamps \ {ts} : first_arrival'[o] = first_arrival[o]
  BY <1>1, <1>2
<1>8. Len(payloads[ts]) = 0 /\ MaxJitter \in Nat
  BY <1>1, MaxJitterIsMaximal
<1>9. /\ now + timer <= first_arrival'[ts] + timer
      /\ now + timer <= first_arrival'[ts] + timer + MaxJitter
      /\ ~ (nb_aggregates >= 2 /\ Len(payloads[ts]) + 1 >= nb_aggregates)
  BY <1>2, <1>7, <1>8, AttributesAssumption
<1>10. QED  BY <1>4, <1>5, <1>6, <1>7, <1>9, AcceptStep

LEMMA NextPacketStep ==
  ASSUME IInv, NEW ts \in Timestamps, NEW s \in Senders, NextPacket(ts, s)
  PROVE  IInv'
<1> DEFINE size == Len(payloads[ts]) + 1
           time == FrameTime(ts)
<1>1. /\ Arrive(ts, s) /\ payloads[ts] # <<>> /\ Accept(ts, s)
      /\ SendPadded(ts, time, Scheduled(ts))
      /\ UNCHANGED <<now, first_arrival, frames>>
  BY DEF NextPacket
<1>2. /\ now \in Nat /\ first_arrival \in [Timestamps -> Nat]
      /\ payloads \in [Timestamps -> Seq(Senders)] /\ TypeOK
  BY DEF IInv, TypeOK
\* The frame that waits.
<1>3. PICK w \in queue : w.ts = ts
  BY DEF NextPacket, IsExpired, Scheduled
<1>4. now <= w.at /\ w.at \in Nat /\ size \in Nat /\ first_arrival[ts] \in Nat
  BY <1>2, <1>3 DEF IInv, QueueOK, TypeOK, Frame
<1>5. /\ time \in Nat
      /\ size >= nb_aggregates => time = now
      /\ size < nb_aggregates => time = first_arrival[ts] + timer
  BY <1>2, <1>4, AttributesAssumption DEF FrameTime, IsComplete
<1>6. Accepted(ts, s, time)
  BY <1>1, <1>2, <1>5, SendPaddedEffect DEF Accepted
<1>7. \A i \in DOMAIN frames : frames[i].ts # ts
  BY <1>3 DEF IInv, OneFramePerTimestamp
<1>8. Cardinality(Senders) <= nb_aggregates =>
        time <= first_arrival[ts] + timer + MaxJitter
  <2>1. SUFFICES ASSUME Cardinality(Senders) <= nb_aggregates
                 PROVE  time <= first_arrival[ts] + timer + MaxJitter
    OBVIOUS
  <2>2. Len(payloads[ts]) < nb_aggregates
    <3>1. /\ Cardinality(HeardFrom(ts)) \in Nat /\ Cardinality(Senders) \in Nat
          /\ Cardinality(HeardFrom(ts)) + 1 <= Cardinality(Senders)
      BY <1>1, OneMoreHeard
    <3>2. Len(payloads[ts]) <= Cardinality(HeardFrom(ts)) /\ Len(payloads[ts]) \in Nat
      BY <1>2 DEF IInv, AcceptedHaveArrived
    <3>3. QED  BY <3>1, <3>2, <2>1, AttributesAssumption
  <2>3. w.at <= first_arrival[ts] + timer + MaxJitter
    BY <2>2, <1>3 DEF IInv, IncompleteInTime
  <2>4. MaxJitter \in Nat
    BY MaxJitterIsMaximal
  <2>5. QED  BY <2>3, <2>4, <1>2, <1>4, <1>5, AttributesAssumption
<1>9. QED
  <2>1. first_arrival' = first_arrival
    BY <1>1
  <2>2. /\ size < nb_aggregates => time <= first_arrival'[ts] + timer
        /\ nb_aggregates >= 2 /\ size >= nb_aggregates => time <= now
    BY <2>1, <1>2, <1>4, <1>5, AttributesAssumption
  <2>3. first_arrival' \in [Timestamps -> Nat]
    BY <2>1, <1>2
  <2>4. QED  BY <2>1, <2>2, <2>3, <1>5, <1>6, <1>7, <1>8, AcceptStep

LEMMA SendToStep ==
  ASSUME IInv, NEW e \in queue, SendTo(e)
  PROVE  IInv'
<1>1. /\ queue' = queue \ {e}
      /\ now' = now /\ status' = status /\ arrived' = arrived
      /\ payloads' = payloads /\ first_arrival' = first_arrival
      /\ send_events' = send_events /\ last_arrival' = last_arrival
      /\ frames' = frames \/ frames' = Append(frames, e)
  BY DEF SendTo, pdcVars
<1>2. /\ frames \in Seq(Frame) /\ e \in Frame /\ frames' \in Seq(Frame)
      /\ TypeOK
  <2>1. TypeOK /\ frames \in Seq(Frame) /\ e \in Frame
    BY DEF IInv, TypeOK
  <2>2. Append(frames, e) \in Seq(Frame)
    BY <2>1
  <2>3. QED  BY <2>1, <2>2, <1>1
<1>3. \A i \in DOMAIN frames' :
        \/ i \in DOMAIN frames /\ frames'[i] = frames[i]
        \/ i = Len(frames) + 1 /\ i \notin DOMAIN frames /\ frames'[i] = e
  BY <1>1, <1>2
<1>4. TypeOK' /\ QueueOK' /\ IncompleteInTime' /\ QueueInTime' /\ CompleteAtOnce'
  BY <1>1, <1>2 DEF IInv, TypeOK, QueueOK, IncompleteInTime, QueueInTime, CompleteAtOnce,
     MaxJitter
<1>5. FramesOK' /\ FrameIsWhole'
  BY <1>1, <1>3 DEF IInv, FramesOK, FrameIsWhole, QueueOK
<1>6. OneFramePerTimestamp'
  <2>1. ASSUME NEW i \in DOMAIN frames', NEW j \in DOMAIN frames',
               frames'[i].ts = frames'[j].ts
        PROVE  i = j
    <3>1. \A k \in DOMAIN frames : frames[k].ts # e.ts
      BY DEF IInv, OneFramePerTimestamp
    <3>2. QED  BY <3>1, <2>1, <1>3 DEF IInv, OneFramePerTimestamp
  <2>2. ASSUME NEW o \in queue'
        PROVE  /\ \A i \in DOMAIN frames' : frames'[i].ts # o.ts
               /\ \A q \in queue' : q.ts = o.ts => q = o
    <3>1. o \in queue /\ o # e /\ o.ts # e.ts
      BY <1>1 DEF IInv, OneFramePerTimestamp
    <3>2. QED  BY <3>1, <1>1, <1>3 DEF IInv, OneFramePerTimestamp
  <2>3. QED  BY <2>1, <2>2 DEF OneFramePerTimestamp
<1>7. FrameLeavesInTime'
  <2>1. SUFFICES ASSUME Cardinality(Senders) <= nb_aggregates, NEW i \in DOMAIN frames'
                 PROVE  frames'[i].at
                          <= first_arrival[frames'[i].ts] + timer + 2 * MaxJitter
    BY <1>1 DEF FrameLeavesInTime, MaxJitter
  <2>2. QED  BY <2>1, <1>3 DEF IInv, FrameLeavesInTime, QueueInTime
<1>8. AcceptedHaveArrived'
  BY <1>1 DEF IInv, AcceptedHaveArrived, HeardFrom
<1>9. QED  BY <1>4, <1>5, <1>6, <1>7, <1>8 DEF IInv

LEMMA StepPreserves == IInv /\ [Next]_vars => IInv'
<1> SUFFICES ASSUME IInv, [Next]_vars PROVE IInv'
  OBVIOUS
<1>1. ASSUME NEW ts \in Timestamps, NEW s \in Senders, DoRead(ts, s) PROVE IInv'
  <2>1. CASE FirstPacket(ts, s)
    BY <2>1, FirstPacketStep
  <2>2. CASE NextPacket(ts, s)
    BY <2>2, NextPacketStep
  <2>3. CASE LatePacket(ts, s)
    <3>1. /\ Arrive(ts, s)
          /\ UNCHANGED <<now, status, payloads, first_arrival, send_events, queue, frames,
                         last_arrival>>
      BY <2>3 DEF LatePacket, pdcVars
    <3>2. arrived' = arrived \cup {<<ts, s>>}
      BY <3>1 DEF Arrive
    <3>3. TypeOK'
      BY <3>1, <3>2 DEF IInv, TypeOK, Packet
    <3>4. AcceptedHaveArrived'
      <4>1. /\ Cardinality(HeardFrom(ts)') = Cardinality(HeardFrom(ts)) + 1
            /\ Cardinality(HeardFrom(ts)) \in Nat
            /\ \A o \in Timestamps \ {ts} : HeardFrom(o)' = HeardFrom(o)
        BY <3>1, OneMoreHeard
      <4>2. /\ Len(payloads'[ts]) <= Cardinality(HeardFrom(ts)')
            /\ \A o \in Timestamps \ {ts} : Len(payloads'[o]) <= Cardinality(HeardFrom(o)')
        <5>1. Len(payloads[ts]) \in Nat /\ payloads' = payloads
          BY <3>1 DEF IInv, TypeOK
        <5>2. QED  BY <4>1, <5>1 DEF IInv, AcceptedHaveArrived
      <4>3. QED  BY <4>2 DEF AcceptedHaveArrived, HeardFrom
    <3>5. QED
      BY <3>1, <3>3, <3>4 DEF IInv, QueueOK, FramesOK, OneFramePerTimestamp, FrameIsWhole,
         IncompleteInTime, QueueInTime, FrameLeavesInTime, CompleteAtOnce, MaxJitter
  <2>4. QED  BY <1>1, <2>1, <2>2, <2>3 DEF DoRead
<1>2. ASSUME NEW e \in queue, SendTo(e) PROVE IInv'
  BY <1>2, SendToStep
<1>3. CASE StopApplication \/ UNCHANGED vars
  <2>1. /\ UNCHANGED <<now, arrived, payloads, first_arrival, send_events, queue, frames,
                       last_arrival>>
        /\ status' \in {status, "closed"}
    BY <1>3 DEF StopApplication, vars, pdcVars
  <2>2. TypeOK'
    BY <2>1 DEF IInv, TypeOK
  <2>3. QED
    BY <2>1, <2>2 DEF IInv, QueueOK, FramesOK, OneFramePerTimestamp, FrameIsWhole,
       AcceptedHaveArrived, HeardFrom, IncompleteInTime, QueueInTime, FrameLeavesInTime,
       CompleteAtOnce, MaxJitter
<1>4. CASE Tick
  <2>1. /\ now' = now + 1 /\ \A e \in queue : e.at > now
        /\ UNCHANGED <<status, arrived, payloads, first_arrival, send_events, queue, frames,
                       last_arrival>>
    BY <1>4 DEF Tick, pdcVars
  <2>2. TypeOK'
    BY <2>1 DEF IInv, TypeOK
  <2>3. QueueOK'
    <3>1. \A e \in queue : now + 1 <= e.at
      BY <2>1 DEF IInv, TypeOK, Frame
    <3>2. QED  BY <3>1, <2>1 DEF IInv, QueueOK
  <2>4. QED
    BY <2>1, <2>2, <2>3 DEF IInv, FramesOK, OneFramePerTimestamp, FrameIsWhole,
       AcceptedHaveArrived, HeardFrom, IncompleteInTime, QueueInTime, FrameLeavesInTime,
       CompleteAtOnce, MaxJitter
<1>5. QED  BY <1>1, <1>2, <1>3, <1>4 DEF Next, Finished

\* The inductive invariant holds in every reachable state.
THEOREM Invariance == Spec => []IInv
<1>1. Init => IInv
  BY InitEstablishes
<1>2. IInv /\ [Next]_vars => IInv'
  BY StepPreserves
<1>3. QED  BY <1>1, <1>2, PTL DEF Spec

(***************************************************************************)
(* The theorems.                                                           *)
(***************************************************************************)
\* Every variable of the concentrator stays in its range.
THEOREM TypeCorrectness == Spec => []TypeOK
<1>1. IInv => TypeOK
  BY DEF IInv
<1>2. QED  BY <1>1, Invariance, PTL

\* DoRead, with its cancelling and replacing of the waiting frame, sends one
\* frame per time stamp at most.
THEOREM FramesAreUnique == Spec => []OneFramePerTimestamp
<1>1. IInv => OneFramePerTimestamp
  BY DEF IInv
<1>2. QED  BY <1>1, Invariance, PTL

\* No payload is accepted that the frame of its time stamp does not carry.
THEOREM FramesAreWhole == Spec => []FrameIsWhole
<1>1. IInv => FrameIsWhole
  BY DEF IInv
<1>2. QED  BY <1>1, Invariance, PTL

\* However packets keep replacing it, a frame waits for the timer and two
\* jitters at most.
THEOREM FramesAreInTime == Spec => []FrameLeavesInTime
<1>1. IInv => FrameLeavesInTime
  BY DEF IInv
<1>2. QED  BY <1>1, Invariance, PTL

\* A complete frame waits for one jitter only.
THEOREM CompleteFramesDoNotWait == Spec => []CompleteFrameLeavesAtOnce
<1>1. IInv => CompleteFrameLeavesAtOnce
  BY DEF IInv, CompleteAtOnce, CompleteFrameLeavesAtOnce
<1>2. QED  BY <1>1, Invariance, PTL

(***************************************************************************)
(* HelicsPDCApplication implements Concentrator, for every value of its    *)
(* constants: each step is one of the abstract steps or a stutter.         *)
(***************************************************************************)
AbstractStep == [Concentrates!Next]_(Concentrates!vars)

(***************************************************************************)
(* The mapping under the inductive invariant.                              *)
(***************************************************************************)
Waiting(ts) == \E e \in queue : e.ts = ts

ClosedMeans == Closed = {ts \in Timestamps : payloads[ts] # <<>> /\ ~ Waiting(ts)}

LEMMA ClosedIsNotWaiting == IInv => ClosedMeans
BY ScheduledFrame DEF ClosedMeans, Closed, IsExpired, Waiting

LEMMA WholeSubSeq ==
  ASSUME NEW S, NEW seq \in Seq(S)
  PROVE  SubSeq(seq, 1, Len(seq)) = seq
OBVIOUS

\* What has left is all that was accepted.
Whole(seq) == [i \in DOMAIN seq |-> [ts |-> seq[i].ts, content |-> payloads[seq[i].ts]]]

ReleasedMeans == Released = Whole(frames)

LEMMA ReleasedIsWhole == IInv => ReleasedMeans
<1> SUFFICES ASSUME IInv PROVE ReleasedMeans
  OBVIOUS
<1>1. ASSUME NEW i \in DOMAIN frames
      PROVE  SubSeq(payloads[frames[i].ts], 1, frames[i].size) = payloads[frames[i].ts]
  <2>1. frames[i].ts \in Timestamps /\ frames[i].size = Len(payloads[frames[i].ts])
    BY FramesTyped DEF IInv, TypeOK, FrameIsWhole
  <2>2. payloads[frames[i].ts] \in Seq(Senders)
    BY <2>1 DEF IInv, TypeOK
  <2>3. QED  BY <2>1, <2>2, WholeSubSeq
<1>2. QED  BY <1>1 DEF ReleasedMeans, Released, Whole

\* Another payload leaves what was released before as it was.
LEMMA ReleasedStays ==
  ASSUME IInv, IInv', NEW ts \in Timestamps, UNCHANGED frames,
         \A i \in DOMAIN frames : frames[i].ts # ts,
         \A o \in Timestamps \ {ts} : payloads'[o] = payloads[o]
  PROVE  Released' = Released
<1>1. ReleasedMeans /\ ReleasedMeans'
  BY ReleasedIsWhole, PTL
<1>2. \A i \in DOMAIN frames : payloads'[frames[i].ts] = payloads[frames[i].ts]
  BY FramesTyped DEF IInv, TypeOK
<1>3. QED  BY <1>1, <1>2 DEF ReleasedMeans, Whole

(***************************************************************************)
(* The steps.                                                              *)
(***************************************************************************)
\* A packet is collected, or it is the one over which the program aborts.
LEMMA AcceptRefines ==
  ASSUME IInv, IInv', NEW ts \in Timestamps, NEW s \in Senders, NEW time \in Nat,
         Accepted(ts, s, time), ts \notin Closed,
         \A i \in DOMAIN frames : frames[i].ts # ts
  PROVE  Concentrates!Next
<1>1. /\ status = "open" /\ UNCHANGED frames
      /\ payloads' = [payloads EXCEPT ![ts] = Append(@, s)]
  BY DEF Accepted, Arrive, Accept
<1>2. /\ payloads \in [Timestamps -> Seq(Senders)] /\ payloads[ts] \in Seq(Senders)
      /\ queue \subseteq Frame
  BY DEF IInv, TypeOK
<1>3. /\ payloads'[ts] = Append(payloads[ts], s) /\ payloads'[ts] # <<>>
      /\ \A o \in Timestamps \ {ts} : payloads'[o] = payloads[o]
  BY <1>1, <1>2
<1>4. Concentrates!OneMore(ts)
  <2>1. Len(payloads'[ts]) = Len(payloads[ts]) + 1
    BY <1>2, <1>3
  <2>2. payloads'[ts][Len(payloads[ts]) + 1] = s
    BY <1>2, <1>3
  <2>3. QED  BY <1>1, <2>1, <2>2 DEF Concentrates!OneMore
<1>5. Released' = Released
  BY <1>1, <1>3, ReleasedStays
<1>6. /\ Closed = {o \in Timestamps : payloads[o] # <<>> /\ ~ Waiting(o)}
      /\ Closed' = {o \in Timestamps : payloads'[o] # <<>> /\ ~ Waiting(o)'}
      /\ Scheduled(ts) = {e \in queue : e.ts = ts}
  <2>1. ClosedMeans /\ ClosedMeans'
    BY ClosedIsNotWaiting, PTL
  <2>2. QED  BY <2>1, ScheduledFrame DEF ClosedMeans
<1>7. CASE /\ status' \in {"aborted", "fatal"}
           /\ queue' = queue \ Scheduled(ts)
  <2>1. Closed' = Closed \cup {ts}
    BY <1>3, <1>6, <1>7 DEF Waiting
  <2>2. Concentrates!Lose(ts)
    BY <2>1, <1>4, <1>5, <1>7 DEF Concentrates!Lose
  <2>3. QED  BY <2>2 DEF Concentrates!Next
<1>8. ASSUME NEW j \in Jitters, UNCHANGED status,
             queue' = (queue \ Scheduled(ts)) \cup {Newest(ts, time + j)}
      PROVE  Concentrates!Next
  <2>1. Waiting(ts)' /\ \A o \in Timestamps \ {ts} : Waiting(o)' = Waiting(o)
    <3>1. Newest(ts, time + j) \in queue' /\ Newest(ts, time + j).ts = ts
      BY <1>8 DEF Newest
    <3>2. \A e : e.ts # ts => (e \in queue' <=> e \in queue)
      BY <1>6, <1>8, <3>1
    <3>3. QED  BY <3>1, <3>2 DEF Waiting
  <2>2. Closed' = Closed
    BY <2>1, <1>3, <1>6
  <2>3. Concentrates!Collect(ts)
    BY <2>2, <1>1, <1>4, <1>5, <1>8 DEF Concentrates!Collect
  <2>4. QED  BY <2>3 DEF Concentrates!Next
<1>9. QED  BY <1>7, <1>8 DEF Accepted

LEMMA FirstPacketRefines ==
  ASSUME IInv, IInv', NEW ts \in Timestamps, NEW s \in Senders, FirstPacket(ts, s)
  PROVE  Concentrates!Next
<1>1. /\ Arrive(ts, s) /\ payloads[ts] = <<>> /\ Accept(ts, s)
      /\ SendPadded(ts, now + timer, {}) /\ UNCHANGED <<now, frames>>
  BY DEF FirstPacket
<1>2. now + timer \in Nat /\ TypeOK
  BY AttributesAssumption DEF IInv, TypeOK
<1>3. Scheduled(ts) = {}
  BY <1>1, ScheduledFrame DEF IInv, QueueOK
<1>4. Accepted(ts, s, now + timer)
  BY <1>1, <1>2, <1>3, SendPaddedEffect DEF Accepted
<1>5. ts \notin Closed /\ \A i \in DOMAIN frames : frames[i].ts # ts
  BY <1>1 DEF Closed, IInv, FramesOK
<1>6. QED  BY <1>2, <1>4, <1>5, AcceptRefines

LEMMA NextPacketRefines ==
  ASSUME IInv, IInv', NEW ts \in Timestamps, NEW s \in Senders, NextPacket(ts, s)
  PROVE  Concentrates!Next
<1>1. /\ Arrive(ts, s) /\ ~ IsExpired(ts) /\ Accept(ts, s)
      /\ SendPadded(ts, FrameTime(ts), Scheduled(ts)) /\ UNCHANGED <<now, frames>>
  BY DEF NextPacket
<1>2. TypeOK /\ FrameTime(ts) \in Nat
  BY AttributesAssumption DEF IInv, TypeOK, FrameTime
<1>3. Accepted(ts, s, FrameTime(ts))
  BY <1>1, <1>2, SendPaddedEffect DEF Accepted
<1>4. PICK w \in queue : w.ts = ts
  BY <1>1 DEF IsExpired, Scheduled
<1>5. ts \notin Closed /\ \A i \in DOMAIN frames : frames[i].ts # ts
  BY <1>1, <1>4 DEF Closed, IInv, OneFramePerTimestamp
<1>6. QED  BY <1>2, <1>3, <1>5, AcceptRefines

\* The waiting frame leaves, or is lost on the closed socket.
LEMMA SendToRefines ==
  ASSUME IInv, IInv', NEW e \in queue, SendTo(e)
  PROVE  Concentrates!Next
<1>1. /\ queue' = queue \ {e} /\ UNCHANGED <<payloads, status>>
      /\ frames' = IF status = "open" THEN Append(frames, e) ELSE frames
  BY DEF SendTo, pdcVars
<1>2. /\ e.ts \in Timestamps /\ payloads[e.ts] # <<>>
      /\ frames \in Seq(Frame)
      /\ \A o \in queue : o.ts = e.ts => o = e
  BY DEF IInv, TypeOK, Frame, QueueOK, OneFramePerTimestamp
<1>3. e.ts \notin Closed /\ Closed' = Closed \cup {e.ts}
  <2>1. /\ Closed = {o \in Timestamps : payloads[o] # <<>> /\ ~ Waiting(o)}
        /\ Closed' = {o \in Timestamps : payloads[o] # <<>> /\ ~ Waiting(o)'}
    <3>1. ClosedMeans /\ ClosedMeans'
      BY ClosedIsNotWaiting, PTL
    <3>2. QED  BY <1>1, <3>1 DEF ClosedMeans
  <2>2. /\ Waiting(e.ts) /\ ~ Waiting(e.ts)'
        /\ \A o \in Timestamps \ {e.ts} : Waiting(o)' = Waiting(o)
    BY <1>1, <1>2 DEF Waiting
  <2>3. QED  BY <2>1, <2>2, <1>2
<1>4. Released = Whole(frames) /\ Released' = Whole(frames')
  <2>1. ReleasedMeans /\ ReleasedMeans'
    BY ReleasedIsWhole, PTL
  <2>2. QED  BY <1>1, <2>1 DEF ReleasedMeans, Whole
<1>5. CASE status = "open"
  <2>1. frames' = Append(frames, e)
    BY <1>1, <1>5
  <2>2. Whole(Append(frames, e))
          = Append(Whole(frames), [ts |-> e.ts, content |-> payloads[e.ts]])
    BY <1>2 DEF Whole
  <2>3. Concentrates!Release(e.ts)
    BY <2>1, <2>2, <1>1, <1>2, <1>3, <1>4 DEF Concentrates!Release
  <2>4. QED  BY <2>3, <1>2 DEF Concentrates!Next
<1>6. CASE status # "open"
  <2>1. Released' = Released
    BY <1>1, <1>4, <1>6
  <2>2. Concentrates!Lose(e.ts)
    BY <2>1, <1>1, <1>3, <1>6 DEF Concentrates!Lose
  <2>3. QED  BY <2>2, <1>2 DEF Concentrates!Next
<1>7. QED  BY <1>5, <1>6

\* The mapped variables depend on these four only.
LEMMA Unmoved ==
  ASSUME UNCHANGED <<payloads, send_events, queue, frames>>
  PROVE  Closed' = Closed /\ Released' = Released
BY DEF Closed, IsExpired, Scheduled, Released

LEMMA StepRefines == IInv /\ IInv' /\ [Next]_vars => AbstractStep
<1> SUFFICES ASSUME IInv, IInv', [Next]_vars PROVE AbstractStep
  OBVIOUS
<1>1. ASSUME NEW ts \in Timestamps, NEW s \in Senders, DoRead(ts, s) PROVE AbstractStep
  <2>1. CASE LatePacket(ts, s)
    <3>1. UNCHANGED <<status, payloads, send_events, queue, frames>>
      BY <2>1 DEF LatePacket, pdcVars
    <3>2. QED  BY <3>1, Unmoved DEF AbstractStep, Concentrates!vars
  <2>2. QED
    BY <1>1, <2>1, FirstPacketRefines, NextPacketRefines DEF DoRead, AbstractStep
<1>2. ASSUME NEW e \in queue, SendTo(e) PROVE AbstractStep
  BY <1>2, SendToRefines DEF AbstractStep
<1>3. CASE StopApplication
  <2>1. /\ status = "open" /\ status' = "closed"
        /\ UNCHANGED <<payloads, send_events, queue, frames>>
    BY <1>3 DEF StopApplication, pdcVars
  <2>2. Concentrates!Stop
    BY <2>1, Unmoved DEF Concentrates!Stop
  <2>3. QED  BY <2>2 DEF AbstractStep, Concentrates!Next
<1>4. CASE Tick \/ UNCHANGED vars
  <2>1. UNCHANGED <<status, payloads, send_events, queue, frames>>
    BY <1>4 DEF Tick, vars, pdcVars
  <2>2. QED  BY <2>1, Unmoved DEF AbstractStep, Concentrates!vars
<1>5. QED  BY <1>1, <1>2, <1>3, <1>4 DEF Next, Finished

\* DoRead of the concentrator, with the frames it schedules, cancels and replaces,
\* keeps the promise of Concentrator, for any senders, timer and jitters: what is
\* accepted under a time stamp leaves once, whole, and nothing is accepted later.
THEOREM Refinement == Spec => ImplementsConcentrator
<1>1. Init => Concentrates!Init
  <2> SUFFICES ASSUME Init PROVE Concentrates!Init
    OBVIOUS
  <2>1. payloads = [ts \in Timestamps |-> <<>>] /\ frames = <<>> /\ status = "open"
    BY DEF Init
  <2>2. Closed = {} /\ Released = <<>>
    BY <2>1 DEF Closed, Released
  <2>3. QED  BY <2>1, <2>2 DEF Concentrates!Init
<1>2. QED
  BY <1>1, StepRefines, Invariance, PTL
     DEF Spec, ImplementsConcentrator, Concentrates!Spec, AbstractStep

==============================================================================
