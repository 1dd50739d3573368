---------------------- MODULE HelicsSPDCApplicationProofs ----------------------
(***************************************************************************)
(* Proofs about HelicsSPDCApplication, for every value of its constants:   *)
(* any concentrators, frames, time stamps and timer.                       *)
(***************************************************************************)
EXTENDS HelicsSPDCApplication, SequenceTheorems, TLAPS

(***************************************************************************)
(* The inductive invariant.                                                *)
(***************************************************************************)
\* A scheduled call is not overdue, is the one the map send_events knows, and
\* will see all that has been accepted.
QueueOK ==
  \A e \in queue :
    /\ now <= e.at
    /\ e.size = send_events[e.ts] /\ e.size = Len(payloads[e.ts])
    /\ payloads[e.ts] # <<>>

\* What has been read belongs to a time stamp that was begun, ...
FramesOK == \A i \in DOMAIN frames : payloads[frames[i].ts] # <<>>

\* ... which is one of the past.
BegunArePast == \A ts \in Timestamps : payloads[ts] # <<>> => ts <= now

DelaysIsMap == delays = [ts \in Timestamps |-> delays[ts]]

LoggedIsPast ==
  \A ts \in Timestamps : \A p \in DOMAIN delays[ts] : Stof[ts] + delays[ts][p] <= now

IInv ==
  /\ SPDCTypeOK /\ QueueOK /\ FramesOK
  /\ OneFramePerTimestamp /\ FrameIsWhole
  /\ BegunArePast /\ DelaysIsMap /\ LoggedIsPast
  /\ LoggedInTime /\ CompleteSetReadAtOnce

(***************************************************************************)
(* Small facts.                                                            *)
(***************************************************************************)
LEMMA FramesTyped ==
  ASSUME frames \in Seq(Frame)
  PROVE  \A i \in DOMAIN frames : frames[i] \in Frame /\ frames[i].ts \in Timestamps
<1>1. \A i \in DOMAIN frames : frames[i] \in Frame
  BY ElementOfSeq
<1>2. QED  BY <1>1 DEF Frame

LEMMA AppendIsLonger ==
  ASSUME NEW T, NEW seq \in Seq(T), NEW x \in T
  PROVE  /\ Append(seq, x) \in Seq(T) /\ Append(seq, x) # <<>>
         /\ Len(Append(seq, x)) = Len(seq) + 1 /\ Len(seq) \in Nat
OBVIOUS

LEMMA ScheduledCall ==
  ASSUME IInv, NEW ts \in Timestamps
  PROVE  Scheduled(ts) = {e \in queue : e.ts = ts}
BY DEF IInv, QueueOK, Scheduled

(***************************************************************************)
(* What an accepted frame does.                                            *)
(***************************************************************************)
Newest(ts, at) == [ts |-> ts, size |-> Len(payloads[ts]) + 1, at |-> at]

Accepted(ts, s, pmus, delay) ==
  /\ Arrive(ts, s) /\ Accept(ts, pmus) /\ LogDelays(ts, pmus)
  /\ queue' = {e \in queue : e.ts # ts} \cup {Newest(ts, now + delay)}
  /\ send_events' = [send_events EXCEPT ![ts] = Len(payloads[ts]) + 1]
  /\ UNCHANGED <<now, status, frames>>

LEMMA AcceptStep ==
  ASSUME IInv, NEW ts \in Timestamps, NEW s \in Senders, NEW pmus \in Frames[s],
         NEW delay \in Nat, Accepted(ts, s, pmus, delay), ts <= now,
         \A i \in DOMAIN frames : frames[i].ts # ts,
         first_arrival' \in [Timestamps -> Nat],
         nb_aggregates >= 2 /\ Len(payloads[ts]) + 1 >= nb_aggregates => delay = 0
  PROVE  IInv'
<1> DEFINE size == Len(payloads[ts]) + 1
           new == Newest(ts, now + delay)
<1>1. /\ now \in Nat /\ payloads \in [Timestamps -> Seq(Seq(PMU_names))]
      /\ last_arrival \in [Timestamps -> Nat] /\ send_events \in [Timestamps -> Nat]
      /\ queue \subseteq Frame /\ frames \in Seq(Frame)
      /\ status \in {"open", "closed"} /\ arrived \subseteq Packet
      /\ \A o \in Timestamps : /\ DOMAIN delays[o] \subseteq PMU_names
                               /\ \A p \in DOMAIN delays[o] :
                                    delays[o][p] \in Int /\ Stof[o] + delays[o][p] \in Nat
  BY DEF IInv, SPDCTypeOK
<1>2. pmus \in Seq(PMU_names) /\ ts \in Nat /\ Stof[ts] \in Nat
  BY FramesAssumption, TimestampsAssumption, StofAssumption
<1>3. /\ payloads' = [payloads EXCEPT ![ts] = Append(@, pmus)]
      /\ last_arrival' = [last_arrival EXCEPT ![ts] = now]
      /\ arrived' = arrived \cup {<<ts, s>>}
      /\ queue' = {e \in queue : e.ts # ts} \cup {new}
      /\ send_events' = [send_events EXCEPT ![ts] = size]
      /\ now' = now /\ frames' = frames /\ status' = status
  BY DEF Accepted, Accept, Arrive
<1>4. /\ payloads' \in [Timestamps -> Seq(Seq(PMU_names))]
      /\ Len(payloads'[ts]) = size /\ payloads'[ts] # <<>>
      /\ \A o \in Timestamps \ {ts} : payloads'[o] = payloads[o]
      /\ size \in Nat
  <2>1. payloads[ts] \in Seq(Seq(PMU_names)) /\ payloads'[ts] = Append(payloads[ts], pmus)
    BY <1>1, <1>3
  <2>2. /\ Append(payloads[ts], pmus) \in Seq(Seq(PMU_names))
        /\ Append(payloads[ts], pmus) # <<>>
        /\ Len(Append(payloads[ts], pmus)) = size /\ size \in Nat
    <3> DEFINE T == Seq(PMU_names)
    <3>1. payloads[ts] \in Seq(T) /\ pmus \in T
      BY <2>1, <1>2
    <3> HIDE DEF T
    <3>2. /\ Append(payloads[ts], pmus) \in Seq(T) /\ Append(payloads[ts], pmus) # <<>>
          /\ Len(Append(payloads[ts], pmus)) = Len(payloads[ts]) + 1
          /\ Len(payloads[ts]) \in Nat
      BY <3>1, AppendIsLonger
    <3>3. QED  BY <3>2 DEF T
  <2>3. /\ payloads'[ts] \in Seq(Seq(PMU_names))
        /\ Len(payloads'[ts]) = size /\ payloads'[ts] # <<>> /\ size \in Nat
    BY <2>1, <2>2
  <2>4. QED  BY <2>3, <1>1, <1>3
<1>5. /\ last_arrival' \in [Timestamps -> Nat] /\ send_events' \in [Timestamps -> Nat]
      /\ send_events'[ts] = size
      /\ \A o \in Timestamps \ {ts} : send_events'[o] = send_events[o]
  BY <1>1, <1>3, <1>4
<1>6. new \in Frame /\ new.ts = ts /\ new.size = size /\ new.at = now + delay
  BY <1>1, <1>4 DEF Newest, Frame
<1>7. \A e \in queue' : e = new \/ (e \in queue /\ e.ts # ts)
  BY <1>3
<1>8. \A e \in queue : e.ts \in Timestamps /\ e.at \in Nat /\ e.size \in Nat
  BY <1>1 DEF Frame
<1>9. \A i \in DOMAIN frames : frames[i].ts \in Timestamps \ {ts}
  BY <1>1, FramesTyped
\* The log of the other time stamps is as it was.
<1>10. /\ DelaysIsMap'
       /\ \A o \in Timestamps \ {ts} : delays'[o] = delays[o]
       /\ DOMAIN delays'[ts] = DOMAIN delays[ts] \cup NamedIn(pmus)
       /\ \A p \in DOMAIN delays'[ts] :
            delays'[ts][p] = IF p \in NamedIn(pmus) THEN now - Stof[ts] ELSE delays[ts][p]
  <2>1. delays' = [delays EXCEPT ![ts] =
          [p \in DOMAIN @ \cup NamedIn(pmus) |->
             IF p \in NamedIn(pmus) THEN now - Stof[ts] ELSE @[p]]]
    BY DEF Accepted, LogDelays
  <2>2. DOMAIN delays = Timestamps
    BY DEF IInv, DelaysIsMap
  <2>3. QED  BY <2>1, <2>2 DEF DelaysIsMap
<1>11. NamedIn(pmus) \subseteq PMU_names
  BY <1>2 DEF NamedIn
<1>12. SPDCTypeOK'
  <2>1. queue' \subseteq Frame
    BY <1>1, <1>6, <1>7
  <2>2. arrived' \subseteq Packet
    BY <1>1, <1>3 DEF Packet
  <2>3. \A o \in Timestamps : /\ DOMAIN delays'[o] \subseteq PMU_names
                              /\ \A p \in DOMAIN delays'[o] :
                                   delays'[o][p] \in Int /\ Stof[o] + delays'[o][p] \in Nat
    <3>1. now - Stof[ts] \in Int /\ Stof[ts] + (now - Stof[ts]) \in Nat
      BY <1>1, <1>2
    <3>2. QED  BY <3>1, <1>1, <1>10, <1>11
  <2>4. QED  BY <2>1, <2>2, <2>3, <1>1, <1>3, <1>4, <1>5 DEF SPDCTypeOK
<1>13. QueueOK'
  <2>1. ASSUME NEW e \in queue'
        PROVE  /\ now <= e.at /\ e.size = send_events'[e.ts]
               /\ e.size = Len(payloads'[e.ts]) /\ payloads'[e.ts] # <<>>
    <3>1. CASE e = new
      BY <3>1, <1>1, <1>4, <1>5, <1>6
    <3>2. CASE e \in queue /\ e.ts # ts
      BY <3>2, <1>4, <1>5, <1>8 DEF IInv, QueueOK
    <3>3. QED  BY <3>1, <3>2, <1>7
  <2>2. QED  BY <2>1, <1>3 DEF QueueOK
<1>14. FramesOK' /\ FrameIsWhole'
  BY <1>3, <1>4, <1>9 DEF IInv, FramesOK, FrameIsWhole
<1>15. OneFramePerTimestamp'
  <2>1. ASSUME NEW e \in queue'
        PROVE  /\ \A i \in DOMAIN frames : frames[i].ts # e.ts
               /\ \A o \in queue' : o.ts = e.ts => o = e
    BY <1>6, <1>7 DEF IInv, OneFramePerTimestamp
  <2>2. QED  BY <2>1, <1>3 DEF IInv, OneFramePerTimestamp
<1>16. BegunArePast'
  BY <1>3, <1>4 DEF IInv, BegunArePast
<1>17. LoggedIsPast'
  <2>1. \A p \in DOMAIN delays'[ts] : Stof[ts] + delays'[ts][p] <= now
    <3>1. Stof[ts] + (now - Stof[ts]) = now
      BY <1>1, <1>2
    <3>2. \A p \in DOMAIN delays[ts] : Stof[ts] + delays[ts][p] <= now
      BY DEF IInv, LoggedIsPast
    <3>3. QED  BY <3>1, <3>2, <1>1, <1>10
  <2>2. QED  BY <2>1, <1>3, <1>10 DEF IInv, LoggedIsPast
<1>18. LoggedInTime'
  BY <1>3, <1>9, <1>10 DEF IInv, LoggedInTime
<1>19. CompleteSetReadAtOnce'
  <2>1. ASSUME nb_aggregates >= 2, NEW e \in queue', Len(payloads'[e.ts]) >= nb_aggregates
        PROVE  e.at = now
    <3>1. CASE e = new
      BY <3>1, <2>1, <1>1, <1>4, <1>6
    <3>2. CASE e \in queue /\ e.ts # ts
      BY <3>2, <2>1, <1>4, <1>8 DEF IInv, CompleteSetReadAtOnce
    <3>3. QED  BY <3>1, <3>2, <1>7
  <2>2. QED  BY <2>1, <1>3 DEF CompleteSetReadAtOnce
<1>20. QED
  BY <1>10, <1>12, <1>13, <1>14, <1>15, <1>16, <1>17, <1>18, <1>19 DEF IInv

(***************************************************************************)
(* The steps.                                                              *)
(***************************************************************************)
LEMMA InitEstablishes == SPDCInit => IInv
<1> SUFFICES ASSUME SPDCInit PROVE IInv
  OBVIOUS
<1>1. /\ queue = {} /\ frames = <<>> /\ arrived = {} /\ now = 0 /\ status = "open"
      /\ payloads = [ts \in Timestamps |-> <<>>]
      /\ first_arrival = [ts \in Timestamps |-> 0]
      /\ send_events = [ts \in Timestamps |-> 0]
      /\ last_arrival = [ts \in Timestamps |-> 0]
      /\ delays = [ts \in Timestamps |-> <<>>]
  BY DEF SPDCInit, Init
<1>2. SPDCTypeOK
  BY <1>1 DEF SPDCTypeOK
<1>3. QED
  BY <1>1, <1>2 DEF IInv, QueueOK, FramesOK, OneFramePerTimestamp, FrameIsWhole,
     BegunArePast, DelaysIsMap, LoggedIsPast, LoggedInTime, CompleteSetReadAtOnce

\* FirstFrame is an accepted frame whose time stamp had none before, ...
LEMMA FirstFrameAccepts ==
  ASSUME IInv, NEW ts \in Timestamps, NEW s \in Senders, NEW pmus \in Frames[s],
         FirstFrame(ts, s, pmus)
  PROVE  /\ Accepted(ts, s, pmus, now + timer) /\ ts <= now /\ now + timer \in Nat
         /\ \A i \in DOMAIN frames : frames[i].ts # ts
         /\ \A e \in queue : e.ts # ts
         /\ Len(payloads[ts]) = 0
         /\ first_arrival' \in [Timestamps -> Nat]
<1>1. /\ Arrive(ts, s) /\ payloads[ts] = <<>> /\ Accept(ts, pmus) /\ LogDelays(ts, pmus)
      /\ ts <= now
      /\ first_arrival' = [first_arrival EXCEPT ![ts] = now]
      /\ ScheduleRead(ts, now + timer, {}) /\ UNCHANGED <<now, status, frames>>
  BY DEF FirstFrame
<1>2. /\ now \in Nat /\ first_arrival \in [Timestamps -> Nat]
      /\ now + timer \in Nat
  BY AttributesAssumption DEF IInv, SPDCTypeOK
<1>3. \A e \in queue : e.ts # ts
  BY <1>1 DEF IInv, QueueOK
<1>4. \A i \in DOMAIN frames : frames[i].ts # ts
  BY <1>1 DEF IInv, FramesOK
<1>5. Accepted(ts, s, pmus, now + timer)
  BY <1>1, <1>3 DEF Accepted, ScheduleRead, Newest
<1>6. QED  BY <1>1, <1>2, <1>3, <1>4, <1>5

ReadDelay(ts) == IF IsComplete(ts) THEN 0 ELSE first_arrival[ts] + timer

\* ... NextFrame one whose time stamp has a call waiting.
LEMMA NextFrameAccepts ==
  ASSUME IInv, NEW ts \in Timestamps, NEW s \in Senders, NEW pmus \in Frames[s],
         NextFrame(ts, s, pmus)
  PROVE  /\ Accepted(ts, s, pmus, ReadDelay(ts)) /\ ts <= now /\ ReadDelay(ts) \in Nat
         /\ \A i \in DOMAIN frames : frames[i].ts # ts
         /\ \E e \in queue : e.ts = ts
         /\ first_arrival' \in [Timestamps -> Nat]
<1>1. /\ Arrive(ts, s) /\ payloads[ts] # <<>> /\ Accept(ts, pmus) /\ LogDelays(ts, pmus)
      /\ ScheduleRead(ts, ReadDelay(ts), Scheduled(ts))
      /\ UNCHANGED <<now, status, first_arrival, frames>>
  BY DEF NextFrame, ReadDelay
<1>2. PICK w \in queue : w.ts = ts
  BY DEF NextFrame, IsExpired, Scheduled
<1>3. /\ first_arrival \in [Timestamps -> Nat] /\ ReadDelay(ts) \in Nat
  BY AttributesAssumption DEF IInv, SPDCTypeOK, ReadDelay
<1>4. ts <= now
  BY <1>1 DEF IInv, BegunArePast
<1>5. \A i \in DOMAIN frames : frames[i].ts # ts
  BY <1>2 DEF IInv, OneFramePerTimestamp
<1>6. Accepted(ts, s, pmus, ReadDelay(ts))
  <2>1. queue \ Scheduled(ts) = {e \in queue : e.ts # ts}
    BY ScheduledCall
  <2>2. QED  BY <1>1, <2>1 DEF Accepted, ScheduleRead, Newest
<1>7. QED  BY <1>1, <1>2, <1>3, <1>4, <1>5, <1>6

LEMMA ReadPayloadsStep ==
  ASSUME IInv, NEW e \in queue, ReadPayloads(e)
  PROVE  IInv'
<1>1. /\ queue' = queue \ {e} /\ e.at = now /\ frames' = Append(frames, e)
      /\ now' = now /\ status' = status /\ arrived' = arrived
      /\ payloads' = payloads /\ first_arrival' = first_arrival
      /\ send_events' = send_events /\ last_arrival' = last_arrival
      /\ delays' = delays
  BY DEF ReadPayloads, pdcVars
<1>2. frames \in Seq(Frame) /\ e \in Frame /\ frames' \in Seq(Frame)
  <2>1. frames \in Seq(Frame) /\ e \in Frame
    BY DEF IInv, SPDCTypeOK
  <2>2. QED  BY <2>1, <1>1
<1>3. \A i \in DOMAIN frames' :
        \/ i \in DOMAIN frames /\ frames'[i] = frames[i]
        \/ i = Len(frames) + 1 /\ i \notin DOMAIN frames /\ frames'[i] = e
  BY <1>1, <1>2
<1>4. SPDCTypeOK' /\ QueueOK' /\ BegunArePast' /\ DelaysIsMap' /\ LoggedIsPast'
  BY <1>1, <1>2 DEF IInv, SPDCTypeOK, QueueOK, BegunArePast, DelaysIsMap, LoggedIsPast
<1>5. FramesOK' /\ FrameIsWhole' /\ CompleteSetReadAtOnce'
  BY <1>1, <1>3 DEF IInv, FramesOK, FrameIsWhole, QueueOK, CompleteSetReadAtOnce
<1>6. OneFramePerTimestamp'
  <2>1. ASSUME NEW i \in DOMAIN frames', NEW j \in DOMAIN frames',
               frames'[i].ts = frames'[j].ts
        PROVE  i = j
    <3>1. \A k \in DOMAIN frames : frames[k].ts # e.ts
      BY DEF IInv, OneFramePerTimestamp
    <3>2. QED  BY <3>1, <2>1, <1>3 DEF IInv, OneFramePerTimestamp
  <2>2. ASSUME NEW o \in queue'
        PROVE  /\ \A i \in DOMAIN frames' : frames'[i].ts # o.ts
               /\ \A q \in queue' : q.ts = o.ts => q = o
    <3>1. o \in queue /\ o # e /\ o.ts # e.ts
      BY <1>1 DEF IInv, OneFramePerTimestamp
    <3>2. QED  BY <3>1, <1>1, <1>3 DEF IInv, OneFramePerTimestamp
  <2>3. QED  BY <2>1, <2>2 DEF OneFramePerTimestamp
\* What is logged for this time stamp is past when the call runs.
<1>7. LoggedInTime'
  <2>1. ASSUME NEW i \in DOMAIN frames', NEW p \in DOMAIN delays[frames'[i].ts]
        PROVE  Stof[frames'[i].ts] + delays[frames'[i].ts][p] <= frames'[i].at
    <3>1. CASE i \in DOMAIN frames /\ frames'[i] = frames[i]
      BY <3>1, <2>1 DEF IInv, LoggedInTime
    <3>2. CASE frames'[i] = e
      BY <3>2, <2>1, <1>1, <1>2 DEF IInv, LoggedIsPast, Frame
    <3>3. QED  BY <3>1, <3>2, <1>3
  <2>2. QED  BY <2>1, <1>1 DEF LoggedInTime
<1>8. QED  BY <1>4, <1>5, <1>6, <1>7 DEF IInv

LEMMA StepPreserves == IInv /\ [SPDCNext]_spdcVars => IInv'
<1> SUFFICES ASSUME IInv, [SPDCNext]_spdcVars PROVE IInv'
  OBVIOUS
<1>1. ASSUME NEW ts \in Timestamps, NEW s \in Senders, NEW pmus \in Frames[s],
             DoReadFrame(ts, s, pmus)
      PROVE  IInv'
  <2>1. CASE FirstFrame(ts, s, pmus)
    <3>1. ~ (nb_aggregates >= 2 /\ Len(payloads[ts]) + 1 >= nb_aggregates)
      BY <2>1, FirstFrameAccepts, AttributesAssumption
    <3>2. QED  BY <2>1, <3>1, FirstFrameAccepts, AcceptStep
  <2>2. CASE NextFrame(ts, s, pmus)
    <3>1. Len(payloads[ts]) + 1 >= nb_aggregates => ReadDelay(ts) = 0
      BY DEF ReadDelay, IsComplete
    <3>2. QED  BY <2>2, <3>1, NextFrameAccepts, AcceptStep
  <2>3. CASE LateFrame(ts, s, pmus)
    <3>1. /\ arrived' = arrived \cup {<<ts, s>>}
          /\ UNCHANGED <<now, status, payloads, first_arrival, send_events, queue, frames,
                         last_arrival, delays>>
      BY <2>3 DEF LateFrame, LatePacket, Arrive, pdcVars
    <3>2. SPDCTypeOK'
      BY <3>1 DEF IInv, SPDCTypeOK, Packet
    <3>3. QED
      BY <3>1, <3>2 DEF IInv, QueueOK, FramesOK, OneFramePerTimestamp, FrameIsWhole,
         BegunArePast, DelaysIsMap, LoggedIsPast, LoggedInTime, CompleteSetReadAtOnce
  <2>4. QED  BY <1>1, <2>1, <2>2, <2>3 DEF DoReadFrame
<1>2. ASSUME NEW e \in queue, ReadPayloads(e) PROVE IInv'
  BY <1>2, ReadPayloadsStep
<1>3. CASE (StopApplication /\ UNCHANGED delays) \/ UNCHANGED spdcVars
  <2>1. /\ UNCHANGED <<now, arrived, payloads, first_arrival, send_events, queue, frames,
                       last_arrival, delays>>
        /\ status' \in {status, "closed"}
    BY <1>3 DEF StopApplication, spdcVars, vars, pdcVars
  <2>2. SPDCTypeOK'
    BY <2>1 DEF IInv, SPDCTypeOK
  <2>3. QED
    BY <2>1, <2>2 DEF IInv, QueueOK, FramesOK, OneFramePerTimestamp, FrameIsWhole,
       BegunArePast, DelaysIsMap, LoggedIsPast, LoggedInTime, CompleteSetReadAtOnce
<1>4. CASE Tick /\ UNCHANGED delays
  <2>1. /\ now' = now + 1 /\ \A e \in queue : e.at > now
        /\ UNCHANGED <<status, arrived, payloads, first_arrival, send_events, queue, frames,
                       last_arrival, delays>>
    BY <1>4 DEF Tick, pdcVars
  <2>2. now \in Nat /\ queue \subseteq Frame /\ SPDCTypeOK'
    BY <2>1 DEF IInv, SPDCTypeOK
  <2>3. QueueOK'
    <3>1. \A e \in queue : now + 1 <= e.at
      BY <2>1, <2>2 DEF Frame
    <3>2. QED  BY <3>1, <2>1 DEF IInv, QueueOK
  <2>4. BegunArePast' /\ LoggedIsPast'
    <3>1. \A ts \in Timestamps : ts \in Nat
      BY TimestampsAssumption
    <3>2. \A ts \in Timestamps : \A p \in DOMAIN delays[ts] :
            Stof[ts] + delays[ts][p] \in Nat
      BY DEF IInv, SPDCTypeOK
    <3>3. BegunArePast'
      BY <3>1, <2>1, <2>2 DEF IInv, BegunArePast
    <3>4. LoggedIsPast'
      BY <3>1, <3>2, <2>1, <2>2 DEF IInv, LoggedIsPast
    <3>5. QED  BY <3>3, <3>4
\* The control would have had to run before the clock moves.
  <2>5. CompleteSetReadAtOnce'
    <3>1. ASSUME nb_aggregates >= 2, NEW e \in queue, Len(payloads[e.ts]) >= nb_aggregates
          PROVE  FALSE
      <4>1. e.at = now /\ e.at > now
        BY <3>1, <2>1 DEF IInv, CompleteSetReadAtOnce
      <4>2. QED  BY <4>1, <2>2
    <3>2. QED  BY <3>1, <2>1 DEF CompleteSetReadAtOnce
  <2>6. QED
    BY <2>1, <2>2, <2>3, <2>4, <2>5 DEF IInv, FramesOK, OneFramePerTimestamp, FrameIsWhole,
       DelaysIsMap, LoggedInTime
<1>5. QED
  BY <1>1, <1>2, <1>3, <1>4 DEF SPDCNext, Finished, spdcVars

\* The inductive invariant holds in every reachable state.
THEOREM Invariance == SPDCSpec => []IInv
<1>1. SPDCInit => IInv
  BY InitEstablishes
<1>2. IInv /\ [SPDCNext]_spdcVars => IInv'
  BY StepPreserves
<1>3. QED  BY <1>1, <1>2, PTL DEF SPDCSpec

(***************************************************************************)
(* The theorems about states.                                              *)
(***************************************************************************)
\* Every variable of the super concentrator stays in its range.
THEOREM TypeCorrectness == SPDCSpec => []SPDCTypeOK
<1>1. IInv => SPDCTypeOK
  BY DEF IInv
<1>2. QED  BY <1>1, Invariance, PTL

\* DoRead logs a delay only for what the control will see, whatever the race
\* between frames and ReadPayloads.
THEOREM LogAgreesWithControl == SPDCSpec => []LoggedInTime
<1>1. IInv => LoggedInTime
  BY DEF IInv
<1>2. QED  BY <1>1, Invariance, PTL

\* When the set is complete, ReadPayloads runs before the clock moves on.
THEOREM CompleteSetsDoNotWait == SPDCSpec => []CompleteSetReadAtOnce
<1>1. IInv => CompleteSetReadAtOnce
  BY DEF IInv
<1>2. QED  BY <1>1, Invariance, PTL

(***************************************************************************)
(* The refinement.                                                         *)
(***************************************************************************)
AbstractStep == [Concentrates!Next]_(Concentrates!vars)

Waiting(ts) == \E e \in queue : e.ts = ts

ClosedMeans == Closed = {ts \in Timestamps : payloads[ts] # <<>> /\ ~ Waiting(ts)}

LEMMA ClosedIsNotWaiting == IInv => ClosedMeans
BY ScheduledCall DEF ClosedMeans, Closed, IsExpired, Waiting

\* What has been read is all that was accepted.
Whole(seq) == [i \in DOMAIN seq |-> [ts |-> seq[i].ts, content |-> payloads[seq[i].ts]]]

ReleasedMeans == Released = Whole(frames)

LEMMA WholeSubSeq ==
  ASSUME NEW S, NEW seq \in Seq(S)
  PROVE  SubSeq(seq, 1, Len(seq)) = seq
OBVIOUS

LEMMA ReleasedIsWhole == IInv => ReleasedMeans
<1> SUFFICES ASSUME IInv PROVE ReleasedMeans
  OBVIOUS
<1>1. ASSUME NEW i \in DOMAIN frames
      PROVE  SubSeq(payloads[frames[i].ts], 1, frames[i].size) = payloads[frames[i].ts]
  <2> DEFINE T == Seq(PMU_names)
  <2>1. frames[i].ts \in Timestamps /\ frames[i].size = Len(payloads[frames[i].ts])
    BY FramesTyped DEF IInv, SPDCTypeOK, FrameIsWhole
  <2>2. payloads[frames[i].ts] \in Seq(T)
    BY <2>1 DEF IInv, SPDCTypeOK
  <2> HIDE DEF T
  <2>3. QED  BY <2>1, <2>2, WholeSubSeq
<1>2. QED  BY <1>1 DEF ReleasedMeans, Released, Whole

\* An accepted frame is collected.
LEMMA AcceptRefines ==
  ASSUME IInv, IInv', NEW ts \in Timestamps, NEW s \in Senders, NEW pmus, NEW delay,
         Accepted(ts, s, pmus, delay), ts \notin Closed,
         \A i \in DOMAIN frames : frames[i].ts # ts
  PROVE  Concentrates!Next
<1>1. /\ status = "open" /\ UNCHANGED <<frames, status>>
      /\ payloads' = [payloads EXCEPT ![ts] = Append(@, pmus)]
      /\ queue' = {e \in queue : e.ts # ts} \cup {Newest(ts, now + delay)}
      /\ Newest(ts, now + delay).ts = ts
  BY DEF Accepted, Arrive, Accept, Newest
<1>2. /\ payloads \in [Timestamps -> Seq(Seq(PMU_names))]
      /\ \A i \in DOMAIN frames : frames[i].ts \in Timestamps
  BY FramesTyped DEF IInv, SPDCTypeOK
<1>3. /\ payloads'[ts] = Append(payloads[ts], pmus)
      /\ \A o \in Timestamps \ {ts} : payloads'[o] = payloads[o]
  BY <1>1, <1>2
<1>4. /\ Len(payloads'[ts]) = Len(payloads[ts]) + 1 /\ payloads'[ts] # <<>>
      /\ payloads'[ts][Len(payloads[ts]) + 1] = pmus
  <2> DEFINE T == Seq(PMU_names)
  <2>1. payloads[ts] \in Seq(T)
    BY <1>2
  <2> HIDE DEF T
  <2>2. QED  BY <2>1, <1>3
<1>5. Concentrates!OneMore(ts)
  BY <1>1, <1>4 DEF Concentrates!OneMore
<1>6. Released' = Released
  <2>1. ReleasedMeans /\ ReleasedMeans'
    BY ReleasedIsWhole, PTL
  <2>2. QED  BY <2>1, <1>1, <1>2, <1>3 DEF ReleasedMeans, Whole
<1>7. Closed' = Closed
  <2>1. ClosedMeans /\ ClosedMeans'
    BY ClosedIsNotWaiting, PTL
  <2>2. Waiting(ts)' /\ \A o \in Timestamps \ {ts} : Waiting(o)' = Waiting(o)
    BY <1>1 DEF Waiting
  <2>3. QED  BY <2>1, <2>2, <1>3 DEF ClosedMeans
<1>8. Concentrates!Collect(ts)
  BY <1>1, <1>5, <1>6, <1>7 DEF Concentrates!Collect
<1>9. QED  BY <1>8 DEF Concentrates!Next

\* The control is given what was collected.
LEMMA ReadPayloadsRefines ==
  ASSUME IInv, IInv', NEW e \in queue, ReadPayloads(e)
  PROVE  Concentrates!Next
<1>1. /\ queue' = queue \ {e} /\ UNCHANGED <<payloads, status>>
      /\ frames' = Append(frames, e)
  BY DEF ReadPayloads, pdcVars
<1>2. /\ e.ts \in Timestamps /\ payloads[e.ts] # <<>>
      /\ frames \in Seq(Frame)
      /\ \A o \in queue : o.ts = e.ts => o = e
  BY DEF IInv, SPDCTypeOK, Frame, QueueOK, OneFramePerTimestamp
<1>3. e.ts \notin Closed /\ Closed' = Closed \cup {e.ts}
  <2>1. ClosedMeans /\ ClosedMeans'
    BY ClosedIsNotWaiting, PTL
  <2>2. /\ Waiting(e.ts) /\ ~ Waiting(e.ts)'
        /\ \A o \in Timestamps \ {e.ts} : Waiting(o)' = Waiting(o)
    BY <1>1, <1>2 DEF Waiting
  <2>3. QED  BY <2>1, <2>2, <1>1, <1>2 DEF ClosedMeans
<1>4. Released' = Append(Released, [ts |-> e.ts, content |-> payloads[e.ts]])
  <2>1. ReleasedMeans /\ ReleasedMeans'
    BY ReleasedIsWhole, PTL
  <2>2. Whole(Append(frames, e))
          = Append(Whole(frames), [ts |-> e.ts, content |-> payloads[e.ts]])
    BY <1>2 DEF Whole
  <2>3. QED  BY <2>1, <2>2, <1>1 DEF ReleasedMeans, Whole
<1>5. Concentrates!Release(e.ts)
  BY <1>1, <1>2, <1>3, <1>4 DEF Concentrates!Release
<1>6. QED  BY <1>2, <1>5 DEF Concentrates!Next

\* The mapped variables depend on these four only.
LEMMA Unmoved ==
  ASSUME UNCHANGED <<payloads, send_events, queue, frames>>
  PROVE  Closed' = Closed /\ Released' = Released
BY DEF Closed, IsExpired, Scheduled, Released

LEMMA StepRefines == IInv /\ IInv' /\ [SPDCNext]_spdcVars => AbstractStep
<1> SUFFICES ASSUME IInv, IInv', [SPDCNext]_spdcVars PROVE AbstractStep
  OBVIOUS
<1>1. ASSUME NEW ts \in Timestamps, NEW s \in Senders, NEW pmus \in Frames[s],
             DoReadFrame(ts, s, pmus)
      PROVE  AbstractStep
  <2>1. CASE FirstFrame(ts, s, pmus)
    <3>1. ts \notin Closed
      BY <2>1 DEF FirstFrame, Closed
    <3>2. QED  BY <2>1, <3>1, FirstFrameAccepts, AcceptRefines DEF AbstractStep
  <2>2. CASE NextFrame(ts, s, pmus)
    <3>1. ts \notin Closed
      BY <2>2 DEF NextFrame, Closed
    <3>2. QED  BY <2>2, <3>1, NextFrameAccepts, AcceptRefines DEF AbstractStep
  <2>3. CASE LateFrame(ts, s, pmus)
    <3>1. UNCHANGED <<status, payloads, send_events, queue, frames>>
      BY <2>3 DEF LateFrame, LatePacket, pdcVars
    <3>2. QED  BY <3>1, Unmoved DEF AbstractStep, Concentrates!vars
  <2>4. QED  BY <1>1, <2>1, <2>2, <2>3 DEF DoReadFrame
<1>2. ASSUME NEW e \in queue, ReadPayloads(e) PROVE AbstractStep
  BY <1>2, ReadPayloadsRefines DEF AbstractStep
<1>3. CASE StopApplication
  <2>1. /\ status = "open" /\ status' = "closed"
        /\ UNCHANGED <<payloads, send_events, queue, frames>>
    BY <1>3 DEF StopApplication, pdcVars
  <2>2. Concentrates!Stop
    BY <2>1, Unmoved DEF Concentrates!Stop
  <2>3. QED  BY <2>2 DEF AbstractStep, Concentrates!Next
<1>4. CASE Tick \/ UNCHANGED spdcVars \/ UNCHANGED vars
  <2>1. UNCHANGED <<status, payloads, send_events, queue, frames>>
    BY <1>4 DEF Tick, spdcVars, vars, pdcVars
  <2>2. QED  BY <2>1, Unmoved DEF AbstractStep, Concentrates!vars
<1>5. QED  BY <1>1, <1>2, <1>3, <1>4 DEF SPDCNext, Finished

\* DoRead and ReadPayloads of the super concentrator keep the promise of
\* Concentrator, for any concentrators, frames and timer: the control is run once
\* for a time stamp, with all that was accepted, and nothing is accepted later.
THEOREM Refinement == SPDCSpec => ImplementsConcentrator
<1>1. SPDCInit => Concentrates!Init
  <2> SUFFICES ASSUME SPDCInit PROVE Concentrates!Init
    OBVIOUS
  <2>1. payloads = [ts \in Timestamps |-> <<>>] /\ frames = <<>> /\ status = "open"
    BY DEF SPDCInit, Init
  <2>2. Closed = {} /\ Released = <<>>
    BY <2>1 DEF Closed, Released
  <2>3. QED  BY <2>1, <2>2 DEF Concentrates!Init
<1>2. QED
  BY <1>1, StepRefines, Invariance, PTL
     DEF SPDCSpec, ImplementsConcentrator, Concentrates!Spec, AbstractStep

================================================================================
