------------------------ MODULE HelicsSPDCApplication ------------------------
(***************************************************************************)
(* The super data concentrator of model/helics-SPDC-application.cc.  It    *)
(* is a concentrator whose senders are concentrators: a packet is a frame, *)
(* the sequence of the PMUs it carries.  Instead of sending a frame on, it *)
(* schedules ReadPayloads ("queue" and "frames" of the base module hold    *)
(* these calls), and it logs the delay of every PMU it hears of.           *)
(***************************************************************************)
EXTENDS HelicsPDCApplication

CONSTANTS
  PMU_names,      \* the PMUs
  Frames,         \* per sender: the frames it may send, sequences of PMUs
  Stof            \* what std::stof makes of a time stamp: a float near it

ASSUME TimestampsAssumption == Timestamps \subseteq Nat
ASSUME StofAssumption == Stof \in [Timestamps -> Nat]
ASSUME FramesAssumption ==
  Frames \in [Senders -> SUBSET Seq(PMU_names)] /\
    \A s \in Senders : <<>> \notin Frames[s]

VARIABLE delays   \* per time stamp: map from PMUs to delays

spdcVars == <<vars, delays>>

SPDCInit == Init /\ delays = [ts \in Timestamps |-> <<>>]

(***************************************************************************)
(* DoRead.                                                                 *)
(***************************************************************************)
\* The line after the time stamp becomes the payload; only the lines that
\* follow it are searched for a PMU.
NamedIn(pmus) == {pmus[i] : i \in 2 .. Len(pmus)}

\* Fault: the difference is taken the wrong way round.
LogDelaysNegated(ts, pmus) ==
  delays' = [delays EXCEPT ![ts] =
    [p \in DOMAIN @ \cup NamedIn(pmus) |->
       IF p \in NamedIn(pmus) THEN Stof[ts] - now ELSE @[p]]]

\* A float has seven digits: the delay may come out wrong, and negative.
LogDelays(ts, pmus) ==
  delays' = [delays EXCEPT ![ts] =
    [p \in DOMAIN @ \cup NamedIn(pmus) |->
       IF p \in NamedIn(pmus) THEN now - Stof[ts] ELSE @[p]]]

\* Schedule takes a delay.
ScheduleRead(ts, delay, cancelled) ==
  /\ queue' = (queue \ cancelled) \cup
                {[ts |-> ts, size |-> Len(payloads[ts]) + 1, at |-> now + delay]}
  /\ send_events' = [send_events EXCEPT ![ts] = Len(payloads[ts]) + 1]

\* A frame for a time stamp reaches the application after that time.
\* Bound: a time stamp is started only if it can be read by Horizon.
FirstFrame(ts, s, pmus) ==
  /\ Arrive(ts, s) /\ ts <= now /\ payloads[ts] = <<>>
  /\ nb_aggregates * (now + timer) <= Horizon
  /\ Accept(ts, pmus)
  /\ LogDelays(ts, pmus)
  /\ first_arrival' = [first_arrival EXCEPT ![ts] = now]
  /\ ScheduleRead(ts, now + timer, {})
  /\ UNCHANGED <<now, status, frames>>

\* Fault: the delay of a late frame is logged.
LateFrameLogged(ts, s, pmus) ==
  /\ Arrive(ts, s) /\ payloads[ts] # <<>> /\ IsExpired(ts)
  /\ LogDelays(ts, pmus)
  /\ UNCHANGED <<now, status, pdcVars, queue, frames, last_arrival>>

\* Fault: a late frame is accepted.
LateFrameAccepted(ts, s, pmus) ==
  /\ Arrive(ts, s) /\ payloads[ts] # <<>> /\ IsExpired(ts)
  /\ Accept(ts, pmus)
  /\ UNCHANGED <<now, status, first_arrival, send_events, queue, frames, delays>>

LateFrame(ts, s, pmus) ==
  /\ LatePacket(ts, s)
  /\ UNCHANGED delays

\* Fault: the complete set is not read at once.
NextFrameWaits(ts, s, pmus) ==
  /\ Arrive(ts, s) /\ payloads[ts] # <<>> /\ ~ IsExpired(ts)
  /\ Accept(ts, pmus)
  /\ LogDelays(ts, pmus)
  /\ ScheduleRead(ts, first_arrival[ts] + timer, Scheduled(ts))
  /\ UNCHANGED <<now, status, first_arrival, frames>>

\* Fault: the waiting call is cancelled for good.
NextFrameDropsEvent(ts, s, pmus) ==
  /\ Arrive(ts, s) /\ payloads[ts] # <<>> /\ ~ IsExpired(ts)
  /\ Accept(ts, pmus)
  /\ LogDelays(ts, pmus)
  /\ queue' = queue \ Scheduled(ts)
  /\ send_events' = [send_events EXCEPT ![ts] = Len(payloads[ts]) + 1]
  /\ UNCHANGED <<now, status, first_arrival, frames>>

\* The time of the deadline is passed as a delay, as in FirstFrame.
NextFrame(ts, s, pmus) ==
  /\ Arrive(ts, s) /\ payloads[ts] # <<>> /\ ~ IsExpired(ts)
  /\ Accept(ts, pmus)
  /\ LogDelays(ts, pmus)
  /\ ScheduleRead(ts, IF IsComplete(ts) THEN 0 ELSE first_arrival[ts] + timer,
                  Scheduled(ts))
  /\ UNCHANGED <<now, status, first_arrival, frames>>

DoReadFrame(ts, s, pmus) ==
  FirstFrame(ts, s, pmus) \/ LateFrame(ts, s, pmus) \/ NextFrame(ts, s, pmus)

\* It does not need the socket.
ReadPayloads(e) ==
  /\ Running /\ e.at = now
  /\ queue' = queue \ {e}
  /\ frames' = Append(frames, e)
  /\ UNCHANGED <<now, status, arrived, pdcVars, last_arrival, delays>>

\* The rows of the log: the delay of every PMU, or the number that stands for lost.
Lost == 0

PrintLogs ==
  [ts \in {ts \in Timestamps : DOMAIN delays[ts] # {}} |->
     [p \in PMU_names |-> IF p \in DOMAIN delays[ts] THEN delays[ts][p] ELSE Lost]]

(***************************************************************************)
(* Specification.                                                          *)
(***************************************************************************)
SPDCNext ==
  \/ \E ts \in Timestamps, s \in Senders :
       \E pmus \in Frames[s] : DoReadFrame(ts, s, pmus)
  \/ \E e \in queue : ReadPayloads(e)
  \/ (StopApplication \/ Tick \/ Finished) /\ UNCHANGED delays

SPDCSpec == SPDCInit /\ [][SPDCNext]_spdcVars

ReadDue == \E e \in queue : ReadPayloads(e)
SPDCFairness == WF_spdcVars(Tick /\ UNCHANGED delays) /\ WF_spdcVars(ReadDue)
SPDCFairSpec == SPDCSpec /\ SPDCFairness

(***************************************************************************)
(* Properties.                                                             *)
(***************************************************************************)
\* Every variable stays in its range.
SPDCTypeOK ==
  /\ now \in Nat /\ status \in {"open", "closed"}
  /\ arrived \subseteq Packet
  /\ payloads \in [Timestamps -> Seq(Seq(PMU_names))]
  /\ first_arrival \in [Timestamps -> Nat] /\ last_arrival \in [Timestamps -> Nat]
  /\ send_events \in [Timestamps -> Nat]
  /\ queue \subseteq Frame /\ frames \in Seq(Frame)
  /\ \A ts \in Timestamps : /\ DOMAIN delays[ts] \subseteq PMU_names
                            /\ \A p \in DOMAIN delays[ts] :
                                 delays[ts][p] \in Int /\ Stof[ts] + delays[ts][p] \in Nat

\* The log tells what the control could use: a delay is logged only if its frame was
\* there when the control was run, whatever std::stof has made of the time stamp.
LoggedInTime ==
  \A i \in DOMAIN frames :
    LET ts == frames[i].ts
    IN  \A p \in DOMAIN delays[ts] : Stof[ts] + delays[ts][p] <= frames[i].at

\* When the last of the expected frames is there, the control runs at that
\* very instant and not when the timer runs out.
CompleteSetReadAtOnce ==
  nb_aggregates >= 2 =>
    \A e \in queue : Len(payloads[e.ts]) >= nb_aggregates => e.at = now

\* The control is run for every time stamp of which a frame has come.
EveryTimestampRead ==
  \A ts \in Timestamps :
    payloads[ts] # <<>> ~> \E i \in DOMAIN frames : frames[i].ts = ts

\* The comment on the late branch of DoRead: a message arriving "after maximum
\* wait time" is disregarded; the attribute Timer defines that time.
NoneAcceptedAfterMaximumWait ==
  \A ts \in Timestamps : last_arrival[ts] <= first_arrival[ts] + timer

\* The header describes delays as "Delays of all received payloads", and PrintLogs
\* prints "Lost" PMUs as 0: a PMU in an accepted frame has its delay printed.  (A
\* frame that has taken no time by the float is left out, its delay is 0.)
EveryPayloadLogged ==
  \A ts \in Timestamps : \A i \in DOMAIN payloads[ts] : \A k \in DOMAIN payloads[ts][i] :
    first_arrival[ts] > Stof[ts] =>
      ts \in DOMAIN PrintLogs /\ PrintLogs[ts][payloads[ts][i][k]] # Lost

==============================================================================
