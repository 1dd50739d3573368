------------------------- MODULE HelicsPMUApplication -------------------------
(***************************************************************************)
(* One phasor measurement unit of model/helics-PMU-application.cc: a chain *)
(* of events, each of which samples the subscribed values, sends them and  *)
(* schedules the next.                                                     *)
(*                                                                         *)
(* The chain keeps its own time, a helics::Time, besides the clock of      *)
(* ns-3; delays are differences of the two, and a helics::Time may lose a  *)
(* tick on its way through double to ns-3 (see FromDouble).                *)
(***************************************************************************)
EXTENDS Integers, Sequences, FiniteSets

CONSTANTS
  m_startTime,      \* Application::m_startTime, in time steps
  sampling_period,  \* SetSamplingPeriodSeconds
  stop_time,        \* SetStopTimeSeconds: no sample at or after it
  AppStops,         \* instants at which ns-3 may stop the application
  Jitters,          \* values of the random send delay
  Resolution,       \* time steps per unit of the last digit of a time stamp
  TiesDown,         \* times half a digit above a time stamp, as decimals, whose
                    \* doubles lie below it
  Horizon           \* bound: the simulated time ends here

ASSUME PeriodAssumption ==
  /\ m_startTime \in Nat /\ stop_time \in Nat /\ Horizon \in Nat
  /\ sampling_period \in Nat /\ sampling_period >= 2
  /\ m_startTime < stop_time
ASSUME AppStopsAssumption == AppStops \subseteq {t \in Nat : t > m_startTime}
\* The default of JitterMinNs is 1000 time steps; see PastFree.
ASSUME JittersAssumption == Jitters \subseteq Nat \ {0} /\ Jitters # {}
ASSUME ResolutionAssumption == Resolution \in Nat \ {0} /\ TiesDown \subseteq Nat

VARIABLES
  now,         \* Simulator::Now
  status,      \* "running", "aborted" (assertion) or "crashed" (null socket)
  m_socket,    \* "null", then "open", then "closed" (the pointer is null again)
  generate,    \* scheduled calls of GenerateMeasurement
  sends,       \* scheduled calls of Socket::SendTo
  measured,    \* history: the calls of GenerateMeasurement, in order
  packets,     \* history: the time stamps that left, with the instant
  m_stopTime,  \* Application::m_stopTime
  inexact      \* the times that FromDouble makes one step short

config == <<m_stopTime, inexact>>
vars == <<now, status, m_socket, generate, sends, measured, packets, config>>

\* The instants at which a measurement is due.
Samples == {t \in m_startTime .. (stop_time - 1) :
              (t - m_startTime) % sampling_period = 0}

Init ==
  /\ now = 0 /\ status = "running" /\ m_socket = "null"
  /\ generate = {} /\ sends = {}
  /\ measured = <<>> /\ packets = {}
  /\ m_stopTime \in AppStops
  /\ inexact \in SUBSET (({sampling_period} \cup Samples) \ {0})

(***************************************************************************)
(* Conversions.                                                            *)
(***************************************************************************)
\* Time::FromDouble keeps the whole time steps of the nearest double.
FromDouble(time) == IF time \in inexact THEN time - 1 ELSE time

\* Fault: the age of the measurement is printed.
TimeStampAge(time) == time - now

\* The time stamp of a measurement: its double with five decimals, so that a tie of
\* the decimals goes where the double lies.
TimeStamp(time) ==
  (2 * time + Resolution - (IF time \in TiesDown THEN 1 ELSE 0)) \div (2 * Resolution)

(***************************************************************************)
(* GenerateMeasurement.  Schedule asserts that a delay is not negative.    *)
(***************************************************************************)
SendDelay(time, jitter) == FromDouble(time) - now + jitter

\* Fault: the period is counted from the clock.
NextDelayFromClock(time) == FromDouble(sampling_period)

\* Fault: the difference of the clocks is taken the wrong way round.
NextDelaySwapped(time) == now - FromDouble(time) + FromDouble(sampling_period)

NextDelay(time) == FromDouble(time) - now + FromDouble(sampling_period)

\* Fault: the sample at hand is compared with the stop time.
GoesOnAtStop(time) == time < stop_time

\* Fault: the sample after the next one is compared with it.
GoesOnTooShort(time) == time + 2 * sampling_period < stop_time

GoesOn(time) == time + sampling_period < stop_time

\* Fault: the same time is passed on.
FollowingSame(time) == time

Following(time) == time + sampling_period

GenerateMeasurement(time, others) ==
  \E j \in Jitters :
    /\ measured' = Append(measured, [time |-> time, at |-> now])
    /\ IF SendDelay(time, j) < 0 \/ (GoesOn(time) /\ NextDelay(time) < 0)
       THEN /\ status' = "aborted"
            /\ generate' = others
            /\ UNCHANGED sends
       ELSE /\ sends' = sends \cup {[at |-> now + SendDelay(time, j), time |-> time,
                                     null |-> m_socket' # "open"]}
            /\ generate' = others \cup
                 (IF GoesOn(time)
                  THEN {[at |-> now + NextDelay(time), time |-> Following(time)]}
                  ELSE {})
            /\ UNCHANGED status

(***************************************************************************)
(* Events.  ns-3 schedules the start and the stop of an application before *)
(* Run, so that they come first at their instants.                         *)
(***************************************************************************)
Due(at) ==
  /\ status = "running" /\ at = now
  /\ m_socket = IF now < m_stopTime THEN "open" ELSE "closed"

StartApplication ==
  /\ status = "running" /\ now = m_startTime /\ m_socket = "null"
  /\ m_socket' = "open"
  /\ GenerateMeasurement(m_startTime, {})
  /\ UNCHANGED <<now, packets, config>>

StopApplication ==
  /\ status = "running" /\ now = m_stopTime /\ m_socket = "open"
  /\ m_socket' = "closed"
  /\ UNCHANGED <<now, status, generate, sends, measured, packets, config>>

Sample(e) ==
  /\ Due(e.at)
  /\ UNCHANGED m_socket
  /\ GenerateMeasurement(e.time, generate \ {e})
  /\ UNCHANGED <<now, packets, config>>

\* The event holds the socket of the moment of Send; SendTo on a closed one fails.
SendTo(e) ==
  /\ Due(e.at)
  /\ sends' = sends \ {e}
  /\ status' = IF e.null THEN "crashed" ELSE "running"
  /\ packets' = IF m_socket = "open"
                THEN packets \cup {[stamp |-> TimeStamp(e.time), time |-> e.time, at |-> now]}
                ELSE packets
  /\ UNCHANGED <<now, m_socket, generate, measured, config>>

Tick ==
  /\ status = "running" /\ now < Horizon
  /\ now' = now + 1
  /\ \A e \in generate \cup sends : e.at > now
  /\ now >= m_startTime => m_socket # "null"
  /\ now >= m_stopTime => m_socket # "open"
  /\ UNCHANGED <<status, m_socket, generate, sends, measured, packets, config>>

\* The program aborts, or the horizon is reached.
Finished == (status # "running" \/ now = Horizon) /\ UNCHANGED vars

(***************************************************************************)
(* Specification.                                                          *)
(***************************************************************************)
SomeEvent ==
  \/ StartApplication \/ StopApplication
  \/ \E e \in generate : Sample(e)
  \/ \E e \in sends : SendTo(e)

Next == SomeEvent \/ Tick \/ Finished

Spec == Init /\ [][Next]_vars

FairSpec == Spec /\ WF_vars(SomeEvent) /\ WF_vars(Tick)

(***************************************************************************)
(* Properties.                                                             *)
(***************************************************************************)
SendEvent == [at : Nat, time : Nat, null : BOOLEAN]

\* Every variable stays in its range.
TypeOK ==
  /\ now \in Nat /\ status \in {"running", "aborted", "crashed"}
  /\ m_socket \in {"null", "open", "closed"}
  /\ generate \subseteq [at : Nat, time : Nat] /\ sends \subseteq SendEvent
  /\ measured \in Seq([time : Nat, at : Nat])
  /\ packets \subseteq [stamp : Nat, time : Nat, at : Nat]
  /\ m_stopTime \in Nat /\ inexact \subseteq Nat \ {0}

\* The samples are taken on the grid of the period and at most two time steps
\* early, never late: the ticks that conversions lose do not add up.
SampledOnSchedule ==
  \A i \in DOMAIN measured :
    LET nominal == m_startTime + (i - 1) * sampling_period
    IN  /\ measured[i].time = nominal
        /\ measured[i].at <= nominal /\ nominal - 2 <= measured[i].at

\* The assertion of Schedule holds for both events of a measurement, although
\* the clock may be a tick ahead of the converted time: the jitter covers it.
PastFree == status # "aborted"

\* An application that is stopped no earlier than the sampling never sends on
\* the socket it has given up.
NoSendOnNullSocket == stop_time <= m_stopTime => status # "crashed"

\* The concentrators collect by time stamp: the packets of one unit never share
\* one, if the period is longer than the last digit printed; with a period of one
\* digit, two samples half-way between digits may be rounded to the same one.
StampsDiffer ==
  Resolution < sampling_period =>
    \A p, q \in packets : p.stamp = q.stamp => p = q

\* Every sample before the stop time is sent, if the application runs for as
\* long as a jitter after the last of them.
EverySampleLeaves ==
  \A t \in Samples :
    <> (\/ \E p \in packets : p.time = t
        \/ \E j \in Jitters : m_stopTime <= t + j)

==============================================================================
