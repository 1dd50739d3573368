---------------------- MODULE HelicsPMUApplicationProofs ----------------------
(***************************************************************************)
(* Proofs about HelicsPMUApplication, for every value of its constants:    *)
(* the chain of measurements does not drift, schedules nothing in the past *)
(* and does not outlive its socket, and no two samples share a time stamp. *)
(***************************************************************************)
EXTENDS HelicsPMUApplication, SequenceTheorems, TLAPS

(***************************************************************************)
(* The inductive invariant.                                                *)
(***************************************************************************)
Nominal(k) == m_startTime + k * sampling_period

\* Converting loses at most one time step.
ConfigOK == m_stopTime \in AppStops /\ inexact \subseteq Nat \ {0}

\* Before the start nothing happens; afterwards the clock is not behind it.
StartedInTime ==
  /\ m_socket = "null" => measured = <<>> /\ generate = {} /\ sends = {}
  /\ m_socket = "null" /\ status = "running" => now <= m_startTime

\* A socket that is closed was closed at the stop time.
ClosedInTime == m_socket = "closed" => m_stopTime <= now

\* The next link of the chain: it has the next time of the grid, and its event
\* is at most the two ticks early that its two conversions have lost.
ChainOK ==
  /\ \A e, o \in generate : e = o
  /\ \A e \in generate :
       /\ e.time = Nominal(Len(measured)) /\ e.time < stop_time
       /\ e.at <= e.time /\ e.time - 2 <= e.at

\* Only a measurement after the stop of the application lacks a socket.
NullAfterStop ==
  \A e \in sends : e.null => m_stopTime < stop_time

IInv ==
  /\ TypeOK /\ ConfigOK
  /\ StartedInTime /\ ClosedInTime /\ ChainOK /\ NullAfterStop
  /\ SampledOnSchedule /\ PastFree /\ NoSendOnNullSocket

(***************************************************************************)
(* Arithmetic of the grid and of the conversions.                          *)
(***************************************************************************)
LEMMA GridStep ==
  ASSUME NEW k \in Nat
  PROVE  /\ Nominal(k) \in Nat
         /\ Nominal(k + 1) = Nominal(k) + sampling_period
         /\ Nominal(0) = m_startTime
BY PeriodAssumption DEF Nominal

LEMMA Conversion ==
  ASSUME ConfigOK, NEW t \in Nat
  PROVE  /\ FromDouble(t) \in Nat
         /\ t - 1 <= FromDouble(t) /\ FromDouble(t) <= t
BY DEF ConfigOK, FromDouble

(***************************************************************************)
(* GenerateMeasurement, called in time for the next link of the chain.     *)
(***************************************************************************)
LEMMA MeasurementStep ==
  ASSUME IInv, NEW time \in Nat,
         time = Nominal(Len(measured)), time < stop_time,
         now <= time, time - 2 <= now,
         m_socket' \in {"null", "open", "closed"},
         m_socket' = "closed" => m_stopTime <= now,
         m_socket' # "null",
         status = "running", GenerateMeasurement(time, {}),
         UNCHANGED <<now, packets, config>>
  PROVE  IInv'

<1> DEFINE next == [at |-> now + NextDelay(time), time |-> Following(time)]
           links == IF GoesOn(time) THEN {next} ELSE {}
<1>1. /\ TypeOK /\ ConfigOK /\ SampledOnSchedule /\ NullAfterStop
      /\ now \in Nat /\ measured \in Seq([time : Nat, at : Nat])
  BY DEF IInv, TypeOK
<1>2. PICK j \in Jitters :
        /\ measured' = Append(measured, [time |-> time, at |-> now])
        /\ IF SendDelay(time, j) < 0 \/ (GoesOn(time) /\ NextDelay(time) < 0)
           THEN /\ status' = "aborted" /\ generate' = {} /\ UNCHANGED sends
           ELSE /\ sends' = sends \cup {[at |-> now + SendDelay(time, j), time |-> time,
                                         null |-> m_socket' # "open"]}
                /\ generate' = {} \cup links
                /\ UNCHANGED status
  BY DEF GenerateMeasurement
<1>3. /\ FromDouble(time) \in Nat /\ FromDouble(sampling_period) \in Nat
      /\ time - 1 <= FromDouble(time) /\ FromDouble(time) <= time
      /\ sampling_period - 1 <= FromDouble(sampling_period)
      /\ FromDouble(sampling_period) <= sampling_period
  BY <1>1, Conversion, PeriodAssumption
<1>4. SendDelay(time, j) \in Nat /\ NextDelay(time) \in Nat
  BY <1>1, <1>3, PeriodAssumption, JittersAssumption DEF SendDelay, NextDelay
<1>5. /\ sends' = sends \cup {[at |-> now + SendDelay(time, j), time |-> time,
                                null |-> m_socket' # "open"]}
      /\ generate' = links /\ status' = "running"
  BY <1>2, <1>4
<1>6. /\ Len(measured') = Len(measured) + 1
      /\ measured' \in Seq([time : Nat, at : Nat])
      /\ \A i \in DOMAIN measured' :
           measured'[i] = IF i = Len(measured) + 1
                          THEN [time |-> time, at |-> now] ELSE measured[i]
      /\ DOMAIN measured' = 1 .. (Len(measured) + 1)
      /\ DOMAIN measured = 1 .. Len(measured) /\ Len(measured) \in Nat
  BY <1>1, <1>2
<1>7. /\ now + NextDelay(time) \in Nat /\ Following(time) \in Nat
      /\ Following(time) = Nominal(Len(measured'))
      /\ GoesOn(time) => Following(time) < stop_time
      /\ now + NextDelay(time) <= Following(time)
      /\ Following(time) - 2 <= now + NextDelay(time)
  <2>1. Nominal(Len(measured) + 1) = Nominal(Len(measured)) + sampling_period
    BY <1>6, GridStep
  <2>2. Following(time) = Nominal(Len(measured'))
    BY <2>1, <1>6 DEF Following
  <2>3. now + NextDelay(time) = FromDouble(time) + FromDouble(sampling_period)
    BY <1>1, <1>3 DEF NextDelay
  <2>4. sampling_period \in Nat
    BY PeriodAssumption
  <2>5. Following(time) = time + sampling_period /\ Following(time) \in Nat
    BY <2>4 DEF Following
  <2>6. QED  BY <2>2, <2>3, <2>4, <2>5, <1>3 DEF GoesOn
<1>8. TypeOK'
  <2>1. sends' \subseteq SendEvent
    <3>1. [at |-> now + SendDelay(time, j), time |-> time, null |-> m_socket' # "open"]
            \in SendEvent
      BY <1>1, <1>4 DEF SendEvent
    <3>2. QED  BY <3>1, <1>1, <1>5 DEF TypeOK
  <2>2. generate' \subseteq [at : Nat, time : Nat]
    BY <1>5, <1>7
  <2>3. QED  BY <2>1, <2>2, <1>1, <1>5, <1>6 DEF TypeOK, config
<1>9. ConfigOK' /\ StartedInTime' /\ ClosedInTime' /\ PastFree'
  BY <1>1, <1>5 DEF ConfigOK, StartedInTime, ClosedInTime, PastFree, config
<1>10. ChainOK'
  BY <1>5, <1>7 DEF ChainOK
<1>11. NullAfterStop'
  <2>1. m_socket' # "open" => m_stopTime < stop_time
    BY <1>1, PeriodAssumption, AppStopsAssumption DEF ConfigOK
  <2>2. UNCHANGED m_stopTime
    BY DEF config
  <2>3. ASSUME NEW e \in sends', e.null PROVE m_stopTime < stop_time
    <3>1. CASE e \in sends
      BY <3>1, <2>3, <1>1 DEF NullAfterStop
    <3>2. CASE e \notin sends
      <4>1. e.null = (m_socket' # "open")
        BY <3>2, <1>5
      <4>2. QED  BY <4>1, <2>1, <2>3
    <3>3. QED  BY <3>1, <3>2
  <2>4. QED  BY <2>2, <2>3 DEF NullAfterStop
<1>12. SampledOnSchedule'
  <2>1. ASSUME NEW i \in DOMAIN measured'
        PROVE  LET nominal == m_startTime + (i - 1) * sampling_period
               IN  /\ measured'[i].time = nominal
                   /\ measured'[i].at <= nominal /\ nominal - 2 <= measured'[i].at
    <3>1. CASE i = Len(measured) + 1
      <4>1. time = m_startTime + (i - 1) * sampling_period
        BY <3>1, <1>6 DEF Nominal
      <4>2. measured'[i] = [time |-> time, at |-> now]
        BY <3>1, <1>6
      <4>3. QED  BY <4>1, <4>2
    <3>2. CASE i # Len(measured) + 1
      <4>1. i \in DOMAIN measured /\ measured'[i] = measured[i]
        BY <3>2, <1>6
      <4>2. QED  BY <4>1, <1>1 DEF SampledOnSchedule
    <3>3. QED  BY <3>1, <3>2
  <2>2. QED  BY <2>1 DEF SampledOnSchedule
<1>13. NoSendOnNullSocket'
  BY <1>5 DEF NoSendOnNullSocket
<1>14. QED  BY <1>8, <1>9, <1>10, <1>11, <1>12, <1>13 DEF IInv

(***************************************************************************)
(* The steps.                                                              *)
(***************************************************************************)
LEMMA InitEstablishes == Init => IInv
<1> SUFFICES ASSUME Init PROVE IInv
  OBVIOUS
<1>1. /\ now = 0 /\ status = "running" /\ m_socket = "null"
      /\ generate = {} /\ sends = {} /\ measured = <<>> /\ packets = {}
      /\ m_stopTime \in AppStops
  BY DEF Init
<1>2. inexact \subseteq Nat \ {0}
  <2>1. Samples \subseteq Nat /\ sampling_period \in Nat
    BY PeriodAssumption DEF Samples
  <2>2. QED  BY <2>1 DEF Init
<1>3. TypeOK /\ ConfigOK
  BY <1>1, <1>2, AppStopsAssumption DEF TypeOK, ConfigOK
<1>4. QED
  BY <1>1, <1>3, PeriodAssumption DEF IInv, StartedInTime, ClosedInTime, ChainOK,
     NullAfterStop, SampledOnSchedule, PastFree, NoSendOnNullSocket

LEMMA StepPreserves == IInv /\ [Next]_vars => IInv'
<1> SUFFICES ASSUME IInv, [Next]_vars PROVE IInv'
  OBVIOUS
<1>0. TypeOK /\ ConfigOK /\ now \in Nat /\ m_stopTime \in Nat
  BY AppStopsAssumption DEF IInv, TypeOK, ConfigOK
<1>1. CASE StartApplication
  <2>1. /\ status = "running" /\ now = m_startTime /\ m_socket = "null"
        /\ m_socket' = "open" /\ GenerateMeasurement(m_startTime, {})
        /\ UNCHANGED <<now, packets, config>>
    BY <1>1 DEF StartApplication
  <2>2. measured = <<>>
    BY <2>1 DEF IInv, StartedInTime
  <2>3. m_startTime = Nominal(Len(measured)) /\ m_startTime \in Nat
    BY <2>2, GridStep, PeriodAssumption
  <2>4. QED  BY <2>1, <2>3, PeriodAssumption, MeasurementStep
<1>2. CASE StopApplication
  <2>1. /\ now = m_stopTime /\ m_socket' = "closed"
        /\ UNCHANGED <<now, status, generate, sends, measured, packets, config>>
    BY <1>2 DEF StopApplication
  <2>2. QED
    BY <2>1, <1>0 DEF IInv, TypeOK, ConfigOK, StartedInTime, ClosedInTime, ChainOK,
       NullAfterStop, SampledOnSchedule, PastFree, NoSendOnNullSocket, config
<1>3. ASSUME NEW e \in generate, Sample(e) PROVE IInv'
  <2>1. /\ status = "running" /\ e.at = now
        /\ m_socket = IF now < m_stopTime THEN "open" ELSE "closed"
        /\ UNCHANGED m_socket /\ GenerateMeasurement(e.time, generate \ {e})
        /\ UNCHANGED <<now, packets, config>>
    BY <1>3 DEF Sample, Due
  <2>2. generate \ {e} = {}
    BY DEF IInv, ChainOK
  <2>3. /\ e.time \in Nat /\ e.time = Nominal(Len(measured)) /\ e.time < stop_time
        /\ now <= e.time /\ e.time - 2 <= now
    BY <2>1 DEF IInv, ChainOK, TypeOK
  <2>4. m_socket' \in {"open", "closed"} /\ (m_socket' = "closed" => m_stopTime <= now)
    BY <2>1, <1>0
  <2>5. QED  BY <2>1, <2>2, <2>3, <2>4, MeasurementStep
<1>4. ASSUME NEW e \in sends, SendTo(e) PROVE IInv'
  <2>1. /\ sends' \subseteq sends
        /\ status' = IF e.null THEN "crashed" ELSE "running"
        /\ \/ UNCHANGED packets
           \/ packets' = packets \cup
                {[stamp |-> TimeStamp(e.time), time |-> e.time, at |-> now]}
        /\ UNCHANGED <<now, m_socket, generate, measured, config>>
        /\ status = "running"
    BY <1>4 DEF SendTo, Due
  <2>2. e.time \in Nat /\ TimeStamp(e.time) \in Nat
    <3>1. e.time \in Nat
      BY DEF IInv, TypeOK, SendEvent
    <3>2. QED  BY <3>1, ResolutionAssumption DEF TimeStamp
  <2>3. packets' \subseteq [stamp : Nat, time : Nat, at : Nat]
    BY <2>1, <2>2, <1>0 DEF TypeOK
  <2>4. TypeOK'
    BY <2>1, <2>3, <1>0 DEF TypeOK, config
  <2>5. NoSendOnNullSocket'
    <3>1. e.null => m_stopTime < stop_time
      BY DEF IInv, NullAfterStop
    <3>2. QED  BY <3>1, <2>1, <1>0, PeriodAssumption DEF NoSendOnNullSocket, config
  <2>6. NullAfterStop' /\ ConfigOK' /\ ClosedInTime' /\ ChainOK' /\ SampledOnSchedule'
    BY <2>1 DEF IInv, NullAfterStop, ConfigOK, ClosedInTime, ChainOK, SampledOnSchedule,
       config
  <2>7. StartedInTime' /\ PastFree'
    BY <2>1 DEF IInv, StartedInTime, PastFree
  <2>8. QED  BY <2>4, <2>5, <2>6, <2>7 DEF IInv
<1>5. CASE Tick
  <2>1. /\ now' = now + 1
        /\ now >= m_startTime => m_socket # "null"
        /\ UNCHANGED <<status, m_socket, generate, sends, measured, packets, config>>
    BY <1>5 DEF Tick
  <2>2. StartedInTime' /\ ClosedInTime'
    BY <2>1, <1>0, PeriodAssumption DEF IInv, StartedInTime, ClosedInTime, config
  <2>3. TypeOK' /\ ConfigOK'
    BY <2>1, <1>0 DEF TypeOK, ConfigOK, config
  <2>4. QED
    BY <2>1, <2>2, <2>3 DEF IInv, ChainOK, NullAfterStop, SampledOnSchedule, PastFree,
       NoSendOnNullSocket, config
<1>6. CASE UNCHANGED vars
  BY <1>6 DEF vars, config, IInv, TypeOK, ConfigOK, StartedInTime, ClosedInTime, ChainOK,
     NullAfterStop, SampledOnSchedule, PastFree, NoSendOnNullSocket
<1>7. QED
  BY <1>1, <1>2, <1>3, <1>4, <1>5, <1>6 DEF Next, SomeEvent, Finished

\* The inductive invariant holds in every reachable state.
THEOREM Invariance == Spec => []IInv
<1>1. Init => IInv
  BY InitEstablishes
<1>2. IInv /\ [Next]_vars => IInv'
  BY StepPreserves
<1>3. QED  BY <1>1, <1>2, PTL DEF Spec

(***************************************************************************)
(* The theorems.                                                           *)
(***************************************************************************)
\* Every variable of the unit stays in its range.
THEOREM TypeCorrectness == Spec => []TypeOK
<1>1. IInv => TypeOK
  BY DEF IInv
<1>2. QED  BY <1>1, Invariance, PTL

\* The chain of GenerateMeasurement events keeps to the grid of the sampling
\* period, for any number of samples and whichever conversions lose a tick.
THEOREM NoDrift == Spec => []SampledOnSchedule
<1>1. IInv => SampledOnSchedule
  BY DEF IInv
<1>2. QED  BY <1>1, Invariance, PTL

\* GenerateMeasurement and Send never pass a negative delay to Schedule.
THEOREM NothingInThePast == Spec => []PastFree
<1>1. IInv => PastFree
  BY DEF IInv
<1>2. QED  BY <1>1, Invariance, PTL

\* The chain ends before StopApplication gives up the socket, if the
\* application is stopped no earlier than the sampling.
THEOREM SocketOutlivesChain == Spec => []NoSendOnNullSocket
<1>1. IInv => NoSendOnNullSocket
  BY DEF IInv
<1>2. QED  BY <1>1, Invariance, PTL

(***************************************************************************)
(* Time stamps.  What was measured, on its way or sent, is a period apart  *)
(* from all else that was measured and from the next link of the chain.    *)
(***************************************************************************)
Times == {x.time : x \in sends \cup packets}

SpacedOut ==
  /\ \A t, u \in Times : t < u => t + sampling_period <= u
  /\ \A e \in generate : \A t \in Times : t + sampling_period <= e.time

\* The time tells the event or the packet.
OneOfATime ==
  /\ \A d, e \in sends : d.time = e.time => d = e
  /\ \A p, q \in packets : p.time = q.time => p = q
  /\ \A e \in sends, p \in packets : e.time # p.time

StampedByTime ==
  /\ \A p \in packets : p.stamp = TimeStamp(p.time)
  /\ m_socket = "null" => packets = {}

Apart == SpacedOut /\ OneOfATime /\ StampedByTime

LEMMA TimesAreNat == TypeOK => Times \subseteq Nat
<1> SUFFICES ASSUME TypeOK, NEW x \in sends \cup packets PROVE x.time \in Nat
  BY DEF Times
<1>1. x \in SendEvent \/ x \in [stamp : Nat, time : Nat, at : Nat]
  BY DEF TypeOK
<1>2. QED  BY <1>1 DEF SendEvent

\* A whole digit more is another digit.
LEMMA DigitsDiffer ==
  ASSUME NEW a \in Nat, NEW b \in Nat, NEW d \in Nat \ {0}, a + d <= b
  PROVE  a \div d < b \div d
<1>1. /\ a \div d \in Nat /\ d * (a \div d) <= a
      /\ b \div d \in Nat /\ b < d * ((b \div d) + 1)
  OBVIOUS
<1>2. d * ((a \div d) + 1) < d * ((b \div d) + 1)
  <2>1. d * ((a \div d) + 1) = d * (a \div d) + d
    BY <1>1
  <2>2. d * (a \div d) \in Nat /\ d * ((b \div d) + 1) \in Nat
    BY <1>1
  <2>3. QED  BY <1>1, <2>1, <2>2
<1>3. QED  BY <1>1, <1>2

LEMMA StampsGrow ==
  ASSUME NEW t \in Nat, NEW u \in Nat, t + sampling_period <= u,
         Resolution < sampling_period
  PROVE  TimeStamp(t) < TimeStamp(u)
<1> DEFINE below(time) == IF time \in TiesDown THEN 1 ELSE 0
           doubled(time) == 2 * time + Resolution - below(time)
<1>1. Resolution \in Nat \ {0} /\ sampling_period \in Nat
  BY ResolutionAssumption, PeriodAssumption
<1>2. below(t) \in 0 .. 1 /\ below(u) \in 0 .. 1
  OBVIOUS
<1>3. /\ doubled(t) \in Nat /\ doubled(u) \in Nat
      /\ 2 * Resolution \in Nat \ {0}
      /\ doubled(t) + 2 * Resolution <= doubled(u)
  <2> HIDE DEF below
  <2> QED  BY <1>1, <1>2
<1>4. TimeStamp(t) = doubled(t) \div (2 * Resolution)
      /\ TimeStamp(u) = doubled(u) \div (2 * Resolution)
  BY DEF TimeStamp
<1>5. QED
  <2> HIDE DEF doubled
  <2> QED  BY <1>3, <1>4, DigitsDiffer

LEMMA ApartIsDifferent == TypeOK /\ Apart => StampsDiffer
<1> SUFFICES ASSUME TypeOK, Apart, Resolution < sampling_period,
                    NEW p \in packets, NEW q \in packets, p.stamp = q.stamp
             PROVE  p = q
  BY DEF StampsDiffer
<1>1. p.time \in Times /\ q.time \in Times /\ p.time \in Nat /\ q.time \in Nat
  BY TimesAreNat DEF Times
<1>2. TimeStamp(p.time) = TimeStamp(q.time)
  BY DEF Apart, StampedByTime
<1>3. TimeStamp(p.time) \in Int
  BY <1>1, ResolutionAssumption DEF TimeStamp
<1>4. ASSUME NEW t \in Times, NEW u \in Times, t < u PROVE TimeStamp(t) < TimeStamp(u)
  BY <1>4, StampsGrow, TimesAreNat DEF Apart, SpacedOut
<1>5. ~ (p.time < q.time) /\ ~ (q.time < p.time)
  BY <1>1, <1>2, <1>3, <1>4
<1>6. p.time = q.time
  BY <1>1, <1>5
<1>7. QED  BY <1>6 DEF Apart, OneOfATime

\* A new measurement comes a period after all others, and the next one a period later.
LEMMA ApartMeasurement ==
  ASSUME TypeOK, Apart, NEW time \in Nat,
         \A t \in Times : t + sampling_period <= time,
         GenerateMeasurement(time, {}), m_socket' # "null", UNCHANGED packets
  PROVE  Apart'
<1>1. Times \subseteq Nat /\ sampling_period \in Nat /\ sampling_period >= 2
  BY TimesAreNat, PeriodAssumption
<1>2. PICK j \in Jitters :
        IF SendDelay(time, j) < 0 \/ (GoesOn(time) /\ NextDelay(time) < 0)
        THEN generate' = {} /\ UNCHANGED sends
        ELSE /\ sends' = sends \cup {[at |-> now + SendDelay(time, j), time |-> time,
                                      null |-> m_socket' # "open"]}
             /\ generate' = {} \cup
                  (IF GoesOn(time)
                   THEN {[at |-> now + NextDelay(time), time |-> Following(time)]}
                   ELSE {})
  BY DEF GenerateMeasurement
<1>3. StampedByTime'
  BY DEF Apart, StampedByTime
<1>4. CASE generate' = {} /\ UNCHANGED sends
  BY <1>3, <1>4 DEF Apart, SpacedOut, OneOfATime, Times
<1>5. ASSUME NEW new, new.time = time, sends' = sends \cup {new},
             \A e \in generate' : e.time = time + sampling_period
      PROVE  Apart'
  <2>1. Times' = Times \cup {time}
    BY <1>5 DEF Times
  <2>2. time \notin Times
    BY <1>1
  <2>3. SpacedOut'
    BY <2>1, <1>1, <1>5 DEF Apart, SpacedOut
  <2>4. OneOfATime'
    <3>1. \A x \in sends \cup packets : x.time # time
      BY <2>2 DEF Times
    <3>2. QED  BY <3>1, <1>5 DEF Apart, OneOfATime
  <2>5. QED  BY <2>3, <2>4, <1>3 DEF Apart
<1>6. CASE ~ (generate' = {} /\ UNCHANGED sends)
  <2> DEFINE new == [at |-> now + SendDelay(time, j), time |-> time,
                     null |-> m_socket' # "open"]
  <2>1. sends' = sends \cup {new} /\ new.time = time
    BY <1>2, <1>6
  <2>2. \A e \in generate' : e.time = time + sampling_period
    BY <1>2, <1>6 DEF Following
  <2> HIDE DEF new
  <2>3. QED  BY <2>1, <2>2, <1>5
<1>7. QED  BY <1>4, <1>6

LEMMA ApartStep == IInv /\ Apart /\ [Next]_vars => Apart'
<1> SUFFICES ASSUME IInv, Apart, [Next]_vars PROVE Apart'
  OBVIOUS
<1>0. TypeOK /\ Times \subseteq Nat
  BY TimesAreNat DEF IInv
<1>1. CASE StartApplication
  <2>1. /\ m_socket = "null" /\ m_socket' = "open" /\ UNCHANGED packets
        /\ GenerateMeasurement(m_startTime, {})
    BY <1>1 DEF StartApplication
  <2>2. Times = {}
    BY <2>1 DEF IInv, StartedInTime, Apart, StampedByTime, Times
  <2>3. QED  BY <2>1, <2>2, <1>0, PeriodAssumption, ApartMeasurement
<1>2. CASE StopApplication \/ Tick \/ UNCHANGED vars
  <2>1. UNCHANGED <<generate, sends, packets>>
    BY <1>2 DEF StopApplication, Tick, vars
  <2>2. m_socket' = "null" => m_socket = "null"
    BY <1>2 DEF StopApplication, Tick, vars
  <2>3. QED  BY <2>1, <2>2 DEF Apart, SpacedOut, OneOfATime, StampedByTime, Times
<1>3. ASSUME NEW e \in generate, Sample(e) PROVE Apart'
  <2>1. /\ m_socket' # "null" /\ UNCHANGED packets
        /\ GenerateMeasurement(e.time, generate \ {e})
    BY <1>3 DEF Sample, Due
  <2>2. generate \ {e} = {}
    BY DEF IInv, ChainOK
  <2>3. e.time \in Nat /\ \A t \in Times : t + sampling_period <= e.time
    BY <1>0 DEF TypeOK, Apart, SpacedOut
  <2>4. QED  BY <2>1, <2>2, <2>3, <1>0, ApartMeasurement
<1>4. ASSUME NEW e \in sends, SendTo(e) PROVE Apart'
  <2> DEFINE packet == [stamp |-> TimeStamp(e.time), time |-> e.time, at |-> now]
  <2>1. /\ sends' = sends \ {e} /\ UNCHANGED <<generate, m_socket>>
        /\ packets' = IF m_socket = "open" THEN packets \cup {packet} ELSE packets
        /\ m_socket # "null"
    BY <1>4 DEF SendTo, Due
  <2>2. packet.time = e.time /\ packet.stamp = TimeStamp(e.time)
    OBVIOUS
  <2> HIDE DEF packet
  <2>3. Times' \subseteq Times
    BY <2>1, <2>2 DEF Times
  <2>4. SpacedOut'
    BY <2>1, <2>3 DEF Apart, SpacedOut
  <2>5. OneOfATime' /\ StampedByTime'
    BY <2>1, <2>2 DEF Apart, OneOfATime, StampedByTime
  <2>6. QED  BY <2>4, <2>5 DEF Apart
<1>5. QED
  BY <1>1, <1>2, <1>3, <1>4 DEF Next, SomeEvent, Finished

\* Two packets of one unit never carry one time stamp, if samples come more slowly
\* than the last digit of the time stamp: the concentrators never take a sample for
\* a repetition of another.
THEOREM StampsIdentifySamples == Spec => []StampsDiffer
<1>1. Init => Apart
  BY DEF Init, Apart, SpacedOut, OneOfATime, StampedByTime, Times
<1>2. IInv /\ Apart /\ [Next]_vars => Apart'
  BY ApartStep
<1>3. IInv /\ Apart => StampsDiffer
  BY ApartIsDifferent DEF IInv
<1>4. QED  BY <1>1, <1>2, <1>3, Invariance, PTL DEF Spec

==============================================================================
