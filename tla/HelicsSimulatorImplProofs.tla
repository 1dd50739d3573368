---------------------- MODULE HelicsSimulatorImplProofs ----------------------
(***************************************************************************)
(* Proofs about HelicsSimulatorImpl, for every value of its constants.     *)
(***************************************************************************)
EXTENDS HelicsSimulatorImpl, FiniteSetTheorems, SequenceTheorems, TLAPS

(***************************************************************************)
(* The inductive invariant.                                                *)
(***************************************************************************)
UidsReserved == m_uid + Len(m_eventsWithContext) <= MaxUid

UidsIdentify ==
  /\ m_currentUid < m_uid
  /\ \A e \in m_events : e.uid < m_uid
  /\ \A e, o \in m_events : e.uid = o.uid => e = o
  /\ \A id \in issued : id.impl < m_uid /\ id.uid \in {id.impl, DestroyUid}

\* Until the clock wraps, when every event is left behind it.
PendingIsAfterCurrent ==
  ~ ClockWrapped => \A e \in m_events : Before(m_currentTs, m_currentUid, e.ts, e.uid)

NextTimeIsFresh == pc = "loop" => nextTime = Next

Starting ==
  pc \in {"setup", "enter", "executing"} \/ (pc \in {"pewc", "swap"} /\ ret = "enter")

ClocksStartAtZero ==
  /\ Starting => m_currentTs = 0 /\ helicsTime = 0
  /\ pc = "invoke" => ret = "next"

\* Run's copy of the grant is the converted grant, except between the grant and
\* the end of requestTime, when the clock stands at the last one; this is why a
\* truncated grant never takes time back.
GrantIsConverted ==
  /\ helicsTime < Never => grantedTime <= FromDouble(helicsTime)
  /\ grantedTime = Wrapped => helicsTime = Never
  /\ pc # "callback" => grantedTime = FromDouble(helicsTime)
  /\ pc \in {"request", "callback"} => m_currentTs = Unsigned(grantedTime)

\* As NeverAheadOfHelics, for the unsigned clock and a wrapped grant as well.
ClockWithinWord == m_currentTs <= Unsigned(grantedTime) /\ grantedTime <= helicsTime

RequestIsSafe == pc = "request" => \A e \in m_events : grantedTime < e.ts

UnexpiredIsPending ==
  pc # "disposed" =>
    \A id \in issued :
      (/\ id.uid # DestroyUid
       /\ id.impl \notin cancelled
       /\ Before(m_currentTs, m_currentUid, id.ts, id.uid))
        => \E e \in m_events : e.uid = id.uid /\ e.ts = id.ts

\* m_eventsWithContextEmpty, which the main thread reads without the mutex,
\* tells the truth whenever nobody is between the push and the flag.
FlagCoversList ==
  mutex = Free => (m_eventsWithContextEmpty <=> m_eventsWithContext = <<>>)

PushedUnlessFree == mutex # Free => m_eventsWithContext # <<>>

IInv ==
  /\ TypeOK /\ UidsReserved /\ UidsIdentify
  /\ PendingIsAfterCurrent /\ ClockWithinWord
  /\ NextTimeIsFresh /\ ClocksStartAtZero /\ GrantIsConverted /\ RequestIsSafe
  /\ CountsPending /\ UnexpiredIsPending
  /\ FlagCoversList /\ PushedUnlessFree

(***************************************************************************)
(* What a step can do to the queue, the clock and the EventIds: the many   *)
(* actions of the module have ten kinds of effect on them.                 *)
(***************************************************************************)
core == <<m_events, m_uid, m_unscheduledEvents, m_currentTs, m_currentUid,
          cancelled, issued, m_eventsWithContext>>

Quiet == UNCHANGED core /\ (pc = "disposed" => pc' = "disposed")

InsertsAt(ts, stop) ==
  /\ Room /\ m_currentTs <= ts /\ Insert(ts, stop)
  /\ issued' \in {issued, issued \cup {[impl |-> m_uid, ts |-> ts, uid |-> m_uid]}}
  /\ UNCHANGED <<clockVars, cancelled, m_eventsWithContext, pc>>
  /\ pc # "disposed"

Inserts == \E ts \in Nat, stop \in BOOLEAN : InsertsAt(ts, stop)

SchedulesDestroy ==
  /\ Room /\ m_uid' = m_uid + 1
  /\ issued' = issued \cup
       {[impl |-> m_uid, ts |-> m_currentTs, uid |-> DestroyUid]}
  /\ UNCHANGED <<m_events, m_unscheduledEvents, clockVars, cancelled,
                 m_eventsWithContext, pc>>

Removes ==
  \E id \in issued :
    /\ id.uid # DestroyUid /\ ~ IsExpired(id)
    /\ m_events' = {e \in m_events : e.uid # id.uid}
    /\ cancelled' = cancelled \cup {id.impl}
    /\ m_unscheduledEvents' = m_unscheduledEvents - 1
    /\ UNCHANGED <<m_uid, clockVars, issued, m_eventsWithContext, pc>>
    /\ pc # "disposed"

Cancels ==
  \E id \in issued :
    /\ cancelled' = cancelled \cup {id.impl}
    /\ UNCHANGED <<queueVars, clockVars, issued, m_eventsWithContext, pc>>

Pushes ==
  \E d \in Delays :
    /\ Room
    /\ m_eventsWithContext' = Append(m_eventsWithContext, d)
    /\ UNCHANGED <<queueVars, clockVars, cancelled, issued, pc>>

Jumps ==
  /\ pc = "loop" /\ pc' = "request" /\ (m_events = {} \/ nextTime > grantedTime)
  /\ m_currentTs' = Unsigned(grantedTime)
  /\ UNCHANGED <<queueVars, m_currentUid, cancelled, issued, m_eventsWithContext,
                 grantedTime>>

Disposes ==
  /\ pc' = "disposed" /\ m_events' = {}
  /\ UNCHANGED <<m_uid, clockVars, cancelled, issued, m_eventsWithContext>>

(***************************************************************************)
(* Signed and unsigned words.                                              *)
(***************************************************************************)
LEMMA WordFacts ==
  /\ Never \in Nat /\ 0 < Never
  /\ Wrapped \in Int /\ Wrapped < 0 /\ Unsigned(Wrapped) = Never + 1
  /\ \A t \in Nat : Unsigned(t) = t
BY TimesAssumption DEF Wrapped, Words, Unsigned

LEMMA FromDoubleBounds ==
  ASSUME NEW g \in 0 .. Never
  PROVE  /\ FromDouble(g) \in Nat \cup {Wrapped} /\ FromDouble(g) <= g
         /\ g < Never => FromDouble(g) \in Nat /\ g <= FromDouble(g) + 1
         /\ FromDouble(Never) = Wrapped /\ FromDouble(0) = 0
<1>1. g \in Nat /\ g <= Never
  BY WordFacts
<1>2. g < Never =>
        FromDouble(g) \in Nat /\ FromDouble(g) <= g /\ g <= FromDouble(g) + 1
  BY <1>1, WordFacts, TimesAssumption DEF FromDouble
<1>3. FromDouble(Never) = Wrapped /\ FromDouble(0) = 0
  BY WordFacts, TimesAssumption DEF FromDouble
<1>4. g = Never => FromDouble(g) <= g
  BY <1>1, <1>3, WordFacts
<1>5. QED  BY <1>1, <1>2, <1>3, <1>4, WordFacts

LEMMA Effects ==
  ASSUME IInv, [SimNext]_vars
  PROVE  \/ Quiet \/ Inserts \/ SchedulesDestroy \/ Removes \/ Cancels \/ Pushes
         \/ Swap \/ ProcessOneEvent \/ Jumps \/ Disposes
<1> USE DEF core, queueVars, clockVars, foreignVars, userVars, runVars
<1>0. m_currentTs \in Nat
  BY DEF IInv, TypeOK
<1>1. CASE User
  <2> USE DEF InUserCode, UserCode
  <2>1. ASSUME NEW d \in Delays, Schedule(d) \/ ScheduleWithContext(d) \/ StopAfter(d)
        PROVE  Inserts
    <3>1. m_currentTs + d \in Nat /\ m_currentTs <= m_currentTs + d
      BY <1>0, DelaysAssumption
    <3>2. InsertsAt(m_currentTs + d, FALSE) \/ InsertsAt(m_currentTs + d, TRUE)
      BY <2>1, <3>1 DEF Schedule, ScheduleWithContext, StopAfter, InsertsAt
    <3>3. QED  BY <3>1, <3>2 DEF Inserts
  <2>2. ASSUME ScheduleNow
        PROVE  Inserts
    <3>1. m_currentTs <= m_currentTs
      BY <1>0
    <3>2. InsertsAt(m_currentTs, FALSE)
      BY <2>2, <3>1 DEF ScheduleNow, InsertsAt
    <3>3. QED  BY <1>0, <3>2 DEF Inserts
  <2>3. Stop => Quiet
    BY DEF Stop, Quiet
  <2>4. ScheduleDestroy => SchedulesDestroy
    BY DEF ScheduleDestroy, SchedulesDestroy
  <2>5. ASSUME NEW id \in issued
        PROVE  /\ RemoveDestroy(id) => Quiet
               /\ Remove(id) => Removes
               /\ Cancel(id) => Cancels
    <3>1. RemoveDestroy(id) => Quiet  BY DEF RemoveDestroy, Quiet
    <3>2. Remove(id) => Removes  BY DEF Remove, Removes
    <3>3. Cancel(id) => Cancels  BY DEF Cancel, Cancels
    <3>4. QED  BY <3>1, <3>2, <3>3
  <2>6. QED  BY <1>1, <2>1, <2>2, <2>3, <2>4, <2>5 DEF User
<1>2. CASE \E t \in Threads : Foreign(t)
  <2>1. ASSUME NEW t \in Threads, NEW d \in Delays
        PROVE  Push(t, d) => Pushes
    BY DEF Push, Pushes
  <2>2. ASSUME NEW t \in Threads
        PROVE  SetFlag(t) => Quiet
    BY DEF SetFlag, Quiet
  <2>3. QED  BY <1>2, <2>1, <2>2 DEF Foreign
<1>3. CASE RunStep
  <2>1. CheckFlag => Quiet
    BY DEF CheckFlag, Quiet
  <2>2. EnterExecutingMode \/ BeginLoop \/ EndHandler \/ RefreshNextTime => Quiet
    BY DEF EnterExecutingMode, BeginLoop, EndHandler, RefreshNextTime, Goto, Quiet
  <2>3. Grant \/ ReturnFromRequest \/ EndRun => Quiet
    BY DEF Grant, ReturnFromRequest, EndRun, Goto, Quiet
  <2>4. RequestTime => Jumps
    BY DEF RequestTime, Goto, Jumps
  <2>5. QED  BY <1>3, <2>1, <2>2, <2>3, <2>4 DEF RunStep, ProcessEventsWithContext
<1>4. CASE Destroy
  <2>1. CallDestroy \/ EndDestroyEvent \/ CallDispose => Quiet
    BY DEF CallDestroy, EndDestroyEvent, CallDispose, Goto, Quiet
  <2>2. RunDestroyEvent => Quiet
    BY DEF RunDestroyEvent, Quiet
  <2>3. DoDispose => Disposes
    BY DEF DoDispose, Goto, Disposes
  <2>4. QED  BY <1>4, <2>1, <2>2, <2>3 DEF Destroy
<1>5. CASE Run
  BY <1>5 DEF Run, Goto, Quiet
<1>6. CASE Terminating \/ UNCHANGED vars
  BY <1>6 DEF Terminating, vars, Quiet
<1>7. QED  BY <1>1, <1>2, <1>3, <1>4, <1>5, <1>6 DEF SimNext

(***************************************************************************)
(* The head of the queue.                                                  *)
(***************************************************************************)
LEMMA LeastNatural ==
  ASSUME NEW S \in SUBSET Nat, S # {}
  PROVE  \E x \in S : \A y \in S : x <= y
<1> DEFINE R == {ss \in Nat \X Nat : ss[1] < ss[2]}
<1>1. IsWellFoundedOn(R, Nat)
  BY NatLessThanWellFounded DEF OpToRel
<1>2. PICK x \in S : \A y \in S : <<y, x>> \notin R
  <2> HIDE DEF R
  <2> QED  BY <1>1, WFMin
<1>3. ASSUME NEW y \in S, y < x
      PROVE  FALSE
  <2>1. <<y, x>> \in Nat \X Nat /\ <<y, x>>[1] < <<y, x>>[2]
    BY <1>3
  <2>2. QED  BY <1>2, <2>1
<1>4. QED  BY <1>3

\* The queue has a first event, and Next is its timestamp.
LEMMA NextIsFirst ==
  ASSUME m_events \subseteq Event, m_events # {}, MaxUid \in Nat,
         \A e, o \in m_events : e.uid = o.uid => e = o
  PROVE  /\ \E e \in m_events : IsFirst(e) /\ Next = e.ts
         /\ \A e \in m_events : Next <= e.ts
         /\ \A e \in m_events : IsFirst(e) => Next = e.ts
<1>0. \A e \in m_events : e.ts \in Nat /\ e.uid \in Nat
  BY DEF Event, Uid, FirstUid
<1> DEFINE Ts == {e.ts : e \in m_events}
<1>1. PICK t \in Ts : \A y \in Ts : t <= y
  <2>1. Ts \in SUBSET Nat /\ Ts # {}
    BY <1>0
  <2>2. QED  BY <2>1, LeastNatural
<1> DEFINE Us == {e.uid : e \in {o \in m_events : o.ts = t}}
<1>2. PICK u \in Us : \A y \in Us : u <= y
  <2>1. Us \in SUBSET Nat /\ Us # {}
    BY <1>0, <1>1
  <2>2. QED  BY <2>1, LeastNatural
<1>3. PICK f \in m_events : f.ts = t /\ f.uid = u
  BY <1>2
<1>4. IsFirst(f)
  <2>1. ASSUME NEW o \in m_events \ {f}
        PROVE  Before(f.ts, f.uid, o.ts, o.uid)
    <3>1. f.ts <= o.ts /\ (f.ts = o.ts => f.uid <= o.uid)
      BY <1>1, <1>2, <1>3
    <3>2. f.uid # o.uid
      OBVIOUS
    <3>3. QED  BY <1>0, <3>1, <3>2 DEF Before
  <2>2. QED  BY <2>1 DEF IsFirst
<1>5. \A e \in m_events : IsFirst(e) => \A o \in m_events : e.ts <= o.ts
  <2>1. ASSUME NEW e \in m_events, IsFirst(e), NEW o \in m_events
        PROVE  e.ts <= o.ts
    <3>1. CASE o = e  BY <1>0, <3>1
    <3>2. CASE o # e  BY <1>0, <2>1, <3>2 DEF IsFirst, Before
    <3>3. QED  BY <3>1, <3>2
  <2>2. QED  BY <2>1
<1>6. PICK c \in m_events : IsFirst(c) /\ Next = c.ts
  BY <1>4 DEF Next
<1>7. QED
  <2>1. ASSUME NEW e \in m_events, IsFirst(e)
        PROVE  Next = e.ts
    <3>1. e.ts <= c.ts /\ c.ts <= e.ts
      BY <1>5, <1>6, <2>1
    <3>2. QED  BY <1>0, <1>6, <3>1
  <2>2. QED  BY <1>5, <1>6, <2>1

(***************************************************************************)
(* The events a swap moves are fresh ones, one per entry of the list.      *)
(***************************************************************************)
LEMMA ArrivedAreFresh ==
  ASSUME TypeOK, UidsReserved, UidsIdentify
  PROVE  /\ Arrived \subseteq Event
         /\ Arrived \cap m_events = {}
         /\ IsFiniteSet(Arrived)
         /\ Cardinality(Arrived) = Len(m_eventsWithContext)
         /\ \A e \in Arrived :
              m_currentTs <= e.ts /\ m_uid <= e.uid
                /\ e.uid < m_uid + Len(m_eventsWithContext)
         /\ \A e, o \in Arrived : e.uid = o.uid => e = o
<1> DEFINE n == Len(m_eventsWithContext)
           new(i) == [ts |-> m_currentTs + m_eventsWithContext[i],
                      uid |-> m_uid + i - 1, stop |-> FALSE]
           f == [i \in 1 .. n |-> new(i)]
<1>1. /\ n \in Nat /\ DOMAIN m_eventsWithContext = 1 .. n
      /\ \A i \in 1 .. n : m_eventsWithContext[i] \in Nat
      /\ m_uid \in Nat /\ m_uid >= 4 /\ m_currentTs \in Nat /\ MaxUid \in Nat
      /\ m_uid + n <= MaxUid
  <2>1. m_eventsWithContext \in Seq(Nat)
    BY DelaysAssumption, SeqMonotonic DEF TypeOK
  <2>2. /\ n \in Nat /\ DOMAIN m_eventsWithContext = 1 .. n
        /\ \A i \in 1 .. n : m_eventsWithContext[i] \in Nat
    BY <2>1, LenProperties
  <2>3. QED  BY <2>2, TimesAssumption DEF TypeOK, FirstUid, UidsReserved
<1>2. Arrived = {new(i) : i \in 1 .. n}
  BY <1>1 DEF Arrived
<1>3. \A i \in 1 .. n : /\ new(i) \in Event
                        /\ new(i).uid = m_uid + i - 1
                        /\ m_currentTs <= new(i).ts
  BY <1>1 DEF Event, Uid, FirstUid
<1>4. \A i, j \in 1 .. n : new(i).uid = new(j).uid => i = j
  BY <1>1, <1>3
<1>5. f \in Bijection(1 .. n, Arrived)
  <2>1. f \in [1 .. n -> Arrived]
    BY <1>2
  <2>2. \A i, j \in 1 .. n : f[i] = f[j] => i = j
    BY <1>4
  <2>3. \A e \in Arrived : \E i \in 1 .. n : f[i] = e
    BY <1>2
  <2>4. QED  BY <2>1, <2>2, <2>3 DEF Bijection, Injection, Surjection, IsInjective
<1>6. IsFiniteSet(Arrived) /\ Cardinality(Arrived) = n
  <2>1. IsFiniteSet(1 .. n) /\ Cardinality(1 .. n) = n
    <3> HIDE DEF n
    <3>1. IsFiniteSet(1 .. n) /\ Cardinality(1 .. n) = IF 1 > n THEN 0 ELSE n - 1 + 1
      BY <1>1, FS_Interval
    <3>2. QED  BY <1>1, <3>1
  <2>2. QED  BY <1>5, <2>1, FS_Bijection DEF ExistsBijection
<1>7. \A e \in Arrived : m_uid <= e.uid /\ e.uid < m_uid + n /\ m_currentTs <= e.ts
  BY <1>1, <1>2, <1>3
<1>8. \A e, o \in Arrived : e.uid = o.uid => e = o
  BY <1>2, <1>4
<1>9. Arrived \cap m_events = {}
  <2>1. \A e \in m_events : e.uid < m_uid /\ e.uid \in Nat
    BY <1>1 DEF UidsIdentify, TypeOK, Event, Uid, FirstUid
  <2>2. \A e \in Arrived : e.uid \in Nat /\ m_uid <= e.uid
    BY <1>1, <1>2, <1>3
  <2>3. QED  BY <1>1, <2>1, <2>2
<1>10. Arrived \subseteq Event
  BY <1>2, <1>3
<1>11. QED  BY <1>6, <1>7, <1>8, <1>9, <1>10

(***************************************************************************)
(* Each conjunct of the invariant is preserved.                            *)
(***************************************************************************)
LEMMA CoreTypes ==
  ASSUME IInv, [SimNext]_vars
  PROVE  /\ m_events' \subseteq Event /\ IsFiniteSet(m_events')
         /\ m_uid' \in FirstUid .. MaxUid
         /\ m_uid' + Len(m_eventsWithContext') <= MaxUid
         /\ m_currentTs' \in Nat /\ m_currentUid' \in Uid \cup {0}
         /\ m_eventsWithContext' \in Seq(Delays)
         /\ issued' \subseteq EventId /\ cancelled' \subseteq Uid
<1> DEFINE Goal == /\ m_events' \subseteq Event /\ IsFiniteSet(m_events')
                   /\ m_uid' \in FirstUid .. MaxUid
                   /\ m_uid' + Len(m_eventsWithContext') <= MaxUid
                   /\ m_currentTs' \in Nat /\ m_currentUid' \in Uid \cup {0}
                   /\ m_eventsWithContext' \in Seq(Delays)
                   /\ issued' \subseteq EventId /\ cancelled' \subseteq Uid
<1>0. /\ m_events \subseteq Event /\ IsFiniteSet(m_events)
      /\ m_uid \in Nat /\ m_uid >= 4 /\ m_uid <= MaxUid /\ MaxUid \in Nat
      /\ m_currentTs \in Nat /\ m_currentUid \in Uid \cup {0}
      /\ m_eventsWithContext \in Seq(Delays) /\ Len(m_eventsWithContext) \in Nat
      /\ m_uid + Len(m_eventsWithContext) <= MaxUid
      /\ issued \subseteq EventId /\ cancelled \subseteq Uid
      /\ Unsigned(grantedTime) \in Nat
  BY TimesAssumption, WordFacts DEF IInv, TypeOK, UidsReserved, FirstUid
<1>1. CASE Quiet
  BY <1>0, <1>1 DEF Quiet, core, FirstUid
<1>2. CASE Inserts
  <2>1. PICK ts \in Nat, stop \in BOOLEAN : InsertsAt(ts, stop)
    BY <1>2 DEF Inserts
  <2>2. m_uid \in Uid /\ m_uid + 1 <= MaxUid
    BY <1>0, <2>1 DEF InsertsAt, Room, Uid, FirstUid
  <2>3. [ts |-> ts, uid |-> m_uid, stop |-> stop] \in Event
    BY <2>2 DEF Event
  <2>4. [impl |-> m_uid, ts |-> ts, uid |-> m_uid] \in EventId
    BY <2>2 DEF EventId
  <2>5. m_events' \subseteq Event /\ IsFiniteSet(m_events')
    BY <1>0, <2>1, <2>3, FS_AddElement DEF InsertsAt, Insert
  <2>6. issued' \subseteq EventId
    BY <1>0, <2>1, <2>4 DEF InsertsAt
  <2>7. /\ m_uid' = m_uid + 1
        /\ m_eventsWithContext' = m_eventsWithContext
        /\ m_uid' + Len(m_eventsWithContext') <= MaxUid
        /\ UNCHANGED <<m_currentTs, m_currentUid, cancelled>>
    BY <1>0, <2>1 DEF InsertsAt, Insert, Room, clockVars
  <2>8. QED  BY <1>0, <2>2, <2>5, <2>6, <2>7 DEF FirstUid
<1>3. CASE SchedulesDestroy
  <2>1. m_uid \in Uid /\ m_uid + 1 <= MaxUid
        /\ m_uid + 1 + Len(m_eventsWithContext) <= MaxUid
    BY <1>0, <1>3 DEF SchedulesDestroy, Room, Uid, FirstUid
  <2>2. [impl |-> m_uid, ts |-> m_currentTs, uid |-> DestroyUid] \in EventId
    BY <1>0, <2>1 DEF EventId
  <2>3. QED
    BY <1>0, <1>3, <2>1, <2>2 DEF SchedulesDestroy, clockVars, FirstUid
<1>4. CASE Removes \/ Cancels
  <2>1. \A id \in EventId : id.impl \in Uid
    BY DEF EventId
  <2>2. CASE Removes
    <3>1. m_events' \in SUBSET m_events
      BY <2>2 DEF Removes
    <3>2. IsFiniteSet(m_events')
      BY <1>0, <3>1, FS_Subset
    <3>3. QED  BY <1>0, <2>1, <2>2, <3>1, <3>2 DEF Removes, clockVars, FirstUid
  <2>3. CASE Cancels
    BY <1>0, <2>1, <2>3 DEF Cancels, queueVars, clockVars, FirstUid
  <2>4. QED  BY <1>4, <2>2, <2>3
<1>5. CASE Pushes
  <2>1. PICK d \in Delays : m_eventsWithContext' = Append(m_eventsWithContext, d)
    BY <1>5 DEF Pushes
  <2>2. /\ m_eventsWithContext' \in Seq(Delays)
        /\ Len(m_eventsWithContext') = Len(m_eventsWithContext) + 1
    BY <1>0, <2>1
  <2>3. m_uid + (Len(m_eventsWithContext) + 1) <= MaxUid
    BY <1>0, <1>5 DEF Pushes, Room
  <2>4. QED
    BY <1>0, <1>5, <2>2, <2>3 DEF Pushes, queueVars, clockVars, FirstUid
<1>6. CASE Swap
  <2>1. /\ Arrived \subseteq Event /\ IsFiniteSet(Arrived)
    BY ArrivedAreFresh DEF IInv
  <2>2. IsFiniteSet(m_events \cup Arrived)
    BY <1>0, <2>1, FS_Union
  <2>3. m_eventsWithContext' = <<>> /\ m_uid' = m_uid + Len(m_eventsWithContext)
    BY <1>6 DEF Swap
  <2>4. /\ m_uid' \in FirstUid .. MaxUid
        /\ m_uid' + Len(m_eventsWithContext') <= MaxUid
        /\ m_eventsWithContext' \in Seq(Delays)
    BY <1>0, <2>3 DEF FirstUid
  <2>5. m_events' = m_events \cup Arrived
        /\ UNCHANGED <<m_currentTs, m_currentUid, issued, cancelled>>
    BY <1>6 DEF Swap, clockVars, userVars
  <2>6. QED  BY <1>0, <2>1, <2>2, <2>4, <2>5
<1>7. CASE ProcessOneEvent
  <2>1. PICK e \in m_events : /\ m_events' = m_events \ {e}
                              /\ m_currentTs' = e.ts /\ m_currentUid' = e.uid
    BY <1>7 DEF ProcessOneEvent
  <2>2. e.ts \in Nat /\ e.uid \in Uid
    BY <1>0 DEF Event
  <2>3. IsFiniteSet(m_events')
    BY <1>0, <2>1, FS_RemoveElement
  <2>4. UNCHANGED <<m_uid, m_eventsWithContext, issued, cancelled>>
    BY <1>7 DEF ProcessOneEvent, foreignVars, userVars
  <2>5. QED  BY <1>0, <2>1, <2>2, <2>3, <2>4 DEF FirstUid
<1>8. CASE Jumps
  BY <1>0, <1>8 DEF Jumps, queueVars, FirstUid
<1>9. CASE Disposes
  <2>1. IsFiniteSet({})
    BY FS_EmptySet
  <2>2. QED  BY <1>0, <1>9, <2>1 DEF Disposes, clockVars, FirstUid
<1>10. Goal
  BY <1>1, <1>2, <1>3, <1>4, <1>5, <1>6, <1>7, <1>8, <1>9, Effects
<1>11. QED  BY <1>10

LEMMA NextIsTime ==
  ASSUME IInv
  PROVE  Next \in Nat
<1>1. m_events \subseteq Event /\ \A e, o \in m_events : e.uid = o.uid => e = o
  BY DEF IInv, TypeOK, UidsIdentify
<1>2. CASE m_events = {}
  BY <1>2, TimesAssumption DEF Next
<1>3. CASE m_events # {}
  <2>1. \E e \in m_events : Next = e.ts
    BY <1>1, <1>3, TimesAssumption, NextIsFirst
  <2>2. QED  BY <1>1, <2>1 DEF Event
<1>4. QED  BY <1>2, <1>3

LEMMA OtherTypes ==
  ASSUME IInv, [SimNext]_vars
  PROVE  /\ m_unscheduledEvents' \in Int
         /\ m_stop' \in BOOLEAN /\ m_eventsWithContextEmpty' \in BOOLEAN
         /\ mutex' \in Threads \cup {Free}
         /\ m_destroyEvents' \subseteq issued'
         /\ pc' \in MainPc /\ ret' \in {"enter", "next", "dispose"}
         /\ nextTime' \in Nat /\ grantedTime' \in Nat \cup {Wrapped}
         /\ helicsTime' \in 0 .. Never
<1> DEFINE Goal == /\ m_unscheduledEvents' \in Int
                   /\ m_stop' \in BOOLEAN /\ m_eventsWithContextEmpty' \in BOOLEAN
                   /\ mutex' \in Threads \cup {Free}
                   /\ m_destroyEvents' \subseteq issued'
                   /\ pc' \in MainPc /\ ret' \in {"enter", "next", "dispose"}
                   /\ nextTime' \in Nat /\ grantedTime' \in Nat \cup {Wrapped}
                   /\ helicsTime' \in 0 .. Never
<1> USE DEF MainPc, queueVars, clockVars, foreignVars, userVars, runVars
<1>0. /\ m_unscheduledEvents \in Int
      /\ m_stop \in BOOLEAN /\ m_eventsWithContextEmpty \in BOOLEAN
      /\ mutex \in Threads \cup {Free}
      /\ m_destroyEvents \subseteq issued
      /\ pc \in MainPc /\ ret \in {"enter", "next", "dispose"}
      /\ nextTime \in Nat /\ grantedTime \in Nat \cup {Wrapped}
      /\ helicsTime \in 0 .. Never
  BY DEF IInv, TypeOK
<1>1. Next \in Nat
  BY NextIsTime
<1>2. CASE User
  <2> USE DEF InUserCode
  <2>1. ASSUME NEW d \in Delays, Schedule(d) \/ ScheduleWithContext(d) \/ StopAfter(d)
        PROVE  Goal
    BY <1>0, <2>1 DEF Schedule, ScheduleWithContext, StopAfter, Insert
  <2>2. ASSUME ScheduleNow \/ Stop \/ ScheduleDestroy
        PROVE  Goal
    <3>1. ScheduleNow => Goal
      BY <1>0 DEF ScheduleNow, Insert
    <3>2. Stop => Goal
      BY <1>0 DEF Stop
    <3>3. ScheduleDestroy => Goal
      BY <1>0 DEF ScheduleDestroy
    <3>4. QED  BY <2>2, <3>1, <3>2, <3>3
  <2>3. ASSUME NEW id \in issued, RemoveDestroy(id) \/ Remove(id) \/ Cancel(id)
        PROVE  Goal
    <3>1. m_destroyEvents' \subseteq issued' /\ m_unscheduledEvents' \in Int
      BY <1>0, <2>3 DEF RemoveDestroy, Remove, Cancel
    <3>2. UNCHANGED <<m_stop, m_eventsWithContextEmpty, mutex, pc, ret, nextTime,
                      grantedTime, helicsTime>>
      BY <2>3 DEF RemoveDestroy, Remove, Cancel
    <3>3. QED  BY <1>0, <3>1, <3>2
  <2>4. QED  BY <1>2, <2>1, <2>2, <2>3 DEF User
<1>3. CASE \E t \in Threads : Foreign(t)
  BY <1>0, <1>3 DEF Foreign, Push, SetFlag
<1>4. CASE RunStep
  <2>1. CheckFlag \/ EnterExecutingMode \/ EndHandler \/ RequestTime \/ EndRun => Goal
    BY <1>0 DEF CheckFlag, EnterExecutingMode, EndHandler, RequestTime, EndRun, Goto
  <2>2. BeginLoop \/ RefreshNextTime => Goal
    BY <1>0, <1>1 DEF BeginLoop, RefreshNextTime, Goto
  <2>3. Swap => Goal
    <3>1. Len(m_eventsWithContext) \in Int
      BY DEF IInv, TypeOK
    <3>2. QED  BY <1>0, <3>1 DEF Swap
  <2>4. ProcessOneEvent => Goal
    BY <1>0 DEF ProcessOneEvent
  <2>5. Grant => Goal
    <3>1. ASSUME NEW g \in Grantable
          PROVE  g \in 0 .. Never
      BY <1>0, <1>1, <3>1, TimesAssumption DEF Grantable, Requested
    <3>2. QED  BY <1>0, <3>1 DEF Grant, Goto
  <2>6. ReturnFromRequest => Goal
    <3>1. FromDouble(helicsTime) \in Nat \cup {Wrapped}
      BY <1>0, FromDoubleBounds
    <3>2. QED  BY <1>0, <1>1, <3>1 DEF ReturnFromRequest, Goto
  <2>7. QED
    BY <1>4, <2>1, <2>2, <2>3, <2>4, <2>5, <2>6 DEF RunStep, ProcessEventsWithContext
<1>5. CASE Destroy \/ Run
  BY <1>0, <1>5 DEF Run, Destroy, CallDestroy, RunDestroyEvent, EndDestroyEvent,
                    CallDispose, DoDispose, Goto
<1>6. CASE Terminating \/ UNCHANGED vars
  BY <1>0, <1>6 DEF Terminating, vars
<1>7. Goal
  BY <1>2, <1>3, <1>4, <1>5, <1>6 DEF SimNext
<1>8. QED  BY <1>7

\* The facts about types that the remaining lemmas use.
LEMMA Ranges ==
  ASSUME IInv
  PROVE  /\ \A e \in m_events : e.ts \in Nat /\ e.uid \in Nat /\ e.uid >= 4
         /\ \A id \in issued : id.ts \in Nat /\ id.impl \in Nat /\ id.uid \in Nat
                               /\ id.impl >= 4
         /\ m_uid \in Nat /\ m_uid >= 4 /\ m_currentTs \in Nat /\ m_currentUid \in Nat
         /\ m_unscheduledEvents \in Int /\ IsFiniteSet(m_events)
         /\ nextTime \in Nat /\ grantedTime \in Int /\ Unsigned(grantedTime) \in Nat
         /\ grantedTime # Wrapped => Unsigned(grantedTime) = grantedTime
         /\ helicsTime \in Nat /\ helicsTime \in 0 .. Never /\ helicsTime <= Never
         /\ Len(m_eventsWithContext) \in Nat /\ MaxUid \in Nat
<1>1. /\ m_events \subseteq Event /\ issued \subseteq EventId
      /\ m_uid \in FirstUid .. MaxUid /\ m_currentUid \in Uid \cup {0}
      /\ m_eventsWithContext \in Seq(Delays)
  BY DEF IInv, TypeOK
<1>2. /\ \A e \in m_events : e.ts \in Nat /\ e.uid \in Uid
      /\ \A id \in issued : id.ts \in Nat /\ id.impl \in Uid
                            /\ id.uid \in Uid \cup {DestroyUid}
  BY <1>1 DEF Event, EventId
<1>3. \A u \in Uid : u \in Nat /\ u >= 4
  BY TimesAssumption DEF Uid, FirstUid
<1>4. /\ grantedTime \in Int /\ Unsigned(grantedTime) \in Nat
      /\ grantedTime # Wrapped => Unsigned(grantedTime) = grantedTime
      /\ helicsTime \in Nat /\ helicsTime <= Never
  BY WordFacts DEF IInv, TypeOK
<1>5. QED
  BY <1>1, <1>2, <1>3, <1>4, TimesAssumption DEF IInv, TypeOK, FirstUid, DestroyUid

LEMMA UidsIdentifyStep ==
  ASSUME IInv, [SimNext]_vars
  PROVE  UidsIdentify'
<1>0. /\ m_currentUid < m_uid
      /\ \A e \in m_events : e.uid < m_uid
      /\ \A e, o \in m_events : e.uid = o.uid => e = o
      /\ \A id \in issued : id.impl < m_uid /\ id.uid \in {id.impl, DestroyUid}
  BY DEF IInv, UidsIdentify
<1> USE Ranges
<1>1. CASE Quiet
  BY <1>0, <1>1 DEF Quiet, core, UidsIdentify
<1>2. CASE Inserts
  <2>1. PICK ts \in Nat, stop \in BOOLEAN : InsertsAt(ts, stop)
    BY <1>2 DEF Inserts
  <2> DEFINE new == [ts |-> ts, uid |-> m_uid, stop |-> stop]
             id == [impl |-> m_uid, ts |-> ts, uid |-> m_uid]
  <2>2. /\ m_events' = m_events \cup {new} /\ m_uid' = m_uid + 1
        /\ m_currentUid' = m_currentUid
        /\ issued' \subseteq issued \cup {id}
    BY <2>1 DEF InsertsAt, Insert, clockVars
  <2>3. new.uid = m_uid /\ id.uid = m_uid /\ id.impl = m_uid
    OBVIOUS
  <2>4. \A e, o \in m_events' : e.uid = o.uid => e = o
    BY <1>0, <2>2, <2>3
  <2>5. (\A e \in m_events' : e.uid < m_uid') /\ m_currentUid' < m_uid'
    BY <1>0, <2>2, <2>3
  <2>6. \A i \in issued' : i.impl < m_uid' /\ i.uid \in {i.impl, DestroyUid}
    BY <1>0, <2>2, <2>3
  <2>7. QED  BY <2>4, <2>5, <2>6 DEF UidsIdentify
<1>3. CASE SchedulesDestroy
  BY <1>0, <1>3 DEF SchedulesDestroy, clockVars, UidsIdentify
<1>4. CASE Removes \/ Cancels \/ Pushes
  BY <1>0, <1>4 DEF Removes, Cancels, Pushes, queueVars, clockVars, UidsIdentify
<1>5. CASE Swap
  <2>1. /\ m_events' = m_events \cup Arrived
        /\ m_uid' = m_uid + Len(m_eventsWithContext)
        /\ UNCHANGED <<m_currentUid, issued>>
    BY <1>5 DEF Swap, clockVars, userVars
  <2>2. /\ \A e \in Arrived : m_uid <= e.uid /\ e.uid < m_uid'
        /\ \A e, o \in Arrived : e.uid = o.uid => e = o
        /\ \A e \in Arrived : e.uid \in Int
    BY <2>1, ArrivedAreFresh DEF IInv, Event, Uid
  <2>3. \A e, o \in m_events' : e.uid = o.uid => e = o
    BY <1>0, <2>1, <2>2
  <2>4. QED  BY <1>0, <2>1, <2>2, <2>3 DEF UidsIdentify
<1>6. CASE ProcessOneEvent
  BY <1>0, <1>6 DEF ProcessOneEvent, userVars, UidsIdentify
<1>7. CASE Jumps \/ Disposes
  BY <1>0, <1>7 DEF Jumps, Disposes, queueVars, clockVars, UidsIdentify
<1>8. QED  BY <1>1, <1>2, <1>3, <1>4, <1>5, <1>6, <1>7, Effects

\* Run requests time, or moves the clock, only when no event is due.
LEMMA NothingDue ==
  ASSUME IInv, pc = "loop", m_events = {} \/ nextTime > grantedTime
  PROVE  \A e \in m_events : grantedTime < e.ts
<1>1. /\ m_events \subseteq Event /\ MaxUid \in Nat
      /\ \A e, o \in m_events : e.uid = o.uid => e = o
  BY TimesAssumption DEF IInv, TypeOK, UidsIdentify
<1>2. m_events # {} => \A e \in m_events : nextTime <= e.ts
  BY <1>1, NextIsFirst DEF IInv, NextTimeIsFresh
<1>3. QED  BY <1>2, Ranges

\* After a grant of the largest time no event is dispatched any more.
LEMMA DispatchBeforeWrap ==
  ASSUME IInv, ProcessOneEvent
  PROVE  ~ ClockWrapped /\ grantedTime \in Nat /\ helicsTime < Never
<1>1. pc = "loop" /\ nextTime <= grantedTime /\ nextTime \in Nat
  BY Ranges DEF ProcessOneEvent
<1>2. grantedTime \in Nat /\ grantedTime # Wrapped
  BY <1>1, Ranges, WordFacts
<1>3. helicsTime < Never
  BY <1>1, <1>2, Ranges, FromDoubleBounds, WordFacts DEF IInv, GrantIsConverted
<1>4. m_currentTs <= grantedTime /\ grantedTime <= helicsTime
  BY <1>2, Ranges DEF IInv, ClockWithinWord
<1>5. QED  BY <1>2, <1>3, <1>4, Ranges, WordFacts DEF ClockWrapped

LEMMA PendingIsAfterCurrentStep ==
  ASSUME IInv, [SimNext]_vars
  PROVE  PendingIsAfterCurrent'
<1>0. /\ ~ ClockWrapped =>
           \A e \in m_events : Before(m_currentTs, m_currentUid, e.ts, e.uid)
      /\ m_currentUid < m_uid
  BY DEF IInv, UidsIdentify, PendingIsAfterCurrent
<1> USE Ranges DEF ClockWrapped
<1>1. CASE Quiet
  BY <1>0, <1>1 DEF Quiet, core, PendingIsAfterCurrent
<1>2. CASE Inserts
  <2>1. PICK ts \in Nat, stop \in BOOLEAN : InsertsAt(ts, stop)
    BY <1>2 DEF Inserts
  <2>2. /\ m_events' = m_events \cup {[ts |-> ts, uid |-> m_uid, stop |-> stop]}
        /\ m_currentTs <= ts /\ UNCHANGED <<m_currentTs, m_currentUid>>
    BY <2>1 DEF InsertsAt, Insert, clockVars
  <2>3. Before(m_currentTs, m_currentUid, ts, m_uid)
    BY <1>0, <2>2 DEF Before
  <2>4. QED  BY <1>0, <2>2, <2>3 DEF PendingIsAfterCurrent
<1>3. CASE SchedulesDestroy \/ Removes \/ Cancels \/ Pushes
  BY <1>0, <1>3 DEF SchedulesDestroy, Removes, Cancels, Pushes, queueVars, clockVars,
                    PendingIsAfterCurrent
<1>4. CASE Swap
  <2>1. /\ m_events' = m_events \cup Arrived
        /\ UNCHANGED <<m_currentTs, m_currentUid>>
    BY <1>4 DEF Swap, clockVars
  <2>2. \A e \in Arrived : /\ m_currentTs <= e.ts /\ m_uid <= e.uid
                           /\ e.ts \in Nat /\ e.uid \in Nat
    <3>1. \A e \in Arrived : m_currentTs <= e.ts /\ m_uid <= e.uid
      BY ArrivedAreFresh DEF IInv
    <3>2. \A e \in Arrived : e.ts \in Nat /\ e.uid \in Nat
      BY ArrivedAreFresh, TimesAssumption DEF IInv, Event, Uid, FirstUid
    <3>3. QED  BY <3>1, <3>2
  <2>3. \A e \in Arrived : Before(m_currentTs, m_currentUid, e.ts, e.uid)
    BY <1>0, <2>2 DEF Before
  <2>4. QED  BY <1>0, <2>1, <2>3 DEF PendingIsAfterCurrent
<1>5. CASE ProcessOneEvent
  BY <1>5 DEF ProcessOneEvent, IsFirst, PendingIsAfterCurrent
<1>6. CASE Jumps
  <2>1. \A e \in m_events : grantedTime < e.ts
    BY <1>6, NothingDue DEF Jumps
  <2>2. /\ m_currentTs' = Unsigned(grantedTime)
        /\ UNCHANGED <<m_events, m_currentUid>>
    BY <1>6 DEF Jumps, queueVars
  <2>3. ~ ClockWrapped' => m_currentTs' = grantedTime
    BY <2>2, WordFacts
  <2>4. QED  BY <2>1, <2>2, <2>3 DEF Before, PendingIsAfterCurrent
<1>7. CASE Disposes
  BY <1>7 DEF Disposes, PendingIsAfterCurrent
<1>8. QED  BY <1>1, <1>2, <1>3, <1>4, <1>5, <1>6, <1>7, Effects

LEMMA UnexpiredIsPendingStep ==
  ASSUME IInv, [SimNext]_vars
  PROVE  UnexpiredIsPending'
<1> DEFINE Current(id) ==
             /\ id.uid # DestroyUid /\ id.impl \notin cancelled
             /\ Before(m_currentTs, m_currentUid, id.ts, id.uid)
           Queued(id) == \E e \in m_events : e.uid = id.uid /\ e.ts = id.ts
<1>0. /\ pc # "disposed" => \A id \in issued : Current(id) => Queued(id)
      /\ \A id \in issued : id.impl < m_uid /\ id.uid \in {id.impl, DestroyUid}
      /\ ~ ClockWrapped =>
           \A e \in m_events : Before(m_currentTs, m_currentUid, e.ts, e.uid)
  BY DEF IInv, UnexpiredIsPending, UidsIdentify, PendingIsAfterCurrent
<1> USE Ranges
<1>1. CASE Quiet
  <2>1. /\ UNCHANGED <<m_events, m_currentTs, m_currentUid, cancelled, issued>>
        /\ pc = "disposed" => pc' = "disposed"
    BY <1>1 DEF Quiet, core
  <2>2. ASSUME NEW i \in issued', Current(i)', pc' # "disposed"
        PROVE  Queued(i)'
    BY <1>0, <2>1, <2>2
  <2>3. QED  BY <2>2 DEF UnexpiredIsPending
<1>2. CASE Inserts
  <2>1. PICK ts \in Nat, stop \in BOOLEAN : InsertsAt(ts, stop)
    BY <1>2 DEF Inserts
  <2> DEFINE new == [ts |-> ts, uid |-> m_uid, stop |-> stop]
             id == [impl |-> m_uid, ts |-> ts, uid |-> m_uid]
  <2>2. /\ m_events' = m_events \cup {new} /\ issued' \subseteq issued \cup {id}
        /\ UNCHANGED <<m_currentTs, m_currentUid, cancelled>> /\ pc # "disposed"
    BY <2>1 DEF InsertsAt, Insert, clockVars
  <2>3. new \in m_events' /\ new.uid = id.uid /\ new.ts = id.ts
    BY <2>2
  <2>4. ASSUME NEW i \in issued', Current(i)'
        PROVE  Queued(i)'
    <3>1. CASE i = id  BY <2>3, <3>1
    <3>2. CASE i \in issued  BY <1>0, <2>2, <2>4, <3>2
    <3>3. QED  BY <2>2, <3>1, <3>2
  <2>5. QED  BY <2>4 DEF UnexpiredIsPending
<1>3. CASE SchedulesDestroy \/ Cancels \/ Pushes
  <2>1. /\ UNCHANGED <<m_events, m_currentTs, m_currentUid, pc>>
        /\ cancelled \subseteq cancelled'
        /\ \A i \in issued' : i \in issued \/ i.uid = DestroyUid
    BY <1>3 DEF SchedulesDestroy, Cancels, Pushes, queueVars, clockVars
  <2>2. ASSUME NEW i \in issued', Current(i)', pc # "disposed"
        PROVE  Queued(i)'
    BY <1>0, <2>1, <2>2
  <2>3. QED  BY <2>1, <2>2 DEF UnexpiredIsPending
<1>4. CASE Removes
  <2>1. PICK r \in issued :
          /\ r.uid # DestroyUid
          /\ m_events' = {e \in m_events : e.uid # r.uid}
          /\ cancelled' = cancelled \cup {r.impl}
          /\ UNCHANGED <<m_currentTs, m_currentUid, issued>> /\ pc # "disposed"
    BY <1>4 DEF Removes, clockVars
  <2>2. ASSUME NEW i \in issued', Current(i)'
        PROVE  Queued(i)'
    <3>1. i.impl # r.impl /\ i.impl = i.uid /\ r.impl = r.uid
      BY <1>0, <2>1, <2>2
    <3>2. Current(i) /\ i \in issued
      BY <2>1, <2>2
    <3>3. PICK e \in m_events : e.uid = i.uid /\ e.ts = i.ts
      BY <1>0, <2>1, <3>2
    <3>4. QED  BY <2>1, <3>1, <3>3
  <2>3. QED  BY <2>2 DEF UnexpiredIsPending
<1>5. CASE Swap
  <2>1. /\ m_events \subseteq m_events' /\ pc # "disposed"
        /\ UNCHANGED <<m_currentTs, m_currentUid, issued, cancelled>>
    BY <1>5 DEF Swap, clockVars, userVars
  <2>2. ASSUME NEW i \in issued', Current(i)'
        PROVE  Queued(i)'
    BY <1>0, <2>1, <2>2
  <2>3. QED  BY <2>2 DEF UnexpiredIsPending
<1>6. CASE ProcessOneEvent
  <2>1. PICK e \in m_events : /\ m_events' = m_events \ {e}
                              /\ m_currentTs' = e.ts /\ m_currentUid' = e.uid
    BY <1>6 DEF ProcessOneEvent
  <2>2. UNCHANGED <<issued, cancelled>> /\ pc # "disposed" /\ ~ ClockWrapped
    BY <1>6, DispatchBeforeWrap DEF ProcessOneEvent, userVars
  <2>3. ASSUME NEW i \in issued', Current(i)'
        PROVE  Queued(i)'
    <3>1. i \in issued /\ Before(e.ts, e.uid, i.ts, i.uid)
      BY <2>1, <2>2, <2>3
    <3>2. Before(m_currentTs, m_currentUid, i.ts, i.uid)
      BY <1>0, <2>2, <3>1 DEF Before
    <3>3. PICK o \in m_events : o.uid = i.uid /\ o.ts = i.ts
      BY <1>0, <2>2, <2>3, <3>1, <3>2
    <3>4. o # e
      BY <3>1, <3>3 DEF Before
    <3>5. QED  BY <2>1, <3>3, <3>4
  <2>4. QED  BY <2>3 DEF UnexpiredIsPending
<1>7. CASE Jumps
  <2>1. /\ m_currentTs' = Unsigned(grantedTime) /\ m_currentTs <= m_currentTs'
        /\ m_currentTs' \in Nat /\ pc # "disposed"
        /\ UNCHANGED <<m_events, m_currentUid, issued, cancelled>>
    BY <1>7 DEF Jumps, queueVars, IInv, ClockWithinWord
  <2>2. ASSUME NEW i \in issued', Current(i)'
        PROVE  Queued(i)'
    <3>1. Before(m_currentTs, m_currentUid, i.ts, i.uid)
      BY <2>1, <2>2 DEF Before
    <3>2. QED  BY <1>0, <2>1, <2>2, <3>1
  <2>3. QED  BY <2>2 DEF UnexpiredIsPending
<1>8. CASE Disposes
  BY <1>8 DEF Disposes, UnexpiredIsPending
<1>9. QED  BY <1>1, <1>2, <1>3, <1>4, <1>5, <1>6, <1>7, <1>8, Effects

LEMMA CountsPendingStep ==
  ASSUME IInv, [SimNext]_vars
  PROVE  CountsPending'
<1>0. pc # "disposed" => m_unscheduledEvents = Cardinality(m_events)
  BY DEF IInv, CountsPending
<1>a. IsFiniteSet(m_events) /\ m_unscheduledEvents \in Int
  BY Ranges
<1>b. Cardinality(m_events) \in Nat
  BY <1>a, FS_CardinalityType
<1>1. CASE Quiet
  <2>1. /\ UNCHANGED <<m_events, m_unscheduledEvents>>
        /\ pc = "disposed" => pc' = "disposed"
    BY <1>1 DEF Quiet, core
  <2>2. QED  BY <1>0, <2>1 DEF CountsPending
<1>2. CASE Inserts
  <2>1. PICK ts \in Nat, stop \in BOOLEAN : InsertsAt(ts, stop)
    BY <1>2 DEF Inserts
  <2> DEFINE new == [ts |-> ts, uid |-> m_uid, stop |-> stop]
  <2>2. /\ m_events' = m_events \cup {new} /\ pc # "disposed"
        /\ m_unscheduledEvents' = m_unscheduledEvents + 1
    BY <2>1 DEF InsertsAt, Insert
  <2>3. new \notin m_events
    BY Ranges DEF IInv, UidsIdentify
  <2>4. Cardinality(m_events') = Cardinality(m_events) + 1
    BY <1>a, <2>2, <2>3, FS_AddElement
  <2>5. QED  BY <1>0, <2>2, <2>4 DEF CountsPending
<1>3. CASE SchedulesDestroy \/ Cancels \/ Pushes
  <2>1. UNCHANGED <<m_events, m_unscheduledEvents, pc>>
    BY <1>3 DEF SchedulesDestroy, Cancels, Pushes, queueVars
  <2>2. QED  BY <1>0, <2>1 DEF CountsPending
<1>4. CASE Removes
  <2>1. PICK r \in issued :
          /\ r.uid # DestroyUid /\ ~ IsExpired(r)
          /\ m_events' = {e \in m_events : e.uid # r.uid}
          /\ m_unscheduledEvents' = m_unscheduledEvents - 1 /\ pc # "disposed"
    BY <1>4 DEF Removes
  <2>2. PICK e \in m_events : e.uid = r.uid
    BY <2>1 DEF IInv, UnexpiredIsPending, IsExpired
  <2>3. m_events' = m_events \ {e}
    BY <2>1, <2>2 DEF IInv, UidsIdentify
  <2>4. Cardinality(m_events') = Cardinality(m_events) - 1
    BY <1>a, <2>2, <2>3, FS_RemoveElement
  <2>5. QED  BY <1>0, <2>1, <2>4 DEF CountsPending
<1>5. CASE Swap
  <2>1. /\ m_events' = m_events \cup Arrived /\ pc # "disposed"
        /\ m_unscheduledEvents' = m_unscheduledEvents + Len(m_eventsWithContext)
    BY <1>5 DEF Swap
  <2>2. /\ Arrived \cap m_events = {} /\ IsFiniteSet(Arrived)
        /\ Cardinality(Arrived) = Len(m_eventsWithContext)
    BY ArrivedAreFresh DEF IInv
  <2>3. Cardinality(m_events \cap Arrived) = 0
    BY <2>2, FS_EmptySet
  <2>4. Cardinality(m_events') = Cardinality(m_events) + Len(m_eventsWithContext)
    <3>1. Cardinality(m_events \cup Arrived)
            = Cardinality(m_events) + Cardinality(Arrived)
                - Cardinality(m_events \cap Arrived)
      BY <1>a, <2>2, FS_Union
    <3>2. Len(m_eventsWithContext) \in Nat
      BY Ranges
    <3>3. QED  BY <1>b, <2>1, <2>2, <2>3, <3>1, <3>2
  <2>5. QED  BY <1>0, <2>1, <2>4 DEF CountsPending
<1>6. CASE ProcessOneEvent
  <2>1. PICK e \in m_events : m_events' = m_events \ {e}
    BY <1>6 DEF ProcessOneEvent
  <2>2. Cardinality(m_events') = Cardinality(m_events) - 1
    BY <1>a, <2>1, FS_RemoveElement
  <2>3. m_unscheduledEvents' = m_unscheduledEvents - 1 /\ pc # "disposed"
    BY <1>6 DEF ProcessOneEvent
  <2>4. QED  BY <1>0, <2>2, <2>3 DEF CountsPending
<1>7. CASE Jumps \/ Disposes
  BY <1>0, <1>7 DEF Jumps, Disposes, queueVars, CountsPending
<1>8. QED  BY <1>1, <1>2, <1>3, <1>4, <1>5, <1>6, <1>7, Effects

\* What requestTime returns is not before the clock, as unsigned words go.
LEMMA UnsignedGrantGrows ==
  ASSUME IInv, pc = "callback"
  PROVE  /\ m_currentTs = Unsigned(grantedTime)
         /\ Unsigned(grantedTime) <= Unsigned(FromDouble(helicsTime))
         /\ FromDouble(helicsTime) <= helicsTime
<1>0. /\ m_currentTs = Unsigned(grantedTime) /\ grantedTime <= helicsTime
      /\ helicsTime < Never => grantedTime <= FromDouble(helicsTime)
      /\ grantedTime = Wrapped => helicsTime = Never
      /\ grantedTime \in Nat \cup {Wrapped}
  BY DEF IInv, GrantIsConverted, ClockWithinWord, TypeOK
<1>1. CASE helicsTime < Never
  <2>1. grantedTime \in Nat /\ FromDouble(helicsTime) \in Nat
    BY <1>0, <1>1, Ranges, FromDoubleBounds
  <2>2. QED  BY <1>0, <1>1, <2>1, Ranges, FromDoubleBounds, WordFacts
<1>2. CASE helicsTime = Never
  <2>1. Unsigned(FromDouble(helicsTime)) = Never + 1
    BY <1>2, Ranges, FromDoubleBounds, WordFacts
  <2>2. Unsigned(grantedTime) <= Never + 1
    BY <1>0, <1>2, WordFacts
  <2>3. FromDouble(helicsTime) <= helicsTime
    BY Ranges, FromDoubleBounds
  <2>4. Unsigned(grantedTime) <= Unsigned(FromDouble(helicsTime))
    BY <2>1, <2>2
  <2>5. QED  BY <1>0, <2>3, <2>4
<1>3. QED  BY <1>1, <1>2, Ranges, WordFacts

\* The clock, the grant and HELICS: each action that writes one of them.
LEMMA ClockStep ==
  ASSUME IInv, [SimNext]_vars
  PROVE  /\ ClockWithinWord' /\ NextTimeIsFresh' /\ ClocksStartAtZero'
         /\ GrantIsConverted' /\ RequestIsSafe'
<1> DEFINE Clocks == /\ ClockWithinWord /\ NextTimeIsFresh /\ ClocksStartAtZero
                     /\ GrantIsConverted /\ RequestIsSafe
<1> USE DEF ClockWithinWord, NextTimeIsFresh, ClocksStartAtZero, Starting,
            RequestIsSafe, GrantIsConverted
<1>0. /\ Clocks
      /\ m_currentTs \in Nat /\ grantedTime \in Int /\ Unsigned(grantedTime) \in Nat
      /\ helicsTime \in 0 .. Never
      /\ ret \in {"enter", "next", "dispose"} /\ pc \in MainPc
  BY Ranges DEF IInv, TypeOK
<1>w. Never' = Never /\ Wrapped' = Wrapped
  BY DEF Wrapped, Words
<1>u. UNCHANGED grantedTime => Unsigned(grantedTime)' = Unsigned(grantedTime)
  BY DEF Unsigned, Words
<1>n. UNCHANGED m_events => Next' = Next
  BY DEF Next, IsFirst
<1>h. UNCHANGED helicsTime => FromDouble(helicsTime)' = FromDouble(helicsTime)
  BY DEF FromDouble
<1>1. CASE User
  <2>1. /\ pc \in {"setup", "executing", "invoke", "callback", "ended", "destroying"}
        /\ UNCHANGED <<m_currentTs, pc, ret, grantedTime, helicsTime>>
    BY <1>1 DEF User, Schedule, ScheduleWithContext, StopAfter, ScheduleNow, Stop,
                ScheduleDestroy, RemoveDestroy, Remove, Cancel, InUserCode, UserCode,
                clockVars, runVars
  <2>2. QED  BY <1>0, <1>h, <1>u, <1>w, <2>1
<1>2. CASE (\E t \in Threads : Foreign(t)) \/ Terminating \/ UNCHANGED vars
  <2>1. UNCHANGED <<m_events, m_currentTs, pc, ret, nextTime, grantedTime, helicsTime>>
    BY <1>2 DEF Foreign, Push, SetFlag, Terminating, vars, queueVars, clockVars,
                userVars, runVars
  <2>2. QED  BY <1>0, <1>n, <1>h, <1>u, <1>w, <2>1
<1>3. CASE Run \/ CheckFlag \/ Swap \/ EnterExecutingMode \/ EndHandler \/ EndRun
  <2>1. /\ UNCHANGED <<m_currentTs, nextTime, grantedTime, helicsTime>>
        /\ pc' \notin {"loop", "request", "callback", "invoke"} /\ pc # "callback"
        /\ Starting' => Starting \/ (pc = "invoke" /\ ret = "enter")
    BY <1>0, <1>3 DEF Run, CheckFlag, Swap, EnterExecutingMode, EndHandler, EndRun, Goto,
                      clockVars, runVars
  <2>2. QED  BY <1>0, <1>h, <1>u, <1>w, <2>1
<1>4. CASE BeginLoop
  <2>1. /\ pc = "executing" /\ pc' = "loop" /\ nextTime' = Next /\ grantedTime' = 0
        /\ UNCHANGED <<m_events, m_currentTs, helicsTime>>
    BY <1>4 DEF BeginLoop, Goto, queueVars, clockVars
  <2>2. /\ helicsTime = 0 /\ m_currentTs = 0 /\ Unsigned(grantedTime)' = 0
        /\ FromDouble(0) = 0 /\ 0 # Wrapped /\ 0 < Never
    <3>1. Unsigned(grantedTime)' = Unsigned(0)
      BY <2>1 DEF Unsigned, Words
    <3>2. QED  BY <1>0, <2>1, <3>1, FromDoubleBounds, WordFacts
  <2>3. QED  BY <1>0, <1>n, <1>h, <1>w, <2>1, <2>2
<1>5. CASE ProcessOneEvent
  <2>1. PICK e \in m_events : IsFirst(e) /\ m_currentTs' = e.ts
    BY <1>5 DEF ProcessOneEvent
  <2>2. Next = e.ts
    <3>1. /\ m_events \subseteq Event /\ MaxUid \in Nat
          /\ \A f, o \in m_events : f.uid = o.uid => f = o
      BY TimesAssumption DEF IInv, TypeOK, UidsIdentify
    <3>2. QED  BY <2>1, <3>1, NextIsFirst
  <2>3. e.ts <= Unsigned(grantedTime)
    <3>1. e.ts <= grantedTime
      BY <1>0, <1>5, <2>2 DEF ProcessOneEvent
    <3>2. QED  BY <1>5, <3>1, DispatchBeforeWrap, WordFacts
  <2>4. /\ pc' \in {"invoke", "pewc"} /\ ret' = "next" /\ pc = "loop"
        /\ UNCHANGED <<grantedTime, helicsTime>>
    BY <1>5 DEF ProcessOneEvent, runVars
  <2>5. QED  BY <1>0, <1>h, <1>u, <1>w, <2>1, <2>3, <2>4
<1>6. CASE RefreshNextTime
  BY <1>0, <1>6, <1>n, <1>h DEF RefreshNextTime, Goto, queueVars, clockVars
<1>7. CASE RequestTime
  <2>1. \A e \in m_events : grantedTime < e.ts
    BY <1>7, NothingDue DEF RequestTime, Goto
  <2>2. QED  BY <1>0, <1>7, <1>h, <1>u, <1>w, <2>1 DEF RequestTime, Goto, queueVars, runVars
<1>8. CASE Grant
  <2>1. /\ helicsTime' \in 0 .. Never
        /\ helicsTime' = helicsTime \/ helicsTime < helicsTime'
    <3>1. \A g \in Grantable : g = helicsTime \/ helicsTime < g
      BY <1>0 DEF Grantable
    <3>2. QED  BY <1>8, <3>1, OtherTypes DEF Grant
  <2>2. /\ pc = "request" /\ pc' = "callback"
        /\ UNCHANGED <<m_currentTs, m_events, grantedTime, ret>>
    BY <1>8 DEF Grant, Goto, queueVars, clockVars
  <2>3. grantedTime = FromDouble(helicsTime)
    BY <1>0, <2>2
  <2>4. FromDouble(helicsTime)' = FromDouble(helicsTime')
    BY DEF FromDouble, Wrapped, Words
  <2>5. helicsTime' < Never => grantedTime <= FromDouble(helicsTime')
    <3>1. CASE helicsTime' = helicsTime
      BY <1>0, <2>3, <3>1, FromDoubleBounds
    <3>2. CASE helicsTime < helicsTime' /\ helicsTime' < Never
      <4>1. grantedTime <= helicsTime /\ helicsTime' <= FromDouble(helicsTime') + 1
            /\ FromDouble(helicsTime') \in Nat
        BY <1>0, <2>1, <3>2, FromDoubleBounds
      <4>2. QED  BY <1>0, <2>1, <3>2, <4>1
    <3>3. QED  BY <2>1, <3>1, <3>2
  <2>6. grantedTime <= helicsTime'
    BY <1>0, <2>1
  <2>7. grantedTime = Wrapped => helicsTime' = Never
    BY <1>0, <2>1, WordFacts
  <2>8. QED  BY <1>0, <1>u, <1>w, <2>2, <2>4, <2>5, <2>6, <2>7
<1>9. CASE ReturnFromRequest
  <2>1. /\ pc = "callback" /\ pc' = "loop" /\ nextTime' = Next
        /\ grantedTime' = FromDouble(helicsTime)
        /\ UNCHANGED <<m_events, m_currentTs, helicsTime>>
    BY <1>9 DEF ReturnFromRequest, Goto, queueVars, clockVars
  <2>2. /\ m_currentTs <= Unsigned(FromDouble(helicsTime))
        /\ FromDouble(helicsTime) <= helicsTime
    BY <1>0, <2>1, UnsignedGrantGrows
  <2>3. Unsigned(grantedTime)' = Unsigned(FromDouble(helicsTime))
    BY <2>1 DEF Unsigned, Words
  <2>4. FromDouble(helicsTime) = Wrapped => helicsTime = Never
    BY <1>0, FromDoubleBounds, WordFacts
  <2>5. helicsTime < Never => FromDouble(helicsTime) <= FromDouble(helicsTime)
    BY <1>0, FromDoubleBounds
  <2>6. QED  BY <1>0, <1>n, <1>h, <1>w, <2>1, <2>2, <2>3, <2>4, <2>5
<1>10. CASE Destroy
  BY <1>0, <1>10, <1>h DEF Destroy, CallDestroy, RunDestroyEvent, EndDestroyEvent,
        CallDispose, DoDispose, Goto, clockVars, runVars
<1>11. Clocks'
  BY <1>1, <1>2, <1>3, <1>4, <1>5, <1>6, <1>7, <1>8, <1>9, <1>10
     DEF SimNext, RunStep, ProcessEventsWithContext
<1>12. QED  BY <1>11

LEMMA FlagStep ==
  ASSUME IInv, [SimNext]_vars
  PROVE  FlagCoversList' /\ PushedUnlessFree'
<1> DEFINE Flag == FlagCoversList /\ PushedUnlessFree
<1> USE DEF FlagCoversList, PushedUnlessFree
<1>0. Flag /\ m_eventsWithContext \in Seq(Delays)
  BY DEF IInv, TypeOK
<1>1. ASSUME NEW t \in Threads, NEW d \in Delays, Push(t, d)
      PROVE  Flag'
  <2>1. mutex' = t /\ m_eventsWithContext' = Append(m_eventsWithContext, d)
    BY <1>1 DEF Push
  <2>2. m_eventsWithContext' # <<>>
    BY <1>0, <2>1
  <2>3. QED  BY <2>1, <2>2, ThreadsAssumption
<1>2. ASSUME NEW t \in Threads, SetFlag(t)
      PROVE  Flag'
  <2>1. m_eventsWithContext # <<>>
    BY <1>0, <1>2, ThreadsAssumption DEF SetFlag
  <2>2. QED  BY <1>2, <2>1 DEF SetFlag
<1>3. CASE Swap
  BY <1>3 DEF Swap
<1>4. ASSUME UNCHANGED foreignVars
      PROVE  Flag'
  BY <1>0, <1>4 DEF foreignVars
<1>5. User => UNCHANGED foreignVars
  BY DEF User, Schedule, ScheduleWithContext, StopAfter, ScheduleNow, Stop,
         ScheduleDestroy, RemoveDestroy, Remove, Cancel, InUserCode
<1>6. Run \/ Destroy \/ Terminating \/ UNCHANGED vars => UNCHANGED foreignVars
  BY DEF Run, Destroy, CallDestroy, RunDestroyEvent, EndDestroyEvent, CallDispose,
         DoDispose, Terminating, vars
<1>7. RunStep => Swap \/ UNCHANGED foreignVars
  BY DEF RunStep, ProcessEventsWithContext, CheckFlag, EnterExecutingMode, BeginLoop,
         ProcessOneEvent, EndHandler, RefreshNextTime, RequestTime, Grant,
         ReturnFromRequest, EndRun
<1>8. Flag'
  BY <1>1, <1>2, <1>3, <1>4, <1>5, <1>6, <1>7 DEF SimNext, Foreign
<1>9. QED  BY <1>8

(***************************************************************************)
(* The invariant.                                                          *)
(***************************************************************************)
LEMMA InitEstablishes == Init => IInv
<1> SUFFICES ASSUME Init PROVE IInv
  OBVIOUS
<1> USE DEF Init
<1>1. IsFiniteSet({}) /\ Cardinality({}) = 0
  BY FS_EmptySet
<1>2. TypeOK
  <2>1. m_uid \in FirstUid .. MaxUid
    BY TimesAssumption DEF FirstUid
  <2>2. m_events \subseteq Event /\ issued \subseteq EventId /\ cancelled \subseteq Uid
    OBVIOUS
  <2>3. m_eventsWithContext \in Seq(Delays)
    OBVIOUS
  <2>4. /\ m_destroyEvents \subseteq issued /\ IsFiniteSet(m_events)
        /\ m_currentUid \in Uid \cup {0} /\ mutex \in Threads \cup {Free}
    BY <1>1
  <2>5. /\ m_stop \in BOOLEAN /\ m_eventsWithContextEmpty \in BOOLEAN
        /\ pc \in MainPc /\ ret \in {"enter", "next", "dispose"}
    BY DEF MainPc
  <2>6. /\ m_currentTs \in Nat /\ m_unscheduledEvents \in Int
        /\ nextTime \in Nat /\ grantedTime \in Nat \cup {Wrapped}
        /\ helicsTime \in 0 .. Never
    BY WordFacts
  <2>7. QED
    <3> HIDE DEF Init
    <3> QED  BY <2>1, <2>2, <2>3, <2>4, <2>5, <2>6 DEF TypeOK
<1>3. UidsReserved /\ UidsIdentify
  BY TimesAssumption DEF UidsReserved, UidsIdentify, FirstUid
<1>4. PendingIsAfterCurrent /\ NextTimeIsFresh /\ ClocksStartAtZero /\ RequestIsSafe
  BY DEF PendingIsAfterCurrent, NextTimeIsFresh, ClocksStartAtZero, RequestIsSafe
<1>5. GrantIsConverted /\ ClockWithinWord
  BY WordFacts, FromDoubleBounds DEF GrantIsConverted, ClockWithinWord
<1>6. CountsPending /\ UnexpiredIsPending
  BY <1>1 DEF CountsPending, UnexpiredIsPending
<1>7. FlagCoversList /\ PushedUnlessFree
  BY DEF FlagCoversList, PushedUnlessFree
<1>8. QED  BY <1>2, <1>3, <1>4, <1>5, <1>6, <1>7 DEF IInv

LEMMA StepPreserves == IInv /\ [SimNext]_vars => IInv'
<1> SUFFICES ASSUME IInv, [SimNext]_vars PROVE IInv'
  OBVIOUS
<1>1. TypeOK'
  BY CoreTypes, OtherTypes DEF TypeOK
<1>2. UidsReserved'
  BY CoreTypes DEF UidsReserved
<1>3. UidsIdentify' /\ PendingIsAfterCurrent' /\ UnexpiredIsPending' /\ CountsPending'
  BY UidsIdentifyStep, PendingIsAfterCurrentStep, UnexpiredIsPendingStep, CountsPendingStep
<1>4. ClockWithinWord' /\ NextTimeIsFresh' /\ ClocksStartAtZero' /\ GrantIsConverted'
      /\ RequestIsSafe'
  BY ClockStep
<1>5. FlagCoversList' /\ PushedUnlessFree'
  BY FlagStep
<1>6. QED  BY <1>1, <1>2, <1>3, <1>4, <1>5 DEF IInv

THEOREM Invariance == Spec => []IInv
BY InitEstablishes, StepPreserves, PTL DEF Spec

(***************************************************************************)
(* The theorems.                                                           *)
(***************************************************************************)

\* Every variable stays in its range, for any number of threads and any delays.
THEOREM TypeCorrectness == Spec => []TypeOK
<1>1. IInv => TypeOK
  BY DEF IInv
<1>2. QED  BY <1>1, Invariance, PTL

\* The counter Run checks at its end is the size of the queue at every moment,
\* through Schedule, Remove, Cancel, dispatches and foreign arrivals.
THEOREM CounterIsExact == Spec => []CountsPending
<1>1. IInv => CountsPending
  BY DEF IInv
<1>2. QED  BY <1>1, Invariance, PTL

\* IsExpired is right about every EventId ever handed out, until the clock wraps.
THEOREM ExpiryIsExact == Spec => []ExpiredIffGone
<1>1. IInv => ExpiredIffGone
  <2> SUFFICES ASSUME IInv, pc # "disposed", ~ ClockWrapped, NEW id \in issued
               PROVE  ~ IsExpired(id) <=>
                        /\ id.impl \notin cancelled
                        /\ \/ id.uid = DestroyUid /\ id \in m_destroyEvents
                           \/ \E e \in m_events : e.uid = id.uid /\ e.ts = id.ts
    BY DEF ExpiredIffGone
  <2>1. CASE id.uid = DestroyUid
    <3>1. \A e \in m_events : e.uid # DestroyUid
      BY Ranges DEF DestroyUid
    <3>2. QED  BY <2>1, <3>1 DEF IsExpired
  <2>2. CASE id.uid # DestroyUid
    <3>1. \A e \in m_events : Before(m_currentTs, m_currentUid, e.ts, e.uid)
      BY DEF IInv, PendingIsAfterCurrent
    <3>2. (id.impl \notin cancelled /\ Before(m_currentTs, m_currentUid, id.ts, id.uid))
            => \E e \in m_events : e.uid = id.uid /\ e.ts = id.ts
      BY <2>2 DEF IInv, UnexpiredIsPending
    <3>3. QED  BY <2>2, <3>1, <3>2 DEF IsExpired
  <2>3. QED  BY <2>1, <2>2
<1>2. QED  BY <1>1, Invariance, PTL

\* ns-3 never acts at a time HELICS has not granted, whichever grants are cut
\* short and whichever doubles are truncated; a wrapped grant is before everything.
THEOREM ClockWithinGrant == Spec => []NeverAheadOfHelics
<1>1. IInv => NeverAheadOfHelics
  BY Ranges DEF IInv, ClockWithinWord, NeverAheadOfHelics
<1>2. QED  BY <1>1, Invariance, PTL

\* No event is ever in the past of a clock that has not wrapped: neither the jump to
\* the granted time nor a late callback can skip one, so the assertion of
\* ProcessOneEvent, which is not reached after the wrap, cannot fail.
THEOREM NoEventIsSkipped == Spec => []NothingSkipped
<1>1. IInv => NothingSkipped
  <2> SUFFICES ASSUME IInv PROVE NothingSkipped
    OBVIOUS
  <2>1. ~ ClockWrapped => \A e \in m_events : m_currentTs <= e.ts
    BY Ranges DEF IInv, PendingIsAfterCurrent, Before
  <2>2. QED  BY <2>1 DEF IInv, RequestIsSafe, NothingSkipped
<1>2. QED  BY <1>1, Invariance, PTL

\* Events are dispatched in the order of (timestamp, uid) and the clock, an unsigned
\* word, never goes back.
THEOREM DispatchOrder == Spec => TimeNeverRunsBack
<1>1. IInv /\ [SimNext]_vars =>
        [Before(m_currentTs, m_currentUid, m_currentTs', m_currentUid')]_clockVars
  <2> SUFFICES ASSUME IInv, [SimNext]_vars
               PROVE  \/ UNCHANGED clockVars
                      \/ Before(m_currentTs, m_currentUid, m_currentTs', m_currentUid')
    OBVIOUS
  <2>1. CASE ProcessOneEvent
    BY <2>1, DispatchBeforeWrap DEF ProcessOneEvent, IInv, PendingIsAfterCurrent
  <2>2. CASE Jumps
    <3>1. m_currentTs' = Unsigned(grantedTime) /\ m_currentUid' = m_currentUid
      BY <2>2 DEF Jumps
    <3>2. m_currentTs <= Unsigned(grantedTime)
      BY DEF IInv, ClockWithinWord
    <3>3. QED  BY <3>1, <3>2, Ranges DEF Before, clockVars
  <2>3. CASE Quiet
    BY <2>3 DEF Quiet, core, clockVars
  <2>4. CASE Inserts \/ SchedulesDestroy \/ Removes \/ Cancels \/ Pushes \/ Swap \/ Disposes
    BY <2>4 DEF Inserts, InsertsAt, SchedulesDestroy, Removes, Cancels, Pushes, Swap,
                Disposes
  <2>5. QED  BY <2>1, <2>2, <2>3, <2>4, Effects
<1>2. QED  BY <1>1, Invariance, PTL DEF Spec, TimeNeverRunsBack

\* The unlocked look at m_eventsWithContextEmpty loses no completed hand-over.
THEOREM HandOver == Spec => ArrivalsMovedAfterEveryEvent
<1>1. IInv /\ [SimNext]_vars =>
        [(pc \in {"pewc", "swap"} /\ pc' = ret) =>
           (m_eventsWithContext' = <<>> \/ mutex # Free)]_pc
  <2> SUFFICES ASSUME IInv, [SimNext]_vars, pc \in {"pewc", "swap"}, pc' = ret,
                      pc' # pc, mutex = Free
               PROVE  m_eventsWithContext' = <<>>
    OBVIOUS
  <2>0. ret \in {"enter", "next", "dispose"}
    BY DEF IInv, TypeOK
  <2>1. CASE CheckFlag
    BY <2>0, <2>1 DEF CheckFlag, foreignVars, IInv, FlagCoversList
  <2>2. CASE Swap
    BY <2>2 DEF Swap
  <2>3. CASE User
    BY <2>3 DEF User, Schedule, ScheduleWithContext, StopAfter, ScheduleNow, Stop,
                ScheduleDestroy, RemoveDestroy, Remove, Cancel, InUserCode
  <2>4. CASE (\E t \in Threads : Foreign(t)) \/ Terminating \/ UNCHANGED vars
    BY <2>4 DEF Foreign, Push, SetFlag, Terminating, vars
  <2>5. CASE Run \/ Destroy
    BY <2>5 DEF Run, Destroy, CallDestroy, RunDestroyEvent, EndDestroyEvent, CallDispose,
                DoDispose, Goto
  <2>6. CASE RunStep
    BY <2>1, <2>2, <2>6 DEF RunStep, ProcessEventsWithContext, EnterExecutingMode,
       BeginLoop, ProcessOneEvent, EndHandler, RefreshNextTime, RequestTime, Grant,
       ReturnFromRequest, EndRun, Goto
  <2>7. QED  BY <2>3, <2>4, <2>5, <2>6 DEF SimNext
<1>2. QED  BY <1>1, Invariance, PTL DEF Spec, ArrivalsMovedAfterEveryEvent

(***************************************************************************)
(* HelicsSimulatorImpl implements EventSchedule, for every value of its    *)
(* constants: each step is one of the abstract steps or a stutter.         *)
(***************************************************************************)
AbstractStep == [Schedules!Next]_(Schedules!vars)

LEMMA GrantsChange ==
  ASSUME [SimNext]_vars
  PROVE  \/ UNCHANGED <<grantedTime, helicsTime>>
         \/ BeginLoop \/ Grant \/ ReturnFromRequest
<1> DEFINE Same == UNCHANGED <<grantedTime, helicsTime>>
<1> USE DEF runVars
<1>1. User => Same
  BY DEF User, Schedule, ScheduleWithContext, StopAfter, ScheduleNow, Stop,
         ScheduleDestroy, RemoveDestroy, Remove, Cancel, InUserCode
<1>2. (\E t \in Threads : Foreign(t)) \/ Run \/ Terminating \/ UNCHANGED vars => Same
  BY DEF Foreign, Push, SetFlag, Run, Terminating, vars
<1>3. Destroy => Same
  BY DEF Destroy, CallDestroy, RunDestroyEvent, EndDestroyEvent, CallDispose, DoDispose
<1>4. RunStep => Same \/ BeginLoop \/ Grant \/ ReturnFromRequest
  BY DEF RunStep, ProcessEventsWithContext, CheckFlag, Swap, EnterExecutingMode,
         ProcessOneEvent, EndHandler, RefreshNextTime, RequestTime, EndRun
<1>5. QED  BY <1>1, <1>2, <1>3, <1>4 DEF SimNext

\* What is promised follows from the queue and the grant.
LEMMA PromisedStep ==
  ASSUME UNCHANGED helicsTime
  PROVE  /\ helicsTime < Never => Promised = Pending /\ Promised' = Pending'
         /\ ~ (helicsTime < Never) => Promised = {} /\ Promised' = {}
         /\ UNCHANGED Pending => UNCHANGED Promised
         /\ UNCHANGED grantedTime => Unsigned(grantedTime)' = Unsigned(grantedTime)
BY DEF Promised, Unsigned, Words

\* An event record stands for exactly one abstract event.
LEMMA PendingMembers ==
  /\ \A e \in m_events : e.uid \notin cancelled =>
       [due |-> e.ts, id |-> e.uid] \in Pending
  /\ \A p \in Pending : \E e \in m_events :
       e.uid \notin cancelled /\ p = [due |-> e.ts, id |-> e.uid]
BY DEF Pending

\* Only fresh, future events appear in Pending when the queue grows.
LEMMA PostStep ==
  ASSUME m_events \subseteq m_events',
         \A e \in m_events' \ m_events :
           m_currentTs <= e.ts /\ m_uid <= e.uid /\ e.uid < m_uid',
         m_uid <= m_uid',
         UNCHANGED <<m_currentTs, cancelled, grantedTime, helicsTime>>
  PROVE  Schedules!Post
<1>0. Pending \subseteq Pending'
  BY DEF Pending
<1>1. Promised \subseteq Promised'
  BY <1>0, PromisedStep
<1>2. ASSUME NEW p \in Promised' \ Promised
      PROVE  m_currentTs <= p.due /\ m_uid <= p.id /\ p.id < m_uid'
  <2>0. p \in Pending' \ Pending
    BY PromisedStep
  <2>1. PICK e \in m_events' : e.uid \notin cancelled' /\ p = [due |-> e.ts, id |-> e.uid]
    BY <2>0 DEF Pending
  <2>2. e \in m_events' \ m_events
    BY <2>0, <2>1 DEF Pending
  <2>3. QED  BY <2>1, <2>2
<1>3. QED  BY <1>1, <1>2, PromisedStep DEF Schedules!Post

\* Taking away what belongs to one uid withdraws at most one event.
LEMMA WithdrawStep ==
  ASSUME IInv, NEW u,
         Pending' = {p \in Pending : p.id # u},
         UNCHANGED <<m_uid, m_currentTs, grantedTime, helicsTime>>
  PROVE  Schedules!Withdraw \/ UNCHANGED Schedules!vars
<1>0. /\ Promised' = {p \in Promised : p.id # u} /\ Promised \subseteq Pending
      /\ Unsigned(grantedTime)' = Unsigned(grantedTime)
  BY PromisedStep
<1>1. CASE \E p \in Promised : p.id = u
  <2>1. PICK p \in Promised : p.id = u
    BY <1>1
  <2>2. \A q \in Promised : q.id = u => q = p
    <3>1. \A e, o \in m_events : e.uid = o.uid => e = o
      BY DEF IInv, UidsIdentify
    <3>2. QED  BY <1>0, <2>1, <3>1 DEF Pending
  <2>3. Promised' = Promised \ {p}
    BY <1>0, <2>1, <2>2
  <2>4. QED  BY <1>0, <2>1, <2>3 DEF Schedules!Withdraw
<1>2. CASE ~ \E p \in Promised : p.id = u
  <2>1. Promised' = Promised
    BY <1>0, <1>2
  <2>2. QED  BY <1>0, <2>1 DEF Schedules!vars
<1>3. QED  BY <1>1, <1>2

\* A dispatch fires the first pending event, or lets the clock pass a cancelled one.
LEMMA DispatchStep ==
  ASSUME IInv, ProcessOneEvent
  PROVE  Schedules!Fire \/ Schedules!Wait
<1>1. PICK e \in m_events : /\ IsFirst(e) /\ m_events' = m_events \ {e}
                            /\ m_currentTs' = e.ts
  BY DEF ProcessOneEvent
<1>2. /\ UNCHANGED <<m_uid, cancelled, grantedTime, helicsTime>>
      /\ nextTime <= grantedTime /\ pc = "loop"
  BY DEF ProcessOneEvent, userVars, runVars
<1>p. /\ Promised = Pending /\ Promised' = Pending'
      /\ Unsigned(grantedTime) = grantedTime /\ Unsigned(grantedTime)' = grantedTime
  BY <1>2, DispatchBeforeWrap, PromisedStep, WordFacts
<1>3. Next = e.ts /\ \A o \in m_events : e.ts <= o.ts
  <2>1. /\ m_events \subseteq Event /\ MaxUid \in Nat
        /\ \A f, o \in m_events : f.uid = o.uid => f = o
    BY TimesAssumption DEF IInv, TypeOK, UidsIdentify
  <2>2. Next = e.ts /\ \A o \in m_events : Next <= o.ts
    BY <1>1, <2>1, NextIsFirst
  <2>3. QED  BY <2>2
<1>4. e.ts <= grantedTime
  BY <1>2, <1>3 DEF IInv, NextTimeIsFresh
<1>5. \A f, o \in m_events : f.uid = o.uid => f = o
  BY DEF IInv, UidsIdentify
<1>6. CASE e.uid \in cancelled
  <2>1. Pending' = Pending
    BY <1>1, <1>2, <1>6 DEF Pending
  <2>2. \A p \in Pending : e.ts <= p.due
    BY <1>3 DEF Pending
  <2>3. m_currentTs <= e.ts
    BY Ranges, DispatchBeforeWrap, <1>1 DEF IInv, PendingIsAfterCurrent, Before
  <2>4. QED  BY <1>1, <1>2, <1>p, <1>4, <2>1, <2>2, <2>3 DEF Schedules!Wait
<1>7. CASE e.uid \notin cancelled
  <2> DEFINE p == [due |-> e.ts, id |-> e.uid]
  <2>1. p \in Pending
    BY <1>7 DEF Pending
  <2>2. Pending' = Pending \ {p}
    BY <1>1, <1>2, <1>5, <1>7 DEF Pending
  <2>3. ASSUME NEW q \in Pending \ {p}
        PROVE  Schedules!Earlier(p, q)
    <3>1. PICK o \in m_events : q = [due |-> o.ts, id |-> o.uid]
      BY DEF Pending
    <3>2. o \in m_events \ {e}
      BY <3>1
    <3>3. Before(e.ts, e.uid, o.ts, o.uid)
      BY <1>1, <3>2 DEF IsFirst
    <3>4. QED  BY <3>1, <3>3 DEF Before, Schedules!Earlier
  <2>4. QED  BY <1>1, <1>2, <1>p, <1>4, <2>1, <2>2, <2>3 DEF Schedules!Fire
<1>8. QED  BY <1>6, <1>7

LEMMA StepRefines == IInv /\ [SimNext]_vars => AbstractStep
<1> SUFFICES ASSUME IInv, [SimNext]_vars
             PROVE  Schedules!Next \/ UNCHANGED Schedules!vars
  BY DEF AbstractStep
<1> DEFINE Goal == Schedules!Next \/ UNCHANGED Schedules!vars
<1>1. CASE BeginLoop
  <2>1. grantedTime = 0
    <3>1. helicsTime = 0 /\ grantedTime = FromDouble(helicsTime)
      BY <1>1 DEF BeginLoop, Goto, IInv, ClocksStartAtZero, Starting, GrantIsConverted
    <3>2. QED  BY <3>1, FromDoubleBounds, WordFacts
  <2>2. UNCHANGED <<m_events, m_uid, m_currentTs, cancelled, grantedTime, helicsTime>>
    BY <1>1, <2>1 DEF BeginLoop, queueVars, clockVars, userVars
  <2>3. Pending' = Pending
    BY <2>2 DEF Pending
  <2>4. QED  BY <2>2, <2>3, PromisedStep DEF Schedules!vars
<1>2. CASE ReturnFromRequest
  <2>1. /\ Unsigned(grantedTime) <= Unsigned(FromDouble(helicsTime))
        /\ m_currentTs = Unsigned(grantedTime)
        /\ Unsigned(grantedTime)' = Unsigned(FromDouble(helicsTime))
    BY <1>2, UnsignedGrantGrows DEF ReturnFromRequest, Goto, Unsigned, Words
  <2>2. UNCHANGED <<m_events, m_uid, m_currentTs, cancelled, helicsTime>>
    BY <1>2 DEF ReturnFromRequest, queueVars, clockVars, userVars
  <2>3. Pending' = Pending
    BY <2>2 DEF Pending
  <2>4. Schedules!Grant
    BY <2>1, <2>2, <2>3, PromisedStep DEF Schedules!Grant
  <2>5. QED  BY <2>4 DEF Schedules!Next
<1>g. CASE Grant
  <2>1. UNCHANGED <<m_events, m_uid, m_currentTs, cancelled, grantedTime>>
    BY <1>g DEF Grant, queueVars, clockVars, userVars
  <2>2. Pending' = Pending /\ Unsigned(grantedTime)' = Unsigned(grantedTime)
    BY <2>1 DEF Pending, Unsigned, Words
  <2>3. helicsTime = Never => helicsTime' = Never
    BY <1>g, Ranges, WordFacts, NextIsTime DEF Grant, Grantable, Requested
  <2>4. Promised' = Promised \/ Promised' = {}
    <3>1. CASE helicsTime < Never
      BY <2>2, <3>1 DEF Promised
    <3>2. CASE helicsTime = Never
      <4>1. helicsTime' = Never /\ ~ (Never < Never)
        BY <2>3, <3>2, WordFacts
      <4>2. QED  BY <4>1 DEF Promised
    <3>3. QED  BY <3>1, <3>2, Ranges, WordFacts
  <2>5. QED
    BY <2>1, <2>2, <2>4 DEF Schedules!vars, Schedules!Close, Schedules!Next
<1>3. CASE UNCHANGED <<grantedTime, helicsTime>>
  <2>1. CASE Quiet
    <3>1. UNCHANGED <<m_events, m_uid, m_currentTs, cancelled>>
      BY <2>1 DEF Quiet, core
    <3>2. Pending' = Pending
      BY <3>1 DEF Pending
    <3>3. QED  BY <1>3, <3>1, <3>2, PromisedStep DEF Schedules!vars
  <2>2. CASE Inserts
    <3>1. PICK ts \in Nat, stop \in BOOLEAN : InsertsAt(ts, stop)
      BY <2>2 DEF Inserts
    <3>2. /\ m_events' = m_events \cup {[ts |-> ts, uid |-> m_uid, stop |-> stop]}
          /\ m_uid' = m_uid + 1 /\ m_currentTs <= ts
          /\ UNCHANGED <<m_currentTs, cancelled>>
      BY <3>1 DEF InsertsAt, Insert, clockVars
    <3>3. /\ m_events \subseteq m_events' /\ m_uid <= m_uid'
          /\ \A e \in m_events' \ m_events :
               m_currentTs <= e.ts /\ m_uid <= e.uid /\ e.uid < m_uid'
      BY <3>2, Ranges
    <3>4. Schedules!Post
      BY <1>3, <3>2, <3>3, PostStep
    <3>5. QED  BY <3>4 DEF Schedules!Next
  <2>3. CASE SchedulesDestroy \/ Pushes
    <3>1. /\ m_events' = m_events /\ m_uid <= m_uid'
          /\ UNCHANGED <<m_currentTs, cancelled>>
      BY <2>3, Ranges DEF SchedulesDestroy, Pushes, queueVars, clockVars
    <3>2. Schedules!Post
      BY <1>3, <3>1, PostStep
    <3>3. QED  BY <3>2 DEF Schedules!Next
  <2>4. CASE Removes
    <3>1. PICK id \in issued :
            /\ m_events' = {e \in m_events : e.uid # id.uid}
            /\ cancelled' = cancelled \cup {id.impl} /\ id.uid # DestroyUid
            /\ UNCHANGED <<m_uid, m_currentTs>>
      BY <2>4 DEF Removes, clockVars
    <3>2. id.impl = id.uid
      BY <3>1 DEF IInv, UidsIdentify
    <3>3. Pending' = {p \in Pending : p.id # id.uid}
      BY <3>1, <3>2 DEF Pending
    <3>4. Schedules!Withdraw \/ UNCHANGED Schedules!vars
      BY <1>3, <3>1, <3>3, WithdrawStep
    <3>5. QED  BY <3>4 DEF Schedules!Next
  <2>5. CASE Cancels
    <3>1. PICK id \in issued :
            /\ cancelled' = cancelled \cup {id.impl}
            /\ UNCHANGED <<m_events, m_uid, m_currentTs>>
      BY <2>5 DEF Cancels, queueVars, clockVars
    <3>2. Pending' = {p \in Pending : p.id # id.impl}
      BY <3>1 DEF Pending
    <3>3. Schedules!Withdraw \/ UNCHANGED Schedules!vars
      BY <1>3, <3>1, <3>2, WithdrawStep
    <3>4. QED  BY <3>3 DEF Schedules!Next
  <2>6. CASE Swap
    <3>1. /\ m_events' = m_events \cup Arrived
          /\ m_uid' = m_uid + Len(m_eventsWithContext)
          /\ UNCHANGED <<m_currentTs, cancelled>>
      BY <2>6 DEF Swap, clockVars, userVars
    <3>2. \A e \in m_events' \ m_events :
            m_currentTs <= e.ts /\ m_uid <= e.uid /\ e.uid < m_uid'
      BY <3>1, ArrivedAreFresh DEF IInv
    <3>3. m_uid <= m_uid'
      BY <3>1, Ranges
    <3>4. Schedules!Post
      BY <1>3, <3>1, <3>2, <3>3, PostStep
    <3>5. QED  BY <3>4 DEF Schedules!Next
  <2>7. CASE ProcessOneEvent
    BY <2>7, DispatchStep DEF Schedules!Next
  <2>8. CASE Jumps
    <3>1. \A e \in m_events : grantedTime < e.ts
      BY <2>8, NothingDue DEF Jumps
    <3>2. /\ m_currentTs' = Unsigned(grantedTime) /\ m_currentTs <= Unsigned(grantedTime)
          /\ UNCHANGED <<m_events, m_uid, cancelled>>
      BY <2>8 DEF Jumps, queueVars, IInv, ClockWithinWord
    <3>3. Pending' = Pending
      BY <3>2 DEF Pending
    <3>4. \A p \in Promised : Unsigned(grantedTime) <= p.due
      <4>1. CASE helicsTime < Never
        <5>1. grantedTime # Wrapped
          BY <4>1, WordFacts DEF IInv, GrantIsConverted
        <5>2. QED  BY <1>3, <3>1, <4>1, <5>1, Ranges, PromisedStep DEF Pending
      <4>2. CASE ~ (helicsTime < Never)
        BY <1>3, <4>2, PromisedStep
      <4>3. QED  BY <4>1, <4>2
    <3>5. Schedules!Wait
      BY <1>3, <3>2, <3>3, <3>4, Ranges, PromisedStep DEF Schedules!Wait
    <3>6. QED  BY <3>5 DEF Schedules!Next
  <2>9. CASE Disposes
    <3>1. m_events' = {} /\ UNCHANGED <<m_uid, m_currentTs>>
      BY <2>9 DEF Disposes, clockVars
    <3>2. Pending' = {}
      BY <3>1 DEF Pending
    <3>3. Schedules!Close
      BY <1>3, <3>1, <3>2, PromisedStep DEF Schedules!Close
    <3>4. QED  BY <3>3 DEF Schedules!Next
  <2>10. QED
    BY <2>1, <2>2, <2>3, <2>4, <2>5, <2>6, <2>7, <2>8, <2>9, Effects
<1>4. QED  BY <1>1, <1>2, <1>g, <1>3, GrantsChange

\* The simulator of helics-simulator-impl.cc keeps the promise of EventSchedule:
\* scheduling order, the horizon and the clock, for any constants and any user code;
\* the grant of the largest time closes the schedule.
THEOREM Refinement == Spec => ImplementsEventSchedule
<1>1. Init => Schedules!Init
  <2>1. Init => Promised = {} /\ Unsigned(grantedTime) = 0
    BY WordFacts DEF Init, Promised, Pending
  <2>2. QED  BY <2>1 DEF Init, Schedules!Init, FirstUid
<1>2. QED
  BY <1>1, StepRefines, Invariance, PTL
     DEF Spec, ImplementsEventSchedule, Schedules!Spec, AbstractStep

==============================================================================
