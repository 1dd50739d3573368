------------------------- MODULE HelicsSimulatorImpl -------------------------
(***************************************************************************)
(* The event-driven simulator of model/helics-simulator-impl.cc: a queue   *)
(* of timestamped events whose clock may only advance to the time the      *)
(* HELICS broker has granted to this federate.                             *)
(*                                                                         *)
(* Main thread: builds the scenario ("setup"), calls Run, and is from then *)
(* on either in the loop of Run, in an event handler ("invoke") or in a    *)
(* HELICS callback that runs inside requestTime ("callback").  Foreign     *)
(* threads only call ScheduleWithContext.  User code (scenario, handlers,  *)
(* callbacks) is any sequence of calls to the public operations.           *)
(***************************************************************************)
EXTENDS Integers, Sequences, FiniteSets

CONSTANTS
  Delays,      \* relative delays, in time steps, that callers pass
  Threads,     \* threads other than the main one
  Free,        \* value of mutex when nobody holds it
  Instants,    \* times at which a message may cut a HELICS grant short
  Truncated,   \* grants whose double, turned into ns-3 ticks, is one tick short
  Never,       \* GetMaximumSimulationTime, the largest signed word: 2^63 - 1
  MaxUid       \* bound: no event gets a uid beyond it (the code's wrap at 2^32)

ASSUME DelaysAssumption == Delays \subseteq Nat
ASSUME TimesAssumption ==
  /\ Never \in Nat \ {0} /\ MaxUid \in Nat /\ MaxUid >= 4
  /\ Instants \subseteq Nat /\ Truncated \subseteq Nat \ {0}
ASSUME ThreadsAssumption == Free \notin Threads

VARIABLES
  m_events,                \* the scheduler: set of events [ts, uid, stop]
  m_uid,                   \* next uid
  m_currentTs,             \* timestamp of the current event
  m_currentUid,            \* uid of the current event
  m_unscheduledEvents,     \* events inserted and not yet run
  m_stop,
  m_eventsWithContext,     \* delays of the events foreign threads handed over
  m_eventsWithContextEmpty,
  mutex,                   \* holder of m_eventsWithContextMutex, or Free
  m_destroyEvents,         \* EventIds to run at Destroy (list order: by impl)
  cancelled,               \* EventImpls on which Cancel was called
  issued,                  \* EventIds the user has been given
  pc, ret,                 \* where the main thread is; what follows "pewc"
  nextTime, grantedTime,   \* locals of Run
  helicsTime               \* the time HELICS has granted to the federate

queueVars   == <<m_events, m_uid, m_unscheduledEvents>>
clockVars   == <<m_currentTs, m_currentUid>>
foreignVars == <<m_eventsWithContext, m_eventsWithContextEmpty, mutex>>
userVars    == <<m_destroyEvents, cancelled, issued>>
runVars     == <<nextTime, grantedTime, helicsTime>>
vars == <<queueVars, clockVars, m_stop, foreignVars, userVars, pc, ret, runVars>>

(***************************************************************************)
(* Data.  An event's impl is identified with the value of m_uid when it is *)
(* scheduled; destroy events carry the reserved uid 2.                     *)
(***************************************************************************)
FirstUid   == 4
DestroyUid == 2

Uid     == FirstUid .. (MaxUid - 1)
Event   == [ts : Nat, uid : Uid, stop : BOOLEAN]
EventId == [impl : Uid, ts : Nat, uid : Uid \cup {DestroyUid}]

\* Scheduler::EventKey comparison: timestamp, then uid.
Before(ts1, uid1, ts2, uid2) == ts1 < ts2 \/ (ts1 = ts2 /\ uid1 < uid2)

IsFirst(e) ==
  /\ e \in m_events
  /\ \A o \in m_events \ {e} : Before(e.ts, e.uid, o.ts, o.uid)

Next == IF m_events = {} THEN Never ELSE (CHOOSE e \in m_events : IsFirst(e)).ts

\* Times are signed words, m_currentTs is an unsigned one.
Words == 2 * (Never + 1)

Unsigned(time) == IF time < 0 THEN time + Words ELSE time

\* The double next to the largest time is above it (by 575 ticks in the code, by one
\* here), and its ticks, read as a signed word, are negative.
Wrapped == (Never + 1) - Words

\* What Run makes of a granted double: FromDouble keeps the integral ticks.
FromDouble(granted) ==
  IF granted = Never THEN Wrapped
  ELSE IF granted \in Truncated THEN granted - 1 ELSE granted

\* Fault: the current event still counts as pending.
IsExpiredLax(id) ==
  \/ id.impl \in cancelled
  \/ IF id.uid = DestroyUid
     THEN id \notin m_destroyEvents
     ELSE Before(id.ts, id.uid, m_currentTs, m_currentUid)

IsExpired(id) ==
  \/ id.impl \in cancelled
  \/ IF id.uid = DestroyUid
     THEN id \notin m_destroyEvents
     ELSE ~ Before(m_currentTs, m_currentUid, id.ts, id.uid)

\* Bound: a uid is left for one more event, pushed events included.
Room == m_uid + Len(m_eventsWithContext) < MaxUid

(***************************************************************************)
(* The constructor.                                                        *)
(***************************************************************************)
Init ==
  /\ m_events = {} /\ m_uid = FirstUid /\ m_unscheduledEvents = 0
  /\ m_currentTs = 0 /\ m_currentUid = 0
  /\ m_stop = FALSE
  /\ m_eventsWithContext = <<>> /\ m_eventsWithContextEmpty = TRUE
  /\ mutex = Free
  /\ m_destroyEvents = {} /\ cancelled = {} /\ issued = {}
  /\ pc = "setup" /\ ret = "enter"
  /\ nextTime = 0 /\ grantedTime = 0 /\ helicsTime = 0

(***************************************************************************)
(* The public operations, called by user code on the main thread.          *)
(***************************************************************************)
\* A federate that has been granted the largest time is finished: HELICS answers its
\* further requests at once and calls back no more.
UserCode ==
  /\ pc \in {"setup", "executing", "invoke", "callback", "ended", "destroying"}
  /\ pc = "callback" => grantedTime # Wrapped

Insert(ts, stop) ==
  /\ m_events' = m_events \cup {[ts |-> ts, uid |-> m_uid, stop |-> stop]}
  /\ m_uid' = m_uid + 1
  /\ m_unscheduledEvents' = m_unscheduledEvents + 1

InUserCode == UserCode /\ UNCHANGED <<clockVars, foreignVars, pc, ret, runVars>>

Schedule(delay) ==
  /\ InUserCode /\ Room /\ m_currentTs + delay < Never
  /\ Insert(m_currentTs + delay, FALSE)
  /\ issued' = issued \cup
       {[impl |-> m_uid, ts |-> m_currentTs + delay, uid |-> m_uid]}
  /\ UNCHANGED <<m_stop, m_destroyEvents, cancelled>>

\* Fault: "now" events get the reserved uid 1.
ScheduleNowReservedUid ==
  /\ InUserCode /\ Room /\ m_currentTs < Never
  /\ m_events' = m_events \cup {[ts |-> m_currentTs, uid |-> 1, stop |-> FALSE]}
  /\ m_uid' = m_uid + 1
  /\ m_unscheduledEvents' = m_unscheduledEvents + 1
  /\ UNCHANGED <<m_stop, userVars>>

ScheduleNow ==
  /\ InUserCode /\ Room /\ m_currentTs < Never
  /\ Insert(m_currentTs, FALSE)
  /\ issued' = issued \cup {[impl |-> m_uid, ts |-> m_currentTs, uid |-> m_uid]}
  /\ UNCHANGED <<m_stop, m_destroyEvents, cancelled>>

\* The main-thread branch: no EventId is returned.
ScheduleWithContext(delay) ==
  /\ InUserCode /\ Room /\ m_currentTs + delay < Never
  /\ Insert(m_currentTs + delay, FALSE)
  /\ UNCHANGED <<m_stop, userVars>>

\* Stop(delay) schedules Simulator::Stop and drops the EventId.
StopAfter(delay) ==
  /\ InUserCode /\ Room /\ m_currentTs + delay < Never
  /\ Insert(m_currentTs + delay, TRUE)
  /\ UNCHANGED <<m_stop, userVars>>

Stop ==
  /\ InUserCode
  /\ m_stop' = TRUE
  /\ UNCHANGED <<queueVars, userVars>>

ScheduleDestroy ==
  /\ InUserCode /\ Room
  /\ LET id == [impl |-> m_uid, ts |-> m_currentTs, uid |-> DestroyUid]
     IN  /\ m_destroyEvents' = m_destroyEvents \cup {id}
         /\ issued' = issued \cup {id}
  /\ m_uid' = m_uid + 1
  /\ UNCHANGED <<m_events, m_unscheduledEvents, m_stop, cancelled>>

\* Remove of a destroy event takes it off the list, expired or not; Remove of
\* any other one does nothing when it has expired.
RemoveDestroy(id) ==
  /\ InUserCode /\ id.uid = DestroyUid
  /\ m_destroyEvents' = m_destroyEvents \ {id}
  /\ UNCHANGED <<queueVars, m_stop, cancelled, issued>>

Remove(id) ==
  /\ InUserCode /\ id.uid # DestroyUid /\ ~ IsExpired(id)
  /\ m_events' = {e \in m_events : e.uid # id.uid}
  /\ cancelled' = cancelled \cup {id.impl}
  /\ m_unscheduledEvents' = m_unscheduledEvents - 1
  /\ UNCHANGED <<m_uid, m_stop, m_destroyEvents, issued>>

Cancel(id) ==
  /\ InUserCode /\ ~ IsExpired(id)
  /\ cancelled' = cancelled \cup {id.impl}
  /\ UNCHANGED <<queueVars, m_stop, m_destroyEvents, issued>>

User ==
  \/ \E d \in Delays : Schedule(d) \/ ScheduleWithContext(d) \/ StopAfter(d)
  \/ ScheduleNow \/ Stop \/ ScheduleDestroy
  \/ \E id \in issued : RemoveDestroy(id) \/ Remove(id) \/ Cancel(id)

(***************************************************************************)
(* ScheduleWithContext on another thread: the push and the flag are two    *)
(* writes under the mutex; the main thread reads the flag without it.      *)
(***************************************************************************)
Push(t, delay) ==
  /\ mutex = Free /\ Room /\ pc # "disposed"
  /\ mutex' = t
  /\ m_eventsWithContext' = Append(m_eventsWithContext, delay)
  /\ UNCHANGED <<queueVars, clockVars, m_stop, m_eventsWithContextEmpty,
                 userVars, pc, ret, runVars>>

\* Fault: the flag is not lowered.
SetFlagForgotten(t) ==
  /\ mutex = t
  /\ mutex' = Free
  /\ UNCHANGED <<queueVars, clockVars, m_stop, m_eventsWithContext,
                 m_eventsWithContextEmpty, userVars, pc, ret, runVars>>

SetFlag(t) ==
  /\ mutex = t
  /\ m_eventsWithContextEmpty' = FALSE
  /\ mutex' = Free
  /\ UNCHANGED <<queueVars, clockVars, m_stop, m_eventsWithContext,
                 userVars, pc, ret, runVars>>

Foreign(t) == (\E d \in Delays : Push(t, d)) \/ SetFlag(t)

(***************************************************************************)
(* ProcessEventsWithContext, at its three call sites; "ret" says which.    *)
(***************************************************************************)
CheckFlag ==
  /\ pc = "pewc"
  /\ pc' = IF m_eventsWithContextEmpty THEN ret ELSE "swap"
  /\ UNCHANGED <<queueVars, clockVars, m_stop, foreignVars, userVars, ret, runVars>>

\* Fault: the delay is taken for an absolute time.
ArrivedAbsolute ==
  {[ts |-> m_eventsWithContext[i], uid |-> m_uid + i - 1, stop |-> FALSE] :
     i \in DOMAIN m_eventsWithContext}

\* The swap is one critical section; what follows only touches the local list
\* and the queue, which no other thread sees.
Arrived ==
  {[ts |-> m_currentTs + m_eventsWithContext[i], uid |-> m_uid + i - 1,
    stop |-> FALSE] : i \in DOMAIN m_eventsWithContext}

Swap ==
  /\ pc = "swap" /\ mutex = Free
  /\ m_events' = m_events \cup Arrived
  /\ m_uid' = m_uid + Len(m_eventsWithContext)
  /\ m_unscheduledEvents' = m_unscheduledEvents + Len(m_eventsWithContext)
  /\ m_eventsWithContext' = <<>>
  /\ m_eventsWithContextEmpty' = TRUE
  /\ pc' = ret
  /\ UNCHANGED <<clockVars, m_stop, mutex, userVars, ret, runVars>>

(***************************************************************************)
(* Run.                                                                    *)
(***************************************************************************)
Goto(from, to) == pc = from /\ pc' = to

Run ==
  /\ Goto("setup", "pewc") /\ ret' = "enter"
  /\ UNCHANGED <<queueVars, clockVars, m_stop, foreignVars, userVars, runVars>>

\* m_stop is cleared before enterExecutingMode, which runs callbacks.
EnterExecutingMode ==
  /\ Goto("enter", "executing")
  /\ m_stop' = FALSE
  /\ UNCHANGED <<queueVars, clockVars, foreignVars, userVars, ret, runVars>>

BeginLoop ==
  /\ Goto("executing", "loop")
  /\ grantedTime' = 0
  /\ nextTime' = Next
  /\ UNCHANGED <<queueVars, clockVars, m_stop, foreignVars, userVars, ret, helicsTime>>

ProcessOneEvent ==
  /\ pc = "loop" /\ ~ m_stop /\ m_events # {} /\ nextTime <= grantedTime
  /\ \E e \in m_events :
       /\ IsFirst(e)
       /\ m_events' = m_events \ {e}
       /\ m_currentTs' = e.ts
       /\ m_currentUid' = e.uid
       /\ LET live == e.uid \notin cancelled
          IN  /\ m_stop' = (live /\ e.stop)
              /\ pc' = IF live /\ ~ e.stop THEN "invoke" ELSE "pewc"
  /\ m_unscheduledEvents' = m_unscheduledEvents - 1
  /\ ret' = "next"
  /\ UNCHANGED <<m_uid, foreignVars, userVars, runVars>>

EndHandler ==
  /\ Goto("invoke", "pewc")
  /\ UNCHANGED <<queueVars, clockVars, m_stop, foreignVars, userVars, ret, runVars>>

\* Fault: m_stop is cleared for every event.
RefreshNextTimeResetsStop ==
  /\ Goto("next", "loop")
  /\ nextTime' = Next
  /\ m_stop' = FALSE
  /\ UNCHANGED <<queueVars, clockVars, foreignVars, userVars, ret, grantedTime,
                 helicsTime>>

RefreshNextTime ==
  /\ Goto("next", "loop")
  /\ nextTime' = Next
  /\ UNCHANGED <<queueVars, clockVars, m_stop, foreignVars, userVars, ret,
                 grantedTime, helicsTime>>

\* Fault: a time HELICS has reached is not requested again, although a tick of the
\* grant was lost and the event is still to come.
RequestTimeOnce ==
  /\ pc = "loop" /\ ~ m_stop /\ (m_events = {} \/ nextTime > grantedTime)
  /\ pc' = IF Next > helicsTime THEN "request" ELSE "loop"
  /\ m_currentTs' = Unsigned(grantedTime)
  /\ UNCHANGED <<queueVars, m_currentUid, m_stop, foreignVars, userVars, ret, runVars>>

RequestTime ==
  /\ Goto("loop", "request")
  /\ ~ m_stop /\ (m_events = {} \/ nextTime > grantedTime)
  /\ m_currentTs' = Unsigned(grantedTime)
  /\ UNCHANGED <<queueVars, m_currentUid, m_stop, foreignVars, userVars, ret, runVars>>

\* HELICS has no time beyond the largest one either.
Requested == IF Next < Never THEN Next ELSE Never

\* HELICS grants the requested time or, for a message, an earlier one; a
\* request that is not in the future is granted one period (one tick) later.
Grantable ==
  IF Requested > helicsTime
  THEN {g \in Instants \cup {Requested} : helicsTime < g /\ g <= Requested}
  ELSE {IF helicsTime < Never THEN helicsTime + 1 ELSE helicsTime}

\* The callbacks run inside requestTime: helicsTime is the new time, the clock
\* of the simulator still the old one.
Grant ==
  /\ Goto("request", "callback")
  /\ helicsTime' \in Grantable
  /\ UNCHANGED <<queueVars, clockVars, m_stop, foreignVars, userVars, ret,
                 nextTime, grantedTime>>

\* Fault: nextTime is not read again although a callback may have scheduled.
ReturnFromRequestStale ==
  /\ Goto("callback", "loop")
  /\ grantedTime' = FromDouble(helicsTime)
  /\ UNCHANGED <<queueVars, clockVars, m_stop, foreignVars, userVars, ret, nextTime,
                 helicsTime>>

ReturnFromRequest ==
  /\ Goto("callback", "loop")
  /\ grantedTime' = FromDouble(helicsTime)
  /\ nextTime' = Next
  /\ UNCHANGED <<queueVars, clockVars, m_stop, foreignVars, userVars, ret, helicsTime>>

EndRun ==
  /\ Goto("loop", "ended") /\ m_stop
  /\ UNCHANGED <<queueVars, clockVars, m_stop, foreignVars, userVars, ret, runVars>>

(***************************************************************************)
(* Destroy and DoDispose.                                                  *)
(***************************************************************************)
CallDestroy ==
  /\ Goto("ended", "destroy")
  /\ UNCHANGED <<queueVars, clockVars, m_stop, foreignVars, userVars, ret, runVars>>

RunDestroyEvent ==
  /\ pc = "destroy"
  /\ \E id \in m_destroyEvents :
       /\ \A o \in m_destroyEvents : id.impl <= o.impl
       /\ m_destroyEvents' = m_destroyEvents \ {id}
       /\ pc' = IF id.impl \in cancelled THEN "destroy" ELSE "destroying"
  /\ UNCHANGED <<queueVars, clockVars, m_stop, foreignVars, cancelled, issued,
                 ret, runVars>>

EndDestroyEvent ==
  /\ Goto("destroying", "destroy")
  /\ UNCHANGED <<queueVars, clockVars, m_stop, foreignVars, userVars, ret, runVars>>

CallDispose ==
  /\ Goto("destroy", "pewc") /\ m_destroyEvents = {} /\ ret' = "dispose"
  /\ UNCHANGED <<queueVars, clockVars, m_stop, foreignVars, userVars, runVars>>

\* The queue is emptied without touching the counter.
DoDispose ==
  /\ Goto("dispose", "disposed")
  /\ m_events' = {}
  /\ UNCHANGED <<m_uid, m_unscheduledEvents, clockVars, m_stop, foreignVars,
                 userVars, ret, runVars>>

Terminating == pc = "disposed" /\ mutex = Free /\ UNCHANGED vars

(***************************************************************************)
(* Specification.  What user code does is up to it, but it returns; a      *)
(* thread that holds the mutex releases it; HELICS answers every request.  *)
(***************************************************************************)
ProcessEventsWithContext == CheckFlag \/ Swap

RunStep ==
  \/ ProcessEventsWithContext \/ EnterExecutingMode \/ BeginLoop
  \/ ProcessOneEvent \/ EndHandler \/ RefreshNextTime
  \/ RequestTime \/ Grant \/ ReturnFromRequest \/ EndRun

Destroy == CallDestroy \/ RunDestroyEvent \/ EndDestroyEvent \/ CallDispose \/ DoDispose

SimNext ==
  \/ User \/ Run \/ RunStep \/ Destroy
  \/ \E t \in Threads : Foreign(t)
  \/ Terminating

Spec == Init /\ [][SimNext]_vars

Fairness == WF_vars(RunStep) /\ \A t \in Threads : WF_vars(SetFlag(t))
FairSpec == Spec /\ Fairness

(***************************************************************************)
(* The promise this module keeps: its events that are neither run, removed *)
(* nor cancelled are the pending ones, the granted time is the horizon.    *)
(* With the largest time HELICS ends the co-simulation, and the promise:   *)
(* what is in the queue then is given up.                                  *)
(***************************************************************************)
Pending ==
  {[due |-> e.ts, id |-> e.uid] : e \in {o \in m_events : o.uid \notin cancelled}}

Promised == IF helicsTime < Never THEN Pending ELSE {}

Schedules == INSTANCE EventSchedule WITH
  pending <- Promised, now <- m_currentTs, horizon <- Unsigned(grantedTime),
  nextId <- m_uid

\* Run with its threads, callbacks and truncated grants implements the abstract
\* schedule: time is requested only when the clock has used up the last grant,
\* an event fires in its turn, and a cancelled one only lets the clock pass.
ImplementsEventSchedule == Schedules!Spec

(***************************************************************************)
(* Properties.                                                             *)
(***************************************************************************)
MainPc == {"setup", "pewc", "swap", "enter", "executing", "loop", "invoke", "next",
           "request", "callback", "ended", "destroy", "destroying", "dispose",
           "disposed"}

\* Every variable stays in its range.
TypeOK ==
  /\ m_events \subseteq Event /\ IsFiniteSet(m_events)
  /\ m_uid \in FirstUid .. MaxUid
  /\ m_currentTs \in Nat /\ m_currentUid \in Uid \cup {0}
  /\ m_unscheduledEvents \in Int
  /\ m_stop \in BOOLEAN /\ m_eventsWithContextEmpty \in BOOLEAN
  /\ m_eventsWithContext \in Seq(Delays)
  /\ mutex \in Threads \cup {Free}
  /\ m_destroyEvents \subseteq issued /\ issued \subseteq EventId
  /\ cancelled \subseteq Uid
  /\ pc \in MainPc /\ ret \in {"enter", "next", "dispose"}
  /\ nextTime \in Nat /\ grantedTime \in Nat \cup {Wrapped} /\ helicsTime \in 0 .. Never

\* The header's promise for m_unscheduledEvents ("events that have been inserted
\* but not yet scheduled", "used for validation"): whatever mix of Schedule,
\* Remove, Cancel, foreign arrivals and dispatches, the counter is the size of
\* the queue.  The assertion at the end of Run follows.
CountsPending ==
  pc # "disposed" => m_unscheduledEvents = Cardinality(m_events)

\* Run has set the clock to the largest time, as FromDouble returned it: every event
\* looks expired and none can be scheduled.
ClockWrapped == m_currentTs > Never

\* IsExpired decides from two numbers and a flag whether an event is still to
\* run: its answer is right for every EventId ever handed out, also after Run
\* has moved the clock to the granted time without touching m_currentUid, and
\* so Remove never acts on an event that is gone.
ExpiredIffGone ==
  pc # "disposed" /\ ~ ClockWrapped =>
    \A id \in issued :
      ~ IsExpired(id) <=>
        /\ id.impl \notin cancelled
        /\ \/ id.uid = DestroyUid /\ id \in m_destroyEvents
           \/ \E e \in m_events : e.uid = id.uid /\ e.ts = id.ts

\* Co-simulation safety: the clock of ns-3 is never ahead of what HELICS has
\* granted, in handlers and callbacks alike, unless that has wrapped.
NeverAheadOfHelics ==
  /\ grantedTime # Wrapped => m_currentTs <= grantedTime
  /\ grantedTime <= helicsTime

\* Run asks HELICS for time only when nothing in the queue is due: the jump of
\* m_currentTs to the granted time skips no event (the assertion of
\* ProcessOneEvent that the next event is not in the past), except for what was
\* scheduled in the course of the request that HELICS granted the largest time.
NothingSkipped ==
  /\ ~ ClockWrapped => \A e \in m_events : m_currentTs <= e.ts
  /\ pc = "request" => \A e \in m_events : grantedTime < e.ts

\* The pair (timestamp, uid) of the current event only ever increases: events
\* run in timestamp order and, for equal timestamps, in scheduling order,
\* whatever is scheduled, removed or handed over in between.
TimeNeverRunsBack ==
  [][Before(m_currentTs, m_currentUid, m_currentTs', m_currentUid')]_clockVars

\* ProcessEventsWithContext, which reads the flag without the mutex, leaves
\* nothing behind that was completely handed over: only a thread that is still
\* inside its critical section can have its event left for the next time.
ArrivalsMovedAfterEveryEvent ==
  [][(pc \in {"pewc", "swap"} /\ pc' = ret) =>
       (m_eventsWithContext' = <<>> \/ mutex # Free)]_pc

Running == pc \in {"executing", "loop", "invoke", "pewc", "swap", "next", "request",
                   "callback"} /\ ret # "dispose"
Ended == pc \in {"ended", "destroy", "destroying", "dispose", "disposed"} \/ ret = "dispose"

\* A Stop that is scheduled while Run is running ends it, however often HELICS
\* cuts its grants short and however their doubles are truncated, unless HELICS has
\* granted the largest time.
StopEndsRun ==
  (Running /\ helicsTime < Never /\ \E e \in m_events : e.stop) ~> Ended

\* No event waits for ever in a running simulation, with the same exception: what
\* the callbacks of that last request schedule is never run.
NothingStarves ==
  \A u \in Uid :
    (Running /\ helicsTime < Never /\ \E e \in m_events : e.uid = u) ~>
      (Ended \/ \A e \in m_events : e.uid # u)

\* Run's closing comment speaks of a simulator that "stopped naturally by lack
\* of events": it would not stay running with an empty queue for ever.
StopsForLackOfEvents == []<>~ (Running /\ m_events = {})

==============================================================================
