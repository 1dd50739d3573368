---------------------------- MODULE EventSchedule ----------------------------
(***************************************************************************)
(* What a simulator that takes part in a co-simulation promises, without   *)
(* threads, callbacks or bookkeeping: events are posted for a time that is *)
(* not past and fire in the order of (due time, posting), never after the  *)
(* horizon the other simulators agreed to; the horizon moves on only when  *)
(* the clock has reached it.                                               *)
(***************************************************************************)
EXTENDS Integers

VARIABLES
  pending,   \* set of events [due, id] that may still fire
  now,       \* the clock
  horizon,   \* the time up to which the clock may run
  nextId     \* ids below it have been given out

vars == <<pending, now, horizon, nextId>>

Earlier(e, o) == e.due < o.due \/ (e.due = o.due /\ e.id < o.id)

Init == pending = {} /\ now = 0 /\ horizon = 0 /\ nextId \in Nat

\* Any number of new events, none of them in the past.
Post ==
  /\ pending \subseteq pending'
  /\ nextId <= nextId'
  /\ \A e \in pending' \ pending : now <= e.due /\ nextId <= e.id /\ e.id < nextId'
  /\ UNCHANGED <<now, horizon>>

Withdraw ==
  /\ \E e \in pending : pending' = pending \ {e}
  /\ UNCHANGED <<now, horizon, nextId>>

Fire ==
  /\ \E e \in pending :
       /\ e.due <= horizon
       /\ \A o \in pending \ {e} : Earlier(e, o)
       /\ pending' = pending \ {e}
       /\ now' = e.due
  /\ UNCHANGED <<horizon, nextId>>

\* The clock moves on without an event, past none of them.
Wait ==
  /\ now <= now' /\ now' <= horizon
  /\ \A e \in pending : now' <= e.due
  /\ UNCHANGED <<pending, horizon, nextId>>

Grant ==
  /\ now = horizon /\ horizon <= horizon'
  /\ UNCHANGED <<pending, now, nextId>>

\* The end: what has not fired is given up.
Close == pending' = {} /\ UNCHANGED <<now, horizon, nextId>>

Next == Post \/ Withdraw \/ Fire \/ Wait \/ Grant \/ Close

Spec == Init /\ [][Next]_vars

==============================================================================
