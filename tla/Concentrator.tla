----------------------------- MODULE Concentrator -----------------------------
(***************************************************************************)
(* What a concentrator promises, without timers, jitter or cancelled       *)
(* events: it collects what comes under a time stamp and releases it once, *)
(* all of it, and nothing is collected under that time stamp afterwards.   *)
(* What it has collected is lost only when it has stopped working.         *)
(***************************************************************************)
EXTENDS Sequences, Integers

CONSTANT Timestamps

VARIABLES
  collected,   \* per time stamp: what has come, in order
  closed,      \* the time stamps of which nothing is collected any more
  released,    \* what has been released, in order: [ts, content]
  working      \* FALSE when it has been stopped or has failed

vars == <<collected, closed, released, working>>

Init ==
  /\ collected = [ts \in Timestamps |-> <<>>]
  /\ closed = {} /\ released = <<>> /\ working = TRUE

\* One more of whatever is collected.
OneMore(ts) ==
  /\ Len(collected'[ts]) = Len(collected[ts]) + 1
  /\ collected' = [collected EXCEPT ![ts] = Append(@, collected'[ts][Len(@) + 1])]

Collect(ts) ==
  /\ working /\ ts \notin closed
  /\ OneMore(ts)
  /\ UNCHANGED <<closed, released, working>>

Release(ts) ==
  /\ ts \notin closed /\ collected[ts] # <<>>
  /\ released' = Append(released, [ts |-> ts, content |-> collected[ts]])
  /\ closed' = closed \cup {ts}
  /\ UNCHANGED <<collected, working>>

\* It breaks down over the last thing that has come, or has stopped already.
Lose(ts) ==
  /\ ts \notin closed /\ ~ working'
  /\ OneMore(ts) \/ UNCHANGED collected
  /\ closed' = closed \cup {ts}
  /\ UNCHANGED released

Stop == working /\ ~ working' /\ UNCHANGED <<collected, closed, released>>

Next ==
  \/ \E ts \in Timestamps : Collect(ts) \/ Release(ts) \/ Lose(ts)
  \/ Stop

Spec == Init /\ [][Next]_vars

===============================================================================
