--------------------------- MODULE HelicsApplication ---------------------------
(***************************************************************************)
(* The applications that carry HELICS messages over the simulated network: *)
(* model/helics-application.cc and its subclasses filter, static sink and  *)
(* static source.                                                          *)
(*                                                                         *)
(* A message that HELICS hands to an endpoint is stored at the destination *)
(* application under a fresh tag, a packet with that tag is sent at the    *)
(* HELICS time plus a jitter, and the packet's arrival hands the stored    *)
(* message to DoRead.  Callbacks run while the clock of ns-3 still shows   *)
(* the previous grant (see HelicsSimulatorImpl).                           *)
(***************************************************************************)
EXTENDS Integers, Sequences, FiniteSets

CONSTANTS
  Filters, Sinks, Sources, \* the applications, by class
  Destination,             \* m_destination of every sink
  Messages,                \* HELICS messages
  Jitters,                 \* the random send delay, less a tick its time may lose
  TagModulus,              \* 2^32: m_next_tag_id is a uint32_t
  Faults,                  \* the adversity of a run: a subset of FaultKinds
  Horizon                  \* bound: the simulated time ends here

App == Filters \cup Sinks \cup Sources

FaultKinds == {"loss", "duplicate", "stop", "misconfigured"}

ASSUME ClassesAssumption ==
  /\ Filters \cap Sinks = {} /\ Filters \cap Sources = {} /\ Sinks \cap Sources = {}
  /\ Destination \in [Sinks -> App]
ASSUME NumbersAssumption ==
  /\ Jitters \subseteq Nat /\ TagModulus \in Nat \ {0} /\ Horizon \in Nat
  /\ Faults \subseteq FaultKinds

VARIABLES
  now,            \* Simulator::Now
  helicsTime,     \* the time HELICS has granted
  pc,             \* "callback": in requestTime; "run": events; "fatal", "crashed"
  m_socket,       \* per application: "null" or "open"
  lifecycle,      \* the Start and StopApplication calls ns-3 has made
  m_next_tag_id,  \* per application: tag of the next message for it
  m_messages,     \* per application: map from tag to message
  sendEvents,     \* scheduled calls of Socket::SendTo
  network,        \* packets under way
  sent,           \* history: messages given to Send
  read,           \* history: what was given to DoRead, in order
  wrapped         \* history: applications whose m_next_tag_id came back to 0

clock   == <<now, helicsTime>>
sockets == <<m_socket, lifecycle>>
store   == <<m_next_tag_id, m_messages>>
history == <<sent, read, wrapped>>
vars == <<clock, pc, sockets, store, sendEvents, network, history>>

Tag == 0 .. (TagModulus - 1)

Init ==
  /\ now = 0 /\ helicsTime = 0 /\ pc = "callback"
  /\ m_socket = [a \in App |-> "null"] /\ lifecycle = {}
  /\ m_next_tag_id = [a \in App |-> 0]
  /\ m_messages = [a \in App |-> <<>>]
  /\ sendEvents = {} /\ network = {}
  /\ sent = {} /\ read = <<>> /\ wrapped = {}

(***************************************************************************)
(* Send.                                                                   *)
(***************************************************************************)
\* Fault: the tag is not incremented.
TagAfterSame(tag) == tag
\* Fault: the counter is wider than the tag.
TagAfterUnbounded(tag) == tag + 1

TagAfter(tag) == (tag + 1) % TagModulus

\* std::map::insert: an entry that is there stays.
Insert(map, tag, m) ==
  [t \in DOMAIN map \cup {tag} |-> IF t \in DOMAIN map THEN map[t] ELSE m]

\* Fault: the entry is not erased.
EraseNothing(map, tag) == map

Erase(map, tag) == [t \in DOMAIN map \ {tag} |-> map[t]]

\* Fault: the time of the HELICS message is ignored.
DelayJitterOnly(time, jitter) == jitter

\* The clock may lag behind the HELICS time.
Delay(time, jitter) == time - now + jitter

\* Fault: the message is stored at the sender.
SendStoresAtSender(a, d, time, m) ==
  /\ d \in App
  /\ LET tag == m_next_tag_id[d]
     IN  /\ m_next_tag_id' = [m_next_tag_id EXCEPT ![d] = TagAfter(tag)]
         /\ wrapped' = IF tag = TagModulus - 1 THEN wrapped \cup {d} ELSE wrapped
         /\ m_messages' = [m_messages EXCEPT ![a] = Insert(@, tag, m)]
         /\ \E j \in Jitters :
              /\ now + Delay(time, j) <= Horizon
              /\ sendEvents' = sendEvents \cup
                   {[at |-> now + Delay(time, j), from |-> a,
                     null |-> m_socket[a] = "null", to |-> d, tag |-> tag, data |-> m]}
  /\ sent' = sent \cup
       {[msg |-> m, to |-> d, time |-> time, open |-> m_socket[a] = "open"]}
  /\ UNCHANGED pc

\* The event holds the socket pointer of this moment.
Send(a, d, time, m) ==
  /\ d \in App
  /\ LET tag == m_next_tag_id[d]
     IN  /\ m_next_tag_id' = [m_next_tag_id EXCEPT ![d] = TagAfter(tag)]
         /\ wrapped' = IF tag = TagModulus - 1 THEN wrapped \cup {d} ELSE wrapped
         /\ m_messages' = [m_messages EXCEPT ![d] = Insert(@, tag, m)]
         /\ \E j \in Jitters :
              /\ now + Delay(time, j) <= Horizon
              /\ sendEvents' = sendEvents \cup
                   {[at |-> now + Delay(time, j), from |-> a,
                     null |-> m_socket[a] = "null", to |-> d, tag |-> tag, data |-> m]}
  /\ sent' = sent \cup
       {[msg |-> m, to |-> d, time |-> time, open |-> m_socket[a] = "open"]}
  /\ UNCHANGED pc

\* Names::Find does not know the destination: NS_FATAL_ERROR.
SendUnknown(d) ==
  /\ d \notin App
  /\ pc' = "fatal"
  /\ UNCHANGED <<store, sendEvents, sent, wrapped>>

(***************************************************************************)
(* The endpoint callback.  A filter forwards to the message's original     *)
(* destination, a sink to its configured one; a source aborts.             *)
(***************************************************************************)
OriginalDest == App \cup (IF "misconfigured" \in Faults THEN {"nobody"} ELSE {})

Forward(a, d, m) == Send(a, d, helicsTime, m) \/ SendUnknown(d)

FilterDoEndpoint(a, m) == a \in Filters /\ \E d \in OriginalDest : Forward(a, d, m)

SinkDoEndpoint(a, m) == a \in Sinks /\ Forward(a, Destination[a], m)

SourceDoEndpoint(a) ==
  /\ a \in Sources /\ "misconfigured" \in Faults
  /\ pc' = "fatal"
  /\ UNCHANGED <<store, sendEvents, sent, wrapped>>

DoEndpoint(a, m) == FilterDoEndpoint(a, m) \/ SinkDoEndpoint(a, m) \/ SourceDoEndpoint(a)

EndpointCallback(a, m) ==
  /\ pc = "callback" /\ \A s \in sent : s.msg # m
  /\ DoEndpoint(a, m)
  /\ UNCHANGED <<clock, sockets, network, read>>

(***************************************************************************)
(* Events of the simulator.                                                *)
(***************************************************************************)
\* The clock of an event that runs; HELICS has granted no more than the first
\* event there was, so what HelicsApplication does not schedule itself happens
\* at the granted time.
At(t) ==
  /\ pc = "run" /\ t <= helicsTime /\ \A e \in sendEvents : t <= e.at
  /\ now' = t

StartApplication(a) ==
  /\ At(helicsTime) /\ <<a, "start">> \notin lifecycle
  /\ m_socket' = [m_socket EXCEPT ![a] = "open"]
  /\ lifecycle' = lifecycle \cup {<<a, "start">>}
  /\ UNCHANGED <<helicsTime, pc, store, sendEvents, network, history>>

StopApplication(a) ==
  /\ At(helicsTime) /\ "stop" \in Faults /\ <<a, "stop">> \notin lifecycle
  /\ m_socket' = [m_socket EXCEPT ![a] = "null"]
  /\ lifecycle' = lifecycle \cup {<<a, "stop">>}
  /\ UNCHANGED <<helicsTime, pc, store, sendEvents, network, history>>

Packet(e) == [to |-> e.to, tag |-> e.tag, data |-> e.data]

\* Fault: the application's socket is looked up when the event runs.
SendToLate(e) ==
  /\ At(e.at)
  /\ sendEvents' = sendEvents \ {e}
  /\ pc' = IF m_socket[e.from] = "null" THEN "crashed" ELSE "run"
  /\ network' = IF m_socket[e.from] = "open" THEN network \cup {Packet(e)} ELSE network
  /\ UNCHANGED <<helicsTime, sockets, store, history>>

\* Calling SendTo on a null socket crashes; on a socket that was closed since
\* the call of Send, it fails and the packet is gone.
SendTo(e) ==
  /\ At(e.at)
  /\ sendEvents' = sendEvents \ {e}
  /\ pc' = IF e.null THEN "crashed" ELSE "run"
  /\ network' = IF ~ e.null /\ m_socket[e.from] = "open"
                THEN network \cup {Packet(e)} ELSE network
  /\ UNCHANGED <<helicsTime, sockets, store, history>>

(***************************************************************************)
(* Reception.  The network may lose, delay, reorder and repeat packets; a  *)
(* closed socket receives nothing.                                         *)
(***************************************************************************)
Lose(p) ==
  /\ At(helicsTime) /\ ("loss" \in Faults \/ m_socket[p.to] = "null")
  /\ network' = network \ {p}
  /\ UNCHANGED <<helicsTime, pc, sockets, store, sendEvents, history>>

Arrives(p, again) ==
  /\ At(helicsTime) /\ m_socket[p.to] = "open"
  /\ again => "duplicate" \in Faults
  /\ network' = IF again THEN network ELSE network \ {p}

\* "Reading packet but HelicsIdTag not found".
HandleReadUnknownTag(p) ==
  /\ Arrives(p, FALSE) /\ p.tag \notin DOMAIN m_messages[p.to]
  /\ UNCHANGED <<helicsTime, pc, sockets, store, sendEvents, history>>

\* m_endpoint.send, sendTo.
GiveToHelics(a, m, data) ==
  /\ read' = Append(read, [app |-> a, msg |-> m, data |-> data, at |-> helicsTime])
  /\ UNCHANGED pc

FilterDoRead(a, m, data) == a \in Filters /\ GiveToHelics(a, m, data)

SourceDoRead(a, m, data) == a \in Sources /\ GiveToHelics(a, m, data)

SinkDoRead(a) == a \in Sinks /\ pc' = "fatal" /\ UNCHANGED read

DoRead(a, m, data) == FilterDoRead(a, m, data) \/ SourceDoRead(a, m, data) \/ SinkDoRead(a)

HandleRead(p, again) ==
  /\ Arrives(p, again) /\ p.tag \in DOMAIN m_messages[p.to]
  /\ DoRead(p.to, m_messages[p.to][p.tag], p.data)
  /\ m_messages' = [m_messages EXCEPT ![p.to] = Erase(@, p.tag)]
  /\ UNCHANGED <<helicsTime, sockets, m_next_tag_id, sendEvents, sent, wrapped>>

(***************************************************************************)
(* Time, as HelicsSimulatorImpl lets it pass: HELICS grants no more than   *)
(* the next event; the clock follows when it is used up.                   *)
(***************************************************************************)
Grant ==
  /\ pc = "run" /\ \A e \in sendEvents : e.at > helicsTime
  /\ pc' = "callback"
  /\ now' = helicsTime
  /\ \E g \in (helicsTime + 1) .. Horizon :
       (\A e \in sendEvents : g <= e.at) /\ helicsTime' = g
  /\ UNCHANGED <<sockets, store, sendEvents, network, history>>

EndCallbacks ==
  /\ pc = "callback" /\ pc' = "run"
  /\ UNCHANGED <<clock, sockets, store, sendEvents, network, history>>

\* The program aborts, or the horizon is reached.
Finished == (pc \in {"fatal", "crashed"} \/ helicsTime = Horizon) /\ UNCHANGED vars

(***************************************************************************)
(* Specification.                                                          *)
(***************************************************************************)
Reception(p) ==
  \/ Lose(p) \/ HandleReadUnknownTag(p)
  \/ \E again \in BOOLEAN : HandleRead(p, again)

Next ==
  \/ \E a \in App, m \in Messages : EndpointCallback(a, m)
  \/ \E a \in App : StartApplication(a) \/ StopApplication(a)
  \/ \E e \in sendEvents : SendTo(e)
  \/ \E p \in network : Reception(p)
  \/ Grant \/ EndCallbacks \/ Finished

Spec == Init /\ [][Next]_vars

SendDue == \E e \in sendEvents : SendTo(e)
Fairness ==
  /\ WF_vars(Grant) /\ WF_vars(EndCallbacks) /\ WF_vars(SendDue)
  /\ \A a \in App, t \in Tag, m \in Messages :
       LET p == [to |-> a, tag |-> t, data |-> m]
       IN  WF_vars(p \in network /\ Reception(p))
FairSpec == Spec /\ Fairness

(***************************************************************************)
(* Properties.                                                             *)
(***************************************************************************)
SendEvent == [at : Nat, from : App, null : BOOLEAN, to : App, tag : Tag, data : Messages]

\* Every variable stays in its range.
TypeOK ==
  /\ now \in Nat /\ helicsTime \in Nat /\ now <= helicsTime
  /\ pc \in {"callback", "run", "fatal", "crashed"}
  /\ m_socket \in [App -> {"null", "open"}]
  /\ lifecycle \subseteq App \X {"start", "stop"}
  /\ m_next_tag_id \in [App -> Tag]
  /\ DOMAIN m_messages = App
  /\ \A a \in App : /\ DOMAIN m_messages[a] \subseteq Tag
                    /\ \A t \in DOMAIN m_messages[a] : m_messages[a][t] \in Messages
  /\ sendEvents \subseteq SendEvent
  /\ network \subseteq [to : App, tag : Tag, data : Messages]
  /\ sent \subseteq [msg : Messages, to : App, time : Nat, open : BOOLEAN]
  /\ read \in Seq([app : App, msg : Messages, data : Messages, at : Nat])
  /\ wrapped \subseteq App

\* HandleRead gives DoRead a message it finds by a 32-bit tag, not the packet's
\* own data: until m_next_tag_id wraps it is the message the packet was made
\* from, at the application it was sent to, whatever packets were lost, repeated
\* or overtaken before (a lost one leaves its entry behind for ever).
DeliversWhatWasSent ==
  \A i \in DOMAIN read :
    read[i].app \notin wrapped =>
      /\ read[i].msg = read[i].data
      /\ \E s \in sent : s.msg = read[i].msg /\ s.to = read[i].app

\* No message enters HELICS twice, even when its packet arrives twice and even
\* after the tags have wrapped.
AtMostOnce ==
  \A i, j \in DOMAIN read : i # j => read[i].msg # read[j].msg

\* A message is in its destination's map from Send until DoRead and never again:
\* it can be neither overtaken by the erasure of another one nor resurrected.
StoredUntilRead ==
  \A s \in sent :
    s.to \notin wrapped /\ pc # "fatal" =>
      ((\E t \in DOMAIN m_messages[s.to] : m_messages[s.to][t] = s.msg)
         <=> \A i \in DOMAIN read : read[i].msg # s.msg)

\* Causality of the co-simulation: although Send computes with the lagging
\* clock of ns-3, no packet is under way, or read, before the HELICS time of its
\* message plus the smallest jitter.
NeverLeavesEarly ==
  \A s \in sent : \E j \in Jitters :
    /\ \A p \in network : p.data = s.msg => s.time + j <= now
    /\ \A i \in DOMAIN read : read[i].data = s.msg => s.time + j <= read[i].at

\* A scheduled SendTo survives StopApplication, which closes and forgets the
\* socket: only a Send made before StartApplication or after StopApplication
\* leads to the call on a null socket.
CrashesOnlyUnopened ==
  pc = "crashed" => \E s \in sent : ~ s.open

\* With a network that loses nothing and applications that stay open, every
\* message sent from an open application to an open one is given back to HELICS.
EventuallyRead ==
  \A m \in Messages :
    (\/ \E e \in sendEvents : e.data = m /\ ~ e.null /\ m_socket[e.to] = "open"
     \/ \E p \in network : p.data = m /\ m_socket[p.to] = "open")
      ~> (pc \in {"fatal", "crashed"} \/ \E i \in DOMAIN read : read[i].msg = m)

================================================================================
