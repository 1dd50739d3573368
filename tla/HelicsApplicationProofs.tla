----------------------- MODULE HelicsApplicationProofs -----------------------
(***************************************************************************)
(* Proofs about HelicsApplication, for every value of its constants: any   *)
(* applications, messages, jitters and combination of faults, and any      *)
(* width of the tag.                                                       *)
(***************************************************************************)
EXTENDS HelicsApplication, SequenceTheorems, TLAPS

(***************************************************************************)
(* The inductive invariant.                                                *)
(***************************************************************************)
Stored(a) == DOMAIN m_messages[a]

\* HELICS hands out a message once.
SentOnce == \A s, o \in sent : s.msg = o.msg => s = o

SentTo(m, a) == \E s \in sent : s.msg = m /\ s.to = a

Unread(m) == \A i \in DOMAIN read : read[i].msg # m

\* What is under way was sent.
UnderwayIsSent ==
  /\ \A e \in sendEvents : SentTo(e.data, e.to)
  /\ \A p \in network : SentTo(p.data, p.to)

\* What is stored was sent to this application and not yet read; until the
\* counter wraps, the tags in use are below it.
StoredIsUnread ==
  \A a \in App : \A t \in Stored(a) :
    /\ SentTo(m_messages[a][t], a) /\ Unread(m_messages[a][t])
    /\ a \notin wrapped => t < m_next_tag_id[a]

StoredOnce ==
  \A a, b \in App : \A t \in Stored(a), u \in Stored(b) :
    m_messages[a][t] = m_messages[b][u] => a = b /\ t = u

\* Until the counter of its destination wraps, the tag of a packet leads to the
\* packet's own message or to nothing.
TagMatches(p) ==
  p.to \notin wrapped =>
    /\ p.tag < m_next_tag_id[p.to]
    /\ p.tag \in Stored(p.to) => m_messages[p.to][p.tag] = p.data

TagsMatch ==
  /\ \A e \in sendEvents : TagMatches(e)
  /\ \A p \in network : TagMatches(p)

ReadIsSent ==
  \A i \in DOMAIN read :
    /\ SentTo(read[i].msg, read[i].app)
    /\ \E s \in sent : s.msg = read[i].data
    /\ read[i].app \notin wrapped => read[i].msg = read[i].data

NullIsUnopened ==
  /\ \A e \in sendEvents : e.null => \E s \in sent : ~ s.open
  /\ pc = "crashed" => \E s \in sent : ~ s.open

\* The clock is behind every event; each message has one jitter, which its
\* event, its packets and its reading agree on.
ClockBehindEvents == \A e \in sendEvents : now <= e.at

LeavesAt(s, t) ==
  /\ \A e \in sendEvents : e.data = s.msg => e.at = t
  /\ \A p \in network : p.data = s.msg => t <= now
  /\ \A i \in DOMAIN read : read[i].data = s.msg => t <= read[i].at

Departures == \A s \in sent : \E j \in Jitters : LeavesAt(s, s.time + j)

IInv ==
  /\ TypeOK
  /\ SentOnce /\ UnderwayIsSent /\ StoredIsUnread /\ StoredOnce /\ TagsMatch
  /\ ReadIsSent /\ AtMostOnce /\ StoredUntilRead
  /\ NullIsUnopened /\ ClockBehindEvents /\ Departures

(***************************************************************************)
(* Everything but Send and the reading of a message only moves time,       *)
(* packets and the life cycle.                                             *)
(***************************************************************************)
Moves ==
  /\ UNCHANGED <<m_next_tag_id, m_messages, sent, read, wrapped>>
  /\ sendEvents' \subseteq sendEvents
  /\ now <= now' /\ now' <= helicsTime' /\ helicsTime <= helicsTime'
  /\ now' \in Nat /\ helicsTime' \in Nat
  /\ \A e \in sendEvents' : now' <= e.at
  /\ \A p \in network' :
       p \in network \/ \E e \in sendEvents : p = Packet(e) /\ e.at <= now'
  /\ m_socket' \in [App -> {"null", "open"}]
  /\ lifecycle' \subseteq App \X {"start", "stop"}
  /\ pc' \in {"callback", "run", "fatal", "crashed"}
  /\ pc = "fatal" => pc' = "fatal"
  /\ pc' = "crashed" => pc = "crashed" \/ \E e \in sendEvents : e.null

LEMMA MoveStep ==
  ASSUME IInv, Moves
  PROVE  IInv'
<1>1. TypeOK
  BY DEF IInv
<1>2. /\ m_next_tag_id' = m_next_tag_id /\ m_messages' = m_messages
      /\ sent' = sent /\ read' = read /\ wrapped' = wrapped
  BY DEF Moves
<1>3. \A p \in network' :
        p \in network \/ \E e \in sendEvents : /\ e.at <= now' /\ p.to = e.to
                                               /\ p.tag = e.tag /\ p.data = e.data
  BY DEF Moves, Packet
<1>4. TypeOK'
  <2>1. \A e \in sendEvents : Packet(e) \in [to : App, tag : Tag, data : Messages]
    BY <1>1 DEF TypeOK, SendEvent, Packet
  <2>2. network' \subseteq [to : App, tag : Tag, data : Messages]
    BY <1>1, <2>1 DEF Moves, TypeOK
  <2>3. QED  BY <1>1, <1>2, <2>2 DEF Moves, TypeOK
<1>5. UnderwayIsSent' /\ TagsMatch'
  BY <1>2, <1>3 DEF IInv, Moves, UnderwayIsSent, SentTo, TagsMatch, TagMatches, Stored
<1>6. /\ SentOnce' /\ StoredIsUnread' /\ StoredOnce' /\ ReadIsSent' /\ AtMostOnce'
  BY <1>2 DEF IInv, SentOnce, StoredIsUnread, StoredOnce, ReadIsSent, AtMostOnce, SentTo,
     Unread, Stored
<1>7. StoredUntilRead'
  BY <1>2 DEF IInv, Moves, StoredUntilRead
<1>8. NullIsUnopened' /\ ClockBehindEvents'
  BY <1>2 DEF IInv, Moves, NullIsUnopened, ClockBehindEvents
<1>9. Departures'
  <2>1. ASSUME NEW s \in sent, NEW j \in Jitters, LeavesAt(s, s.time + j)
        PROVE  LeavesAt(s, s.time + j)'
    <3>1. s.time + j \in Nat /\ now \in Nat /\ now' \in Nat /\ now <= now'
      BY <1>1, NumbersAssumption DEF TypeOK, Moves
    <3>2. \A e \in sendEvents' : e.data = s.msg => e.at = s.time + j
      BY <2>1 DEF Moves, LeavesAt
    <3>3. \A p \in network' : p.data = s.msg => s.time + j <= now'
      BY <2>1, <1>3, <3>1 DEF LeavesAt
    <3>4. QED  BY <2>1, <1>2, <3>2, <3>3 DEF LeavesAt
  <2>2. QED  BY <2>1, <1>2 DEF IInv, Departures
<1>10. QED  BY <1>4, <1>5, <1>6, <1>7, <1>8, <1>9 DEF IInv

(***************************************************************************)
(* Send.                                                                   *)
(***************************************************************************)
LEMMA InsertEffect ==
  ASSUME NEW map, NEW tag, NEW m
  PROVE  /\ DOMAIN Insert(map, tag, m) = DOMAIN map \cup {tag}
         /\ \A t \in DOMAIN map : Insert(map, tag, m)[t] = map[t]
         /\ tag \notin DOMAIN map => Insert(map, tag, m)[tag] = m
BY DEF Insert

LEMMA SendStep ==
  ASSUME IInv, NEW a \in App, NEW d \in App, NEW m \in Messages,
         \A s \in sent : s.msg # m,
         Send(a, d, helicsTime, m),
         UNCHANGED <<clock, sockets, network, read>>, pc = "callback"
  PROVE  IInv'
<1> DEFINE tag == m_next_tag_id[d]
           new == [msg |-> m, to |-> d, time |-> helicsTime, open |-> m_socket[a] = "open"]
           event(j) == [at |-> helicsTime + j, from |-> a, null |-> m_socket[a] = "null",
                        to |-> d, tag |-> tag, data |-> m]
<1>1. /\ TypeOK /\ now \in Nat /\ helicsTime \in Nat /\ now <= helicsTime
      /\ m_next_tag_id \in [App -> Tag] /\ DOMAIN m_messages = App
      /\ tag \in Tag /\ TagModulus \in Nat \ {0}
      /\ m_socket \in [App -> {"null", "open"}]
  BY NumbersAssumption DEF IInv, TypeOK
<1>2. PICK j \in Jitters : sendEvents' = sendEvents \cup {event(j)}
  <2>1. \A j \in Jitters : now + Delay(helicsTime, j) = helicsTime + j
    BY <1>1, NumbersAssumption DEF Delay
  <2>2. QED  BY <2>1 DEF Send
<1>3. j \in Nat
  BY NumbersAssumption
<1>4. /\ m_next_tag_id' = [m_next_tag_id EXCEPT ![d] = TagAfter(tag)]
      /\ wrapped' = IF tag = TagModulus - 1 THEN wrapped \cup {d} ELSE wrapped
      /\ m_messages' = [m_messages EXCEPT ![d] = Insert(@, tag, m)]
      /\ sent' = sent \cup {new}
      /\ now' = now /\ helicsTime' = helicsTime /\ pc' = pc
      /\ m_socket' = m_socket /\ lifecycle' = lifecycle
      /\ network' = network /\ read' = read
  BY DEF Send, clock, sockets
<1>5. /\ TagAfter(tag) \in Tag
      /\ d \notin wrapped' => TagAfter(tag) = tag + 1 /\ d \notin wrapped
      /\ \A b \in App : b \notin wrapped' => b \notin wrapped
  BY <1>1, <1>4 DEF TagAfter, Tag
<1>6. /\ m_next_tag_id' \in [App -> Tag] /\ m_next_tag_id'[d] = TagAfter(tag)
      /\ \A b \in App \ {d} : m_next_tag_id'[b] = m_next_tag_id[b]
  BY <1>1, <1>4, <1>5
<1>7. /\ DOMAIN m_messages' = App /\ m_messages'[d] = Insert(m_messages[d], tag, m)
      /\ \A b \in App \ {d} : m_messages'[b] = m_messages[b]
  BY <1>1, <1>4
\* The map of d: what was there, and m under its tag unless the tag is in use.
<1>8. /\ Stored(d)' = Stored(d) \cup {tag}
      /\ \A t \in Stored(d) : m_messages'[d][t] = m_messages[d][t]
      /\ tag \notin Stored(d) => m_messages'[d][tag] = m
      /\ \A b \in App \ {d} : Stored(b)' = Stored(b)
  <2>1. /\ DOMAIN Insert(m_messages[d], tag, m) = DOMAIN m_messages[d] \cup {tag}
        /\ \A t \in DOMAIN m_messages[d] :
             Insert(m_messages[d], tag, m)[t] = m_messages[d][t]
        /\ tag \notin DOMAIN m_messages[d] => Insert(m_messages[d], tag, m)[tag] = m
    BY InsertEffect
  <2>2. QED  BY <2>1, <1>7 DEF Stored
<1>9. d \notin wrapped => tag \notin Stored(d)
  <2>1. \A t \in Stored(d) : d \notin wrapped => t < tag
    BY DEF IInv, StoredIsUnread
  <2>2. QED  BY <2>1, <1>1 DEF Tag
\* Every entry is an old one or the new message, which is only there once.
<1>10. \A b \in App : \A t \in Stored(b)' :
         \/ t \in Stored(b) /\ m_messages'[b][t] = m_messages[b][t]
         \/ b = d /\ t = tag /\ t \notin Stored(b) /\ m_messages'[b][t] = m
  BY <1>7, <1>8
<1>11. \A b \in App : \A t \in Stored(b) :
         t \in Stored(b)' /\ m_messages'[b][t] = m_messages[b][t]
  BY <1>7, <1>8
<1>12. new \in sent' /\ sent \subseteq sent' /\ SentTo(m, d)'
  <2>1. new \in sent' /\ sent \subseteq sent'
    BY <1>4
  <2>2. new.msg = m /\ new.to = d
    OBVIOUS
  <2>3. \E s \in sent' : s.msg = m /\ s.to = d
    BY <2>1, <2>2
  <2>4. QED  BY <2>1, <2>3 DEF SentTo
<1>13. \A x, b : SentTo(x, b) => SentTo(x, b)' /\ x # m
  BY <1>12 DEF SentTo
<1>14. Unread(m)
  BY <1>13 DEF IInv, ReadIsSent, Unread
<1>15. TypeOK'
  <2>1. event(j) \in SendEvent
    BY <1>1, <1>3 DEF SendEvent
  <2>2. new \in [msg : Messages, to : App, time : Nat, open : BOOLEAN]
    BY <1>1
  <2>3. sendEvents' \subseteq SendEvent
    BY <2>1, <1>1, <1>2 DEF TypeOK
  <2>4. sent' \subseteq [msg : Messages, to : App, time : Nat, open : BOOLEAN]
    BY <2>2, <1>1, <1>4 DEF TypeOK
  <2>5. \A b \in App : /\ DOMAIN m_messages'[b] \subseteq Tag
                       /\ \A t \in DOMAIN m_messages'[b] : m_messages'[b][t] \in Messages
    <3>1. \A b \in App : Stored(b) \subseteq Tag
      BY <1>1 DEF TypeOK, Stored
    <3>2. \A b \in App : \A t \in Stored(b) : m_messages[b][t] \in Messages
      BY <1>1 DEF TypeOK, Stored
    <3>3. \A b \in App : \A t \in Stored(b)' : t \in Tag /\ m_messages'[b][t] \in Messages
      BY <3>1, <3>2, <1>1, <1>10
    <3>4. QED  BY <3>3 DEF Stored
  <2>6. wrapped' \subseteq App
    BY <1>1, <1>4 DEF TypeOK
  <2>7. QED  BY <2>3, <2>4, <2>5, <2>6, <1>1, <1>4, <1>6, <1>7 DEF TypeOK
<1>16. SentOnce'
  BY <1>4 DEF IInv, SentOnce
<1>17. UnderwayIsSent'
  <2>1. SentTo(event(j).data, event(j).to)'
    BY <1>12
  <2>2. QED  BY <2>1, <1>2, <1>4, <1>13 DEF IInv, UnderwayIsSent
<1>18. StoredIsUnread'
  <2>1. ASSUME NEW b \in App, NEW t \in Stored(b)'
        PROVE  /\ SentTo(m_messages[b][t], b)' /\ Unread(m_messages[b][t])'
               /\ b \notin wrapped' => t < m_next_tag_id'[b]
    <3>1. CASE t \in Stored(b) /\ m_messages'[b][t] = m_messages[b][t]
      <4>1. /\ SentTo(m_messages[b][t], b) /\ Unread(m_messages[b][t])
            /\ b \notin wrapped => t < m_next_tag_id[b]
        BY <3>1 DEF IInv, StoredIsUnread
      <4>2. SentTo(m_messages[b][t], b)'
        BY <4>1, <3>1, <1>13 DEF SentTo
      <4>3. Unread(m_messages[b][t])'
        BY <4>1, <3>1, <1>4 DEF Unread
      <4>4. t \in Tag
        BY <3>1, <1>1 DEF TypeOK, Stored
      <4>5. b \notin wrapped' => t < m_next_tag_id'[b]
        BY <4>1, <4>4, <1>1, <1>5, <1>6 DEF Tag
      <4>6. QED  BY <4>2, <4>3, <4>5
    <3>2. CASE b = d /\ t = tag /\ m_messages'[b][t] = m
      <4>1. SentTo(m_messages[b][t], b)'
        BY <3>2, <1>12 DEF SentTo
      <4>2. Unread(m_messages[b][t])'
        BY <3>2, <1>4, <1>14 DEF Unread
      <4>3. b \notin wrapped' => t < m_next_tag_id'[b]
        BY <3>2, <1>1, <1>5, <1>6 DEF Tag
      <4>4. QED  BY <4>1, <4>2, <4>3
    <3>3. QED  BY <3>1, <3>2, <1>10
  <2>2. QED  BY <2>1 DEF StoredIsUnread
<1>19. StoredOnce'
  <2>1. \A b \in App : \A t \in Stored(b) : m_messages[b][t] # m
    BY <1>13 DEF IInv, StoredIsUnread
  <2>2. ASSUME NEW b \in App, NEW c \in App, NEW t \in Stored(b)', NEW u \in Stored(c)',
               m_messages'[b][t] = m_messages'[c][u]
        PROVE  b = c /\ t = u
    <3>1. CASE t \in Stored(b) /\ u \in Stored(c)
      BY <3>1, <2>2, <1>11 DEF IInv, StoredOnce
    <3>2. CASE t \notin Stored(b) \/ u \notin Stored(c)
      BY <3>2, <2>1, <2>2, <1>10
    <3>3. QED  BY <3>1, <3>2
  <2>3. QED  BY <2>2 DEF StoredOnce
<1>20. TagsMatch'
  <2>1. ASSUME NEW p, p.to \in App, p.tag \in Tag, TagMatches(p), SentTo(p.data, p.to)
        PROVE  p.to \notin wrapped' =>
                 /\ p.tag < m_next_tag_id'[p.to]
                 /\ p.tag \in Stored(p.to)' => m_messages'[p.to][p.tag] = p.data
    <3>1. SUFFICES ASSUME p.to \notin wrapped'
                   PROVE  /\ p.tag < m_next_tag_id'[p.to]
                          /\ p.tag \in Stored(p.to)' => m_messages'[p.to][p.tag] = p.data
      OBVIOUS
    <3>2. /\ p.to \notin wrapped /\ p.tag < m_next_tag_id[p.to]
          /\ p.tag \in Stored(p.to) => m_messages[p.to][p.tag] = p.data
      BY <2>1, <3>1, <1>5 DEF TagMatches
    <3>3. p.tag < m_next_tag_id'[p.to]
      BY <2>1, <3>1, <3>2, <1>1, <1>5, <1>6 DEF Tag
    <3>4. ASSUME p.tag \in Stored(p.to)' PROVE m_messages'[p.to][p.tag] = p.data
      <4>1. ~ (p.to = d /\ p.tag = tag)
        BY <2>1, <3>2, <1>1 DEF Tag
      <4>2. QED  BY <4>1, <3>2, <3>4, <2>1, <1>10
    <3>5. QED  BY <3>3, <3>4
  <2>2. ASSUME d \notin wrapped'
        PROVE  /\ tag < m_next_tag_id'[d]
               /\ tag \in Stored(d)' => m_messages'[d][tag] = m
    BY <2>2, <1>1, <1>5, <1>6, <1>8, <1>9 DEF Tag
  <2>3. \A e \in sendEvents' :
          e.to \notin wrapped' =>
            /\ e.tag < m_next_tag_id'[e.to]
            /\ e.tag \in Stored(e.to)' => m_messages'[e.to][e.tag] = e.data
    <3>1. \A e \in sendEvents : /\ e.to \in App /\ e.tag \in Tag
                                /\ TagMatches(e) /\ SentTo(e.data, e.to)
      BY <1>1 DEF IInv, TypeOK, SendEvent, TagsMatch, UnderwayIsSent
    <3>2. event(j).to = d /\ event(j).tag = tag /\ event(j).data = m
      OBVIOUS
    <3>3. QED  BY <3>1, <3>2, <2>1, <2>2, <1>2
  <2>4. \A p \in network' :
          p.to \notin wrapped' =>
            /\ p.tag < m_next_tag_id'[p.to]
            /\ p.tag \in Stored(p.to)' => m_messages'[p.to][p.tag] = p.data
    <3>1. \A p \in network : /\ p.to \in App /\ p.tag \in Tag
                             /\ TagMatches(p) /\ SentTo(p.data, p.to)
      BY <1>1 DEF IInv, TypeOK, TagsMatch, UnderwayIsSent
    <3>2. QED  BY <3>1, <2>1, <1>4
  <2>5. QED  BY <2>3, <2>4 DEF TagsMatch, TagMatches, Stored
<1>21. ReadIsSent' /\ AtMostOnce'
  <2>1. ASSUME NEW i \in DOMAIN read
        PROVE  /\ SentTo(read[i].msg, read[i].app)'
               /\ \E s \in sent' : s.msg = read[i].data
               /\ read[i].app \notin wrapped' => read[i].msg = read[i].data
    <3>1. /\ SentTo(read[i].msg, read[i].app)
          /\ \E s \in sent : s.msg = read[i].data
          /\ read[i].app \notin wrapped => read[i].msg = read[i].data
      BY DEF IInv, ReadIsSent
    <3>2. SentTo(read[i].msg, read[i].app)'
      BY <3>1, <1>4 DEF SentTo
    <3>3. read[i].app \notin wrapped' => read[i].app \notin wrapped
      BY <1>4
    <3>4. QED  BY <3>1, <3>2, <3>3, <1>12
  <2>2. QED  BY <2>1, <1>4 DEF IInv, ReadIsSent, AtMostOnce, SentTo
<1>22. StoredUntilRead'
  <2>1. ASSUME NEW s \in sent', s.to \notin wrapped'
        PROVE  (\E t \in Stored(s.to)' : m_messages'[s.to][t] = s.msg)
                 <=> \A i \in DOMAIN read : read[i].msg # s.msg
    <3>1. CASE s = new
      <4>1. tag \in Stored(d)' /\ m_messages'[d][tag] = m
        BY <3>1, <2>1, <1>5, <1>8, <1>9
      <4>2. QED  BY <3>1, <4>1, <1>14 DEF Unread
    <3>2. CASE s \in sent
      <4>1. s.to \in App /\ s.to \notin wrapped /\ s.msg # m /\ pc # "fatal"
        BY <3>2, <2>1, <1>1, <1>5 DEF TypeOK
      <4>2. (\E t \in Stored(s.to) : m_messages[s.to][t] = s.msg)
              <=> \A i \in DOMAIN read : read[i].msg # s.msg
        BY <3>2, <4>1 DEF IInv, StoredUntilRead, Stored
      <4>3. (\E t \in Stored(s.to)' : m_messages'[s.to][t] = s.msg)
              <=> \E t \in Stored(s.to) : m_messages[s.to][t] = s.msg
        BY <4>1, <1>10, <1>11
      <4>4. QED  BY <4>2, <4>3
    <3>3. QED  BY <3>1, <3>2, <1>4
  <2>2. QED  BY <2>1, <1>4 DEF StoredUntilRead, Stored
<1>23. NullIsUnopened'
  <2>1. event(j).null => ~ new.open
    BY <1>1
  <2>2. \A e \in sendEvents' : e.null => \E s \in sent' : ~ s.open
    BY <2>1, <1>2, <1>12 DEF IInv, NullIsUnopened
  <2>3. QED  BY <2>2, <1>4, <1>12 DEF IInv, NullIsUnopened
<1>24. ClockBehindEvents'
  <2>1. now <= event(j).at
    BY <1>1, <1>3
  <2>2. QED  BY <2>1, <1>2, <1>4 DEF IInv, ClockBehindEvents
<1>25. Departures'
  <2>1. ASSUME NEW s \in sent, NEW k \in Jitters, LeavesAt(s, s.time + k)
        PROVE  LeavesAt(s, s.time + k)'
    <3>1. s.msg # event(j).data
      OBVIOUS
    <3>2. QED  BY <3>1, <2>1, <1>2, <1>4 DEF LeavesAt
  <2>2. LeavesAt(new, new.time + j)'
    <3>1. \A e \in sendEvents : e.data # m
      BY <1>13 DEF IInv, UnderwayIsSent
    <3>2. \A p \in network : p.data # m
      BY <1>13 DEF IInv, UnderwayIsSent
    <3>3. \A i \in DOMAIN read : read[i].data # m
      BY DEF IInv, ReadIsSent
    <3>4. event(j).at = new.time + j
      OBVIOUS
    <3>5. QED  BY <3>1, <3>2, <3>3, <3>4, <1>2, <1>4 DEF LeavesAt
  <2>3. QED  BY <2>1, <2>2, <1>4 DEF IInv, Departures
<1>26. QED
  BY <1>15, <1>16, <1>17, <1>18, <1>19, <1>20, <1>21, <1>22, <1>23, <1>24, <1>25 DEF IInv

(***************************************************************************)
(* The reading of a message.                                               *)
(***************************************************************************)
LEMMA EraseEffect ==
  ASSUME NEW map, NEW tag
  PROVE  /\ DOMAIN Erase(map, tag) = DOMAIN map \ {tag}
         /\ \A t \in DOMAIN map \ {tag} : Erase(map, tag)[t] = map[t]
BY DEF Erase

LEMMA ReadStep ==
  ASSUME IInv, NEW p \in network, NEW again \in BOOLEAN, HandleRead(p, again)
  PROVE  IInv'
<1> DEFINE a == p.to
           x == m_messages[a][p.tag]
           r == [app |-> a, msg |-> x, data |-> p.data, at |-> helicsTime]
<1>1. /\ TypeOK /\ now \in Nat /\ helicsTime \in Nat /\ now <= helicsTime
      /\ a \in App /\ p.tag \in Tag /\ p.data \in Messages
      /\ DOMAIN m_messages = App
      /\ read \in Seq([app : App, msg : Messages, data : Messages, at : Nat])
  BY DEF IInv, TypeOK
<1>2. /\ now' = helicsTime /\ helicsTime' = helicsTime
      /\ m_socket' = m_socket /\ lifecycle' = lifecycle
      /\ m_next_tag_id' = m_next_tag_id /\ sendEvents' = sendEvents
      /\ sent' = sent /\ wrapped' = wrapped
      /\ network' \subseteq network
      /\ m_messages' = [m_messages EXCEPT ![a] = Erase(@, p.tag)]
      /\ \A e \in sendEvents : helicsTime <= e.at
      /\ p.tag \in Stored(a)
  BY DEF HandleRead, Arrives, At, sockets, Stored
<1>3. \/ read' = Append(read, r) /\ pc' = pc
      \/ read' = read /\ pc' = "fatal"
  BY DEF HandleRead, DoRead, FilterDoRead, SourceDoRead, SinkDoRead, GiveToHelics
<1>4. /\ x \in Messages /\ SentTo(x, a) /\ Unread(x)
      /\ SentTo(p.data, a)
      /\ a \notin wrapped => x = p.data
  <2>1. x \in Messages
    BY <1>1, <1>2 DEF TypeOK, Stored
  <2>2. SentTo(x, a) /\ Unread(x)
    BY <1>1, <1>2 DEF IInv, StoredIsUnread
  <2>3. SentTo(p.data, a)
    BY DEF IInv, UnderwayIsSent
  <2>4. a \notin wrapped => x = p.data
    BY <1>2 DEF IInv, TagsMatch, TagMatches
  <2>5. QED  BY <2>1, <2>2, <2>3, <2>4
<1>5. /\ DOMAIN m_messages' = App
      /\ Stored(a)' = Stored(a) \ {p.tag}
      /\ \A t \in Stored(a)' : m_messages'[a][t] = m_messages[a][t]
      /\ \A b \in App \ {a} : m_messages'[b] = m_messages[b] /\ Stored(b)' = Stored(b)
  <2>1. /\ DOMAIN Erase(m_messages[a], p.tag) = DOMAIN m_messages[a] \ {p.tag}
        /\ \A t \in DOMAIN m_messages[a] \ {p.tag} :
             Erase(m_messages[a], p.tag)[t] = m_messages[a][t]
    BY EraseEffect
  <2>2. /\ DOMAIN m_messages' = App
        /\ m_messages'[a] = Erase(m_messages[a], p.tag)
        /\ \A b \in App \ {a} : m_messages'[b] = m_messages[b]
    BY <1>1, <1>2
  <2>3. QED  BY <2>1, <2>2 DEF Stored
\* What is left is what was there, except for x.
<1>6. \A b \in App : \A t \in Stored(b)' :
        t \in Stored(b) /\ m_messages'[b][t] = m_messages[b][t] /\ m_messages[b][t] # x
  <2>1. \A b \in App : \A t \in Stored(b)' :
          t \in Stored(b) /\ m_messages'[b][t] = m_messages[b][t] /\ ~ (b = a /\ t = p.tag)
    BY <1>5
  <2>2. \A b \in App : \A t \in Stored(b) : m_messages[b][t] = x => b = a /\ t = p.tag
    BY <1>1, <1>2 DEF IInv, StoredOnce
  <2>3. QED  BY <2>1, <2>2
<1>7. \A b \in App : \A t \in Stored(b) :
        m_messages[b][t] # x => t \in Stored(b)' /\ m_messages'[b][t] = m_messages[b][t]
  BY <1>5
\* What has been read is what had been read and, unless a sink aborts, x.
<1>8. /\ \A i \in DOMAIN read : i \in DOMAIN read' /\ read'[i] = read[i]
      /\ \A i \in DOMAIN read' :
           \/ i \in DOMAIN read /\ read'[i] = read[i]
           \/ i \notin DOMAIN read /\ i = Len(read) + 1 /\ read'[i] = r
      /\ pc' # "fatal" => \E i \in DOMAIN read' : read'[i].msg = x
  <2>1. CASE read' = read /\ pc' = "fatal"
    BY <2>1
  <2>2. CASE read' = Append(read, r)
    <3>1. /\ DOMAIN read = 1 .. Len(read) /\ Len(read) \in Nat
          /\ Len(read') = Len(read) + 1 /\ DOMAIN read' = 1 .. (Len(read) + 1)
          /\ read'[Len(read) + 1] = r
          /\ \A i \in 1 .. Len(read) : read'[i] = read[i]
      BY <2>2, <1>1
    <3>2. r.msg = x
      OBVIOUS
    <3>3. Len(read) + 1 \in DOMAIN read' /\ read'[Len(read) + 1].msg = x
      BY <3>1, <3>2
    <3>4. \A i \in DOMAIN read : i \in DOMAIN read' /\ read'[i] = read[i]
      BY <3>1
    <3>5. \A i \in DOMAIN read' :
            \/ i \in DOMAIN read /\ read'[i] = read[i]
            \/ i \notin DOMAIN read /\ i = Len(read) + 1 /\ read'[i] = r
      BY <3>1
    <3>6. QED  BY <3>3, <3>4, <3>5
  <2>3. QED  BY <2>1, <2>2, <1>3
<1>9. TypeOK'
  <2>1. r \in [app : App, msg : Messages, data : Messages, at : Nat]
    BY <1>1, <1>4
  <2>2. read' \in Seq([app : App, msg : Messages, data : Messages, at : Nat])
    <3> DEFINE Readings == [app : App, msg : Messages, data : Messages, at : Nat]
    <3>1. r \in Readings /\ read \in Seq(Readings)
      BY <2>1, <1>1
    <3> HIDE DEF Readings, r
    <3>2. Append(read, r) \in Seq(Readings)
      BY <3>1
    <3>3. read' \in Seq(Readings)
      BY <3>1, <3>2, <1>3
    <3>4. QED  BY <3>3 DEF Readings
  <2>3. \A b \in App : /\ DOMAIN m_messages'[b] \subseteq Tag
                       /\ \A t \in DOMAIN m_messages'[b] : m_messages'[b][t] \in Messages
    <3>1. \A b \in App : \A t \in Stored(b) : t \in Tag /\ m_messages[b][t] \in Messages
      BY <1>1 DEF TypeOK, Stored
    <3>2. \A b \in App : \A t \in Stored(b)' : t \in Tag /\ m_messages'[b][t] \in Messages
      BY <3>1, <1>6
    <3>3. QED  BY <3>2 DEF Stored
  <2>4. pc' \in {"callback", "run", "fatal", "crashed"}
    BY <1>1, <1>3 DEF TypeOK
  <2>5. network' \subseteq [to : App, tag : Tag, data : Messages]
    BY <1>1, <1>2 DEF TypeOK
  <2>6. QED  BY <2>2, <2>3, <2>4, <2>5, <1>1, <1>2, <1>5 DEF TypeOK
<1>10. SentOnce' /\ UnderwayIsSent'
  BY <1>2 DEF IInv, SentOnce, UnderwayIsSent, SentTo
<1>11. StoredIsUnread'
  <2>1. ASSUME NEW b \in App, NEW t \in Stored(b)'
        PROVE  /\ SentTo(m_messages[b][t], b)' /\ Unread(m_messages[b][t])'
               /\ b \notin wrapped' => t < m_next_tag_id'[b]
    <3>1. t \in Stored(b) /\ m_messages'[b][t] = m_messages[b][t] /\ m_messages[b][t] # x
      BY <1>6
    <3>2. /\ SentTo(m_messages[b][t], b) /\ Unread(m_messages[b][t])
          /\ b \notin wrapped => t < m_next_tag_id[b]
      BY <3>1 DEF IInv, StoredIsUnread
    <3>3. SentTo(m_messages[b][t], b)'
      BY <3>1, <3>2, <1>2 DEF SentTo
    <3>4. \A i \in DOMAIN read' : read'[i].msg # m_messages'[b][t]
      BY <3>1, <3>2, <1>8 DEF Unread
    <3>5. QED  BY <3>2, <3>3, <3>4, <1>2 DEF Unread
  <2>2. QED  BY <2>1 DEF StoredIsUnread
<1>12. StoredOnce'
  <2>1. ASSUME NEW b \in App, NEW c \in App, NEW t \in Stored(b)', NEW u \in Stored(c)',
               m_messages'[b][t] = m_messages'[c][u]
        PROVE  b = c /\ t = u
    BY <2>1, <1>6 DEF IInv, StoredOnce
  <2>2. QED  BY <2>1 DEF StoredOnce
<1>13. TagsMatch'
  <2>1. ASSUME NEW q, q.to \in App, TagMatches(q)
        PROVE  q.to \notin wrapped' =>
                 /\ q.tag < m_next_tag_id'[q.to]
                 /\ q.tag \in Stored(q.to)' => m_messages'[q.to][q.tag] = q.data
    BY <2>1, <1>2, <1>6 DEF TagMatches
  <2>2. \A e \in sendEvents : e.to \in App /\ TagMatches(e)
    BY <1>1 DEF IInv, TypeOK, SendEvent, TagsMatch
  <2>3. \A q \in network : q.to \in App /\ TagMatches(q)
    BY <1>1 DEF IInv, TypeOK, TagsMatch
  <2>4. \A e \in sendEvents' :
          e.to \notin wrapped' =>
            /\ e.tag < m_next_tag_id'[e.to]
            /\ e.tag \in Stored(e.to)' => m_messages'[e.to][e.tag] = e.data
    BY <2>1, <2>2, <1>2
  <2>5. \A q \in network' :
          q.to \notin wrapped' =>
            /\ q.tag < m_next_tag_id'[q.to]
            /\ q.tag \in Stored(q.to)' => m_messages'[q.to][q.tag] = q.data
    BY <2>1, <2>3, <1>2
  <2>6. QED  BY <2>4, <2>5 DEF TagsMatch, TagMatches, Stored
<1>14. ReadIsSent' /\ AtMostOnce'
  <2>1. /\ r.app = a /\ r.msg = x /\ r.data = p.data
    OBVIOUS
  <2>2. ASSUME NEW i \in DOMAIN read'
        PROVE  /\ \E s \in sent : s.msg = read'[i].msg /\ s.to = read'[i].app
               /\ \E s \in sent : s.msg = read'[i].data
               /\ read'[i].app \notin wrapped => read'[i].msg = read'[i].data
    <3>1. CASE i \in DOMAIN read /\ read'[i] = read[i]
      BY <3>1 DEF IInv, ReadIsSent, SentTo
    <3>2. CASE read'[i] = r
      BY <3>2, <2>1, <1>4 DEF SentTo
    <3>3. QED  BY <3>1, <3>2, <1>8
  <2>3. ReadIsSent'
    BY <2>2, <1>2 DEF ReadIsSent, SentTo
  <2>4. ASSUME NEW i \in DOMAIN read', NEW k \in DOMAIN read', i # k
        PROVE  read'[i].msg # read'[k].msg
    <3>1. CASE i \in DOMAIN read /\ k \in DOMAIN read
      BY <3>1, <2>4, <1>8 DEF IInv, AtMostOnce
    <3>2. CASE i \notin DOMAIN read \/ k \notin DOMAIN read
      BY <3>2, <2>1, <2>4, <1>4, <1>8 DEF Unread
    <3>3. QED  BY <3>1, <3>2
  <2>5. QED  BY <2>3, <2>4 DEF AtMostOnce
<1>15. StoredUntilRead'
  <2>1. ASSUME NEW s \in sent, s.to \notin wrapped, pc' # "fatal"
        PROVE  (\E t \in Stored(s.to)' : m_messages'[s.to][t] = s.msg)
                 <=> \A i \in DOMAIN read' : read'[i].msg # s.msg
    <3>1. s.to \in App /\ pc # "fatal"
      BY <2>1, <1>1, <1>3 DEF TypeOK
    <3>2. (\E t \in Stored(s.to) : m_messages[s.to][t] = s.msg)
            <=> \A i \in DOMAIN read : read[i].msg # s.msg
      BY <2>1, <3>1 DEF IInv, StoredUntilRead, Stored
    <3>3. CASE s.msg = x
      BY <3>3, <3>1, <2>1, <1>6, <1>8
    <3>4. CASE s.msg # x
      <4>1. (\E t \in Stored(s.to)' : m_messages'[s.to][t] = s.msg)
              <=> \E t \in Stored(s.to) : m_messages[s.to][t] = s.msg
        BY <3>1, <3>4, <1>6, <1>7
      <4>2. r.msg = x
        OBVIOUS
      <4>3. (\A i \in DOMAIN read' : read'[i].msg # s.msg)
              <=> \A i \in DOMAIN read : read[i].msg # s.msg
        BY <3>4, <4>2, <1>8
      <4>4. QED  BY <3>2, <4>1, <4>3
    <3>5. QED  BY <3>3, <3>4
  <2>2. QED  BY <2>1, <1>2 DEF StoredUntilRead, Stored
<1>16. NullIsUnopened' /\ ClockBehindEvents'
  BY <1>2, <1>3 DEF IInv, NullIsUnopened, ClockBehindEvents
<1>17. Departures'
  <2>1. ASSUME NEW s \in sent, NEW k \in Jitters, LeavesAt(s, s.time + k)
        PROVE  LeavesAt(s, s.time + k)'
    <3>1. s.time + k \in Nat
      BY <1>1, NumbersAssumption DEF TypeOK
    <3>2. \A e \in sendEvents' : e.data = s.msg => e.at = s.time + k
      BY <2>1, <1>2 DEF LeavesAt
    <3>3. \A q \in network' : q.data = s.msg => s.time + k <= now'
      <4>1. \A q \in network : q.data = s.msg => s.time + k <= now
        BY <2>1 DEF LeavesAt
      <4>2. QED  BY <3>1, <4>1, <1>1, <1>2
    <3>4. p.data = s.msg => s.time + k <= helicsTime
      <4>1. p.data = s.msg => s.time + k <= now
        BY <2>1 DEF LeavesAt
      <4>2. QED  BY <3>1, <4>1, <1>1
    <3>5. r.data = p.data /\ r.at = helicsTime
      OBVIOUS
    <3>6. \A i \in DOMAIN read' : read'[i].data = s.msg => s.time + k <= read'[i].at
      <4>1. \A i \in DOMAIN read : read[i].data = s.msg => s.time + k <= read[i].at
        BY <2>1 DEF LeavesAt
      <4>2. QED  BY <3>4, <3>5, <4>1, <1>8
    <3>7. QED  BY <3>2, <3>3, <3>6, <1>2 DEF LeavesAt
  <2>2. QED  BY <2>1, <1>2 DEF IInv, Departures
<1>18. QED
  BY <1>9, <1>10, <1>11, <1>12, <1>13, <1>14, <1>15, <1>16, <1>17 DEF IInv

(***************************************************************************)
(* The initial states, and every step.                                     *)
(***************************************************************************)
LEMMA InitEstablishes ==
  Init => IInv
<1>1. SUFFICES ASSUME Init PROVE IInv
  OBVIOUS
<1>2. /\ \A a \in App : Stored(a) = {}
      /\ sendEvents = {} /\ network = {} /\ sent = {} /\ read = <<>>
      /\ wrapped = {} /\ pc = "callback" /\ now = 0 /\ helicsTime = 0
      /\ DOMAIN m_messages = App
  BY <1>1 DEF Init, Stored
<1>3. DOMAIN read = {} /\ read \in Seq([app : App, msg : Messages, data : Messages, at : Nat])
  BY <1>2
<1>4. TypeOK
  <2>1. 0 \in Tag
    BY NumbersAssumption DEF Tag
  <2>2. m_next_tag_id \in [App -> Tag] /\ m_socket \in [App -> {"null", "open"}]
    BY <1>1, <2>1 DEF Init
  <2>3. lifecycle = {}
    BY <1>1 DEF Init
  <2>4. QED  BY <1>2, <1>3, <2>2, <2>3 DEF TypeOK, Stored
<1>5. /\ SentOnce /\ UnderwayIsSent /\ StoredIsUnread /\ StoredOnce /\ TagsMatch
  BY <1>2 DEF SentOnce, UnderwayIsSent, StoredIsUnread, StoredOnce, TagsMatch
<1>6. ReadIsSent /\ AtMostOnce /\ StoredUntilRead
  BY <1>2, <1>3 DEF ReadIsSent, AtMostOnce, StoredUntilRead
<1>7. NullIsUnopened /\ ClockBehindEvents /\ Departures
  BY <1>2 DEF NullIsUnopened, ClockBehindEvents, Departures
<1>8. QED  BY <1>4, <1>5, <1>6, <1>7 DEF IInv

LEMMA StepPreserves ==
  IInv /\ [Next]_vars => IInv'
<1>1. SUFFICES ASSUME IInv, [Next]_vars PROVE IInv'
  OBVIOUS
<1>2. /\ TypeOK /\ now \in Nat /\ helicsTime \in Nat /\ now <= helicsTime
      /\ m_socket \in [App -> {"null", "open"}]
      /\ lifecycle \subseteq App \X {"start", "stop"}
      /\ pc \in {"callback", "run", "fatal", "crashed"}
      /\ \A e \in sendEvents : e.at \in Nat /\ now <= e.at
  BY <1>1 DEF IInv, TypeOK, SendEvent, ClockBehindEvents
<1>3. ASSUME NEW a \in App, NEW m \in Messages, EndpointCallback(a, m)
      PROVE  IInv'
  <2>1. /\ pc = "callback" /\ \A s \in sent : s.msg # m
        /\ UNCHANGED <<clock, sockets, network, read>>
    BY <1>3 DEF EndpointCallback
  <2>2. ASSUME NEW d, Send(a, d, helicsTime, m) PROVE IInv'
    BY <1>1, <2>1, <2>2, SendStep DEF Send
  <2>3. ASSUME pc' = "fatal", UNCHANGED <<store, sendEvents, sent, wrapped>>
        PROVE  IInv'
    <3>1. Moves
      BY <2>1, <2>3, <1>2 DEF Moves, clock, sockets, store
    <3>2. QED  BY <3>1, <1>1, MoveStep
  <2>4. QED
    BY <1>3, <2>2, <2>3 DEF EndpointCallback, DoEndpoint, FilterDoEndpoint, SinkDoEndpoint,
       SourceDoEndpoint, Forward, SendUnknown
<1>4. ASSUME NEW a \in App, StartApplication(a) PROVE IInv'
  <2>1. Moves
    BY <1>2, <1>4 DEF StartApplication, At, Moves, store, history
  <2>2. QED  BY <2>1, <1>1, MoveStep
<1>5. ASSUME NEW a \in App, StopApplication(a) PROVE IInv'
  <2>1. Moves
    BY <1>2, <1>5 DEF StopApplication, At, Moves, store, history
  <2>2. QED  BY <2>1, <1>1, MoveStep
<1>6. ASSUME NEW e \in sendEvents, SendTo(e) PROVE IInv'
  <2>1. Moves
    BY <1>2, <1>6 DEF SendTo, At, Moves, store, history, sockets
  <2>2. QED  BY <2>1, <1>1, MoveStep
<1>7. ASSUME NEW p \in network, Lose(p) \/ HandleReadUnknownTag(p) PROVE IInv'
  <2>1. Moves
    BY <1>2, <1>7 DEF Lose, HandleReadUnknownTag, Arrives, At, Moves, store, history, sockets
  <2>2. QED  BY <2>1, <1>1, MoveStep
<1>8. ASSUME NEW p \in network, NEW again \in BOOLEAN, HandleRead(p, again) PROVE IInv'
  BY <1>1, <1>8, ReadStep
<1>9. CASE Grant
  <2>1. Moves
    BY <1>2, <1>9, NumbersAssumption DEF Grant, Moves, store, history, sockets
  <2>2. QED  BY <2>1, <1>1, MoveStep
<1>10. CASE EndCallbacks
  <2>1. Moves
    BY <1>2, <1>10 DEF EndCallbacks, Moves, clock, store, history, sockets
  <2>2. QED  BY <2>1, <1>1, MoveStep
<1>11. CASE UNCHANGED vars
  <2>1. Moves
    BY <1>2, <1>11 DEF vars, Moves, clock, store, history, sockets
  <2>2. QED  BY <2>1, <1>1, MoveStep
<1>12. QED
  BY <1>1, <1>3, <1>4, <1>5, <1>6, <1>7, <1>8, <1>9, <1>10, <1>11
     DEF Next, Reception, Finished

\* The inductive invariant holds in every reachable state.
THEOREM Invariance == Spec => []IInv
BY InitEstablishes, StepPreserves, PTL DEF Spec

(***************************************************************************)
(* What it implies.                                                        *)
(***************************************************************************)
\* Every variable of the applications stays in its range; with it m_next_tag_id
\* of NewTag stays a 32-bit number.
THEOREM TypeCorrectness == Spec => []TypeOK
<1>1. IInv => TypeOK
  BY DEF IInv
<1>2. QED  BY <1>1, Invariance, PTL

\* HandleRead gives DoRead the message its packet was made from, at the
\* application it was sent to, until the tags of that application have wrapped.
THEOREM TagsLeadToTheirMessage == Spec => []DeliversWhatWasSent
<1>1. IInv => DeliversWhatWasSent
  BY DEF IInv, ReadIsSent, DeliversWhatWasSent, SentTo
<1>2. QED  BY <1>1, Invariance, PTL

\* No message is given to HELICS twice, with whatever the network repeats and
\* however narrow the tag is.
THEOREM ReadAtMostOnce == Spec => []AtMostOnce
<1>1. IInv => AtMostOnce
  BY DEF IInv
<1>2. QED  BY <1>1, Invariance, PTL

\* A message is in m_messages of its destination from Send until DoRead.
THEOREM StoreIsExact == Spec => []StoredUntilRead
<1>1. IInv => StoredUntilRead
  BY DEF IInv
<1>2. QED  BY <1>1, Invariance, PTL

\* No packet leaves before the HELICS time of its message plus a jitter,
\* although Send computes with the lagging clock of ns-3.
THEOREM Causality == Spec => []NeverLeavesEarly
<1>1. IInv => NeverLeavesEarly
  BY DEF IInv, Departures, LeavesAt, NeverLeavesEarly
<1>2. QED  BY <1>1, Invariance, PTL

\* The call on a null socket comes from a Send of an application that was not
\* open, never from a stop between Send and the event.
THEOREM StopsDoNotCrash == Spec => []CrashesOnlyUnopened
<1>1. IInv => CrashesOnlyUnopened
  BY DEF IInv, NullIsUnopened, CrashesOnlyUnopened
<1>2. QED  BY <1>1, Invariance, PTL

=============================================================================
