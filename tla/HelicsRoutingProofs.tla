-------------------------- MODULE HelicsRoutingProofs --------------------------
(***************************************************************************)
(* Proofs about HelicsRouting, for any requests in any order, any names    *)
(* and any number of messages: what is installed is found, and messages    *)
(* come out where they were addressed to.                                  *)
(***************************************************************************)
EXTENDS HelicsRouting, WellFoundedInduction, SequenceTheorems, TLAPS

(***************************************************************************)
(* The invariant.                                                          *)
(***************************************************************************)
\* The registry of names and the list of applications agree.
RegistryOK ==
  /\ apps \subseteq Requests
  /\ \A a \in apps : KeyOf(a) \in DOMAIN names /\ names[KeyOf(a)] = a
  /\ \A n \in DOMAIN names : names[n] \in apps /\ KeyOf(names[n]) = n

\* An endpoint of an application carries its name.
EndpointsOK ==
  /\ registered \subseteq Own
  /\ \A e \in DOMAIN endpoints :
       endpoints[e] \in apps /\ HasEndpoint(endpoints[e]) /\ EndpointName(endpoints[e]) = e

\* The operator of a filter leads to the endpoint of a filter application, or to one
\* that nobody listens to.
FiltersOK ==
  \A f \in filters :
    /\ f \in Text
    /\ \/ Prefixed(f) \in registered /\ Plain(f)
       \/ Prefixed(f) \in DOMAIN endpoints
    /\ Prefixed(f) \in DOMAIN endpoints =>
         /\ IsFilter(endpoints[Prefixed(f)])
         /\ KeyOf(endpoints[Prefixed(f)]) = SanitizeName(SetName(f))

\* Nothing is sent before the applications are there and complete.
Started ==
  /\ status = "setup" => helics = {} /\ network = {} /\ delivered = {}
  /\ status = "running" => \A a \in apps : ~ IsFilter(a) => a.destination # <<>>

SetupOK == RegistryOK /\ EndpointsOK /\ FiltersOK /\ Started

\* A message that another federate has sent, on its way to the network or past it.
Fresh(m) ==
  /\ m.crossings = 0 /\ m.original_dest = m.to
  /\ m.from \in Outside /\ m.to \in Outside \cup DOMAIN endpoints \cup registered
  /\ m.dest = IF m.from \in filters THEN Rename(m.from, m.to) ELSE m.to

\* One that has crossed the network has nobody any more who would send it again.
Crossed(m) ==
  /\ m.crossings = 1
  /\ m.dest \in (Outside \cup registered) \ DOMAIN endpoints
  /\ m.dest \in Outside => m.dest \in Terminus(m.to)

HelicsOK == \A m \in helics : m \in Messages /\ (Fresh(m) \/ Crossed(m))

\* A packet is for the application that a filter, a sink or a PMU has found.
Found(a, dest) == SanitizeName(dest) = KeyOf(a)

SentByFilter(p) ==
  /\ p.msg.original_dest = p.msg.to
  /\ p.msg.to \in Outside \cup DOMAIN endpoints \cup registered
  /\ Found(p.app, p.msg.to)

SentBySink(p) ==
  /\ p.msg.to \in DOMAIN endpoints /\ endpoints[p.msg.to].class = "sink"
  /\ Found(p.app, endpoints[p.msg.to].destination)

SentByPMU(p) ==
  \E a \in apps : a.class = "PMU" /\ p.msg.to = a.destination /\ Found(p.app, a.destination)

NetworkOK ==
  \A p \in network :
    /\ p \in [local : Nat, app : apps, msg : Messages] /\ p.msg.crossings = 1
    /\ SentByFilter(p) \/ SentBySink(p) \/ SentByPMU(p)

Arrived(d) ==
  /\ d \in [from : Text, to : Text, at : Text, crossings : 0 .. 1]
  /\ Plain(d.from) /\ Readable /\ (\A a \in apps : NoPlus(a.name)) =>
       /\ d.at \in Terminus(d.to)
       /\ d.from \in filters => d.crossings = 1

DeliveredOK == \A d \in delivered : Arrived(d)

HistoryOK ==
  /\ status \in {"setup", "running", "name taken", "failed to bind", "incomplete",
                 "unknown destination", "source with a message", "should not read"}
  /\ sent \subseteq Text \X Text /\ failed \in Text

WayInv == SetupOK /\ HelicsOK /\ NetworkOK /\ DeliveredOK /\ HistoryOK

(***************************************************************************)
(* Names.                                                                  *)
(***************************************************************************)
LEMMA RequestTypes ==
  ASSUME NEW r \in Requests
  PROVE  r.name \in Text /\ r.destination \in Text /\ r.local \in Nat
BY RequestsAssumption DEF Text

LEMMA PrefixedType ==
  ASSUME NEW x \in Text
  PROVE  /\ Prefixed(x) \in Text /\ Len(Prefixed(x)) = Len(FedName) + 1 + Len(x)
         /\ \A i \in 1 .. Len(FedName) : Prefixed(x)[i] = FedName[i]
         /\ \A i \in 1 .. Len(x) : Prefixed(x)[Len(FedName) + 1 + i] = x[i]
<1>1. FedName \in Text /\ <<"/">> \in Text
  BY OutsideAssumption, AtomsAssumption DEF Text
<1>2. FedName \o <<"/">> \in Text
  BY <1>1 DEF Text
<1>3. QED  BY <1>1, <1>2 DEF Prefixed, Text

LEMMA SanitizedType ==
  ASSUME NEW x \in Text
  PROVE  /\ SanitizeName(x) \in Text /\ Len(SanitizeName(x)) = Len(x)
         /\ \A i \in 1 .. Len(x) :
              SanitizeName(x)[i] = IF x[i] = "/" THEN "+" ELSE x[i]
<1> DEFINE y == [i \in 1 .. Len(x) |-> IF x[i] = "/" THEN "+" ELSE x[i]]
<1>1. SanitizeName(x) = y
  BY DEF SanitizeName, ReplaceAll
<1>2. Len(x) \in Nat /\ \A i \in 1 .. Len(x) : x[i] \in Atoms
  BY DEF Text
<1>3. \A i \in 1 .. Len(x) : (IF x[i] = "/" THEN "+" ELSE x[i]) \in Atoms
  BY <1>2, AtomsAssumption
<1>4. y \in [1 .. Len(x) -> Atoms]
  BY <1>3
<1> HIDE DEF y
<1>5. y \in Text /\ Len(y) = Len(x)
  BY <1>2, <1>4 DEF Text
<1>6. QED  BY <1>1, <1>5 DEF Text, y

LEMMA PrefixedIsOurs ==
  ASSUME NEW x \in Text
  PROVE  IsPrefix(FedName, Prefixed(x))
<1> DEFINE y == Prefixed(x)
<1>1. FedName \in Text /\ y \in Text /\ Len(FedName) <= Len(y)
  BY PrefixedType, OutsideAssumption DEF Text
<1>2. \A i \in 1 .. Len(FedName) : y[i] = FedName[i]
  BY PrefixedType
<1> HIDE DEF y
<1>3. SubSeq(FedName, 1, Len(FedName)) = SubSeq(y, 1, Len(FedName))
  BY <1>1, <1>2 DEF Text
<1>4. IsPrefix(FedName, y)
  BY <1>1, <1>3 DEF IsPrefix
<1>5. QED  BY <1>4 DEF y

LEMMA PlainIsNotOurs ==
  ASSUME NEW x \in Text, Plain(x)
  PROVE  ~ IsPrefix(FedName, x)
<1> SUFFICES ASSUME IsPrefix(FedName, x) PROVE FALSE
  OBVIOUS
<1>1. Len(FedName) \in Nat /\ Len(FedName) >= 1
  BY OutsideAssumption
<1>2. 1 \in DOMAIN x /\ SubSeq(x, 1, Len(x)) = x
  BY <1>1 DEF IsPrefix, Text
<1>3. QED  BY <1>2 DEF Plain, Occurs

\* Nothing is cut off a name in which that of the federate does not occur ...
LEMMA PlainNamesAreKept ==
  ASSUME NEW name, Plain(name)
  PROVE  SetName(name) = name
BY DEF Plain, SetName

\* ... and of a full name, what the federate has put before it.
LEMMA PrefixIsCut ==
  ASSUME NEW x \in Text
  PROVE  SetName(Prefixed(x)) = x
<1> DEFINE y == Prefixed(x)
<1>1. y \in Text /\ Len(y) = Len(FedName) + 1 + Len(x) /\ Len(FedName) \in Nat
      /\ Len(x) \in Nat
  BY PrefixedType, OutsideAssumption DEF Text
<1>2. IsPrefix(FedName, y) /\ \A i \in 1 .. Len(x) : y[Len(FedName) + 1 + i] = x[i]
  BY PrefixedIsOurs, PrefixedType
<1> HIDE DEF y
<1>3. 1 \in DOMAIN y /\ Occurs(y, 1)
  <2>1. 1 \in DOMAIN y /\ SubSeq(y, 1, Len(y)) = y
    BY <1>1 DEF Text
  <2>2. QED  BY <2>1, <1>2 DEF Occurs
<1> DEFINE pos == CHOOSE i \in DOMAIN y :
                    Occurs(y, i) /\ \A k \in 1 .. (i - 1) : ~ Occurs(y, k)
<1>4. pos = 1
  <2>1. DOMAIN y \subseteq Nat
    BY <1>1 DEF Text
  <2>2. \A i \in DOMAIN y : (Occurs(y, i) /\ \A k \in 1 .. (i - 1) : ~ Occurs(y, k)) => i = 1
    BY <1>1, <1>3 DEF Text
  <2>3. \E i \in DOMAIN y : Occurs(y, i) /\ \A k \in 1 .. (i - 1) : ~ Occurs(y, k)
    BY <1>3
  <2>4. QED  BY <2>2, <2>3
<1>5. SetName(y) = SubSeq(y, 1, pos - 1) \o SubSeq(y, pos + Len(FedName) + 1, Len(y))
  BY <1>3 DEF SetName
<1> HIDE DEF pos
<1>6. SetName(y) = SubSeq(y, 1, 0) \o SubSeq(y, Len(FedName) + 2, Len(y))
  BY <1>1, <1>4, <1>5
<1>7. SubSeq(y, Len(FedName) + 2, Len(y)) = x
  BY <1>1, <1>2 DEF Text
<1>8. SubSeq(y, 1, 0) = <<>>
  BY <1>1 DEF Text
<1>9. SetName(y) = <<>> \o x
  BY <1>6, <1>7, <1>8
<1>10. SetName(y) = x
  BY <1>9 DEF Text
<1>11. QED  BY <1>10 DEF y

\* Every set of natural numbers has a least element.
LEMMA LeastElement ==
  ASSUME NEW T, T \subseteq Nat, T # {}
  PROVE  \E m \in T : \A k \in T : m <= k
<1> DEFINE R == OpToRel(<, Nat)
<1>1. IsWellFoundedOn(R, Nat)
  BY NatLessThanWellFounded
<1>2. \A x, y \in Nat : x < y => <<x, y>> \in R
  BY DEF OpToRel
<1> HIDE DEF R
<1>3. PICK m \in T : \A y \in T : ~ (<<y, m>> \in R)
  BY <1>1, WFMin
<1>4. \A k \in T : m <= k
  <2> TAKE k \in T
  <2>1. k \in Nat /\ m \in Nat
    OBVIOUS
  <2>2. ~ (k < m)
    BY <2>1, <1>2, <1>3
  <2>3. QED BY <2>1, <2>2
<1>5. QED BY <1>4

LEMMA SetNameType ==
  ASSUME NEW x \in Text
  PROVE  SetName(x) \in Text
<1>1. CASE \A i \in DOMAIN x : ~ Occurs(x, i)
  BY <1>1 DEF SetName
<1>2. CASE \E i \in DOMAIN x : Occurs(x, i)
  <2> DEFINE pos == CHOOSE i \in DOMAIN x :
                      Occurs(x, i) /\ \A k \in 1 .. (i - 1) : ~ Occurs(x, k)
  <2>1. \A i \in 1 .. (Len(x) + 1), k \in 0 .. Len(x) : SubSeq(x, i, k) \in Text
    BY DEF Text
  <2>2. pos \in DOMAIN x
    <3> DEFINE T == {i \in DOMAIN x : Occurs(x, i)}
    <3>1. T \subseteq Nat /\ T # {} /\ DOMAIN x = 1 .. Len(x) /\ Len(x) \in Nat
      BY <1>2 DEF Text
    <3> HIDE DEF T
    <3>2. PICK i \in T : \A k \in T : i <= k
      BY <3>1, LeastElement
    <3> USE DEF T
    <3>3. i \in DOMAIN x /\ Occurs(x, i) /\ \A k \in 1 .. (i - 1) : ~ Occurs(x, k)
      BY <3>1, <3>2
    <3>4. QED  BY <3>3
  <2>3. SetName(x) = SubSeq(x, 1, pos - 1) \o SubSeq(x, pos + Len(FedName) + 1, Len(x))
    BY <1>2 DEF SetName
  <2> HIDE DEF pos
  <2>4. Len(FedName) \in Nat
    BY OutsideAssumption DEF Text
  <2>5. SubSeq(x, 1, pos - 1) \in Text
    BY <2>2 DEF Text
  <2>6. SubSeq(x, pos + Len(FedName) + 1, Len(x)) \in Text
    BY <2>2, <2>4 DEF Text
  <2>7. QED  BY <2>3, <2>5, <2>6 DEF Text
<1>3. QED  BY <1>1, <1>2

LEMMA SanitizedTells ==
  ASSUME NEW x \in Text, NEW y \in Text, NoPlus(x), NoPlus(y),
         SanitizeName(x) = SanitizeName(y)
  PROVE  x = y
<1>1. Len(x) = Len(y)
  BY SanitizedType
<1>2. \A i \in 1 .. Len(x) : x[i] # "+" /\ y[i] # "+"
  BY <1>1 DEF NoPlus, Contains
<1>3. \A i \in 1 .. Len(x) : x[i] = y[i]
  BY <1>1, <1>2, SanitizedType
<1>4. QED  BY <1>1, <1>3 DEF Text
(***************************************************************************)
(* The endpoints.                                                          *)
(***************************************************************************)
LEMMA OwnTypes ==
  /\ fout \in Text
  /\ \A r \in Requests : EndpointName(r) \in Text
  /\ Own \subseteq Text
  /\ \A r \in Requests : r.configured => HasEndpoint(r) /\ EndpointName(r) = r.name
<1>1. fout \in Text
  <2>1. <<"fout">> \in Text
    BY AtomsAssumption DEF Text
  <2>2. QED  BY <2>1, PrefixedType DEF fout
<1>2. \A r \in Requests : EndpointName(r) \in Text
  BY RequestTypes, PrefixedType DEF EndpointName
<1>3. \A r \in Requests : r.configured => HasEndpoint(r) /\ EndpointName(r) = r.name
  BY HelperAssumption DEF HasEndpoint, IsFilter, EndpointName
<1>4. QED  BY <1>1, <1>2, <1>3 DEF Own

LEMMA EndpointsAreOwn ==
  ASSUME RegistryOK, EndpointsOK
  PROVE  DOMAIN endpoints \cup registered \subseteq Own
BY DEF RegistryOK, EndpointsOK, Own

\* A filter is on no endpoint of this federate that somebody listens to.
LEMMA OwnAreNotRenamed ==
  ASSUME SetupOK, NEW a \in apps, HasEndpoint(a), EndpointName(a) \in filters,
         ~ IsPrefix(FedName, EndpointName(a)),
         Prefixed(EndpointName(a)) \in DOMAIN endpoints
  PROVE  FALSE
<1> DEFINE src == EndpointName(a)  b == endpoints[Prefixed(src)]
<1>1. a \in Requests /\ a.name \in Text /\ src \in Text
  BY RequestTypes, OwnTypes DEF SetupOK, RegistryOK
<1>2. src = a.name
  BY <1>1, PrefixedIsOurs DEF EndpointName
<1>3. b \in apps /\ EndpointName(b) = Prefixed(src)
  BY DEF SetupOK, EndpointsOK
<1>4. KeyOf(b) = KeyOf(a)
  BY <1>2 DEF SetupOK, FiltersOK, KeyOf
<1>5. b = a
  BY <1>3, <1>4 DEF SetupOK, RegistryOK
<1>6. Prefixed(src) = src
  BY <1>3, <1>5
<1>7. Len(Prefixed(src)) # Len(src)
  <2> HIDE DEF src
  <2>1. Len(Prefixed(src)) = Len(FedName) + 1 + Len(src)
    BY <1>1, PrefixedType
  <2>2. Len(src) \in Nat /\ Len(FedName) \in Nat
    BY <1>1, OutsideAssumption DEF Text
  <2>3. QED  BY <2>1, <2>2
<1>8. QED  BY <1>6, <1>7

(***************************************************************************)
(* Set-up.                                                                 *)
(***************************************************************************)
LEMMA InitWay ==
  ASSUME Straight, Init
  PROVE  WayInv
<1>1. /\ status = "setup" /\ names = <<>> /\ apps = {} /\ endpoints = <<>>
      /\ helics = {} /\ network = {} /\ sent = {} /\ delivered = {} /\ failed = <<>>
  BY DEF Init
<1>2. registered \subseteq Own
      /\ \A f \in filters : f \in Text /\ Prefixed(f) \in registered /\ Plain(f)
  <2>1. CASE SetupApplicationFederate
    BY <2>1 DEF SetupApplicationFederate, Own
  <2>2. CASE SetupApplicationFederateWithConfig
    <3>1. registered = {r.name : r \in {r \in Requests : r.configured}}
          /\ filters = {SetName(r.name) :
               r \in {r \in {r \in Requests : r.configured} : r.class = "filter"}}
      BY <2>2 DEF SetupApplicationFederateWithConfig
    <3>2. registered \subseteq Own
      BY <3>1, OwnTypes DEF Own
    <3>3. ASSUME NEW f \in filters
          PROVE  f \in Text /\ Prefixed(f) \in registered /\ Plain(f)
      <4>1. PICK r \in Requests : r.configured /\ r.class = "filter" /\ f = SetName(r.name)
        BY <3>1
      <4>2. Prefixed(f) \in registered
        BY <4>1, <3>1, ConfigurationAssumption
      <4>3. f \in Text
        BY <4>1, RequestTypes, SetNameType
      <4>4. QED  BY <4>1, <4>2, <4>3 DEF Straight
    <3>4. QED  BY <3>2, <3>3
  <2>3. QED  BY <2>1, <2>2 DEF Init
<1>3. DOMAIN endpoints = {} /\ DOMAIN names = {}
  BY <1>1
<1>4. RegistryOK /\ EndpointsOK /\ Started
  BY <1>1, <1>2, <1>3 DEF RegistryOK, EndpointsOK, Started
<1>5. FiltersOK
  BY <1>2, <1>3 DEF FiltersOK
<1>6. <<>> \in Text
  BY DEF Text
<1>7. HelicsOK /\ NetworkOK /\ DeliveredOK /\ HistoryOK
  BY <1>1, <1>6 DEF HelicsOK, NetworkOK, DeliveredOK, HistoryOK
<1>8. QED  BY <1>4, <1>5, <1>7 DEF WayInv, SetupOK

LEMMA InstallRegistry ==
  ASSUME RegistryOK, NEW r \in Requests, Install(r), ~ Taken(r)
  PROVE  RegistryOK'
<1>1. names' = Put(names, KeyOf(r), r) /\ apps' = apps \cup {r} /\ KeyOf(r) \notin DOMAIN names
  BY DEF Install, Taken
<1>2. /\ DOMAIN names' = DOMAIN names \cup {KeyOf(r)} /\ names'[KeyOf(r)] = r
      /\ \A n \in DOMAIN names : names'[n] = names[n]
  BY <1>1 DEF Put
<1>3. /\ \A a \in apps : KeyOf(a) \in DOMAIN names /\ names[KeyOf(a)] = a
      /\ \A n \in DOMAIN names : names[n] \in apps /\ KeyOf(names[n]) = n
  BY DEF RegistryOK
<1>4. \A a \in apps' : KeyOf(a) \in DOMAIN names' /\ names'[KeyOf(a)] = a
  BY <1>1, <1>2, <1>3
<1>5. \A n \in DOMAIN names' : names'[n] \in apps' /\ KeyOf(names'[n]) = n
  BY <1>1, <1>2, <1>3
<1>6. QED  BY <1>1, <1>4, <1>5 DEF RegistryOK, KeyOf

LEMMA InstallSetup ==
  ASSUME SetupOK, Straight, NEW r \in Requests, Install(r), ~ Taken(r)
  PROVE  RegistryOK' /\ EndpointsOK' /\ FiltersOK'
<1>1. /\ apps' = apps \cup {r}
      /\ endpoints' = IF HasEndpoint(r) THEN Put(endpoints, EndpointName(r), r) ELSE endpoints
      /\ filters' = IF r.class = "filter" /\ ~ r.configured
                    THEN filters \cup {r.name} ELSE filters
      /\ UNCHANGED registered /\ r \notin apps
  BY DEF Install
<1>2. /\ HasEndpoint(r) => EndpointName(r) \notin DOMAIN endpoints
      /\ HasEndpoint(r) /\ ~ r.configured => EndpointName(r) \notin registered
  BY DEF Taken
<1>3. HasEndpoint(r) =>
        /\ DOMAIN endpoints' = DOMAIN endpoints \cup {EndpointName(r)}
        /\ endpoints'[EndpointName(r)] = r
        /\ \A e \in DOMAIN endpoints : endpoints'[e] = endpoints[e]
  BY <1>1, <1>2 DEF Put
<1>4. ~ HasEndpoint(r) => endpoints' = endpoints
  BY <1>1
<1>5. RegistryOK'
  BY InstallRegistry DEF SetupOK
<1>6. EndpointsOK'
  BY <1>1, <1>3, <1>4 DEF EndpointsOK, SetupOK, HasEndpoint, IsFilter, EndpointName
<1>7. ASSUME NEW f \in filters', f \notin filters
      PROVE  /\ f \in Text /\ Prefixed(f) \in DOMAIN endpoints' /\ IsFilter(r)
             /\ endpoints'[Prefixed(f)] = r /\ KeyOf(r) = SanitizeName(SetName(f))
  <2>1. f = r.name /\ r.class = "filter" /\ ~ r.configured
    BY <1>1, <1>7
  <2>2. IsFilter(r) /\ HasEndpoint(r) /\ EndpointName(r) = Prefixed(f)
    BY <2>1, HelperAssumption DEF IsFilter, HasEndpoint, EndpointName
  <2>3. QED  BY <2>1, <2>2, <1>3, RequestTypes DEF KeyOf
<1>8. ASSUME NEW f \in filters
      PROVE  /\ f \in Text
             /\ (Prefixed(f) \in registered /\ Plain(f)) \/ Prefixed(f) \in DOMAIN endpoints'
             /\ Prefixed(f) \in DOMAIN endpoints' =>
                  /\ IsFilter(endpoints'[Prefixed(f)])
                  /\ KeyOf(endpoints'[Prefixed(f)]) = SanitizeName(SetName(f))
  <2>1. /\ f \in Text
        /\ (Prefixed(f) \in registered /\ Plain(f)) \/ Prefixed(f) \in DOMAIN endpoints
        /\ Prefixed(f) \in DOMAIN endpoints =>
             /\ IsFilter(endpoints[Prefixed(f)])
             /\ KeyOf(endpoints[Prefixed(f)]) = SanitizeName(SetName(f))
    BY DEF SetupOK, FiltersOK
  <2>2. CASE Prefixed(f) \in DOMAIN endpoints
    BY <2>1, <2>2, <1>3, <1>4
  <2>3. CASE Prefixed(f) \notin DOMAIN endpoints' 
    BY <2>1, <2>3, <1>3, <1>4
  <2>4. CASE Prefixed(f) \notin DOMAIN endpoints /\ Prefixed(f) \in DOMAIN endpoints'
    <3>1. HasEndpoint(r) /\ EndpointName(r) = Prefixed(f) /\ endpoints'[Prefixed(f)] = r
      BY <2>4, <1>3, <1>4
    <3>2. Prefixed(f) \in registered /\ Plain(f)
      BY <2>1, <2>4
    <3>3. r.configured /\ r.name = Prefixed(f)
      BY <1>2, <3>1, <3>2 DEF EndpointName
    <3>4. IsFilter(r)
      BY <3>3, HelperAssumption DEF IsFilter
    <3>5. SetName(r.name) = f /\ SetName(f) = f
      BY <3>2, <3>3, <2>1, PrefixIsCut, PlainNamesAreKept
    <3>6. QED  BY <2>1, <3>1, <3>2, <3>4, <3>5 DEF KeyOf
  <2>5. QED  BY <2>2, <2>3, <2>4
<1>9. FiltersOK'
  <2>1. ASSUME NEW f \in filters'
        PROVE  /\ f \in Text
               /\ (Prefixed(f) \in registered' /\ Plain(f)) \/ Prefixed(f) \in DOMAIN endpoints'
               /\ Prefixed(f) \in DOMAIN endpoints' =>
                    /\ IsFilter(endpoints'[Prefixed(f)])
                    /\ KeyOf(endpoints'[Prefixed(f)]) = SanitizeName(SetName(f))
    BY <1>1, <1>7, <1>8
  <2>2. QED  BY <2>1 DEF FiltersOK, IsFilter, KeyOf, Plain, Occurs
<1>10. QED  BY <1>5, <1>6, <1>9

LEMMA InstallWay ==
  ASSUME WayInv, Straight, NEW r \in Requests, Install(r)
  PROVE  WayInv'
<1>1. status = "setup" /\ UNCHANGED <<helics, network, sent, delivered, failed>>
  BY DEF Install
<1>2. helics = {} /\ network = {} /\ delivered = {}
  BY <1>1 DEF WayInv, SetupOK, Started
<1>3. HelicsOK' /\ NetworkOK' /\ DeliveredOK'
  BY <1>1, <1>2 DEF HelicsOK, NetworkOK, DeliveredOK
<1>4. status' \in {"setup", "name taken"}
  BY <1>1 DEF Install
<1>5. HistoryOK' /\ Started'
  BY <1>1, <1>2, <1>4 DEF HistoryOK, WayInv, Started
<1>6. RegistryOK' /\ EndpointsOK' /\ FiltersOK'
  <2>1. CASE Taken(r)
    <3>1. UNCHANGED setup
      BY <2>1 DEF Install
    <3>2. QED
      BY <3>1 DEF setup, WayInv, SetupOK, RegistryOK, EndpointsOK, FiltersOK, KeyOf,
                  HasEndpoint, IsFilter, EndpointName, Plain, Occurs
  <2>2. CASE ~ Taken(r)
    BY <2>2, InstallSetup DEF WayInv
  <2>3. QED  BY <2>1, <2>2
<1>7. QED  BY <1>3, <1>5, <1>6 DEF WayInv, SetupOK

\* When the applications have started, what they are set up with stays.
LEMMA SetupStays ==
  ASSUME SetupOK, status = "running", UNCHANGED setup,
         status' # "setup"
  PROVE  SetupOK'
<1>1. RegistryOK' /\ EndpointsOK' /\ FiltersOK'
  BY DEF setup, SetupOK, RegistryOK, EndpointsOK, FiltersOK, KeyOf,
         HasEndpoint, IsFilter, EndpointName, Plain, Occurs
<1>2. Started'
  BY DEF setup, SetupOK, Started, IsFilter
<1>3. QED  BY <1>1, <1>2 DEF SetupOK

LEMMA ItemsStay ==
  ASSUME UNCHANGED setup
  PROVE  /\ \A m : (Fresh(m) => Fresh(m)') /\ (Crossed(m) => Crossed(m)')
         /\ \A p : (SentByFilter(p) => SentByFilter(p)') /\ (SentBySink(p) => SentBySink(p)')
                   /\ (SentByPMU(p) => SentByPMU(p)')
         /\ \A d : Arrived(d) => Arrived(d)'
<1>1. \A to : Terminus(to)' = Terminus(to)
  BY DEF setup, Terminus, Find
<1>2. \A m : (Fresh(m) => Fresh(m)') /\ (Crossed(m) => Crossed(m)')
  BY <1>1 DEF setup, Fresh, Crossed
<1>3. \A p : (SentByFilter(p) => SentByFilter(p)') /\ (SentBySink(p) => SentBySink(p)')
             /\ (SentByPMU(p) => SentByPMU(p)')
  BY DEF setup, SentByFilter, SentBySink, SentByPMU, Found, KeyOf
<1>4. \A d : Arrived(d) => Arrived(d)'
  BY <1>1 DEF setup, Arrived, NoPlus, Plain, Occurs, Readable
<1>5. QED  BY <1>2, <1>3, <1>4

LEMMA StartWay ==
  ASSUME WayInv, Start
  PROVE  WayInv'
<1>1. /\ status = "setup" /\ UNCHANGED <<setup, helics, network, sent, delivered, failed>>
      /\ status' \in {"failed to bind", "incomplete", "running"}
      /\ status' = "running" => \A a \in apps : ~ IsFilter(a) => a.destination # <<>>
  BY DEF Start
<1>2. helics = {} /\ network = {} /\ delivered = {}
  BY <1>1 DEF WayInv, SetupOK, Started
<1>3. HelicsOK' /\ NetworkOK' /\ DeliveredOK' /\ HistoryOK'
  BY <1>1, <1>2 DEF HelicsOK, NetworkOK, DeliveredOK, HistoryOK, WayInv
<1>4. RegistryOK' /\ EndpointsOK' /\ FiltersOK'
  BY <1>1 DEF setup, WayInv, SetupOK, RegistryOK, EndpointsOK, FiltersOK, KeyOf,
              HasEndpoint, IsFilter, EndpointName, Plain, Occurs
<1>5. Started'
  BY <1>1, <1>2 DEF Started, setup, IsFilter
<1>6. QED  BY <1>3, <1>4, <1>5 DEF WayInv, SetupOK
(***************************************************************************)
(* Lookups.                                                                *)
(***************************************************************************)
IInv == RegistryOK /\ LookupFindsInstalled

\* Send fails only for a name that no application has.
LEMMA SendFindsInstalled ==
  ASSUME RegistryOK, status = "running", UNCHANGED apps,
         NEW dest, NEW m, Send(dest, m)
  PROVE  LookupFindsInstalled'
<1>1. CASE Find(dest) = {}
  <2>1. ASSUME NEW a \in apps, Plain(a.name), a.name = dest PROVE FALSE
    <3>1. KeyOf(a) = SanitizeName(dest)
      BY <2>1, PlainNamesAreKept DEF KeyOf
    <3>2. SanitizeName(dest) \in DOMAIN names /\ names[SanitizeName(dest)] = a
      BY <3>1 DEF RegistryOK
    <3>3. a \in Find(dest)
      BY <3>2 DEF Find
    <3>4. QED  BY <3>3, <1>1
  <2>2. failed' = dest
    BY <1>1 DEF Send
  <2>3. QED  BY <2>1, <2>2 DEF LookupFindsInstalled, Plain, Occurs
<1>2. CASE Find(dest) # {}
  <2>1. status' = "running"
    BY <1>2 DEF Send
  <2>2. QED  BY <2>1 DEF LookupFindsInstalled
<1>3. QED  BY <1>1, <1>2

LEMMA InstallPreserves ==
  ASSUME IInv, NEW r \in Requests, Install(r)
  PROVE  IInv'
<1>1. status = "setup" /\ r \notin apps /\ UNCHANGED failed
  BY DEF Install
<1>2. CASE Taken(r)
  <2>1. status' = "name taken" /\ UNCHANGED <<names, apps>>
    BY <1>2 DEF Install, setup
  <2>2. QED  BY <2>1 DEF IInv, RegistryOK, LookupFindsInstalled, KeyOf
<1>3. CASE ~ Taken(r)
  <2>1. RegistryOK'
    BY <1>3, InstallRegistry DEF IInv
  <2>2. status' = "setup"
    BY <1>1, <1>3 DEF Install
  <2>3. QED  BY <2>1, <2>2 DEF IInv, LookupFindsInstalled
<1>4. QED  BY <1>2, <1>3

LEMMA StepPreserves == IInv /\ [Next]_vars => IInv'
<1> SUFFICES ASSUME IInv, [Next]_vars PROVE IInv'
  OBVIOUS
<1>1. ASSUME NEW r \in Requests, Install(r) PROVE IInv'
  BY <1>1, InstallPreserves
<1>2. ASSUME UNCHANGED setup, LookupFindsInstalled' PROVE IInv'
  BY <1>2 DEF IInv, RegistryOK, KeyOf, setup
<1>3. CASE Start
  <2>1. UNCHANGED setup /\ status' # "unknown destination"
    BY <1>3 DEF Start
  <2>2. QED  BY <2>1, <1>2 DEF LookupFindsInstalled
<1>4. ASSUME status = "running", UNCHANGED <<status, setup>> PROVE IInv'
  BY <1>4, <1>2 DEF LookupFindsInstalled
<1>5. ASSUME NEW from \in Outside, NEW to, FederateSend(from, to) PROVE IInv'
  BY <1>5, <1>4 DEF FederateSend, MaySend
<1>6. ASSUME NEW dest, NEW m, status = "running", Send(dest, m), UNCHANGED setup PROVE IInv'
  BY <1>6, <1>2, SendFindsInstalled DEF IInv, setup
<1>7. ASSUME NEW a \in apps, GenerateMeasurement(a) PROVE IInv'
  BY <1>7, <1>6 DEF GenerateMeasurement, MaySend
<1>8. ASSUME NEW m \in helics, Carry(m) PROVE IInv'
  <2>1. CASE FederateReceive(m) \/ PrintUnclaimed(m)
    BY <2>1, <1>4 DEF FederateReceive, PrintUnclaimed
  <2>2. CASE EndpointCallback(m)
    <3> DEFINE a == endpoints[m.dest]
    <3>1. status = "running" /\ UNCHANGED setup /\ DoEndpoint(a, m)
      BY <2>2 DEF EndpointCallback
    <3>2. CASE Send(m.original_dest, m) \/ Send(a.destination, m)
      BY <3>1, <3>2, <1>6
    <3>3. CASE status' = "source with a message"
      BY <3>1, <3>3, <1>2 DEF LookupFindsInstalled
    <3>4. QED  BY <3>1, <3>2, <3>3 DEF DoEndpoint
  <2>3. QED  BY <1>8, <2>1, <2>2 DEF Carry
<1>9. ASSUME NEW p \in network, NEW a \in apps, HandleRead(p, a) PROVE IInv'
  <2>1. UNCHANGED setup /\ (status' = status \/ status' = "should not read")
        /\ status = "running"
    BY <1>9 DEF HandleRead, FilterDoRead, SourceDoRead, PDCDoRead, SinkDoRead, PMUDoRead
  <2>2. QED  BY <2>1, <1>2 DEF LookupFindsInstalled
<1>10. CASE UNCHANGED vars
  BY <1>10 DEF vars, setup, IInv, RegistryOK, LookupFindsInstalled, KeyOf
<1>11. QED
  BY <1>1, <1>3, <1>5, <1>7, <1>8, <1>9, <1>10 DEF Next, Progress, Finished

(***************************************************************************)
(* The way of a message.                                                   *)
(***************************************************************************)
Statuses == {"running", "unknown destination", "source with a message", "should not read"}

\* What a step of the running program has to show: the new messages, packets and
\* deliveries are as they should be; the old ones stay what they are.
LEMMA RunningWay ==
  ASSUME WayInv, status = "running", UNCHANGED setup, status' \in Statuses,
         \A m \in helics' \ helics : m \in Messages /\ (Fresh(m) \/ Crossed(m)),
         \A p \in network' \ network :
           /\ p \in [local : Nat, app : apps, msg : Messages] /\ p.msg.crossings = 1
           /\ SentByFilter(p) \/ SentBySink(p) \/ SentByPMU(p),
         \A d \in delivered' \ delivered : Arrived(d),
         sent' \subseteq Text \X Text, failed' \in Text
  PROVE  WayInv'
<1>1. SetupOK'
  BY SetupStays DEF WayInv, Statuses
<1>2. \A m \in helics' : m \in Messages /\ (Fresh(m) \/ Crossed(m))
  BY DEF WayInv, HelicsOK
<1>3. \A p \in network' :
        /\ p \in [local : Nat, app : apps, msg : Messages] /\ p.msg.crossings = 1
        /\ SentByFilter(p) \/ SentBySink(p) \/ SentByPMU(p)
  BY DEF WayInv, NetworkOK
<1>4. \A d \in delivered' : Arrived(d)
  BY DEF WayInv, DeliveredOK
<1>5. apps' = apps
  BY DEF setup
<1>6. HelicsOK'
  BY <1>2, ItemsStay DEF HelicsOK, Messages
<1>7. NetworkOK'
  BY <1>3, <1>5, ItemsStay DEF NetworkOK, Messages
<1>8. DeliveredOK'
  BY <1>4, ItemsStay DEF DeliveredOK
<1>9. HistoryOK'
  BY DEF HistoryOK, Statuses
<1>10. QED  BY <1>1, <1>6, <1>7, <1>8, <1>9 DEF WayInv

LEMMA MayingSends ==
  ASSUME WayInv, NEW from \in Text, NEW to \in Text, MaySend(from, to)
  PROVE  status = "running" /\ sent' \subseteq Text \X Text
BY DEF MaySend, WayInv, HistoryOK

LEMMA AddresseeTypes ==
  ASSUME WayInv
  PROVE  Outside \cup DOMAIN endpoints \cup registered \subseteq Text
BY EndpointsAreOwn, OwnTypes, OutsideAssumption DEF WayInv, SetupOK

LEMMA PostedType ==
  ASSUME NEW src \in Text, NEW dest \in Text, NEW m \in Messages
  PROVE  LET o == Posted(src, dest, m)
         IN  /\ o \in Messages /\ o.from = m.from /\ o.to = m.to
             /\ o.crossings = m.crossings /\ o.original_dest = dest
             /\ o.dest = IF src \in filters THEN Rename(src, dest) ELSE dest
<1> DEFINE to == IF src \in filters THEN Rename(src, dest) ELSE dest
<1>1. to \in Text
  BY PrefixedType DEF Rename
<1>2. Posted(src, dest, m) = [m EXCEPT !.dest = to, !.original_dest = dest]
  BY DEF Posted
<1> HIDE DEF to
<1>3. QED  BY <1>1, <1>2 DEF Messages, to

LEMMA FederateSendWay ==
  ASSUME WayInv, NEW from \in Outside, NEW to \in Addressees \ {from}, FederateSend(from, to)
  PROVE  WayInv'
<1> DEFINE m == Posted(from, to, Message(from, to))
<1>1. from \in Text /\ to \in Text
  BY AddresseeTypes DEF Addressees
<1>2. status = "running" /\ sent' \subseteq Text \X Text
  BY <1>1, MayingSends DEF FederateSend
<1>3. Message(from, to) \in Messages
  BY <1>1 DEF Message, Messages
<1>4. /\ m \in Messages /\ m.from = from /\ m.to = to /\ m.original_dest = to
      /\ m.crossings = 0
      /\ m.dest = IF from \in filters THEN Rename(from, to) ELSE to
  BY <1>1, <1>3, PostedType DEF Message
<1> HIDE DEF m
<1>5. m \in Messages /\ Fresh(m)
  BY <1>4 DEF Fresh, Addressees
<1>6. helics' = helics \cup {m}
      /\ UNCHANGED <<status, setup, network, delivered, failed>>
  BY DEF FederateSend, m
<1>7. failed' \in Text
  BY <1>6 DEF WayInv, HistoryOK
<1>8. QED  BY <1>2, <1>5, <1>6, <1>7, RunningWay DEF Statuses

LEMMA FederateReceiveWay ==
  ASSUME WayInv, NEW m \in helics, FederateReceive(m)
  PROVE  WayInv'
<1> DEFINE d == [from |-> m.from, to |-> m.to, at |-> m.dest, crossings |-> m.crossings]
<1>1. /\ status = "running" /\ m.dest \in Outside /\ helics' = helics \ {m}
      /\ delivered' = delivered \cup {d}
      /\ UNCHANGED <<status, setup, network, sent, failed>>
  BY DEF FederateReceive
<1>2. m \in Messages /\ (Fresh(m) \/ Crossed(m))
  BY DEF WayInv, HelicsOK
<1>3. d \in [from : Text, to : Text, at : Text, crossings : 0 .. 1]
  BY <1>2 DEF Messages
<1>4. ASSUME Plain(m.from)
      PROVE  m.dest \in Terminus(m.to) /\ (m.from \in filters => m.crossings = 1)
  <2>1. CASE Crossed(m)
    BY <2>1, <1>1 DEF Crossed
  <2>2. CASE Fresh(m)
    <3>1. m.from \notin filters
      <4> SUFFICES ASSUME m.from \in filters PROVE FALSE
        OBVIOUS
      <4>1. m.dest = Prefixed(m.from)
        BY <1>2, <1>4, <2>2, PlainIsNotOurs DEF Fresh, Rename, Messages
      <4>2. Prefixed(m.from) \in Own
        BY EndpointsAreOwn DEF WayInv, SetupOK, FiltersOK
      <4>3. QED  BY <1>1, <4>1, <4>2, FederationAssumption
    <3>2. m.dest = m.to
      BY <2>2, <3>1 DEF Fresh
    <3>3. m.to \notin DOMAIN endpoints
      BY <1>1, <3>2, EndpointsAreOwn, FederationAssumption DEF WayInv, SetupOK
    <3>4. QED  BY <3>1, <3>2, <3>3 DEF Terminus
  <2>3. QED  BY <1>2, <2>1, <2>2
<1>5. Arrived(d)
  BY <1>3, <1>4 DEF Arrived
<1>6. sent' \subseteq Text \X Text /\ failed' \in Text
  BY <1>1 DEF WayInv, HistoryOK
<1> HIDE DEF d
<1>7. QED  BY <1>1, <1>5, <1>6, RunningWay DEF Statuses

LEMMA PrintUnclaimedWay ==
  ASSUME WayInv, NEW m \in helics, PrintUnclaimed(m)
  PROVE  WayInv'
<1>1. /\ status = "running" /\ helics' = helics \ {m}
      /\ UNCHANGED <<status, setup, network, sent, delivered, failed>>
  BY DEF PrintUnclaimed
<1>2. sent' \subseteq Text \X Text /\ failed' \in Text
  BY <1>1 DEF WayInv, HistoryOK
<1>3. QED  BY <1>1, <1>2, RunningWay DEF Statuses

\* Send gives a packet to the application that has the name.
LEMMA SendWay ==
  ASSUME WayInv, status = "running", UNCHANGED setup, NEW dest \in Text,
         NEW m \in Messages, m.crossings = 0, Send(dest, m),
         \A p : p.msg = [m EXCEPT !.crossings = 1] /\ Found(p.app, dest) =>
           SentByFilter(p) \/ SentBySink(p) \/ SentByPMU(p)
  PROVE  /\ status' \in Statuses /\ failed' \in Text
         /\ \A p \in network' \ network :
              /\ p \in [local : Nat, app : apps, msg : Messages] /\ p.msg.crossings = 1
              /\ SentByFilter(p) \/ SentBySink(p) \/ SentByPMU(p)
<1>1. CASE Find(dest) = {}
  BY <1>1 DEF Send, Statuses
<1>2. CASE Find(dest) # {}
  <2>1. UNCHANGED <<status, failed>>
    BY <1>2 DEF Send
  <2>2. ASSUME NEW p \in network', p \notin network
        PROVE  /\ p \in [local : Nat, app : apps, msg : Messages] /\ p.msg.crossings = 1
               /\ SentByFilter(p) \/ SentBySink(p) \/ SentByPMU(p)
    <3>1. PICK a \in Find(dest) :
            p = [local |-> a.local, app |-> a, msg |-> [m EXCEPT !.crossings = @ + 1]]
      BY <1>2, <2>2 DEF Send
    <3>2. a \in apps /\ SanitizeName(dest) \in DOMAIN names /\ names[SanitizeName(dest)] = a
      BY <3>1 DEF Find
    <3>3. Found(a, dest) /\ a \in Requests
      BY <3>2 DEF Found, WayInv, SetupOK, RegistryOK
    <3>4. [m EXCEPT !.crossings = @ + 1] = [m EXCEPT !.crossings = 1]
      BY DEF Messages
    <3>5. /\ [m EXCEPT !.crossings = 1] \in Messages
          /\ [m EXCEPT !.crossings = 1].crossings = 1
      BY DEF Messages
    <3>6. p.app = a /\ p.local = a.local /\ p.msg = [m EXCEPT !.crossings = 1]
      BY <3>1, <3>4
    <3>7. p \in [local : Nat, app : apps, msg : Messages] /\ p.msg.crossings = 1
      BY <3>1, <3>2, <3>3, <3>4, <3>5, RequestTypes
    <3>8. QED  BY <3>3, <3>6, <3>7
  <2>3. QED  BY <2>1, <2>2 DEF Statuses, WayInv, HistoryOK
<1>3. QED  BY <1>1, <1>2

LEMMA EndpointCallbackWay ==
  ASSUME WayInv, NEW m \in helics, EndpointCallback(m)
  PROVE  WayInv'
<1> DEFINE a == endpoints[m.dest]
<1>1. /\ status = "running" /\ m.dest \in DOMAIN endpoints /\ helics' = helics \ {m}
      /\ DoEndpoint(a, m) /\ UNCHANGED <<setup, sent, delivered>>
  BY DEF EndpointCallback
<1>2. m \in Messages /\ Fresh(m)
  BY <1>1 DEF WayInv, HelicsOK, Crossed
<1>3. a \in apps /\ a \in Requests
  BY <1>1 DEF WayInv, SetupOK, EndpointsOK, RegistryOK
<1>4. sent' \subseteq Text \X Text
  BY <1>1 DEF WayInv, HistoryOK
<1> DEFINE on == [m EXCEPT !.crossings = 1]
<1>5. on.to = m.to /\ on.original_dest = m.original_dest
  BY <1>2 DEF Messages
<1>6. m.crossings = 0 /\ m.original_dest = m.to
      /\ m.to \in Outside \cup DOMAIN endpoints \cup registered
      /\ m.original_dest \in Text
  BY <1>2 DEF Fresh, Messages
<1>7. CASE IsFilter(a) /\ Send(m.original_dest, m)
  <2>1. \A p : p.msg = on /\ Found(p.app, m.original_dest) => SentByFilter(p)
    BY <1>5, <1>6 DEF SentByFilter
  <2>2. /\ status' \in Statuses /\ failed' \in Text
        /\ \A p \in network' \ network :
             /\ p \in [local : Nat, app : apps, msg : Messages] /\ p.msg.crossings = 1
             /\ SentByFilter(p) \/ SentBySink(p) \/ SentByPMU(p)
    BY <1>1, <1>2, <1>6, <1>7, <2>1, SendWay
  <2>3. QED  BY <1>1, <1>4, <2>2, RunningWay
<1>8. CASE a.class = "sink" /\ Send(a.destination, m)
  <2>1. m.dest = m.to
    <3> SUFFICES ASSUME m.dest # m.to PROVE FALSE
      OBVIOUS
    <3>1. m.from \in filters /\ m.dest = Prefixed(m.from)
      BY <1>2 DEF Fresh, Rename
    <3>2. IsFilter(a)
      BY <1>1, <3>1 DEF WayInv, SetupOK, FiltersOK
    <3>3. QED  BY <1>8, <3>2 DEF IsFilter
  <2>2. \A p : p.msg = on /\ Found(p.app, a.destination) => SentBySink(p)
    BY <1>1, <1>5, <1>8, <2>1 DEF SentBySink
  <2>3. a.destination \in Text
    BY <1>3, RequestTypes
  <2>4. /\ status' \in Statuses /\ failed' \in Text
        /\ \A p \in network' \ network :
             /\ p \in [local : Nat, app : apps, msg : Messages] /\ p.msg.crossings = 1
             /\ SentByFilter(p) \/ SentBySink(p) \/ SentByPMU(p)
    BY <1>1, <1>2, <1>6, <1>8, <2>2, <2>3, SendWay
  <2>5. QED  BY <1>1, <1>4, <2>4, RunningWay
<1>9. CASE status' = "source with a message" /\ UNCHANGED <<network, failed>>
  <2>1. failed' \in Text
    BY <1>9 DEF WayInv, HistoryOK
  <2>2. QED  BY <1>1, <1>4, <1>9, <2>1, RunningWay DEF Statuses
<1>10. QED  BY <1>1, <1>7, <1>8, <1>9 DEF DoEndpoint

LEMMA GenerateMeasurementWay ==
  ASSUME WayInv, NEW a \in apps, GenerateMeasurement(a)
  PROVE  WayInv'
<1> DEFINE m == Message(a.name, a.destination)
<1>1. /\ a.class = "PMU" /\ MaySend(a.name, a.destination) /\ Send(a.destination, m)
      /\ UNCHANGED <<setup, helics, delivered>>
  BY DEF GenerateMeasurement
<1>2. a.name \in Text /\ a.destination \in Text
  BY RequestTypes DEF WayInv, SetupOK, RegistryOK
<1>3. status = "running" /\ sent' \subseteq Text \X Text
  BY <1>1, <1>2, MayingSends
<1>4. m \in Messages /\ m.crossings = 0 /\ [m EXCEPT !.crossings = 1].to = a.destination
  BY <1>2 DEF Message, Messages
<1>5. \A p : p.msg = [m EXCEPT !.crossings = 1] /\ Found(p.app, a.destination) => SentByPMU(p)
  BY <1>1, <1>4 DEF SentByPMU
<1> HIDE DEF m
<1>6. /\ status' \in Statuses /\ failed' \in Text
      /\ \A p \in network' \ network :
           /\ p \in [local : Nat, app : apps, msg : Messages] /\ p.msg.crossings = 1
           /\ SentByFilter(p) \/ SentBySink(p) \/ SentByPMU(p)
  BY <1>1, <1>2, <1>3, <1>4, <1>5, SendWay
<1>7. QED  BY <1>1, <1>3, <1>6, RunningWay
(***************************************************************************)
(* Out of the network.                                                     *)
(***************************************************************************)
\* What has crossed the network and goes on to somebody who does not send it there
\* again goes there, or to an endpoint that nobody listens to.
LEMMA PostedCrossed ==
  ASSUME WayInv, NEW a \in apps, HasEndpoint(a), NEW m \in Messages, m.crossings = 1,
         NEW dest \in (Outside \cup registered) \ DOMAIN endpoints,
         dest \in Outside => dest \in Terminus(m.to)
  PROVE  Posted(EndpointName(a), dest, m) \in Messages
         /\ Crossed(Posted(EndpointName(a), dest, m))
<1> DEFINE src == EndpointName(a)  o == Posted(src, dest, m)
<1>1. src \in Text /\ dest \in Text
  BY OwnTypes, AddresseeTypes DEF WayInv, SetupOK, RegistryOK
<1>2. /\ o \in Messages /\ o.to = m.to /\ o.crossings = 1
      /\ o.dest = IF src \in filters THEN Rename(src, dest) ELSE dest
  BY <1>1, PostedType
<1>3. CASE o.dest = dest
  BY <1>2, <1>3 DEF Crossed
<1>4. CASE o.dest # dest
  <2>1. src \in filters /\ ~ IsPrefix(FedName, src) /\ o.dest = Prefixed(src)
    BY <1>2, <1>4 DEF Rename
  <2>2. Prefixed(src) \notin DOMAIN endpoints
    BY <2>1, OwnAreNotRenamed DEF WayInv
  <2>3. Prefixed(src) \in registered
    BY <2>1, <2>2 DEF WayInv, SetupOK, FiltersOK
  <2>4. Prefixed(src) \notin Outside
    BY <2>3, EndpointsAreOwn, FederationAssumption DEF WayInv, SetupOK
  <2>5. QED  BY <1>2, <2>1, <2>2, <2>3, <2>4 DEF Crossed
<1>5. QED  BY <1>3, <1>4

\* Filters read what other federates send each other.
LEMMA FilterReads ==
  ASSUME WayInv, Straight, NEW p \in network, IsFilter(p.app)
  PROVE  p.msg.original_dest \in (Outside \cup registered) \ DOMAIN endpoints
         /\ p.msg.original_dest = p.msg.to
<1>1. p.app \in apps /\ p.app \in Requests
      /\ (SentByFilter(p) \/ SentBySink(p) \/ SentByPMU(p))
  BY DEF WayInv, NetworkOK, SetupOK, RegistryOK
<1>2. ~ SentBySink(p)
  <2> SUFFICES ASSUME SentBySink(p) PROVE FALSE
    OBVIOUS
  <2>1. endpoints[p.msg.to] \in Requests /\ endpoints[p.msg.to].class = "sink"
    BY DEF SentBySink, WayInv, SetupOK, EndpointsOK, RegistryOK
  <2>2. p.app.class \in {"source", "sink", "PMU"}
    BY <1>1, <2>1 DEF SentBySink, Found, Straight
  <2>3. QED  BY <2>2 DEF IsFilter
<1>3. ~ SentByPMU(p)
  <2> SUFFICES ASSUME NEW a \in apps, a.class = "PMU", Found(p.app, a.destination)
               PROVE  FALSE
    BY DEF SentByPMU
  <2>1. p.app.class \in {"PDC", "sink", "PMU"}
    BY <1>1 DEF WayInv, SetupOK, RegistryOK, Found, Straight
  <2>2. QED  BY <2>1 DEF IsFilter
<1>4. SentByFilter(p)
  BY <1>1, <1>2, <1>3
<1>5. p.msg.to \notin Own
  BY <1>1, <1>4 DEF SentByFilter, Found, Straight, IsFilter
<1>6. QED
  BY <1>4, <1>5, EndpointsAreOwn DEF SentByFilter, WayInv, SetupOK

\* Sources read what came from a sink.
LEMMA SourceReads ==
  ASSUME WayInv, Straight, status = "running", NEW p \in network, p.app.class = "source"
  PROVE  /\ p.app.destination \in Outside
         /\ p.app.destination \in Terminus(p.msg.to)
<1>1. p.app \in apps /\ p.app \in Requests
      /\ (SentByFilter(p) \/ SentBySink(p) \/ SentByPMU(p))
  BY DEF WayInv, NetworkOK, SetupOK, RegistryOK
<1>2. p.app.destination \in Outside
  BY <1>1 DEF WayInv, SetupOK, Started, IsFilter, Straight
<1>3. ~ SentByPMU(p)
  <2> SUFFICES ASSUME NEW a \in apps, a.class = "PMU", Found(p.app, a.destination)
               PROVE  FALSE
    BY DEF SentByPMU
  <2>1. p.app.class \in {"PDC", "sink", "PMU"}
    BY <1>1 DEF WayInv, SetupOK, RegistryOK, Found, Straight
  <2>2. QED  BY <2>1
<1>4. ~ SentByFilter(p)
  <2> SUFFICES ASSUME SentByFilter(p) PROVE FALSE
    OBVIOUS
  <2>1. p.msg.to \in Outside \cup Own
    BY EndpointsAreOwn DEF SentByFilter, WayInv, SetupOK
  <2>2. QED  BY <1>1, <2>1 DEF SentByFilter, Found, Straight
<1>5. SentBySink(p)
  BY <1>1, <1>3, <1>4
<1>6. p.app \in Find(endpoints[p.msg.to].destination)
  BY <1>1, <1>5 DEF SentBySink, Found, Find, WayInv, SetupOK, RegistryOK
<1>7. QED
  BY <1>2, <1>5, <1>6 DEF SentBySink, Terminus

\* What a PDC reads was sent to it.
LEMMA PDCReads ==
  ASSUME WayInv, Straight, Readable, NEW p \in network, p.app.class = "PDC",
         NoPlus(p.app.name)
  PROVE  p.app.name \in Terminus(p.msg.to)
<1> DEFINE to == p.msg.to
<1>1. p.app \in apps /\ p.app \in Requests
      /\ (SentByFilter(p) \/ SentBySink(p) \/ SentByPMU(p))
  BY DEF WayInv, NetworkOK, SetupOK, RegistryOK
<1>2. ~ SentBySink(p)
  <2> SUFFICES ASSUME SentBySink(p) PROVE FALSE
    OBVIOUS
  <2>1. endpoints[to] \in Requests /\ endpoints[to].class = "sink"
    BY DEF SentBySink, WayInv, SetupOK, EndpointsOK, RegistryOK
  <2>2. p.app.class \in {"source", "sink", "PMU"}
    BY <1>1, <2>1 DEF SentBySink, Found, Straight
  <2>3. QED  BY <2>2
<1>3. Found(p.app, to)
  BY <1>1, <1>2 DEF SentByFilter, SentByPMU
<1>4. to \notin Own
  BY <1>1, <1>3 DEF Found, Straight
<1>5. to \in Text /\ NoPlus(to)
  <2>1. CASE SentByFilter(p)
    <3>1. to \in Outside
      BY <2>1, <1>4, EndpointsAreOwn DEF SentByFilter, WayInv, SetupOK
    <3>2. QED  BY <3>1, OutsideAssumption DEF Readable
  <2>2. CASE SentByPMU(p)
    <3>1. PICK a \in apps : a.class = "PMU" /\ to = a.destination
      BY <2>2 DEF SentByPMU
    <3>2. a \in Requests
      BY DEF WayInv, SetupOK, RegistryOK
    <3>3. QED  BY <3>1, <3>2, RequestTypes DEF Readable
  <2>3. QED  BY <1>1, <1>2, <2>1, <2>2
<1>6. KeyOf(p.app) = SanitizeName(p.app.name) /\ p.app.name \in Text
  BY <1>1, PlainNamesAreKept, RequestTypes DEF Readable, KeyOf
<1>7. p.app.name = to
  BY <1>3, <1>5, <1>6, SanitizedTells DEF Found
<1>8. to \notin DOMAIN endpoints
  BY <1>4, EndpointsAreOwn DEF WayInv, SetupOK
<1>9. QED  BY <1>7, <1>8 DEF Terminus

LEMMA HandleReadWay ==
  ASSUME WayInv, Straight, NEW p \in network, NEW a \in apps, HandleRead(p, a)
  PROVE  WayInv'
<1>1. /\ status = "running" /\ network' = network \ {p} /\ UNCHANGED <<setup, sent, failed>>
      /\ sent' \subseteq Text \X Text /\ failed' \in Text
  BY DEF HandleRead, WayInv, HistoryOK
<1>2. CASE a # p.app
  <2>1. UNCHANGED <<status, helics, delivered>>
    BY <1>2 DEF HandleRead
  <2>2. QED  BY <1>1, <2>1, RunningWay DEF Statuses
<1>3. CASE a = p.app
  <2> DEFINE m == p.msg
  <2>1. m \in Messages /\ m.crossings = 1
    BY DEF WayInv, NetworkOK
  <2>2. CASE FilterDoRead(a, m)
    <3> DEFINE o == Posted(EndpointName(a), m.original_dest, m)
    <3>1. IsFilter(a) /\ HasEndpoint(a) /\ helics' = helics \cup {o}
          /\ UNCHANGED <<status, delivered>>
      BY <2>2 DEF FilterDoRead, HasEndpoint
    <3>2. /\ m.original_dest \in (Outside \cup registered) \ DOMAIN endpoints
          /\ m.original_dest = m.to
      BY <1>3, <3>1, FilterReads
    <3>3. m.original_dest \in Terminus(m.to)
      BY <3>2 DEF Terminus
    <3>4. o \in Messages /\ Crossed(o)
      BY <2>1, <3>1, <3>2, <3>3, PostedCrossed
    <3> HIDE DEF o
    <3>5. QED  BY <1>1, <3>1, <3>4, RunningWay DEF Statuses
  <2>3. CASE SourceDoRead(a, m)
    <3> DEFINE o == Posted(EndpointName(a), a.destination, m)
    <3>1. a.class = "source" /\ HasEndpoint(a) /\ helics' = helics \cup {o}
          /\ UNCHANGED <<status, delivered>>
      BY <2>3 DEF SourceDoRead, HasEndpoint
    <3>2. a.destination \in Outside /\ a.destination \in Terminus(m.to)
      BY <1>1, <1>3, <3>1, SourceReads
    <3>3. a.destination \notin DOMAIN endpoints
      BY <3>2, EndpointsAreOwn, FederationAssumption DEF WayInv, SetupOK
    <3>4. o \in Messages /\ Crossed(o)
      BY <2>1, <3>1, <3>2, <3>3, PostedCrossed
    <3> HIDE DEF o
    <3>5. QED  BY <1>1, <3>1, <3>4, RunningWay DEF Statuses
  <2>4. CASE PDCDoRead(a, m)
    <3> DEFINE d == [from |-> m.from, to |-> m.to, at |-> a.name, crossings |-> m.crossings]
    <3>1. a.class = "PDC" /\ delivered' = delivered \cup {d} /\ UNCHANGED <<status, helics>>
      BY <2>4 DEF PDCDoRead
    <3>2. a.name \in Text
      BY RequestTypes DEF WayInv, SetupOK, RegistryOK
    <3>3. d \in [from : Text, to : Text, at : Text, crossings : 0 .. 1] /\ d.crossings = 1
      BY <2>1, <3>2 DEF Messages
    <3>4. Readable /\ (\A b \in apps : NoPlus(b.name)) => d.at \in Terminus(d.to)
      BY <1>3, <3>1, PDCReads
    <3>5. Arrived(d)
      BY <3>3, <3>4 DEF Arrived
    <3> HIDE DEF d
    <3>6. QED  BY <1>1, <3>1, <3>5, RunningWay DEF Statuses
  <2>5. CASE SinkDoRead(a) \/ PMUDoRead(a)
    <3>1. status' = "should not read" /\ UNCHANGED <<helics, delivered>>
      BY <2>5 DEF SinkDoRead, PMUDoRead
    <3>2. QED  BY <1>1, <3>1, RunningWay DEF Statuses
  <2>6. QED  BY <1>3, <2>2, <2>3, <2>4, <2>5 DEF HandleRead
<1>4. QED  BY <1>2, <1>3

LEMMA NextWay ==
  ASSUME Straight
  PROVE  WayInv /\ [Next]_vars => WayInv'
<1> SUFFICES ASSUME WayInv, [Next]_vars PROVE WayInv'
  OBVIOUS
<1>1. ASSUME NEW r \in Requests, Install(r) PROVE WayInv'
  BY <1>1, InstallWay
<1>2. CASE Start
  BY <1>2, StartWay
<1>3. ASSUME NEW from \in Outside, NEW to \in Addressees \ {from}, FederateSend(from, to)
      PROVE  WayInv'
  BY <1>3, FederateSendWay
<1>4. ASSUME NEW a \in apps, GenerateMeasurement(a) PROVE WayInv'
  BY <1>4, GenerateMeasurementWay
<1>5. ASSUME NEW m \in helics, Carry(m) PROVE WayInv'
  BY <1>5, FederateReceiveWay, PrintUnclaimedWay, EndpointCallbackWay DEF Carry
<1>6. ASSUME NEW p \in network, NEW a \in apps, HandleRead(p, a) PROVE WayInv'
  BY <1>6, HandleReadWay
<1>7. CASE UNCHANGED vars
  <2>1. UNCHANGED <<status, setup, helics, network, sent, delivered, failed>>
    BY <1>7 DEF vars
  <2>2. SetupOK'
    BY <2>1 DEF setup, WayInv, SetupOK, RegistryOK, EndpointsOK, FiltersOK, Started, KeyOf,
                HasEndpoint, IsFilter, EndpointName, Plain, Occurs
  <2>3. HelicsOK' /\ NetworkOK' /\ DeliveredOK'
    BY <2>1, ItemsStay DEF setup, WayInv, HelicsOK, NetworkOK, DeliveredOK, Messages
  <2>4. HistoryOK'
    BY <2>1 DEF WayInv, HistoryOK
  <2>5. QED  BY <2>2, <2>3, <2>4 DEF WayInv
<1>8. QED
  BY <1>1, <1>2, <1>3, <1>4, <1>5, <1>6, <1>7 DEF Next, Progress, Finished

LEMMA WayInvariant ==
  ASSUME Straight
  PROVE  Spec => []WayInv
<1>1. Init => WayInv
  BY InitWay
<1>2. WayInv /\ [Next]_vars => WayInv'
  BY NextWay
<1>3. QED  BY <1>1, <1>2, PTL DEF Spec

(***************************************************************************)
(* The theorems.                                                           *)
(***************************************************************************)
\* Every variable of the routing stays in its range, and no message crosses the network
\* twice: whatever the filters and the operators of HELICS do with it, what DoRead gives
\* back to HELICS does not come back to an application that would Send it again.
THEOREM TypeCorrectness ==
  ASSUME Straight
  PROVE  Spec => []TypeOK
<1>1. WayInv => TypeOK
  <2> SUFFICES ASSUME WayInv PROVE TypeOK
    OBVIOUS
  <2>1. /\ apps \subseteq Requests /\ registered \subseteq Text /\ filters \subseteq Text
        /\ DOMAIN endpoints \subseteq Text
    BY EndpointsAreOwn, OwnTypes DEF WayInv, SetupOK, RegistryOK, FiltersOK
  <2>2. \A n \in DOMAIN names : n \in Text /\ names[n] \in apps
    BY RequestTypes, SetNameType, SanitizedType DEF WayInv, SetupOK, RegistryOK, KeyOf
  <2>3. \A e \in DOMAIN endpoints : endpoints[e] \in apps
    BY DEF WayInv, SetupOK, EndpointsOK
  <2>4. helics \subseteq Messages /\ network \subseteq [local : Nat, app : apps, msg : Messages]
    BY DEF WayInv, HelicsOK, NetworkOK
  <2>5. delivered \subseteq [from : Text, to : Text, at : Text, crossings : 0 .. 1]
    BY DEF WayInv, DeliveredOK, Arrived
  <2>6. QED  BY <2>1, <2>2, <2>3, <2>4, <2>5 DEF TypeOK, WayInv, HistoryOK
<1>2. QED  BY <1>1, WayInvariant, PTL

\* The detour is invisible: a message comes out where it was addressed to, and from a
\* filtered endpoint it has crossed the network exactly once, for any applications
\* installed in any order and any other federates.
THEOREM DetourIsInvisible ==
  ASSUME Straight, Readable
  PROVE  Spec => []DeliveredAsAddressed
<1>1. WayInv => DeliveredAsAddressed
  BY DEF WayInv, DeliveredOK, Arrived, DeliveredAsAddressed
<1>2. QED  BY <1>1, WayInvariant, PTL

\* The operator that SetFilterName installs, and the endpoint that it registers, agree:
\* HELICS never carries a message to an endpoint that does not exist.
THEOREM OperatorsAgree ==
  ASSUME Straight
  PROVE  Spec => []NoneAstray
<1>1. WayInv => NoneAstray
  <2> SUFFICES ASSUME WayInv, NEW m \in helics
               PROVE  m.dest \in Outside \cup DOMAIN endpoints \cup registered
    BY DEF NoneAstray
  <2>1. CASE Crossed(m)
    BY <2>1 DEF Crossed
  <2>2. CASE Fresh(m) /\ m.dest = m.to
    BY <2>2 DEF Fresh
  <2>3. CASE Fresh(m) /\ m.dest # m.to
    <3>1. m.from \in filters /\ m.dest = Prefixed(m.from)
      BY <2>3 DEF Fresh, Rename
    <3>2. QED  BY <3>1 DEF WayInv, SetupOK, FiltersOK
  <2>4. QED  BY <2>1, <2>2, <2>3 DEF WayInv, HelicsOK
<1>2. QED  BY <1>1, WayInvariant, PTL

\* Send finds every application under the name it was installed with: SetName and
\* SanitizeName, which change names, and the lookup, which changes them once more,
\* agree.
THEOREM InstalledIsFound == Spec => []LookupFindsInstalled
<1>1. Init => IInv
  BY DEF Init, IInv, RegistryOK, LookupFindsInstalled
<1>2. IInv /\ [Next]_vars => IInv'
  BY StepPreserves
<1>3. IInv => LookupFindsInstalled
  BY DEF IInv
<1>4. QED  BY <1>1, <1>2, <1>3, PTL DEF Spec

================================================================================
