----------------------------- MODULE HelicsRouting -----------------------------
(***************************************************************************)
(* Which way a message takes: the names under which helper/helics-helper.cc *)
(* installs applications, the HELICS endpoints and filters they register,  *)
(* and the lookups by which a message that HELICS carries is led to the    *)
(* simulated network, through it, and back.                                *)
(*                                                                         *)
(* A name is a sequence of atoms: "/", "+", and pieces that no operation   *)
(* cuts.  Times, tags and faults of the network are in HelicsApplication.  *)
(***************************************************************************)
EXTENDS Integers, Sequences, FiniteSets, SequencesExt

CONSTANTS
  Atoms,        \* what names are made of
  FedName,      \* name of the federate of ns-3
  Requests,     \* calls of Install... the scenario may make, in any order
  Outside,      \* endpoints of other federates
  MaxMessages   \* bound: messages that are sent

Text == Seq(Atoms)

ASSUME AtomsAssumption == {"/", "+", "fout"} \subseteq Atoms
ASSUME RequestsAssumption ==
  Requests \subseteq
    [class : {"filter", "endpoint", "sink", "source", "PMU", "PDC"}, name : Text,
     configured : BOOLEAN, is_global : BOOLEAN, destination : Text, local : Nat]
\* The helper takes an endpoint of the configuration for filter applications only, and
\* a choice between local and global endpoints for sinks and sources only.
ASSUME HelperAssumption ==
  \A r \in Requests : /\ r.configured => r.class \in {"filter", "endpoint"}
                      /\ r.is_global => r.class \in {"sink", "source"}
ASSUME OutsideAssumption ==
  /\ FedName \in Text \ {<<>>} /\ Outside \subseteq Text
  /\ MaxMessages \in Nat

VARIABLES
  status,     \* "setup", "running", or why the program aborted
  names,      \* ns3::Names: map from sanitized names to applications
  apps,       \* applications, named by the request that installed them
  registered, \* endpoints that come with the federate
  endpoints,  \* map from endpoints of this federate to applications
  filters,    \* endpoints whose messages HELICS gives to the rename operator
  helics,     \* messages that HELICS carries
  network,    \* packets in the simulated network
  sent,       \* history: from where to where messages were sent
  delivered,  \* history: the messages that came to their end
  failed      \* history: the destination that Send did not find

setup == <<names, apps, registered, endpoints, filters>>
vars == <<status, setup, helics, network, sent, delivered, failed>>

Put(map, key, value) ==
  [k \in DOMAIN map \cup {key} |-> IF k = key THEN value ELSE map[k]]

(***************************************************************************)
(* Names.                                                                  *)
(***************************************************************************)
SanitizeName(name) == ReplaceAll(name, "/", "+")

Prefixed(name) == FedName \o <<"/">> \o name

\* std::string::find.
Occurs(name, i) == IsPrefix(FedName, SubSeq(name, i, Len(name)))

\* The name of the federate, wherever it is, and the character after it go.
SetName(name) ==
  IF \E i \in DOMAIN name : Occurs(name, i)
  THEN LET pos == CHOOSE i \in DOMAIN name :
                    Occurs(name, i) /\ \A k \in 1 .. (i - 1) : ~ Occurs(name, k)
       IN  SubSeq(name, 1, pos - 1) \o SubSeq(name, pos + Len(FedName) + 1, Len(name))
  ELSE name

\* The name under which an application is found.
KeyOf(r) == SanitizeName(SetName(r.name))

\* InstallEndpoint: a filter application on an endpoint that has no filter.
IsFilter(r) == r.class \in {"filter", "endpoint"}

HasEndpoint(r) == IsFilter(r) \/ r.class \in {"sink", "source"}

\* registerEndpoint prefixes, registerGlobalEndpoint does not; the endpoints
\* of a configuration carry their full names.
EndpointName(r) == IF r.is_global \/ r.configured THEN r.name ELSE Prefixed(r.name)

\* Fault: the destination decides about the renaming.
RenameByDestination(src, dest) ==
  IF IsPrefix(FedName, dest) THEN dest ELSE Prefixed(src)

\* Fault: the name of the federate is put before the destination.
RenamePrefixesDestination(src, dest) ==
  IF IsPrefix(FedName, src) THEN dest ELSE Prefixed(dest)

\* The rename operator of SetFilterName.
Rename(src, dest) == IF IsPrefix(FedName, src) THEN dest ELSE Prefixed(src)

(***************************************************************************)
(* The federate: without a configuration, it has an endpoint that nobody   *)
(* listens to; with one, the endpoints and filters that it lists, whether  *)
(* or not an application is installed for them.                            *)
(***************************************************************************)
fout == Prefixed(<<"fout">>)

\* Endpoints that this federate may have.
Own == {fout} \cup {EndpointName(r) : r \in {r \in Requests : HasEndpoint(r)}}

\* HELICS keeps the names of endpoints unique.
ASSUME FederationAssumption == Outside \cap Own = {}
\* The filter of a configuration leads to the endpoint that is listed with it.
ASSUME ConfigurationAssumption ==
  \A r \in Requests :
    r.configured /\ r.class = "filter" => r.name = Prefixed(SetName(r.name))

SetupApplicationFederate == registered = {fout} /\ filters = {}

SetupApplicationFederateWithConfig ==
  LET listed == {r \in Requests : r.configured}
  IN  /\ registered = {r.name : r \in listed}
      /\ filters = {SetName(r.name) : r \in {r \in listed : r.class = "filter"}}

Init ==
  /\ status = "setup"
  /\ SetupApplicationFederate \/ SetupApplicationFederateWithConfig
  /\ names = <<>> /\ apps = {} /\ endpoints = <<>>
  /\ helics = {} /\ network = {}
  /\ sent = {} /\ delivered = {} /\ failed = <<>>

(***************************************************************************)
(* Installation: SetFilterName, SetEndpointName, SetupFilterApplication,   *)
(* SetEndpoint or SetName, according to the class.  Names::Add and the     *)
(* registrations of HELICS abort when the name is taken.                   *)
(***************************************************************************)
Taken(r) ==
  \/ KeyOf(r) \in DOMAIN names
  \/ /\ HasEndpoint(r)
     /\ EndpointName(r) \in DOMAIN endpoints \cup (IF r.configured THEN {} ELSE registered)

\* SetupFilterApplication: the endpoint exists already and gets its callback.
IsListed(r) == r.name \in registered

Install(r) ==
  /\ status = "setup" /\ r \notin apps
  /\ r.configured => IsListed(r)
  /\ IF Taken(r)
     THEN status' = "name taken" /\ UNCHANGED setup
     ELSE /\ names' = Put(names, KeyOf(r), r)
          /\ apps' = apps \cup {r}
          /\ endpoints' = IF HasEndpoint(r)
                          THEN Put(endpoints, EndpointName(r), r) ELSE endpoints
          /\ filters' = IF r.class = "filter" /\ ~ r.configured
                        THEN filters \cup {r.name} ELSE filters
          /\ UNCHANGED <<status, registered>>
  /\ UNCHANGED <<helics, network, sent, delivered, failed>>

\* Fault: the result of Bind is not looked at.
StartUnbound ==
  /\ status = "setup" /\ status' = "running"
  /\ UNCHANGED <<setup, helics, network, sent, delivered, failed>>

\* StartApplication of all: an address can be bound once; a name and, for all but
\* filters, a destination must have been set (PDC and SPDC inherit it from the PMU).
Start ==
  /\ status = "setup"
  /\ status' =
       IF \E a, b \in apps : a # b /\ a.local = b.local THEN "failed to bind"
       ELSE IF \E a \in apps : \/ SetName(a.name) = <<>>
                               \/ ~ IsFilter(a) /\ a.destination = <<>>
       THEN "incomplete"
       ELSE "running"
  /\ UNCHANGED <<setup, helics, network, sent, delivered, failed>>

(***************************************************************************)
(* HELICS.  A message that leaves a filtered endpoint is led elsewhere and *)
(* remembers where it was to go.                                           *)
(***************************************************************************)
Posted(src, dest, m) ==
  [m EXCEPT !.dest = IF src \in filters THEN Rename(src, dest) ELSE dest,
            !.original_dest = dest]

Message(from, to) ==
  [from |-> from, to |-> to, dest |-> to, original_dest |-> to, crossings |-> 0]

MaySend(from, to) ==
  /\ status = "running"
  /\ Cardinality(sent) < MaxMessages /\ <<from, to>> \notin sent
  /\ sent' = sent \cup {<<from, to>>}

\* Another federate addresses one of its kind, an application, or nobody.
FederateSend(from, to) ==
  /\ MaySend(from, to)
  /\ helics' = helics \cup {Posted(from, to, Message(from, to))}
  /\ UNCHANGED <<status, setup, network, delivered, failed>>

FederateReceive(m) ==
  /\ status = "running" /\ m.dest \in Outside
  /\ helics' = helics \ {m}
  /\ delivered' = delivered \cup
       {[from |-> m.from, to |-> m.to, at |-> m.dest, crossings |-> m.crossings]}
  /\ UNCHANGED <<status, setup, network, sent, failed>>

\* Run takes and prints what no callback has taken.
Unclaimed == registered \ DOMAIN endpoints

PrintUnclaimed(m) ==
  /\ status = "running" /\ m.dest \in Unclaimed
  /\ helics' = helics \ {m}
  /\ UNCHANGED <<status, setup, network, sent, delivered, failed>>

(***************************************************************************)
(* Into the network: the callback of an endpoint, or a measurement.        *)
(***************************************************************************)
\* Fault: the destination is looked up as it is.
FindUnsanitized(dest) == {a \in apps : dest \in DOMAIN names /\ names[dest] = a}

Find(dest) ==
  {a \in apps : SanitizeName(dest) \in DOMAIN names /\ names[SanitizeName(dest)] = a}

Send(dest, m) ==
  IF Find(dest) = {}
  THEN /\ status' = "unknown destination" /\ failed' = dest
       /\ UNCHANGED network
  ELSE /\ network' = network \cup
            {[local |-> a.local, app |-> a, msg |-> [m EXCEPT !.crossings = @ + 1]] :
               a \in Find(dest)}
       /\ UNCHANGED <<status, failed>>

DoEndpoint(a, m) ==
  \/ IsFilter(a) /\ Send(m.original_dest, m)
  \/ a.class = "sink" /\ Send(a.destination, m)
  \/ /\ a.class = "source"
     /\ status' = "source with a message"
     /\ UNCHANGED <<network, failed>>

EndpointCallback(m) ==
  /\ status = "running" /\ m.dest \in DOMAIN endpoints
  /\ helics' = helics \ {m}
  /\ DoEndpoint(endpoints[m.dest], m)
  /\ UNCHANGED <<setup, sent, delivered>>

GenerateMeasurement(a) ==
  /\ a.class = "PMU" /\ MaySend(a.name, a.destination)
  /\ Send(a.destination, Message(a.name, a.destination))
  /\ UNCHANGED <<setup, helics, delivered>>

(***************************************************************************)
(* Out of the network.  A packet comes to the application that is bound to *)
(* its address; the message is stored at the one that Send has found.      *)
(***************************************************************************)
\* Fault: the message goes on in the name of the endpoint that has sent it.
FilterDoReadInOldName(a, m) ==
  /\ IsFilter(a)
  /\ helics' = helics \cup {Posted(m.from, m.original_dest, m)}
  /\ UNCHANGED <<status, delivered>>

FilterDoRead(a, m) ==
  /\ IsFilter(a)
  /\ helics' = helics \cup {Posted(EndpointName(a), m.original_dest, m)}
  /\ UNCHANGED <<status, delivered>>

SourceDoRead(a, m) ==
  /\ a.class = "source"
  /\ helics' = helics \cup {Posted(EndpointName(a), a.destination, m)}
  /\ UNCHANGED <<status, delivered>>

PDCDoRead(a, m) ==
  /\ a.class = "PDC"
  /\ delivered' = delivered \cup
       {[from |-> m.from, to |-> m.to, at |-> a.name, crossings |-> m.crossings]}
  /\ UNCHANGED <<status, helics>>

SinkDoRead(a) ==
  /\ a.class = "sink"
  /\ status' = "should not read"
  /\ UNCHANGED <<helics, delivered>>

PMUDoRead(a) ==
  /\ a.class = "PMU"
  /\ status' = "should not read"
  /\ UNCHANGED <<helics, delivered>>

HandleRead(p, a) ==
  /\ status = "running" /\ a.local = p.local
  /\ network' = network \ {p}
  /\ IF a = p.app
     THEN \/ FilterDoRead(a, p.msg) \/ SourceDoRead(a, p.msg)
          \/ PDCDoRead(a, p.msg) \/ SinkDoRead(a) \/ PMUDoRead(a)
     ELSE UNCHANGED <<status, helics, delivered>>
  /\ UNCHANGED <<setup, sent, failed>>

(***************************************************************************)
(* Specification.                                                          *)
(***************************************************************************)
\* The program has aborted, or all is sent and has arrived.
Finished ==
  /\ \/ status \notin {"setup", "running"}
     \/ status = "running" /\ helics = {} /\ network = {}
  /\ UNCHANGED vars

Carry(m) == FederateReceive(m) \/ PrintUnclaimed(m) \/ EndpointCallback(m)

Progress ==
  \/ \E m \in helics : Carry(m)
  \/ \E p \in network, a \in apps : HandleRead(p, a)

Addressees == Outside \cup registered \cup DOMAIN endpoints

Next ==
  \/ \E r \in Requests : Install(r)
  \/ Start
  \/ \E from \in Outside : \E to \in Addressees \ {from} : FederateSend(from, to)
  \/ \E a \in apps : GenerateMeasurement(a)
  \/ Progress
  \/ Finished

Spec == Init /\ [][Next]_vars

FairSpec == Spec /\ WF_vars(Progress)

(***************************************************************************)
(* Properties.                                                             *)
(***************************************************************************)
\* Names in which the name of this federate does not occur.
Plain(name) == \A i \in DOMAIN name : ~ Occurs(name, i)

NoPlus(name) == ~ Contains(name, "+")

\* The scenario leads no message back to where it came from: sinks send to sources and
\* PMUs to PDCs (where they send to others that cannot read, the program aborts),
\* sources to other federates, nothing that reads is found under the name of an endpoint
\* of this federate, and the federate's name is not in a name twice.
Straight ==
  /\ \A r, q \in Requests : SanitizeName(r.destination) = KeyOf(q) =>
       /\ r.class = "sink" => q.class \in {"source", "sink", "PMU"}
       /\ r.class = "PMU" => q.class \in {"PDC", "sink", "PMU"}
  /\ \A r \in Requests : r.class = "source" => r.destination \in Outside \cup {<<>>}
  /\ \A q \in Requests :
       /\ q.class \notin {"sink", "PMU"} => \A e \in Own : SanitizeName(e) # KeyOf(q)
       /\ q.class = "source" => \A e \in Outside : SanitizeName(e) # KeyOf(q)
  /\ \A r \in Requests : Plain(SetName(r.name))

\* ... and nobody addresses, or is, what SetName and SanitizeName would rename.
Readable ==
  /\ \A e \in Outside : NoPlus(e)
  /\ \A r \in Requests : /\ r.class = "PMU" => NoPlus(r.destination)
                         /\ r.class = "PDC" => Plain(r.name)

Messages == [from : Text, to : Text, dest : Text,
             original_dest : Text, crossings : 0 .. 1]

\* Every variable stays in its range; in particular no message crosses the
\* network twice, although what a filter gives back to HELICS passes the filters.
TypeOK ==
  /\ status \in {"setup", "running", "name taken", "failed to bind", "incomplete",
                 "unknown destination", "source with a message", "should not read"}
  /\ apps \subseteq Requests /\ filters \cup registered \subseteq Text
  /\ \A n \in DOMAIN names : n \in Text /\ names[n] \in apps
  /\ \A e \in DOMAIN endpoints : e \in Text /\ endpoints[e] \in apps
  /\ helics \subseteq Messages
  /\ network \subseteq [local : Nat, app : apps, msg : Messages]
  /\ sent \subseteq Text \X Text
  /\ delivered \subseteq [from : Text, to : Text, at : Text,
                          crossings : 0 .. 1]
  /\ failed \in Text

\* Where a message to "to" is to come out, given the sinks and sources.
Terminus(to) ==
  IF to \in DOMAIN endpoints
  THEN {a.destination : a \in Find(endpoints[to].destination)}
  ELSE {to}

\* The detour is invisible: a message comes out where it was addressed to, and
\* from a filtered endpoint it has crossed the network exactly once.  (Unless an
\* application is installed under a name that another one has once sanitized:
\* it gets the messages for the other.)
DeliveredAsAddressed ==
  \A d \in delivered :
    Plain(d.from) /\ (\A a \in apps : NoPlus(a.name)) =>
      /\ d.at \in Terminus(d.to)
      /\ d.from \in filters => d.crossings = 1

\* Send finds every application under the name it was installed with, whatever
\* SetName has cut off and SanitizeName replaced.
LookupFindsInstalled ==
  status = "unknown destination" =>
    \A a \in apps : Plain(a.name) => a.name # failed

\* The operator of a filter and the registration of its endpoint agree: HELICS
\* never carries a message to an endpoint that does not exist.
NoneAstray ==
  \A m \in helics : m.dest \in Outside \cup DOMAIN endpoints \cup registered

\* A message between endpoints of other federates arrives, unless the program
\* aborts; so no two applications share an address to receive on.  (A configured
\* filter without an application swallows messages: Run prints them.)
EventuallyDelivered ==
  \A from, to \in Outside :
    (<<from, to>> \in sent)
      ~> \/ status # "running" \/ (from \in filters /\ Rename(from, to) \in Unclaimed)
         \/ \E d \in delivered : d.from = from /\ d.to = to

================================================================================
