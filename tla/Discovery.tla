------------------------------- MODULE Discovery -------------------------------
(***************************************************************************)
(* Probes, answers and reports: the engines of Registry on the sockets     *)
(* that Sockets bound.  scan sends each engine's request from all of its   *)
(* sockets; devices answer; the network loses, delays, duplicates and      *)
(* reorders what it likes, and hands the host its own multicasts and       *)
(* broadcasts back; recv_loop parses what a socket receives and reports.   *)
(*                                                                         *)
(* Wildcard sockets receive multicast and broadcast, unicast goes to the   *)
(* socket bound to the address if there is one, else to the wildcard one.  *)
(*                                                                         *)
(* Bound: MaxAnswers different answers.                                    *)
(* Abstracted: one device of each kind, and what a report says beyond who  *)
(* made it of what.  The mDNS broker's parsing is not part of this module. *)
(***************************************************************************)
EXTENDS Sockets, Registry

CONSTANTS
  Device,       \* the source of what a device sends
  MaxAnswers

\* The constants of Sockets are those of the registry.
ASSUME RegistryAssumption ==
  /\ Owners = RegistryOwners /\ Broker = BrokerName
  /\ Mode = RegistryMode /\ Fixed = RegistryFixed /\ Reserves = RegistryReserves

VARIABLES
  air,      \* the datagrams sent so far: the network may deliver any, any time
  reports   \* what the engines reported, and of which datagram

discoveryVars == <<vars, air, reports>>

Datagram(src, cast, to, port, e, kind) ==
  [src |-> src, cast |-> cast, to |-> to, port |-> port, of |-> e, kind |-> kind]

Payload(d) == IF d.kind = "request" THEN Registry[d.of].request ELSE Answers[d.of]

SelectedEngines == Selected \cap EngineNames

-----------------------------------------------------------------------------
DiscoveryInit ==
  /\ Init
  /\ air = {} /\ reports = {}

StartStep == Next /\ UNCHANGED <<air, reports>>

SocketsOf(e) == { s \in socks : s.owner = e }

\* Each socket of the engine sends the request to each of its destinations.
Requests(e) ==
  { Datagram(s, to.cast, None, to.port, e, "request") :
      s \in SocketsOf(e), to \in Registry[e].probes }

\* Scanner::scan: every engine's scan in turn.
Scan ==
  /\ status = "listening"
  /\ air' = air \cup UNION { Requests(e) : e \in SelectedEngines }
  /\ UNCHANGED <<vars, reports>>

\* A device answers a request it heard: to the socket that sent it, or to the
\* port where its engine listens, at the host's address or to the group.
MayAnswer(d) ==
  /\ d.kind = "request"
  /\ Cardinality({ x \in air : x.kind = "answer" }) < MaxAnswers

AnswerSource(d) ==
  /\ MayAnswer(d)
  /\ air' = air \cup {Datagram(Device, "unicast", d.src.addr, d.src.port, d.of, "answer")}
  /\ UNCHANGED <<vars, reports>>

AnswerPort(d, a) ==
  /\ MayAnswer(d)
  /\ HasFixed(d.of)
  /\ LET cast == IF a = Any THEN "multicast" ELSE "unicast"
     IN  air' = air \cup {Datagram(Device, cast, a, Fixed[d.of], d.of, "answer")}
  /\ UNCHANGED <<vars, reports>>

\* The sockets a datagram is handed to.
Receivers(d) ==
  LET bound    == { s \in socks : s.port = d.port /\ s.addr = d.to }
      wildcard == { s \in socks : s.port = d.port /\ s.addr = Any }
  IN  IF d.cast = "unicast" /\ bound # {} THEN bound ELSE wildcard

\* recv_loop: parse what was received and report what it yields.
Receive(s, d) ==
  /\ s \in Receivers(d) /\ s.owner \in EngineNames
  /\ Parses(s.owner, Payload(d))
  /\ reports' = reports \cup {[by |-> s.owner, of |-> d.of, kind |-> d.kind]}
  /\ UNCHANGED <<vars, air>>

-----------------------------------------------------------------------------
DiscoveryNext ==
  \/ StartStep
  \/ Scan
  \/ \E d \in air : AnswerSource(d) \/ \E a \in Nics \cup {Any} : AnswerPort(d, a)
  \/ \E d \in air : \E s \in Receivers(d) : Receive(s, d)

DiscoverySpec == DiscoveryInit /\ [][DiscoveryNext]_discoveryVars

-----------------------------------------------------------------------------
(***************************************************************************)
(* Properties.                                                             *)
(***************************************************************************)
\* The requests of ours that pass a parser of ours: WSDiscovery's own probe, whose
\* default payload has the address and the types parse looks for; and Hanwha's, as
\* long as a NiceVision answer, if NiceVision drew the port Hanwha probes.
LooksLikeAnAnswer(r) ==
  \/ ~OnvifVerbatim /\ r = [by |-> "Wsd", of |-> "Wsd", kind |-> "request"]
  \/ r = [by |-> "NiceVision", of |-> "Hanwha", kind |-> "request"]

\* The fixed ports of this start that no one reserved, and free_port may draw.
Unclaimed == { Fixed[o] : o \in { x \in Selected : HasFixed(x) } } \ Reserved

\* README.md:14-15, "prints each device that answers": an engine reports only
\* answers of its own protocol: not the echo of its own request, not another
\* engine's request to a port both use, not another protocol's answer -- but
\* for the answers of an engine whose fixed port nobody reserved, and for the
\* requests that look like an answer.
OnlyAnswersAreReported ==
  \A r \in reports : ~LooksLikeAnAnswer(r) =>
    /\ r.kind = "answer"
    /\ (HasFixed(r.of) => Fixed[r.of] \in Reserved) => r.of = r.by

\* The engine has the socket its listen asks for on its fixed port.
HearsItsPort(e) == Sock(e, Any, Fixed[e]) \in socks

\* An answer to a socket that asked, or to the port where its engine listens,
\* is handed to a socket of that engine and no other, whose parse takes it
\* (unless another program shares the port: then the kernel picks one of the two).
AnswersAreHeard ==
  \A d \in air :
    /\ d.kind = "answer" /\ d.port \notin { f.port : f \in foreign } \cup Unclaimed
    /\ HasFixed(d.of) /\ d.port = Fixed[d.of] => HearsItsPort(d.of)
    =>
      /\ Receivers(d) # {}
      /\ \A s \in Receivers(d) : s.owner = d.of /\ Parses(d.of, Payload(d))
=============================================================================
