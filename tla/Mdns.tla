---------------------------------- MODULE Mdns ----------------------------------
(***************************************************************************)
(* The mDNS broker of one start: universal-scanner/src/mdns.rs, with the   *)
(* listen and scan of Axis, Google Cast and Arecont.                       *)
(*                                                                         *)
(* Scanner::start lets the broker bind its sockets and spawn their receive *)
(* tasks first; the engines then register their domains one by one, while  *)
(* packets already come in.  A task parses a packet and looks its answers  *)
(* up in the handlers: the first answer whose name is registered hands the *)
(* whole packet to that one engine, which reports devices.                 *)
(*                                                                         *)
(* The network is any choice of Messages, to any socket whose task runs.   *)
(* Bound: MaxHeard packets.                                                *)
(***************************************************************************)
EXTENDS MdnsEngines

CONSTANTS
  Wanted,      \* the engines the filter selects
  NicSeq,      \* the interface addresses, in enumeration order
  Group,       \* the socket on the multicast group
  Messages,    \* what may come in: wire |-> the message and, if its sender followed
               \* the rules, said |-> its records and at |-> where it put them
  MaxHeard

ASSUME WantedAssumption == Wanted \subseteq MdnsEngineNames /\ MaxHeard \in Nat

\* What an A record says is an IPv4 address, and AAAA an IPv6 address.
ASSUME MessagesAssumption ==
  \A m \in Messages :
    /\ m.said \in Seq(ToSet(m.said)) /\ m.wire.cells \in Seq(ToSet(m.wire.cells))
    /\ m.wire.questions \in Nat /\ m.wire.records \in Nat
    /\ \A q \in DOMAIN m.wire.cells :
         At(m.wire.cells, q, "fixed") => m.wire.cells[q].size \in Nat
    /\ \A r \in ToSet(m.said) :
         /\ r = Record(r.name, r.type, r.data)
         /\ r.type = "A" => r.data \in IPv4
         /\ r.type = "AAAA" => r.data \in IPv6

Nics == ToSet(NicSeq)

VARIABLES
  phase,      \* binding, registering, listening or cancelled
  next,       \* the next socket to bind; from which domain on to register
  handlers,   \* MdnsBroker::handlers: the engine of each registered domain
  socks,      \* MdnsBroker::send_sockets
  alive,      \* sockets whose receive task runs
  asked,      \* the queries sent: a domain, and the socket it left from
  reports,    \* what was reported: by whom, of which message, the device
  heard       \* history: messages taken from a socket, all registered or not yet

mdnsVars == <<phase, next, handlers, socks, alive, asked, reports, heard>>

-----------------------------------------------------------------------------
MdnsInit ==
  /\ phase = "binding" /\ next = 1
  /\ handlers = << >>
  /\ socks = {} /\ alive = {}
  /\ asked = {} /\ reports = {} /\ heard = {}

(***************************************************************************)
(* MdnsBroker::listen: the group socket, then one per interface.  A socket *)
(* that cannot be bound, or has no port, is left out with a warning.       *)
(***************************************************************************)
BindsNext(s) == phase = "binding" /\ next <= Len(NicSeq) + 1 /\ s = (<<Group>> \o NicSeq)[next]

Listens(s) ==
  /\ BindsNext(s)
  /\ alive' = alive \cup {s}
  /\ socks' = IF s = Group THEN socks ELSE socks \cup {s}
  /\ next' = next + 1
  /\ UNCHANGED <<phase, handlers, asked, reports, heard>>

LeavesOut(s) ==
  /\ BindsNext(s)
  /\ next' = next + 1
  /\ UNCHANGED <<phase, handlers, socks, alive, asked, reports, heard>>

BrokerListens ==
  /\ phase = "binding" /\ next > Len(NicSeq) + 1
  /\ phase' = "registering" /\ next' = 1
  /\ UNCHANGED <<handlers, socks, alive, asked, reports, heard>>

(***************************************************************************)
(* listen of the engines: register_domain, one domain after the other.     *)
(***************************************************************************)
ToRegister ==
  { i \in DOMAIN Registrations : i >= next /\ Registrations[i].engine \in Wanted }

WithHandler(r) ==
  [d \in DOMAIN handlers \cup {r.domain} |-> IF d = r.domain THEN r.engine ELSE handlers[d]]

RegisterDomain ==
  /\ phase = "registering"
  /\ \E i \in FirstAmong(ToRegister) :
       /\ handlers' = WithHandler(Registrations[i])
       /\ next' = i + 1
  /\ UNCHANGED <<phase, socks, alive, asked, reports, heard>>

AllRegistered ==
  /\ phase = "registering" /\ ToRegister = {}
  /\ phase' = "listening"
  /\ UNCHANGED <<next, handlers, socks, alive, asked, reports, heard>>

\* scan of each engine: a query per domain, from every interface socket, which the
\* broker keeps when it is cancelled.
Scan ==
  /\ phase \in {"listening", "cancelled"}
  /\ asked' = asked \cup ((UNION { DomainSet(e) : e \in Wanted }) \X socks)
  /\ UNCHANGED <<phase, next, handlers, socks, alive, reports, heard>>

(***************************************************************************)
(* A receive task: on_packet.                                              *)
(***************************************************************************)
\* Mutant: the packet goes to every engine that has registered.
TriggeredAll(answers) == { handlers[d] : d \in DOMAIN handlers }

\* Mutant: only the name of the first answer is looked up.
TriggeredByHead(answers) ==
  { handlers[answers[i].name] : i \in { j \in DOMAIN answers :
                                        j = 1 /\ answers[j].name \in DOMAIN handlers } }

\* The engine the first answer with a registered name belongs to.
Triggered(answers) ==
  LET known == { i \in DOMAIN answers : answers[i].name \in DOMAIN handlers }
  IN  { handlers[answers[i].name] : i \in FirstAmong(known) }

ReportsOf(m) ==
  LET parsed == ParseDns(m.wire)
  IN  IF parsed.ok
        THEN UNION { { [by |-> e, of |-> m, device |-> d] : d \in Convert(e, parsed.answers) } :
                       e \in Triggered(parsed.answers) }
        ELSE {}

Hears(s, m) ==
  /\ s \in alive
  /\ heard' = heard \cup {[message |-> m, complete |-> phase \in {"listening", "cancelled"}]}
  /\ Cardinality(heard') <= MaxHeard
  /\ reports' = reports \cup ReportsOf(m)
  /\ UNCHANGED <<phase, next, handlers, socks, alive, asked>>

\* The token is cancelled; each task leaves its loop when select! takes that
\* branch, and may take a packet or two before.
Cancel ==
  /\ phase = "listening"
  /\ phase' = "cancelled"
  /\ UNCHANGED <<next, handlers, socks, alive, asked, reports, heard>>

TaskEnds(s) ==
  /\ phase = "cancelled"
  /\ s \in alive
  /\ alive' = alive \ {s}
  /\ UNCHANGED <<phase, next, handlers, socks, asked, reports, heard>>

-----------------------------------------------------------------------------
MdnsNext ==
  \/ \E s \in Nics \cup {Group} : Listens(s) \/ LeavesOut(s)
  \/ BrokerListens \/ RegisterDomain \/ AllRegistered \/ Scan
  \/ \E s \in Nics \cup {Group}, m \in Messages : Hears(s, m)
  \/ Cancel
  \/ \E s \in Nics \cup {Group} : TaskEnds(s)

MdnsSpec == MdnsInit /\ [][MdnsNext]_mdnsVars

-----------------------------------------------------------------------------
(***************************************************************************)
(* Properties.                                                             *)
(***************************************************************************)
\* The records before the first of an unknown type: all that is looked at.
Seen(m) ==
  LET known(n) == \A i \in 1..n : m.said[i].type \in KnownTypes
      last     == CHOOSE n \in 0..Len(m.said) :
                    known(n) /\ (n < Len(m.said) => ~known(n + 1))
  IN  SubSeq(m.said, 1, last)

AddressesIn(m) == Addresses(Seen(m))

NamesOf(answers) == { answers[i].name : i \in DOMAIN answers }

NamesIn(m) == NamesOf(Seen(m))

\* read_name ends at every position.  It fails if the name runs in a circle, out
\* of the message, or through as many pointers as the budget; otherwise it returns
\* what the cells met spell.
NamesDecode(cells) ==
  \A p \in DOMAIN cells :
    LET name  == NameAt(cells, p)
        steps == { n \in 0..Len(cells) : EndsIn(cells, p, n) }
    IN  /\ name.ok <=> (\E n \in steps : Cardinality(PointersMet(cells, p, n)) < Redirects)
        /\ name.ok => \A n \in steps : name.labels = Spelled(cells, p, n)

IsWritten(m) == Carries(m.wire, m.said, m.at)

\* A packet that is written by the rules parses, and gives the records its sender
\* put down, up to the first of a type the decoder does not know, whether their
\* names are compressed or not.
DecodesAsSaid(m) == IsWritten(m) => ParseDns(m.wire) = Answers(Seen(m))

\* mdns.rs:416, "compression pointers, budget": the decoder, which calls itself at
\* every pointer of a name, ends on every message, with each name spelt out and
\* with the records that were put into the message.
MessagesDecode ==
  \A h \in heard : NamesDecode(h.message.wire.cells) /\ DecodesAsSaid(h.message)

\* A report is founded on some records: they name a domain of the very engine
\* that makes it, and have the reported address.
Founded(r, answers) ==
  /\ r.device.protocol = r.by
  /\ NamesOf(answers) \cap DomainSet(r.by) # {}
  /\ r.device.ip \in Addresses(answers)

\* A device reported by an engine of a packet that is written by the rules stands
\* in it -- whatever else does, whatever its layout, and however many engines have
\* registered.
ReportsAreFounded == \A r \in reports : IsWritten(r.of) => Founded(r, Seen(r.of))

\* A packet that is written by the rules and speaks for one engine, and that has
\* an address and no empty TXT before any record of a type the decoder does not know.
SpeaksFor(m, e) ==
  /\ IsWritten(m)
  /\ \A x \in Wanted : (NamesIn(m) \cap DomainSet(x) # {}) <=> (x = e)
  /\ AddressesIn(m) # {}
  /\ EmptyTxts(Seen(m)) = {}

\* Once all have registered, a device that answers for one engine is reported
\* by it with an address of each family it gave, and by no other engine: the
\* rule against autoconfigured addresses never hides it, nor does the layout.
DevicesAreReported ==
  \A h \in heard, e \in Wanted :
    h.complete /\ SpeaksFor(h.message, e) =>
      LET of == { r \in reports : r.of = h.message }
      IN  /\ \A family \in {IPv4, IPv6} :
               AddressesIn(h.message) \cap family # {} =>
                 \E r \in of : r.device.ip \in family
          /\ \A r \in of : r.by = e

\* The orders in which some number of records may come.
Orders ==
  [n \in { Len(m.said) : m \in Messages } |-> Bijection(1..n, 1..n)]

SaysTheSame(m, other) ==
  /\ Len(m.said) = Len(other.said)
  /\ \E o \in Orders[Len(m.said)] :
       other.said = [i \in 1..Len(m.said) |-> m.said[o[i]]]

\* A packet that is written by the rules and says nothing that its order bears on:
\* the parse stops at an unknown type (mdns.rs:565), the joins take the first or last
\* of several records of a type, and a packet that names domains of two engines goes
\* to the one it names first (mdns.rs:71).
OrderIsOpen(m) ==
  /\ IsWritten(m)
  /\ \A i \in DOMAIN m.said : m.said[i].type \in KnownTypes
  /\ \A t \in {"PTR", "TXT", "A", "AAAA"} : Cardinality(PositionsOf(m.said, {t})) <= 1
  /\ \A x, y \in { e \in Wanted : NamesOf(m.said) \cap DomainSet(e) # {} } : x = y

\* mDNS leaves the order of the records open, and a responder may compress them or
\* not: once all have registered, such a packet is parsed, handed over and joined to
\* the very devices that it would be with its records in any other order and layout.
RecordOrderIrrelevant ==
  \A h \in heard, other \in Messages :
    /\ h.complete /\ OrderIsOpen(h.message)
    /\ SaysTheSame(h.message, other) /\ IsWritten(other)
    => { r.device : r \in { r \in reports : r.of = h.message } }
         = { r.device : r \in ReportsOf(other) }
=============================================================================
