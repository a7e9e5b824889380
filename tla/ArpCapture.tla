------------------------------ MODULE ArpCapture ------------------------------
(***************************************************************************)
(* The ARP engine within one start: listen and scan of protocols/arp.rs,   *)
(* the capture threads of arp/capture.rs and the consumer task.            *)
(*                                                                         *)
(* Each NIC that can be opened gets a thread, which loops: end if          *)
(* cancelled, send what is queued for injection, wait up to 100 ms for a   *)
(* frame and pass it on.  The consumer turns the frames into reports until *)
(* the last thread has gone.  scan() queues requests for the threads.      *)
(*                                                                         *)
(* A captured frame is its sender address, or one that frame::parse        *)
(* refuses: pcap's filter lets only ARP through, but it may be cut short.  *)
(* MAC, device type and vendor are left out.                               *)
(* Bounds: MaxChannel frames on the channel, MaxScans sweeps.              *)
(***************************************************************************)
EXTENDS Naturals, FiniteSets, SequencesExt

CONSTANTS
  Nics,        \* the interfaces
  OurIPs,      \* addresses the host may have
  Hosts,       \* addresses of other hosts
  Addresses,   \* what the interfaces have at first
  Mobile,      \* those that interfaces may gain and lose later
  Private,     \* those of our addresses that is_private
  SubnetHosts, \* subnet_hosts: the first hosts of the subnet of each of our addresses
  Broadcast,
  Malformed,   \* a frame too short to be parsed
  MaxChannel, MaxScans

ASSUME AddressesAssumption ==
  /\ Addresses \in [Nics -> SUBSET OurIPs]
  /\ Mobile \subseteq OurIPs /\ Private \subseteq OurIPs
  /\ SubnetHosts \in [OurIPs -> SUBSET (OurIPs \cup Hosts)]
  /\ OurIPs \cap Hosts = {} /\ {Broadcast, Malformed} \cap (OurIPs \cup Hosts) = {}
  /\ IsFiniteSet(OurIPs) /\ IsFiniteSet(Hosts)

ASSUME BoundsAssumption == MaxChannel \in Nat \ {0} /\ MaxScans \in Nat

VARIABLES
  addrs,      \* the addresses the interfaces have now
  local,      \* local_ips: those they had when listen ran
  thread,     \* where each capture thread is, "none" for a NIC not opened
  inject,     \* the requests queued for each thread
  channel,    \* the frames on their way to the consumer
  consumer,   \* the consumer task: none, running or ended
  cancelled,  \* the scan's token
  reports,    \* the addresses reported
  captured,   \* history: the frames the threads passed on
  late,       \* history: frames each thread passed on after the cancel
  scans       \* history: sweeps so far

listening == <<local, consumer>>
threads   == <<thread, inject, channel, captured, late>>
vars      == <<addrs, listening, threads, cancelled, reports, scans>>

Request(sender, target) == [sender |-> sender, target |-> target]
Frames == OurIPs \cup Hosts \cup {Malformed}

Alive(n) == thread[n] \notin {"none", "ended"}

-----------------------------------------------------------------------------
Init ==
  /\ addrs = Addresses /\ local = {}
  /\ thread = [n \in Nics |-> "none"] /\ inject = [n \in Nics |-> << >>]
  /\ channel = << >> /\ consumer = "none"
  /\ cancelled = FALSE
  /\ reports = {} /\ captured = {} /\ late = [n \in Nics |-> 0] /\ scans = 0

\* Arp::listen: a thread for each NIC that has an address and can be opened, and
\* the consumer.
Listen(opened) ==
  /\ consumer = "none"
  /\ \A n \in opened : addrs[n] # {}
  /\ local'  = UNION { addrs[n] : n \in Nics }
  /\ thread' = [n \in Nics |-> IF n \in opened THEN "checking" ELSE "none"]
  /\ consumer' = "running"
  /\ UNCHANGED <<addrs, inject, channel, captured, late, cancelled, reports, scans>>

\* Mutant: the address itself is asked for, too.
SweepPlanWithOwn(a) == SubnetHosts[a]

\* The hosts to ask for from an address; another of our own may be among them.
SweepPlan(a) == SubnetHosts[a] \ {a}

\* The requests of one sweep on a NIC: from each private address for the hosts of
\* its subnet (of none if the address is no longer there when its mask is looked
\* up), and one broadcast from the first private address, hosts or no hosts.
Requests(n, masked) ==
  LET private == addrs[n] \cap Private
      unicast == UNION { { Request(a, h) : h \in SweepPlan(a) } : a \in private \cap masked }
  IN  SetToSeq(unicast)
        \o (IF private = {} THEN << >>
            ELSE <<Request(CHOOSE a \in private : TRUE, Broadcast)>>)

\* Arp::scan: a NIC whose MAC cannot be read is skipped; what a thread that has
\* gone would get is dropped with a warning.
Scan(known, masked) ==
  /\ consumer # "none"
  /\ scans < MaxScans
  /\ scans' = scans + 1
  /\ inject' = [n \in Nics |-> IF n \in known /\ Alive(n) THEN inject[n] \o Requests(n, masked)
                                                        ELSE inject[n]]
  /\ UNCHANGED <<addrs, listening, thread, channel, captured, late, cancelled, reports>>

\* Scanner::stop cancels the token (and then awaits the consumer).
Cancel ==
  /\ consumer # "none" /\ ~cancelled
  /\ cancelled' = TRUE
  /\ UNCHANGED <<addrs, listening, threads, reports, scans>>

(***************************************************************************)
(* A capture thread.                                                       *)
(***************************************************************************)
\* Mutant: the queue is not looked at.
CheckAndCapture(n) ==
  /\ thread[n] = "checking"
  /\ thread' = [thread EXCEPT ![n] = IF cancelled THEN "ended" ELSE "capturing"]
  /\ UNCHANGED <<addrs, listening, inject, channel, captured, late, cancelled, reports, scans>>

Check(n) ==
  /\ thread[n] = "checking"
  /\ thread' = [thread EXCEPT ![n] = IF cancelled THEN "ended" ELSE "draining"]
  /\ UNCHANGED <<addrs, listening, inject, channel, captured, late, cancelled, reports, scans>>

\* sendpacket; a failure is a warning.
Inject(n) ==
  /\ thread[n] = "draining"
  /\ inject[n] # << >>
  /\ inject' = [inject EXCEPT ![n] = Tail(@)]
  /\ UNCHANGED <<addrs, listening, thread, channel, captured, late, cancelled, reports, scans>>

Drained(n) ==
  /\ thread[n] = "draining"
  /\ inject[n] = << >>
  /\ thread' = [thread EXCEPT ![n] = "capturing"]
  /\ UNCHANGED <<addrs, listening, inject, channel, captured, late, cancelled, reports, scans>>

\* What may be on the wire: frames of other hosts, our own, and frames cut short.
OnWire(n, f) == f \in Hosts \cup addrs[n] \cup {Malformed}

\* Counted up to two.
CountedLate(n) == [late EXCEPT ![n] = IF cancelled /\ @ < 2 THEN @ + 1 ELSE @]

\* Mutant: the token is looked at only after a timeout.
CaptureInARow(n, f) ==
  /\ thread[n] = "capturing"
  /\ OnWire(n, f)
  /\ Len(channel) < MaxChannel
  /\ channel'  = Append(channel, f)
  /\ captured' = captured \cup {f}
  /\ late'     = CountedLate(n)
  /\ thread'   = [thread EXCEPT ![n] = "draining"]
  /\ UNCHANGED <<addrs, listening, inject, cancelled, reports, scans>>

Capture(n, f) ==
  /\ thread[n] = "capturing"
  /\ OnWire(n, f)
  /\ Len(channel) < MaxChannel
  /\ channel'  = Append(channel, f)
  /\ captured' = captured \cup {f}
  /\ late'     = CountedLate(n)
  /\ thread'   = [thread EXCEPT ![n] = "checking"]
  /\ UNCHANGED <<addrs, listening, inject, cancelled, reports, scans>>

\* 100 ms without a frame.
TimeoutExpired(n) ==
  /\ thread[n] = "capturing"
  /\ thread' = [thread EXCEPT ![n] = "checking"]
  /\ UNCHANGED <<addrs, listening, inject, channel, captured, late, cancelled, reports, scans>>

\* Any other error: the thread gives up.
CaptureFails(n) ==
  /\ thread[n] = "capturing"
  /\ thread' = [thread EXCEPT ![n] = "ended"]
  /\ UNCHANGED <<addrs, listening, inject, channel, captured, late, cancelled, reports, scans>>

(***************************************************************************)
(* The consumer.                                                           *)
(***************************************************************************)
ArpParse(f) == {f} \ {Malformed}

FilterLocal(devices) == devices \ local

Consume ==
  /\ consumer = "running"
  /\ channel # << >>
  /\ reports' = reports \cup FilterLocal(ArpParse(Head(channel)))
  /\ channel' = Tail(channel)
  /\ UNCHANGED <<addrs, listening, thread, inject, captured, late, cancelled, scans>>

\* Mutants: the consumer leaves on the cancel; it has a sender of its own.
LeavesOnCancel == cancelled \/ \A n \in Nics : ~Alive(n)
KeepsSender    == FALSE

\* recv returns None: every sender is dropped and the channel is empty.
ChannelClosed == channel = << >> /\ \A n \in Nics : ~Alive(n)

ConsumerEnds ==
  /\ consumer = "running"
  /\ ChannelClosed
  /\ consumer' = "ended"
  /\ UNCHANGED <<addrs, local, threads, cancelled, reports, scans>>

\* An interface gains or loses an address.
AddressChanges(n, a) ==
  /\ a \notin UNION { addrs[m] : m \in Nics \ {n} }
  /\ addrs' = [addrs EXCEPT ![n] = IF a \in @ THEN @ \ {a} ELSE @ \cup {a}]
  /\ UNCHANGED <<listening, threads, cancelled, reports, scans>>

-----------------------------------------------------------------------------
ThreadStep(n) ==
  \/ Check(n) \/ Inject(n) \/ Drained(n) \/ TimeoutExpired(n) \/ CaptureFails(n)
  \/ \E f \in Frames : Capture(n, f)

Next ==
  \/ \E opened \in SUBSET Nics : Listen(opened)
  \/ \E known \in SUBSET Nics, masked \in SUBSET OurIPs : Scan(known, masked)
  \/ Cancel
  \/ \E n \in Nics : ThreadStep(n)
  \/ Consume \/ ConsumerEnds
  \/ \E n \in Nics, a \in Mobile : AddressChanges(n, a)

Spec == Init /\ [][Next]_vars

(***************************************************************************)
(* A thread runs and pcap's read timeout expires; the consumer is polled   *)
(* when a frame or the end of the channel is there.                        *)
(***************************************************************************)
Fairness ==
  /\ \A n \in Nics : WF_vars(ThreadStep(n))
  /\ WF_vars(Consume) /\ WF_vars(ConsumerEnds)

FairSpec == Spec /\ Fairness

-----------------------------------------------------------------------------
(***************************************************************************)
(* Properties.                                                             *)
(***************************************************************************)
\* Requests go from an address of ours to another address, which may be ours too,
\* or to all: a request for its own sender would be a gratuitous ARP (is_garp), by
\* which a device announces itself.
RequestFrames ==
  { r \in [sender : OurIPs, target : OurIPs \cup Hosts \cup {Broadcast}] : r.target # r.sender }

\* The types of the state; what is queued for a thread are such requests.
TypeOK ==
  /\ addrs \in [Nics -> SUBSET OurIPs] /\ local \subseteq OurIPs
  /\ thread \in [Nics -> {"none", "checking", "draining", "capturing", "ended"}]
  /\ inject \in [Nics -> Seq(RequestFrames)]
  /\ channel \in Seq(Frames)
  /\ consumer \in {"none", "running", "ended"}
  /\ cancelled \in BOOLEAN
  /\ reports \subseteq OurIPs \cup Hosts /\ captured \subseteq Frames
  /\ late \in [Nics -> 0..2] /\ scans \in 0..MaxScans

\* stop() loses nothing: once the consumer has ended, every frame a thread
\* passed on, even after the cancel, has been reported, was our own, or was cut.
CapturedIsReported ==
  consumer = "ended" => captured \ (local \cup {Malformed}) \subseteq reports

\* After the cancel a thread passes on at most the frame it was waiting for.
OneFrameAfterCancel == \A n \in Nics : late[n] <= 1

\* stop() awaits the consumer: it ends once the scan is cancelled, whatever the
\* traffic, and whichever NICs could be opened.
ArpEnds == cancelled ~> consumer = "ended"

\* A queued request is sent however busy the NIC is, unless its thread ends.
RequestsLeave ==
  \A n \in Nics : inject[n] # << >> ~> (inject[n] = << >> \/ ~Alive(n))
=============================================================================
