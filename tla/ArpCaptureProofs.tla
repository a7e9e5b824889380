--------------------------- MODULE ArpCaptureProofs ---------------------------
(***************************************************************************)
(* Proofs about ArpCapture, for any interfaces, hosts and addresses.  The  *)
(* queues of requests matter to their own type only.                       *)
(***************************************************************************)
EXTENDS ArpCapture, SequenceTheorems, FiniteSetTheorems, FunctionTheorems, TLAPS

OnChannel == { channel[i] : i \in DOMAIN channel }

Typed ==
  /\ thread \in [Nics -> {"none", "checking", "draining", "capturing", "ended"}]
  /\ late \in [Nics -> 0..2]
  /\ channel \in Seq(Frames)

\* A frame that a thread passed on is reported, our own, cut, or still on its way.
CapturedIsSomewhere == captured \subseteq local \cup {Malformed} \cup reports \cup OnChannel

\* There are no threads before listen and none alive after the consumer.
ThreadsWithinConsumer ==
  /\ consumer = "none" => captured = {} /\ \A n \in Nics : thread[n] = "none"
  /\ consumer = "ended" => channel = << >> /\ \A n \in Nics : ~Alive(n)

\* A thread that passed on a frame after the cancel will see the cancel next.
LateEndsNext ==
  \A n \in Nics :
    late[n] # 0 => late[n] = 1 /\ cancelled /\ thread[n] \in {"checking", "ended"}

IInv == Typed /\ CapturedIsSomewhere /\ ThreadsWithinConsumer /\ LateEndsNext

-----------------------------------------------------------------------------
LEMMA InitIInv == Init => IInv
BY DEF Init, IInv, Typed, CapturedIsSomewhere, ThreadsWithinConsumer, LateEndsNext

\* A step that leaves threads, channel and consumer alone.
LEMMA Untouched ==
  ASSUME IInv, UNCHANGED <<local, consumer, thread, channel, captured, late, reports>>,
         cancelled => cancelled'
  PROVE  IInv'
BY DEF IInv, Typed, CapturedIsSomewhere, ThreadsWithinConsumer, LateEndsNext,
       OnChannel, Alive

LEMMA ListenIInv ==
  ASSUME IInv, NEW opened \in SUBSET Nics, Listen(opened)
  PROVE  IInv'
BY DEF IInv, Typed, CapturedIsSomewhere, ThreadsWithinConsumer, LateEndsNext,
       OnChannel, Alive, Listen

\* A thread that goes on without a frame; it goes to the top of its loop, or
\* passes the check of the token.
LEMMA ThreadMoves ==
  ASSUME IInv, NEW n \in Nics, Alive(n),
         NEW pc \in {"checking", "draining", "capturing", "ended"},
         thread' = [thread EXCEPT ![n] = pc],
         pc \in {"checking", "ended"} \/ late[n] = 0,
         UNCHANGED <<local, consumer, cancelled, channel, captured, late, reports>>
  PROVE  IInv'
<1>. USE DEF IInv
<1>1. consumer = "running" \/ consumer \notin {"none", "ended"}
  BY DEF ThreadsWithinConsumer, Alive
<1>2. Typed'
  BY DEF Typed
<1>3. CapturedIsSomewhere'
  BY DEF CapturedIsSomewhere, OnChannel
<1>4. ThreadsWithinConsumer'
  BY <1>1 DEF ThreadsWithinConsumer
<1>5. LateEndsNext'
  BY DEF LateEndsNext, Typed
<1>. QED
  BY <1>2, <1>3, <1>4, <1>5

LEMMA CaptureIInv ==
  ASSUME IInv, NEW n \in Nics, NEW f \in Frames, Capture(n, f)
  PROVE  IInv'
<1>. USE DEF IInv
<1>1. /\ thread[n] = "capturing" /\ thread' = [thread EXCEPT ![n] = "checking"]
      /\ channel' = Append(channel, f) /\ captured' = captured \cup {f}
      /\ late' = [late EXCEPT ![n] = IF cancelled /\ late[n] < 2 THEN late[n] + 1 ELSE late[n]]
      /\ UNCHANGED <<local, consumer, cancelled, reports>>
  BY DEF Capture, CountedLate, listening
<1>2. late[n] = 0
  BY <1>1 DEF LateEndsNext
<1>3. consumer \notin {"none", "ended"}
  BY <1>1 DEF ThreadsWithinConsumer, Alive
<1>4. Typed'
  BY <1>1, <1>2 DEF Typed
<1>5. CapturedIsSomewhere'
  <2>1. OnChannel \cup {f} \subseteq OnChannel'
    BY <1>1, AppendProperties DEF OnChannel, Typed
  <2>. QED
    BY <1>1, <2>1 DEF CapturedIsSomewhere
<1>6. ThreadsWithinConsumer'
  BY <1>1, <1>3 DEF ThreadsWithinConsumer
<1>7. LateEndsNext'
  BY <1>1, <1>2 DEF LateEndsNext, Typed
<1>. QED
  BY <1>4, <1>5, <1>6, <1>7

LEMMA ConsumeIInv ==
  ASSUME IInv, Consume
  PROVE  IInv'
<1>. USE DEF IInv
<1>1. /\ consumer = "running" /\ channel # << >> /\ channel \in Seq(Frames)
      /\ reports' = reports \cup (({channel[1]} \ {Malformed}) \ local)
      /\ channel' = Tail(channel)
      /\ UNCHANGED <<local, consumer, cancelled, thread, captured, late>>
  BY DEF Consume, FilterLocal, ArpParse, listening, Typed
<1>2. OnChannel \subseteq {channel[1]} \cup OnChannel'
  <2>1. /\ Len(channel) \in Nat /\ DOMAIN channel = 1..Len(channel)
        /\ DOMAIN channel' = 1..(Len(channel) - 1)
        /\ \A i \in 1..(Len(channel) - 1) : channel'[i] = channel[i + 1]
    BY <1>1
  <2>2. ASSUME NEW i \in DOMAIN channel, i # 1
        PROVE  channel[i] \in OnChannel'
    <3>1. i - 1 \in DOMAIN channel' /\ channel'[i - 1] = channel[i]
      BY <2>1, <2>2
    <3>. QED
      BY <3>1 DEF OnChannel
  <2>. QED
    BY <2>2 DEF OnChannel
<1>3. Typed'
  BY <1>1 DEF Typed
<1>4. CapturedIsSomewhere'
  BY <1>1, <1>2 DEF CapturedIsSomewhere
<1>5. ThreadsWithinConsumer' /\ LateEndsNext'
  BY <1>1 DEF ThreadsWithinConsumer, LateEndsNext
<1>. QED
  BY <1>3, <1>4, <1>5

LEMMA ConsumerEndsIInv ==
  ASSUME IInv, ConsumerEnds
  PROVE  IInv'
BY DEF IInv, Typed, CapturedIsSomewhere, ThreadsWithinConsumer, LateEndsNext,
       OnChannel, Alive, ConsumerEnds, ChannelClosed, threads

LEMMA NextIInv == IInv /\ [Next]_vars => IInv'
<1>. SUFFICES ASSUME IInv, [Next]_vars PROVE IInv'
  OBVIOUS
<1>1. ASSUME NEW opened \in SUBSET Nics, Listen(opened) PROVE IInv'
  BY <1>1, ListenIInv
<1>2. CASE Cancel \/ \E known \in SUBSET Nics, masked \in SUBSET OurIPs : Scan(known, masked)
  BY <1>2, Untouched DEF Scan, Cancel, listening, threads
<1>3. ASSUME NEW n \in Nics, ThreadStep(n) PROVE IInv'
  <2>1. CASE Check(n)
    <3>1. thread[n] = "checking" /\ (~cancelled => late[n] = 0)
      BY <2>1 DEF Check, IInv, LateEndsNext
    <3>. QED
      BY <2>1, <3>1, ThreadMoves DEF Check, Alive, listening
  <2>2. CASE Inject(n)
    BY <2>2, Untouched DEF Inject, listening
  <2>3. CASE Drained(n)
    <3>1. thread[n] = "draining" /\ late[n] = 0
      BY <2>3 DEF Drained, IInv, LateEndsNext
    <3>. QED
      BY <2>3, <3>1, ThreadMoves DEF Drained, Alive, listening
  <2>4. CASE TimeoutExpired(n) \/ CaptureFails(n)
    BY <2>4, ThreadMoves DEF TimeoutExpired, CaptureFails, Alive, listening
  <2>5. ASSUME NEW f \in Frames, Capture(n, f) PROVE IInv'
    BY <2>5, CaptureIInv
  <2>. QED
    BY <1>3, <2>1, <2>2, <2>3, <2>4, <2>5 DEF ThreadStep
<1>4. CASE Consume
  BY <1>4, ConsumeIInv
<1>5. CASE ConsumerEnds
  BY <1>5, ConsumerEndsIInv
<1>6. ASSUME NEW n \in Nics, NEW a \in Mobile, AddressChanges(n, a) PROVE IInv'
  BY <1>6, Untouched DEF AddressChanges, listening, threads
<1>7. CASE UNCHANGED vars
  BY <1>7, Untouched DEF vars, listening, threads
<1>. QED
  BY <1>1, <1>2, <1>3, <1>4, <1>5, <1>6, <1>7 DEF Next

LEMMA SpecIInv == Spec => []IInv
BY InitIInv, NextIInv, PTL DEF Spec

-----------------------------------------------------------------------------
\* However many NICs and frames: what the threads passed on is reported, or was
\* our own, by the time the consumer has ended.
THEOREM NothingCapturedIsLost == Spec => []CapturedIsReported
<1>1. IInv => CapturedIsReported
  BY DEF IInv, CapturedIsSomewhere, ThreadsWithinConsumer, OnChannel, CapturedIsReported
<1>. QED
  BY SpecIInv, <1>1, PTL

\* On every NIC at most one frame is passed on after the cancel.
THEOREM CancelIsPrompt == Spec => []OneFrameAfterCancel
<1>1. IInv => OneFrameAfterCancel
  BY DEF IInv, Typed, LateEndsNext, OneFrameAfterCancel
<1>. QED
  BY SpecIInv, <1>1, PTL
-----------------------------------------------------------------------------
(***************************************************************************)
(* The queues: what a sweep puts into them is a sequence of requests.      *)
(***************************************************************************)
LEMMA FiniteIsNumbered ==
  ASSUME NEW A, IsFiniteSet(A)
  PROVE  \E n \in Nat : \E f \in [A -> 1..n] : \A x, y \in A : f[x] = f[y] => x = y
<1>1. PICK n \in Nat : ExistsBijection(1..n, A)
  BY FS_NatBijection
<1>2. PICK b \in [1..n -> A] : \A x \in A : \E i \in 1..n : b[i] = x
  BY <1>1, Fun_BijectionProperties, Fun_SurjectionProperties DEF ExistsBijection
<1> DEFINE f == [x \in A |-> CHOOSE i \in 1..n : b[i] = x]
<1>3. \A x \in A : f[x] \in 1..n /\ b[f[x]] = x
  BY <1>2
<1> HIDE DEF f
<1>4. f \in [A -> 1..n]
  BY <1>3 DEF f
<1>5. \A x, y \in A : f[x] = f[y] => x = y
  BY <1>3
<1> QED
  BY <1>4, <1>5

LEMMA ProductIsFinite ==
  ASSUME NEW A, NEW B, IsFiniteSet(A), IsFiniteSet(B)
  PROVE  IsFiniteSet(A \X B)
<1>1. PICK n \in Nat : \E f \in [A -> 1..n] : \A x, y \in A : f[x] = f[y] => x = y
  BY FiniteIsNumbered
<1>2. PICK f \in [A -> 1..n] : \A x, y \in A : f[x] = f[y] => x = y
  BY <1>1
<1>3. PICK m \in Nat : \E g \in [B -> 1..m] : \A x, y \in B : g[x] = g[y] => x = y
  BY FiniteIsNumbered
<1>4. PICK g \in [B -> 1..m] : \A x, y \in B : g[x] = g[y] => x = y
  BY <1>3
<1> DEFINE k == [p \in A \X B |-> f[p[1]] * (m + 1) + g[p[2]]]
<1>5. ASSUME NEW a \in 1..n, NEW b \in 1..m
      PROVE  a * (m + 1) + b \in 0..(n * (m + 1) + m)
  <2>1. a * (m + 1) <= n * (m + 1) /\ a * (m + 1) \in Nat /\ n * (m + 1) \in Nat
    BY Z3
  <2> QED
    BY <2>1
<1>6. ASSUME NEW a \in 1..n, NEW b \in 1..m, NEW c \in 1..n, NEW d \in 1..m,
             a * (m + 1) + b = c * (m + 1) + d
      PROVE  a = c /\ b = d
  <2>1. \A i, j \in Nat : i < j => i * (m + 1) + (m + 1) <= j * (m + 1)
    BY Z3
  <2>2. a * (m + 1) \in Nat /\ c * (m + 1) \in Nat
    BY Z3
  <2>3. a = c
    BY <1>6, <2>1, <2>2
  <2> QED
    BY <1>6, <2>2, <2>3
<1>7. k \in [A \X B -> 0..(n * (m + 1) + m)]
  BY <1>2, <1>4, <1>5
<1>8. ASSUME NEW p \in A \X B, NEW q \in A \X B, k[p] = k[q] PROVE p = q
  <2>1. f[p[1]] = f[q[1]] /\ g[p[2]] = g[q[2]]
    BY <1>2, <1>4, <1>6, <1>8
  <2> QED
    BY <1>2, <1>4, <2>1
<1>9. n * (m + 1) + m \in Int
  BY Z3
<1> HIDE DEF k
<1>10. k \in Injection(A \X B, 0..(n * (m + 1) + m))
  BY <1>7, <1>8, Fun_IsInj
<1> DEFINE T == 0..(n * (m + 1) + m)
<1>11. IsFiniteSet(T)
  BY <1>9, FS_Interval
<1>12. k \in Injection(A \X B, T)
  BY <1>10
<1> HIDE DEF T
<1> QED
  BY <1>11, <1>12, FS_Injection

LEMMA SetToSeqType ==
  ASSUME NEW T, NEW S \in SUBSET T, IsFiniteSet(S)
  PROVE  SetToSeq(S) \in Seq(T)
<1>1. Cardinality(S) \in Nat /\ ExistsBijection(1..Cardinality(S), S)
  BY FS_CardinalityType
<1>2. PICK b : b \in [1..Cardinality(S) -> S] /\ \A i, j \in 1..Cardinality(S) : b[i] = b[j] => i = j
  BY <1>1, Fun_BijectionProperties, Fun_InjectionProperties DEF ExistsBijection
<1>3. IsInjective(b)
  BY <1>2 DEF IsInjective
<1>4. SetToSeq(S) \in [1..Cardinality(S) -> S]
  BY <1>2, <1>3, Zenon DEF SetToSeq
<1> QED
  BY <1>1, <1>4

LEMMA RequestsType ==
  ASSUME TypeOK, NEW n \in Nics, NEW masked
  PROVE  Requests(n, masked) \in Seq(RequestFrames)
<1> DEFINE private == addrs[n] \cap Private
           unicast == UNION { { Request(a, h) : h \in SweepPlan(a) } : a \in private \cap masked }
           Asked == OurIPs \cup Hosts
<1>1. private \subseteq OurIPs
  BY DEF TypeOK
<1>0. \A a \in OurIPs : SweepPlan(a) \subseteq Asked /\ a \notin SweepPlan(a)
  BY AddressesAssumption DEF SweepPlan
<1>2. unicast \subseteq { Request(a, h) : a \in OurIPs, h \in Asked }
  BY <1>0, <1>1
<1>3. IsFiniteSet({ Request(a, h) : a \in OurIPs, h \in Asked })
  <2>0. IsFiniteSet(Asked)
    BY FS_Union, AddressesAssumption
  <2> HIDE DEF Asked
  <2> DEFINE All == { Request(a, h) : a \in OurIPs, h \in Asked }
             f == [p \in OurIPs \X Asked |-> Request(p[1], p[2])]
  <2>1. f \in [OurIPs \X Asked -> All]
    OBVIOUS
  <2>2. ASSUME NEW r \in All PROVE \E p \in OurIPs \X Asked : f[p] = r
    <3>1. PICK a \in OurIPs, h \in Asked : r = Request(a, h)
      OBVIOUS
    <3>2. <<a, h>> \in OurIPs \X Asked /\ f[<<a, h>>] = r
      BY <3>1
    <3> QED
      BY <3>2
  <2> HIDE DEF All, f
  <2>3. f \in Surjection(OurIPs \X Asked, All)
    BY <2>1, <2>2, Fun_IsSurj
  <2>4. IsFiniteSet(OurIPs \X Asked)
    BY <2>0, ProductIsFinite, AddressesAssumption
  <2> QED
    BY <2>3, <2>4, FS_Surjection DEF All
<1>4. unicast \subseteq RequestFrames
  BY <1>0, <1>1 DEF Request, RequestFrames
<1>5. IsFiniteSet(unicast)
  BY <1>2, <1>3, FS_Subset
<1> HIDE DEF unicast
<1>6. SetToSeq(unicast) \in Seq(RequestFrames)
  BY <1>4, <1>5, SetToSeqType
<1>7. private # {} => Request(CHOOSE a \in private : TRUE, Broadcast) \in RequestFrames
  BY <1>1, AddressesAssumption DEF Request, RequestFrames
<1>8. Requests(n, masked) = SetToSeq(unicast)
                      \o (IF private = {} THEN << >>
                          ELSE <<Request(CHOOSE a \in private : TRUE, Broadcast)>>)
  BY DEF Requests, unicast
<1> HIDE DEF private
<1> DEFINE r == Request(CHOOSE a \in private : TRUE, Broadcast)
<1> HIDE DEF r
<1>9. CASE private = {}
  BY <1>6, <1>8, <1>9
<1>10. CASE private # {}
  <2>1. <<r>> \in Seq(RequestFrames)
    BY <1>7, <1>10 DEF r
  <2>2. Requests(n, masked) = SetToSeq(unicast) \o <<r>>
    BY <1>8, <1>10 DEF r
  <2> QED
    BY <1>6, <2>1, <2>2, ConcatProperties
<1> QED
  BY <1>9, <1>10

\* protocols/arp.rs:158-185 and arp/capture.rs:40: whatever addresses come and go,
\* and several of ours in one subnet, the state keeps its type; in particular what
\* is queued for a thread are requests from an address of ours, for another address
\* or for the broadcast address, and none for the sender itself.
THEOREM ArpTypeOK == Spec => []TypeOK
<1>1. Init => TypeOK
  <2> SUFFICES ASSUME Init PROVE TypeOK
    OBVIOUS
  <2>1. << >> \in Seq(RequestFrames) /\ << >> \in Seq(Frames)
    OBVIOUS
  <2>2. inject \in [Nics -> Seq(RequestFrames)] /\ channel \in Seq(Frames)
    BY <2>1 DEF Init
  <2>3. scans \in 0..MaxScans /\ late \in [Nics -> 0..2]
    BY BoundsAssumption DEF Init
  <2> QED
    BY <2>2, <2>3, AddressesAssumption DEF Init, TypeOK
<1>2. TypeOK /\ [Next]_vars => TypeOK'
  <2> SUFFICES ASSUME TypeOK, [Next]_vars PROVE TypeOK'
    OBVIOUS
  <2>1. ASSUME NEW opened \in SUBSET Nics, Listen(opened) PROVE TypeOK'
    BY <2>1 DEF Listen, TypeOK
  <2>2. ASSUME NEW known \in SUBSET Nics, NEW masked \in SUBSET OurIPs, Scan(known, masked)
        PROVE  TypeOK'
    <3>1. \A n \in Nics : inject[n] \o Requests(n, masked) \in Seq(RequestFrames)
      BY RequestsType, ConcatProperties DEF TypeOK
    <3>2. inject' \in [Nics -> Seq(RequestFrames)]
      BY <2>2, <3>1 DEF Scan, TypeOK
    <3> QED
      BY <2>2, <3>2, BoundsAssumption DEF Scan, TypeOK, listening
  <2>3. CASE Cancel
    BY <2>3 DEF Cancel, TypeOK, listening, threads
  <2>4. ASSUME NEW n \in Nics, ThreadStep(n) PROVE TypeOK'
    <3>1. CASE Check(n) \/ Drained(n) \/ TimeoutExpired(n) \/ CaptureFails(n)
      BY <3>1 DEF Check, Drained, TimeoutExpired, CaptureFails, TypeOK, listening
    <3>2. CASE Inject(n)
      <4>1. Tail(inject[n]) \in Seq(RequestFrames)
        BY <3>2, HeadTailProperties DEF Inject, TypeOK
      <4> QED
        BY <3>2, <4>1 DEF Inject, TypeOK, listening
    <3>3. ASSUME NEW f \in Frames, Capture(n, f) PROVE TypeOK'
      <4>1. channel' \in Seq(Frames)
        BY <3>3, AppendProperties DEF Capture, TypeOK
      <4> QED
        BY <3>3, <4>1 DEF Capture, CountedLate, TypeOK, listening, Frames
    <3> QED
      BY <2>4, <3>1, <3>2, <3>3 DEF ThreadStep
  <2>5. CASE Consume
    <3>1. Head(channel) \in Frames /\ Tail(channel) \in Seq(Frames)
      BY <2>5, HeadTailProperties DEF Consume, TypeOK
    <3> QED
      BY <2>5, <3>1 DEF Consume, FilterLocal, ArpParse, TypeOK, listening, Frames
  <2>6. CASE ConsumerEnds
    BY <2>6 DEF ConsumerEnds, TypeOK, threads
  <2>7. ASSUME NEW n \in Nics, NEW a \in Mobile, AddressChanges(n, a) PROVE TypeOK'
    BY <2>7, AddressesAssumption DEF AddressChanges, TypeOK, listening, threads
  <2>8. CASE UNCHANGED vars
    BY <2>8 DEF vars, TypeOK, listening, threads
  <2> QED
    BY <2>1, <2>2, <2>3, <2>4, <2>5, <2>6, <2>7, <2>8 DEF Next
<1> QED
  BY <1>1, <1>2, PTL DEF Spec
=============================================================================
