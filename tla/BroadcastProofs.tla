--------------------------- MODULE BroadcastProofs ---------------------------
(* Proofs about BroadcastEngine, for every number of ranks, every bucket size *)
(* and every list of parameters: no broadcast goes into the half that the     *)
(* loader thread has still to load, and every step of the engine is a step    *)
(* of WeightStream or none.                                                   *)
(*                                                                            *)
(* The two threads of a rank take no lock. What keeps them apart is that the  *)
(* main thread has one request unanswered while it broadcasts (Unanswered),   *)
(* and that it is about the half of the other parity.                         *)
(*                                                                            *)
(* That every rank loads what was registered rests on three facts more: the   *)
(* buckets give every parameter one place (RegisterInv); the ranks, each in a *)
(* loop of its own, broadcast the same bucket at the same time (CastInv); and *)
(* the memories hold the bucket of the round, of the turn, and the one handed *)
(* to the loader thread until it is loaded (MemoryInv).                       *)
EXTENDS BroadcastEngine, TLAPS, WellFoundedInduction

MainStates == {"start", "copy", "broadcast", "load", "answer", "barrier", "send",
               "last answer", "join", "final barrier", "done"}
LoaderStates == {"none", "hello", "waiting", "loading", "ended"}

\* The variables the two threads talk through.
ControlTypes ==
  /\ overlap \in BOOLEAN
  /\ pc \in [Ranks -> MainStates]
  /\ loader \in [Ranks -> LoaderStates]
  /\ gidx \in [Ranks -> Nat]
  /\ reply \in [Ranks -> BOOLEAN]
  /\ request = [r \in Ranks |-> request[r]]
  /\ job = [r \in Ranks |-> job[r]]

\* Where the half begins that the next broadcast does not go into.
OtherHalf(g) == (1 - (g % 2)) * BucketSize

\* The answer to the last request is still to be received, and if that was
\* the metadata of a bucket, the bucket is in the other half.
Unanswered(r) ==
  \/ request[r] = Hello /\ loader[r] = "hello" /\ ~reply[r]
  \/ /\ request[r].kind = "metas" /\ request[r].start = OtherHalf(gidx[r])
     /\ loader[r] = "waiting" /\ ~reply[r]
  \/ /\ request[r] = Nothing /\ job[r].start = OtherHalf(gidx[r])
     /\ loader[r] = "loading" /\ ~reply[r]
  \/ request[r] = Nothing /\ loader[r] = "waiting" /\ reply[r]

Answered(r) == request[r] = Nothing /\ loader[r] = "waiting" /\ ~reply[r]

\* What the two threads of a rank have told each other, by the main thread's
\* place.
Agreed(r) ==
  IF overlap
  THEN /\ pc[r] = "start" => request[r] = Nothing /\ loader[r] = "hello" /\ ~reply[r]
       /\ pc[r] \in {"copy", "broadcast", "answer", "last answer"} => Unanswered(r)
       /\ pc[r] \in {"barrier", "send"} => Answered(r)
       /\ pc[r] \in {"join", "final barrier", "done"} =>
            request[r] \in {Nothing, Stop} /\ loader[r] \in {"waiting", "ended"}
       /\ pc[r] # "load"
  ELSE /\ request[r] = Nothing /\ loader[r] = "none"
       /\ pc[r] \in {"copy", "broadcast", "load", "final barrier", "done"}

Agreement == \A r \in Ranks: Agreed(r)

IInv == ControlTypes /\ Agreement

-----------------------------------------------------------------------------
LEMMA Parity ==
  ASSUME NEW g \in Nat
  PROVE  /\ g + 1 \in Nat /\ OtherHalf(g + 1) = (g % 2) * BucketSize
         /\ OtherHalf(g) # (g % 2) * BucketSize
<1>1. g % 2 \in {0, 1} /\ (g + 1) % 2 = 1 - (g % 2)
  OBVIOUS
<1>2. CASE g % 2 = 0
  BY <1>1, <1>2, BucketAssumption DEF OtherHalf
<1>3. CASE g % 2 = 1
  BY <1>1, <1>3, BucketAssumption DEF OtherHalf
<1> QED
  BY <1>1, <1>2, <1>3

LEMMA Kinds ==
  /\ Nothing.kind = "nothing" /\ Hello.kind = "hello" /\ Stop.kind = "stop"
  /\ \A b, s: Metas(b, s).kind = "metas" /\ Metas(b, s).start = s
BY DEF Nothing, Hello, Stop, Metas

LEMMA OnwardState ==
  ASSUME NEW r \in Ranks
  PROVE  /\ Onward(r) \in MainStates
         /\ overlap => Onward(r) \in {"copy", "broadcast", "last answer"}
         /\ ~overlap => Onward(r) \in {"copy", "broadcast", "final barrier"}
BY DEF Onward, MainStates

LEMMA InitIInv == Init => IInv
<1> SUFFICES ASSUME Init PROVE IInv
  OBVIOUS
<1>1. ControlTypes
  BY DEF Init, ControlTypes, MainStates, LoaderStates
<1>2. Agreement
  BY DEF Init, Agreement, Agreed
<1> QED
  BY <1>1, <1>2 DEF IInv

\* A rank none of whose threads has moved.
LEMMA AgreementFrame ==
  ASSUME NEW q \in Ranks, Agreed(q), overlap' = overlap, pc'[q] = pc[q],
         request'[q] = request[q], loader'[q] = loader[q], reply'[q] = reply[q],
         job'[q] = job[q], gidx'[q] = gidx[q]
  PROVE  Agreed(q)'
BY DEF Agreed, Unanswered, Answered

LEMMA HandshakeStep == ASSUME IInv, NEW r \in Ranks, Handshake(r) PROVE IInv'
<1> USE DEF IInv
<1>1. ControlTypes'
  BY DEF Handshake, ControlTypes, MainStates, SendRequest
<1>2. /\ pc[r] = "start" /\ pc'[r] = "copy" /\ request'[r] = Hello
      /\ UNCHANGED <<overlap, loader, reply, job, gidx>>
      /\ \A q \in Ranks: q # r => pc'[q] = pc[q] /\ request'[q] = request[q]
  BY DEF Handshake, ControlTypes, SendRequest
<1>3. Agreed(r)'
  BY <1>2, Kinds DEF Agreement, Agreed, Unanswered
<1>4. Agreement'
  BY <1>2, <1>3, AgreementFrame DEF Agreement
<1> QED
  BY <1>1, <1>4

LEMMA CopyStep == ASSUME IInv, NEW r \in Ranks, CopyToDevice(r) PROVE IInv'
<1> USE DEF IInv
<1>1. ControlTypes'
  BY DEF CopyToDevice, ControlTypes, MainStates
<1>2. /\ pc[r] = "copy" /\ pc'[r] = "broadcast"
      /\ UNCHANGED <<overlap, loader, reply, job, gidx, request>>
      /\ \A q \in Ranks: q # r => pc'[q] = pc[q]
  BY DEF CopyToDevice, ControlTypes
<1>3. Agreed(r)'
  BY <1>2 DEF Agreement, Agreed, Unanswered
<1>4. Agreement'
  BY <1>2, <1>3, AgreementFrame DEF Agreement
<1> QED
  BY <1>1, <1>4

LEMMA AnswerStep == ASSUME IInv, NEW r \in Ranks, Answer(r) PROVE IInv'
<1> USE DEF IInv
<1>1. ControlTypes'
  BY DEF Answer, ControlTypes, MainStates, ReceiveReply
<1>2. /\ pc[r] = "answer" /\ pc'[r] = "barrier" /\ reply[r] /\ ~reply'[r]
      /\ UNCHANGED <<overlap, loader, job, gidx, request>>
      /\ \A q \in Ranks: q # r => pc'[q] = pc[q] /\ reply'[q] = reply[q]
  BY DEF Answer, ControlTypes, ReceiveReply
<1>3. Agreed(r)'
  BY <1>2 DEF Agreement, Agreed, Unanswered, Answered
<1>4. Agreement'
  BY <1>2, <1>3, AgreementFrame DEF Agreement
<1> QED
  BY <1>1, <1>4

LEMMA SendMetadataStep == ASSUME IInv, NEW r \in Ranks, SendMetadata(r) PROVE IInv'
<1> USE DEF IInv
<1> DEFINE metas == Metas(bucketOf(turn[r]).metas, Start(r))
<1>0. gidx[r] \in Nat /\ gidx[r] + 1 \in Nat
  BY DEF ControlTypes
<1>1. ControlTypes'
  BY <1>0, OnwardState DEF SendMetadata, Advance, ControlTypes, SendRequest
<1>2. /\ pc[r] = "send" /\ pc'[r] = Onward(r) /\ request'[r] = metas
      /\ gidx'[r] = gidx[r] + 1
      /\ UNCHANGED <<overlap, loader, job, reply>>
      /\ \A q \in Ranks: q # r => pc'[q] = pc[q] /\ request'[q] = request[q] /\ gidx'[q] = gidx[q]
  BY DEF SendMetadata, Advance, ControlTypes, SendRequest
<1>3. overlap /\ Answered(r)
  BY <1>2 DEF Agreement, Agreed
<1>4. request'[r].kind = "metas" /\ request'[r].start = OtherHalf(gidx'[r])
  BY <1>0, <1>2, <1>3, Kinds, Parity DEF Start
<1>5. Unanswered(r)'
  BY <1>2, <1>3, <1>4 DEF Unanswered, Answered
<1>6. Agreed(r)'
  BY <1>2, <1>3, <1>5, OnwardState DEF Agreed
<1>7. Agreement'
  BY <1>2, <1>6, AgreementFrame DEF Agreement
<1> QED
  BY <1>1, <1>7

LEMMA LoadInlineStep == ASSUME IInv, NEW r \in Ranks, LoadInline(r) PROVE IInv'
<1> USE DEF IInv
<1>0. gidx[r] \in Nat /\ gidx[r] + 1 \in Nat
  BY DEF ControlTypes
<1>1. ControlTypes'
  BY <1>0, OnwardState DEF LoadInline, Advance, ControlTypes
<1>2. /\ pc[r] = "load" /\ pc'[r] = Onward(r)
      /\ UNCHANGED <<overlap, loader, job, reply, request>>
      /\ \A q \in Ranks: q # r => pc'[q] = pc[q] /\ gidx'[q] = gidx[q]
  BY DEF LoadInline, Advance, ControlTypes
<1>3. Agreed(r)'
  BY <1>2, OnwardState DEF Agreement, Agreed
<1>4. Agreement'
  BY <1>2, <1>3, AgreementFrame DEF Agreement
<1> QED
  BY <1>1, <1>4

LEMMA StopLoaderStep == ASSUME IInv, NEW r \in Ranks, StopLoader(r) PROVE IInv'
<1> USE DEF IInv
<1>1. ControlTypes'
  BY DEF StopLoader, ControlTypes, MainStates, ReceiveReply, SendRequest
<1>2. /\ pc[r] = "last answer" /\ pc'[r] = "join" /\ reply[r] /\ request'[r] = Stop
      /\ UNCHANGED <<overlap, loader, job, gidx>>
      /\ \A q \in Ranks:
           q # r => pc'[q] = pc[q] /\ reply'[q] = reply[q] /\ request'[q] = request[q]
  BY DEF StopLoader, ControlTypes, ReceiveReply, SendRequest
<1>3. Agreed(r)'
  BY <1>2 DEF Agreement, Agreed, Unanswered
<1>4. Agreement'
  BY <1>2, <1>3, AgreementFrame DEF Agreement
<1> QED
  BY <1>1, <1>4

LEMMA JoinStep == ASSUME IInv, NEW r \in Ranks, Join(r) PROVE IInv'
<1> USE DEF IInv
<1>1. ControlTypes'
  BY DEF Join, ControlTypes, MainStates, ReceiveReply
<1>2. /\ pc[r] = "join" /\ pc'[r] = "final barrier"
      /\ UNCHANGED <<overlap, loader, job, gidx, request>>
      /\ \A q \in Ranks: q # r => pc'[q] = pc[q] /\ reply'[q] = reply[q]
  BY DEF Join, ControlTypes, ReceiveReply
<1>3. Agreed(r)'
  BY <1>2 DEF Agreement, Agreed
<1>4. Agreement'
  BY <1>2, <1>3, AgreementFrame DEF Agreement
<1> QED
  BY <1>1, <1>4

\* The loader thread takes a request that the main thread has sent in one of
\* the places at which it awaits an answer.
LEMMA ReceivesStep == ASSUME IInv, NEW r \in Ranks, LoaderReceives(r) PROVE IInv'
<1> USE DEF IInv
<1>0. /\ loader[r] \in {"hello", "waiting"} /\ request[r] # Nothing
      /\ request'[r] = Nothing
      /\ UNCHANGED <<overlap, pc, gidx>>
      /\ \A q \in Ranks: q # r => request'[q] = request[q]
  BY DEF LoaderReceives, ControlTypes
<1>1. CASE request[r].kind = "metas"
  <2>1. /\ loader' = [loader EXCEPT ![r] = "loading"]
        /\ job' = [job EXCEPT ![r] = request[r]] /\ reply' = reply
        /\ request' = [request EXCEPT ![r] = Nothing]
    BY <1>1 DEF LoaderReceives
  <2>2. ControlTypes'
    BY <1>0, <2>1 DEF ControlTypes, LoaderStates
  <2>3. /\ loader'[r] = "loading" /\ job'[r] = request[r]
        /\ \A q \in Ranks: q # r => loader'[q] = loader[q] /\ job'[q] = job[q]
    BY <2>1 DEF ControlTypes
  <2>4. Agreed(r)'
    BY ZenonT(30), <1>0, <1>1, <2>1, <2>3, Kinds DEF Agreement, Agreed, Unanswered, Answered
  <2>5. Agreement'
    BY <1>0, <2>1, <2>3, <2>4, AgreementFrame DEF Agreement
  <2> QED
    BY <2>2, <2>5
<1>2. CASE request[r].kind # "metas"
  <2>1. /\ loader' = [loader EXCEPT ![r] = IF @ = "hello" THEN "waiting" ELSE "ended"]
        /\ reply' = [reply EXCEPT ![r] = TRUE] /\ job' = job
        /\ request' = [request EXCEPT ![r] = Nothing]
    BY <1>2 DEF LoaderReceives
  <2>2. ControlTypes'
    BY <1>0, <2>1 DEF ControlTypes, LoaderStates
  <2>3. /\ loader'[r] = (IF loader[r] = "hello" THEN "waiting" ELSE "ended") /\ reply'[r]
        /\ \A q \in Ranks: q # r => loader'[q] = loader[q] /\ reply'[q] = reply[q]
    BY <2>1 DEF ControlTypes
  <2>4. Agreed(r)'
    BY <1>0, <1>2, <2>1, <2>3, Kinds DEF Agreement, Agreed, Unanswered, Answered
  <2>5. Agreement'
    BY <1>0, <2>1, <2>3, <2>4, AgreementFrame DEF Agreement
  <2> QED
    BY <2>2, <2>5
<1> QED
  BY <1>1, <1>2

LEMMA LoadsStep == ASSUME IInv, NEW r \in Ranks, LoaderLoads(r) PROVE IInv'
<1> USE DEF IInv
<1>1. ControlTypes'
  BY DEF LoaderLoads, ControlTypes, LoaderStates
<1>2. /\ loader[r] = "loading" /\ loader'[r] = "waiting" /\ reply'[r]
      /\ UNCHANGED <<overlap, pc, gidx, request>>
      /\ \A q \in Ranks:
           q # r => loader'[q] = loader[q] /\ reply'[q] = reply[q] /\ job'[q] = job[q]
  BY DEF LoaderLoads, ControlTypes
<1>3. Agreed(r)'
  BY <1>2, Kinds DEF Agreement, Agreed, Unanswered, Answered
<1>4. Agreement'
  BY <1>2, <1>3, AgreementFrame DEF Agreement
<1> QED
  BY <1>1, <1>4

\* The collective operations move every rank at once.
LEMMA CollectiveStep == ASSUME IInv, Collective PROVE IInv'
<1> USE DEF IInv
<1>1. CASE Broadcast
  <2>1. ControlTypes'
    BY <1>1 DEF Broadcast, ControlTypes, MainStates
  <2>2. \A r \in Ranks: pc[r] = "broadcast" /\ pc'[r] = IF overlap THEN "answer" ELSE "load"
    BY <1>1 DEF Broadcast
  <2>3. UNCHANGED <<overlap, loader, job, gidx, request, reply>>
    BY <1>1 DEF Broadcast
  <2>4. Agreement'
    BY <2>2, <2>3 DEF Agreement, Agreed, Unanswered
  <2> QED
    BY <2>1, <2>4
<1>2. CASE Barrier
  <2>1. ControlTypes'
    BY <1>2 DEF Barrier, ControlTypes, MainStates
  <2>2. \A r \in Ranks: pc[r] = "barrier" /\ pc'[r] = "send"
    BY <1>2 DEF Barrier
  <2>3. UNCHANGED <<overlap, loader, job, gidx, request, reply>>
    BY <1>2 DEF Barrier
  <2>4. Agreement'
    BY <2>2, <2>3 DEF Agreement, Agreed, Answered
  <2> QED
    BY <2>1, <2>4
<1>3. CASE FinalBarrier
  <2>1. ControlTypes'
    BY <1>3 DEF FinalBarrier, ControlTypes, MainStates
  <2>2. \A r \in Ranks: pc[r] = "final barrier" /\ pc'[r] = "done"
    BY <1>3 DEF FinalBarrier
  <2>3. UNCHANGED <<overlap, loader, job, gidx, request, reply>>
    BY <1>3 DEF FinalBarrier
  <2>4. Agreement'
    BY <2>2, <2>3 DEF Agreement, Agreed
  <2> QED
    BY <2>1, <2>4
<1> QED
  BY <1>1, <1>2, <1>3 DEF Collective

LEMMA NextIInv == IInv /\ [Next]_vars => IInv'
<1> SUFFICES ASSUME IInv, [Next]_vars PROVE IInv'
  OBVIOUS
<1>1. CASE Collective
  BY <1>1, CollectiveStep
<1>2. CASE \E r \in Ranks: Main(r)
  BY <1>2, HandshakeStep, CopyStep, AnswerStep, SendMetadataStep, LoadInlineStep,
     StopLoaderStep, JoinStep DEF Main
<1>3. CASE \E r \in Ranks: Loader(r)
  BY <1>3, ReceivesStep, LoadsStep DEF Loader
<1>4. CASE Register \/ UNCHANGED vars
  <2>1. UNCHANGED <<overlap, pc, loader, gidx, reply, request, job>>
    BY <1>4 DEF Register, vars
  <2>2. ControlTypes'
    BY <2>1 DEF IInv, ControlTypes
  <2>3. Agreement'
    BY <2>1, AgreementFrame DEF IInv, Agreement
  <2> QED
    BY <2>2, <2>3 DEF IInv
<1> QED
  BY <1>1, <1>2, <1>3, <1>4 DEF Next, Finished

LEMMA IInvHalfExclusive == IInv => HalfExclusive
<1> SUFFICES ASSUME IInv, NEW r \in Ranks, pc[r] = "broadcast", Handed(r, Start(r))
             PROVE  FALSE
  BY DEF HalfExclusive
<1>0. gidx[r] \in Nat /\ Agreed(r)
  BY DEF IInv, ControlTypes, Agreement
<1>1. CASE overlap
  <2>1. Start(r) # OtherHalf(gidx[r])
    BY <1>0, <1>1, Parity DEF Start
  <2> QED
    BY <1>0, <1>1, <2>1, Kinds DEF Agreed, Unanswered, Handed
<1>2. CASE ~overlap
  BY <1>0, <1>2, Kinds DEF Agreed, Handed
<1> QED
  BY <1>1, <1>2

-----------------------------------------------------------------------------
(***************************************************************************)
(* What the buckets hold. A place is a rank, a bucket of it and an entry   *)
(* of the bucket.                                                          *)
(***************************************************************************)
Buckets == [size: 0..BucketSize,
            metas: Seq([param: DOMAIN sizes, offset: 0..BucketSize])]
Entries(r, i) == DOMAIN buckets[r][i].metas
At(r, i, j) == buckets[r][i].metas[j]

RegisterTypes ==
  /\ sizes \in SizeLists
  /\ registered \in 0..Len(sizes)
  /\ buckets \in [ActorRanks -> Seq(Buckets)]
  /\ \A r \in ActorRanks: buckets[r] # <<>>
  /\ host = [r \in Ranks |-> host[r]]
  /\ staged = [r \in Ranks |-> staged[r]]
  /\ turn = [r \in Ranks |-> turn[r]]

\* Every entry is of a parameter dealt out so far and within its bucket.
Fits ==
  \A r \in ActorRanks: \A i \in DOMAIN buckets[r]: \A j \in Entries(r, i):
    /\ At(r, i, j).param <= registered
    /\ At(r, i, j).offset + sizes[At(r, i, j).param] <= buckets[r][i].size

\* No parameter has two places, and every parameter dealt out has one.
Unique ==
  \A r, q \in ActorRanks: \A i \in DOMAIN buckets[r], k \in DOMAIN buckets[q]:
    \A j \in Entries(r, i), l \in Entries(q, k):
      At(r, i, j).param = At(q, k, l).param => r = q /\ i = k /\ j = l

Covered ==
  \A p \in 1..registered: \E r \in ActorRanks: \E i \in DOMAIN buckets[r]:
    \E j \in Entries(r, i): At(r, i, j).param = p

\* A memory holds every parameter of a bucket.
HoldsAll(b, metas, start) == \A j \in DOMAIN metas: Holds(b, metas[j], start)

\* Until it is freed the pinned memory of an actor rank holds its buckets.
Pinned(r) ==
  /\ host[r] = [i \in DOMAIN buckets[r] |-> host[r][i]]
  /\ \A i \in DOMAIN buckets[r]: HoldsAll(host[r][i], buckets[r][i].metas, 0)

\* Nothing is transferred before everything is registered.
Beginning ==
  /\ casts = <<>>
  /\ turn = [r \in Ranks |-> [round |-> 1, rank |-> 0]]
  /\ \A r \in Ranks: pc[r] = IF overlap THEN "start" ELSE "copy"

RegisterInv ==
  /\ RegisterTypes /\ Fits /\ Unique /\ Covered
  /\ \A r \in ActorRanks: pc[r] # "done" => Pinned(r)
  /\ ~Registered => Beginning

(***************************************************************************)
(* What has been broadcast: on every rank the turns before its own, and    *)
(* its own as well from the broadcast until it moves on.                   *)
(***************************************************************************)
InFlight(r) == pc[r] \in {"answer", "barrier", "send", "load"}
Over(r) == pc[r] \in {"last answer", "join", "final barrier", "done"}
Seen(r, t) == Before(t, turn[r]) \/ ((InFlight(r) \/ Over(r)) /\ t = turn[r])

CastRank(r) ==
  /\ turn[r] \in Turns
  /\ gidx[r] = Len(casts) - (IF InFlight(r) THEN 1 ELSE 0)
  /\ InFlight(r) => Len(casts) > 0 /\ casts[Len(casts)] = turn[r]
  /\ Over(r) => Later(turn[r]) = {}
  /\ \A t \in Turns: (\E k \in DOMAIN casts: casts[k] = t) <=> Seen(r, t)

CastInv ==
  /\ casts \in Seq(Turns)
  /\ \A k, l \in DOMAIN casts: casts[k] = casts[l] => k = l
  /\ \A r \in Ranks: CastRank(r)

(***************************************************************************)
(* What the memories hold: the device copy the bucket of the round, the    *)
(* broadcast buffer the bucket of the turn and, in the other half, the one *)
(* handed to the loader thread.                                            *)
(***************************************************************************)
Asked(r) == request[r].kind = "metas"
Loading(r) == loader[r] = "loading"
Order(r) == Metas(bucketOf(casts[gidx[r]]).metas, OtherHalf(gidx[r]))

StagedRank(r) ==
  (pc[r] = "broadcast" \/ InFlight(r)) /\ turn[r].round \in DOMAIN buckets[r]
    => HoldsAll(staged[r], buckets[r][turn[r].round].metas, 0)

FlightRank(r) ==
  InFlight(r) => HoldsAll(buf[r], bucketOf(turn[r]).metas, Start(r))

OrderRank(r) ==
  /\ Asked(r) => request[r] = Order(r)
  /\ Loading(r) => job[r] = Order(r)
  /\ Asked(r) \/ Loading(r) =>
       /\ gidx[r] > 0 /\ overlap
       /\ HoldsAll(buf[r], bucketOf(casts[gidx[r]]).metas, OtherHalf(gidx[r]))

LoadedRank(r) ==
  loaded[r] = [k \in 1..gidx[r] - (IF Asked(r) \/ Loading(r) THEN 1 ELSE 0)
                 |-> Params(bucketOf(casts[k]))]

MemoryRank(r) ==
  /\ r \in ActorRanks => StagedRank(r)
  /\ FlightRank(r) /\ OrderRank(r)
  /\ r \in Receivers => LoadedRank(r)

MemoryInv ==
  /\ loaded = [r \in Ranks |-> loaded[r]]
  /\ \A r \in Ranks: MemoryRank(r)

-----------------------------------------------------------------------------
LEMMA RankFacts ==
  /\ ActorRanks \subseteq Ranks /\ Receivers \subseteq Ranks /\ Ranks \subseteq Nat
  /\ 0 \in ActorRanks /\ ActorRanks \subseteq Nat
  /\ \A p \in Nat \ {0}: Owner(p) \in ActorRanks
<1>1. \A p \in Nat \ {0}: Owner(p) \in ActorRanks
  BY CountsAssumption DEF Owner, ActorRanks
<1> QED
  BY <1>1, CountsAssumption DEF ActorRanks, Receivers, Ranks

LEMMA SizeFacts ==
  ASSUME sizes \in SizeLists
  PROVE  /\ sizes \in Seq(1..BucketSize) /\ DOMAIN sizes = 1..Len(sizes) /\ Len(sizes) \in Nat
         /\ \A p \in DOMAIN sizes: sizes[p] \in 1..BucketSize
<1> DEFINE S == 1..BucketSize
<1>1. sizes \in Seq(S)
  BY SizesAssumption
<1> HIDE DEF S
<1>2. DOMAIN sizes = 1..Len(sizes) /\ Len(sizes) \in Nat /\ \A p \in DOMAIN sizes: sizes[p] \in S
  BY <1>1
<1> QED
  BY <1>1, <1>2 DEF S

\* A bucket with one more parameter.
LEMMA ExtendedFacts ==
  ASSUME NEW ob \in Buckets, NEW p \in DOMAIN sizes, sizes \in SizeLists,
         ob.size + sizes[p] <= BucketSize
  PROVE  /\ Extended(ob, p) \in Buckets
         /\ Extended(ob, p).size = ob.size + sizes[p]
         /\ DOMAIN Extended(ob, p).metas = 1..Len(ob.metas) + 1
         /\ Extended(ob, p).metas[Len(ob.metas) + 1] = Entry(p, ob.size)
         /\ DOMAIN ob.metas = 1..Len(ob.metas) /\ Len(ob.metas) \in Nat
         /\ \A j \in DOMAIN ob.metas: Extended(ob, p).metas[j] = ob.metas[j]
<1> DEFINE E == [param: DOMAIN sizes, offset: 0..BucketSize]
           M == Append(ob.metas, Entry(p, ob.size))
<1>1. /\ ob.metas \in Seq(E) /\ ob.size \in 0..BucketSize /\ sizes[p] \in 1..BucketSize
      /\ BucketSize \in Nat
  BY SizeFacts, BucketAssumption DEF Buckets
<1>2. Entry(p, ob.size) \in E
  BY <1>1 DEF Entry
<1>3. /\ M \in Seq(E) /\ Len(M) = Len(ob.metas) + 1 /\ DOMAIN M = 1..Len(M)
      /\ M[Len(ob.metas) + 1] = Entry(p, ob.size)
      /\ DOMAIN ob.metas = 1..Len(ob.metas) /\ Len(ob.metas) \in Nat
      /\ \A j \in 1..Len(ob.metas): M[j] = ob.metas[j]
  <2> HIDE DEF E
  <2> QED
    BY <1>1, <1>2
<1>4. Extended(ob, p) = [size |-> ob.size + sizes[p], metas |-> M]
  BY DEF Extended
<1>5. ob.size + sizes[p] \in 0..BucketSize
  BY <1>1
<1> HIDE DEF M
<1>6. Extended(ob, p) \in Buckets
  BY <1>3, <1>4, <1>5 DEF Buckets
<1> QED
  BY <1>3, <1>4, <1>6

LEMMA EmptyFacts == EmptyBucket \in Buckets /\ EmptyBucket.size = 0 /\ EmptyBucket.metas = <<>>
BY BucketAssumption DEF EmptyBucket, Buckets

\* A bucket's type, and an entry's.
LEMMA BucketFacts ==
  ASSUME RegisterTypes, NEW r \in ActorRanks
  PROVE  /\ Len(buckets[r]) \in Nat \ {0} /\ DOMAIN buckets[r] = 1..Len(buckets[r])
         /\ \A i \in DOMAIN buckets[r]:
              /\ buckets[r][i] \in Buckets
              /\ buckets[r][i].size \in 0..BucketSize
              /\ \A j \in Entries(r, i): /\ At(r, i, j).param \in DOMAIN sizes
                                         /\ At(r, i, j).offset \in 0..BucketSize
<1>1. buckets[r] \in Seq(Buckets) /\ buckets[r] # <<>>
  BY DEF RegisterTypes
<1>2. \A b \in Buckets: /\ b.size \in 0..BucketSize
                        /\ \A j \in DOMAIN b.metas: /\ b.metas[j].param \in DOMAIN sizes
                                                    /\ b.metas[j].offset \in 0..BucketSize
  <2> SUFFICES ASSUME NEW b \in Buckets, NEW j \in DOMAIN b.metas
               PROVE  /\ b.size \in 0..BucketSize
                      /\ b.metas[j].param \in DOMAIN sizes
                      /\ b.metas[j].offset \in 0..BucketSize
    BY DEF Buckets
  <2>1. b.metas \in Seq([param: DOMAIN sizes, offset: 0..BucketSize])
    BY DEF Buckets
  <2> DEFINE E == [param: DOMAIN sizes, offset: 0..BucketSize]
  <2>2. b.metas[j] \in E
    <3> HIDE DEF E
    <3>1. b.metas \in Seq(E)
      BY <2>1 DEF E
    <3> QED
      BY <3>1
  <2> QED
    BY <2>2 DEF Buckets
<1> HIDE DEF Buckets
<1>3. /\ Len(buckets[r]) \in Nat \ {0} /\ DOMAIN buckets[r] = 1..Len(buckets[r])
      /\ \A i \in DOMAIN buckets[r]: buckets[r][i] \in Buckets
  BY <1>1
<1> QED
  BY <1>2, <1>3 DEF Entries, At

\* What register_checkpoint does with the next parameter: a bucket of its
\* owner, new or the last one, gets one more entry.
Grown(r, m, ob, p) ==
  /\ p = registered + 1 /\ p \in DOMAIN sizes /\ r \in ActorRanks
  /\ m \in Nat \ {0} /\ Len(buckets'[r]) = m /\ DOMAIN buckets'[r] = 1..m
  /\ buckets' \in [ActorRanks -> Seq(Buckets)]
  /\ ob \in Buckets /\ ob.size + sizes[p] <= BucketSize
  /\ buckets'[r][m] = Extended(ob, p)
  /\ \A i \in 1..m - 1: i \in DOMAIN buckets[r] /\ buckets'[r][i] = buckets[r][i]
  /\ DOMAIN buckets[r] \subseteq 1..m
  /\ IF m \in DOMAIN buckets[r] THEN ob = buckets[r][m] ELSE ob = EmptyBucket
  /\ \A q \in ActorRanks \ {r}: buckets'[q] = buckets[q]
  /\ \A i \in 1..m - 1: host'[r][i] = host[r][i]
  /\ host'[r][m] = Put(IF m \in DOMAIN buckets[r] THEN host[r][m] ELSE EmptyMemory, p, ob.size)
  /\ \A q \in ActorRanks \ {r}: host'[q] = host[q]
  /\ host'[r] = [i \in 1..m |-> host'[r][i]]
  /\ host' = [q \in Ranks |-> host'[q]]

LEMMA RegisterGrows ==
  ASSUME RegisterInv, Register
  PROVE  \E r, m, ob, p: Grown(r, m, ob, p)
<1> DEFINE p == registered + 1
           r == Owner(p)
           n == Len(buckets[r])
           last == buckets[r][n]
<1>0. RegisterTypes /\ sizes \in SizeLists /\ registered \in 0..Len(sizes) /\ registered # Len(sizes)
  BY DEF RegisterInv, RegisterTypes, Register, Registered
<1>1. /\ p \in DOMAIN sizes /\ p \in Nat \ {0} /\ r \in ActorRanks /\ r \in Ranks
      /\ sizes[p] \in 1..BucketSize
  <2>0. Len(sizes) \in Nat
    BY <1>0, SizeFacts
  <2>1. p \in 1..Len(sizes) /\ p \in Nat \ {0}
    BY <1>0, <2>0
  <2> QED
    BY <1>0, <2>1, SizeFacts, RankFacts
<1>2. /\ n \in Nat \ {0} /\ DOMAIN buckets[r] = 1..n /\ last \in Buckets
      /\ last.size \in 0..BucketSize /\ buckets[r] \in Seq(Buckets)
  BY <1>0, <1>1, BucketFacts DEF RegisterTypes
<1>3. Pinned(r) /\ DOMAIN host[r] = 1..n
  <2>1. ~Registered
    BY <1>0 DEF Registered
  <2>2. pc[r] # "done"
    BY <1>1, <2>1 DEF RegisterInv, Beginning
  <2> QED
    BY <1>1, <1>2, <2>2 DEF RegisterInv, Pinned
<1>h. host \in [Ranks -> {host[q]: q \in Ranks}] /\ buckets \in [ActorRanks -> Seq(Buckets)]
  BY <1>0 DEF RegisterTypes
<1>t. host[r] = [i \in 1..n |-> host[r][i]]
  BY <1>2, <1>3 DEF Pinned
<1>s. host[r] \in Seq({host[r][i]: i \in 1..n}) /\ Len(host[r]) = n
  <2> DEFINE H == {host[r][i]: i \in 1..n}
  <2>1. host[r] \in [1..n -> H]
    BY <1>t
  <2> QED
    BY <1>t, <2>1, <1>2
<1>4. CASE last.size + sizes[p] > BucketSize
  <2> DEFINE nb == Extended(EmptyBucket, p)
             nh == Put(EmptyMemory, p, 0)
  <2>1. nb \in Buckets
    BY <1>0, <1>1, EmptyFacts, ExtendedFacts
  <2>2. /\ buckets' = [buckets EXCEPT ![r] = Append(@, nb)]
        /\ host' = [host EXCEPT ![r] = Append(@, nh)]
    BY <1>4 DEF Register
  <2> HIDE DEF p, r, n, last, nb, nh
  <2>3. /\ buckets'[r] = Append(buckets[r], nb) /\ host'[r] = Append(host[r], nh)
        /\ \A q \in ActorRanks \ {r}: buckets'[q] = buckets[q] /\ host'[q] = host[q]
        /\ host' = [q \in Ranks |-> host'[q]]
    BY <1>h, <1>1, <2>2, RankFacts
  <2>4. /\ Append(buckets[r], nb) \in Seq(Buckets)
        /\ Len(Append(buckets[r], nb)) = n + 1 /\ DOMAIN Append(buckets[r], nb) = 1..n + 1
        /\ Append(buckets[r], nb)[n + 1] = nb
        /\ \A i \in 1..n: Append(buckets[r], nb)[i] = buckets[r][i]
    BY <1>2, <2>1 DEF n
  <2>5. /\ Len(Append(host[r], nh)) = n + 1
        /\ Append(host[r], nh) = [i \in 1..n + 1 |-> Append(host[r], nh)[i]]
        /\ Append(host[r], nh)[n + 1] = nh
        /\ \A i \in 1..n: Append(host[r], nh)[i] = host[r][i]
    BY <1>s, <1>2
  <2>6. buckets' \in [ActorRanks -> Seq(Buckets)]
    BY <1>h, <2>2, <2>4
  <2>7. n + 1 \in Nat \ {0} /\ n + 1 \notin 1..n /\ (n + 1) - 1 = n
    BY <1>2
  <2>8. EmptyBucket.size + sizes[p] <= BucketSize
    BY <1>1, EmptyFacts, BucketAssumption
  <2>9. Grown(r, n + 1, EmptyBucket, p)
    BY <1>1, <1>2, <2>3, <2>4, <2>5, <2>6, <2>7, <2>8, EmptyFacts DEF Grown, nb, nh, p
  <2> QED
    BY <2>9
<1>5. CASE ~(last.size + sizes[p] > BucketSize)
  <2> DEFINE nb == Extended(last, p)
             nh == Put(host[r][n], p, last.size)
  <2>0. last.size + sizes[p] <= BucketSize
    BY <1>1, <1>2, <1>5, BucketAssumption
  <2>1. nb \in Buckets
    BY <1>0, <1>1, <1>2, <2>0, ExtendedFacts
  <2>2. /\ buckets' = [buckets EXCEPT ![r][n] = nb]
        /\ host' = [host EXCEPT ![r][n] = nh]
    BY <1>5 DEF Register
  <2> HIDE DEF p, r, n, last, nb, nh
  <2>3. /\ buckets'[r] = [buckets[r] EXCEPT ![n] = nb] /\ host'[r] = [host[r] EXCEPT ![n] = nh]
        /\ \A q \in ActorRanks \ {r}: buckets'[q] = buckets[q] /\ host'[q] = host[q]
        /\ host' = [q \in Ranks |-> host'[q]]
    BY <1>h, <1>1, <2>2, RankFacts
  <2>4. /\ buckets'[r] \in Seq(Buckets) /\ Len(buckets'[r]) = n /\ DOMAIN buckets'[r] = 1..n
        /\ buckets'[r][n] = nb
        /\ \A i \in 1..n - 1: buckets'[r][i] = buckets[r][i]
    BY <1>2, <2>1, <2>3 DEF n
  <2>5. /\ host'[r] = [i \in 1..n |-> host'[r][i]] /\ host'[r][n] = nh
        /\ \A i \in 1..n - 1: host'[r][i] = host[r][i]
    <3>1. host'[r] = [i \in 1..n |-> IF i = n THEN nh ELSE host[r][i]]
      BY <1>t, <2>3, Zenon
    <3>2. n \in 1..n /\ \A i \in 1..n - 1: i \in 1..n /\ i # n
      BY <1>2
    <3> QED
      BY <3>1, <3>2
  <2>6. buckets' \in [ActorRanks -> Seq(Buckets)]
    BY <1>h, <2>2, <2>3, <2>4
  <2>7. n \in DOMAIN buckets[r] /\ \A i \in 1..n - 1: i \in DOMAIN buckets[r]
    BY <1>2
  <2>9. Grown(r, n, last, p)
    BY <1>1, <1>2, <2>0, <2>3, <2>4, <2>5, <2>6, <2>7 DEF Grown, nb, nh, p, last
  <2> QED
    BY <2>9
<1> QED
  BY <1>4, <1>5

\* The places after a registration: those before it, and one more.
LEMMA OldPlaces ==
  ASSUME RegisterTypes, NEW r, NEW m, NEW ob, NEW p, Grown(r, m, ob, p),
         NEW q \in ActorRanks, NEW i \in DOMAIN buckets[q], NEW j \in Entries(q, i)
  PROVE  /\ i \in DOMAIN buckets'[q] /\ j \in Entries(q, i)'
         /\ At(q, i, j)' = At(q, i, j)
<1>0. sizes \in SizeLists
  BY DEF RegisterTypes
<1>1. CASE q # r
  BY <1>1 DEF Grown, Entries, At
<1>2. CASE q = r /\ i # m
  <2>1. i \in 1..m /\ m \in Nat /\ i \in 1..m - 1
    BY <1>2 DEF Grown
  <2> QED
    BY <1>2, <2>1 DEF Grown, Entries, At
<1>3. CASE q = r /\ i = m
  <2>1. ob = buckets[r][m] /\ buckets'[r][m] = Extended(ob, p) /\ m \in DOMAIN buckets'[r]
    BY <1>3 DEF Grown
  <2>2. /\ DOMAIN Extended(ob, p).metas = 1..Len(ob.metas) + 1
        /\ DOMAIN ob.metas = 1..Len(ob.metas) /\ Len(ob.metas) \in Nat
        /\ \A l \in DOMAIN ob.metas: Extended(ob, p).metas[l] = ob.metas[l]
    BY <1>0, ExtendedFacts DEF Grown
  <2> QED
    BY <1>3, <2>1, <2>2 DEF Entries, At
<1> QED
  BY <1>1, <1>2, <1>3

LEMMA NewPlace ==
  ASSUME RegisterTypes, NEW r, NEW m, NEW ob, NEW p, Grown(r, m, ob, p)
  PROVE  /\ m \in DOMAIN buckets'[r] /\ Len(ob.metas) + 1 \in Entries(r, m)'
         /\ At(r, m, Len(ob.metas) + 1)' = Entry(p, ob.size)
         /\ buckets'[r][m].size = ob.size + sizes[p]
         /\ m \in DOMAIN buckets[r] => buckets[r][m].size <= buckets'[r][m].size
<1>0. sizes \in SizeLists /\ sizes[p] \in 1..BucketSize /\ ob.size \in 0..BucketSize /\ BucketSize \in Nat
  BY SizeFacts, BucketAssumption DEF RegisterTypes, Grown, Buckets
<1>1. /\ DOMAIN Extended(ob, p).metas = 1..Len(ob.metas) + 1 /\ Len(ob.metas) \in Nat
      /\ Extended(ob, p).metas[Len(ob.metas) + 1] = Entry(p, ob.size)
      /\ Extended(ob, p).size = ob.size + sizes[p]
  BY <1>0, ExtendedFacts DEF Grown
<1>2. m \in DOMAIN buckets'[r] /\ buckets'[r][m] = Extended(ob, p)
  BY DEF Grown
<1>3. m \in DOMAIN buckets[r] => ob = buckets[r][m]
  BY DEF Grown
<1> QED
  BY <1>0, <1>1, <1>2, <1>3 DEF Entries, At

LEMMA PlacesAfter ==
  ASSUME RegisterTypes, NEW r, NEW m, NEW ob, NEW p, Grown(r, m, ob, p),
         NEW q \in ActorRanks, NEW i \in DOMAIN buckets'[q], NEW j \in Entries(q, i)'
  PROVE  \/ i \in DOMAIN buckets[q] /\ j \in Entries(q, i)
         \/ /\ q = r /\ i = m /\ j = Len(ob.metas) + 1
            /\ m \in DOMAIN buckets[r] => j \notin Entries(q, i)
<1>0. sizes \in SizeLists
  BY DEF RegisterTypes
<1>1. CASE q # r
  BY <1>1 DEF Grown, Entries
<1>2. CASE q = r /\ i # m
  <2>1. i \in 1..m /\ m \in Nat /\ i \in 1..m - 1
    BY <1>2 DEF Grown
  <2> QED
    BY <1>2, <2>1 DEF Grown, Entries
<1>3. CASE q = r /\ i = m
  <2>1. /\ buckets'[r][m] = Extended(ob, p)
        /\ IF m \in DOMAIN buckets[r] THEN ob = buckets[r][m] ELSE ob = EmptyBucket
    BY <1>3 DEF Grown
  <2>2. /\ DOMAIN Extended(ob, p).metas = 1..Len(ob.metas) + 1
        /\ DOMAIN ob.metas = 1..Len(ob.metas) /\ Len(ob.metas) \in Nat
    BY <1>0, ExtendedFacts DEF Grown
  <2>3. j \in 1..Len(ob.metas) + 1
    BY <1>3, <2>1, <2>2 DEF Entries
  <2>4. CASE m \in DOMAIN buckets[r]
    <3>1. Entries(r, m) = 1..Len(ob.metas)
      BY <2>1, <2>2, <2>4 DEF Entries
    <3> QED
      BY <1>3, <2>2, <2>3, <2>4, <3>1
  <2>5. CASE m \notin DOMAIN buckets[r]
    <3>1. Len(ob.metas) = 0
      BY <2>1, <2>5, EmptyFacts
    <3> QED
      BY <1>3, <2>3, <2>5, <3>1
  <2> QED
    BY <2>4, <2>5
<1> QED
  BY <1>1, <1>2, <1>3

\* Writing a parameter behind the entries of a bucket leaves them intact.
LEMMA PutHolds ==
  ASSUME sizes \in SizeLists, NEW b, NEW p \in DOMAIN sizes, NEW o \in 0..BucketSize,
         o + sizes[p] <= BucketSize, NEW e, e.param \in DOMAIN sizes,
         e.offset \in 0..BucketSize,
         \/ Holds(b, e, 0) /\ e.offset + sizes[e.param] <= o
         \/ e = Entry(p, o)
  PROVE  Holds(Put(b, p, o), e, 0)
<1>0. /\ sizes[p] \in 1..BucketSize /\ sizes[e.param] \in 1..BucketSize /\ BucketSize \in Nat
  BY SizeFacts, BucketAssumption
<1>1. CASE Holds(b, e, 0) /\ e.offset + sizes[e.param] <= o
  <2> SUFFICES ASSUME NEW c \in 0..sizes[e.param] - 1
               PROVE  Put(b, p, o)[0 + e.offset + c] = e.param
    BY DEF Holds, Put
  <2>1. b[0 + e.offset + c] = e.param
    BY <1>1 DEF Holds
  <2>2. 0 + e.offset + c \in Cells /\ 0 + e.offset + c \notin o..o + sizes[p] - 1
    BY <1>0, <1>1 DEF Cells
  <2> QED
    BY <2>1, <2>2 DEF Put
<1>2. CASE e = Entry(p, o)
  <2>1. e.param = p /\ e.offset = o
    BY <1>2 DEF Entry
  <2> SUFFICES ASSUME NEW c \in 0..sizes[p] - 1
               PROVE  Put(b, p, o)[0 + o + c] = p
    BY <2>1 DEF Holds, Put
  <2>2. 0 + o + c \in Cells /\ 0 + o + c \in o..o + sizes[p] - 1
    BY <1>0 DEF Cells
  <2> QED
    BY <2>2 DEF Put
<1> QED
  BY <1>1, <1>2

LEMMA RegisterStep ==
  ASSUME RegisterInv, Register
  PROVE  RegisterInv'
<1>1. PICK r, m, ob, p: Grown(r, m, ob, p)
  BY RegisterGrows
<1>2. /\ RegisterTypes /\ Fits /\ Unique /\ Covered /\ Beginning
      /\ sizes \in SizeLists /\ registered \in 0..Len(sizes) /\ registered \in Nat
  BY SizeFacts DEF RegisterInv, RegisterTypes, Register
<1>3. /\ registered' = p /\ p = registered + 1 /\ p \in DOMAIN sizes /\ r \in ActorRanks
      /\ UNCHANGED <<sizes, overlap, turn, staged, pc, casts>>
  BY <1>1 DEF Register, Grown
<1>4. Buckets' = Buckets
  BY <1>3 DEF Buckets
<1>5. RegisterTypes'
  <2>1. registered' \in 0..Len(sizes)'
    BY <1>2, <1>3, SizeFacts
  <2>2. \A q \in ActorRanks: buckets'[q] # <<>>
    <3>1. Len(buckets'[r]) = m /\ m # 0
      BY <1>1 DEF Grown
    <3>2. buckets'[r] # <<>>
      BY <3>1
    <3> QED
      BY <3>2, <1>1, <1>2 DEF RegisterTypes, Grown
  <2>3. buckets' \in [ActorRanks -> Seq(Buckets)] /\ host' = [q \in Ranks |-> host'[q]]
    BY <1>1 DEF Grown
  <2> QED
    BY <1>2, <1>3, <1>4, <2>1, <2>2, <2>3 DEF RegisterTypes
<1> DEFINE new == Len(ob.metas) + 1
<1> HIDE DEF new
<1>6. /\ m \in DOMAIN buckets'[r] /\ new \in Entries(r, m)' /\ At(r, m, new)' = Entry(p, ob.size)
      /\ buckets'[r][m].size = ob.size + sizes[p]
      /\ m \in DOMAIN buckets[r] => buckets[r][m].size <= buckets'[r][m].size
      /\ Entry(p, ob.size).param = p /\ Entry(p, ob.size).offset = ob.size
      /\ ob \in Buckets /\ ob.size \in 0..BucketSize /\ ob.size + sizes[p] <= BucketSize
  <2>1. /\ m \in DOMAIN buckets'[r] /\ new \in Entries(r, m)' /\ At(r, m, new)' = Entry(p, ob.size)
        /\ buckets'[r][m].size = ob.size + sizes[p]
        /\ m \in DOMAIN buckets[r] => buckets[r][m].size <= buckets'[r][m].size
    BY <1>1, <1>2, NewPlace DEF new
  <2> QED
    BY <2>1, <1>1 DEF Grown, Buckets, Entry
<1>7. ASSUME NEW q \in ActorRanks, NEW i \in DOMAIN buckets'[q], NEW j \in Entries(q, i)'
      PROVE  \/ i \in DOMAIN buckets[q] /\ j \in Entries(q, i) /\ At(q, i, j)' = At(q, i, j)
             \/ q = r /\ i = m /\ j = new /\ At(q, i, j)' = Entry(p, ob.size)
  BY <1>1, <1>2, <1>6, PlacesAfter, OldPlaces DEF new
<1>8. ASSUME NEW q \in ActorRanks, NEW i \in DOMAIN buckets[q]
      PROVE  i \in DOMAIN buckets'[q] /\ buckets[q][i].size <= buckets'[q][i].size
  <2>0. buckets[q][i].size \in Nat
    BY <1>2, BucketFacts
  <2>1. CASE q = r /\ i = m
    BY <2>1, <1>6
  <2>2. CASE q = r /\ i # m
    <3>1. i \in 1..m - 1 /\ i \in 1..m /\ DOMAIN buckets'[r] = 1..m
      BY <1>1, <2>2 DEF Grown
    <3> QED
      BY <1>1, <2>0, <2>2, <3>1 DEF Grown
  <2>3. CASE q # r
    BY <1>1, <2>0, <2>3 DEF Grown
  <2> QED
    BY <2>1, <2>2, <2>3
<1>9. Fits'
  <2> SUFFICES ASSUME NEW q \in ActorRanks, NEW i \in DOMAIN buckets'[q],
                      NEW j \in Entries(q, i)'
               PROVE  /\ At(q, i, j)'.param <= p
                      /\ At(q, i, j)'.offset + sizes[At(q, i, j)'.param] <= buckets'[q][i].size
    BY <1>3 DEF Fits
  <2>1. CASE i \in DOMAIN buckets[q] /\ j \in Entries(q, i) /\ At(q, i, j)' = At(q, i, j)
    <3>1. /\ At(q, i, j).param <= registered
          /\ At(q, i, j).offset + sizes[At(q, i, j).param] <= buckets[q][i].size
      BY <1>2, <2>1 DEF Fits
    <3>2. /\ At(q, i, j).param \in Nat /\ At(q, i, j).offset \in Nat
          /\ sizes[At(q, i, j).param] \in Nat /\ buckets[q][i].size \in Nat
      BY <1>2, <2>1, BucketFacts, SizeFacts
    <3>3. i \in DOMAIN buckets'[q] /\ buckets[q][i].size <= buckets'[q][i].size
      BY <1>8, <2>1
    <3>4. buckets'[q][i].size \in Nat
      <4>1. buckets'[q] \in Seq(Buckets)
        BY <1>1 DEF Grown
      <4>2. buckets'[q][i] \in Buckets
        <5> HIDE DEF Buckets
        <5> QED
          BY <4>1
      <4> QED
        BY <4>2 DEF Buckets
    <3> QED
      BY <1>2, <1>3, <2>1, <3>1, <3>2, <3>3, <3>4
  <2>2. CASE q = r /\ i = m /\ j = new /\ At(q, i, j)' = Entry(p, ob.size)
    BY <1>3, <1>6, <2>2, SizeFacts, <1>2
  <2> QED
    BY <1>7, <2>1, <2>2
<1>10. Unique'
  <2> SUFFICES ASSUME NEW q \in ActorRanks, NEW s \in ActorRanks,
                      NEW i \in DOMAIN buckets'[q], NEW k \in DOMAIN buckets'[s],
                      NEW j \in Entries(q, i)', NEW l \in Entries(s, k)',
                      At(q, i, j)'.param = At(s, k, l)'.param
               PROVE  q = s /\ i = k /\ j = l
    BY DEF Unique
  <2>1. \A t \in ActorRanks: \A a \in DOMAIN buckets[t]: \A b \in Entries(t, a):
          At(t, a, b).param # p
    <3> SUFFICES ASSUME NEW t \in ActorRanks, NEW a \in DOMAIN buckets[t],
                        NEW b \in Entries(t, a)
                 PROVE  At(t, a, b).param # p
      OBVIOUS
    <3>1. At(t, a, b).param <= registered /\ At(t, a, b).param \in Nat
      BY <1>2, BucketFacts, SizeFacts DEF Fits
    <3> QED
      BY <1>2, <1>3, <3>1
  <2>2. \/ i \in DOMAIN buckets[q] /\ j \in Entries(q, i) /\ At(q, i, j)' = At(q, i, j)
        \/ q = r /\ i = m /\ j = new /\ At(q, i, j)'.param = p
    BY <1>7, <1>6
  <2>3. \/ k \in DOMAIN buckets[s] /\ l \in Entries(s, k) /\ At(s, k, l)' = At(s, k, l)
        \/ s = r /\ k = m /\ l = new /\ At(s, k, l)'.param = p
    BY <1>7, <1>6
  <2> QED
    BY <2>1, <2>2, <2>3, <1>2 DEF Unique
<1>11. Covered'
  <2> SUFFICES ASSUME NEW x \in 1..p
               PROVE  \E q \in ActorRanks: \E i \in DOMAIN buckets'[q]:
                        \E j \in Entries(q, i)': At(q, i, j)'.param = x
    BY <1>3 DEF Covered
  <2>1. CASE x = p
    BY <1>3, <1>6, <2>1
  <2>2. CASE x # p
    <3>1. x \in 1..registered
      BY <1>2, <1>3, <2>2
    <3>2. PICK q \in ActorRanks: \E i \in DOMAIN buckets[q]:
            \E j \in Entries(q, i): At(q, i, j).param = x
      BY <1>2, <3>1 DEF Covered
    <3>3. PICK i \in DOMAIN buckets[q]: \E j \in Entries(q, i): At(q, i, j).param = x
      BY <3>2
    <3>5. PICK j \in Entries(q, i): At(q, i, j).param = x
      BY <3>3
    <3>4. /\ i \in DOMAIN buckets'[q] /\ j \in Entries(q, i)'
          /\ At(q, i, j)' = At(q, i, j)
      BY <1>1, <1>2, OldPlaces
    <3> QED
      BY <3>5, <3>4
  <2> QED
    BY <2>1, <2>2
<1>12. ASSUME NEW q \in ActorRanks, pc'[q] # "done" PROVE Pinned(q)'
  <2>1. Pinned(q)
    BY <1>3, <1>12 DEF RegisterInv
  <2>2. CASE q # r
    <3>1. buckets'[q] = buckets[q] /\ host'[q] = host[q]
      BY <1>1, <2>2 DEF Grown
    <3>2. host'[q] = [i \in DOMAIN buckets'[q] |-> host'[q][i]]
      BY <2>1, <3>1, Zenon DEF Pinned
    <3>3. ASSUME NEW i \in DOMAIN buckets'[q]
          PROVE  HoldsAll(host[q][i], buckets[q][i].metas, 0)'
      <4>1. HoldsAll(host[q][i], buckets[q][i].metas, 0)
        BY <2>1, <3>1, <3>3 DEF Pinned
      <4> QED
        BY <4>1, <3>1, <1>3 DEF HoldsAll, Holds
    <3> QED
      BY <3>2, <3>3 DEF Pinned
  <2>3. CASE q = r
    <3>1. host'[r] = [i \in DOMAIN buckets'[r] |-> host'[r][i]]
      BY <1>1 DEF Grown
    <3>2. ASSUME NEW i \in DOMAIN buckets'[r], NEW j \in Entries(r, i)'
          PROVE  Holds(host[r][i], At(r, i, j), 0)'
      <4>1. CASE i # m
        <5>1. /\ i \in DOMAIN buckets[r] /\ buckets'[r][i] = buckets[r][i]
              /\ host'[r][i] = host[r][i]
          <6>1. i \in 1..m - 1
            BY <1>1, <4>1 DEF Grown
          <6> QED
            BY <1>1, <6>1 DEF Grown
        <5>2. j \in Entries(r, i) /\ At(r, i, j)' = At(r, i, j)
          BY <3>2, <5>1 DEF Entries, At
        <5>3. Holds(host[r][i], At(r, i, j), 0)
          BY <2>1, <2>3, <5>1, <5>2 DEF Pinned, HoldsAll, Entries, At
        <5> QED
          BY <1>3, <5>1, <5>2, <5>3 DEF Holds
      <4>2. CASE i = m
        <5> DEFINE old == IF m \in DOMAIN buckets[r] THEN host[r][m] ELSE EmptyMemory
        <5>1. host'[r][m] = Put(old, p, ob.size)
          BY <1>1 DEF Grown
        <5> DEFINE e == At(r, i, j)'
        <5>2. \/ Holds(old, e, 0) /\ e.offset + sizes[e.param] <= ob.size
              \/ e = Entry(p, ob.size)
          <6>1. CASE j = new
            BY <1>6, <4>2, <6>1
          <6>2. CASE j # new
            <7>1. i \in DOMAIN buckets[r] /\ j \in Entries(r, i) /\ e = At(r, i, j)
              BY <1>7, <1>3, <3>2, <6>2
            <7>2. ob = buckets[r][m] /\ old = host[r][m]
              BY <1>1, <4>2, <7>1 DEF Grown
            <7>3. Holds(host[r][m], At(r, m, j), 0)
              BY <2>1, <2>3, <4>2, <7>1 DEF Pinned, HoldsAll, Entries, At
            <7>4. At(r, m, j).offset + sizes[At(r, m, j).param] <= ob.size
              BY <1>2, <1>3, <4>2, <7>1, <7>2 DEF Fits
            <7> QED
              BY <4>2, <7>1, <7>2, <7>3, <7>4
          <6> QED
            BY <6>1, <6>2
        <5>3. e.param \in DOMAIN sizes /\ e.offset \in 0..BucketSize
          <6>1. CASE e = Entry(p, ob.size)
            BY <1>3, <1>6, <6>1
          <6>2. CASE e # Entry(p, ob.size)
            <7>1. i \in DOMAIN buckets[r] /\ j \in Entries(r, i) /\ e = At(r, i, j)
              BY <1>7, <1>3, <3>2, <6>2
            <7> QED
              BY <1>2, <1>3, <7>1, BucketFacts
          <6> QED
            BY <6>1, <6>2
        <5> HIDE DEF old, e
        <5>4. Holds(Put(old, p, ob.size), e, 0)
          BY <1>2, <1>3, <1>6, <5>2, <5>3, PutHolds
        <5> QED
          BY <1>3, <4>2, <5>1, <5>4 DEF Holds, Put, e
      <4> QED
        BY <4>1, <4>2
    <3> QED
      BY <2>3, <3>1, <3>2 DEF Pinned, HoldsAll, Entries, At
  <2> QED
    BY <2>2, <2>3
<1>13. Beginning'
  BY <1>2, <1>3 DEF Beginning
<1> QED
  BY <1>5, <1>9, <1>10, <1>11, <1>12, <1>13 DEF RegisterInv

-----------------------------------------------------------------------------
(***************************************************************************)
(* The order of the turns.                                                 *)
(***************************************************************************)
LEMMA TurnFacts ==
  ASSUME RegisterTypes
  PROVE  /\ \A t \in Turns:
              /\ t.round \in 1..Len(buckets[t.rank]) /\ t.round \in Nat \ {0}
              /\ t.round \in DOMAIN buckets[t.rank]
              /\ t.rank \in ActorRanks /\ t.rank \in Nat
              /\ t = [round |-> t.round, rank |-> t.rank]
         /\ \A r \in ActorRanks: \A i \in DOMAIN buckets[r]:
              [round |-> i, rank |-> r] \in Turns
<1>1. ASSUME NEW t \in Turns
      PROVE  /\ t.round \in 1..Len(buckets[t.rank]) /\ t.round \in Nat \ {0}
             /\ t.round \in DOMAIN buckets[t.rank]
             /\ t.rank \in ActorRanks /\ t.rank \in Nat
             /\ t = [round |-> t.round, rank |-> t.rank]
  <2>1. PICK r \in ActorRanks: t \in [round: 1..Len(buckets[r]), rank: {r}]
    BY DEF Turns
  <2>2. Len(buckets[r]) \in Nat /\ DOMAIN buckets[r] = 1..Len(buckets[r])
    BY BucketFacts
  <2> QED
    BY <2>1, <2>2, RankFacts
<1>2. ASSUME NEW r \in ActorRanks, NEW i \in DOMAIN buckets[r]
      PROVE  [round |-> i, rank |-> r] \in Turns
  <2>1. i \in 1..Len(buckets[r])
    BY BucketFacts
  <2>2. [round |-> i, rank |-> r] \in [round: 1..Len(buckets[r]), rank: {r}]
    BY <2>1
  <2> QED
    BY <2>2 DEF Turns
<1> QED
  BY <1>1, <1>2

LEMMA TurnOrder ==
  ASSUME RegisterTypes, NEW t \in Turns, NEW u \in Turns
  PROVE  /\ ~Before(t, t)
         /\ Before(t, u) \/ t = u \/ Before(u, t)
         /\ ~(Before(t, u) /\ Before(u, t))
         /\ \A v \in Turns: Before(t, u) /\ Before(u, v) => Before(t, v)
<1>1. \A v \in Turns: /\ v.round \in Nat /\ v.rank \in Nat
                      /\ v = [round |-> v.round, rank |-> v.rank]
  BY TurnFacts
<1>2. t.round = u.round /\ t.rank = u.rank => t = u
  BY <1>1
<1>3. /\ ~Before(t, t)
      /\ Before(t, u) \/ t = u \/ Before(u, t)
      /\ ~(Before(t, u) /\ Before(u, t))
  BY <1>1, <1>2 DEF Before
<1>4. ASSUME NEW v \in Turns, Before(t, u), Before(u, v) PROVE Before(t, v)
  BY <1>1, <1>4 DEF Before
<1> QED
  BY <1>3, <1>4

\* Every nonempty set of numbers has a least.
LEMMA LeastNumber ==
  ASSUME NEW S \in SUBSET Nat, S # {}
  PROVE  \E n \in S: \A m \in S: n <= m
<1> DEFINE R == OpToRel(<, Nat)
<1>1. IsWellFoundedOn(R, Nat)
  BY NatLessThanWellFounded
<1>b. \A x, y \in Nat: x < y => <<x, y>> \in R
  BY DEF OpToRel
<1> HIDE DEF R
<1>a. \E n \in S: \A m \in S: ~(<<m, n>> \in R)
  BY <1>1, WFMin
<1>2. PICK n \in S: \A m \in S: <<m, n>> \notin R
  BY <1>a
<1>3. ASSUME NEW m \in S PROVE n <= m
  <2>1. n \in Nat /\ m \in Nat /\ ~ (m < n)
    BY <1>b, <1>2
  <2> QED
    BY ONLY <2>1
<1> QED
  BY <1>3

LEMMA FirstTurn ==
  ASSUME RegisterTypes, NEW S \in SUBSET Turns, S # {}
  PROVE  First(S) \in S /\ \A u \in S \ {First(S)}: Before(First(S), u)
<1> DEFINE Rounds == {t.round: t \in S}
<1>0. \A t \in S: t.round \in Nat /\ t.rank \in Nat /\ t = [round |-> t.round, rank |-> t.rank]
  BY TurnFacts
<1>1. PICK n \in Rounds: \A m \in Rounds: n <= m
  <2>1. Rounds \in SUBSET Nat /\ Rounds # {}
    BY <1>0
  <2> QED
    BY <2>1, LeastNumber
<1> DEFINE Ahead == {t.rank: t \in {u \in S: u.round = n}}
<1>2. PICK k \in Ahead: \A m \in Ahead: k <= m
  <2>1. Ahead \in SUBSET Nat /\ Ahead # {}
    BY <1>0, <1>1
  <2> QED
    BY <2>1, LeastNumber
<1>3. PICK f \in S: f.round = n /\ f.rank = k
  BY <1>2
<1>4. ASSUME NEW u \in S \ {f} PROVE Before(f, u)
  <2>1. f.round <= u.round
    BY <1>1, <1>3
  <2>2. f.round = u.round => f.rank <= u.rank
    BY <1>2, <1>3
  <2>3. f.round = u.round => f.rank # u.rank
    BY <1>0
  <2> QED
    BY <1>0, <2>1, <2>2, <2>3 DEF Before
<1>5. \E t \in S: \A u \in S \ {t}: Before(t, u)
  BY <1>4
<1> QED
  BY <1>5 DEF First

\* After a turn comes the next: what is before the next is what was before,
\* and the turn itself.
LEMMA NextTurn ==
  ASSUME RegisterTypes, NEW t \in Turns, Later(t) # {}
  PROVE  /\ First(Later(t)) \in Turns /\ Before(t, First(Later(t)))
         /\ \A u \in Turns: Before(u, First(Later(t))) <=> Before(u, t) \/ u = t
<1> DEFINE f == First(Later(t))
<1>1. f \in Later(t) /\ \A u \in Later(t) \ {f}: Before(f, u)
  <2>1. Later(t) \in SUBSET Turns
    BY DEF Later
  <2> QED
    BY <2>1, FirstTurn
<1> HIDE DEF f
<1>2. f \in Turns /\ Before(t, f)
  BY <1>1 DEF Later
<1>3. ASSUME NEW u \in Turns PROVE Before(u, f) <=> Before(u, t) \/ u = t
  <2>1. CASE Before(u, t) \/ u = t
    BY <1>2, <2>1, TurnOrder
  <2>2. CASE ~(Before(u, t) \/ u = t)
    <3>1. u \in Later(t)
      BY <2>2, TurnOrder DEF Later
    <3>2. u = f \/ Before(f, u)
      BY <1>1, <3>1
    <3> QED
      BY <1>2, <2>2, <3>2, TurnOrder
  <2> QED
    BY <2>1, <2>2
<1> QED
  BY <1>2, <1>3 DEF f

\* The last turn of all.
LEMMA LastTurn ==
  ASSUME RegisterTypes, NEW t \in Turns, Later(t) = {}, NEW u \in Turns
  PROVE  Before(u, t) \/ u = t
<1>1. ~Before(t, u)
  BY DEF Later
<1> QED
  BY <1>1, TurnOrder

-----------------------------------------------------------------------------
(***************************************************************************)
(* What has been broadcast.                                                *)
(***************************************************************************)
LEMMA CastTypes ==
  ASSUME CastInv
  PROVE  /\ Len(casts) \in Nat /\ DOMAIN casts = 1..Len(casts)
         /\ \A k \in DOMAIN casts: casts[k] \in Turns
BY DEF CastInv

\* Until everything is registered nothing but a registration happens.
LEMMA Waiting ==
  ASSUME IInv, RegisterInv, ~Registered, [Next]_vars
  PROVE  Register \/ UNCHANGED vars
<1>0. ControlTypes /\ Agreement /\ \A r \in Ranks: pc[r] = IF overlap THEN "start" ELSE "copy"
  BY DEF IInv, RegisterInv, Beginning
<1>a. 0 \in Ranks
  BY RankFacts
<1>1. ASSUME Collective PROVE FALSE
  BY <1>0, <1>a, <1>1 DEF Collective, Broadcast, Barrier, FinalBarrier
<1>2. ASSUME NEW r \in Ranks, Main(r) PROVE FALSE
  BY <1>0, <1>2 DEF Main, Handshake, CopyToDevice, Answer, SendMetadata, LoadInline, StopLoader, Join
<1>3. ASSUME NEW r \in Ranks, Loader(r) PROVE FALSE
  <2>1. request[r] = Nothing /\ loader[r] \in {"hello", "none"}
    BY <1>0 DEF Agreement, Agreed
  <2> QED
    BY <1>3, <2>1 DEF Loader, LoaderReceives, LoaderLoads
<1> QED
  BY <1>1, <1>2, <1>3 DEF Next, Finished

\* A step of the transfer leaves what was registered alone.
LEMMA RegisterFrame ==
  ASSUME RegisterInv, Registered, UNCHANGED <<sizes, overlap, registered, buckets>>,
         UNCHANGED host \/ \A r \in ActorRanks: pc'[r] = "done",
         \A r \in ActorRanks: pc'[r] # "done" => pc[r] # "done",
         host' = [r \in Ranks |-> host'[r]], staged' = [r \in Ranks |-> staged'[r]],
         turn' = [r \in Ranks |-> turn'[r]]
  PROVE  RegisterInv'
<1>1. RegisterTypes'
  BY DEF RegisterInv, RegisterTypes, Buckets
<1>2. Fits' /\ Unique' /\ Covered'
  BY DEF RegisterInv, Fits, Unique, Covered, Entries, At
<1>3. ASSUME NEW r \in ActorRanks, pc'[r] # "done" PROVE Pinned(r)'
  <2>1. Pinned(r) /\ UNCHANGED host
    BY <1>3 DEF RegisterInv
  <2> QED
    BY <2>1 DEF Pinned, HoldsAll, Holds
<1>4. Registered'
  BY DEF Registered
<1> QED
  BY <1>1, <1>2, <1>3, <1>4 DEF RegisterInv

LEMMA InitRegister == Init => RegisterInv /\ CastInv /\ MemoryInv
<1> SUFFICES ASSUME Init PROVE RegisterInv /\ CastInv /\ MemoryInv
  OBVIOUS
<1>0. /\ sizes \in SizeLists /\ registered = 0 /\ casts = <<>> /\ Len(casts) = 0
      /\ buckets = [r \in ActorRanks |-> <<EmptyBucket>>]
      /\ turn = [r \in Ranks |-> [round |-> 1, rank |-> 0]]
      /\ \A r \in Ranks: pc[r] = IF overlap THEN "start" ELSE "copy"
      /\ \A r \in Ranks: gidx[r] = 0
  BY DEF Init
<1>1. RegisterTypes
  <2>1. <<EmptyBucket>> \in Seq(Buckets) /\ <<EmptyBucket>> # <<>>
    BY EmptyFacts
  <2>2. registered \in 0..Len(sizes)
    BY <1>0, SizeFacts
  <2> QED
    BY <1>0, <2>1, <2>2 DEF RegisterTypes, Init
<1>2. \A r \in ActorRanks: /\ DOMAIN buckets[r] = {1} /\ buckets[r][1] = EmptyBucket
                           /\ DOMAIN buckets[r][1].metas = {}
  BY <1>0, EmptyFacts
<1>3. Fits /\ Unique /\ Covered
  BY <1>0, <1>2 DEF Fits, Unique, Covered, Entries
<1>4. \A r \in ActorRanks: Pinned(r)
  BY <1>2, RankFacts DEF Init, Pinned, HoldsAll
<1>5. RegisterInv
  BY <1>0, <1>1, <1>3, <1>4 DEF RegisterInv, Beginning
<1>6. CastInv
  <2>1. /\ [round |-> 1, rank |-> 0] \in Turns
        /\ \A t \in Turns: ~Before(t, [round |-> 1, rank |-> 0])
    <3>1. [round |-> 1, rank |-> 0] \in Turns
      BY <1>1, <1>2, TurnFacts, RankFacts
    <3>2. \A t \in Turns: t.round \in Nat \ {0} /\ t.rank \in Nat
      BY <1>1, TurnFacts
    <3> QED
      BY <3>1, <3>2 DEF Before
  <2>2. DOMAIN casts = {} /\ casts \in Seq(Turns)
    BY <1>0
  <2>3. ASSUME NEW r \in Ranks PROVE CastRank(r)
    <3>1. ~InFlight(r) /\ ~Over(r) /\ turn[r] = [round |-> 1, rank |-> 0]
      BY <1>0 DEF InFlight, Over
    <3>2. gidx[r] = Len(casts) - 0
      BY <1>0
    <3> QED
      BY <2>1, <2>2, <3>1, <3>2 DEF CastRank, Seen
  <2> QED
    BY <2>2, <2>3 DEF CastInv
<1>7. MemoryInv
  <2>1. \A r \in Ranks: ~InFlight(r) /\ ~Asked(r) /\ ~Loading(r) /\ pc[r] # "broadcast"
    BY <1>0, Kinds DEF Init, InFlight, Asked, Loading
  <2>2. \A r \in Receivers: LoadedRank(r)
    <3> SUFFICES ASSUME NEW r \in Receivers PROVE LoadedRank(r)
      OBVIOUS
    <3>1. r \in Ranks /\ loaded[r] = <<>>
      BY RankFacts DEF Init
    <3>2. 1..gidx[r] - 0 = {}
      BY <1>0, <3>1
    <3> QED
      BY <2>1, <3>1, <3>2 DEF LoadedRank
  <2> QED
    BY <2>1, <2>2, RankFacts DEF MemoryInv, MemoryRank, StagedRank, FlightRank, OrderRank, Init
<1> QED
  BY <1>5, <1>6, <1>7

LEMMA RegisterCast ==
  ASSUME IInv, RegisterInv, CastInv, MemoryInv, Register
  PROVE  CastInv' /\ MemoryInv'
<1>0. RegisterInv' /\ RegisterTypes' /\ Beginning /\ Beginning'
  BY RegisterStep DEF RegisterInv, Register, Beginning
<1>1. /\ casts = <<>> /\ turn = [r \in Ranks |-> [round |-> 1, rank |-> 0]]
      /\ \A r \in Ranks: pc[r] = IF overlap THEN "start" ELSE "copy"
      /\ UNCHANGED <<sizes, overlap, turn, gidx, staged, buf, pc, loader, job, request,
                     reply, loaded, casts>>
  BY <1>0 DEF Beginning, Register
<1>2. /\ [round |-> 1, rank |-> 0] \in Turns'
      /\ \A t \in Turns': ~Before(t, [round |-> 1, rank |-> 0])
  <2>1. Len(buckets'[0]) \in Nat \ {0}
    <3>1. buckets'[0] \in Seq(Buckets') /\ buckets'[0] # <<>>
      BY <1>0, RankFacts DEF RegisterTypes
    <3> HIDE DEF Buckets
    <3> QED
      BY <3>1
  <2>2. [round |-> 1, rank |-> 0] \in [round: 1..Len(buckets'[0]), rank: {0}]
    BY <2>1
  <2>3. \A t \in Turns': t.round >= 1 /\ t.round \in Int /\ t.rank \in Nat
    BY RankFacts DEF Turns
  <2> QED
    BY <2>2, <2>3, RankFacts DEF Turns, Before
<1>3. CastInv'
  <2>1. ASSUME NEW r \in Ranks PROVE CastRank(r)'
    <3>1. /\ ~InFlight(r)' /\ ~Over(r)' /\ ~InFlight(r)
          /\ turn'[r] = [round |-> 1, rank |-> 0]
      BY <1>1 DEF InFlight, Over
    <3>3. casts' = <<>> /\ DOMAIN casts' = {}
      BY <1>1
    <3>2. gidx[r] = Len(casts) - 0
      BY <3>1 DEF CastInv, CastRank
    <3> QED
      BY <1>1, <1>2, <3>1, <3>2, <3>3 DEF CastRank, Seen
  <2> QED
    BY <1>1, <2>1 DEF CastInv
<1>4. MemoryInv'
  <2>1. ASSUME NEW r \in Ranks
        PROVE  /\ ~InFlight(r)' /\ ~InFlight(r) /\ pc'[r] # "broadcast" /\ gidx[r] = 0
               /\ ~Asked(r) /\ ~Loading(r) /\ ~Asked(r)' /\ ~Loading(r)'
    <3>1. ~InFlight(r) /\ gidx[r] = Len(casts) - 0 /\ Len(casts) = 0
      BY <1>1 DEF CastInv, CastRank, InFlight
    <3>2. ~Asked(r) /\ ~Loading(r)
      BY <1>1, <3>1 DEF MemoryInv, MemoryRank, OrderRank
    <3> QED
      BY <1>1, <3>1, <3>2 DEF InFlight, Asked, Loading
  <2>2. ASSUME NEW r \in Receivers PROVE LoadedRank(r)'
    <3>1. 1..gidx[r] - 0 = {} /\ r \in Ranks
      BY <2>1, RankFacts
    <3>2. loaded[r] = [k \in {} |-> Params(bucketOf(casts[k]))]
      BY <2>1, <3>1 DEF MemoryInv, MemoryRank, LoadedRank
    <3>3. loaded[r] = [k \in {} |-> Params(bucketOf(casts[k]))']
      BY <3>2
    <3> QED
      BY <1>1, <2>1, <3>1, <3>3 DEF LoadedRank
  <2> QED
    BY <1>1, <2>1, <2>2, RankFacts DEF MemoryInv, MemoryRank, StagedRank, FlightRank, OrderRank
<1> QED
  BY <1>3, <1>4

LEMMA SameTurns ==
  ASSUME UNCHANGED buckets
  PROVE  Turns' = Turns /\ \A t: Later(t)' = Later(t) /\ bucketOf(t)' = bucketOf(t)
<1>1. Turns' = Turns
  BY DEF Turns
<1> QED
  BY <1>1 DEF Later, bucketOf

LEMMA CastRankFrame ==
  ASSUME CastInv, UNCHANGED <<buckets, casts>>, NEW r \in Ranks,
         turn'[r] = turn[r], gidx'[r] = gidx[r], InFlight(r)' <=> InFlight(r),
         Over(r)' <=> Over(r)
  PROVE  CastRank(r)'
<1>1. CastRank(r)
  BY DEF CastInv
<1> QED
  BY <1>1, SameTurns DEF CastRank, Seen

LEMMA CastFrame ==
  ASSUME CastInv, UNCHANGED <<buckets, casts>>,
         \A r \in Ranks: /\ turn'[r] = turn[r] /\ gidx'[r] = gidx[r]
                         /\ InFlight(r)' <=> InFlight(r)
                         /\ Over(r)' <=> Over(r)
  PROVE  CastInv'
BY CastRankFrame, SameTurns DEF CastInv

\* A rank moves on to the next turn.
LEMMA AdvanceCast ==
  ASSUME IInv, RegisterInv, CastInv, UNCHANGED <<buckets, casts, overlap>>,
         NEW r \in Ranks, pc[r] \in {"send", "load"}, Advance(r)
  PROVE  CastInv'
<1>0. /\ RegisterTypes /\ ControlTypes
      /\ turn = [q \in Ranks |-> turn[q]] /\ pc \in [Ranks -> MainStates]
      /\ gidx \in [Ranks -> Nat]
  BY DEF IInv, ControlTypes, RegisterInv, RegisterTypes
<1> DEFINE t == turn[r]
           out == Later(t) = {}
           next == First(Later(t))
<1>1. /\ pc'[r] = Onward(r) /\ gidx'[r] = gidx[r] + 1
      /\ turn'[r] = IF out THEN t ELSE next
      /\ \A q \in Ranks: q # r => pc'[q] = pc[q] /\ turn'[q] = turn[q] /\ gidx'[q] = gidx[q]
  BY <1>0 DEF Advance
<1>2. /\ t \in Turns /\ gidx[r] = Len(casts) - 1 /\ Len(casts) > 0 /\ Len(casts) \in Nat
      /\ \A u \in Turns: (\E k \in DOMAIN casts: casts[k] = u) <=> Before(u, t) \/ u = t
  BY CastTypes DEF CastInv, CastRank, InFlight, Seen
<1>3. /\ out => Onward(r) \in {"last answer", "final barrier"}
      /\ ~out => Onward(r) \in {"copy", "broadcast"}
  BY DEF Onward
<1>4. CASE out
  <2>1. ~InFlight(r)' /\ Over(r)' /\ turn'[r] = t
    BY <1>1, <1>3, <1>4 DEF InFlight, Over
  <2>2. \A u \in Turns: Seen(r, u)' <=> Before(u, t) \/ u = t
    BY <2>1 DEF Seen
  <2>3. gidx'[r] = Len(casts) - 0
    BY <1>1, <1>2
  <2>4. CastRank(r)'
    BY <1>2, <1>4, <2>1, <2>2, <2>3, SameTurns DEF CastRank
  <2>5. \A q \in Ranks: q # r => CastRank(q)'
    BY <1>1, CastRankFrame DEF InFlight, Over
  <2> QED
    BY <2>4, <2>5, SameTurns DEF CastInv
<1>5. CASE ~out
  <2>1. ~InFlight(r)' /\ ~Over(r)' /\ turn'[r] = next
    BY <1>1, <1>3, <1>5 DEF InFlight, Over
  <2>2. /\ next \in Turns
        /\ \A u \in Turns: Before(u, next) <=> Before(u, t) \/ u = t
    BY <1>0, <1>2, <1>5, NextTurn
  <2> HIDE DEF next
  <2>3. \A u \in Turns: Seen(r, u)' <=> Before(u, t) \/ u = t
    BY <2>1, <2>2 DEF Seen
  <2>4. gidx'[r] = Len(casts) - 0
    BY <1>1, <1>2
  <2>5. CastRank(r)'
    BY <1>2, <2>1, <2>2, <2>3, <2>4, SameTurns DEF CastRank
  <2>6. \A q \in Ranks: q # r => CastRank(q)'
    BY <1>1, CastRankFrame DEF InFlight, Over
  <2> QED
    BY <2>5, <2>6, SameTurns DEF CastInv
<1> QED
  BY <1>4, <1>5

\* All ranks that are about to broadcast are at the same turn.
LEMMA Together ==
  ASSUME RegisterInv, CastInv, NEW r \in Ranks, NEW q \in Ranks,
         pc[r] = "broadcast", pc[q] = "broadcast"
  PROVE  turn[r] = turn[q]
<1>1. RegisterTypes /\ turn[r] \in Turns /\ turn[q] \in Turns
  BY DEF RegisterInv, CastInv, CastRank
<1>2. \A t \in Turns: Before(t, turn[r]) <=> Before(t, turn[q])
  BY DEF CastInv, CastRank, Seen, InFlight, Over
<1> QED
  BY <1>1, <1>2, TurnOrder

LEMMA BroadcastCast ==
  ASSUME IInv, RegisterInv, CastInv, Broadcast
  PROVE  /\ CastInv'
         /\ turn[0] \in Turns /\ \A r \in Ranks: turn[r] = turn[0] /\ gidx[r] = Len(casts)
         /\ \A k \in DOMAIN casts: casts[k] # turn[0]
         /\ casts' = Append(casts, turn[0]) /\ Len(casts') = Len(casts) + 1
         /\ DOMAIN casts' = 1..Len(casts) + 1 /\ casts'[Len(casts) + 1] = turn[0]
         /\ \A k \in DOMAIN casts: casts'[k] = casts[k]
<1> DEFINE t == turn[0]
           n == Len(casts)
<1>0. /\ 0 \in Ranks /\ RegisterTypes
      /\ \A r \in Ranks: pc[r] = "broadcast" /\ pc'[r] = IF overlap THEN "answer" ELSE "load"
      /\ UNCHANGED <<buckets, turn, gidx>> /\ casts' = Append(casts, t)
  BY RankFacts DEF Broadcast, RegisterInv
<1>1. t \in Turns /\ \A r \in Ranks: turn[r] = t
  BY <1>0, Together DEF CastInv, CastRank
<1>2. casts \in Seq(Turns) /\ n \in Nat /\ DOMAIN casts = 1..n
  BY CastTypes DEF CastInv
<1>3. \A r \in Ranks: ~InFlight(r) /\ ~Over(r) /\ InFlight(r)' /\ ~Over(r)'
  BY <1>0 DEF InFlight, Over
<1>4. \A r \in Ranks: gidx[r] = n
  BY <1>2, <1>3 DEF CastInv, CastRank
<1>5. \A u \in Turns: (\E k \in DOMAIN casts: casts[k] = u) <=> Before(u, t)
  BY <1>0, <1>1, <1>3 DEF CastInv, CastRank, Seen
<1>6. \A k \in DOMAIN casts: casts[k] # t
  BY <1>0, <1>1, <1>5, TurnOrder
<1>7. /\ casts' \in Seq(Turns) /\ Len(casts') = n + 1 /\ DOMAIN casts' = 1..n + 1
      /\ casts'[n + 1] = t /\ \A k \in 1..n: casts'[k] = casts[k]
  <2> HIDE DEF t
  <2>1. Append(casts, t) \in Seq(Turns) /\ Len(Append(casts, t)) = n + 1
        /\ DOMAIN Append(casts, t) = 1..n + 1 /\ Append(casts, t)[n + 1] = t
        /\ \A k \in 1..n: Append(casts, t)[k] = casts[k]
    BY <1>1, <1>2
  <2> QED
    BY <1>0, <2>1
<1> HIDE DEF t, n
<1>8. \A k, l \in DOMAIN casts': casts'[k] = casts'[l] => k = l
  <2> SUFFICES ASSUME NEW k \in 1..n + 1, NEW l \in 1..n + 1, casts'[k] = casts'[l]
               PROVE  k = l
    BY <1>7
  <2>1. \A i \in 1..n + 1: i \in 1..n \/ i = n + 1
    BY <1>2
  <2> QED
    BY <1>2, <1>6, <1>7, <2>1 DEF CastInv
<1>9. ASSUME NEW r \in Ranks PROVE CastRank(r)'
  <2>1. turn'[r] = t /\ gidx'[r] = Len(casts') - 1 /\ Len(casts') > 0
    BY <1>0, <1>1, <1>2, <1>4, <1>7
  <2>2. \A u \in Turns: (\E k \in DOMAIN casts': casts'[k] = u) <=> Before(u, t) \/ u = t
    <3> SUFFICES ASSUME NEW u \in Turns
                 PROVE  (\E k \in 1..n + 1: casts'[k] = u) <=> Before(u, t) \/ u = t
      BY <1>7
    <3>1. \A i \in 1..n + 1: i \in 1..n \/ i = n + 1
      BY <1>2
    <3>2. 1..n \subseteq 1..n + 1 /\ n + 1 \in 1..n + 1
      BY <1>2
    <3>3. (\E k \in 1..n + 1: casts'[k] = u) <=> (\E k \in 1..n: casts[k] = u) \/ u = t
      BY <1>7, <3>1, <3>2
    <3> QED
      BY <1>2, <1>5, <3>3
  <2>3. \A u \in Turns: Seen(r, u)' <=> Before(u, t) \/ u = t
    BY <1>3, <2>1 DEF Seen
  <2> QED
    BY <1>0, <1>1, <1>3, <1>7, <2>1, <2>2, <2>3, SameTurns DEF CastRank
<1> QED
  BY <1>0, <1>1, <1>2, <1>4, <1>6, <1>7, <1>8, <1>9, SameTurns DEF CastInv, t, n

-----------------------------------------------------------------------------
(***************************************************************************)
(* What the memories hold.                                                 *)
(***************************************************************************)
LEMMA HoldsFrame ==
  ASSUME UNCHANGED sizes
  PROVE  \A b, m, s: HoldsAll(b, m, s)' = HoldsAll(b, m, s)
BY DEF HoldsAll, Holds

LEMMA OrderFrame ==
  ASSUME UNCHANGED <<sizes, overlap, buckets, casts>>, NEW r, gidx'[r] = gidx[r]
  PROVE  /\ Order(r)' = Order(r) /\ Start(r)' = Start(r)
         /\ OtherHalf(gidx[r])' = OtherHalf(gidx[r])
         /\ bucketOf(casts[gidx[r]])' = bucketOf(casts[gidx[r]])
         /\ \A b, m, s: HoldsAll(b, m, s)' = HoldsAll(b, m, s)
         /\ \A k: Params(bucketOf(casts[k]))' = Params(bucketOf(casts[k]))
<1>1. \A b, m, s: HoldsAll(b, m, s)' = HoldsAll(b, m, s)
  BY HoldsFrame
<1> QED
  BY <1>1 DEF Order, Start, OtherHalf, bucketOf, Metas, Params

\* A rank whose memories and messages are as they were.
LEMMA MemoryFrame ==
  ASSUME MemoryInv, NEW r \in Ranks, UNCHANGED <<sizes, overlap, buckets, casts>>,
         staged'[r] = staged[r], buf'[r] = buf[r], turn'[r] = turn[r], gidx'[r] = gidx[r],
         request'[r] = request[r] \/ (~Asked(r) /\ ~Asked(r)'),
         job'[r] = job[r], Loading(r)' <=> Loading(r), loaded'[r] = loaded[r],
         InFlight(r)' => InFlight(r),
         pc'[r] = "broadcast" => pc[r] = "broadcast" \/ InFlight(r)
  PROVE  MemoryRank(r)'
<1>0. MemoryRank(r)
  BY DEF MemoryInv
<1>1. StagedRank(r) => StagedRank(r)'
  BY DEF StagedRank, HoldsAll, Holds
<1>2. FlightRank(r)'
  <2>1. bucketOf(turn[r])' = bucketOf(turn[r])
    BY DEF bucketOf
  <2> QED
    BY <1>0, <2>1, OrderFrame DEF MemoryRank, FlightRank
<1>3. Asked(r)' <=> Asked(r)
  BY DEF Asked
<1>4. OrderRank(r)'
  BY <1>0, <1>3, OrderFrame DEF MemoryRank, OrderRank, Asked
<1>5. LoadedRank(r) => LoadedRank(r)'
  BY <1>3, OrderFrame DEF LoadedRank
<1> QED
  BY <1>0, <1>1, <1>2, <1>4, <1>5 DEF MemoryRank

\* Moving on to the next broadcast without a copy stays in the round.
LEMMA AdvanceRound ==
  ASSUME RegisterInv, CastInv, NEW r \in Ranks, pc'[r] = Onward(r),
         turn'[r] = IF Later(turn[r]) = {} THEN turn[r] ELSE First(Later(turn[r]))
  PROVE  /\ pc'[r] \notin {"answer", "barrier", "send", "load", "done"}
         /\ pc'[r] = "broadcast" => turn'[r].round = turn[r].round
<1> DEFINE t == turn[r]
           next == First(Later(turn[r]))
<1>1. pc'[r] \notin {"answer", "barrier", "send", "load", "done"}
  BY DEF Onward
<1>2. ASSUME pc'[r] = "broadcast" PROVE turn'[r].round = turn[r].round
  <2>1. Later(t) # {} /\ ~(next.round > t.round) /\ turn'[r] = next
    BY <1>2 DEF Onward
  <2>2. RegisterTypes /\ t \in Turns
    BY DEF RegisterInv, CastInv, CastRank
  <2>3. next \in Turns /\ Before(t, next)
    BY <2>1, <2>2, NextTurn
  <2> HIDE DEF t, next
  <2>4. t.round \in Nat /\ next.round \in Nat
    BY <2>2, <2>3, TurnFacts
  <2>5. next.round = t.round
    BY <2>1, <2>3, <2>4 DEF Before
  <2> QED
    BY <2>1, <2>5 DEF t
<1> QED
  BY <1>1, <1>2

\* The steps of one rank that neither load nor move on.
LEMMA QuietStep ==
  ASSUME IInv, RegisterInv, CastInv, MemoryInv, NEW r \in Ranks,
         Handshake(r) \/ Answer(r) \/ StopLoader(r) \/ Join(r)
  PROVE  CastInv' /\ MemoryInv'
<1>0. ControlTypes /\ Agreed(r)
  BY DEF IInv, Agreement
<1>1. /\ UNCHANGED <<sizes, overlap, registered, buckets, host, turn, gidx, staged, buf,
                     job, loader, loaded, casts>>
      /\ request' = [request EXCEPT ![r] = request'[r]] \/ UNCHANGED request
  BY DEF Handshake, Answer, StopLoader, Join, SendRequest
<1>2. \A q \in Ranks: q # r => pc'[q] = pc[q] /\ request'[q] = request[q]
  BY <1>0 DEF Handshake, Answer, StopLoader, Join, SendRequest, ControlTypes
<1>3. /\ InFlight(r)' <=> InFlight(r)
      /\ Over(r)' <=> Over(r)
      /\ pc'[r] # "broadcast"
  BY <1>0 DEF Handshake, Answer, StopLoader, Join, ControlTypes, InFlight, Over
<1>4. request'[r] = request[r] \/ (~Asked(r) /\ ~Asked(r)')
  <2>1. CASE Handshake(r)
    <3>1. pc[r] = "start" /\ request'[r] = Hello
      BY <1>0, <2>1 DEF Handshake, SendRequest, ControlTypes
    <3>2. request[r] = Nothing
      BY <1>0, <3>1 DEF Agreed
    <3> QED
      BY <3>1, <3>2, Kinds DEF Asked
  <2>2. CASE StopLoader(r)
    <3>1. pc[r] = "last answer" /\ reply[r] /\ request'[r] = Stop
      BY <1>0, <2>2 DEF StopLoader, SendRequest, ReceiveReply, ControlTypes
    <3>2. request[r] = Nothing \/ request[r].kind # "metas"
      BY <1>0, <3>1 DEF Agreed, Unanswered
    <3> QED
      BY <3>1, <3>2, Kinds DEF Asked
  <2>3. CASE Answer(r) \/ Join(r)
    BY <2>3 DEF Answer, Join
  <2> QED
    BY <2>1, <2>2, <2>3
<1>5. \A q \in Ranks: /\ InFlight(q)' <=> InFlight(q)
                      /\ Over(q)' <=> Over(q)
                      /\ Loading(q)' <=> Loading(q)
                      /\ request'[q] = request[q] \/ (~Asked(q) /\ ~Asked(q)')
                      /\ pc'[q] = "broadcast" => pc[q] = "broadcast"
  BY <1>1, <1>2, <1>3, <1>4 DEF InFlight, Over, Loading
<1>6. CastInv'
  BY <1>1, <1>5, CastFrame
<1>7. \A q \in Ranks: MemoryRank(q)'
  BY <1>1, <1>5, MemoryFrame
<1> QED
  BY <1>1, <1>6, <1>7 DEF MemoryInv

\* The barriers.
LEMMA BarrierStep ==
  ASSUME IInv, RegisterInv, CastInv, MemoryInv, Barrier \/ FinalBarrier
  PROVE  CastInv' /\ MemoryInv'
<1>1. UNCHANGED <<sizes, overlap, registered, buckets, turn, gidx, staged, buf, job, loader,
                  request, loaded, casts>>
  BY DEF Barrier, FinalBarrier
<1>2. \A q \in Ranks: /\ InFlight(q)' <=> InFlight(q)
                      /\ Over(q)' <=> Over(q)
                      /\ Loading(q)' <=> Loading(q)
                      /\ request'[q] = request[q]
                      /\ pc'[q] # "broadcast"
  BY <1>1 DEF InFlight, Over, Loading, Barrier, FinalBarrier
<1>3. CastInv'
  BY <1>1, <1>2, CastFrame
<1>4. \A q \in Ranks: MemoryRank(q)'
  BY <1>1, <1>2, MemoryFrame
<1> QED
  BY <1>1, <1>3, <1>4 DEF MemoryInv

\* The bucket of the round is copied from pinned memory that still holds it.
LEMMA CopyMemory ==
  ASSUME IInv, RegisterInv, CastInv, MemoryInv, NEW r \in Ranks, CopyToDevice(r)
  PROVE  CastInv' /\ MemoryInv'
<1>0. /\ ControlTypes /\ RegisterTypes /\ staged = [q \in Ranks |-> staged[q]]
      /\ sizes \in SizeLists /\ BucketSize \in Nat
  BY BucketAssumption DEF IInv, RegisterInv, RegisterTypes
<1> DEFINE i == turn[r].round
<1>1. /\ UNCHANGED <<sizes, overlap, registered, buckets, host, turn, gidx, buf, job, loader,
                     request, loaded, casts>>
      /\ pc[r] = "copy" /\ pc'[r] = "broadcast"
      /\ \A q \in Ranks: q # r => pc'[q] = pc[q] /\ staged'[q] = staged[q]
      /\ staged'[r] = IF i <= Len(host[r])
           THEN [c \in Cells |-> IF c < buckets[r][i].size THEN host[r][i][c] ELSE staged[r][c]]
           ELSE staged[r]
  BY <1>0 DEF CopyToDevice, ControlTypes
<1>2. \A q \in Ranks: /\ InFlight(q)' <=> InFlight(q)
                      /\ Over(q)' <=> Over(q)
                      /\ Loading(q)' <=> Loading(q)
  BY <1>1 DEF InFlight, Over, Loading
<1>3. CastInv'
  BY <1>1, <1>2, CastFrame
<1>4. \A q \in Ranks: q # r => MemoryRank(q)'
  BY <1>1, <1>2, MemoryFrame
<1>5. r \in ActorRanks => StagedRank(r)'
  <2> SUFFICES ASSUME r \in ActorRanks, i \in DOMAIN buckets[r]
               PROVE  HoldsAll(staged'[r], buckets[r][i].metas, 0)
    BY <1>1 DEF StagedRank, HoldsAll, Holds
  <2>1. Pinned(r) /\ pc[r] # "done"
    BY <1>1 DEF RegisterInv
  <2>2. i <= Len(host[r])
    <3> DEFINE n == Len(buckets[r])
               H == {host[r][k]: k \in 1..n}
    <3>1. DOMAIN buckets[r] = 1..n /\ n \in Nat /\ i \in 1..n
      BY <1>0, BucketFacts
    <3>2. host[r] \in [1..n -> H]
      BY <2>1, <3>1 DEF Pinned
    <3> HIDE DEF H, n
    <3>3. host[r] \in Seq(H) /\ Len(host[r]) = n
      BY <3>1, <3>2
    <3> QED
      BY <3>1, <3>3
  <2>3. staged'[r] = [c \in Cells |-> IF c < buckets[r][i].size THEN host[r][i][c] ELSE staged[r][c]]
    BY <1>1, <2>2
  <2> SUFFICES ASSUME NEW j \in Entries(r, i),
                      NEW c \in 0..sizes[At(r, i, j).param] - 1
               PROVE  staged'[r][0 + At(r, i, j).offset + c] = At(r, i, j).param
    BY <1>1 DEF HoldsAll, Holds, Entries, At
  <2>4. host[r][i][0 + At(r, i, j).offset + c] = At(r, i, j).param
    BY <2>1 DEF Pinned, HoldsAll, Holds, Entries, At
  <2>5. /\ At(r, i, j).offset \in 0..BucketSize /\ sizes[At(r, i, j).param] \in 1..BucketSize
        /\ buckets[r][i].size \in 0..BucketSize
        /\ At(r, i, j).offset + sizes[At(r, i, j).param] <= buckets[r][i].size
    BY <1>0, BucketFacts, SizeFacts DEF RegisterInv, Fits
  <2>6. /\ 0 + At(r, i, j).offset + c \in Cells
        /\ 0 + At(r, i, j).offset + c < buckets[r][i].size
    BY <1>0, <2>5 DEF Cells
  <2> QED
    BY <2>3, <2>4, <2>6
<1>6. FlightRank(r)' /\ OrderRank(r)' /\ (LoadedRank(r) => LoadedRank(r)')
  <2>1. ~InFlight(r)' /\ (Asked(r)' <=> Asked(r))
    BY <1>1 DEF InFlight, Asked
  <2>2. OrderRank(r)
    BY DEF MemoryInv, MemoryRank
  <2> QED
    BY ZenonT(30), <1>1, <1>2, <2>1, <2>2, OrderFrame DEF FlightRank, OrderRank, LoadedRank
<1>7. MemoryRank(r)'
  BY <1>5, <1>6 DEF MemoryInv, MemoryRank
<1> QED
  BY <1>1, <1>3, <1>4, <1>7 DEF MemoryInv

LEMMA ExtractFacts ==
  ASSUME NEW b, NEW bucket, NEW start, HoldsAll(b, bucket.metas, start)
  PROVE  Extract(b, bucket.metas, start) = Params(bucket)
BY DEF HoldsAll, Extract, Params

LEMMA SentFacts ==
  ASSUME CastInv
  PROVE  /\ Len(Sent) = Len(casts) /\ DOMAIN Sent = 1..Len(casts) /\ DOMAIN casts = 1..Len(casts)
         /\ \A k \in DOMAIN casts: Sent[k] = Params(bucketOf(casts[k]))
         /\ Len(casts) \in Nat
<1>1. DOMAIN casts = 1..Len(casts) /\ Len(casts) \in Nat
  BY CastTypes
<1> DEFINE f(k) == Params(bucketOf(casts[k]))
<1>2. Sent = [k \in 1..Len(casts) |-> f(k)]
  BY <1>1 DEF Sent
<1> HIDE DEF f
<1>3. DOMAIN Sent = 1..Len(casts) /\ Len(Sent) = Len(casts)
  BY <1>1, <1>2
<1>4. \A k \in DOMAIN casts: Sent[k] = f(k)
  BY <1>1, <1>2
<1> QED
  BY <1>1, <1>3, <1>4 DEF f

\* Loading the next bucket that was broadcast.
LEMMA LoadNext ==
  ASSUME CastInv, MemoryInv, NEW r \in Receivers, NEW n \in Nat, n < Len(casts),
         loaded[r] = [k \in 1..n |-> Params(bucketOf(casts[k]))],
         loaded' = [loaded EXCEPT ![r] = Append(@, Params(bucketOf(casts[n + 1])))],
         UNCHANGED <<sizes, buckets, casts>>,
         \A q \in Receivers: (pc'[q] = "done") <=> (pc[q] = "done")
  PROVE  /\ Stream!Load(r)
         /\ loaded'[r] = [k \in 1..n + 1 |-> Params(bucketOf(casts[k]))]
         /\ \A q \in Ranks: q # r => loaded'[q] = loaded[q]
         /\ loaded' = [q \in Ranks |-> loaded'[q]]
<1> DEFINE f(k) == Params(bucketOf(casts[k]))
<1>0. r \in Ranks /\ loaded = [q \in Ranks |-> loaded[q]] /\ Receivers \subseteq Ranks
  BY RankFacts DEF MemoryInv
<1>1. /\ loaded'[r] = Append(loaded[r], f(n + 1))
      /\ \A q \in Ranks: q # r => loaded'[q] = loaded[q]
      /\ loaded' = [q \in Ranks |-> loaded'[q]]
  BY <1>0
<1>2. loaded[r] = [k \in 1..n |-> f(k)]
  OBVIOUS
<1>3. n + 1 \in DOMAIN casts /\ Sent[n + 1] = f(n + 1) /\ Len(Sent) = Len(casts)
  <2>1. n + 1 \in 1..Len(casts)
    BY CastTypes
  <2> QED
    BY <2>1, SentFacts
<1> HIDE DEF f
<1>4. Len(loaded[r]) = n
  BY <1>2
<1>5. loaded'[r] = [k \in 1..n + 1 |-> f(k)]
  BY <1>1, <1>2, <1>4
<1>6. Stream!Load(r)
  <2> DEFINE old == [q \in Receivers |-> loaded[q]]
             new == [q \in Receivers |-> loaded'[q]]
  <2>1. old[r] = loaded[r] /\ new = [old EXCEPT ![r] = Append(@, Sent[Len(@) + 1])]
    BY <1>0, <1>1, <1>3, <1>4
  <2>2. Len(old[r]) < Len(Sent)
    BY <1>3, <1>4, <2>1
  <2>3. UNCHANGED <<DOMAIN sizes, Sent>>
    BY DEF Sent, Params, bucketOf
  <2>4. UNCHANGED [q \in Receivers |-> pc[q] = "done"]
    <3> SUFFICES [q \in Receivers |-> pc'[q] = "done"] = [q \in Receivers |-> pc[q] = "done"]
      OBVIOUS
    <3>1. \A q \in Receivers: (pc'[q] = "done") = (pc[q] = "done")
      OBVIOUS
    <3> QED
      BY <3>1
  <2> QED
    BY <2>1, <2>2, <2>3, <2>4 DEF Stream!Load
<1> QED
  BY <1>1, <1>5, <1>6 DEF f

\* A step that the stream does not see.
Unseen ==
  /\ UNCHANGED <<sizes, buckets, casts, loaded>>
  /\ \A q \in Receivers: (pc'[q] = "done") <=> (pc[q] = "done")

LEMMA UnseenStutters == Unseen => UNCHANGED Stream!vars
<1> SUFFICES ASSUME Unseen PROVE UNCHANGED Stream!vars
  OBVIOUS
<1>1. UNCHANGED <<DOMAIN sizes, Sent>>
  BY DEF Unseen, Sent, Params, bucketOf
<1>2. UNCHANGED [q \in Receivers |-> loaded[q]]
  BY DEF Unseen
<1>3. UNCHANGED [q \in Receivers |-> pc[q] = "done"]
  <2>1. \A q \in Receivers: (pc'[q] = "done") = (pc[q] = "done")
    BY DEF Unseen
  <2> QED
    BY <2>1
<1> QED
  BY <1>1, <1>2, <1>3 DEF Stream!vars

\* The metadata of the bucket in flight goes to the loader thread, which has
\* answered for the one before it.
LEMMA SendStep ==
  ASSUME IInv, RegisterInv, CastInv, MemoryInv, NEW r \in Ranks, SendMetadata(r)
  PROVE  CastInv' /\ MemoryInv' /\ Unseen
<1>0. ControlTypes /\ RegisterTypes /\ Agreed(r) /\ MemoryRank(r) /\ CastRank(r) /\ gidx[r] \in Nat
  BY DEF IInv, Agreement, RegisterInv, MemoryInv, CastInv, ControlTypes
<1>1. /\ UNCHANGED <<sizes, overlap, registered, buckets, staged, buf, job, loader, loaded, casts>>
      /\ pc[r] = "send" /\ Advance(r)
      /\ request'[r] = Metas(bucketOf(turn[r]).metas, Start(r))
      /\ pc'[r] = Onward(r) /\ gidx'[r] = gidx[r] + 1
      /\ turn'[r] = IF Later(turn[r]) = {} THEN turn[r] ELSE First(Later(turn[r]))
      /\ \A q \in Ranks: q # r => /\ pc'[q] = pc[q] /\ turn'[q] = turn[q]
                                  /\ gidx'[q] = gidx[q] /\ request'[q] = request[q]
  BY <1>0 DEF SendMetadata, Advance, SendRequest, ControlTypes, RegisterTypes
<1>2. overlap /\ ~Asked(r) /\ ~Loading(r) /\ InFlight(r) /\ ~Loading(r)'
  BY <1>0, <1>1, Kinds DEF Agreed, Answered, Asked, Loading, InFlight
<1>3. casts[gidx[r] + 1] = turn[r] /\ gidx[r] + 1 = Len(casts)
  BY <1>0, <1>2, CastTypes DEF CastRank
<1>4. CastInv'
  BY <1>1, AdvanceCast
<1>5. ~InFlight(r)' /\ (pc'[r] = "broadcast" => turn'[r].round = turn[r].round)
  BY <1>0, <1>1, AdvanceRound DEF InFlight
<1>6. Order(r)' = request'[r] /\ Asked(r)' /\ OtherHalf(gidx[r])' = Start(r)
  <2>1. OtherHalf(gidx[r])' = Start(r)
    BY <1>0, <1>1, <1>2, Parity DEF Start, OtherHalf
  <2>2. bucketOf(casts[gidx[r]])' = bucketOf(turn[r])
    BY <1>1, <1>3 DEF bucketOf
  <2> QED
    BY <1>1, <2>1, <2>2, Kinds DEF Order, Metas, Asked
<1>7. MemoryRank(r)'
  <2>1. StagedRank(r) => StagedRank(r)'
    <3> SUFFICES ASSUME StagedRank(r), pc'[r] = "broadcast" PROVE StagedRank(r)'
      BY <1>5 DEF StagedRank
    <3>1. turn'[r].round = turn[r].round
      BY <1>5
    <3>2. turn[r].round \in DOMAIN buckets[r] =>
            HoldsAll(staged[r], buckets[r][turn[r].round].metas, 0)
      BY <1>2 DEF StagedRank
    <3> QED
      BY <1>1, <3>1, <3>2, HoldsFrame DEF StagedRank
  <2>2. FlightRank(r)'
    BY <1>5 DEF FlightRank
  <2>3. OrderRank(r)'
    <3>1. HoldsAll(buf[r], bucketOf(turn[r]).metas, Start(r))
      BY <1>0, <1>2 DEF MemoryRank, FlightRank
    <3>2. bucketOf(casts[gidx[r]])' = bucketOf(turn[r])
      BY <1>1, <1>3 DEF bucketOf
    <3>3. HoldsAll(buf[r], bucketOf(casts[gidx[r]]).metas, OtherHalf(gidx[r]))'
      BY <1>1, <1>6, <3>1, <3>2 DEF HoldsAll, Holds
    <3>4. gidx'[r] > 0 /\ overlap'
      BY <1>0, <1>1, <1>2
    <3> QED
      BY <1>2, <1>6, <3>3, <3>4 DEF OrderRank
  <2>4. ASSUME r \in Receivers PROVE LoadedRank(r)'
    <3>1. loaded[r] = [k \in 1..gidx[r] - 0 |-> Params(bucketOf(casts[k]))]
      BY <1>0, <1>2, <2>4 DEF MemoryRank, LoadedRank
    <3>2. gidx[r] - 0 = gidx'[r] - 1
      BY <1>0, <1>1
    <3>3. \A k: Params(bucketOf(casts[k]))' = Params(bucketOf(casts[k]))
      BY <1>1 DEF Params, bucketOf
    <3>4. loaded'[r] = [k \in 1..gidx'[r] - 1 |-> Params(bucketOf(casts[k]))']
      BY <1>1, <3>1, <3>2, <3>3
    <3> QED
      BY <1>6, <3>4 DEF LoadedRank
  <2> QED
    BY <1>0, <2>1, <2>2, <2>3, <2>4 DEF MemoryRank
<1>8. \A q \in Ranks: q # r => MemoryRank(q)'
  <2> SUFFICES ASSUME NEW q \in Ranks, q # r PROVE MemoryRank(q)'
    OBVIOUS
  <2>1. /\ pc'[q] = pc[q] /\ turn'[q] = turn[q] /\ gidx'[q] = gidx[q] /\ request'[q] = request[q]
        /\ (InFlight(q)' <=> InFlight(q)) /\ (Loading(q)' <=> Loading(q))
    BY <1>1 DEF InFlight, Loading
  <2> QED
    BY <1>1, <2>1, MemoryFrame
<1>9. Unseen
  <2>1. pc[r] # "done" /\ pc'[r] # "done"
    BY <1>1 DEF Onward
  <2> QED
    BY <1>1, <2>1, RankFacts DEF Unseen
<1> QED
  BY <1>1, <1>4, <1>7, <1>8, <1>9 DEF MemoryInv

\* A rank whose memories and messages do not change, and which loads nothing.
LEMMA OthersFrame ==
  ASSUME MemoryInv, UNCHANGED <<sizes, overlap, buckets, casts, staged, buf>>,
         NEW q \in Ranks, pc'[q] = pc[q], turn'[q] = turn[q], gidx'[q] = gidx[q],
         request'[q] = request[q], job'[q] = job[q], loader'[q] = loader[q],
         loaded'[q] = loaded[q]
  PROVE  MemoryRank(q)'
<1>1. (InFlight(q)' <=> InFlight(q)) /\ (Loading(q)' <=> Loading(q))
  BY DEF InFlight, Loading
<1> QED
  BY <1>1, MemoryFrame

\* Without the overlap the main thread loads the bucket of its turn.
LEMMA InlineStep ==
  ASSUME IInv, RegisterInv, CastInv, MemoryInv, NEW r \in Ranks, LoadInline(r)
  PROVE  /\ CastInv' /\ MemoryInv'
         /\ IF r \in Receivers THEN Stream!Load(r) ELSE Unseen
<1>0. ControlTypes /\ RegisterTypes /\ Agreed(r) /\ MemoryRank(r) /\ CastRank(r) /\ gidx[r] \in Nat
  BY DEF IInv, Agreement, RegisterInv, MemoryInv, CastInv, ControlTypes
<1>1. /\ UNCHANGED <<sizes, overlap, registered, buckets, staged, buf, job, loader, request, casts>>
      /\ pc[r] = "load" /\ Advance(r) /\ LoadInto(r, bucketOf(turn[r]).metas, 0)
      /\ pc'[r] = Onward(r) /\ gidx'[r] = gidx[r] + 1
      /\ turn'[r] = IF Later(turn[r]) = {} THEN turn[r] ELSE First(Later(turn[r]))
      /\ \A q \in Ranks: q # r => pc'[q] = pc[q] /\ turn'[q] = turn[q] /\ gidx'[q] = gidx[q]
  BY <1>0 DEF LoadInline, Advance, ControlTypes, RegisterTypes
<1>2. ~overlap /\ ~Asked(r) /\ ~Loading(r) /\ InFlight(r) /\ ~Loading(r)' /\ ~Asked(r)'
  BY <1>0, <1>1, Kinds DEF Agreed, Asked, Loading, InFlight
<1>3. casts[gidx[r] + 1] = turn[r] /\ gidx[r] + 1 = Len(casts)
  BY <1>0, <1>2, CastTypes DEF CastRank
<1>4. CastInv'
  BY <1>1, AdvanceCast
<1>5. /\ ~InFlight(r)' /\ pc'[r] # "done"
      /\ pc'[r] = "broadcast" => turn'[r].round = turn[r].round
  BY <1>0, <1>1, AdvanceRound DEF InFlight
<1>6. \A q \in Ranks: (pc'[q] = "done") <=> (pc[q] = "done")
  BY <1>1, <1>5
<1>7. StagedRank(r) => StagedRank(r)'
  <2> SUFFICES ASSUME StagedRank(r), pc'[r] = "broadcast" PROVE StagedRank(r)'
    BY <1>5 DEF StagedRank
  <2>1. turn'[r].round = turn[r].round
    BY <1>5
  <2>2. turn[r].round \in DOMAIN buckets[r] =>
          HoldsAll(staged[r], buckets[r][turn[r].round].metas, 0)
    BY <1>2 DEF StagedRank
  <2> QED
    BY <1>1, <2>1, <2>2, HoldsFrame DEF StagedRank
<1>8. FlightRank(r)' /\ OrderRank(r)'
  BY <1>2, <1>5 DEF FlightRank, OrderRank
<1>9. CASE r \in Receivers
  <2>1. Extract(buf[r], bucketOf(turn[r]).metas, 0) = Params(bucketOf(turn[r]))
    BY <1>0, <1>2, ExtractFacts DEF MemoryRank, FlightRank, Start
  <2>2. loaded' = [loaded EXCEPT ![r] = Append(@, Params(bucketOf(casts[gidx[r] + 1])))]
    BY <1>1, <1>3, <1>9, <2>1 DEF LoadInto
  <2>3. loaded[r] = [k \in 1..gidx[r] |-> Params(bucketOf(casts[k]))]
    <3>1. gidx[r] - 0 = gidx[r]
      BY <1>0
    <3> QED
      BY <1>0, <1>2, <1>9, <3>1 DEF MemoryRank, LoadedRank
  <2>4. gidx[r] < Len(casts) /\ Receivers \subseteq Ranks
    BY <1>0, <1>3, RankFacts
  <2>5. /\ Stream!Load(r)
        /\ loaded'[r] = [k \in 1..gidx[r] + 1 |-> Params(bucketOf(casts[k]))]
        /\ \A q \in Ranks: q # r => loaded'[q] = loaded[q]
        /\ loaded' = [q \in Ranks |-> loaded'[q]]
    BY <1>0, <1>1, <1>6, <1>9, <2>2, <2>3, <2>4, LoadNext
  <2>6. LoadedRank(r)'
    <3>1. \A k: Params(bucketOf(casts[k]))' = Params(bucketOf(casts[k]))
      BY <1>1 DEF Params, bucketOf
    <3>2. gidx[r] + 1 = gidx'[r] - 0
      BY <1>0, <1>1
    <3>3. loaded'[r] = [k \in 1..gidx'[r] - 0 |-> Params(bucketOf(casts[k]))']
      BY <2>5, <3>1, <3>2
    <3> QED
      BY <1>2, <3>3 DEF LoadedRank
  <2>7. MemoryRank(r)'
    BY <1>0, <1>7, <1>8, <2>6 DEF MemoryRank
  <2>8. \A q \in Ranks: q # r => MemoryRank(q)'
    BY <1>1, <2>5, OthersFrame
  <2> QED
    BY <1>4, <1>9, <2>5, <2>7, <2>8 DEF MemoryInv
<1>10. CASE r \notin Receivers
  <2>1. UNCHANGED loaded
    BY <1>1, <1>10 DEF LoadInto
  <2>2. MemoryRank(r)'
    BY <1>0, <1>7, <1>8, <1>10 DEF MemoryRank
  <2>3. \A q \in Ranks: q # r => MemoryRank(q)'
    BY <1>1, <2>1, OthersFrame
  <2>4. Unseen
    BY <1>1, <1>6, <2>1, RankFacts DEF Unseen
  <2> QED
    BY <1>4, <1>10, <2>1, <2>2, <2>3, <2>4 DEF MemoryInv
<1> QED
  BY <1>9, <1>10

\* The loader thread takes the metadata it has been sent.
LEMMA ReceiveMemory ==
  ASSUME IInv, RegisterInv, CastInv, MemoryInv, NEW r \in Ranks, LoaderReceives(r)
  PROVE  CastInv' /\ MemoryInv' /\ Unseen
<1>0. ControlTypes /\ Agreed(r) /\ MemoryRank(r)
  BY DEF IInv, Agreement, MemoryInv
<1>1. /\ UNCHANGED <<sizes, overlap, registered, buckets, host, turn, gidx, staged, buf, pc,
                     loaded, casts>>
      /\ request'[r] = Nothing /\ loader[r] \in {"hello", "waiting"} /\ request[r] # Nothing
      /\ \A q \in Ranks: q # r => /\ request'[q] = request[q] /\ loader'[q] = loader[q]
                                  /\ job'[q] = job[q]
  BY <1>0 DEF LoaderReceives, ControlTypes
<1>2. ~Asked(r)' /\ ~Loading(r)
  BY <1>1, Kinds DEF Asked, Loading
<1>3. (Loading(r)' <=> Asked(r)) /\ (Loading(r)' => job'[r] = request[r])
  BY <1>0, <1>1 DEF LoaderReceives, ControlTypes, Asked, Loading
<1>4. CastInv'
  BY <1>1, CastFrame DEF InFlight, Over
<1>5. MemoryRank(r)'
  <2>1. StagedRank(r) => StagedRank(r)'
    BY <1>1 DEF StagedRank, HoldsAll, Holds, InFlight
  <2>2. FlightRank(r)'
    <3>1. FlightRank(r) /\ bucketOf(turn[r])' = bucketOf(turn[r]) /\ (InFlight(r)' <=> InFlight(r))
      BY <1>0, <1>1 DEF MemoryRank, bucketOf, InFlight
    <3> QED
      BY <1>1, <3>1, OrderFrame DEF FlightRank
  <2>3. OrderRank(r)'
    <3>1. OrderRank(r)
      BY <1>0 DEF MemoryRank
    <3> QED
      BY <1>1, <1>2, <1>3, <3>1, OrderFrame DEF OrderRank
  <2>4. LoadedRank(r) => LoadedRank(r)'
    BY <1>1, <1>2, <1>3, OrderFrame DEF LoadedRank
  <2> QED
    BY <1>0, <2>1, <2>2, <2>3, <2>4 DEF MemoryRank
<1>6. \A q \in Ranks: q # r => MemoryRank(q)'
  BY <1>1, OthersFrame
<1>7. Unseen
  BY <1>1 DEF Unseen
<1> QED
  BY <1>1, <1>4, <1>5, <1>6, <1>7 DEF MemoryInv

\* The loader thread loads the half it was told of, which still holds the
\* bucket.
LEMMA LoaderStep ==
  ASSUME IInv, RegisterInv, CastInv, MemoryInv, NEW r \in Ranks, LoaderLoads(r)
  PROVE  /\ CastInv' /\ MemoryInv'
         /\ IF r \in Receivers THEN Stream!Load(r) ELSE Unseen
<1>0. ControlTypes /\ Agreed(r) /\ MemoryRank(r) /\ CastRank(r) /\ gidx[r] \in Nat
  BY DEF IInv, Agreement, MemoryInv, CastInv, ControlTypes
<1>1. /\ UNCHANGED <<sizes, overlap, registered, buckets, host, turn, gidx, staged, buf, pc,
                     request, casts>>
      /\ Loading(r) /\ ~Loading(r)' /\ LoadInto(r, job[r].metas, job[r].start)
      /\ \A q \in Ranks: q # r => loader'[q] = loader[q] /\ job'[q] = job[q]
  BY <1>0 DEF LoaderLoads, ControlTypes, Loading
<1>2. ~Asked(r) /\ ~Asked(r)'
  <2>1. ~Asked(r)
    BY <1>0, <1>1, Kinds DEF Loading, Asked, Agreed, Unanswered, Answered, ControlTypes, MainStates
  <2> QED
    BY <1>1, <2>1 DEF Asked
<1>3. CastInv'
  BY <1>1, CastFrame DEF InFlight, Over
<1>4. StagedRank(r) => StagedRank(r)'
  BY <1>1 DEF StagedRank, HoldsAll, Holds, InFlight
<1>5. FlightRank(r)' /\ OrderRank(r)'
  <2>1. FlightRank(r) /\ bucketOf(turn[r])' = bucketOf(turn[r]) /\ (InFlight(r)' <=> InFlight(r))
    BY <1>0, <1>1 DEF MemoryRank, bucketOf, InFlight
  <2> QED
    BY <1>1, <1>2, <2>1, OrderFrame DEF FlightRank, OrderRank
<1>6. CASE r \in Receivers
  <2> DEFINE n == gidx[r] - 1
  <2>1. /\ job[r] = Order(r) /\ gidx[r] > 0
        /\ HoldsAll(buf[r], bucketOf(casts[gidx[r]]).metas, OtherHalf(gidx[r]))
    BY <1>0, <1>1 DEF MemoryRank, OrderRank
  <2>2. /\ job[r].metas = bucketOf(casts[gidx[r]]).metas
        /\ job[r].start = OtherHalf(gidx[r])
    BY <2>1 DEF Order, Metas
  <2>3. Extract(buf[r], job[r].metas, job[r].start) = Params(bucketOf(casts[gidx[r]]))
    BY <2>1, <2>2, ExtractFacts
  <2>4. n \in Nat /\ n + 1 = gidx[r] /\ n < Len(casts) /\ gidx[r] - 0 = gidx[r]
    BY <1>0, <2>1, CastTypes DEF CastRank
  <2>5. loaded' = [loaded EXCEPT ![r] = Append(@, Params(bucketOf(casts[n + 1])))]
    BY <1>1, <1>6, <2>3, <2>4 DEF LoadInto
  <2>6. loaded[r] = [k \in 1..n |-> Params(bucketOf(casts[k]))]
    BY <1>0, <1>1, <1>6 DEF MemoryRank, LoadedRank
  <2> HIDE DEF n
  <2>7. /\ Stream!Load(r)
        /\ loaded'[r] = [k \in 1..n + 1 |-> Params(bucketOf(casts[k]))]
        /\ \A q \in Ranks: q # r => loaded'[q] = loaded[q]
        /\ loaded' = [q \in Ranks |-> loaded'[q]]
    BY <1>1, <1>6, <2>4, <2>5, <2>6, LoadNext
  <2>8. LoadedRank(r)'
    <3>1. \A k: Params(bucketOf(casts[k]))' = Params(bucketOf(casts[k]))
      BY <1>1 DEF Params, bucketOf
    <3>2. loaded'[r] = [k \in 1..gidx'[r] - 0 |-> Params(bucketOf(casts[k]))']
      BY <1>1, <2>4, <2>7, <3>1
    <3> QED
      BY <1>1, <1>2, <3>2 DEF LoadedRank
  <2>9. MemoryRank(r)'
    BY <1>0, <1>4, <1>5, <2>8 DEF MemoryRank
  <2>10. \A q \in Ranks: q # r => MemoryRank(q)'
    BY <1>1, <2>7, OthersFrame
  <2> QED
    BY <1>3, <1>6, <2>7, <2>9, <2>10 DEF MemoryInv
<1>7. CASE r \notin Receivers
  <2>1. UNCHANGED loaded
    BY <1>1, <1>7 DEF LoadInto
  <2>2. MemoryRank(r)'
    BY <1>0, <1>4, <1>5, <1>7 DEF MemoryRank
  <2>3. \A q \in Ranks: q # r => MemoryRank(q)'
    BY <1>1, <2>1, OthersFrame
  <2>4. Unseen
    BY <1>1, <2>1 DEF Unseen
  <2> QED
    BY <1>3, <1>7, <2>1, <2>2, <2>3, <2>4 DEF MemoryInv
<1> QED
  BY <1>6, <1>7

\* Where the halves lie.
LEMMA Halves ==
  ASSUME NEW r \in Ranks, gidx[r] \in Nat
  PROVE  /\ Start(r) \in {0, BucketSize} /\ OtherHalf(gidx[r]) \in {0, BucketSize}
         /\ overlap => Start(r) # OtherHalf(gidx[r])
         /\ BucketSize \in Nat \ {0}
<1>1. gidx[r] % 2 \in {0, 1}
  OBVIOUS
<1>2. CASE gidx[r] % 2 = 0
  BY <1>2, BucketAssumption DEF Start, OtherHalf
<1>3. CASE gidx[r] % 2 = 1
  BY <1>3, BucketAssumption DEF Start, OtherHalf
<1> QED
  BY <1>1, <1>2, <1>3

\* Every rank has the bucket of the turn in one half, and what it has handed
\* to its loader thread still in the other.
LEMMA BroadcastMemory ==
  ASSUME IInv, RegisterInv, CastInv, MemoryInv, Broadcast
  PROVE  MemoryInv'
<1> DEFINE t == turn[0]
           k == t.rank
           i == t.round
<1>0. /\ RegisterTypes /\ ControlTypes /\ sizes \in SizeLists /\ k \in ActorRanks /\ k \in Ranks
      /\ i \in DOMAIN buckets[k] /\ bucketOf(t) = buckets[k][i]
      /\ \A r \in Ranks: turn[r] = t /\ gidx[r] = Len(casts)
      /\ Len(casts) \in Nat /\ DOMAIN casts = 1..Len(casts)
  BY BroadcastCast, TurnFacts, RankFacts, CastTypes
     DEF IInv, RegisterInv, RegisterTypes, bucketOf
<1>1. /\ UNCHANGED <<sizes, overlap, registered, buckets, turn, gidx, staged, loader, job,
                     request, loaded>>
      /\ \A r \in Ranks: pc[r] = "broadcast" /\ pc'[r] = IF overlap THEN "answer" ELSE "load"
      /\ \A r \in Ranks: buf'[r] =
           [c \in 0..2 * BucketSize - 1 |->
              IF c \in Start(r)..Start(r) + bucketOf(turn[r]).size - 1
              THEN staged[turn[r].rank][c - Start(r)] ELSE buf[r][c]]
      /\ \A a \in DOMAIN casts: casts'[a] = casts[a]
  BY BroadcastCast DEF Broadcast
<1> HIDE DEF k, i
<1>2. ASSUME NEW r \in Ranks
      PROVE  /\ \A c \in 0..2 * BucketSize - 1:
                  buf'[r][c] = IF c \in Start(r)..Start(r) + buckets[k][i].size - 1
                               THEN staged[k][c - Start(r)] ELSE buf[r][c]
             /\ gidx[r] \in Nat
  <2>1. turn[r].rank = k /\ bucketOf(turn[r]).size = buckets[k][i].size /\ gidx[r] \in Nat
    BY <1>0 DEF k
  <2>2. buf'[r] = [c \in 0..2 * BucketSize - 1 |->
                     IF c \in Start(r)..Start(r) + bucketOf(turn[r]).size - 1
                     THEN staged[turn[r].rank][c - Start(r)] ELSE buf[r][c]]
    BY <1>1
  <2> HIDE DEF t
  <2>3. buf'[r] = [c \in 0..2 * BucketSize - 1 |->
                     IF c \in Start(r)..Start(r) + buckets[k][i].size - 1
                     THEN staged[k][c - Start(r)] ELSE buf[r][c]]
    BY <2>1, <2>2
  <2> QED
    BY <2>1, <2>3
<1>3. /\ buckets[k][i].size \in 0..BucketSize /\ BucketSize \in Nat \ {0}
      /\ \A j \in Entries(k, i):
           /\ At(k, i, j).offset \in 0..BucketSize /\ sizes[At(k, i, j).param] \in 1..BucketSize
           /\ At(k, i, j).offset + sizes[At(k, i, j).param] <= buckets[k][i].size
  BY <1>0, BucketFacts, SizeFacts, BucketAssumption DEF RegisterInv, Fits
<1>4. \A j \in Entries(k, i): \A c \in 0..sizes[At(k, i, j).param] - 1:
        staged[k][0 + At(k, i, j).offset + c] = At(k, i, j).param
  <2>1. StagedRank(k) /\ pc[k] = "broadcast" /\ turn[k].round = i
    BY <1>0, <1>1 DEF MemoryInv, MemoryRank, i
  <2>2. HoldsAll(staged[k], buckets[k][i].metas, 0)
    BY <1>0, <2>1 DEF StagedRank
  <2> QED
    BY <2>2 DEF HoldsAll, Holds, Entries, At
<1>5. ASSUME NEW r \in Ranks PROVE FlightRank(r)'
  <2>1. /\ Start(r) \in {0, BucketSize} /\ Start(r)' = Start(r)
        /\ bucketOf(turn[r])' = buckets[k][i]
    BY <1>0, <1>1, <1>2, Halves DEF Start, bucketOf
  <2>2. ASSUME NEW j \in Entries(k, i), NEW c \in 0..sizes[At(k, i, j).param] - 1
        PROVE  buf'[r][Start(r) + At(k, i, j).offset + c] = At(k, i, j).param
    <3> DEFINE x == Start(r) + At(k, i, j).offset + c
    <3>1. /\ x \in 0..2 * BucketSize - 1
          /\ x \in Start(r)..Start(r) + buckets[k][i].size - 1
          /\ x - Start(r) = 0 + At(k, i, j).offset + c
      BY <1>3, <2>1
    <3> QED
      BY <1>2, <1>4, <3>1
  <2>3. HoldsAll(buf'[r], buckets[k][i].metas, Start(r))
    BY <2>2 DEF HoldsAll, Holds, Entries, At
  <2> QED
    BY <1>1, <2>1, <2>3, HoldsFrame DEF FlightRank
<1>6. ASSUME NEW r \in Ranks PROVE OrderRank(r)'
  <2>0. OrderRank(r)
    BY DEF MemoryInv, MemoryRank
  <2>1. (Asked(r)' <=> Asked(r)) /\ (Loading(r)' <=> Loading(r))
    BY <1>1 DEF Asked, Loading
  <2> SUFFICES ASSUME Asked(r) \/ Loading(r) PROVE OrderRank(r)'
    BY <2>1 DEF OrderRank
  <2> DEFINE g == casts[gidx[r]]
             o == OtherHalf(gidx[r])
  <2>2. /\ gidx[r] > 0 /\ overlap /\ HoldsAll(buf[r], bucketOf(g).metas, o)
        /\ gidx[r] \in DOMAIN casts
    BY <1>0, <1>2, <2>0 DEF OrderRank
  <2>3. g' = g /\ g \in Turns /\ bucketOf(g)' = bucketOf(g) /\ o' = o
    BY <1>1, <2>2, CastTypes DEF bucketOf, OtherHalf
  <2>4. Order(r)' = Order(r)
    BY <2>3 DEF Order, Metas
  <2>5. /\ Start(r) \in {0, BucketSize} /\ o \in {0, BucketSize} /\ Start(r) # o
    BY <1>2, <2>2, Halves
  <2>6. /\ g.rank \in ActorRanks /\ g.round \in DOMAIN buckets[g.rank]
        /\ bucketOf(g) = buckets[g.rank][g.round]
    BY <1>0, <2>3, TurnFacts DEF bucketOf
  <2> HIDE DEF g, o
  <2>7. \A j \in Entries(g.rank, g.round):
          LET e == At(g.rank, g.round, j)
          IN  /\ e.offset \in 0..BucketSize /\ sizes[e.param] \in 1..BucketSize
              /\ e.offset + sizes[e.param] <= BucketSize
    <3> SUFFICES ASSUME NEW j \in Entries(g.rank, g.round)
                 PROVE  LET e == At(g.rank, g.round, j)
                        IN  /\ e.offset \in 0..BucketSize /\ sizes[e.param] \in 1..BucketSize
                            /\ e.offset + sizes[e.param] <= BucketSize
      OBVIOUS
    <3>1. LET e == At(g.rank, g.round, j)
          IN  /\ e.offset \in 0..BucketSize /\ sizes[e.param] \in 1..BucketSize
              /\ e.offset + sizes[e.param] <= buckets[g.rank][g.round].size
      BY <1>0, <2>6, BucketFacts, SizeFacts DEF RegisterInv, Fits
    <3>2. buckets[g.rank][g.round].size \in 0..BucketSize
      BY <1>0, <2>6, BucketFacts
    <3> QED
      BY <1>3, <3>1, <3>2
  <2>8. ASSUME NEW j \in Entries(g.rank, g.round),
               NEW c \in 0..sizes[At(g.rank, g.round, j).param] - 1
        PROVE  buf'[r][o + At(g.rank, g.round, j).offset + c] = At(g.rank, g.round, j).param
    <3> DEFINE x == o + At(g.rank, g.round, j).offset + c
    <3>1. /\ x \in 0..2 * BucketSize - 1
          /\ x \notin Start(r)..Start(r) + buckets[k][i].size - 1
      BY <1>3, <2>5, <2>7
    <3>2. buf[r][x] = At(g.rank, g.round, j).param
      BY <2>2, <2>6 DEF HoldsAll, Holds, Entries, At
    <3> QED
      BY <1>2, <3>1, <3>2
  <2>9. HoldsAll(buf'[r], bucketOf(g).metas, o)
    BY <2>6, <2>8 DEF HoldsAll, Holds, Entries, At
  <2>10. HoldsAll(buf[r], bucketOf(casts[gidx[r]]).metas, OtherHalf(gidx[r]))'
    BY <1>1, <2>3, <2>9, HoldsFrame DEF g, o
  <2> QED
    BY <1>1, <2>0, <2>1, <2>2, <2>4, <2>10 DEF OrderRank
<1>7. ASSUME NEW r \in Ranks, StagedRank(r) PROVE StagedRank(r)'
  <2>1. pc[r] = "broadcast" /\ turn'[r] = turn[r]
    BY <1>1
  <2> QED
    BY <1>1, <1>7, <2>1, HoldsFrame DEF StagedRank
<1>8. ASSUME NEW r \in Ranks, LoadedRank(r) PROVE LoadedRank(r)'
  <2> DEFINE x == IF Asked(r) \/ Loading(r) THEN 1 ELSE 0
  <2>1. /\ x' = x /\ gidx'[r] = gidx[r] /\ loaded'[r] = loaded[r]
        /\ loaded[r] = [a \in 1..gidx[r] - x |-> Params(bucketOf(casts[a]))]
        /\ x \in {0, 1}
    BY <1>1, <1>8 DEF Asked, Loading, LoadedRank
  <2>2. gidx[r] - x \in Int /\ gidx[r] - x <= Len(casts)
    BY <1>0, <2>1
  <2> HIDE DEF x
  <2>3. \A a \in 1..gidx[r] - x: a \in DOMAIN casts
    BY <1>0, <2>2
  <2>4. \A a \in 1..gidx[r] - x: Params(bucketOf(casts[a]))' = Params(bucketOf(casts[a]))
    BY <1>1, <2>3 DEF Params, bucketOf
  <2>5. loaded'[r] = [a \in 1..gidx'[r] - x' |-> Params(bucketOf(casts[a]))']
    BY <2>1, <2>4
  <2> QED
    BY <2>5 DEF LoadedRank, x
<1>9. \A r \in Ranks: MemoryRank(r)'
  BY <1>5, <1>6, <1>7, <1>8 DEF MemoryInv, MemoryRank
<1> QED
  BY <1>1, <1>9 DEF MemoryInv

-----------------------------------------------------------------------------
(***************************************************************************)
(* The broadcast engine takes the steps of the stream.                     *)
(***************************************************************************)
LEMMA BroadcastPacks ==
  ASSUME IInv, RegisterInv, CastInv, MemoryInv, Broadcast
  PROVE  Stream!Pack
<1> DEFINE t == turn[0]
           n == Len(casts)
<1>1. /\ t \in Turns /\ casts' = Append(casts, t) /\ Len(casts') = n + 1
      /\ DOMAIN casts' = 1..n + 1 /\ casts'[n + 1] = t /\ n \in Nat /\ DOMAIN casts = 1..n
      /\ \A k \in 1..n: casts'[k] = casts[k]
      /\ CastInv' /\ RegisterTypes /\ sizes \in SizeLists
  BY BroadcastCast, CastTypes DEF RegisterInv, RegisterTypes
<1>2. /\ UNCHANGED <<sizes, buckets, loaded>>
      /\ \A r \in Ranks: pc[r] = "broadcast" /\ pc'[r] \in {"answer", "load"}
  BY DEF Broadcast
<1> HIDE DEF t, n
<1>3. /\ Len(Sent) = n /\ DOMAIN Sent = 1..n
      /\ \A k \in 1..n: Sent[k] = Params(bucketOf(casts[k]))
  BY <1>1, SentFacts DEF n
<1>4. Sent' = [k \in 1..n + 1 |-> Params(bucketOf(casts'[k]))]
  BY <1>1, <1>2 DEF Sent, Params, bucketOf
<1>5. ASSUME NEW u \in Turns
      PROVE  /\ u.rank \in ActorRanks /\ u.round \in DOMAIN buckets[u.rank]
             /\ u = [round |-> u.round, rank |-> u.rank]
             /\ bucketOf(u) = buckets[u.rank][u.round]
             /\ DOMAIN Params(bucketOf(u)) = Entries(u.rank, u.round)
             /\ \A j \in Entries(u.rank, u.round):
                  Params(bucketOf(u))[j] = At(u.rank, u.round, j).param
             /\ Params(bucketOf(u)) \in Seq(DOMAIN sizes)
  <2>1. /\ u.rank \in ActorRanks /\ u.round \in DOMAIN buckets[u.rank]
        /\ u = [round |-> u.round, rank |-> u.rank]
    BY <1>1, TurnFacts
  <2>2. /\ bucketOf(u) = buckets[u.rank][u.round]
        /\ DOMAIN Params(bucketOf(u)) = Entries(u.rank, u.round)
        /\ \A j \in Entries(u.rank, u.round):
             Params(bucketOf(u))[j] = At(u.rank, u.round, j).param
        /\ Params(bucketOf(u)) =
             [j \in Entries(u.rank, u.round) |-> At(u.rank, u.round, j).param]
    BY DEF bucketOf, Params, Entries, At
  <2>3. PICK m \in Nat: Entries(u.rank, u.round) = 1..m
    <3> DEFINE E == [param: DOMAIN sizes, offset: 0..BucketSize]
    <3>1. bucketOf(u).metas \in Seq(E)
      BY <1>1, <2>1, <2>2, BucketFacts DEF Buckets
    <3> HIDE DEF E
    <3>2. DOMAIN bucketOf(u).metas = 1..Len(bucketOf(u).metas) /\ Len(bucketOf(u).metas) \in Nat
      BY <3>1
    <3> QED
      BY <2>2, <3>2 DEF Entries
  <2>4. \A j \in 1..m: At(u.rank, u.round, j).param \in DOMAIN sizes
    BY <1>1, <2>1, <2>3, BucketFacts
  <2>5. Params(bucketOf(u)) \in [1..m -> DOMAIN sizes]
    BY <2>2, <2>3, <2>4
  <2> QED
    BY <2>1, <2>2, <2>3, <2>5
<1>6. Sent'[n + 1] = Params(bucketOf(t)) /\ Sent'[n + 1] \in Seq(DOMAIN sizes)
  BY <1>1, <1>4, <1>5
<1>7. Sent' = Append(Sent, Sent'[n + 1])
  <2> DEFINE f(k) == Params(bucketOf(casts'[k]))
  <2>1. \A k \in 1..n: Sent[k] = f(k)
    BY <1>1, <1>3
  <2>2. Sent' = [k \in 1..n + 1 |-> f(k)]
    BY <1>4
  <2>3. Sent = [k \in 1..n |-> f(k)]
    BY <1>1, <1>3, <2>1 DEF Sent
  <2> HIDE DEF f
  <2> QED
    BY <1>1, <2>2, <2>3
<1>8. Stream!Once(Sent')
  <2> SUFFICES ASSUME NEW a \in 1..n + 1, NEW b \in 1..n + 1,
                      NEW j \in DOMAIN Sent'[a], NEW l \in DOMAIN Sent'[b],
                      Sent'[a][j] = Sent'[b][l]
               PROVE  a = b /\ j = l
    BY ZenonT(30), <1>4 DEF Stream!Once
  <2> DEFINE u == casts'[a]
             v == casts'[b]
  <2>1. u \in Turns /\ v \in Turns
    BY <1>1, <1>2, SameTurns, CastTypes DEF CastInv
  <2>2. Sent'[a] = Params(bucketOf(u)) /\ Sent'[b] = Params(bucketOf(v))
    BY <1>4
  <2> HIDE DEF u, v
  <2>3. j \in Entries(u.rank, u.round) /\ l \in Entries(v.rank, v.round)
    BY <1>5, <2>1, <2>2
  <2>4. At(u.rank, u.round, j).param = At(v.rank, v.round, l).param
    BY <1>5, <2>1, <2>2, <2>3
  <2>5. u.rank = v.rank /\ u.round = v.round /\ j = l
    BY <1>5, <2>1, <2>3, <2>4 DEF RegisterInv, Unique
  <2>6. u = v
    BY <1>5, <2>1, <2>5
  <2>7. a = b
    BY <1>1, <2>6 DEF CastInv, u, v
  <2> QED
    BY <2>5, <2>7
<1>9. UNCHANGED [r \in Receivers |-> pc[r] = "done"]
  <2>1. \A r \in Receivers: (pc'[r] = "done") = (pc[r] = "done")
    BY <1>2, RankFacts
  <2> QED
    BY <2>1
<1>10. UNCHANGED <<DOMAIN sizes, [r \in Receivers |-> loaded[r]]>>
  BY <1>2
<1>11. n + 1 \in DOMAIN Sent'
  BY <1>1, <1>4
<1> QED
  BY <1>6, <1>7, <1>8, <1>9, <1>10, <1>11 DEF Stream!Pack

\* At the final barrier every turn has been taken, and nothing is in the
\* hands of a loader thread.
LEMMA FinalReturns ==
  ASSUME IInv, RegisterInv, CastInv, MemoryInv, FinalBarrier
  PROVE  Stream!Return(Receivers)
<1>0. /\ RegisterTypes /\ Agreement /\ 0 \in Ranks /\ Receivers \subseteq Ranks
      /\ sizes \in SizeLists
      /\ \A r \in Ranks: pc[r] = "final barrier" /\ pc' = [q \in Ranks |-> "done"]
      /\ UNCHANGED <<sizes, buckets, casts, loaded>>
  BY RankFacts DEF IInv, RegisterInv, RegisterTypes, FinalBarrier
<1>1. registered = Len(sizes)
  BY <1>0 DEF RegisterInv, Beginning, Registered
<1>2. \A u \in Turns: \E k \in DOMAIN casts: casts[k] = u
  <2>1. Over(0) /\ turn[0] \in Turns /\ Later(turn[0]) = {}
    BY <1>0 DEF Over, CastInv, CastRank
  <2>2. \A u \in Turns: Seen(0, u)
    BY <1>0, <2>1, LastTurn DEF Seen
  <2> QED
    BY <1>0, <2>2 DEF CastInv, CastRank
<1>3. Stream!Complete(Sent)
  <2> SUFFICES ASSUME NEW p \in DOMAIN sizes
               PROVE  \E k \in DOMAIN Sent: \E j \in DOMAIN Sent[k]: Sent[k][j] = p
    BY DEF Stream!Complete
  <2>1. p \in 1..registered
    BY <1>0, <1>1, SizeFacts
  <2>2. PICK r \in ActorRanks: \E i \in DOMAIN buckets[r]:
          \E j \in Entries(r, i): At(r, i, j).param = p
    BY <2>1 DEF RegisterInv, Covered
  <2>3. PICK i \in DOMAIN buckets[r]: \E j \in Entries(r, i): At(r, i, j).param = p
    BY <2>2
  <2>4. PICK j \in Entries(r, i): At(r, i, j).param = p
    BY <2>3
  <2>5. PICK k \in DOMAIN casts: casts[k] = [round |-> i, rank |-> r]
    BY <1>0, <1>2, TurnFacts
  <2>6. k \in DOMAIN Sent /\ Sent[k] = Params(buckets[r][i])
    BY <2>5, SentFacts DEF bucketOf
  <2>7. j \in DOMAIN Sent[k] /\ Sent[k][j] = p
    BY <2>4, <2>6 DEF Params, Entries, At
  <2> QED
    BY <2>6, <2>7
<1>4. \A r \in Receivers: Len([q \in Receivers |-> loaded[q]][r]) = Len(Sent)
  <2> SUFFICES ASSUME NEW r \in Receivers PROVE Len(loaded[r]) = Len(Sent)
    OBVIOUS
  <2>1. ~Asked(r) /\ ~Loading(r) /\ ~InFlight(r)
    BY <1>0, Kinds DEF Agreement, Agreed, Asked, Loading, InFlight
  <2>2. gidx[r] = Len(casts) - 0 /\ Len(casts) \in Nat
    BY <1>0, <2>1, CastTypes DEF CastInv, CastRank
  <2>3. loaded[r] = [k \in 1..gidx[r] - 0 |-> Params(bucketOf(casts[k]))]
    BY <1>0, <2>1 DEF MemoryInv, MemoryRank, LoadedRank
  <2>4. gidx[r] - 0 = Len(casts)
    BY <2>2
  <2> DEFINE f(k) == Params(bucketOf(casts[k]))
  <2>5. loaded[r] = [k \in 1..Len(casts) |-> f(k)]
    BY <2>3, <2>4
  <2> HIDE DEF f
  <2>6. Len(loaded[r]) = Len(casts)
    BY <2>2, <2>5
  <2> QED
    BY <2>6, SentFacts
<1>5. [r \in Receivers |-> pc[r] = "done"]' =
        [r \in Receivers |-> [q \in Receivers |-> pc[q] = "done"][r] \/ r \in Receivers]
  BY <1>0
<1>6. UNCHANGED <<DOMAIN sizes, Sent, [r \in Receivers |-> loaded[r]]>>
  BY <1>0 DEF Sent, Params, bucketOf
<1> QED
  BY <1>3, <1>4, <1>5, <1>6 DEF Stream!Return

\* Every step of the engine is a step of the stream, or none.
LEMMA EngineStep ==
  ASSUME IInv, RegisterInv, CastInv, MemoryInv, [Next]_vars
  PROVE  /\ RegisterInv' /\ CastInv' /\ MemoryInv'
         /\ [Stream!Next]_(Stream!vars)
<1>0. ControlTypes /\ RegisterTypes
  BY DEF IInv, RegisterInv
<1>1. CASE Register
  <2>1. casts = <<>> /\ casts' = <<>> /\ UNCHANGED <<sizes, loaded, pc>>
    BY <1>1 DEF Register, RegisterInv, Beginning
  <2>2. UNCHANGED <<DOMAIN sizes, Sent>>
    BY <2>1 DEF Sent
  <2>3. UNCHANGED Stream!vars
    BY <2>1, <2>2 DEF Stream!vars
  <2> QED
    BY <1>1, <2>3, RegisterStep, RegisterCast
<1>2. CASE UNCHANGED vars
  <2>1. /\ UNCHANGED <<sizes, overlap, registered, buckets, host, turn, gidx, staged, buf, pc,
                       loader, job, request, loaded, casts>>
    BY <1>2 DEF vars
  <2>2. Unseen
    BY <2>1 DEF Unseen
  <2>3. CastInv'
    BY <2>1, CastFrame DEF InFlight, Over
  <2>4. \A q \in Ranks: MemoryRank(q)'
    BY <2>1, OthersFrame
  <2>5. Turns' = Turns /\ Buckets' = Buckets
    BY <2>1, SameTurns DEF Buckets
  <2>6. RegisterInv'
    <3>1. RegisterTypes'
      BY <1>0, <2>1, <2>5 DEF RegisterTypes
    <3>2. Fits' /\ Unique' /\ Covered'
      BY <2>1 DEF RegisterInv, Fits, Unique, Covered, Entries, At
    <3>3. \A r \in ActorRanks: pc'[r] # "done" => Pinned(r)'
      BY <2>1, HoldsFrame DEF RegisterInv, Pinned
    <3>4. ~Registered' => Beginning'
      BY <2>1 DEF RegisterInv, Beginning, Registered
    <3> QED
      BY <3>1, <3>2, <3>3, <3>4 DEF RegisterInv
  <2> QED
    BY <2>1, <2>2, <2>3, <2>4, <2>6, UnseenStutters DEF MemoryInv
<1>3. CASE Registered /\ Collective
  <2>1. UNCHANGED <<sizes, overlap, registered, buckets, turn, staged>>
    BY <1>3 DEF Collective, Broadcast, Barrier, FinalBarrier
  <2>2. RegisterInv'
    <3>1. UNCHANGED host \/ \A r \in ActorRanks: pc'[r] = "done"
      BY <1>3, RankFacts DEF Collective, Broadcast, Barrier, FinalBarrier
    <3>2. \A r \in ActorRanks: pc[r] # "done"
      BY <1>3, RankFacts DEF Collective, Broadcast, Barrier, FinalBarrier
    <3>3. host' = [r \in Ranks |-> host'[r]]
      BY <1>0, <1>3 DEF Collective, Broadcast, Barrier, FinalBarrier, RegisterTypes
    <3> QED
      BY <1>0, <1>3, <2>1, <3>1, <3>2, <3>3, RegisterFrame DEF RegisterTypes
  <2>3. CASE Broadcast
    BY <2>2, <2>3, BroadcastCast, BroadcastMemory, BroadcastPacks DEF Stream!Next
  <2>4. CASE Barrier
    <3>1. Unseen
      BY <2>4, RankFacts DEF Barrier, Unseen
    <3> QED
      BY <2>2, <2>4, <3>1, BarrierStep, UnseenStutters
  <2>5. CASE FinalBarrier
    BY <2>2, <2>5, BarrierStep, FinalReturns DEF Stream!Next
  <2> QED
    BY <1>3, <2>3, <2>4, <2>5 DEF Collective
<1>4. ASSUME Registered, NEW r \in Ranks, Main(r) \/ Loader(r)
      PROVE  /\ RegisterInv' /\ CastInv' /\ MemoryInv'
             /\ [Stream!Next]_(Stream!vars)
  <2>1. /\ UNCHANGED <<sizes, overlap, registered, buckets, host>>
        /\ turn' = [q \in Ranks |-> turn'[q]] /\ staged' = [q \in Ranks |-> staged'[q]]
        /\ \A q \in Ranks: pc'[q] # "done" => pc[q] # "done"
        /\ \A q \in Ranks: pc[q] # "done" => pc'[q] # "done"
    BY <1>0, <1>4 DEF Main, Loader, Handshake, CopyToDevice, Answer, SendMetadata, LoadInline,
       StopLoader, Join, LoaderReceives, LoaderLoads, Advance, Onward, ControlTypes,
       RegisterTypes
  <2>2. RegisterInv'
    BY <1>0, <1>4, <2>1, RankFacts, RegisterFrame DEF RegisterTypes
  <2>3. CASE Handshake(r) \/ Answer(r) \/ StopLoader(r) \/ Join(r) \/ CopyToDevice(r)
    <3>1. Unseen
      <4>1. UNCHANGED <<sizes, buckets, casts, loaded>>
        BY <2>3 DEF Handshake, Answer, StopLoader, Join, CopyToDevice
      <4> QED
        BY <2>1, <4>1, RankFacts DEF Unseen
    <3> QED
      BY <2>2, <2>3, <3>1, QuietStep, CopyMemory, UnseenStutters
  <2>4. CASE SendMetadata(r)
    BY <2>2, <2>4, SendStep, UnseenStutters
  <2>5. CASE LoadInline(r)
    BY <2>2, <2>5, InlineStep, UnseenStutters DEF Stream!Next
  <2>6. CASE LoaderReceives(r)
    BY <2>2, <2>6, ReceiveMemory, UnseenStutters
  <2>7. CASE LoaderLoads(r)
    BY <2>2, <2>7, LoaderStep, UnseenStutters DEF Stream!Next
  <2> QED
    BY <1>4, <2>3, <2>4, <2>5, <2>6, <2>7 DEF Main, Loader
<1> QED
  BY <1>1, <1>2, <1>3, <1>4, Waiting DEF Next, Finished

-----------------------------------------------------------------------------
(***************************************************************************)
(* Theorems                                                                *)
(***************************************************************************)
\* The two threads of every rank agree on what has been asked and answered,
\* and the unanswered request is never about the half of the next broadcast.
THEOREM Inductive == Spec => []IInv
<1>1. Init => IInv
  BY InitIInv
<1>2. IInv /\ [Next]_vars => IInv'
  BY NextIInv
<1> QED
  BY <1>1, <1>2, PTL DEF Spec

\* No broadcast overwrites a bucket that a loader thread has still to load,
\* for every number of actor and rollout ranks and every bucket size.
THEOREM HalvesExclusive == Spec => []HalfExclusive
<1> QED
  BY IInvHalfExclusive, Inductive, PTL

\* The engine takes the steps of a weight transfer and no others: what is
\* broadcast are buckets of parameters not broadcast before, every rollout
\* rank loads them in that order, each once and intact, and returns when it
\* has loaded every parameter (the safety of ImplementsStream).
THEOREM StreamImplemented == Spec => Stream!Safety
<1>1. Init => RegisterInv /\ CastInv /\ MemoryInv /\ Stream!Init
  <2>1. Init => Stream!Init
    <3> SUFFICES ASSUME Init PROVE Stream!Init
      OBVIOUS
    <3>1. \A r \in Receivers: loaded[r] = <<>> /\ pc[r] # "done"
      BY RankFacts DEF Init
    <3>2. Sent = <<>>
      BY DEF Init, Sent
    <3> QED
      BY <3>1, <3>2 DEF Stream!Init
  <2> QED
    BY <2>1, InitRegister
<1>2. IInv /\ (RegisterInv /\ CastInv /\ MemoryInv) /\ [Next]_vars
        => (RegisterInv /\ CastInv /\ MemoryInv)' /\ [Stream!Next]_(Stream!vars)
  BY EngineStep
<1>3. Spec => [](RegisterInv /\ CastInv /\ MemoryInv)
  BY <1>1, <1>2, Inductive, PTL DEF Spec
<1> QED
  BY <1>1, <1>2, <1>3, Inductive, PTL DEF Spec, Stream!Safety
=============================================================================
