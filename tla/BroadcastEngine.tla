-------------------------- MODULE BroadcastEngine --------------------------
(* The checkpoint engine of the fully asynchronous trainer                   *)
(* (src/verl/experimental/fully_async_policy/checkpoint_engine.py): the      *)
(* parameters are dealt out to the actor ranks and packed into buckets       *)
(* (register_checkpoint); the buckets are then broadcast to the whole group, *)
(* the actor ranks taking turns (update_checkpoint).                         *)
(*                                                                           *)
(* With overlap_broadcast_and_consume two threads on every rank share one    *)
(* device buffer of two halves: the main thread takes part in the            *)
(* broadcasts, which write the halves in alternation, and the loader thread  *)
(* loads the half it is told of into the inference model. They talk over a   *)
(* REQ/REP pair of sockets: the main thread receives the answer to its last  *)
(* request only after the next broadcast, so that loading one bucket and     *)
(* broadcasting the next overlap. Without the option the main thread loads   *)
(* each bucket itself.                                                       *)
(*                                                                           *)
(* A piece of memory is modelled as the parameter that each unit of it holds.*)
EXTENDS Naturals, Sequences

CONSTANTS
  Actors,       \* actor_ranks: the ranks 0..Actors-1 of the trainer
  Rollouts,     \* the number of rollout ranks, which follow them
  BucketSize,   \* bucket_size, in units of _ALIGN_SIZE bytes
  SizeLists     \* the parameter lists: sizes[p] is the size of parameter p

ASSUME CountsAssumption == Actors \in Nat \ {0} /\ Rollouts \in Nat \ {0}
ASSUME BucketAssumption == BucketSize \in Nat \ {0}
\* register_checkpoint takes the largest parameter into account: no parameter
\* is larger than a bucket.
ASSUME SizesAssumption ==
  \A s \in SizeLists: s \in Seq(1..BucketSize) /\ Len(s) > 0

ActorRanks == 0..Actors - 1
Receivers == Actors..Actors + Rollouts - 1
Ranks == ActorRanks \cup Receivers
Cells == 0..BucketSize - 1

VARIABLES
  sizes,       \* weights_info, the same on every rank
  overlap,     \* overlap_broadcast_and_consume
  registered,  \* how many parameters register_checkpoint has dealt out
  buckets,     \* global_buckets, the same on every rank
  host,        \* memory_buffers: host[r][i] is r's pinned memory of a bucket
  turn,        \* turn[r]: the round and the rank of r's next broadcast
  gidx,        \* gidx[r]: how many buckets rank r has seen broadcast
  staged,      \* staged[r]: h2d_buffer
  buf,         \* buf[r]: broadcast_load_buffer
  pc,          \* the main thread of each rank
  loader,      \* the loader thread of each rank
  job,         \* job[r]: the metadata the loader thread works on
  request,     \* request[r]: what the REQ socket has sent, or Nothing
  reply,       \* reply[r]: the REP socket has answered
  loaded,      \* loaded[r]: the buckets loaded into the inference model
  casts        \* the turns that were broadcast (a history, for the properties)

vars == <<sizes, overlap, registered, buckets, host, turn, gidx, staged, buf, pc,
          loader, job, request, reply, loaded, casts>>

\* What goes over the sockets: the handshake, the metadata of a bucket that
\* is in the half that begins at start, or None.
Nothing == [kind |-> "nothing"]
Hello == [kind |-> "hello"]
Stop == [kind |-> "stop"]
Metas(metas, start) == [kind |-> "metas", metas |-> metas, start |-> start]

(***************************************************************************)
(* Buckets. The metadata of a bucket gives each parameter the offset that  *)
(* _to_flattened_tensor_meta adds up: the size of the bucket when the      *)
(* parameter was put into it.                                              *)
(***************************************************************************)
Entry(p, o) == [param |-> p, offset |-> o]
EmptyBucket == [size |-> 0, metas |-> <<>>]
Extended(bucket, p) == [size |-> bucket.size + sizes[p],
                        metas |-> Append(bucket.metas, Entry(p, bucket.size))]
EmptyMemory == [c \in Cells |-> 0]

\* The cells that parameter p takes when it is put at offset o.
Put(b, p, o) == [c \in Cells |-> IF c \in o..o + sizes[p] - 1 THEN p ELSE b[c]]

Holds(b, e, start) ==
  \A c \in 0..sizes[e.param] - 1: b[start + e.offset + c] = e.param

\* _extract_weights: 0 where the buffer does not hold the parameter.
Extract(b, metas, start) ==
  [i \in DOMAIN metas |-> IF Holds(b, metas[i], start) THEN metas[i].param ELSE 0]

\* The order of the broadcasts, the two loops of update_checkpoint: in a round
\* every actor rank that has a bucket of that number takes its turn.
Turns == UNION {[round: 1..Len(buckets[r]), rank: {r}]: r \in ActorRanks}
Before(t, u) == t.round < u.round \/ (t.round = u.round /\ t.rank < u.rank)
Later(t) == {u \in Turns: Before(t, u)}
First(S) == CHOOSE t \in S: \A u \in S \ {t}: Before(t, u)

bucketOf(t) == buckets[t.rank][t.round]

\* Mutant: every broadcast goes into the first half.
Start_OneHalf(r) == 0

Start(r) == IF overlap THEN (gidx[r] % 2) * BucketSize ELSE 0

Init ==
  /\ sizes \in SizeLists
  /\ overlap \in BOOLEAN
  /\ registered = 0
  /\ buckets = [r \in ActorRanks |-> <<EmptyBucket>>]
  /\ host = [r \in Ranks |-> IF r \in ActorRanks THEN <<EmptyMemory>> ELSE <<>>]
  /\ turn = [r \in Ranks |-> [round |-> 1, rank |-> 0]]
  /\ gidx = [r \in Ranks |-> 0]
  /\ staged = [r \in Ranks |-> EmptyMemory]
  /\ buf = [r \in Ranks |-> [c \in 0..2 * BucketSize - 1 |-> 0]]
  /\ pc = [r \in Ranks |-> IF overlap THEN "start" ELSE "copy"]
  /\ loader = [r \in Ranks |-> IF overlap THEN "hello" ELSE "none"]
  /\ job = [r \in Ranks |-> Nothing]
  /\ request = [r \in Ranks |-> Nothing]
  /\ reply = [r \in Ranks |-> FALSE]
  /\ loaded = [r \in Ranks |-> <<>>]
  /\ casts = <<>>

(***************************************************************************)
(* register_checkpoint, the same on every rank: the parameters go to the   *)
(* actor ranks in turn, and on a rank the buckets are filled in order. The *)
(* owner copies the tensor into the pinned memory of its bucket. Nothing   *)
(* is read before the last parameter.                                      *)
(***************************************************************************)
Registered == registered = Len(sizes)
Owner(p) == (p - 1) % Actors

Register ==
  LET p == registered + 1
      r == Owner(p)
      n == Len(buckets[r])
      last == buckets[r][n]
  IN  /\ ~Registered
      /\ registered' = p
      /\ IF last.size + sizes[p] > BucketSize
         THEN /\ buckets' = [buckets EXCEPT ![r] = Append(@, Extended(EmptyBucket, p))]
              /\ host' = [host EXCEPT ![r] = Append(@, Put(EmptyMemory, p, 0))]
         ELSE /\ buckets' = [buckets EXCEPT ![r][n] = Extended(last, p)]
              /\ host' = [host EXCEPT ![r][n] = Put(@, p, last.size)]
      /\ UNCHANGED <<sizes, overlap, turn, gidx, staged, buf, pc, loader, job,
                     request, reply, loaded, casts>>

(***************************************************************************)
(* The main thread.                                                        *)
(***************************************************************************)
\* socket.send_pyobj and socket.recv of the REQ socket.
SendRequest(r, what) == request' = [request EXCEPT ![r] = what]
ReceiveReply(r) == reply[r] /\ reply' = [reply EXCEPT ![r] = FALSE]

\* Mutant: the device copy is not refreshed when a new round begins.
Onward_NoCopy(r) ==
  IF Later(turn[r]) = {} THEN (IF overlap THEN "last answer" ELSE "final barrier")
  ELSE "broadcast"

\* Where the loops go after the bucket of turn[r]: to the h2d copy when a new
\* round begins, to the next broadcast, or out.
Onward(r) ==
  IF Later(turn[r]) = {} THEN (IF overlap THEN "last answer" ELSE "final barrier")
  ELSE IF First(Later(turn[r])).round > turn[r].round THEN "copy" ELSE "broadcast"

Advance(r) ==
  /\ pc' = [pc EXCEPT ![r] = Onward(r)]
  /\ gidx' = [gidx EXCEPT ![r] = @ + 1]
  /\ turn' = [turn EXCEPT ![r] = IF Later(@) = {} THEN @ ELSE First(Later(@))]

Handshake(r) ==
  /\ pc[r] = "start" /\ Registered
  /\ SendRequest(r, Hello)
  /\ pc' = [pc EXCEPT ![r] = "copy"]
  /\ UNCHANGED <<sizes, overlap, registered, buckets, host, turn, gidx, staged,
                 buf, loader, job, reply, loaded, casts>>

\* The pinned memory of the round's bucket goes to the front of h2d_buffer.
CopyToDevice(r) ==
  /\ pc[r] = "copy" /\ Registered
  /\ LET i == turn[r].round
     IN  staged' = [staged EXCEPT ![r] =
           IF i <= Len(host[r])
           THEN [c \in Cells |-> IF c < buckets[r][i].size THEN host[r][i][c] ELSE @[c]]
           ELSE @]
  /\ pc' = [pc EXCEPT ![r] = "broadcast"]
  /\ UNCHANGED <<sizes, overlap, registered, buckets, host, turn, gidx, buf, loader,
                 job, request, reply, loaded, casts>>

\* The collective broadcast: every rank takes part; the owner of the bucket
\* has copied it from its h2d_buffer.
Broadcast ==
  /\ \A r \in Ranks: pc[r] = "broadcast"
  /\ buf' = [r \in Ranks |->
       [c \in 0..2 * BucketSize - 1 |->
          IF c \in Start(r)..Start(r) + bucketOf(turn[r]).size - 1
          THEN staged[turn[r].rank][c - Start(r)] ELSE buf[r][c]]]
  /\ pc' = [r \in Ranks |-> IF overlap THEN "answer" ELSE "load"]
  /\ casts' = Append(casts, turn[0])
  /\ UNCHANGED <<sizes, overlap, registered, buckets, host, turn, gidx, staged,
                 loader, job, request, reply, loaded>>

\* The loader thread is done with the previous bucket.
Answer(r) ==
  /\ pc[r] = "answer"
  /\ ReceiveReply(r)
  /\ pc' = [pc EXCEPT ![r] = "barrier"]
  /\ UNCHANGED <<sizes, overlap, registered, buckets, host, turn, gidx, staged,
                 buf, loader, job, request, loaded, casts>>

Barrier ==
  /\ \A r \in Ranks: pc[r] = "barrier"
  /\ pc' = [r \in Ranks |-> "send"]
  /\ UNCHANGED <<sizes, overlap, registered, buckets, host, turn, gidx, staged,
                 buf, loader, job, request, reply, loaded, casts>>

SendMetadata(r) ==
  /\ pc[r] = "send"
  /\ SendRequest(r, Metas(bucketOf(turn[r]).metas, Start(r)))
  /\ Advance(r)
  /\ UNCHANGED <<sizes, overlap, registered, buckets, host, staged, buf, loader,
                 job, reply, loaded, casts>>

\* inference_model.load_weights: only the rollout ranks have a model.
LoadInto(r, metas, start) ==
  loaded' = IF r \in Receivers
            THEN [loaded EXCEPT ![r] = Append(@, Extract(buf[r], metas, start))]
            ELSE loaded

LoadInline(r) ==
  /\ pc[r] = "load"
  /\ LoadInto(r, bucketOf(turn[r]).metas, 0)
  /\ Advance(r)
  /\ UNCHANGED <<sizes, overlap, registered, buckets, host, staged, buf, loader,
                 job, request, reply, casts>>

\* After the loops: the answer to the last bucket, then the end of the
\* loader thread.
StopLoader(r) ==
  /\ pc[r] = "last answer"
  /\ ReceiveReply(r)
  /\ SendRequest(r, Stop)
  /\ pc' = [pc EXCEPT ![r] = "join"]
  /\ UNCHANGED <<sizes, overlap, registered, buckets, host, turn, gidx, staged,
                 buf, loader, job, loaded, casts>>

Join(r) ==
  /\ pc[r] = "join"
  /\ ReceiveReply(r)
  /\ loader[r] = "ended"
  /\ pc' = [pc EXCEPT ![r] = "final barrier"]
  /\ UNCHANGED <<sizes, overlap, registered, buckets, host, turn, gidx, staged,
                 buf, loader, job, request, loaded, casts>>

FinalBarrier ==
  /\ \A r \in Ranks: pc[r] = "final barrier"
  /\ pc' = [r \in Ranks |-> "done"]
  /\ host' = [r \in Ranks |-> <<>>]
  /\ UNCHANGED <<sizes, overlap, registered, buckets, turn, gidx, staged, buf,
                 loader, job, request, reply, loaded, casts>>

(***************************************************************************)
(* update_weights_from_ipc_, the loader thread.                            *)
(***************************************************************************)
LoaderReceives(r) ==
  /\ loader[r] \in {"hello", "waiting"}
  /\ request[r] # Nothing
  /\ request' = [request EXCEPT ![r] = Nothing]
  /\ IF request[r].kind = "metas"
     THEN /\ loader' = [loader EXCEPT ![r] = "loading"]
          /\ job' = [job EXCEPT ![r] = request[r]]
          /\ UNCHANGED reply
     ELSE /\ loader' = [loader EXCEPT ![r] = IF @ = "hello" THEN "waiting" ELSE "ended"]
          /\ reply' = [reply EXCEPT ![r] = TRUE]
          /\ UNCHANGED job
  /\ UNCHANGED <<sizes, overlap, registered, buckets, host, turn, gidx, staged,
                 buf, pc, loaded, casts>>

LoaderLoads(r) ==
  /\ loader[r] = "loading"
  /\ LoadInto(r, job[r].metas, job[r].start)
  /\ loader' = [loader EXCEPT ![r] = "waiting"]
  /\ job' = [job EXCEPT ![r] = Nothing]
  /\ reply' = [reply EXCEPT ![r] = TRUE]
  /\ UNCHANGED <<sizes, overlap, registered, buckets, host, turn, gidx, staged,
                 buf, pc, request, casts>>

\* Every rank has returned: nothing happens until the next transfer.
Finished ==
  /\ \A r \in Ranks: pc[r] = "done"
  /\ UNCHANGED vars

Main(r) ==
  \/ Handshake(r) \/ CopyToDevice(r) \/ Answer(r) \/ SendMetadata(r)
  \/ LoadInline(r) \/ StopLoader(r) \/ Join(r)
Loader(r) == LoaderReceives(r) \/ LoaderLoads(r)
Collective == Broadcast \/ Barrier \/ FinalBarrier

Next == Register \/ Collective \/ (\E r \in Ranks: Main(r) \/ Loader(r)) \/ Finished

\* The threads run, and a collective operation completes once every rank has
\* entered it.
Spec ==
  /\ Init /\ [][Next]_vars
  /\ WF_vars(Register) /\ WF_vars(Collective)
  /\ \A r \in Ranks: WF_vars(Main(r)) /\ WF_vars(Loader(r))

-----------------------------------------------------------------------------
(***************************************************************************)
(* Properties                                                              *)
(***************************************************************************)
\* The half of rank r's device buffer that starts at cell start is in the
\* hands of the loader thread: it is loading it or has been told to.
Handed(r, start) ==
  \/ loader[r] = "loading" /\ job[r].start = start
  \/ request[r].kind = "metas" /\ request[r].start = start

\* No broadcast goes into a half that the loader thread has still to load or
\* is loading. The two threads take no lock: the answer that the main thread
\* waits for is the one to the request before the last.
HalfExclusive ==
  \A r \in Ranks: pc[r] = "broadcast" => ~Handed(r, Start(r))

\* The parameters of a bucket.
Params(bucket) == [i \in DOMAIN bucket.metas |-> bucket.metas[i].param]

\* The buckets that were broadcast.
Sent == [k \in DOMAIN casts |-> Params(bucketOf(casts[k]))]

Stream == INSTANCE WeightStream WITH
  params <- DOMAIN sizes,
  plan <- Sent,
  loaded <- [r \in Receivers |-> loaded[r]],
  done <- [r \in Receivers |-> pc[r] = "done"]

\* The engine implements the transfer: every rollout rank loads every
\* parameter of the new version once, intact, in the order of the buckets,
\* before its call returns; and every call returns.
ImplementsStream == Stream!Spec
=============================================================================
