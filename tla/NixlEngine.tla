----------------------------- MODULE NixlEngine -----------------------------
(* The NIXL checkpoint engine (src/verl/checkpoint_engine/                   *)
(* nixl_checkpoint_engine.py): the trainer's rank 0 packs the parameters     *)
(* into buckets and the rollout ranks 1, 2, ... pass them down a chain.      *)
(*                                                                           *)
(* Every rank has two device buffers, send_buf and recv_buf, that it swaps.  *)
(* A rank OFFERS its send buffer to the next one: it sends a message with    *)
(* the bucket's metadata and a fresh notify key (ReadableOperation). The     *)
(* next rank reads the remote buffer into its own recv buffer                *)
(* (ReadOperation): the transfer goes on while the owner computes, and only  *)
(* its end sends the key back to the owner as a notification. So the         *)
(* content of a buffer is protected by nothing but the order of the waits.   *)
(*                                                                           *)
(* A buffer is modelled as the parameter that each unit of its memory holds, *)
(* so that what an earlier bucket left behind, and metadata that does not    *)
(* describe the buffer it comes with, are told apart from the real weights.  *)
EXTENDS Naturals, Sequences, FiniteSets

CONSTANTS
  World,        \* world_size: rank 0 of the trainer and the rollout ranks
  BucketSize,   \* bucket_size, in units of memory
  SizeLists     \* the parameter lists: sizes[p] is the size of parameter p

ASSUME WorldAssumption == World \in Nat /\ World > 1
ASSUME BucketAssumption == BucketSize \in Nat \ {0}
\* "Weight ... is too large to fit in the bucket": the assertion of
\* send_weights, a condition on the configured bucket size.
ASSUME SizesAssumption ==
  \A s \in SizeLists: s \in Seq(1..BucketSize) /\ Len(s) > 0

Ranks == 0..World - 1
Receivers == 1..World - 1
Halves == {0, 1}
Cells == 0..BucketSize - 1
NoKey == <<>>
NoRead == [busy |-> FALSE]

VARIABLES
  sizes,    \* the parameters of the model, in the order of the generator
  pc,       \* where each rank's coroutine is
  send,     \* send[r]: which of its two buffers rank r calls send_buf
  buf,      \* buf[r][h][c]: the parameter in cell c of buffer h (0: none)
  fill,     \* rank 0: the next parameter and the offset in send_buf
  meta,     \* meta[r]: metadata of the bucket in rank r's send buffer
  coming,   \* coming[r]: next_metadata, of the bucket rank r is reading
  inbox,    \* inbox[r]: the messages from rank r - 1 (messages, ZeroMQ)
  notes,    \* notes[r]: the notifications from rank r + 1
  open,     \* open[r]: the notify key of rank r's readable_op, or NoKey
  offers,   \* offers[r]: how many readable operations rank r has made
  read,     \* read[r]: rank r's transfer in progress
  loaded,   \* loaded[r]: the buckets the rollout worker has been yielded
  sent      \* the buckets rank 0 has offered (a history, for the properties)

vars == <<sizes, pc, send, buf, fill, meta, coming, inbox, notes, open,
          offers, read, loaded, sent>>

recv(r) == 1 - send[r]
LastRank == World - 1

(***************************************************************************)
(* Buckets. A bucket's metadata gives each parameter its offset.           *)
(***************************************************************************)
Entry(p, o) == [param |-> p, offset |-> o]
Metadata(bucket, last) == [bucket |-> bucket, last |-> last]
NoMetadata == Metadata(<<>>, FALSE)

\* The parameters of a bucket.
Params(bucket) == [i \in DOMAIN bucket |-> bucket[i].param]

\* The cells that parameter p of size n takes when it is put at offset o.
Put(b, p, n, o) == [c \in Cells |-> IF c \in o..o + n - 1 THEN p ELSE b[c]]

\* What is read at the offsets of the metadata: 0 where the buffer does not
\* hold the parameter that the metadata names.
Extract(b, bucket) ==
  [i \in DOMAIN bucket |->
     LET e == bucket[i]
     IN  IF \A c \in e.offset..e.offset + sizes[e.param] - 1: b[c] = e.param
         THEN e.param ELSE 0]

Init ==
  /\ sizes \in SizeLists
  /\ pc = [r \in Ranks |-> IF r = 0 THEN "fill" ELSE "first"]
  /\ send = [r \in Ranks |-> 0]
  /\ buf = [r \in Ranks |-> [h \in Halves |-> [c \in Cells |-> 0]]]
  /\ fill = [param |-> 1, offset |-> 0]
  /\ meta = [r \in Ranks |-> NoMetadata]
  /\ coming = [r \in Ranks |-> NoMetadata]
  /\ inbox = [r \in Ranks |-> <<>>]
  /\ notes = [r \in Ranks |-> <<>>]
  /\ open = [r \in Ranks |-> NoKey]
  /\ offers = [r \in Ranks |-> 0]
  /\ read = [r \in Ranks |-> NoRead]
  /\ loaded = [r \in Ranks |-> <<>>]
  /\ sent = <<>>

(***************************************************************************)
(* Operations of the agent.                                                *)
(***************************************************************************)
\* ReadableOperation: a fresh key, the descriptors of buffer h and the
\* metadata go to the next rank. The rest of the metadata is passed on
\* without the key it arrived with, which read_metadata has popped.
Offer(r, h, md) ==
  LET key == <<r, offers[r] + 1>>
  IN  /\ open' = [open EXCEPT ![r] = key]
      /\ offers' = [offers EXCEPT ![r] = @ + 1]
      /\ inbox' = [inbox EXCEPT ![r + 1] =
                     Append(@, [key |-> key, half |-> h, md |-> md])]

NoOffer(r) ==
  /\ open' = [open EXCEPT ![r] = NoKey]
  /\ UNCHANGED <<offers, inbox>>

\* ReadableOperation.wait_for_complete lets the rank go on: there is no
\* operation to wait for, or its notification has arrived.
Acknowledged(r) ==
  open[r] # NoKey => notes[r] # <<>> /\ Head(notes[r]) = open[r]

TakeNote(r) ==
  notes' = [notes EXCEPT ![r] = IF open[r] = NoKey THEN @ ELSE Tail(@)]

\* read_metadata and begin_read: the transfer into recv_buf starts.
BeginRead(r) ==
  LET msg == Head(inbox[r])
  IN  /\ inbox[r] # <<>>
      /\ inbox' = [inbox EXCEPT ![r] = Tail(@)]
      /\ coming' = [coming EXCEPT ![r] = msg.md]
      /\ read' = [read EXCEPT ![r] =
                    [busy |-> TRUE, half |-> msg.half, key |-> msg.key]]

\* The transfer ends: the remote buffer's content is in recv_buf and the
\* owner is notified.
EndRead(r) ==
  /\ read[r].busy
  /\ buf' = [buf EXCEPT ![r][recv(r)] = buf[r - 1][read[r].half]]
  /\ notes' = [notes EXCEPT ![r - 1] = Append(@, read[r].key)]
  /\ read' = [read EXCEPT ![r] = NoRead]
  /\ UNCHANGED <<sizes, pc, send, fill, meta, coming, inbox, open, offers, loaded,
                 sent>>

(***************************************************************************)
(* send_weights, on rank 0 of the trainer.                                 *)
(***************************************************************************)
Exhausted == fill.param > Len(sizes)
Fits == fill.offset + sizes[fill.param] <= BucketSize

Fill ==
  /\ pc[0] = "fill" /\ ~Exhausted /\ Fits
  /\ buf' = [buf EXCEPT ![0][send[0]] =
               Put(@, fill.param, sizes[fill.param], fill.offset)]
  /\ meta' = [meta EXCEPT ![0].bucket = Append(@, Entry(fill.param, fill.offset))]
  /\ fill' = [param |-> fill.param + 1, offset |-> fill.offset + sizes[fill.param]]
  /\ UNCHANGED <<sizes, pc, send, coming, inbox, notes, open, offers, read, loaded,
                 sent>>

\* Mutant: the next bucket is offered although the previous one may still be
\* being read.
SendBucket_NoWait ==
  /\ pc[0] = "fill" /\ ~Exhausted /\ ~Fits
  /\ Offer(0, send[0], [meta[0] EXCEPT !.last = FALSE])
  /\ send' = [send EXCEPT ![0] = recv(0)]
  /\ meta' = [meta EXCEPT ![0] = NoMetadata]
  /\ fill' = [fill EXCEPT !.offset = 0]
  /\ sent' = Append(sent, Params(meta[0].bucket))
  /\ UNCHANGED <<sizes, pc, buf, coming, notes, read, loaded>>

\* The bucket is full: once the previous one has been read, offer this one
\* and go on filling the other buffer.
SendBucket ==
  /\ pc[0] = "fill" /\ ~Exhausted /\ ~Fits
  /\ Acknowledged(0)
  /\ TakeNote(0)
  /\ Offer(0, send[0], [meta[0] EXCEPT !.last = FALSE])
  /\ send' = [send EXCEPT ![0] = recv(0)]
  /\ meta' = [meta EXCEPT ![0] = NoMetadata]
  /\ fill' = [fill EXCEPT !.offset = 0]
  /\ sent' = Append(sent, Params(meta[0].bucket))
  /\ UNCHANGED <<sizes, pc, buf, coming, read, loaded>>

SendLast ==
  /\ pc[0] = "fill" /\ Exhausted
  /\ Acknowledged(0)
  /\ TakeNote(0)
  /\ Offer(0, send[0], [meta[0] EXCEPT !.last = TRUE])
  /\ pc' = [pc EXCEPT ![0] = "drain"]
  /\ sent' = Append(sent, Params(meta[0].bucket))
  /\ UNCHANGED <<sizes, send, buf, fill, meta, coming, read, loaded>>

(***************************************************************************)
(* receive_weights, on the rollout ranks.                                  *)
(***************************************************************************)
ReadFirst(r) ==
  /\ pc[r] = "first"
  /\ BeginRead(r)
  /\ pc' = [pc EXCEPT ![r] = "read first"]
  /\ UNCHANGED <<sizes, send, buf, fill, meta, notes, open, offers, loaded, sent>>

\* Mutant: the buffers are swapped before the own read is complete.
Advance_NoReadWait(r) ==
  /\ pc[r] \in {"read first", "read"}
  /\ Acknowledged(r)
  /\ TakeNote(r)
  /\ send' = [send EXCEPT ![r] = recv(r)]
  /\ meta' = [meta EXCEPT ![r] = coming[r]]
  /\ IF r = LastRank THEN NoOffer(r) ELSE Offer(r, recv(r), coming[r])
  /\ pc' = [pc EXCEPT ![r] = IF coming[r].last THEN "yield last" ELSE "read next"]
  /\ UNCHANGED <<sizes, buf, fill, coming, read, loaded, sent>>

\* The read is complete and the next rank has read the previous bucket:
\* swap the buffers and offer the bucket just read to the next rank.
Advance(r) ==
  /\ pc[r] \in {"read first", "read"}
  /\ Acknowledged(r)
  /\ ~read[r].busy
  /\ TakeNote(r)
  /\ send' = [send EXCEPT ![r] = recv(r)]
  /\ meta' = [meta EXCEPT ![r] = coming[r]]
  /\ IF r = LastRank THEN NoOffer(r) ELSE Offer(r, recv(r), coming[r])
  /\ pc' = [pc EXCEPT ![r] = IF coming[r].last THEN "yield last" ELSE "read next"]
  /\ UNCHANGED <<sizes, buf, fill, coming, read, loaded, sent>>

ReadNext(r) ==
  /\ pc[r] = "read next"
  /\ BeginRead(r)
  /\ pc' = [pc EXCEPT ![r] = "yield"]
  /\ UNCHANGED <<sizes, send, buf, fill, meta, notes, open, offers, loaded, sent>>

\* The tensors of send_buf go to the rollout worker.
Yield(r) ==
  /\ pc[r] \in {"yield", "yield last"}
  /\ loaded' = [loaded EXCEPT ![r] =
                  Append(@, Extract(buf[r][send[r]], meta[r].bucket))]
  /\ pc' = [pc EXCEPT ![r] = IF @ = "yield" THEN "read" ELSE "drain"]
  /\ UNCHANGED <<sizes, send, buf, fill, meta, coming, inbox, notes, open,
                 offers, read, sent>>

\* Mutant: the last offer is not waited for.
Drain_NoWait(r) ==
  /\ pc[r] = "drain"
  /\ open' = [open EXCEPT ![r] = NoKey]
  /\ pc' = [pc EXCEPT ![r] = "done"]
  /\ UNCHANGED <<sizes, send, buf, fill, meta, coming, inbox, notes, offers, read,
                 loaded, sent>>

\* The last wait of a rank: the next one has read its last bucket.
Drain(r) ==
  /\ pc[r] = "drain"
  /\ Acknowledged(r)
  /\ TakeNote(r)
  /\ open' = [open EXCEPT ![r] = NoKey]
  /\ pc' = [pc EXCEPT ![r] = "done"]
  /\ UNCHANGED <<sizes, send, buf, fill, meta, coming, inbox, offers, read, loaded,
                 sent>>

\* Rank 0 ends send_weights in the same way.
SendEnds == Drain(0)

\* Every rank has returned: nothing happens until the next transfer.
Finished ==
  /\ \A r \in Ranks: pc[r] = "done"
  /\ UNCHANGED vars

Trainer == Fill \/ SendBucket \/ SendLast \/ SendEnds
Rollout(r) == ReadFirst(r) \/ Advance(r) \/ ReadNext(r) \/ Yield(r) \/ Drain(r)

Next ==
  \/ Trainer
  \/ \E r \in Receivers: Rollout(r) \/ EndRead(r)
  \/ Finished

\* Every rank's coroutine is resumed when what it awaits has happened, and a
\* transfer that has begun ends.
Spec ==
  /\ Init /\ [][Next]_vars
  /\ WF_vars(Trainer)
  /\ \A r \in Receivers: WF_vars(Rollout(r)) /\ WF_vars(EndRead(r))

-----------------------------------------------------------------------------
(***************************************************************************)
(* Properties                                                              *)
(***************************************************************************)
Key == (Ranks \X Nat) \cup {NoKey}
Bucket == Seq([param: Nat, offset: Nat])
Message == [key: Key, half: Halves, md: [bucket: Bucket, last: BOOLEAN]]
States == {"fill", "first", "read first", "read next", "yield", "read",
           "yield last", "drain", "done"}

\* The types of the variables.
TypeOK ==
  /\ sizes \in SizeLists
  /\ pc \in [Ranks -> States]
  /\ send \in [Ranks -> Halves]
  /\ buf \in [Ranks -> [Halves -> [Cells -> Nat]]]
  /\ fill \in [param: Nat \ {0}, offset: Nat]
  /\ meta \in [Ranks -> [bucket: Bucket, last: BOOLEAN]]
  /\ coming \in [Ranks -> [bucket: Bucket, last: BOOLEAN]]
  /\ inbox \in [Ranks -> Seq(Message)]
  /\ notes \in [Ranks -> Seq(Key)]
  /\ open \in [Ranks -> Key]
  /\ offers \in [Ranks -> Nat]
  /\ read \in [Ranks -> {NoRead} \cup [busy: {TRUE}, half: Halves, key: Key]]
  /\ loaded \in [Ranks -> Seq(Seq(Nat))]
  /\ sent \in Seq(Seq(Nat))

\* Buffer h of rank r is being written: the trainer copies parameters into
\* it, or a transfer from the previous rank goes into it.
Written(r, h) ==
  IF r = 0 THEN pc[0] = "fill" /\ h = send[0]
           ELSE read[r].busy /\ h = recv(r)

\* The next rank may read buffer h of rank r: the offer is on its way or the
\* transfer is going on.
Lent(r, h) ==
  /\ r < LastRank
  /\ \/ \E i \in DOMAIN inbox[r + 1]: inbox[r + 1][i].half = h
     \/ read[r + 1].busy /\ read[r + 1].half = h

\* The rollout worker on rank r is copying the tensors of buffer h (the
\* copies are asynchronous: they end at the synchronize before the swap).
Loading(r, h) == pc[r] \in {"yield", "read", "yield last"} /\ h = send[r]

\* No buffer is written while the next rank may read it or the rollout
\* worker copies from it. The memory is read remotely, at the reader's own
\* pace: only the order of the waits in send_weights and receive_weights
\* keeps the next bucket out of it.
HalfExclusive ==
  \A r \in Ranks, h \in Halves: Written(r, h) => ~Lent(r, h) /\ ~Loading(r, h)

\* A rank returns only when nobody needs its memory, which finish() then
\* deregisters, and with nothing left in its mailboxes: the agent lives on,
\* and the next transfer would take a left-over message or notification for
\* its own.
CleanExit ==
  \A r \in Ranks: pc[r] = "done" =>
    /\ inbox[r] = <<>> /\ notes[r] = <<>> /\ open[r] = NoKey
    /\ ~read[r].busy
    /\ \A h \in Halves: ~Lent(r, h)

Stream == INSTANCE WeightStream WITH
  params <- DOMAIN sizes,
  plan <- sent,
  loaded <- [r \in Receivers |-> loaded[r]],
  done <- [r \in Receivers |-> pc[r] = "done"]

\* The chain implements the transfer: every rollout rank loads every
\* parameter of the new version once, intact and in the order of the
\* buckets, before its call returns; and every call returns.
ImplementsStream == Stream!Spec
=============================================================================
