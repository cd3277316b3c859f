----------------------------- MODULE NixlProofs -----------------------------
(* Proofs about NixlEngine, for every length of the chain, every bucket size *)
(* and every list of parameters: no buffer is written while the next rank    *)
(* may read it, no rank returns while somebody needs its memory, and every   *)
(* receiver loads all parameters, once each, in their order.                 *)
(*                                                                           *)
(* A buffer on loan is described by one of three things: the message that    *)
(* offers it, the transfer that reads it, the notification that gives it     *)
(* back. The invariant Link says that between two neighbours there is        *)
(* exactly one of them while an offer is open and none otherwise, that it    *)
(* carries the key of that offer, and which of the two halves is on loan.    *)
(* It is preserved only because nothing is offered after the last bucket     *)
(* (Order), so that a rank that has seen it can expect no further message.   *)
(*                                                                           *)
(* What the memory holds is described by places: the parameter that comes    *)
(* after the buckets a rank has loaded, after the one in its send buffer,    *)
(* after the one it reads and after the one it is offered (After...). Two    *)
(* neighbouring places are equal, or a bucket lies between them whose        *)
(* metadata names the parameters from the one place to the other and whose   *)
(* memory holds them (Carries).                                              *)
(*                                                                           *)
(* The buckets sent are cuts of the parameter list, one after the other      *)
(* (SentInv), so every step of the chain is a step of WeightStream or none.  *)
EXTENDS NixlEngine, SequenceTheorems, TLAPS

Metas == [bucket: Bucket, last: BOOLEAN]
Ended(r) == pc[r] \in {"yield last", "drain", "done"}

\* The half of rank r's memory that its open offer is about.
LentHalf(r) == IF r = 0 /\ pc[0] = "fill" THEN recv(0) ELSE send[r]

Idle(r) == inbox[r + 1] = <<>> /\ read[r + 1] = NoRead
Link(r) ==
  \/ open[r] = NoKey /\ Idle(r) /\ notes[r] = <<>>
  \/ open[r] # NoKey /\ Idle(r) /\ notes[r] = <<open[r]>>
  \/ /\ open[r] # NoKey /\ read[r + 1] = NoRead /\ notes[r] = <<>>
     /\ \E md \in Metas:
          inbox[r + 1] = << [key |-> open[r], half |-> LentHalf(r), md |-> md] >>
  \/ /\ open[r] # NoKey /\ inbox[r + 1] = <<>> /\ notes[r] = <<>>
     /\ read[r + 1] = [busy |-> TRUE, half |-> LentHalf(r), key |-> open[r]]

Links == \A r \in 0..LastRank - 1: Link(r)

\* The ends of the chain.
Ends ==
  /\ inbox[0] = <<>> /\ read[0] = NoRead
  /\ open[LastRank] = NoKey /\ notes[LastRank] = <<>>

\* Where a rank's coroutine can be.
Places ==
  /\ pc[0] \in {"fill", "drain", "done"}
  /\ \A r \in Receivers: pc[r] # "fill"
  /\ \A r \in Ranks: pc[r] \in {"first", "read first", "done"} => open[r] = NoKey
  /\ \A r \in Receivers:
       read[r] # NoRead => pc[r] \in {"read first", "yield", "read"}

\* The last bucket ends the stream: a rank that has been told of it gets no
\* further message.
Order ==
  \A r \in Receivers:
    /\ \A i \in DOMAIN inbox[r]: inbox[r][i].md.last => Ended(r - 1)
    /\ coming[r].last => Ended(r - 1) /\ inbox[r] = <<>>
    /\ Ended(r) => coming[r].last

IInv == TypeOK /\ Links /\ Ends /\ Places /\ Order

-----------------------------------------------------------------------------
\* Arithmetic of the ranks.
LEMMA RankFacts ==
  /\ 0 \in Ranks /\ LastRank \in Receivers /\ LastRank \in Ranks /\ LastRank # 0
  /\ Ranks = Receivers \cup {0} /\ 0 \notin Receivers
  /\ \A r \in Ranks: r \in Nat
  /\ \A r \in Receivers: r - 1 \in 0..LastRank - 1 /\ r - 1 \in Ranks /\ (r - 1) + 1 = r
                        /\ r - 1 # r
  /\ \A r \in 0..LastRank - 1: r \in Ranks /\ r + 1 \in Receivers /\ r + 1 \in Ranks
                             /\ (r + 1) - 1 = r /\ r # LastRank
  /\ \A r \in Ranks: r # LastRank => r \in 0..LastRank - 1
BY WorldAssumption DEF Ranks, Receivers, LastRank

LEMMA HalfFacts == \A h \in Halves: 1 - h \in Halves /\ 1 - h # h
BY DEF Halves

LEMMA InitType == Init => TypeOK
<1> SUFFICES ASSUME Init PROVE TypeOK
  OBVIOUS
<1>0. NoMetadata \in Metas /\ NoKey \in Key /\ <<>> \in Seq(Message) /\ <<>> \in Seq(Key)
  BY DEF NoMetadata, Metadata, Metas, Bucket, Key
<1>1. sizes \in SizeLists
  BY DEF Init
<1>2. pc \in [Ranks -> States] /\ send \in [Ranks -> Halves]
  BY DEF Init, States, Halves
<1>3. buf \in [Ranks -> [Halves -> [Cells -> Nat]]]
  BY DEF Init
<1>4. fill \in [param: Nat \ {0}, offset: Nat]
  BY DEF Init
<1>5. meta \in [Ranks -> Metas] /\ coming \in [Ranks -> Metas]
  BY <1>0 DEF Init
<1>6. inbox \in [Ranks -> Seq(Message)] /\ notes \in [Ranks -> Seq(Key)]
  BY <1>0 DEF Init
<1>7. open \in [Ranks -> Key] /\ offers \in [Ranks -> Nat]
  BY <1>0 DEF Init
<1>8. read \in [Ranks -> {NoRead} \cup [busy: {TRUE}, half: Halves, key: Key]]
  BY DEF Init
<1>9. loaded \in [Ranks -> Seq(Seq(Nat))] /\ sent \in Seq(Seq(Nat))
  BY DEF Init
<1> QED
  BY <1>1, <1>2, <1>3, <1>4, <1>5, <1>6, <1>7, <1>8, <1>9 DEF TypeOK, Metas

\* The memory that a parameter is copied into keeps its type.
LEMMA PutType ==
  ASSUME NEW b \in [Cells -> Nat], NEW p \in Nat, NEW n \in Nat, NEW o \in Nat
  PROVE  Put(b, p, n, o) \in [Cells -> Nat]
BY DEF Put

\* What is extracted is a sequence of parameters.
LEMMA ExtractType ==
  ASSUME NEW b, NEW bucket \in Bucket
  PROVE  Extract(b, bucket) \in Seq(Nat)
<1>1. bucket \in Seq([param: Nat, offset: Nat])
  BY DEF Bucket
<1>2. /\ Len(bucket) \in Nat /\ DOMAIN bucket = 1..Len(bucket)
      /\ \A i \in 1..Len(bucket): bucket[i] \in [param: Nat, offset: Nat]
  BY <1>1, LenProperties, ElementOfSeq
<1>3. Extract(b, bucket) \in [1..Len(bucket) -> Nat]
  BY <1>2 DEF Extract
<1> QED
  BY <1>2, <1>3, SeqDef

\* The parameters of a bucket are a sequence.
LEMMA ParamsType ==
  ASSUME NEW bucket \in Bucket
  PROVE  /\ Params(bucket) \in Seq(Nat) /\ Len(Params(bucket)) = Len(bucket)
         /\ \A i \in 1..Len(bucket): Params(bucket)[i] = bucket[i].param
<1> DEFINE x == Params(bucket)
<1>1. bucket \in Seq([param: Nat, offset: Nat])
  BY DEF Bucket
<1>2. /\ Len(bucket) \in Nat /\ DOMAIN bucket = 1..Len(bucket)
      /\ \A i \in 1..Len(bucket): bucket[i] \in [param: Nat, offset: Nat]
  BY <1>1, LenProperties, ElementOfSeq
<1>3. /\ x \in [1..Len(bucket) -> Nat] /\ DOMAIN x = 1..Len(bucket)
      /\ \A i \in 1..Len(bucket): x[i] = bucket[i].param
  BY <1>2 DEF Params
<1> HIDE DEF x
<1>4. x \in Seq(Nat)
  BY <1>2, <1>3, SeqDef
<1>5. Len(x) = Len(bucket)
  BY <1>2, <1>3, <1>4, LenProperties
<1> QED
  BY <1>3, <1>4, <1>5 DEF x

\* A history of buckets keeps its type when one is appended.
LEMMA SentType ==
  ASSUME NEW s \in Seq(Seq(Nat)), NEW bucket \in Bucket
  PROVE  Append(s, Params(bucket)) \in Seq(Seq(Nat))
BY ParamsType, AppendProperties

\* An offer keeps the types of the mailboxes.
LEMMA OfferType ==
  ASSUME TypeOK, NEW r \in 0..LastRank - 1, NEW h \in Halves, NEW md \in Metas,
         Offer(r, h, md)
  PROVE  /\ open' \in [Ranks -> Key] /\ offers' \in [Ranks -> Nat]
         /\ inbox' \in [Ranks -> Seq(Message)]
<1> DEFINE key == <<r, offers[r] + 1>>
           msg == [key |-> key, half |-> h, md |-> md]
<1>1. r \in Ranks /\ r + 1 \in Ranks
  BY RankFacts
<1>a. offers[r] \in Nat
  BY <1>1 DEF TypeOK
<1>2. key \in Key
  BY <1>1, <1>a DEF Key
<1>3. msg \in Message
  BY <1>2 DEF Message, Metas
<1>4. inbox[r + 1] \in Seq(Message)
  BY <1>1 DEF TypeOK
<1>5. Append(inbox[r + 1], msg) \in Seq(Message)
  BY <1>3, <1>4, AppendProperties
<1> QED
  BY SMTT(30), <1>1, <1>2, <1>5 DEF TypeOK, Offer

LEMMA NoteType ==
  ASSUME TypeOK, NEW r \in Ranks, Acknowledged(r), TakeNote(r)
  PROVE  notes' \in [Ranks -> Seq(Key)]
<1>1. notes[r] \in Seq(Key)
  BY DEF TypeOK
<1>2. open[r] # NoKey => Tail(notes[r]) \in Seq(Key)
  BY <1>1 DEF Acknowledged
<1> QED
  BY <1>1, <1>2 DEF TypeOK, TakeNote

\* A message is taken out of the mailbox with its types.
LEMMA BeginReadType ==
  ASSUME TypeOK, NEW r \in Ranks, BeginRead(r)
  PROVE  /\ inbox' \in [Ranks -> Seq(Message)] /\ coming' \in [Ranks -> Metas]
         /\ read' \in [Ranks -> {NoRead} \cup [busy: {TRUE}, half: Halves, key: Key]]
<1>1. inbox[r] \in Seq(Message) /\ inbox[r] # <<>>
  BY DEF TypeOK, BeginRead
<1>2. Head(inbox[r]) \in Message /\ Tail(inbox[r]) \in Seq(Message)
  BY <1>1
<1>3. /\ Head(inbox[r]).md \in Metas /\ Head(inbox[r]).half \in Halves
      /\ Head(inbox[r]).key \in Key
  BY <1>2 DEF Message, Metas
<1> QED
  BY <1>2, <1>3 DEF TypeOK, BeginRead, Metas

LEMMA FillType ==
  ASSUME TypeOK, Fill
  PROVE  TypeOK'
<1> DEFINE size == sizes[fill.param]
<1>1. sizes \in Seq(1..BucketSize) /\ fill.param \in 1..Len(sizes)
  BY SizesAssumption DEF TypeOK, Fill, Exhausted
<1>2. size \in 1..BucketSize
  BY <1>1, ElementOfSeq
<1>3. size \in Nat
  BY <1>2, BucketAssumption
<1>4. 0 \in Ranks /\ send[0] \in Halves /\ fill.param \in Nat \ {0} /\ fill.offset \in Nat
  BY RankFacts DEF TypeOK
<1>5. buf[0][send[0]] \in [Cells -> Nat] /\ buf[0] \in [Halves -> [Cells -> Nat]]
  BY <1>4 DEF TypeOK
<1>6. Put(buf[0][send[0]], fill.param, size, fill.offset) \in [Cells -> Nat]
  BY <1>3, <1>4, <1>5, PutType
<1>7. buf' \in [Ranks -> [Halves -> [Cells -> Nat]]]
  BY <1>4, <1>5, <1>6 DEF TypeOK, Fill
<1>8. Entry(fill.param, fill.offset) \in [param: Nat, offset: Nat]
  BY <1>4 DEF Entry
<1>9. meta[0] \in Metas /\ meta[0].bucket \in Bucket
  BY <1>4 DEF TypeOK, Metas
<1>10. Append(meta[0].bucket, Entry(fill.param, fill.offset)) \in Bucket
  BY <1>8, <1>9, AppendProperties DEF Bucket
<1>11. meta' \in [Ranks -> Metas]
  BY <1>4, <1>9, <1>10 DEF TypeOK, Fill, Metas
<1>12. fill' \in [param: Nat \ {0}, offset: Nat]
  BY <1>3, <1>4 DEF Fill
<1> QED
  BY <1>7, <1>11, <1>12 DEF TypeOK, Fill, Metas

LEMMA TypeStep == TypeOK /\ [Next]_vars => TypeOK'
<1> SUFFICES ASSUME TypeOK, [Next]_vars PROVE TypeOK'
  OBVIOUS
<1> USE RankFacts, HalfFacts
<1>1. CASE Fill
  BY <1>1, FillType
<1>2. CASE SendBucket
  <2>1. 0 \in Ranks /\ send[0] \in Halves /\ meta[0] \in Metas /\ 0 \in 0..LastRank - 1
    BY DEF TypeOK, Metas
  <2>2. [meta[0] EXCEPT !.last = FALSE] \in Metas
    BY <2>1 DEF Metas
  <2>3. /\ open' \in [Ranks -> Key] /\ offers' \in [Ranks -> Nat]
        /\ inbox' \in [Ranks -> Seq(Message)]
    BY <1>2, <2>1, <2>2, OfferType DEF SendBucket
  <2>4. notes' \in [Ranks -> Seq(Key)]
    BY <1>2, <2>1, NoteType DEF SendBucket
  <2>5. send' \in [Ranks -> Halves]
    BY <1>2, <2>1 DEF SendBucket, TypeOK, recv
  <2>6. meta' \in [Ranks -> Metas]
    BY <1>2 DEF SendBucket, TypeOK, NoMetadata, Metadata, Metas, Bucket
  <2>7. fill' \in [param: Nat \ {0}, offset: Nat]
    BY <1>2 DEF SendBucket, TypeOK
  <2>8. sent' \in Seq(Seq(Nat))
    BY <1>2, <2>1, SentType DEF SendBucket, TypeOK, Metas
  <2> QED
    BY <1>2, <2>3, <2>4, <2>5, <2>6, <2>7, <2>8 DEF SendBucket, TypeOK, Metas
<1>3. CASE SendLast
  <2>1. 0 \in Ranks /\ send[0] \in Halves /\ meta[0] \in Metas /\ 0 \in 0..LastRank - 1
    BY DEF TypeOK, Metas
  <2>2. [meta[0] EXCEPT !.last = TRUE] \in Metas
    BY <2>1 DEF Metas
  <2>3. /\ open' \in [Ranks -> Key] /\ offers' \in [Ranks -> Nat]
        /\ inbox' \in [Ranks -> Seq(Message)]
    BY <1>3, <2>1, <2>2, OfferType DEF SendLast
  <2>4. notes' \in [Ranks -> Seq(Key)]
    BY <1>3, <2>1, NoteType DEF SendLast
  <2>5. pc' \in [Ranks -> States]
    BY <1>3 DEF SendLast, TypeOK, States
  <2>6. sent' \in Seq(Seq(Nat))
    BY <1>3, <2>1, SentType DEF SendLast, TypeOK, Metas
  <2> QED
    BY <1>3, <2>3, <2>4, <2>5, <2>6 DEF SendLast, TypeOK
<1>4. CASE \E r \in Receivers: ReadFirst(r)
  <2> PICK r \in Receivers: ReadFirst(r)
    BY <1>4
  <2>1. pc' \in [Ranks -> States]
    BY DEF ReadFirst, TypeOK, States
  <2> QED
    BY <2>1, BeginReadType DEF ReadFirst, TypeOK, Metas
<1>5. CASE \E r \in Receivers: Advance(r)
  <2> PICK r \in Receivers: Advance(r)
    BY <1>5
  <2>1. r \in Ranks /\ coming[r] \in Metas /\ send[r] \in Halves /\ recv(r) \in Halves
    BY DEF TypeOK, Metas, recv
  <2>2. /\ open' \in [Ranks -> Key] /\ offers' \in [Ranks -> Nat]
        /\ inbox' \in [Ranks -> Seq(Message)]
    <3>1. CASE r = LastRank
      BY ZenonT(30), <3>1 DEF Advance, NoOffer, TypeOK, Key
    <3>2. CASE r # LastRank
      BY <3>2, <2>1, OfferType DEF Advance
    <3> QED
      BY <3>1, <3>2
  <2>3. notes' \in [Ranks -> Seq(Key)]
    BY <2>1, NoteType DEF Advance
  <2>4. send' \in [Ranks -> Halves] /\ meta' \in [Ranks -> Metas]
    BY <2>1 DEF Advance, TypeOK, Metas
  <2>5. pc' \in [Ranks -> States]
    BY DEF Advance, TypeOK, States
  <2> QED
    BY <2>2, <2>3, <2>4, <2>5 DEF Advance, TypeOK, Metas
<1>6. CASE \E r \in Receivers: ReadNext(r)
  <2> PICK r \in Receivers: ReadNext(r)
    BY <1>6
  <2>1. pc' \in [Ranks -> States]
    BY DEF ReadNext, TypeOK, States
  <2> QED
    BY <2>1, BeginReadType DEF ReadNext, TypeOK, Metas
<1>7. CASE \E r \in Receivers: Yield(r)
  <2> PICK r \in Receivers: Yield(r)
    BY <1>7
  <2>1. r \in Ranks /\ meta[r].bucket \in Bucket
    BY DEF TypeOK
  <2>2. Extract(buf[r][send[r]], meta[r].bucket) \in Seq(Nat)
    BY <2>1, ExtractType
  <2>3. loaded[r] \in Seq(Seq(Nat))
    BY <2>1 DEF TypeOK
  <2>4. Append(loaded[r], Extract(buf[r][send[r]], meta[r].bucket)) \in Seq(Seq(Nat))
    BY <2>2, <2>3, AppendProperties
  <2>5. loaded' \in [Ranks -> Seq(Seq(Nat))]
    BY <2>1, <2>4 DEF Yield, TypeOK
  <2>6. pc' \in [Ranks -> States]
    BY DEF Yield, TypeOK, States
  <2> QED
    BY <2>5, <2>6 DEF Yield, TypeOK
<1>8. CASE \E r \in Ranks: Drain(r)
  <2> PICK r \in Ranks: Drain(r)
    BY <1>8
  <2>1. notes' \in [Ranks -> Seq(Key)]
    BY NoteType DEF Drain
  <2>2. open' \in [Ranks -> Key]
    BY DEF Drain, TypeOK, Key
  <2>3. pc' \in [Ranks -> States]
    BY DEF Drain, TypeOK, States
  <2> QED
    BY <2>1, <2>2, <2>3 DEF Drain, TypeOK
<1>9. CASE \E r \in Receivers: EndRead(r)
  <2> PICK r \in Receivers: EndRead(r)
    BY <1>9
  <2>1. r \in Ranks /\ r - 1 \in Ranks
    OBVIOUS
  <2>a. read[r] \in {NoRead} \cup [busy: {TRUE}, half: Halves, key: Key]
    BY <2>1 DEF TypeOK
  <2>b. read[r] # NoRead
    <3>1. read[r].busy
      BY DEF EndRead
    <3>2. NoRead.busy = FALSE
      BY DEF NoRead
    <3> QED
      BY <3>1, <3>2
  <2>2. read[r] \in [busy: {TRUE}, half: Halves, key: Key]
    BY <2>a, <2>b
  <2>3. buf[r - 1][read[r].half] \in [Cells -> Nat] /\ buf[r] \in [Halves -> [Cells -> Nat]]
    <3>1. read[r].half \in Halves
      BY <2>2
    <3>2. buf \in [Ranks -> [Halves -> [Cells -> Nat]]]
      BY DEF TypeOK
    <3> QED
      BY <3>1, <3>2, <2>1
  <2>4. buf' \in [Ranks -> [Halves -> [Cells -> Nat]]]
    BY <2>1, <2>3 DEF EndRead, TypeOK
  <2>5. notes[r - 1] \in Seq(Key) /\ read[r].key \in Key
    BY <2>1, <2>2 DEF TypeOK
  <2>6. Append(notes[r - 1], read[r].key) \in Seq(Key)
    BY <2>5, AppendProperties
  <2>7. notes' \in [Ranks -> Seq(Key)]
    BY <2>1, <2>6 DEF EndRead, TypeOK
  <2>8. read' \in [Ranks -> {NoRead} \cup [busy: {TRUE}, half: Halves, key: Key]]
    BY <2>1 DEF EndRead, TypeOK
  <2> QED
    BY <2>4, <2>7, <2>8 DEF EndRead, TypeOK
<1>10. CASE UNCHANGED vars
  BY <1>10 DEF vars, TypeOK
<1> QED
  BY <1>1, <1>2, <1>3, <1>4, <1>5, <1>6, <1>7, <1>8, <1>9, <1>10
     DEF Next, Trainer, SendEnds, Rollout, Finished

-----------------------------------------------------------------------------
\* A link whose mailboxes, transfer and lent half stay as they are.
LEMMA LinkFrame ==
  ASSUME NEW q \in 0..LastRank - 1, Link(q), open'[q] = open[q], notes'[q] = notes[q],
         inbox'[q + 1] = inbox[q + 1], read'[q + 1] = read[q + 1],
         LentHalf(q)' = LentHalf(q)
  PROVE  Link(q)'
BY DEF Link, Idle

\* When a rank need not wait, nothing of its link is in use.
LEMMA AckIdle ==
  ASSUME NEW r \in 0..LastRank - 1, Link(r), Acknowledged(r)
  PROVE  Idle(r) /\ notes[r] = IF open[r] = NoKey THEN <<>> ELSE <<open[r]>>
BY DEF Link, Acknowledged

LEMMA AckTakes ==
  ASSUME TypeOK, NEW r \in 0..LastRank - 1, Link(r), Acknowledged(r), TakeNote(r)
  PROVE  notes'[r] = <<>> /\ \A q \in Ranks: q # r => notes'[q] = notes[q]
<1>1. r \in Ranks
  BY RankFacts
<1>2. notes[r] = IF open[r] = NoKey THEN <<>> ELSE <<open[r]>>
  BY AckIdle
<1>3. Tail(<<open[r]>>) = <<>>
  OBVIOUS
<1> QED
  BY <1>1, <1>2, <1>3 DEF TakeNote, TypeOK

\* A new offer on an idle link.
LEMMA OfferLink ==
  ASSUME TypeOK, NEW r \in 0..LastRank - 1, Link(r), Acknowledged(r), TakeNote(r),
         NEW h \in Halves, NEW md \in Metas, Offer(r, h, md),
         read'[r + 1] = read[r + 1], LentHalf(r)' = h
  PROVE  Link(r)'
<1> DEFINE msg == [key |-> open'[r], half |-> h, md |-> md]
<1>1. r \in Ranks /\ r + 1 \in Ranks
  BY RankFacts
<1>2. open'[r] = <<r, offers[r] + 1>> /\ open'[r] # NoKey
  BY <1>1 DEF Offer, TypeOK, NoKey
<1>3. inbox[r + 1] = <<>> /\ read[r + 1] = NoRead
  BY AckIdle DEF Idle
<1>4. inbox'[r + 1] = Append(<<>>, msg)
  BY <1>1, <1>2, <1>3 DEF Offer, TypeOK
<1>5. inbox'[r + 1] = <<msg>>
  BY <1>4
<1>6. notes'[r] = <<>>
  BY AckTakes
<1> QED
  BY <1>2, <1>3, <1>5, <1>6 DEF Link

\* Taking the offer out of the mailbox starts the transfer it describes.
LEMMA BeginReadLink ==
  ASSUME IInv, NEW r \in Receivers, BeginRead(r),
         UNCHANGED <<open, notes, send>>, LentHalf(r - 1)' = LentHalf(r - 1)
  PROVE  Link(r - 1)' /\ inbox[r] = <<Head(inbox[r])>> /\ inbox'[r] = <<>>
<1> DEFINE q == r - 1
<1>1. q \in 0..LastRank - 1 /\ q + 1 = r /\ r \in Ranks
  BY RankFacts
<1>2. Link(q) /\ inbox[r] # <<>>
  BY <1>1 DEF IInv, Links, BeginRead
<1>3. PICK md \in Metas: inbox[r] = << [key |-> open[q], half |-> LentHalf(q), md |-> md] >>
  BY <1>1, <1>2 DEF Link, Idle
<1>4. open[q] # NoKey /\ read[r] = NoRead /\ notes[q] = <<>>
  BY <1>1, <1>2 DEF Link, Idle
<1>5. /\ Head(inbox[r]) = [key |-> open[q], half |-> LentHalf(q), md |-> md]
      /\ Tail(inbox[r]) = <<>>
  BY <1>3
<1>6. inbox'[r] = <<>>
  BY <1>1, <1>5 DEF BeginRead, IInv, TypeOK
<1>a. Head(inbox[r]).half = LentHalf(q) /\ Head(inbox[r]).key = open[q]
  BY <1>5
<1>b. read'[r] = [busy |-> TRUE, half |-> Head(inbox[r]).half, key |-> Head(inbox[r]).key]
  BY <1>1 DEF BeginRead, IInv, TypeOK
<1>7. read'[r] = [busy |-> TRUE, half |-> LentHalf(q), key |-> open[q]]
  BY <1>a, <1>b
<1>8. Link(q)'
  BY <1>1, <1>4, <1>6, <1>7 DEF Link
<1> QED
  BY <1>3, <1>5, <1>6, <1>8

-----------------------------------------------------------------------------
\* The steps of the trainer keep the invariant.
LEMMA FillStep == ASSUME IInv, Fill PROVE (Links /\ Ends /\ Places /\ Order)'
<1> USE DEF IInv
<1>1. \A q \in 0..LastRank - 1: LentHalf(q)' = LentHalf(q)
  BY DEF Fill, LentHalf, recv
<1>2. Links'
  BY <1>1, LinkFrame DEF Links, Fill
<1> QED
  BY <1>2 DEF Ends, Places, Order, Ended, Fill

\* Another rank's link is left alone by an offer of rank r.
LEMMA OfferFrame ==
  ASSUME TypeOK, Links, NEW r \in 0..LastRank - 1, NEW h, NEW md, Offer(r, h, md),
         Acknowledged(r), TakeNote(r), UNCHANGED read,
         \A q \in 0..LastRank - 1: q # r => LentHalf(q)' = LentHalf(q)
  PROVE  \A q \in 0..LastRank - 1: q # r => Link(q)'
<1> SUFFICES ASSUME NEW q \in 0..LastRank - 1, q # r PROVE Link(q)'
  OBVIOUS
<1>1. /\ q \in Ranks /\ r \in Ranks /\ r + 1 \in Ranks /\ q + 1 \in Ranks
      /\ q + 1 # r + 1
  BY RankFacts
<1>2. notes'[q] = notes[q]
  BY <1>1, AckTakes DEF Links
<1>3. open'[q] = open[q] /\ inbox'[q + 1] = inbox[q + 1]
  BY <1>1 DEF Offer, TypeOK
<1> QED
  BY <1>2, <1>3, LinkFrame DEF Links

\* What an offer of rank r leaves alone, and the message it sends.
LEMMA OfferSends ==
  ASSUME TypeOK, Links, NEW r \in 0..LastRank - 1, NEW h, NEW md, Offer(r, h, md),
         Acknowledged(r)
  PROVE  /\ inbox'[r + 1] = << [key |-> open'[r], half |-> h, md |-> md] >>
         /\ open'[r] # NoKey
         /\ \A q \in Ranks: q # r + 1 => inbox'[q] = inbox[q]
         /\ \A q \in Ranks: q # r => open'[q] = open[q]
<1> DEFINE msg == [key |-> open'[r], half |-> h, md |-> md]
<1>1. r \in Ranks /\ r + 1 \in Ranks
  BY RankFacts
<1>2. open'[r] = <<r, offers[r] + 1>> /\ open'[r] # NoKey
  BY <1>1 DEF Offer, TypeOK, NoKey
<1>3. inbox[r + 1] = <<>>
  BY AckIdle DEF Idle, Links
<1>4. inbox'[r + 1] = Append(<<>>, msg)
  BY <1>1, <1>2, <1>3 DEF Offer, TypeOK
<1>5. inbox'[r + 1] = <<msg>>
  BY <1>4
<1> QED
  BY <1>1, <1>2, <1>5 DEF Offer, TypeOK

\* A rank that is not at its end has not announced the last bucket.
LEMMA NotEnded ==
  ASSUME Order, NEW r \in 0..LastRank - 1, ~Ended(r)
  PROVE  ~coming[r + 1].last /\ ~Ended(r + 1)
<1>1. r + 1 \in Receivers /\ (r + 1) - 1 = r
  BY RankFacts
<1> QED
  BY <1>1 DEF Order

\* The only message of a mailbox.
LEMMA SingleMessage ==
  ASSUME NEW box, NEW key, NEW h, NEW md,
         box = << [key |-> key, half |-> h, md |-> md] >>
  PROVE  \A i \in DOMAIN box: box[i].md = md /\ box[i].half = h
<1>1. DOMAIN box = {1} /\ box[1] = [key |-> key, half |-> h, md |-> md]
  OBVIOUS
<1> QED
  BY <1>1

LEMMA Singleton == ASSUME NEW box, NEW m, box = <<m>> PROVE 1 \in DOMAIN box /\ box[1] = m
OBVIOUS

LEMMA NoMessage == ASSUME NEW box, box = <<>> PROVE DOMAIN box = {}
OBVIOUS

LEMMA SendBucketStep == ASSUME IInv, SendBucket PROVE (Links /\ Ends /\ Places /\ Order)'
<1> DEFINE md == [meta[0] EXCEPT !.last = FALSE]
<1> USE DEF IInv
<1>1. /\ 0 \in 0..LastRank - 1 /\ 0 \in Ranks /\ 0 + 1 = 1 /\ 1 \in Receivers
      /\ LastRank # 0 /\ LastRank \in Ranks
  BY RankFacts
<1>a. meta[0] \in Metas /\ send[0] \in Halves
  BY <1>1 DEF TypeOK, Metas
<1>2. md \in Metas /\ md.last = FALSE /\ send[0] \in Halves
  BY <1>a DEF Metas
<1>3. Offer(0, send[0], md) /\ Acknowledged(0) /\ TakeNote(0) /\ UNCHANGED <<read, pc, coming>>
  BY DEF SendBucket
<1> HIDE DEF md
<1>4. \A q \in 0..LastRank - 1: q # 0 => LentHalf(q)' = LentHalf(q)
  BY <1>1, RankFacts DEF SendBucket, LentHalf, TypeOK
<1>5. LentHalf(0)' = send[0]
  <2>1. pc[0] = "fill" /\ pc' = pc /\ send'[0] = 1 - send[0]
    BY <1>1 DEF SendBucket, TypeOK, recv
  <2>2. 1 - (1 - send[0]) = send[0]
    BY <1>2 DEF Halves
  <2> QED
    BY <2>1, <2>2 DEF LentHalf, recv
<1>6. Link(0) /\ Link(0)'
  BY <1>1, <1>2, <1>3, <1>5, OfferLink DEF Links
<1>7. Links'
  BY <1>1, <1>3, <1>4, <1>6, OfferFrame DEF Links
<1>8. /\ inbox'[1] = << [key |-> open'[0], half |-> send[0], md |-> md] >>
      /\ \A q \in Ranks: q # 1 => inbox'[q] = inbox[q]
      /\ \A q \in Ranks: q # 0 => open'[q] = open[q]
  <2>1. /\ inbox'[0 + 1] = << [key |-> open'[0], half |-> send[0], md |-> md] >>
        /\ \A q \in Ranks: q # 0 + 1 => inbox'[q] = inbox[q]
        /\ \A q \in Ranks: q # 0 => open'[q] = open[q]
    BY <1>1, <1>3, OfferSends
  <2> QED
    BY <1>1, <2>1
<1>9. notes'[LastRank] = notes[LastRank]
  BY <1>1, <1>3, <1>6, AckTakes
<1>10. Ends'
  BY <1>1, <1>3, <1>8, <1>9 DEF Ends
<1>11. Places'
  BY <1>1, <1>3, <1>8, RankFacts DEF Places, SendBucket
<1>12. ~Ended(0) /\ pc[0] = "fill"
  BY DEF SendBucket, Ended
<1>13. ~coming[1].last /\ ~Ended(1)
  BY <1>1, <1>12, NotEnded
<1>14. \A i \in DOMAIN inbox'[1]: inbox'[1][i].md.last = FALSE
  BY <1>2, <1>8, SingleMessage
<1>15. Order'
  <2> SUFFICES ASSUME NEW r \in Receivers
               PROVE  /\ \A i \in DOMAIN inbox'[r]: inbox'[r][i].md.last => Ended(r - 1)
                      /\ coming[r].last => Ended(r - 1) /\ inbox'[r] = <<>>
                      /\ Ended(r) => coming[r].last
    BY <1>3 DEF Order, Ended
  <2>1. CASE r = 1
    BY <2>1, <1>13, <1>14
  <2>2. CASE r # 1
    <3>1. inbox'[r] = inbox[r]
      BY <2>2, <1>8, RankFacts
    <3> QED
      BY <3>1 DEF Order
  <2> QED
    BY <2>1, <2>2
<1> QED
  BY <1>7, <1>10, <1>11, <1>15

LEMMA SendLastStep == ASSUME IInv, SendLast PROVE (Links /\ Ends /\ Places /\ Order)'
<1> DEFINE md == [meta[0] EXCEPT !.last = TRUE]
<1> USE DEF IInv
<1>1. /\ 0 \in 0..LastRank - 1 /\ 0 \in Ranks /\ 0 + 1 = 1 /\ 1 \in Receivers
      /\ LastRank # 0 /\ LastRank \in Ranks
  BY RankFacts
<1>a. meta[0] \in Metas /\ send[0] \in Halves
  BY <1>1 DEF TypeOK, Metas
<1>2. md \in Metas
  BY <1>a DEF Metas
<1>3. /\ Offer(0, send[0], md) /\ Acknowledged(0) /\ TakeNote(0)
      /\ UNCHANGED <<read, coming, send>> /\ pc[0] = "fill"
      /\ pc' = [pc EXCEPT ![0] = "drain"]
  BY DEF SendLast
<1> HIDE DEF md
<1>b. pc'[0] = "drain" /\ \A q \in Ranks: q # 0 => pc'[q] = pc[q]
  BY <1>1, <1>3 DEF TypeOK
<1>4. \A q \in 0..LastRank - 1: q # 0 => LentHalf(q)' = LentHalf(q)
  BY <1>3 DEF LentHalf
<1>5. LentHalf(0)' = send[0]
  BY <1>3, <1>b DEF LentHalf
<1>6. Link(0) /\ Link(0)'
  BY <1>1, <1>a, <1>2, <1>3, <1>5, OfferLink DEF Links
<1>7. Links'
  BY <1>1, <1>3, <1>4, <1>6, OfferFrame DEF Links
<1>8. /\ inbox'[1] = << [key |-> open'[0], half |-> send[0], md |-> md] >>
      /\ \A q \in Ranks: q # 1 => inbox'[q] = inbox[q]
      /\ \A q \in Ranks: q # 0 => open'[q] = open[q]
  <2>1. /\ inbox'[0 + 1] = << [key |-> open'[0], half |-> send[0], md |-> md] >>
        /\ \A q \in Ranks: q # 0 + 1 => inbox'[q] = inbox[q]
        /\ \A q \in Ranks: q # 0 => open'[q] = open[q]
    BY <1>1, <1>3, OfferSends
  <2> QED
    BY <1>1, <2>1
<1>9. notes'[LastRank] = notes[LastRank]
  BY <1>1, <1>3, <1>6, AckTakes
<1>10. Ends'
  BY <1>1, <1>3, <1>8, <1>9 DEF Ends
<1>11. Places'
  <2>1. pc'[0] \in {"fill", "drain", "done"}
    BY <1>b
  <2>2. \A r \in Receivers: pc'[r] # "fill"
    BY <1>b, RankFacts DEF Places
  <2>3. \A r \in Ranks: pc'[r] \in {"first", "read first", "done"} => open'[r] = NoKey
    BY <1>b, <1>8 DEF Places
  <2>4. \A r \in Receivers:
          read'[r] # NoRead => pc'[r] \in {"read first", "yield", "read"}
    BY <1>b, <1>3, RankFacts DEF Places
  <2> QED
    BY <2>1, <2>2, <2>3, <2>4 DEF Places
<1>12. ~Ended(0)
  BY <1>3 DEF Ended
<1>13. ~coming[1].last /\ ~Ended(1)
  BY <1>1, <1>12, NotEnded
<1>14. Ended(0)' /\ \A q \in Receivers: Ended(q)' <=> Ended(q)
  BY <1>b, RankFacts DEF Ended
<1>15. Order'
  <2> SUFFICES ASSUME NEW r \in Receivers
               PROVE  /\ \A i \in DOMAIN inbox'[r]: inbox'[r][i].md.last => Ended(r - 1)'
                      /\ coming[r].last => Ended(r - 1)' /\ inbox'[r] = <<>>
                      /\ Ended(r)' => coming[r].last
    BY <1>3 DEF Order
  <2>1. CASE r = 1
    BY <2>1, <1>13, <1>14
  <2>2. CASE r # 1
    <3>1. inbox'[r] = inbox[r] /\ r - 1 \in Receivers
      BY <2>2, <1>8, RankFacts DEF Receivers
    <3> QED
      BY <3>1, <1>14 DEF Order
  <2> QED
    BY <2>1, <2>2
<1> QED
  BY <1>7, <1>10, <1>11, <1>15

\* The steps of the rollout ranks and of the transfers keep the invariant.
\* A message is taken and the transfer it describes begins: ReadFirst and
\* ReadNext, which differ in the place they come from.
LEMMA BeginReadStep ==
  ASSUME IInv, NEW r \in Receivers, BeginRead(r), UNCHANGED <<open, notes, send>>,
         NEW place \in {"read first", "yield"}, pc' = [pc EXCEPT ![r] = place],
         ~Ended(r), pc[r] = "first" \/ place = "yield"
  PROVE  (Links /\ Ends /\ Places /\ Order)'
<1> USE DEF IInv
<1>1. r \in Ranks /\ r - 1 \in 0..LastRank - 1 /\ (r - 1) + 1 = r /\ r # 0 /\ 0 \in Ranks
  BY RankFacts
<1>2. pc'[r] = place /\ \A q \in Ranks: q # r => pc'[q] = pc[q]
  BY <1>1 DEF TypeOK
<1>3. \A q \in 0..LastRank - 1: LentHalf(q)' = LentHalf(q)
  BY <1>1, <1>2 DEF LentHalf, recv
<1>4. Link(r - 1)' /\ inbox[r] = <<Head(inbox[r])>> /\ inbox'[r] = <<>>
  BY <1>1, <1>3, BeginReadLink
<1>5. \A q \in Ranks: q # r => inbox'[q] = inbox[q] /\ read'[q] = read[q]
  BY DEF BeginRead, TypeOK
<1>6. Links'
  <2> SUFFICES ASSUME NEW q \in 0..LastRank - 1, q # r - 1 PROVE Link(q)'
    BY <1>4 DEF Links
  <2>1. q + 1 \in Ranks /\ q + 1 # r
    BY <1>1, RankFacts DEF Receivers
  <2> QED
    BY <2>1, <1>3, <1>5, LinkFrame DEF Links
<1>7. Ends'
  BY <1>1, <1>5 DEF Ends
<1>8. Places'
  BY <1>1, <1>2, <1>5, RankFacts DEF Places
<1>9. coming'[r] = Head(inbox[r]).md /\ \A q \in Ranks: q # r => coming'[q] = coming[q]
  BY <1>1 DEF BeginRead, TypeOK
<1>10. 1 \in DOMAIN inbox[r] /\ inbox[r][1] = Head(inbox[r])
  BY <1>4, Singleton
<1>11. coming'[r].last => Ended(r - 1)
  BY <1>9, <1>10 DEF Order
<1>12. /\ \A q \in Ranks: q # r => (Ended(q)' <=> Ended(q))
       /\ ~Ended(r)'
  BY <1>2 DEF Ended
<1>13. Order'
  <2> SUFFICES ASSUME NEW q \in Receivers
               PROVE  /\ \A i \in DOMAIN inbox'[q]: inbox'[q][i].md.last => Ended(q - 1)'
                      /\ coming'[q].last => Ended(q - 1)' /\ inbox'[q] = <<>>
                      /\ Ended(q)' => coming'[q].last
    BY DEF Order
  <2>1. q \in Ranks /\ q - 1 \in Ranks
    BY RankFacts
  <2>2. Ended(q - 1) => Ended(q - 1)'
    BY <2>1, <1>12
  <2>3. CASE q = r
    <3>1. DOMAIN inbox'[q] = {}
      BY <2>3, <1>4, NoMessage
    <3> QED
      BY <2>2, <2>3, <3>1, <1>4, <1>11, <1>12
  <2>4. CASE q # r
    BY <2>1, <2>2, <2>4, <1>5, <1>9, <1>12 DEF Order
  <2> QED
    BY <2>3, <2>4
<1> QED
  BY <1>6, <1>7, <1>8, <1>13

LEMMA YieldStep ==
  ASSUME IInv, NEW r \in Receivers, Yield(r)
  PROVE  (Links /\ Ends /\ Places /\ Order)'
<1> USE DEF IInv
<1>1. r \in Ranks /\ r # 0 /\ 0 \in Ranks
  BY RankFacts
<1>2. /\ pc[r] \in {"yield", "yield last"}
      /\ pc'[r] = IF pc[r] = "yield" THEN "read" ELSE "drain"
      /\ \A q \in Ranks: q # r => pc'[q] = pc[q]
  BY <1>1 DEF Yield, TypeOK
<1>3. UNCHANGED <<send, coming, inbox, notes, open, read>>
  BY DEF Yield
<1>4. \A q \in 0..LastRank - 1: LentHalf(q)' = LentHalf(q)
  BY <1>1, <1>2, <1>3 DEF LentHalf, recv
<1>5. Links'
  BY <1>3, <1>4, LinkFrame DEF Links
<1>6. Ends'
  BY <1>3 DEF Ends
<1>7. Places'
  BY <1>1, <1>2, <1>3, RankFacts DEF Places
<1>8. \A q \in Ranks: Ended(q)' <=> Ended(q)
  BY <1>2 DEF Ended
<1>9. Order'
  BY <1>3, <1>8, RankFacts DEF Order
<1> QED
  BY <1>5, <1>6, <1>7, <1>9

LEMMA DrainStep ==
  ASSUME IInv, NEW r \in Ranks, Drain(r)
  PROVE  (Links /\ Ends /\ Places /\ Order)'
<1> USE DEF IInv
<1>1. /\ pc[r] = "drain" /\ pc'[r] = "done" /\ open'[r] = NoKey
      /\ \A q \in Ranks: q # r => pc'[q] = pc[q] /\ open'[q] = open[q]
  BY DEF Drain, TypeOK
<1>2. UNCHANGED <<send, coming, inbox, read>> /\ TakeNote(r) /\ Acknowledged(r)
  BY DEF Drain
<1>3. \A q \in 0..LastRank - 1: LentHalf(q)' = LentHalf(q)
  BY <1>1, <1>2, RankFacts DEF LentHalf, recv
<1>4. /\ notes'[r] = <<>> /\ (r # LastRank => Idle(r))
      /\ \A q \in Ranks: q # r => notes'[q] = notes[q]
  <2>1. CASE r = LastRank
    BY <2>1, <1>2, RankFacts DEF TakeNote, TypeOK, Ends
  <2>2. CASE r # LastRank
    BY <2>2, <1>2, AckTakes, AckIdle, RankFacts DEF Links
  <2> QED
    BY <2>1, <2>2
<1>5. Links'
  <2> SUFFICES ASSUME NEW q \in 0..LastRank - 1 PROVE Link(q)'
    BY DEF Links
  <2>1. q \in Ranks /\ q # LastRank
    BY RankFacts
  <2>2. CASE q = r
    BY <2>1, <2>2, <1>1, <1>2, <1>4 DEF Link, Idle
  <2>3. CASE q # r
    BY <2>1, <2>3, <1>1, <1>2, <1>3, <1>4, LinkFrame DEF Links
  <2> QED
    BY <2>2, <2>3
<1>6. Ends'
  BY <1>1, <1>2, <1>4, RankFacts DEF Ends
<1>7. Places'
  BY <1>1, <1>2, RankFacts DEF Places
<1>8. \A q \in Ranks: Ended(q)' <=> Ended(q)
  BY <1>1 DEF Ended
<1>9. Order'
  BY <1>2, <1>8, RankFacts DEF Order
<1> QED
  BY <1>5, <1>6, <1>7, <1>9

\* A transfer is in progress or there is none.
LEMMA ReadCases ==
  ASSUME TypeOK, NEW r \in Ranks
  PROVE  read[r].busy <=> read[r] # NoRead
<1>1. read[r] \in {NoRead} \cup [busy: {TRUE}, half: Halves, key: Key]
  BY DEF TypeOK
<1>2. NoRead.busy = FALSE
  BY DEF NoRead
<1>3. \A x \in [busy: {TRUE}, half: Halves, key: Key]: x.busy = TRUE
  OBVIOUS
<1> QED
  BY <1>1, <1>2, <1>3

LEMMA AdvanceStep ==
  ASSUME IInv, NEW r \in Receivers, Advance(r)
  PROVE  (Links /\ Ends /\ Places /\ Order)'
<1> USE DEF IInv
<1>1. r \in Ranks /\ r # 0 /\ 0 \in Ranks /\ LastRank \in Ranks /\ LastRank # 0
  BY RankFacts
<1>2. /\ pc[r] \in {"read first", "read"} /\ Acknowledged(r) /\ TakeNote(r)
      /\ UNCHANGED <<coming, read>> /\ read[r] = NoRead
  BY <1>1, ReadCases DEF Advance
<1>3. /\ pc'[r] = IF coming[r].last THEN "yield last" ELSE "read next"
      /\ \A q \in Ranks: q # r => pc'[q] = pc[q] /\ send'[q] = send[q]
      /\ send'[r] = recv(r)
  BY <1>1 DEF Advance, TypeOK
<1>4. coming[r] \in Metas /\ recv(r) \in Halves
  <2>1. send[r] \in Halves
    BY <1>1 DEF TypeOK
  <2> QED
    BY <1>1, <2>1, HalfFacts DEF TypeOK, Metas, recv
<1>5. /\ \A q \in 0..LastRank - 1: q # r => LentHalf(q)' = LentHalf(q)
      /\ LentHalf(r)' = recv(r)
  BY <1>1, <1>3, RankFacts DEF LentHalf, recv
<1>6. /\ \A q \in Ranks: q # r => (Ended(q)' <=> Ended(q))
      /\ ~Ended(r) /\ (Ended(r)' <=> coming[r].last)
  BY <1>2, <1>3 DEF Ended
<1>7. Places'
  <2>1. pc'[0] \in {"fill", "drain", "done"}
    BY <1>1, <1>3 DEF Places
  <2>2. \A q \in Receivers: pc'[q] # "fill"
    BY <1>3, RankFacts DEF Places
  <2>3. \A q \in Receivers:
          read'[q] # NoRead => pc'[q] \in {"read first", "yield", "read"}
    BY <1>2, <1>3, RankFacts DEF Places
  <2>4. \A q \in Ranks: q # r => open'[q] = open[q]
    BY DEF Advance, Offer, NoOffer, TypeOK
  <2>5. \A q \in Ranks: pc'[q] \in {"first", "read first", "done"} => open'[q] = NoKey
    BY <1>3, <2>4 DEF Places
  <2> QED
    BY <2>1, <2>2, <2>3, <2>5 DEF Places
<1>8. CASE r = LastRank
  <2>1. NoOffer(r) /\ UNCHANGED inbox
    BY <1>8 DEF Advance, NoOffer
  <2>2. \A q \in Ranks: open'[q] = open[q] /\ notes'[q] = notes[q]
    BY <1>2, <1>8, <2>1 DEF NoOffer, TakeNote, Ends, TypeOK
  <2>3. Links'
    BY <1>2, <1>5, <1>8, <2>1, <2>2, LinkFrame, RankFacts DEF Links
  <2>4. Ends'
    BY <1>1, <1>2, <2>1, <2>2 DEF Ends
  <2>5. \A q \in Receivers: q - 1 # LastRank /\ q - 1 \in Ranks
    BY RankFacts
  <2>6. Order'
    BY <1>2, <1>6, <1>8, <2>1, <2>5, RankFacts DEF Order
  <2> QED
    BY <1>7, <2>3, <2>4, <2>6
<1>9. CASE r # LastRank
  <2>1. r \in 0..LastRank - 1 /\ Offer(r, recv(r), coming[r])
    BY <1>1, <1>9, RankFacts DEF Advance
  <2>2. Link(r)'
    BY <1>2, <1>4, <1>5, <2>1, OfferLink DEF Links
  <2>3. Links'
    BY <1>2, <1>5, <2>1, <2>2, OfferFrame DEF Links
  <2>4. /\ inbox'[r + 1] = << [key |-> open'[r], half |-> recv(r), md |-> coming[r]] >>
        /\ \A q \in Ranks: q # r + 1 => inbox'[q] = inbox[q]
        /\ \A q \in Ranks: q # r => open'[q] = open[q]
    <3>1. TypeOK /\ Links /\ Acknowledged(r)
      BY <1>2
    <3> HIDE DEF IInv
    <3> QED
      BY <2>1, <3>1, OfferSends
  <2>5. notes'[LastRank] = notes[LastRank]
    BY <1>1, <1>2, <1>9, <2>1, AckTakes DEF Links
  <2>6. 0 # r + 1
    BY <2>1
  <2>7. Ends'
    BY <1>1, <1>2, <1>9, <2>4, <2>5, <2>6 DEF Ends
  <2>8. ~coming[r + 1].last /\ ~Ended(r + 1)
    BY <1>6, <2>1, NotEnded
  <2>9. \A i \in DOMAIN inbox'[r + 1]: inbox'[r + 1][i].md = coming[r]
    BY <2>4, SingleMessage
  <2>10. Order'
    <3> SUFFICES ASSUME NEW q \in Receivers
                 PROVE  /\ \A i \in DOMAIN inbox'[q]: inbox'[q][i].md.last => Ended(q - 1)'
                        /\ coming[q].last => Ended(q - 1)' /\ inbox'[q] = <<>>
                        /\ Ended(q)' => coming[q].last
      BY <1>2 DEF Order
    <3>1. q \in Ranks /\ q - 1 \in Ranks /\ (q = r + 1 => q - 1 = r) /\ r + 1 # r
      BY <2>1, RankFacts
    <3>2. CASE q = r + 1
      BY <3>1, <3>2, <1>6, <2>8, <2>9
    <3>3. CASE q # r + 1
      <4>1. Ended(q - 1) => Ended(q - 1)'
        BY <3>1, <1>6
      <4>2. Ended(q)' => coming[q].last
        BY <3>1, <1>6 DEF Order
      <4> QED
        BY <3>1, <3>3, <4>1, <4>2, <2>4 DEF Order
    <3> QED
      BY <3>2, <3>3
  <2> QED
    BY <1>7, <2>3, <2>7, <2>10
<1> QED
  BY <1>8, <1>9

LEMMA EndReadStep ==
  ASSUME IInv, NEW r \in Receivers, EndRead(r)
  PROVE  (Links /\ Ends /\ Places /\ Order)'
<1> USE DEF IInv
<1>1. /\ r \in Ranks /\ r - 1 \in 0..LastRank - 1 /\ (r - 1) + 1 = r /\ r # 0
      /\ r - 1 \in Ranks /\ r - 1 # LastRank /\ 0 \in Ranks /\ LastRank \in Ranks
  BY RankFacts
<1>2. read[r] # NoRead /\ UNCHANGED <<pc, send, coming, inbox, open>>
  BY <1>1, ReadCases DEF EndRead
<1>3. /\ read'[r] = NoRead /\ notes'[r - 1] = Append(notes[r - 1], read[r].key)
      /\ \A q \in Ranks: q # r => read'[q] = read[q]
      /\ \A q \in Ranks: q # r - 1 => notes'[q] = notes[q]
  BY <1>1 DEF EndRead, TypeOK
<1>4. /\ open[r - 1] # NoKey /\ inbox[r] = <<>> /\ notes[r - 1] = <<>>
      /\ read[r] = [busy |-> TRUE, half |-> LentHalf(r - 1), key |-> open[r - 1]]
  BY <1>1, <1>2 DEF Links, Link, Idle
<1>5. read[r].key = open[r - 1]
  BY <1>4
<1>6. notes'[r - 1] = <<open[r - 1]>>
  BY <1>3, <1>4, <1>5
<1>7. \A q \in 0..LastRank - 1: LentHalf(q)' = LentHalf(q)
  BY <1>2 DEF LentHalf, recv
<1>8. Links'
  <2> SUFFICES ASSUME NEW q \in 0..LastRank - 1 PROVE Link(q)'
    BY DEF Links
  <2>1. CASE q = r - 1
    BY <2>1, <1>1, <1>2, <1>3, <1>4, <1>6 DEF Link, Idle
  <2>2. CASE q # r - 1
    <3>1. q \in Ranks /\ q + 1 \in Ranks /\ q + 1 # r
      BY <2>2, <1>1, RankFacts
    <3> QED
      BY <2>2, <3>1, <1>2, <1>3, <1>7, LinkFrame DEF Links
  <2> QED
    BY <2>1, <2>2
<1>9. Ends'
  BY <1>1, <1>2, <1>3 DEF Ends
<1>10. Places'
  BY <1>2, <1>3, RankFacts DEF Places
<1>11. Order'
  BY <1>2 DEF Order, Ended
<1> QED
  BY <1>8, <1>9, <1>10, <1>11

LEMMA InitIInv == Init => IInv
<1> SUFFICES ASSUME Init PROVE IInv
  OBVIOUS
<1>1. TypeOK
  BY InitType
<1>2. Links
  BY RankFacts DEF Init, Links, Link, Idle
<1>3. Ends
  BY RankFacts DEF Init, Ends
<1>4. Places
  BY RankFacts DEF Init, Places
<1>5. \A r \in Receivers: inbox[r] = <<>> /\ coming[r] = NoMetadata /\ pc[r] = "first"
  BY RankFacts DEF Init
<1>6. NoMetadata.last = FALSE
  BY DEF NoMetadata, Metadata
<1>7. Order
  BY <1>5, <1>6, NoMessage DEF Order, Ended
<1> QED
  BY <1>1, <1>2, <1>3, <1>4, <1>7 DEF IInv

LEMMA NextIInv == IInv /\ [Next]_vars => IInv'
<1> SUFFICES ASSUME IInv, [Next]_vars PROVE IInv'
  OBVIOUS
<1>0. TypeOK'
  BY TypeStep DEF IInv
<1>1. CASE Fill
  BY <1>0, <1>1, FillStep DEF IInv
<1>2. CASE SendBucket
  BY <1>0, <1>2, SendBucketStep DEF IInv
<1>3. CASE SendLast
  BY <1>0, <1>3, SendLastStep DEF IInv
<1>4. CASE \E r \in Receivers: ReadFirst(r)
  <2> PICK r \in Receivers: ReadFirst(r)
    BY <1>4
  <2>1. /\ BeginRead(r) /\ UNCHANGED <<open, notes, send>>
        /\ pc' = [pc EXCEPT ![r] = "read first"] /\ pc[r] = "first" /\ ~Ended(r)
    BY DEF ReadFirst, Ended
  <2> QED
    BY <1>0, <2>1, BeginReadStep DEF IInv
<1>5. CASE \E r \in Receivers: Advance(r)
  BY <1>0, <1>5, AdvanceStep DEF IInv
<1>6. CASE \E r \in Receivers: ReadNext(r)
  <2> PICK r \in Receivers: ReadNext(r)
    BY <1>6
  <2>1. /\ BeginRead(r) /\ UNCHANGED <<open, notes, send>>
        /\ pc' = [pc EXCEPT ![r] = "yield"] /\ ~Ended(r)
    BY DEF ReadNext, Ended
  <2> QED
    BY <1>0, <2>1, BeginReadStep DEF IInv
<1>7. CASE \E r \in Receivers: Yield(r)
  BY <1>0, <1>7, YieldStep DEF IInv
<1>8. CASE \E r \in Ranks: Drain(r)
  BY <1>0, <1>8, DrainStep DEF IInv
<1>9. CASE \E r \in Receivers: EndRead(r)
  BY <1>0, <1>9, EndReadStep DEF IInv
<1>10. CASE UNCHANGED vars
  <2>1. \A q \in 0..LastRank - 1: LentHalf(q)' = LentHalf(q)
    BY <1>10 DEF LentHalf, recv, vars
  <2>2. Links'
    BY <1>10, <2>1, LinkFrame DEF IInv, Links, vars
  <2> QED
    BY <1>0, <1>10, <2>2 DEF IInv, Ends, Places, Order, Ended, vars
<1> QED
  BY <1>1, <1>2, <1>3, <1>4, <1>5, <1>6, <1>7, <1>8, <1>9, <1>10, RankFacts
     DEF Next, Trainer, SendEnds, Rollout, Finished

\* What the link invariant says of the memory on loan.
LEMMA LentFacts ==
  ASSUME IInv, NEW r \in Ranks, NEW h \in Halves, Lent(r, h)
  PROVE  r \in 0..LastRank - 1 /\ open[r] # NoKey /\ h = LentHalf(r)
<1>1. r \in 0..LastRank - 1 /\ Link(r) /\ r + 1 \in Ranks
  BY RankFacts DEF Lent, IInv, Links
<1>2. CASE \E i \in DOMAIN inbox[r + 1]: inbox[r + 1][i].half = h
  <2>1. inbox[r + 1] # <<>>
    BY <1>2, NoMessage
  <2>2. PICK md \in Metas:
          inbox[r + 1] = << [key |-> open[r], half |-> LentHalf(r), md |-> md] >>
    BY <1>1, <2>1 DEF Link, Idle
  <2>3. \A i \in DOMAIN inbox[r + 1]: inbox[r + 1][i].half = LentHalf(r)
    BY <2>2, SingleMessage
  <2> QED
    BY <1>1, <1>2, <2>1, <2>3 DEF Link, Idle
<1>3. CASE read[r + 1].busy /\ read[r + 1].half = h
  <2>1. read[r + 1] # NoRead
    BY <1>1, <1>3, ReadCases DEF IInv
  <2>2. /\ open[r] # NoKey
        /\ read[r + 1] = [busy |-> TRUE, half |-> LentHalf(r), key |-> open[r]]
    BY <1>1, <2>1 DEF Link, Idle
  <2>3. read[r + 1].half = LentHalf(r)
    BY <2>2
  <2> QED
    BY <1>1, <1>3, <2>2, <2>3
<1> QED
  BY <1>2, <1>3 DEF Lent

LEMMA IInvHalfExclusive == IInv => HalfExclusive
<1> SUFFICES ASSUME IInv, NEW r \in Ranks, NEW h \in Halves, Written(r, h)
             PROVE  ~Lent(r, h) /\ ~Loading(r, h)
  BY DEF HalfExclusive
<1>1. send[r] \in Halves /\ recv(r) # send[r]
  BY HalfFacts DEF IInv, TypeOK, recv
<1>2. CASE r = 0
  <2>1. pc[0] = "fill" /\ h = send[0]
    BY <1>2 DEF Written
  <2> QED
    BY <1>1, <1>2, <2>1, LentFacts DEF LentHalf, Loading
<1>3. CASE r # 0
  <2>1. h = recv(r)
    BY <1>3 DEF Written
  <2> QED
    BY <1>1, <1>3, <2>1, LentFacts DEF LentHalf, Loading
<1> QED
  BY <1>2, <1>3

LEMMA IInvCleanExit == IInv => CleanExit
<1> SUFFICES ASSUME IInv, NEW r \in Ranks, pc[r] = "done"
             PROVE  /\ inbox[r] = <<>> /\ notes[r] = <<>> /\ open[r] = NoKey
                    /\ ~read[r].busy
                    /\ \A h \in Halves: ~Lent(r, h)
  BY DEF CleanExit
<1>1. open[r] = NoKey
  BY DEF IInv, Places
<1>2. notes[r] = <<>>
  BY <1>1, RankFacts DEF IInv, Ends, Links, Link
<1>3. inbox[r] = <<>> /\ read[r] = NoRead
  <2>1. CASE r = 0
    BY <2>1 DEF IInv, Ends
  <2>2. CASE r # 0
    BY <2>2, RankFacts DEF IInv, Order, Places, Ended
  <2> QED
    BY <2>1, <2>2
<1>4. \A h \in Halves: ~Lent(r, h)
  BY <1>1, LentFacts
<1> QED
  BY <1>1, <1>2, <1>3, <1>4, ReadCases DEF IInv

-----------------------------------------------------------------------------
(***************************************************************************)
(* What the chain carries. The parameters go down it in their order, each   *)
(* once; a place of the chain is known by the first parameter that has not  *)
(* passed it. For a receiver the places are its inbox, its transfer, the    *)
(* buffer it passes on and the worker it loads.                             *)
(***************************************************************************)
\* The first parameter that is not in the buckets loaded so far.
After(buckets) ==
  IF buckets = <<>> THEN 1
  ELSE buckets[Len(buckets)][1] + Len(buckets[Len(buckets)])

\* The buckets hold the parameters from the first on in their order, each once
\* and none of them damaged (0 is a parameter that was not there).
InOrder(buckets) ==
  \A i \in DOMAIN buckets:
    /\ Len(buckets[i]) > 0
    /\ buckets[i][1] = IF i = 1 THEN 1 ELSE buckets[i - 1][1] + Len(buckets[i - 1])
    /\ \A j \in DOMAIN buckets[i]: buckets[i][j] = buckets[i][1] + j - 1

AfterMeta(r) ==
  IF pc[r] \in {"first", "read first"} THEN 1
  ELSE meta[r].bucket[1].param + Len(meta[r].bucket)
AfterComing(r) ==
  IF pc[r] = "first" THEN 1 ELSE coming[r].bucket[1].param + Len(coming[r].bucket)
AfterOffered(r) ==
  IF r # 0 THEN AfterMeta(r)
  ELSE IF pc[0] = "fill" THEN fill.param - Len(meta[0].bucket) ELSE fill.param

\* Memory b holds the parameter that entry e of a bucket's metadata names.
HoldsEntry(list, b, e) ==
  \A c \in e.offset..e.offset + list[e.param] - 1: b[c] = e.param

\* The bucket of metadata md is in memory b: the parameters from first on, up
\* to next; and the last bucket ends with the last parameter.
Carries(list, b, md, first, next) ==
  /\ Len(md.bucket) > 0 /\ next = first + Len(md.bucket)
  /\ \A i \in DOMAIN md.bucket:
       md.bucket[i].param = first + i - 1 /\ HoldsEntry(list, b, md.bucket[i])
  /\ md.last => next = Len(list) + 1

\* What rank 0 has packed into its send buffer: the parameters before next, at
\* offsets up to top.
Packs(list, b, bucket, next, top) ==
  \A i \in DOMAIN bucket:
    /\ bucket[i].param = next - Len(bucket) + i - 1
    /\ bucket[i].offset + list[bucket[i].param] <= top
    /\ HoldsEntry(list, b, bucket[i])

Source ==
  /\ fill.param <= Len(sizes) + 1 /\ fill.offset <= BucketSize
  /\ Len(meta[0].bucket) < fill.param
  /\ Packs(sizes, buf[0][send[0]], meta[0].bucket, fill.param, fill.offset)
  /\ meta[0].bucket = <<>> => fill.offset = 0 /\ fill.param <= Len(sizes)
  /\ pc[0] # "fill" => fill.param = Len(sizes) + 1

Fresh(r) == pc[r] \in {"read next", "yield", "yield last"}
Reading(r) == pc[r] \in {"read first", "yield", "read"}
LentBuf(r) == buf[r][LentHalf(r)]
Target(r) == IF read[r] # NoRead THEN LentBuf(r - 1) ELSE buf[r][recv(r)]

\* What rank r passes on, is reading, and has been offered, are consecutive
\* and intact.
PassesOn(r) ==
  IF Fresh(r) THEN Carries(sizes, buf[r][send[r]], meta[r], After(loaded[r]), AfterMeta(r))
              ELSE After(loaded[r]) = AfterMeta(r)
Reads(r) ==
  IF Reading(r) THEN Carries(sizes, Target(r), coming[r], AfterMeta(r), AfterComing(r))
                ELSE AfterComing(r) = AfterMeta(r)
Offered(r) ==
  IF inbox[r] # <<>>
  THEN Carries(sizes, LentBuf(r - 1), inbox[r][1].md, AfterComing(r), AfterOffered(r - 1))
  ELSE AfterOffered(r - 1) = AfterComing(r)
Carried(r) ==
  /\ PassesOn(r) /\ Reads(r) /\ Offered(r)
  /\ Ended(r) => AfterMeta(r) = Len(sizes) + 1

ContentInv == Source /\ \A r \in Receivers: Carried(r) /\ InOrder(loaded[r])

\* What every receiver has loaded are parameters from the first on, none
\* left out, twice or damaged; and all of them when its call returns.
LoadsInOrder ==
  \A r \in Receivers:
    /\ InOrder(loaded[r])
    /\ pc[r] = "done" => After(loaded[r]) = Len(sizes) + 1

LEMMA RankFrame ==
  ASSUME NEW r \in Receivers, Carried(r), UNCHANGED sizes,
         pc'[r] = pc[r], send'[r] = send[r], meta'[r] = meta[r], coming'[r] = coming[r],
         inbox'[r] = inbox[r], read'[r] = read[r], loaded'[r] = loaded[r],
         buf'[r] = buf[r], LentBuf(r - 1)' = LentBuf(r - 1),
         AfterOffered(r - 1)' = AfterOffered(r - 1)
  PROVE  Carried(r)'
<1>1. AfterMeta(r)' = AfterMeta(r) /\ AfterComing(r)' = AfterComing(r)
  BY DEF AfterMeta, AfterComing
<1>2. (Fresh(r)' <=> Fresh(r)) /\ (Reading(r)' <=> Reading(r)) /\ (Ended(r)' <=> Ended(r))
  BY DEF Fresh, Reading, Ended
<1>3. Target(r)' = Target(r)
  BY DEF Target, recv
<1>4. PassesOn(r)'
  BY <1>1, <1>2 DEF Carried, PassesOn
<1>5. Reads(r)'
  BY <1>1, <1>2, <1>3 DEF Carried, Reads
<1>6. Offered(r)'
  BY <1>1 DEF Carried, Offered
<1> QED
  BY <1>1, <1>2, <1>4, <1>5, <1>6 DEF Carried

\* The types that the arithmetic of the places rests on.
LEMMA ContentTypes ==
  ASSUME TypeOK
  PROVE  /\ sizes \in Seq(1..BucketSize) /\ Len(sizes) \in Nat /\ Len(sizes) > 0
         /\ DOMAIN sizes = 1..Len(sizes)
         /\ \A p \in 1..Len(sizes): sizes[p] \in Nat /\ 1 <= sizes[p] /\ sizes[p] <= BucketSize
         /\ fill.param \in Nat /\ fill.param > 0 /\ fill.offset \in Nat
         /\ \A r \in Ranks: /\ meta[r] \in Metas /\ coming[r] \in Metas
                            /\ send[r] \in Halves /\ recv(r) \in Halves /\ recv(r) # send[r]
<1>1. sizes \in Seq(1..BucketSize) /\ Len(sizes) > 0
  BY SizesAssumption DEF TypeOK
<1>2. Len(sizes) \in Nat /\ DOMAIN sizes = 1..Len(sizes)
      /\ \A p \in 1..Len(sizes): sizes[p] \in 1..BucketSize
  BY <1>1, LenProperties, ElementOfSeq
<1>3. fill.param \in Nat /\ fill.param > 0 /\ fill.offset \in Nat
  BY DEF TypeOK
<1>4. \A r \in Ranks: meta[r] \in Metas /\ coming[r] \in Metas /\ send[r] \in Halves
  BY DEF TypeOK, Metas
<1>5. \A r \in Ranks: recv(r) \in Halves /\ recv(r) # send[r]
  BY <1>4, HalfFacts DEF recv
<1> QED
  BY <1>1, <1>2, <1>3, <1>4, <1>5, BucketAssumption

LEMMA BucketFacts ==
  ASSUME NEW md \in Metas
  PROVE  /\ md.bucket \in Seq([param: Nat, offset: Nat]) /\ Len(md.bucket) \in Nat
         /\ DOMAIN md.bucket = 1..Len(md.bucket) /\ md.last \in BOOLEAN
         /\ \A i \in 1..Len(md.bucket):
              md.bucket[i].param \in Nat /\ md.bucket[i].offset \in Nat
<1>1. md.bucket \in Seq([param: Nat, offset: Nat]) /\ md.last \in BOOLEAN
  BY DEF Metas, Bucket
<1>2. /\ Len(md.bucket) \in Nat /\ DOMAIN md.bucket = 1..Len(md.bucket)
      /\ \A i \in 1..Len(md.bucket): md.bucket[i] \in [param: Nat, offset: Nat]
  BY <1>1, LenProperties, ElementOfSeq
<1> QED
  BY <1>1, <1>2

\* A bucket that is carried tells where it ends.
LEMMA CarriesNext ==
  ASSUME NEW list, NEW b, NEW md \in Metas, NEW first \in Nat, NEW next,
         Carries(list, b, md, first, next)
  PROVE  md.bucket[1].param + Len(md.bucket) = next /\ next \in Nat
<1>1. Len(md.bucket) \in Nat /\ DOMAIN md.bucket = 1..Len(md.bucket)
  BY BucketFacts
<1>2. 1 \in DOMAIN md.bucket /\ md.bucket[1].param = first + 1 - 1
  BY <1>1 DEF Carries
<1> QED
  BY <1>1, <1>2 DEF Carries

\* What is loaded from a memory that carries a bucket.
LEMMA CarriesExtract ==
  ASSUME NEW b, NEW md \in Metas, NEW first \in Nat, NEW next,
         Carries(sizes, b, md, first, next)
  PROVE  LET x == Extract(b, md.bucket)
         IN  /\ x \in Seq(Nat) /\ Len(x) = Len(md.bucket) /\ Len(x) > 0
             /\ \A j \in 1..Len(x): x[j] = first + j - 1
<1> DEFINE x == Extract(b, md.bucket)
<1>1. /\ Len(md.bucket) \in Nat /\ DOMAIN md.bucket = 1..Len(md.bucket)
      /\ md.bucket \in Bucket
  BY BucketFacts DEF Bucket
<1>2. x \in Seq(Nat)
  BY <1>1, ExtractType
<1>3. DOMAIN x = 1..Len(md.bucket)
  BY <1>1 DEF Extract
<1>4. Len(x) = Len(md.bucket)
  BY <1>1, <1>2, <1>3, LenProperties
<1>5. ASSUME NEW j \in 1..Len(md.bucket) PROVE x[j] = first + j - 1
  BY <1>1, <1>5 DEF Extract, Carries, HoldsEntry
<1> QED
  BY <1>2, <1>4, <1>5 DEF Carries

\* Another bucket that begins where the loaded ones end.
LEMMA AppendInOrder ==
  ASSUME NEW s \in Seq(Seq(Nat)), InOrder(s), NEW x \in Seq(Nat), Len(x) > 0,
         x[1] = After(s), \A j \in 1..Len(x): x[j] = x[1] + j - 1
  PROVE  InOrder(Append(s, x)) /\ After(Append(s, x)) = x[1] + Len(x)
<1> DEFINE t == Append(s, x)
<1>1. Len(s) \in Nat /\ DOMAIN s = 1..Len(s) /\ Len(x) \in Nat /\ DOMAIN x = 1..Len(x)
  BY LenProperties
<1>2. /\ Len(t) = Len(s) + 1 /\ t[Len(s) + 1] = x /\ \A i \in 1..Len(s): t[i] = s[i]
      /\ DOMAIN t = 1..Len(s) + 1
  BY AppendProperties, <1>1
<1>3. t # <<>>
  BY SMTT(30), <1>1, <1>2
<1>4. After(t) = x[1] + Len(x)
  BY <1>2, <1>3 DEF After
<1> HIDE DEF t
<1>5. ASSUME NEW i \in DOMAIN t
      PROVE  /\ Len(t[i]) > 0
             /\ t[i][1] = IF i = 1 THEN 1 ELSE t[i - 1][1] + Len(t[i - 1])
             /\ \A j \in DOMAIN t[i]: t[i][j] = t[i][1] + j - 1
  <2>1. CASE i \in 1..Len(s)
    <3>0. i # 1 => i - 1 \in 1..Len(s)
      BY <2>1, <1>1
    <3>1. t[i] = s[i] /\ (i # 1 => t[i - 1] = s[i - 1])
      BY <2>1, <3>0, <1>2
    <3>2. /\ Len(s[i]) > 0
          /\ s[i][1] = IF i = 1 THEN 1 ELSE s[i - 1][1] + Len(s[i - 1])
          /\ \A j \in DOMAIN s[i]: s[i][j] = s[i][1] + j - 1
      BY <2>1, <1>1 DEF InOrder
    <3> QED
      BY <3>1, <3>2
  <2>2. CASE i = Len(s) + 1
    <3>1. t[i] = x
      BY <2>2, <1>2
    <3>2. CASE i = 1
      BY <3>1, <3>2, <2>2, <1>1 DEF After
    <3>3. CASE i # 1
      <4>1. i - 1 = Len(s) /\ i - 1 \in 1..Len(s) /\ s # <<>>
        BY <3>3, <2>2, <1>1
      <4> QED
        BY <4>1, <3>1, <3>3, <1>1, <1>2 DEF After
    <3> QED
      BY <3>2, <3>3
  <2> QED
    BY <1>1, <1>2, <1>5, <2>1, <2>2
<1> QED
  BY <1>4, <1>5 DEF InOrder, t

LEMMA InitContent == Init => ContentInv
<1> SUFFICES ASSUME Init PROVE ContentInv
  OBVIOUS
<1>1. TypeOK
  BY InitType
<1>2. NoMetadata.bucket = <<>> /\ Len(<<>>) = 0
  BY DEF NoMetadata, Metadata
<1>3. meta[0].bucket = <<>> /\ fill.param = 1 /\ fill.offset = 0 /\ pc[0] = "fill"
  BY <1>2, RankFacts DEF Init
<1>4. Source
  BY <1>1, <1>2, <1>3, ContentTypes, BucketAssumption, NoMessage DEF Source, Packs
<1>5. ASSUME NEW r \in Receivers PROVE Carried(r) /\ InOrder(loaded[r])
  <2>1. r \in Ranks /\ r # 0 /\ r - 1 \in Ranks
    BY RankFacts
  <2>2. pc[r] = "first" /\ loaded[r] = <<>> /\ inbox[r] = <<>>
    BY <2>1 DEF Init
  <2>3. After(loaded[r]) = 1 /\ AfterMeta(r) = 1 /\ AfterComing(r) = 1
    BY <2>2 DEF After, AfterMeta, AfterComing
  <2>4. AfterOffered(r - 1) = 1
    <3>1. CASE r - 1 = 0
      BY <3>1, <1>2, <1>3 DEF AfterOffered
    <3>2. CASE r - 1 # 0
      BY <3>2, <2>1 DEF AfterOffered, AfterMeta, Init
    <3> QED
      BY <3>1, <3>2
  <2>5. Carried(r)
    BY <2>2, <2>3, <2>4
       DEF Carried, PassesOn, Reads, Offered, Fresh, Reading, Ended
  <2>6. InOrder(loaded[r])
    BY <2>2, NoMessage DEF InOrder
  <2> QED
    BY <2>5, <2>6
<1> QED
  BY <1>4, <1>5 DEF ContentInv

\* Putting one more parameter behind those that are packed.
LEMMA PutPacks ==
  ASSUME TypeOK, NEW b \in [Cells -> Nat], NEW bucket \in Bucket,
         NEW p \in 1..Len(sizes), NEW o \in Nat, Len(bucket) < p,
         Packs(sizes, b, bucket, p, o), o + sizes[p] <= BucketSize
  PROVE  Packs(sizes, Put(b, p, sizes[p], o), Append(bucket, Entry(p, o)), p + 1,
               o + sizes[p])
<1> DEFINE n == sizes[p]
           t == Append(bucket, Entry(p, o))
           d == Put(b, p, n, o)
<1>1. /\ Len(sizes) \in Nat /\ p \in Nat /\ n \in Nat /\ n > 0 /\ BucketSize \in Nat
      /\ \A q \in 1..Len(sizes): sizes[q] \in Nat
  BY ContentTypes, BucketAssumption
<1>2. /\ bucket \in Seq([param: Nat, offset: Nat]) /\ Len(bucket) \in Nat
      /\ DOMAIN bucket = 1..Len(bucket)
      /\ \A i \in 1..Len(bucket): bucket[i].param \in Nat /\ bucket[i].offset \in Nat
  <2>1. bucket \in Seq([param: Nat, offset: Nat])
    BY DEF Bucket
  <2>2. /\ Len(bucket) \in Nat /\ DOMAIN bucket = 1..Len(bucket)
        /\ \A i \in 1..Len(bucket): bucket[i] \in [param: Nat, offset: Nat]
    BY <2>1, LenProperties, ElementOfSeq
  <2> QED
    BY <2>1, <2>2
<1>3. /\ Len(t) = Len(bucket) + 1 /\ DOMAIN t = 1..Len(bucket) + 1
      /\ t[Len(bucket) + 1] = Entry(p, o) /\ \A i \in 1..Len(bucket): t[i] = bucket[i]
  <2>1. Entry(p, o) \in [param: Nat, offset: Nat]
    BY <1>1 DEF Entry
  <2> QED
    BY <2>1, <1>2, AppendProperties
<1>4. \A c \in Cells: d[c] = IF c \in o..o + n - 1 THEN p ELSE b[c]
  BY DEF Put
<1> HIDE DEF n, t, d
<1>5. ASSUME NEW i \in 1..Len(bucket)
      PROVE  /\ t[i].param = (p + 1) - Len(t) + i - 1
             /\ t[i].offset + sizes[t[i].param] <= o + n
             /\ HoldsEntry(sizes, d, t[i])
  <2> DEFINE e == bucket[i]
  <2>1. t[i] = e /\ e.param \in Nat /\ e.offset \in Nat
    BY <1>2, <1>3
  <2>2. e.param = p - Len(bucket) + i - 1 /\ e.offset + sizes[e.param] <= o
        /\ HoldsEntry(sizes, b, e)
    BY <1>2 DEF Packs
  <2>3. e.param \in 1..Len(sizes)
    BY SMTT(30), <1>1, <1>2, <2>1, <2>2
  <2>4. sizes[e.param] \in Nat
    BY <1>1, <2>3
  <2>5. ASSUME NEW c \in e.offset..e.offset + sizes[e.param] - 1 PROVE d[c] = e.param
    <3>1. c \in Int /\ c < o /\ 0 <= c
      BY SMTT(30), <2>1, <2>2, <2>4
    <3>2. o <= BucketSize
      BY <1>1 DEF n
    <3>3. c \in Cells /\ c \notin o..o + n - 1
      BY <3>1, <3>2, <1>1 DEF Cells
    <3> QED
      BY <3>3, <2>2, <1>4 DEF HoldsEntry
  <2>6. HoldsEntry(sizes, d, e)
    BY <2>5 DEF HoldsEntry
  <2> HIDE DEF e
  <2>7. e.param = (p + 1) - Len(t) + i - 1
    BY <2>1, <2>2, <1>1, <1>2, <1>3
  <2>8. e.offset + sizes[e.param] <= o + n
    BY <2>1, <2>2, <2>4, <1>1
  <2> QED
    BY <2>1, <2>6, <2>7, <2>8
<1>6. /\ t[Len(t)].param = (p + 1) - Len(t) + Len(t) - 1
      /\ t[Len(t)].offset + sizes[t[Len(t)].param] <= o + n
      /\ HoldsEntry(sizes, d, t[Len(t)])
  <2>1. t[Len(t)].param = p /\ t[Len(t)].offset = o
    BY <1>2, <1>3 DEF Entry
  <2>2. \A c \in o..o + n - 1: c \in Cells
    BY <1>1 DEF Cells, n
  <2>3. \A c \in o..o + n - 1: d[c] = p
    BY <2>2, <1>4
  <2> QED
    BY <2>1, <2>3, <1>1, <1>2, <1>3 DEF HoldsEntry, n
<1>7. \A i \in DOMAIN t: i \in 1..Len(bucket) \/ i = Len(t)
  BY <1>2, <1>3
<1>8. Packs(sizes, d, t, p + 1, o + n)
  BY <1>5, <1>6, <1>7 DEF Packs
<1> QED
  BY <1>8 DEF t, d, n

\* What is packed is carried once it is offered.
LEMMA PacksCarries ==
  ASSUME NEW list, NEW b, NEW md \in Metas, NEW next \in Nat, NEW top,
         Packs(list, b, md.bucket, next, top), Len(md.bucket) > 0,
         md.last => next = Len(list) + 1
  PROVE  Carries(list, b, md, next - Len(md.bucket), next)
<1>1. Len(md.bucket) \in Nat
  BY BucketFacts
<1> QED
  BY <1>1 DEF Packs, Carries

LEMMA FillContent == ASSUME IInv, ContentInv, Fill PROVE ContentInv'
<1> DEFINE p == fill.param
           n == sizes[p]
           b == buf[0][send[0]]
           bucket == meta[0].bucket
<1>1. TypeOK /\ Source /\ 0 \in Ranks
  BY RankFacts DEF IInv, ContentInv
<1>2. /\ pc[0] = "fill" /\ p \in 1..Len(sizes) /\ fill.offset + n <= BucketSize
      /\ fill.offset \in Nat /\ n \in Nat /\ n > 0 /\ p \in Nat /\ Len(sizes) \in Nat
      /\ BucketSize \in Nat
  BY <1>1, ContentTypes, BucketAssumption DEF Fill, Exhausted, Fits
<1>3. b \in [Cells -> Nat] /\ bucket \in Bucket /\ send[0] \in Halves
  BY <1>1 DEF TypeOK
<1>4. /\ fill'.param = p + 1 /\ fill'.offset = fill.offset + n
      /\ meta'[0].bucket = Append(bucket, Entry(p, fill.offset))
      /\ \A r \in Ranks: r # 0 => meta'[r] = meta[r]
      /\ buf'[0][send[0]] = Put(b, p, n, fill.offset)
      /\ \A h \in Halves: h # send[0] => buf'[0][h] = buf[0][h]
      /\ \A r \in Ranks: r # 0 => buf'[r] = buf[r]
      /\ UNCHANGED <<sizes, pc, send, coming, inbox, read, loaded>>
  BY <1>1, <1>3 DEF Fill, TypeOK
<1>5. Packs(sizes, buf'[0][send[0]], meta'[0].bucket, p + 1, fill.offset + n)
  BY <1>1, <1>2, <1>3, <1>4, PutPacks DEF Source
<1>6. /\ Len(meta'[0].bucket) = Len(bucket) + 1 /\ Len(bucket) \in Nat
      /\ meta'[0].bucket # <<>>
  <2>1. Entry(p, fill.offset) \in [param: Nat, offset: Nat]
    BY <1>2 DEF Entry
  <2>2. bucket \in Seq([param: Nat, offset: Nat])
    BY <1>3 DEF Bucket
  <2>3. /\ Len(Append(bucket, Entry(p, fill.offset))) = Len(bucket) + 1
        /\ Len(bucket) \in Nat
    BY <2>1, <2>2, AppendProperties, LenProperties
  <2>4. Len(<<>>) = 0
    OBVIOUS
  <2> HIDE DEF bucket
  <2> QED
    BY <2>3, <2>4, <1>4
<1> HIDE DEF p, n, b, bucket
<1>7. Source'
  <2>1. Len(bucket) < p
    BY <1>1 DEF Source, bucket, p
  <2>2. fill'.param <= Len(sizes) + 1 /\ fill'.offset <= BucketSize
    BY <1>2, <1>4
  <2>3. Len(meta'[0].bucket) < fill'.param
    BY <2>1, <1>2, <1>4, <1>6
  <2>4. pc'[0] = "fill" /\ sizes' = sizes /\ send' = send
    BY <1>2, <1>4
  <2>5. Packs(sizes', buf'[0][send'[0]], meta'[0].bucket, fill'.param, fill'.offset)
    BY <2>4, <1>4, <1>5
  <2> QED
    BY <2>2, <2>3, <2>4, <2>5, <1>6 DEF Source
<1>8. AfterOffered(0)' = AfterOffered(0)
  <2>1. AfterOffered(0)' = fill'.param - Len(meta'[0].bucket)
    BY <1>2, <1>4 DEF AfterOffered
  <2>2. AfterOffered(0) = p - Len(bucket)
    BY <1>2 DEF AfterOffered, p, bucket
  <2>3. fill'.param = p + 1 /\ p \in Nat
    BY <1>2, <1>4
  <2> QED
    BY <2>1, <2>2, <2>3, <1>6
<1>9. LentBuf(0)' = LentBuf(0)
  <2>1. LentHalf(0) = recv(0) /\ LentHalf(0)' = recv(0) /\ recv(0) \in Halves
        /\ recv(0) # send[0]
    BY <1>1, <1>2, <1>4, ContentTypes DEF LentHalf, recv
  <2> QED
    BY <2>1, <1>4 DEF LentBuf
<1>10. ASSUME NEW r \in Receivers PROVE Carried(r)' /\ InOrder(loaded[r])'
  <2>1. r \in Ranks /\ r # 0 /\ r - 1 \in Ranks
    BY RankFacts
  <2>2. LentBuf(r - 1)' = LentBuf(r - 1) /\ AfterOffered(r - 1)' = AfterOffered(r - 1)
    <3>1. CASE r - 1 = 0
      BY <3>1, <1>8, <1>9
    <3>2. CASE r - 1 # 0
      BY <3>2, <2>1, <1>4 DEF LentBuf, LentHalf, AfterOffered, AfterMeta
    <3> QED
      BY <3>1, <3>2
  <2>3. Carried(r)'
    BY <2>1, <2>2, <1>4, RankFrame DEF ContentInv
  <2> QED
    BY <2>3, <1>4 DEF ContentInv
<1> QED
  BY <1>7, <1>10 DEF ContentInv

\* A new offer of rank r: what is in the lent buffer begins where the next rank
\* has got to.
LEMMA OfferedNext ==
  ASSUME IInv, ContentInv, NEW r \in 0..LastRank - 1, Acknowledged(r)
  PROVE  inbox[r + 1] = <<>> /\ read[r + 1] = NoRead
         /\ AfterOffered(r) = AfterComing(r + 1)
<1>1. r + 1 \in Receivers /\ (r + 1) - 1 = r
  BY RankFacts
<1>2. inbox[r + 1] = <<>> /\ read[r + 1] = NoRead
  BY AckIdle DEF IInv, Links, Idle
<1>3. Offered(r + 1)
  BY <1>1 DEF ContentInv, Carried
<1> QED
  BY <1>1, <1>2, <1>3 DEF Offered

\* The receiver of an offer that was idle, before and after it.
LEMMA OfferCarried ==
  ASSUME TypeOK, NEW r \in Receivers, Carried(r), UNCHANGED sizes, read[r] = NoRead,
         inbox[r] = <<>>, NEW msg, inbox'[r] = <<msg>>,
         pc'[r] = pc[r], send'[r] = send[r], meta'[r] = meta[r], coming'[r] = coming[r],
         read'[r] = read[r], loaded'[r] = loaded[r], buf'[r] = buf[r],
         Carries(sizes, LentBuf(r - 1)', msg.md, AfterOffered(r - 1), AfterOffered(r - 1)')
  PROVE  Carried(r)'
<1>1. AfterMeta(r)' = AfterMeta(r) /\ AfterComing(r)' = AfterComing(r)
  BY DEF AfterMeta, AfterComing
<1>2. (Fresh(r)' <=> Fresh(r)) /\ (Reading(r)' <=> Reading(r)) /\ (Ended(r)' <=> Ended(r))
  BY DEF Fresh, Reading, Ended
<1>3. Target(r)' = Target(r)
  BY DEF Target, recv
<1>4. PassesOn(r)'
  BY <1>1, <1>2 DEF Carried, PassesOn
<1>5. Reads(r)'
  BY <1>1, <1>2, <1>3 DEF Carried, Reads
<1>6. AfterOffered(r - 1) = AfterComing(r)
  BY DEF Carried, Offered
<1>7. inbox'[r] # <<>> /\ inbox'[r][1] = msg
  OBVIOUS
<1>8. Offered(r)'
  BY <1>1, <1>6, <1>7 DEF Offered
<1> QED
  BY <1>1, <1>2, <1>4, <1>5, <1>8 DEF Carried

\* The offers of the trainer: SendBucket and SendLast.
LEMMA TrainerOffers ==
  ASSUME IInv, ContentInv, NEW last \in BOOLEAN, pc[0] = "fill",
         meta[0].bucket # <<>>, last => fill.param = Len(sizes) + 1,
         Acknowledged(0), Offer(0, send[0], [meta[0] EXCEPT !.last = last]),
         UNCHANGED <<sizes, buf, coming, read, loaded>>,
         LentHalf(0)' = send[0], AfterOffered(0)' = fill.param,
         \A q \in Ranks: q # 0 => send'[q] = send[q] /\ meta'[q] = meta[q] /\ pc'[q] = pc[q]
  PROVE  \A r \in Receivers: Carried(r)' /\ InOrder(loaded[r])'
<1> DEFINE md == [meta[0] EXCEPT !.last = last]
           msg == [key |-> open'[0], half |-> send[0], md |-> md]
<1>1. /\ 0 \in 0..LastRank - 1 /\ 0 \in Ranks /\ 0 + 1 = 1 /\ 1 \in Receivers /\ 1 - 1 = 0
      /\ 1 \in Ranks
  BY RankFacts
<1>2. TypeOK /\ Source /\ Links
  BY DEF IInv, ContentInv
<1>3. md \in Metas /\ md.last = last /\ md.bucket = meta[0].bucket
  <2>1. meta[0] \in Metas
    BY <1>1, <1>2 DEF TypeOK, Metas
  <2> QED
    BY <2>1 DEF Metas
<1>4. /\ inbox'[1] = <<msg>> /\ msg.md = md
      /\ \A q \in Ranks: q # 1 => inbox'[q] = inbox[q]
  <2>1. /\ inbox'[0 + 1] = << [key |-> open'[0], half |-> send[0], md |-> md] >>
        /\ \A q \in Ranks: q # 0 + 1 => inbox'[q] = inbox[q]
    BY <1>1, <1>2, OfferSends
  <2> QED
    BY <1>1, <2>1
<1> HIDE DEF md, msg
<1>5. Len(md.bucket) \in Nat /\ Len(md.bucket) > 0 /\ fill.param \in Nat
  <2>1. md.bucket \in Seq([param: Nat, offset: Nat]) /\ Len(md.bucket) \in Nat
    BY <1>3, BucketFacts
  <2>2. md.bucket # <<>>
    BY <1>3
  <2> QED
    BY <2>1, <2>2, <1>2, ContentTypes
<1>6. Carries(sizes, buf[0][send[0]], md, fill.param - Len(md.bucket), fill.param)
  BY <1>2, <1>3, <1>5, PacksCarries DEF Source
<1>7. AfterOffered(0) = fill.param - Len(md.bucket)
  BY <1>3 DEF AfterOffered
<1>8. LentBuf(0)' = buf[0][send[0]]
  BY DEF LentBuf
<1>9. inbox[1] = <<>> /\ read[1] = NoRead
  BY <1>1, OfferedNext
<1>10. Carried(1)'
  <2>1. Carries(sizes, LentBuf(0)', msg.md, AfterOffered(0), AfterOffered(0)')
    BY <1>4, <1>6, <1>7, <1>8
  <2> QED
    BY <2>1, <1>1, <1>2, <1>4, <1>9, OfferCarried DEF ContentInv
<1>11. ASSUME NEW r \in Receivers, r # 1 PROVE Carried(r)'
  <2>0. r \in Nat /\ r \in Ranks /\ r - 1 \in Ranks /\ r # 0
    BY RankFacts
  <2>1. r - 1 # 0
    BY <2>0, <1>11
  <2>2. LentBuf(r - 1)' = LentBuf(r - 1) /\ AfterOffered(r - 1)' = AfterOffered(r - 1)
    BY <2>0, <2>1 DEF LentBuf, LentHalf, AfterOffered, AfterMeta
  <2> QED
    BY <2>0, <2>2, <1>4, <1>11, RankFrame DEF ContentInv
<1> QED
  BY <1>10, <1>11 DEF ContentInv

LEMMA SendBucketContent == ASSUME IInv, ContentInv, SendBucket PROVE ContentInv'
<1>1. TypeOK /\ Source /\ 0 \in Ranks
  BY RankFacts DEF IInv, ContentInv
<1>2. /\ pc[0] = "fill" /\ Acknowledged(0)
      /\ Offer(0, send[0], [meta[0] EXCEPT !.last = FALSE])
      /\ UNCHANGED <<sizes, pc, buf, coming, read, loaded>>
      /\ meta'[0] = NoMetadata /\ fill'.param = fill.param /\ fill'.offset = 0
      /\ send'[0] = recv(0)
      /\ \A q \in Ranks: q # 0 => send'[q] = send[q] /\ meta'[q] = meta[q] /\ pc'[q] = pc[q]
  BY <1>1 DEF SendBucket, TypeOK
<1>3. /\ fill.param \in 1..Len(sizes) /\ fill.offset > 0 /\ fill.param \in Nat
      /\ Len(sizes) \in Nat
  <2>1. fill.param \in 1..Len(sizes)
    BY <1>1, ContentTypes DEF SendBucket, Exhausted
  <2> QED
    BY <2>1, <1>1, ContentTypes, BucketAssumption DEF SendBucket, Fits
<1>4. meta[0].bucket # <<>>
  BY <1>1, <1>3 DEF Source
<1>5. NoMetadata.bucket = <<>> /\ Len(<<>>) = 0
  BY DEF NoMetadata, Metadata
<1>6. LentHalf(0)' = send[0]
  <2>1. send[0] \in Halves
    BY <1>1 DEF TypeOK
  <2>2. 1 - (1 - send[0]) = send[0]
    BY <2>1 DEF Halves
  <2> QED
    BY <1>2, <2>2 DEF LentHalf, recv
<1>7. AfterOffered(0)' = fill.param
  BY <1>2, <1>3, <1>5 DEF AfterOffered
<1>8. \A r \in Receivers: Carried(r)' /\ InOrder(loaded[r])'
  BY <1>2, <1>4, <1>6, <1>7, TrainerOffers
<1>9. Source'
  <2>1. Packs(sizes', buf'[0][send'[0]], meta'[0].bucket, fill'.param, fill'.offset)
    BY <1>2, <1>5, NoMessage DEF Packs
  <2>2. Len(meta'[0].bucket) = 0
    BY <1>2, <1>5
  <2> QED
    BY <2>1, <2>2, <1>2, <1>3, BucketAssumption DEF Source
<1> QED
  BY <1>8, <1>9 DEF ContentInv

LEMMA SendLastContent == ASSUME IInv, ContentInv, SendLast PROVE ContentInv'
<1>1. TypeOK /\ Source /\ 0 \in Ranks
  BY RankFacts DEF IInv, ContentInv
<1>2. /\ pc[0] = "fill" /\ pc'[0] = "drain" /\ Acknowledged(0)
      /\ Offer(0, send[0], [meta[0] EXCEPT !.last = TRUE])
      /\ UNCHANGED <<sizes, send, buf, fill, meta, coming, read, loaded>>
      /\ \A q \in Ranks: q # 0 => send'[q] = send[q] /\ meta'[q] = meta[q] /\ pc'[q] = pc[q]
  BY <1>1 DEF SendLast, TypeOK
<1>3. fill.param = Len(sizes) + 1
  BY <1>1, ContentTypes DEF SendLast, Exhausted, Source
<1>4. meta[0].bucket # <<>>
  BY <1>1, <1>3, ContentTypes DEF Source
<1>5. LentHalf(0)' = send[0] /\ AfterOffered(0)' = fill.param
  BY <1>2 DEF LentHalf, AfterOffered
<1>6. \A r \in Receivers: Carried(r)' /\ InOrder(loaded[r])'
  BY <1>2, <1>3, <1>4, <1>5, TrainerOffers
<1>7. Source'
  BY <1>1, <1>2, <1>3 DEF Source
<1> QED
  BY <1>6, <1>7 DEF ContentInv

\* The places are numbers of parameters.
LEMMA AfterNat ==
  ASSUME NEW s \in Seq(Seq(Nat)), InOrder(s)
  PROVE  After(s) \in Nat
<1>1. CASE s = <<>>
  BY <1>1 DEF After
<1>2. CASE s # <<>>
  <2>1. Len(s) \in 1..Len(s) /\ DOMAIN s = 1..Len(s)
    BY <1>2, LenProperties, EmptySeq
  <2>2. s[Len(s)] \in Seq(Nat) /\ Len(s[Len(s)]) > 0
    BY <2>1, ElementOfSeq DEF InOrder
  <2>3. Len(s[Len(s)]) \in Nat /\ s[Len(s)][1] \in Nat
    <3>1. Len(s[Len(s)]) \in Nat
      BY <2>2, LenProperties
    <3>2. 1 \in 1..Len(s[Len(s)])
      BY <2>2, <3>1
    <3> QED
      BY <2>2, <3>1, <3>2, ElementOfSeq
  <2> QED
    BY <1>2, <2>3 DEF After
<1> QED
  BY <1>1, <1>2

LEMMA PlaceNat ==
  ASSUME IInv, ContentInv, NEW r \in Receivers
  PROVE  After(loaded[r]) \in Nat /\ AfterMeta(r) \in Nat /\ AfterComing(r) \in Nat
<1>1. r \in Ranks /\ TypeOK
  BY RankFacts DEF IInv
<1>2. Carried(r) /\ InOrder(loaded[r]) /\ loaded[r] \in Seq(Seq(Nat))
  BY <1>1 DEF ContentInv, TypeOK
<1>3. After(loaded[r]) \in Nat
  BY <1>2, AfterNat
<1>4. meta[r] \in Metas /\ coming[r] \in Metas
  BY <1>1, ContentTypes
<1>5. AfterMeta(r) \in Nat
  <2>1. CASE Fresh(r)
    BY <2>1, <1>2, <1>3, <1>4, CarriesNext DEF Carried, PassesOn
  <2>2. CASE ~Fresh(r)
    BY <2>2, <1>2, <1>3 DEF Carried, PassesOn
  <2> QED
    BY <2>1, <2>2
<1>6. AfterComing(r) \in Nat
  <2>1. CASE Reading(r)
    BY <2>1, <1>2, <1>4, <1>5, CarriesNext DEF Carried, Reads
  <2>2. CASE ~Reading(r)
    BY <2>2, <1>2, <1>5 DEF Carried, Reads
  <2> QED
    BY <2>1, <2>2
<1> QED
  BY <1>3, <1>5, <1>6

\* A step of rank r that leaves what it lends and has offered as it is.
LEMMA OtherFrame ==
  ASSUME ContentInv, NEW r \in Receivers, NEW q \in Receivers, q # r,
         UNCHANGED <<sizes, fill>>, inbox'[q] = inbox[q],
         \A p \in Ranks: p # r => /\ pc'[p] = pc[p] /\ send'[p] = send[p]
                                  /\ meta'[p] = meta[p] /\ coming'[p] = coming[p]
                                  /\ read'[p] = read[p] /\ loaded'[p] = loaded[p]
                                  /\ buf'[p] = buf[p],
         LentBuf(r)' = LentBuf(r), AfterOffered(r)' = AfterOffered(r)
  PROVE  Carried(q)' /\ InOrder(loaded[q])'
<1>1. q \in Ranks /\ q - 1 \in Ranks /\ r # 0 /\ 0 \in Ranks
  BY RankFacts
<1>2. LentBuf(q - 1)' = LentBuf(q - 1)
  <2>1. CASE q - 1 = r
    BY <2>1
  <2>2. CASE q - 1 # r
    BY <2>2, <1>1 DEF LentBuf, LentHalf, recv
  <2> QED
    BY <2>1, <2>2
<1>3. AfterOffered(q - 1)' = AfterOffered(q - 1)
  <2>1. CASE q - 1 = r
    BY <2>1
  <2>2. CASE q - 1 # r
    BY <2>2, <1>1 DEF AfterOffered, AfterMeta
  <2> QED
    BY <2>1, <2>2
<1>4. Carried(q) /\ InOrder(loaded[q])
  BY DEF ContentInv
<1>5. Carried(q)'
  BY <1>1, <1>2, <1>3, <1>4, RankFrame
<1> QED
  BY <1>1, <1>4, <1>5

LEMMA SourceFrame ==
  ASSUME Source, UNCHANGED <<sizes, fill>>, meta'[0] = meta[0], buf'[0] = buf[0],
         send'[0] = send[0], pc'[0] # "fill" => pc[0] # "fill"
  PROVE  Source'
BY DEF Source

\* The transfer of what was offered begins: ReadFirst and ReadNext.
LEMMA BeginReadContent ==
  ASSUME IInv, ContentInv, NEW r \in Receivers, BeginRead(r),
         UNCHANGED <<sizes, send, buf, fill, meta, loaded, open, notes>>,
         NEW place, pc' = [pc EXCEPT ![r] = place],
         \/ pc[r] = "first" /\ place = "read first"
         \/ pc[r] = "read next" /\ place = "yield"
  PROVE  ContentInv'
<1>1. r \in Ranks /\ r # 0 /\ r - 1 \in Ranks /\ 0 \in Ranks /\ r - 1 # r
  BY RankFacts
<1>2. TypeOK /\ Source /\ Carried(r) /\ InOrder(loaded[r])
  BY DEF IInv, ContentInv
<1>3. /\ pc'[r] = place /\ inbox[r] # <<>> /\ coming'[r] = Head(inbox[r]).md
      /\ read'[r] # NoRead
      /\ \A q \in Ranks: q # r => /\ pc'[q] = pc[q] /\ inbox'[q] = inbox[q]
                                  /\ coming'[q] = coming[q] /\ read'[q] = read[q]
  <2>1. [busy |-> TRUE, half |-> Head(inbox[r]).half, key |-> Head(inbox[r]).key] # NoRead
    BY DEF NoRead
  <2> QED
    BY <1>1, <1>2, <2>1 DEF BeginRead, TypeOK
<1>4. \A q \in Ranks: LentHalf(q)' = LentHalf(q)
  BY <1>1, <1>3 DEF LentHalf, recv
<1>5. inbox[r] = <<Head(inbox[r])>> /\ inbox'[r] = <<>>
  BY <1>1, <1>4, BeginReadLink
<1>6. inbox[r][1].md = coming'[r]
  <2>1. inbox[r][1] = Head(inbox[r])
    BY <1>5, Singleton
  <2> QED
    BY <2>1, <1>3
<1>7. coming'[r] \in Metas
  BY <1>1, <1>2, BeginReadType
<1>8. Carries(sizes, LentBuf(r - 1), coming'[r], AfterComing(r), AfterOffered(r - 1))
  BY <1>2, <1>3, <1>6 DEF Carried, Offered
<1>9. AfterMeta(r)' = AfterMeta(r) /\ AfterComing(r) = AfterMeta(r)
  <2>1. AfterMeta(r)' = AfterMeta(r)
    BY <1>3 DEF AfterMeta
  <2>2. AfterComing(r) = AfterMeta(r)
    BY <1>2 DEF Carried, Reads, Reading
  <2> QED
    BY <2>1, <2>2
<1>10. AfterMeta(r) \in Nat
  BY PlaceNat
<1>11. AfterComing(r)' = AfterOffered(r - 1)
  <2>2. coming'[r].bucket[1].param + Len(coming'[r].bucket) = AfterOffered(r - 1)
    BY <1>7, <1>8, <1>9, <1>10, CarriesNext
  <2> QED
    BY <2>2, <1>3 DEF AfterComing
<1>12. AfterOffered(r - 1)' = AfterOffered(r - 1) /\ LentBuf(r - 1)' = LentBuf(r - 1)
  BY <1>1, <1>3, <1>4 DEF AfterOffered, AfterMeta, LentBuf
<1>13. PassesOn(r)'
  <2>1. PassesOn(r) /\ (Fresh(r)' <=> Fresh(r))
    BY <1>2, <1>3 DEF Carried, Fresh
  <2> QED
    BY <2>1, <1>9 DEF PassesOn
<1>14. Reads(r)'
  <2>1. Target(r)' = LentBuf(r - 1)
    BY <1>3, <1>12 DEF Target
  <2>2. Reading(r)'
    BY <1>3 DEF Reading
  <2> QED
    BY <2>1, <2>2, <1>8, <1>9, <1>11 DEF Reads
<1>15. Offered(r)'
  BY <1>5, <1>11, <1>12 DEF Offered
<1>16. Carried(r)'
  BY <1>3, <1>13, <1>14, <1>15 DEF Carried, Ended
<1>17. LentBuf(r)' = LentBuf(r) /\ AfterOffered(r)' = AfterOffered(r)
  BY <1>1, <1>4, <1>9 DEF LentBuf, AfterOffered
<1>18. \A q \in Receivers: q # r => Carried(q)' /\ InOrder(loaded[q])'
  BY ZenonT(30), <1>1, <1>3, <1>17, OtherFrame, RankFacts
<1>19. Source'
  BY <1>1, <1>2, <1>3, SourceFrame
<1> QED
  BY <1>2, <1>16, <1>18, <1>19 DEF ContentInv

LEMMA AdvanceContent ==
  ASSUME IInv, ContentInv, NEW r \in Receivers, Advance(r)
  PROVE  ContentInv'
<1>1. /\ r \in Ranks /\ r # 0 /\ r - 1 \in Ranks /\ 0 \in Ranks /\ r - 1 # r
      /\ r \in Nat /\ r + 1 # r
  BY RankFacts
<1>2. TypeOK /\ Source /\ Carried(r) /\ InOrder(loaded[r])
  BY DEF IInv, ContentInv
<1>3. /\ pc[r] \in {"read first", "read"} /\ Acknowledged(r) /\ read[r] = NoRead
      /\ UNCHANGED <<sizes, buf, fill, coming, read, loaded>>
      /\ pc'[r] = (IF coming[r].last THEN "yield last" ELSE "read next")
      /\ send'[r] = recv(r) /\ meta'[r] = coming[r]
      /\ \A q \in Ranks: q # r => pc'[q] = pc[q] /\ send'[q] = send[q] /\ meta'[q] = meta[q]
  BY <1>1, <1>2, ReadCases DEF Advance, TypeOK
<1>4. coming[r] \in Metas /\ AfterMeta(r) \in Nat
  BY <1>1, <1>2, ContentTypes, PlaceNat
<1>5. Carries(sizes, buf[r][recv(r)], coming[r], AfterMeta(r), AfterComing(r))
  BY <1>2, <1>3 DEF Carried, Reads, Reading, Target
<1>6. coming[r].bucket[1].param + Len(coming[r].bucket) = AfterComing(r)
  BY <1>4, <1>5, CarriesNext
<1>7. AfterMeta(r)' = AfterComing(r) /\ AfterComing(r)' = AfterComing(r)
  BY <1>3, <1>6 DEF AfterMeta, AfterComing
<1>8. /\ After(loaded[r]) = AfterMeta(r) /\ Fresh(r)' /\ ~Reading(r)'
  BY <1>2, <1>3 DEF Carried, PassesOn, Fresh, Reading
<1>9. PassesOn(r)'
  BY <1>3, <1>5, <1>7, <1>8 DEF PassesOn
<1>10. Reads(r)'
  BY <1>7, <1>8 DEF Reads
<1>11. inbox'[r] = inbox[r] /\ \A q \in Ranks: q # r + 1 => inbox'[q] = inbox[q]
  <2>1. CASE r = LastRank
    BY <2>1 DEF Advance, NoOffer
  <2>2. CASE r # LastRank
    <3>1. r \in 0..LastRank - 1 /\ Offer(r, recv(r), coming[r]) /\ Links
      BY <2>2, <1>1, RankFacts DEF Advance, IInv
    <3>2. \A q \in Ranks: q # r + 1 => inbox'[q] = inbox[q]
      BY <3>1, <1>2, <1>3, OfferSends
    <3> QED
      BY <3>2, <1>1
  <2> QED
    BY <2>1, <2>2
<1>12. LentBuf(r - 1)' = LentBuf(r - 1) /\ AfterOffered(r - 1)' = AfterOffered(r - 1)
  BY <1>1, <1>3 DEF LentBuf, LentHalf, recv, AfterOffered, AfterMeta
<1>13. Offered(r)'
  BY <1>2, <1>3, <1>7, <1>11, <1>12 DEF Carried, Offered
<1>14. Ended(r)' => AfterMeta(r)' = Len(sizes) + 1
  BY <1>3, <1>5, <1>7 DEF Ended, Carries
<1>15. Carried(r)'
  BY <1>3, <1>9, <1>10, <1>13, <1>14 DEF Carried
<1>16. ASSUME NEW q \in Receivers, q # r, q # r + 1
       PROVE  Carried(q)' /\ InOrder(loaded[q])'
  <2>1. q \in Ranks /\ q - 1 \in Ranks /\ q - 1 # r
    BY <1>16, RankFacts DEF Receivers
  <2>2. LentBuf(q - 1)' = LentBuf(q - 1) /\ AfterOffered(q - 1)' = AfterOffered(q - 1)
    BY <2>1, <1>1, <1>3 DEF LentBuf, LentHalf, recv, AfterOffered, AfterMeta
  <2>3. Carried(q) /\ InOrder(loaded[q])
    BY DEF ContentInv
  <2>4. Carried(q)'
    BY <2>1, <2>2, <2>3, <1>3, <1>11, <1>16, RankFrame
  <2> QED
    BY <2>3, <2>4, <1>3
<1>17. ASSUME r + 1 \in Receivers PROVE Carried(r + 1)' /\ InOrder(loaded[r + 1])'
  <2> DEFINE msg == [key |-> open'[r], half |-> recv(r), md |-> coming[r]]
  <2>1. r \in 0..LastRank - 1 /\ r # LastRank /\ r + 1 \in Ranks /\ (r + 1) - 1 = r
    BY <1>17, <1>1, RankFacts DEF Receivers, LastRank
  <2>2. Offer(r, recv(r), coming[r]) /\ Links
    BY <2>1 DEF Advance, IInv
  <2>3. inbox'[r + 1] = <<msg>>
    <3>1. TypeOK /\ Acknowledged(r)
      BY <1>2, <1>3
    <3> QED
      BY <2>1, <2>2, <3>1, OfferSends
  <2>4. inbox[r + 1] = <<>> /\ read[r + 1] = NoRead
    BY <2>1, <1>3, OfferedNext
  <2>5. msg.md = coming[r]
    OBVIOUS
  <2> HIDE DEF msg
  <2>6. LentBuf(r)' = buf[r][recv(r)]
    BY <1>1, <1>3 DEF LentBuf, LentHalf
  <2>7. AfterOffered(r) = AfterMeta(r) /\ AfterOffered(r)' = AfterComing(r)
    BY <1>1, <1>7 DEF AfterOffered
  <2>8. Carries(sizes, LentBuf(r)', msg.md, AfterOffered(r), AfterOffered(r)')
    BY <1>5, <2>5, <2>6, <2>7
  <2>9. Carried(r + 1) /\ InOrder(loaded[r + 1]) /\ r + 1 # r
    BY <1>17, <1>1, RankFacts DEF ContentInv
  <2>10. Carried(r + 1)'
    <3> DEFINE q == r + 1
    <3>1. q \in Receivers /\ q \in Ranks /\ q # r /\ q - 1 = r
      BY <1>17, <2>1, <2>9
    <3>2. Carries(sizes, LentBuf(q - 1)', msg.md, AfterOffered(q - 1), AfterOffered(q - 1)')
      BY <2>8, <3>1
    <3>3. Carried(q) /\ inbox[q] = <<>> /\ read[q] = NoRead /\ inbox'[q] = <<msg>>
      BY <2>3, <2>4, <2>9
    <3> HIDE DEF q
    <3>4. Carried(q)'
      BY <3>1, <3>2, <3>3, <1>2, <1>3, OfferCarried
    <3> QED
      BY <3>4 DEF q
  <2> QED
    BY <2>9, <2>10, <1>3
<1>18. Source'
  BY <1>1, <1>2, <1>3, SourceFrame
<1> QED
  BY <1>2, <1>3, <1>15, <1>16, <1>17, <1>18 DEF ContentInv

LEMMA YieldContent ==
  ASSUME IInv, ContentInv, NEW r \in Receivers, Yield(r)
  PROVE  ContentInv'
<1> DEFINE x == Extract(buf[r][send[r]], meta[r].bucket)
<1>1. /\ r \in Ranks /\ r # 0 /\ r - 1 \in Ranks /\ 0 \in Ranks /\ r - 1 # r
      /\ r \in Nat /\ r + 1 # r
  BY RankFacts
<1>2. TypeOK /\ Source /\ Carried(r) /\ InOrder(loaded[r])
  BY DEF IInv, ContentInv
<1>3. /\ pc[r] \in {"yield", "yield last"} /\ loaded'[r] = Append(loaded[r], x)
      /\ pc'[r] = (IF pc[r] = "yield" THEN "read" ELSE "drain")
      /\ UNCHANGED <<sizes, send, buf, fill, meta, coming, inbox, read>>
      /\ \A q \in Ranks: q # r => pc'[q] = pc[q] /\ loaded'[q] = loaded[q]
  BY <1>1, <1>2 DEF Yield, TypeOK
<1>4. /\ meta[r] \in Metas /\ After(loaded[r]) \in Nat
      /\ loaded[r] \in Seq(Seq(Nat))
  BY <1>1, <1>2, ContentTypes, PlaceNat DEF TypeOK
<1>5. Carries(sizes, buf[r][send[r]], meta[r], After(loaded[r]), AfterMeta(r))
  BY <1>2, <1>3 DEF Carried, PassesOn, Fresh
<1>6. /\ x \in Seq(Nat) /\ Len(x) = Len(meta[r].bucket) /\ Len(x) > 0 /\ Len(x) \in Nat
      /\ \A j \in 1..Len(x): x[j] = After(loaded[r]) + j - 1
  <2>1. /\ x \in Seq(Nat) /\ Len(x) = Len(meta[r].bucket) /\ Len(x) > 0
        /\ \A j \in 1..Len(x): x[j] = After(loaded[r]) + j - 1
    BY <1>4, <1>5, CarriesExtract
  <2>2. Len(x) \in Nat
    BY <2>1, LenProperties
  <2> QED
    BY <2>1, <2>2
<1> HIDE DEF x
<1>7. x[1] = After(loaded[r]) /\ \A j \in 1..Len(x): x[j] = x[1] + j - 1
  <2>1. 1 \in 1..Len(x)
    BY <1>6
  <2>2. x[1] = After(loaded[r])
    BY <2>1, <1>4, <1>6
  <2> QED
    BY <2>2, <1>6
<1>8. InOrder(loaded'[r]) /\ After(loaded'[r]) = x[1] + Len(x)
  BY <1>2, <1>3, <1>4, <1>6, <1>7, AppendInOrder
<1>9. AfterMeta(r)' = AfterMeta(r) /\ AfterComing(r)' = AfterComing(r)
  BY <1>3 DEF AfterMeta, AfterComing
<1>10. After(loaded'[r]) = AfterMeta(r)
  BY <1>5, <1>6, <1>7, <1>8 DEF Carries
<1>11. LentBuf(r - 1)' = LentBuf(r - 1) /\ AfterOffered(r - 1)' = AfterOffered(r - 1)
  BY <1>1, <1>3 DEF LentBuf, LentHalf, recv, AfterOffered, AfterMeta
<1>12. PassesOn(r)'
  BY <1>3, <1>9, <1>10 DEF PassesOn, Fresh
<1>13. Reads(r)'
  <2>1. (Reading(r)' <=> Reading(r)) /\ Target(r)' = Target(r)
    BY <1>3, <1>11 DEF Reading, Target, recv
  <2> QED
    BY <2>1, <1>2, <1>3, <1>9 DEF Carried, Reads
<1>14. Offered(r)'
  BY <1>2, <1>3, <1>9, <1>11 DEF Carried, Offered
<1>15. Carried(r)'
  BY <1>2, <1>3, <1>9, <1>12, <1>13, <1>14 DEF Carried, Ended
<1>16. LentBuf(r)' = LentBuf(r) /\ AfterOffered(r)' = AfterOffered(r)
  BY <1>1, <1>3, <1>9 DEF LentBuf, LentHalf, AfterOffered
<1>17. \A q \in Receivers: q # r => Carried(q)' /\ InOrder(loaded[q])'
  BY <1>1, <1>3, <1>16, OtherFrame, RankFacts
<1>18. Source'
  BY <1>1, <1>2, <1>3, SourceFrame
<1> QED
  BY <1>8, <1>15, <1>17, <1>18 DEF ContentInv

LEMMA DrainContent ==
  ASSUME IInv, ContentInv, NEW r \in Ranks, Drain(r)
  PROVE  ContentInv'
<1>1. TypeOK /\ Source /\ 0 \in Ranks
  BY RankFacts DEF IInv, ContentInv
<1>2. /\ pc[r] = "drain" /\ pc'[r] = "done"
      /\ UNCHANGED <<sizes, send, buf, fill, meta, coming, inbox, read, loaded>>
      /\ \A q \in Ranks: q # r => pc'[q] = pc[q]
  BY <1>1 DEF Drain, TypeOK
<1>3. \A q \in Ranks: /\ LentBuf(q)' = LentBuf(q) /\ AfterMeta(q)' = AfterMeta(q)
                      /\ AfterComing(q)' = AfterComing(q) /\ AfterOffered(q)' = AfterOffered(q)
  BY <1>1, <1>2 DEF LentBuf, LentHalf, recv, AfterMeta, AfterComing, AfterOffered
<1>4. \A q \in Ranks: /\ Fresh(q)' <=> Fresh(q)
                      /\ Reading(q)' <=> Reading(q)
                      /\ Ended(q)' <=> Ended(q)
  BY <1>2 DEF Fresh, Reading, Ended
<1>5. ASSUME NEW q \in Receivers PROVE Carried(q)' /\ InOrder(loaded[q])'
  <2>1. q \in Ranks /\ q - 1 \in Ranks /\ Carried(q) /\ InOrder(loaded[q])
    BY RankFacts DEF ContentInv
  <2>2. PassesOn(q)'
    BY <2>1, <1>2, <1>3, <1>4 DEF Carried, PassesOn
  <2>3. Reads(q)'
    <3>1. Target(q)' = Target(q)
      BY <2>1, <1>2, <1>3 DEF Target, recv
    <3> QED
      BY <2>1, <3>1, <1>2, <1>3, <1>4 DEF Carried, Reads
  <2>4. Offered(q)'
    BY <2>1, <1>2, <1>3 DEF Carried, Offered
  <2> QED
    BY <2>1, <2>2, <2>3, <2>4, <1>2, <1>3, <1>4 DEF Carried
<1>6. Source'
  BY <1>1, <1>2, SourceFrame
<1> QED
  BY <1>5, <1>6 DEF ContentInv

\* The transfer copies a buffer whole: what was carried by the owner's memory is
\* carried by the reader's.
LEMMA EndReadContent ==
  ASSUME IInv, ContentInv, NEW r \in Receivers, EndRead(r)
  PROVE  ContentInv'
<1>1. /\ r \in Ranks /\ r # 0 /\ r - 1 \in Ranks /\ 0 \in Ranks /\ r - 1 # r
      /\ r - 1 \in 0..LastRank - 1 /\ (r - 1) + 1 = r
  BY RankFacts
<1>2. TypeOK /\ Source /\ Carried(r) /\ InOrder(loaded[r])
  BY DEF IInv, ContentInv
<1>3. read[r] # NoRead
  BY <1>1, <1>2, ReadCases DEF EndRead
<1>4. read[r].half = LentHalf(r - 1) /\ inbox[r] = <<>> /\ Reading(r)
  <2>1. /\ read[r] = [busy |-> TRUE, half |-> LentHalf(r - 1), key |-> open[r - 1]]
        /\ inbox[r] = <<>>
    BY <1>1, <1>3 DEF IInv, Links, Link, Idle
  <2>2. read[r].half = LentHalf(r - 1)
    BY <2>1
  <2> QED
    BY <2>1, <2>2, <1>3 DEF IInv, Places, Reading
<1>5. send[r] \in Halves /\ recv(r) \in Halves /\ recv(r) # send[r]
  BY <1>1, <1>2, ContentTypes
<1>6. /\ buf'[r][recv(r)] = LentBuf(r - 1) /\ buf'[r][send[r]] = buf[r][send[r]]
      /\ read'[r] = NoRead
      /\ UNCHANGED <<sizes, pc, send, fill, meta, coming, inbox, loaded>>
      /\ \A q \in Ranks: q # r => buf'[q] = buf[q] /\ read'[q] = read[q]
  BY <1>1, <1>2, <1>4, <1>5 DEF EndRead, TypeOK, LentBuf
<1>7. AfterMeta(r)' = AfterMeta(r) /\ AfterComing(r)' = AfterComing(r)
  BY <1>6 DEF AfterMeta, AfterComing
<1>8. LentHalf(r) = send[r] /\ LentHalf(r)' = send[r]
  BY <1>1, <1>6 DEF LentHalf
<1>9. LentBuf(r)' = LentBuf(r) /\ AfterOffered(r)' = AfterOffered(r)
  BY <1>1, <1>6, <1>7, <1>8 DEF LentBuf, AfterOffered
<1>10. LentBuf(r - 1)' = LentBuf(r - 1) /\ AfterOffered(r - 1)' = AfterOffered(r - 1)
  BY <1>1, <1>6 DEF LentBuf, LentHalf, recv, AfterOffered, AfterMeta
<1>11. PassesOn(r)'
  BY <1>2, <1>6, <1>7 DEF Carried, PassesOn, Fresh
<1>12. Reads(r)'
  <2>1. Target(r) = LentBuf(r - 1) /\ Target(r)' = LentBuf(r - 1)
    BY <1>3, <1>6 DEF Target, recv
  <2>2. Reading(r)'
    BY <1>4, <1>6 DEF Reading
  <2> QED
    BY <2>1, <2>2, <1>2, <1>4, <1>6, <1>7 DEF Carried, Reads
<1>13. Offered(r)'
  BY <1>2, <1>6, <1>7, <1>10 DEF Carried, Offered
<1>14. Carried(r)'
  BY <1>2, <1>6, <1>7, <1>11, <1>12, <1>13 DEF Carried, Ended
<1>15. \A q \in Receivers: q # r => Carried(q)' /\ InOrder(loaded[q])'
  BY <1>1, <1>6, <1>9, OtherFrame, RankFacts
<1>16. Source'
  BY <1>1, <1>2, <1>6, SourceFrame
<1> QED
  BY <1>2, <1>6, <1>14, <1>15, <1>16 DEF ContentInv

LEMMA NextContent == IInv /\ ContentInv /\ [Next]_vars => ContentInv'
<1> SUFFICES ASSUME IInv, ContentInv, [Next]_vars PROVE ContentInv'
  OBVIOUS
<1>1. CASE \E r \in Receivers: ReadFirst(r)
  BY <1>1, BeginReadContent DEF ReadFirst
<1>2. CASE \E r \in Receivers: ReadNext(r)
  BY <1>2, BeginReadContent DEF ReadNext
<1>3. CASE UNCHANGED vars
  BY ZenonT(30), <1>3 DEF vars, ContentInv, Source, Carried, PassesOn, Reads, Offered, Fresh,
              Reading, Ended, Target, LentBuf, LentHalf, recv, AfterMeta, AfterComing,
              AfterOffered
<1> QED
  BY <1>1, <1>2, <1>3, FillContent, SendBucketContent, SendLastContent,
     AdvanceContent, YieldContent, DrainContent, EndReadContent, RankFacts
     DEF Next, Trainer, SendEnds, Rollout, Finished

-----------------------------------------------------------------------------
(***************************************************************************)
(* The chain and WeightStream. The buckets are told from each other by     *)
(* their first parameters: the bucket that a rank loads next begins where  *)
(* its loaded ones end (ContentInv), and so does one bucket of the plan.   *)
(***************************************************************************)
\* The buckets hold the parameters before After(buckets), each in one place.
Partition(buckets) ==
  /\ InOrder(buckets) /\ Stream!Once(buckets)
  /\ \A k \in DOMAIN buckets: \A j \in DOMAIN buckets[k]:
       buckets[k][j] \in 1..After(buckets) - 1
  /\ \A p \in 1..After(buckets) - 1:
       \E k \in DOMAIN buckets: \E j \in DOMAIN buckets[k]: buckets[k][j] = p

\* The metadata is that of one of the buckets.
Cut(buckets, md) == \E k \in DOMAIN buckets: buckets[k] = Params(md.bucket)

Cuts(r) ==
  /\ Fresh(r) => Cut(sent, meta[r])
  /\ Reading(r) => Cut(sent, coming[r])
  /\ inbox[r] # <<>> => Cut(sent, inbox[r][1].md)

LoadsSent(r) ==
  /\ Len(loaded[r]) <= Len(sent)
  /\ \A k \in DOMAIN loaded[r]: loaded[r][k] = sent[k]

SentInv ==
  /\ Partition(sent) /\ After(sent) = AfterOffered(0)
  /\ \A r \in Receivers: Cuts(r) /\ LoadsSent(r)

LEMMA AppendPartition ==
  ASSUME NEW s \in Seq(Seq(Nat)), Partition(s), NEW x \in Seq(Nat), Len(x) > 0,
         \A j \in 1..Len(x): x[j] = After(s) + j - 1
  PROVE  Partition(Append(s, x)) /\ After(Append(s, x)) = After(s) + Len(x)
<1> DEFINE t == Append(s, x)
<1>1. Len(s) \in Nat /\ DOMAIN s = 1..Len(s) /\ Len(x) \in Nat /\ DOMAIN x = 1..Len(x)
  BY LenProperties
<1>2. /\ Len(t) = Len(s) + 1 /\ t[Len(s) + 1] = x /\ \A i \in 1..Len(s): t[i] = s[i]
      /\ DOMAIN t = 1..Len(s) + 1
  BY AppendProperties, <1>1
<1>3. After(s) \in Nat
  BY AfterNat DEF Partition
<1>4. x[1] = After(s) /\ \A j \in 1..Len(x): x[j] = x[1] + j - 1
  <2>1. 1 \in 1..Len(x)
    BY <1>1
  <2>2. x[1] = After(s)
    BY <2>1, <1>3
  <2> QED
    BY <2>2
<1>5. InOrder(t) /\ After(t) = After(s) + Len(x)
  BY <1>4, AppendInOrder DEF Partition
<1> HIDE DEF t
<1>6. ASSUME NEW k \in 1..Len(s), NEW j \in DOMAIN t[k]
      PROVE  t[k] = s[k] /\ t[k][j] \in 1..After(s) - 1
  BY <1>1, <1>2, <1>6 DEF Partition
<1>7. ASSUME NEW j \in DOMAIN t[Len(s) + 1]
      PROVE  j \in 1..Len(x) /\ t[Len(s) + 1][j] = After(s) + j - 1
  BY <1>1, <1>2, <1>7
<1>8. ASSUME NEW k \in DOMAIN t, NEW j \in DOMAIN t[k]
      PROVE  t[k][j] \in 1..After(t) - 1
  <2>1. CASE k \in 1..Len(s)
    BY <2>1, <1>1, <1>3, <1>5, <1>6
  <2>2. CASE k = Len(s) + 1
    <3>1. After(s) > 0
      <4>1. CASE s = <<>>
        BY <4>1 DEF After
      <4>2. CASE s # <<>>
        <5>1. Len(s) \in 1..Len(s)
          BY <4>2, <1>1, EmptySeq
        <5>2. s[Len(s)] \in Seq(Nat) /\ Len(s[Len(s)]) > 0
          BY <5>1, <1>1, ElementOfSeq DEF Partition, InOrder
        <5>3. Len(s[Len(s)]) \in Nat /\ 1 \in DOMAIN s[Len(s)]
          BY <5>2, LenProperties
        <5>4. s[Len(s)][1] \in 1..After(s) - 1
          BY <5>1, <5>3, <1>1 DEF Partition
        <5> QED
          BY <5>4, <1>3
      <4> QED
        BY <4>1, <4>2
    <3> QED
      BY <2>2, <3>1, <1>1, <1>3, <1>5, <1>7, <1>8
  <2> QED
    BY <2>1, <2>2, <1>1, <1>2
<1>9. ASSUME NEW p \in 1..After(t) - 1
      PROVE  \E k \in DOMAIN t: \E j \in DOMAIN t[k]: t[k][j] = p
  <2>1. CASE p \in 1..After(s) - 1
    <3>1. PICK k \in DOMAIN s: \E j \in DOMAIN s[k]: s[k][j] = p
      BY <2>1 DEF Partition
    <3>2. k \in DOMAIN t /\ t[k] = s[k]
      BY <1>1, <1>2
    <3> QED
      BY <3>1, <3>2
  <2>2. CASE p \notin 1..After(s) - 1
    <3>1. p - After(s) + 1 \in 1..Len(x) /\ p \in Nat
      BY <2>2, <1>1, <1>3, <1>5
    <3>2. x[p - After(s) + 1] = p
      BY <3>1, <1>3
    <3>3. Len(s) + 1 \in DOMAIN t /\ t[Len(s) + 1] = x /\ p - After(s) + 1 \in DOMAIN x
      BY <3>1, <1>1, <1>2
    <3> QED
      BY <3>2, <3>3
  <2> QED
    BY <2>1, <2>2
<1>10. ASSUME NEW i \in DOMAIN t, NEW k \in DOMAIN t, NEW j \in DOMAIN t[i],
              NEW l \in DOMAIN t[k], t[i][j] = t[k][l]
       PROVE  i = k /\ j = l
  <2>1. i \in 1..Len(s) + 1 /\ k \in 1..Len(s) + 1
    BY <1>2
  <2>2. CASE i \in 1..Len(s) /\ k \in 1..Len(s)
    <3>1. t[i] = s[i] /\ t[k] = s[k]
      BY <2>2, <1>2
    <3> QED
      BY <2>2, <3>1, <1>1, <1>10 DEF Partition, Stream!Once
  <2>3. CASE i = Len(s) + 1 /\ k = Len(s) + 1
    BY <2>3, <1>1, <1>3, <1>7, <1>10
  <2>4. CASE i = Len(s) + 1 /\ k \in 1..Len(s)
    BY <2>4, <1>1, <1>3, <1>6, <1>7, <1>10
  <2>5. CASE k = Len(s) + 1 /\ i \in 1..Len(s)
    BY <2>5, <1>1, <1>3, <1>6, <1>7, <1>10
  <2> QED
    BY <2>1, <2>2, <2>3, <2>4, <2>5, <1>1
<1>11. Stream!Once(t)
  BY <1>10 DEF Stream!Once
<1> QED
  BY <1>5, <1>8, <1>9, <1>11 DEF Partition, t


\* What a history keeps: it is the old one, or has one bucket more.
Grows ==
  \/ sent' = sent
  \/ \E x \in Seq(Nat): sent' = Append(sent, x)

LEMMA SentGrows ==
  ASSUME TypeOK, Grows
  PROVE  /\ \A k \in DOMAIN sent: k \in DOMAIN sent' /\ sent'[k] = sent[k]
         /\ Len(sent) <= Len(sent') /\ Len(sent) \in Nat /\ Len(sent') \in Nat
         /\ DOMAIN sent = 1..Len(sent)
         /\ \A md: Cut(sent, md) => Cut(sent', md)
<1>1. sent \in Seq(Seq(Nat)) /\ Len(sent) \in Nat /\ DOMAIN sent = 1..Len(sent)
  BY LenProperties DEF TypeOK
<1>2. /\ \A k \in DOMAIN sent: k \in DOMAIN sent' /\ sent'[k] = sent[k]
      /\ Len(sent) <= Len(sent') /\ Len(sent') \in Nat
  <2>1. CASE sent' = sent
    BY <2>1, <1>1
  <2>2. ASSUME NEW x \in Seq(Nat), sent' = Append(sent, x)
        PROVE  /\ \A k \in DOMAIN sent: k \in DOMAIN sent' /\ sent'[k] = sent[k]
               /\ Len(sent) <= Len(sent') /\ Len(sent') \in Nat
    <3>1. /\ Len(Append(sent, x)) = Len(sent) + 1
          /\ DOMAIN Append(sent, x) = 1..Len(sent) + 1
          /\ \A k \in 1..Len(sent): Append(sent, x)[k] = sent[k]
      BY <1>1, AppendProperties
    <3> QED
      BY <2>2, <3>1, <1>1
  <2> QED
    BY <2>1, <2>2 DEF Grows
<1> QED
  BY <1>1, <1>2 DEF Cut

\* A rank that loads no bucket.
LEMMA CutsFrame ==
  ASSUME TypeOK, Grows, NEW q \in Receivers, Cuts(q), LoadsSent(q),
         Fresh(q)' => (Fresh(q) /\ meta'[q] = meta[q]) \/ Cut(sent', meta'[q]),
         Reading(q)' => (Reading(q) /\ coming'[q] = coming[q]) \/ Cut(sent', coming'[q]),
         \/ inbox'[q] = inbox[q] \/ inbox'[q] = <<>>
         \/ Cut(sent', inbox'[q][1].md),
         loaded'[q] = loaded[q]
  PROVE  Cuts(q)' /\ LoadsSent(q)'
<1>1. Cuts(q)'
  BY SentGrows DEF Cuts
<1>2. LoadsSent(q)'
  <2>1. loaded[q] \in Seq(Seq(Nat))
    BY RankFacts DEF TypeOK
  <2>2. Len(loaded[q]) \in Nat /\ DOMAIN loaded[q] = 1..Len(loaded[q])
    BY <2>1, LenProperties
  <2>3. \A k \in DOMAIN loaded[q]: k \in DOMAIN sent
    BY <2>2, SentGrows DEF LoadsSent
  <2>4. Len(loaded[q]) <= Len(sent')
    BY <2>2, SentGrows DEF LoadsSent
  <2> QED
    BY <2>2, <2>3, <2>4, SentGrows DEF LoadsSent
<1> QED
  BY <1>1, <1>2

\* The bucket that rank r is about to load is the next one of the plan.
LEMMA NextCut ==
  ASSUME IInv, ContentInv, SentInv, NEW r \in Receivers, Fresh(r)
  PROVE  /\ Len(loaded[r]) + 1 \in DOMAIN sent
         /\ sent[Len(loaded[r]) + 1] = Params(meta[r].bucket)
<1> DEFINE n == Len(loaded[r])
           first == After(loaded[r])
<1>1. /\ TypeOK /\ r \in Ranks /\ PassesOn(r) /\ InOrder(loaded[r])
      /\ Partition(sent) /\ LoadsSent(r) /\ first \in Nat
  BY RankFacts, PlaceNat DEF IInv, ContentInv, Carried, SentInv
<1>2. /\ loaded[r] \in Seq(Seq(Nat)) /\ sent \in Seq(Seq(Nat)) /\ meta[r] \in Metas
      /\ meta[r].bucket \in Bucket
  BY <1>1 DEF TypeOK, Metas
<1>3. /\ n \in Nat /\ DOMAIN loaded[r] = 1..n /\ n <= Len(sent)
      /\ Len(sent) \in Nat /\ DOMAIN sent = 1..Len(sent)
  BY <1>1, <1>2, LenProperties DEF LoadsSent
<1>4. PICK k \in DOMAIN sent: sent[k] = Params(meta[r].bucket)
  BY DEF SentInv, Cuts, Cut
<1>5. sent[k][1] = first /\ 1 \in DOMAIN sent[k]
  <2>1. Carries(sizes, buf[r][send[r]], meta[r], first, AfterMeta(r))
    BY <1>1 DEF PassesOn
  <2>2. Len(meta[r].bucket) > 0 /\ Len(meta[r].bucket) \in Nat
        /\ DOMAIN meta[r].bucket = 1..Len(meta[r].bucket)
    BY <2>1, <1>2, BucketFacts DEF Carries
  <2>3. meta[r].bucket[1].param = first
    <3>1. 1 \in DOMAIN meta[r].bucket
      BY <2>2
    <3>2. meta[r].bucket[1].param = first + 1 - 1
      BY <2>1, <3>1 DEF Carries
    <3> QED
      BY <3>2, <1>1
  <2>4. /\ Params(meta[r].bucket)[1] = first /\ Params(meta[r].bucket) \in Seq(Nat)
        /\ Len(Params(meta[r].bucket)) = Len(meta[r].bucket)
    <3>1. 1 \in 1..Len(meta[r].bucket)
      BY <2>2
    <3> QED
      BY <3>1, <2>3, <1>2, ParamsType
  <2>5. 1 \in DOMAIN Params(meta[r].bucket)
    BY <2>2, <2>4, LenProperties
  <2> QED
    BY <2>4, <2>5, <1>4
<1>6. CASE n < Len(sent)
  <2>1. n + 1 \in DOMAIN sent /\ 1 \in DOMAIN sent[n + 1]
    <3>1. n + 1 \in DOMAIN sent
      BY <1>3, <1>6
    <3>2. Len(sent[n + 1]) > 0 /\ sent[n + 1] \in Seq(Nat)
      BY <3>1, <1>1, <1>2, <1>3, ElementOfSeq DEF Partition, InOrder
    <3> QED
      BY <3>1, <3>2, LenProperties
  <2>2. sent[n + 1][1] = first
    <3>1. CASE n = 0
      <4>1. loaded[r] = <<>>
        BY <3>1, <1>2, EmptySeq
      <4> QED
        BY <3>1, <4>1, <2>1, <1>1 DEF Partition, InOrder, After
    <3>2. CASE n # 0
      <4>1. n \in DOMAIN loaded[r] /\ loaded[r] # <<>> /\ loaded[r][n] = sent[n]
        <5>1. n \in DOMAIN loaded[r]
          BY <3>2, <1>3
        <5> QED
          BY <5>1, <1>1, NoMessage DEF LoadsSent
      <4>2. sent[n + 1][1] = sent[n][1] + Len(sent[n])
        <5>1. n + 1 # 1 /\ (n + 1) - 1 = n
          BY <3>2, <1>3
        <5> QED
          BY <5>1, <2>1, <1>1 DEF Partition, InOrder
      <4> QED
        BY <4>1, <4>2 DEF After
    <3> QED
      BY <3>1, <3>2
  <2>3. k = n + 1
    BY <1>1, <1>5, <2>1, <2>2 DEF Partition, Stream!Once
  <2> QED
    BY <2>1, <2>3, <1>4
<1>7. CASE n = Len(sent)
  <2>1. n # 0
    <3>1. k \in 1..Len(sent)
      BY <1>3
    <3> QED
      BY <3>1, <1>3, <1>7
  <2>2. loaded[r] # <<>> /\ sent # <<>> /\ loaded[r][n] = sent[n]
    <3>1. n \in DOMAIN loaded[r] /\ k \in DOMAIN sent
      BY <2>1, <1>3
    <3> QED
      BY <3>1, <1>1, NoMessage DEF LoadsSent
  <2>3. After(sent) = first
    BY <2>2, <1>7 DEF After
  <2>4. sent[k][1] \in 1..After(sent) - 1
    BY <1>1, <1>4, <1>5 DEF Partition
  <2> QED
    BY <2>3, <2>4, <1>1, <1>5
<1> QED
  BY <1>3, <1>6, <1>7

LEMMA InitSent == Init => SentInv
<1> SUFFICES ASSUME Init PROVE SentInv
  OBVIOUS
<1>1. sent = <<>> /\ After(sent) = 1 /\ DOMAIN sent = {} /\ Len(sent) = 0
  BY NoMessage DEF Init, After
<1>2. Partition(sent)
  BY <1>1 DEF Partition, InOrder, Stream!Once
<1>3. AfterOffered(0) = 1
  <2>1. pc[0] = "fill" /\ meta[0].bucket = <<>> /\ fill.param = 1
    BY RankFacts DEF Init, NoMetadata, Metadata
  <2> QED
    BY <2>1 DEF AfterOffered
<1>4. ASSUME NEW r \in Receivers PROVE Cuts(r) /\ LoadsSent(r)
  <2>1. pc[r] = "first" /\ inbox[r] = <<>> /\ loaded[r] = <<>>
    BY RankFacts DEF Init
  <2> QED
    BY <1>1, <2>1, NoMessage DEF Cuts, Fresh, Reading, LoadsSent
<1> QED
  BY <1>1, <1>2, <1>3, <1>4 DEF SentInv

\* Rank 0 offers the bucket it has filled: the next one of the plan.
LEMMA SendSent ==
  ASSUME IInv, ContentInv, SentInv, SendBucket \/ SendLast
  PROVE  SentInv' /\ Stream!Pack
<1> DEFINE bucket == meta[0].bucket
           x == Params(bucket)
<1>1. TypeOK /\ Source /\ 0 \in Ranks /\ Links /\ 0 \in 0..LastRank - 1
  BY RankFacts DEF IInv, ContentInv
<1>2. /\ pc[0] = "fill" /\ Acknowledged(0) /\ sent' = Append(sent, x)
      /\ UNCHANGED <<sizes, coming, loaded>> /\ fill'.param = fill.param
      /\ \A q \in Ranks: q # 0 => meta'[q] = meta[q] /\ pc'[q] = pc[q]
      /\ \E last \in BOOLEAN: Offer(0, send[0], [meta[0] EXCEPT !.last = last])
  BY <1>1 DEF SendBucket, SendLast, TypeOK
<1>3. /\ sent \in Seq(Seq(Nat)) /\ bucket \in Bucket /\ meta[0] \in Metas
      /\ fill.param \in Nat /\ Len(sizes) \in Nat /\ DOMAIN sizes = 1..Len(sizes)
      /\ fill.param <= Len(sizes) + 1
  BY <1>1, ContentTypes DEF TypeOK, Source
<1>4. /\ Len(bucket) \in Nat /\ DOMAIN bucket = 1..Len(bucket)
      /\ x \in Seq(Nat) /\ Len(x) = Len(bucket)
      /\ \A i \in 1..Len(x): x[i] = bucket[i].param
  BY <1>3, BucketFacts, ParamsType
<1>5. bucket # <<>> /\ Len(x) > 0
  <2>1. CASE bucket = <<>>
    <3>1. fill.offset = 0 /\ fill.param \in 1..Len(sizes)
      BY <1>1, <1>3, <2>1, ContentTypes DEF Source
    <3>2. sizes[fill.param] <= BucketSize /\ sizes[fill.param] \in Nat
      BY <1>1, <3>1, ContentTypes
    <3> QED
      BY <1>3, <3>1, <3>2 DEF SendBucket, SendLast, Fits, Exhausted
  <2>2. CASE bucket # <<>>
    BY <2>2, <1>3, <1>4, EmptySeq DEF Bucket
  <2> QED
    BY <2>1, <2>2
<1>6. After(sent) = fill.param - Len(bucket) /\ Partition(sent)
  BY <1>2 DEF SentInv, AfterOffered
<1>7. \A j \in 1..Len(x): x[j] = After(sent) + j - 1
  BY <1>1, <1>4, <1>6 DEF Source, Packs
<1> HIDE DEF x, bucket
<1>8. Partition(sent') /\ After(sent') = fill.param
  BY <1>2, <1>3, <1>4, <1>5, <1>6, <1>7, AppendPartition
<1>9. AfterOffered(0)' = fill.param
  <2>1. CASE SendBucket
    <3>1. pc'[0] = "fill" /\ meta'[0].bucket = <<>> /\ Len(<<>>) = 0
      BY <2>1, <1>1 DEF SendBucket, TypeOK, NoMetadata, Metadata
    <3> QED
      BY <3>1, <1>2, <1>3 DEF AfterOffered
  <2>2. CASE SendLast
    <3>1. pc'[0] = "drain"
      BY <2>2, <1>1 DEF SendLast, TypeOK
    <3> QED
      BY <3>1, <1>2 DEF AfterOffered
  <2> QED
    BY <2>1, <2>2
<1>10. Grows /\ Cut(sent', meta[0])
  <2>1. Grows
    BY <1>2, <1>4 DEF Grows
  <2>2. sent'[Len(sent) + 1] = x /\ Len(sent) + 1 \in DOMAIN sent'
    BY <1>2, <1>3, <1>4, AppendProperties, LenProperties
  <2> QED
    BY <2>1, <2>2 DEF Cut, x, bucket
<1>11. ASSUME NEW q \in Receivers PROVE Cuts(q)' /\ LoadsSent(q)'
  <2>1. q \in Ranks /\ q # 0 /\ Cuts(q) /\ LoadsSent(q)
    BY RankFacts DEF SentInv
  <2>2. (Fresh(q)' <=> Fresh(q)) /\ (Reading(q)' <=> Reading(q)) /\ meta'[q] = meta[q]
    BY <2>1, <1>2 DEF Fresh, Reading
  <2>3. inbox'[q] = inbox[q] \/ Cut(sent', inbox'[q][1].md)
    <3>1. PICK last \in BOOLEAN: Offer(0, send[0], [meta[0] EXCEPT !.last = last])
      BY <1>2
    <3>2. /\ inbox'[0 + 1] = << [key |-> open'[0], half |-> send[0],
                                 md |-> [meta[0] EXCEPT !.last = last]] >>
          /\ \A p \in Ranks: p # 0 + 1 => inbox'[p] = inbox[p]
      BY <1>1, <1>2, <3>1, OfferSends
    <3>3. CASE q = 0 + 1
      <4>1. inbox'[q][1].md = [meta[0] EXCEPT !.last = last]
        BY <3>2, <3>3, Singleton
      <4>2. inbox'[q][1].md.bucket = meta[0].bucket
        BY <4>1, <1>3 DEF Metas
      <4> QED
        BY <4>2, <1>10 DEF Cut
    <3> QED
      BY <2>1, <3>2, <3>3
  <2> QED
    BY <1>1, <1>2, <1>10, <2>1, <2>2, <2>3, CutsFrame
<1>12. SentInv'
  BY <1>8, <1>9, <1>11 DEF SentInv
<1>13. Stream!Pack
  <2>1. x \in Seq(DOMAIN sizes)
    <3>1. \A j \in 1..Len(x): x[j] \in DOMAIN sizes
      <4> SUFFICES ASSUME NEW j \in 1..Len(x) PROVE x[j] \in DOMAIN sizes
        OBVIOUS
      <4>1. Len(sent) + 1 \in DOMAIN sent' /\ sent'[Len(sent) + 1] = x /\ j \in DOMAIN x
        BY <1>2, <1>3, <1>4, AppendProperties, LenProperties
      <4>2. x[j] \in 1..After(sent') - 1
        BY <4>1, <1>8 DEF Partition
      <4> QED
        BY <4>2, <1>3, <1>8
    <3>2. x \in [1..Len(x) -> DOMAIN sizes] /\ Len(x) \in Nat
      BY <3>1, <1>4, LenProperties
    <3> QED
      BY <3>2, SeqDef
  <2>2. Len(sent) + 1 \in DOMAIN sent' /\ sent'[Len(sent) + 1] = x
    BY <1>2, <1>3, <1>4, AppendProperties, LenProperties
  <2>3. Stream!Once(sent')
    BY <1>8 DEF Partition
  <2>4. \A q \in Receivers: loaded'[q] = loaded[q] /\ pc'[q] = pc[q]
    BY <1>2, RankFacts
  <2> QED
    BY <2>1, <2>2, <2>3, <2>4, <1>2 DEF Stream!Pack
<1> QED
  BY <1>12, <1>13

\* A rollout worker loads the bucket in its rank's send buffer: the next one
\* of the plan that it has not loaded.
LEMMA YieldSent ==
  ASSUME IInv, ContentInv, SentInv, NEW r \in Receivers, Yield(r)
  PROVE  SentInv' /\ Stream!Load(r)
<1> DEFINE x == Extract(buf[r][send[r]], meta[r].bucket)
           n == Len(loaded[r])
<1>1. r \in Ranks /\ r # 0 /\ 0 \in Ranks /\ TypeOK /\ LoadsSent(r) /\ Fresh(r)
  BY RankFacts DEF IInv, SentInv, Yield, Fresh
<1>2. /\ loaded' = [loaded EXCEPT ![r] = Append(@, x)] /\ loaded'[r] = Append(loaded[r], x)
      /\ pc'[r] = (IF pc[r] = "yield" THEN "read" ELSE "drain")
      /\ pc[r] \in {"yield", "yield last"}
      /\ UNCHANGED <<sizes, meta, coming, inbox, fill, sent>>
      /\ \A q \in Ranks: q # r => pc'[q] = pc[q] /\ loaded'[q] = loaded[q]
  BY <1>1 DEF Yield, TypeOK
<1>3. /\ meta[r] \in Metas /\ meta[r].bucket \in Bucket /\ loaded[r] \in Seq(Seq(Nat))
      /\ sent \in Seq(Seq(Nat)) /\ After(loaded[r]) \in Nat
  BY <1>1, PlaceNat DEF TypeOK, Metas
<1>4. n + 1 \in DOMAIN sent /\ sent[n + 1] = Params(meta[r].bucket)
  BY <1>1, NextCut
<1>5. x = Params(meta[r].bucket)
  <2>1. Carries(sizes, buf[r][send[r]], meta[r], After(loaded[r]), AfterMeta(r))
    BY <1>1 DEF ContentInv, Carried, PassesOn
  <2>2. /\ x \in Seq(Nat) /\ Len(x) = Len(meta[r].bucket)
        /\ \A j \in 1..Len(x): x[j] = After(loaded[r]) + j - 1
    BY <2>1, <1>3, CarriesExtract
  <2>3. /\ DOMAIN meta[r].bucket = 1..Len(meta[r].bucket)
        /\ Params(meta[r].bucket) \in Seq(Nat)
        /\ Len(Params(meta[r].bucket)) = Len(meta[r].bucket)
        /\ \A j \in 1..Len(meta[r].bucket): Params(meta[r].bucket)[j] = meta[r].bucket[j].param
    BY <1>3, BucketFacts, ParamsType
  <2>4. \A j \in 1..Len(x): x[j] = Params(meta[r].bucket)[j]
    BY <2>1, <2>2, <2>3 DEF Carries
  <2> HIDE DEF x
  <2> QED
    BY <2>2, <2>3, <2>4, SeqEqual
<1>6. /\ n \in Nat /\ DOMAIN loaded[r] = 1..n /\ Len(sent) \in Nat /\ DOMAIN sent = 1..Len(sent)
      /\ n < Len(sent)
  <2>1. n \in Nat /\ DOMAIN loaded[r] = 1..n /\ Len(sent) \in Nat /\ DOMAIN sent = 1..Len(sent)
    BY <1>3, LenProperties
  <2> QED
    BY <2>1, <1>4
<1> HIDE DEF x
<1>7. LoadsSent(r)'
  <2>0. x \in Seq(Nat)
    BY <1>3, <1>5, ParamsType
  <2>1. /\ loaded'[r] \in Seq(Seq(Nat)) /\ Len(loaded'[r]) = n + 1
        /\ loaded'[r][n + 1] = x /\ \A k \in 1..n: loaded'[r][k] = loaded[r][k]
    <3>1. /\ Append(loaded[r], x) \in Seq(Seq(Nat))
          /\ Len(Append(loaded[r], x)) = Len(loaded[r]) + 1
          /\ Append(loaded[r], x)[Len(loaded[r]) + 1] = x
          /\ \A k \in 1..Len(loaded[r]): Append(loaded[r], x)[k] = loaded[r][k]
      BY <2>0, <1>3, AppendProperties
    <3> QED
      BY <3>1, <1>2
  <2>2. DOMAIN loaded'[r] = 1..n + 1
    BY <2>1, LenProperties
  <2>3. \A k \in 1..n: loaded[r][k] = sent[k]
    BY <1>1, <1>6 DEF LoadsSent
  <2>4. \A k \in 1..n + 1: loaded'[r][k] = sent[k]
    <3>1. loaded'[r][n + 1] = sent[n + 1]
      BY <2>1, <1>4, <1>5
    <3>2. \A k \in 1..n + 1: k = n + 1 \/ k \in 1..n
      BY <1>6
    <3> QED
      BY <3>1, <3>2, <2>1, <2>3
  <2>5. Len(loaded'[r]) <= Len(sent)
    BY <2>1, <1>6
  <2> QED
    BY <2>2, <2>4, <2>5, <1>2 DEF LoadsSent
<1>8. Cuts(r)'
  <2>1. ~Fresh(r)' /\ (Reading(r)' => Reading(r))
    BY <1>2 DEF Fresh, Reading
  <2> QED
    BY <2>1, <1>2 DEF SentInv, Cuts
<1>9. ASSUME NEW q \in Receivers, q # r PROVE Cuts(q)' /\ LoadsSent(q)'
  <2>1. q \in Ranks /\ Cuts(q) /\ LoadsSent(q)
    BY RankFacts DEF SentInv
  <2>2. (Fresh(q)' <=> Fresh(q)) /\ (Reading(q)' <=> Reading(q))
    BY <2>1, <1>2, <1>9 DEF Fresh, Reading
  <2> QED
    BY <2>1, <2>2, <1>1, <1>2, <1>9, CutsFrame DEF Grows
<1>10. AfterOffered(0)' = AfterOffered(0)
  BY <1>1, <1>2 DEF AfterOffered
<1>11. SentInv'
  BY <1>2, <1>7, <1>8, <1>9, <1>10 DEF SentInv
<1>12. Stream!Load(r)
  <2>1. /\ [q \in Receivers |-> loaded'[q]]
           = [[q \in Receivers |-> loaded[q]] EXCEPT ![r] = Append(@, sent[n + 1])]
        /\ [q \in Receivers |-> pc'[q] = "done"] = [q \in Receivers |-> pc[q] = "done"]
    <3>1. \A q \in Receivers: (pc'[q] = "done") = (pc[q] = "done")
      BY <1>1, <1>2, RankFacts
    <3>2. \A q \in Receivers: loaded'[q] = IF q = r THEN Append(loaded[r], sent[n + 1])
                                                    ELSE loaded[q]
      BY <1>1, <1>2, <1>4, <1>5, RankFacts
    <3> QED
      BY <3>1, <3>2
  <2> QED
    BY <2>1, <1>2, <1>6 DEF Stream!Load
<1> QED
  BY <1>11, <1>12

\* The steps that move a bucket, or its metadata, from one place to the next:
\* nothing is packed, loaded or returned.
LEMMA MoveSent ==
  ASSUME IInv, ContentInv, SentInv, UNCHANGED <<sizes, sent, loaded>>,
         AfterOffered(0)' = AfterOffered(0),
         \A q \in Receivers:
           /\ Fresh(q)' => (Fresh(q) /\ meta'[q] = meta[q]) \/ Cut(sent', meta'[q])
           /\ Reading(q)' => (Reading(q) /\ coming'[q] = coming[q]) \/ Cut(sent', coming'[q])
           /\ \/ inbox'[q] = inbox[q] \/ inbox'[q] = <<>>
              \/ Cut(sent', inbox'[q][1].md)
  PROVE  SentInv'
<1>1. ASSUME NEW q \in Receivers PROVE Cuts(q)' /\ LoadsSent(q)'
  <2>1. TypeOK /\ Grows /\ Cuts(q) /\ LoadsSent(q) /\ loaded'[q] = loaded[q]
    BY DEF IInv, SentInv, Grows
  <2> QED
    BY <2>1, CutsFrame
<1> QED
  BY <1>1 DEF SentInv

LEMMA FillSent ==
  ASSUME IInv, ContentInv, SentInv, Fill
  PROVE  SentInv'
<1>1. TypeOK /\ 0 \in Ranks /\ Source
  BY RankFacts DEF IInv, ContentInv
<1>2. /\ pc[0] = "fill" /\ fill'.param = fill.param + 1
      /\ meta'[0].bucket = Append(meta[0].bucket, Entry(fill.param, fill.offset))
      /\ UNCHANGED <<sizes, sent, loaded, pc, coming, inbox>>
      /\ \A q \in Ranks: q # 0 => meta'[q] = meta[q]
  BY <1>1 DEF Fill, TypeOK
<1>3. /\ meta[0].bucket \in Bucket /\ fill.param \in Nat /\ fill.offset \in Nat
      /\ Entry(fill.param, fill.offset) \in [param: Nat, offset: Nat]
  BY <1>1 DEF TypeOK, Entry
<1>4. Len(meta'[0].bucket) = Len(meta[0].bucket) + 1 /\ Len(meta[0].bucket) \in Nat
  BY <1>2, <1>3, AppendProperties, LenProperties DEF Bucket
<1>5. AfterOffered(0)' = AfterOffered(0)
  <2>1. (fill.param + 1) - (Len(meta[0].bucket) + 1) = fill.param - Len(meta[0].bucket)
    <3>1. \A a, b \in Nat: (a + 1) - (b + 1) = a - b
      OBVIOUS
    <3> QED
      BY <3>1, <1>3, <1>4
  <2>2. /\ AfterOffered(0) = fill.param - Len(meta[0].bucket)
        /\ AfterOffered(0)' = fill'.param - Len(meta'[0].bucket)
    BY <1>2 DEF AfterOffered
  <2> QED
    BY <2>1, <2>2, <1>2, <1>4
<1>6. \A q \in Receivers: /\ Fresh(q)' <=> Fresh(q)
                          /\ Reading(q)' <=> Reading(q)
                          /\ meta'[q] = meta[q]
  BY <1>2, RankFacts DEF Fresh, Reading
<1> QED
  BY <1>2, <1>5, <1>6, MoveSent

LEMMA BeginReadSent ==
  ASSUME IInv, ContentInv, SentInv, NEW r \in Receivers, BeginRead(r),
         UNCHANGED <<sizes, send, fill, meta, loaded, open, notes, sent>>,
         NEW place, pc' = [pc EXCEPT ![r] = place],
         \/ pc[r] = "first" /\ place = "read first"
         \/ pc[r] = "read next" /\ place = "yield"
  PROVE  SentInv'
<1>1. TypeOK /\ r \in Ranks /\ r # 0 /\ 0 \in Ranks /\ r - 1 \in Ranks /\ r - 1 # r
  BY RankFacts DEF IInv
<1>2. /\ pc'[r] = place /\ inbox[r] # <<>> /\ coming'[r] = Head(inbox[r]).md
      /\ \A q \in Ranks: q # r => /\ pc'[q] = pc[q] /\ inbox'[q] = inbox[q]
                                  /\ coming'[q] = coming[q]
  BY <1>1 DEF BeginRead, TypeOK
<1>3. LentHalf(r - 1)' = LentHalf(r - 1)
  BY <1>1, <1>2 DEF LentHalf, recv
<1>4. inbox[r] = <<Head(inbox[r])>> /\ inbox'[r] = <<>>
  BY <1>3, BeginReadLink
<1>5. Cut(sent', coming'[r])
  <2>1. inbox[r][1] = Head(inbox[r])
    BY <1>4, Singleton
  <2> QED
    BY <2>1, <1>2 DEF SentInv, Cuts
<1>6. AfterOffered(0)' = AfterOffered(0)
  BY <1>1, <1>2 DEF AfterOffered
<1>7. ASSUME NEW q \in Receivers
      PROVE  /\ Fresh(q)' => Fresh(q) /\ meta'[q] = meta[q]
             /\ Reading(q)' => (Reading(q) /\ coming'[q] = coming[q]) \/ Cut(sent', coming'[q])
             /\ inbox'[q] = inbox[q] \/ inbox'[q] = <<>>
  <2>1. CASE q = r
    BY <2>1, <1>2, <1>4, <1>5 DEF Fresh
  <2>2. CASE q # r
    BY <2>2, <1>2, RankFacts DEF Fresh, Reading
  <2> QED
    BY <2>1, <2>2
<1> QED
  BY <1>6, <1>7, MoveSent

\* The bucket that a rank has read goes to its send buffer and is offered to
\* the next rank.
LEMMA AdvanceSent ==
  ASSUME IInv, ContentInv, SentInv, NEW r \in Receivers, Advance(r)
  PROVE  SentInv'
<1>1. TypeOK /\ Links /\ r \in Ranks /\ r # 0 /\ 0 \in Ranks
  BY RankFacts DEF IInv
<1>2. /\ pc[r] \in {"read first", "read"} /\ Acknowledged(r)
      /\ meta'[r] = coming[r] /\ pc'[r] \in {"yield last", "read next"}
      /\ UNCHANGED <<sizes, sent, loaded, fill, coming>>
      /\ \A q \in Ranks: q # r => pc'[q] = pc[q] /\ meta'[q] = meta[q]
  BY <1>1 DEF Advance, TypeOK
<1>3. Cut(sent', coming[r])
  BY <1>2 DEF SentInv, Cuts, Reading
<1>4. \A q \in Receivers: inbox'[q] = inbox[q] \/ Cut(sent', inbox'[q][1].md)
  <2>1. CASE r = LastRank
    BY <2>1 DEF Advance, NoOffer
  <2>2. CASE r # LastRank
    <3>1. r \in 0..LastRank - 1 /\ Offer(r, recv(r), coming[r]) /\ Acknowledged(r)
      BY <2>2, <1>1, RankFacts DEF Advance
    <3> DEFINE h == recv(r)
               md == coming[r]
    <3> HIDE DEF h, md
    <3>a. Offer(r, h, md)
      BY <3>1 DEF h, md
    <3>2. /\ inbox'[r + 1] = << [key |-> open'[r], half |-> h, md |-> md] >>
          /\ \A q \in Ranks: q # r + 1 => inbox'[q] = inbox[q]
      BY <1>1, <3>1, <3>a, OfferSends
    <3>3. inbox'[r + 1][1].md = coming[r]
      BY <3>2, Singleton DEF md
    <3> QED
      BY <3>2, <3>3, <1>3, RankFacts
  <2> QED
    BY <2>1, <2>2
<1>5. AfterOffered(0)' = AfterOffered(0)
  BY <1>1, <1>2 DEF AfterOffered
<1>6. ASSUME NEW q \in Receivers
      PROVE  /\ Fresh(q)' => (Fresh(q) /\ meta'[q] = meta[q]) \/ Cut(sent', meta'[q])
             /\ Reading(q)' => Reading(q) /\ coming'[q] = coming[q]
  <2>1. CASE q = r
    BY <2>1, <1>2, <1>3 DEF Reading
  <2>2. CASE q # r
    BY <2>2, <1>2, RankFacts DEF Fresh, Reading
  <2> QED
    BY <2>1, <2>2
<1> QED
  BY <1>2, <1>4, <1>5, <1>6, MoveSent

\* A receiver returns when it has loaded the whole plan, and the plan holds
\* every parameter.
LEMMA DrainSent ==
  ASSUME IInv, ContentInv, SentInv, NEW r \in Ranks, Drain(r)
  PROVE  /\ SentInv'
         /\ r \in Receivers => Stream!Return({r})
         /\ r = 0 => UNCHANGED [q \in Receivers |-> pc[q] = "done"]
<1>1. TypeOK /\ 0 \in Ranks
  BY RankFacts DEF IInv
<1>2. /\ pc[r] = "drain" /\ pc'[r] = "done"
      /\ UNCHANGED <<sizes, sent, loaded, fill, meta, coming, inbox>>
      /\ \A q \in Ranks: q # r => pc'[q] = pc[q]
  BY <1>1 DEF Drain, TypeOK
<1>3. SentInv'
  <2>1. AfterOffered(0)' = AfterOffered(0)
    BY <1>1, <1>2 DEF AfterOffered
  <2>2. \A q \in Receivers: (Fresh(q)' <=> Fresh(q)) /\ (Reading(q)' <=> Reading(q))
    BY <1>2, RankFacts DEF Fresh, Reading
  <2> QED
    BY <2>1, <2>2, <1>2, MoveSent
<1>4. ASSUME r \in Receivers PROVE Stream!Return({r})
  <2> DEFINE n == Len(loaded[r])
  <2>1. /\ After(loaded[r]) = Len(sizes) + 1 /\ Partition(sent) /\ LoadsSent(r)
        /\ InOrder(loaded[r])
    BY <1>2, <1>4 DEF ContentInv, Carried, PassesOn, Fresh, Ended, SentInv
  <2>2. /\ Len(sizes) \in Nat /\ DOMAIN sizes = 1..Len(sizes) /\ Len(sizes) > 0
        /\ sent \in Seq(Seq(Nat)) /\ loaded[r] \in Seq(Seq(Nat))
    BY <1>1, ContentTypes DEF TypeOK
  <2>3. /\ n \in Nat /\ DOMAIN loaded[r] = 1..n /\ n <= Len(sent)
        /\ Len(sent) \in Nat /\ DOMAIN sent = 1..Len(sent)
    BY <2>1, <2>2, LenProperties DEF LoadsSent
  <2>4. n # 0
    <3>1. CASE n = 0
      <4>1. loaded[r] = <<>>
        BY <3>1, <2>2, EmptySeq
      <4> QED
        BY <4>1, <2>1, <2>2 DEF After
    <3> QED
      BY <3>1
  <2>5. /\ n \in DOMAIN loaded[r] /\ loaded[r] # <<>> /\ loaded[r][n] = sent[n]
        /\ n \in DOMAIN sent
    <3>1. n \in DOMAIN loaded[r] /\ n \in DOMAIN sent
      BY <2>3, <2>4
    <3> QED
      BY <3>1, <2>1, NoMessage DEF LoadsSent
  <2>6. sent[n][1] + Len(sent[n]) = Len(sizes) + 1
    BY <2>1, <2>5 DEF After
  <2>7. After(sent) <= Len(sizes) + 1 /\ After(sent) \in Nat
    <3>1. Source /\ fill.param \in Nat /\ meta[0] \in Metas
      BY <1>1, ContentTypes DEF ContentInv
    <3>2. fill.param <= Len(sizes) + 1 /\ Len(meta[0].bucket) \in Nat
      BY <3>1, BucketFacts DEF Source
    <3>3. After(sent) \in {fill.param, fill.param - Len(meta[0].bucket)}
      BY DEF SentInv, AfterOffered
    <3>4. After(sent) \in Nat
      BY <2>1, <2>2, AfterNat DEF Partition
    <3> QED
      BY <3>1, <3>2, <3>3, <3>4, <2>2
  <2>8. n = Len(sent)
    <3>1. CASE n < Len(sent)
      <4>1. n + 1 \in DOMAIN sent /\ n + 1 # 1 /\ (n + 1) - 1 = n
        BY <3>1, <2>3, <2>4
      <4>2. sent[n + 1][1] = Len(sizes) + 1
        BY <4>1, <2>1, <2>6 DEF Partition, InOrder
      <4>3. 1 \in DOMAIN sent[n + 1]
        <5>1. sent[n + 1] \in Seq(Nat) /\ Len(sent[n + 1]) > 0
          BY <4>1, <2>1, <2>2, <2>3, ElementOfSeq DEF Partition, InOrder
        <5> QED
          BY <5>1, LenProperties
      <4>4. sent[n + 1][1] \in 1..After(sent) - 1
        BY <4>1, <4>3, <2>1 DEF Partition
      <4> QED
        BY <4>2, <4>4, <2>2, <2>7
    <3> QED
      BY <3>1, <2>3
  <2>9. After(sent) = Len(sizes) + 1
    BY <2>5, <2>6, <2>8, NoMessage DEF After
  <2>10. Stream!Complete(sent)
    BY <2>1, <2>2, <2>9 DEF Partition, Stream!Complete
  <2>11. [q \in Receivers |-> pc'[q] = "done"]
           = [q \in Receivers |-> [p \in Receivers |-> pc[p] = "done"][q] \/ q \in {r}]
    <3>1. \A q \in Receivers: (pc'[q] = "done") = (pc[q] = "done" \/ q \in {r})
      BY <1>2, RankFacts
    <3> QED
      BY <3>1
  <2> QED
    BY <1>2, <1>4, <2>8, <2>10, <2>11 DEF Stream!Return
<1>5. ASSUME r = 0 PROVE UNCHANGED [q \in Receivers |-> pc[q] = "done"]
  BY <1>2, <1>5, RankFacts
<1> QED
  BY <1>3, <1>4, <1>5

LEMMA EndReadSent ==
  ASSUME IInv, ContentInv, SentInv, NEW r \in Receivers, EndRead(r)
  PROVE  SentInv'
<1>1. UNCHANGED <<sizes, sent, loaded, fill, meta, coming, inbox, pc>>
  BY DEF EndRead
<1>2. AfterOffered(0)' = AfterOffered(0)
  BY <1>1 DEF AfterOffered
<1>3. \A q \in Receivers: (Fresh(q)' <=> Fresh(q)) /\ (Reading(q)' <=> Reading(q))
  BY <1>1 DEF Fresh, Reading
<1> QED
  BY <1>1, <1>2, <1>3, MoveSent

\* Every step of the chain is a step of the stream, or none.
LEMMA StepSent ==
  ASSUME IInv, ContentInv, SentInv, [Next]_vars
  PROVE  SentInv' /\ [Stream!Next]_(Stream!vars)
<1> DEFINE Still == /\ UNCHANGED <<DOMAIN sizes, sent>>
                    /\ UNCHANGED [r \in Receivers |-> loaded[r]]
                    /\ UNCHANGED [r \in Receivers |-> pc[r] = "done"]
<1>0. TypeOK
  BY DEF IInv
<1>1. CASE Fill
  <2>1. Still
    BY <1>1 DEF Fill
  <2> QED
    BY <2>1, <1>1, FillSent DEF Stream!vars
<1>2. CASE SendBucket \/ SendLast
  BY <1>2, SendSent DEF Stream!Next
<1>3. CASE \E r \in Receivers: ReadFirst(r) \/ ReadNext(r)
  <2> PICK r \in Receivers: ReadFirst(r) \/ ReadNext(r)
    BY <1>3
  <2>1. Still
    <3>1. \A q \in Receivers: (pc'[q] = "done") = (pc[q] = "done")
      BY <1>0, RankFacts DEF ReadFirst, ReadNext, TypeOK
    <3> QED
      BY <3>1 DEF ReadFirst, ReadNext
  <2>2. SentInv'
    BY BeginReadSent DEF ReadFirst, ReadNext
  <2> QED
    BY <2>1, <2>2 DEF Stream!vars
<1>4. CASE \E r \in Receivers: Advance(r)
  <2> PICK r \in Receivers: Advance(r)
    BY <1>4
  <2>1. Still
    <3>1. \A q \in Receivers: (pc'[q] = "done") = (pc[q] = "done")
      BY <1>0, RankFacts DEF Advance, TypeOK
    <3> QED
      BY <3>1 DEF Advance
  <2> QED
    BY <2>1, AdvanceSent DEF Stream!vars
<1>5. CASE \E r \in Receivers: Yield(r)
  BY <1>5, YieldSent DEF Stream!Next
<1>6. CASE \E r \in Receivers: Drain(r)
  <2> PICK r \in Receivers: Drain(r)
    BY <1>6
  <2>1. SentInv' /\ Stream!Return({r})
    BY DrainSent, RankFacts
  <2>2. {r} \in SUBSET Receivers
    OBVIOUS
  <2> QED
    BY <2>1, <2>2 DEF Stream!Next
<1>7. CASE Drain(0)
  <2>1. SentInv' /\ UNCHANGED [q \in Receivers |-> pc[q] = "done"]
    BY <1>7, DrainSent, RankFacts
  <2>2. UNCHANGED <<sizes, sent, loaded>>
    BY <1>7 DEF Drain
  <2> QED
    BY <2>1, <2>2 DEF Stream!vars
<1>8. CASE \E r \in Receivers: EndRead(r)
  <2>1. SentInv'
    BY <1>8, EndReadSent
  <2>2. UNCHANGED <<sizes, sent, loaded, pc>>
    BY <1>8 DEF EndRead
  <2> QED
    BY <2>1, <2>2 DEF Stream!vars
<1>9. CASE UNCHANGED vars
  <2>1. UNCHANGED <<sizes, sent, loaded, pc, fill, meta, coming, inbox>>
    BY <1>9 DEF vars
  <2>2. SentInv'
    <3>1. AfterOffered(0)' = AfterOffered(0)
      BY <2>1 DEF AfterOffered
    <3>2. \A q \in Receivers: (Fresh(q)' <=> Fresh(q)) /\ (Reading(q)' <=> Reading(q))
      BY <2>1 DEF Fresh, Reading
    <3> QED
      BY <2>1, <3>1, <3>2, MoveSent
  <2> QED
    BY <2>1, <2>2 DEF Stream!vars
<1> QED
  BY <1>1, <1>2, <1>3, <1>4, <1>5, <1>6, <1>7, <1>8, <1>9
     DEF Next, Trainer, SendEnds, Rollout, Finished

-----------------------------------------------------------------------------
(***************************************************************************)
(* Theorems                                                                *)
(***************************************************************************)
\* The inductive invariant holds throughout.
THEOREM Inductive == Spec => []IInv
<1>1. Init => IInv
  BY InitIInv
<1>2. IInv /\ [Next]_vars => IInv'
  BY NextIInv
<1> QED
  BY <1>1, <1>2, PTL DEF Spec

\* The variables have their types, whatever the parameters and their sizes.
THEOREM TypeCorrect == Spec => []TypeOK
<1>1. IInv => TypeOK
  BY DEF IInv
<1> QED
  BY <1>1, Inductive, PTL

\* No rank writes into a buffer while the next rank may read it or the
\* rollout worker copies from it, in a chain of any length.
THEOREM BuffersExclusive == Spec => []HalfExclusive
<1> QED
  BY IInvHalfExclusive, Inductive, PTL

\* A rank that returns has given nothing on loan and has empty mailboxes: its
\* memory may be deregistered and its agent used for the next transfer.
THEOREM ExitsClean == Spec => []CleanExit
<1> QED
  BY IInvCleanExit, Inductive, PTL

\* What the chain carries is consecutive and intact at every place of it.
THEOREM ContentInductive == Spec => []ContentInv
<1>1. Init => ContentInv
  BY InitContent
<1>2. IInv /\ ContentInv /\ [Next]_vars => ContentInv'
  BY NextContent
<1> QED
  BY <1>1, <1>2, Inductive, PTL DEF Spec

\* Every receiver loads the parameters in their order, none left out, twice or
\* overwritten by a later bucket, and all of them before its call returns: the
\* safety of ImplementsStream in terms of the parameters, whatever buckets
\* send_weights makes of them.
THEOREM LoadsComplete == Spec => []LoadsInOrder
<1>1. ContentInv => LoadsInOrder
  BY DEF ContentInv, LoadsInOrder, Carried, PassesOn, Fresh, Ended
<1> QED
  BY <1>1, ContentInductive, PTL

\* The chain takes the steps of a weight transfer and no others: what rank 0
\* offers are buckets of parameters it has not offered before, every receiver
\* loads them in that order, each once and intact, and returns when it has
\* loaded every parameter (the safety of ImplementsStream).
THEOREM StreamImplemented == Spec => Stream!Safety
<1>1. Init => SentInv /\ Stream!Init
  <2>1. Init => Stream!Init
    <3> SUFFICES ASSUME Init PROVE Stream!Init
      OBVIOUS
    <3>1. \A r \in Receivers: loaded[r] = <<>> /\ pc[r] = "first"
      BY RankFacts DEF Init
    <3>2. sent = <<>>
      BY DEF Init
    <3> QED
      BY <3>1, <3>2 DEF Stream!Init
  <2> QED
    BY <2>1, InitSent
<1>2. IInv /\ ContentInv /\ SentInv /\ [Next]_vars => SentInv' /\ [Stream!Next]_(Stream!vars)
  BY StepSent
<1>3. IInv /\ ContentInv /\ SentInv /\ [Next]_vars => SentInv'
  BY <1>2
<1>4. Spec => []SentInv
  BY <1>1, <1>3, Inductive, ContentInductive, PTL DEF Spec
<1> QED
  BY <1>1, <1>2, <1>4, Inductive, ContentInductive, PTL DEF Spec, Stream!Safety
=============================================================================
