----------------------- MODULE PartialToolAgentProofs -----------------------
(***************************************************************************)
(* Proofs about PartialToolAgent, for every length, every limit of turns   *)
(* and every number of synchronisations:                                   *)
(*   - token, mask and log probability of a trajectory stay together       *)
(*     (StaysAligned);                                                     *)
(*   - an interrupted and resumed trajectory takes the steps of one that   *)
(*     is never interrupted (LoopImplemented).                             *)
(***************************************************************************)
EXTENDS PartialToolAgent, SequenceTheorems, TLAPS

Bits == {0, 1}
Tokens == Words \cup {"seen"}

\* The last tokens are those of the turn: all of them the model's.
TurnLast ==
  /\ Len(turn) <= Len(mask)
  /\ \A i \in 1..Len(turn) : mask[Len(mask) - Len(turn) + i] = 1

\* An unfinished turn has room for more of it; a call keeps to the context;
\* who answers answers something.
TurnInv ==
  /\ state = "pending" =>
       ids = <<>> /\ mask = <<>> /\ logprobs = 0 /\ turn = <<>>
  /\ state = "generating" => TurnLast
  /\ state = "generating" /\ turn # <<>> => Len(mask) < ResponseLength
  /\ state \in {"tools", "interacting"} => Len(ids) > 0
  /\ run = "call" => Len(ids) + Len(got) <= ModelLength
  /\ run = "failed" => state = "generating"

IInv == TypeOK /\ Aligned /\ TurnInv

-----------------------------------------------------------------------------
\* Lengths are numbers.
LEMMA Lengths ==
  ASSUME TypeOK
  PROVE  /\ Len(ids) \in Nat /\ Len(mask) \in Nat /\ Len(turn) \in Nat
         /\ Len(got) \in Nat
         /\ (got # <<>> => Len(got) > 0) /\ (turn # <<>> => Len(turn) > 0)
         /\ (turn = <<>> => Len(turn) = 0)
BY LenProperties, EmptySeq DEF TypeOK

\* n times the same token.
LEMMA Repeated ==
  ASSUME NEW S, NEW x \in S, NEW n \in Nat
  PROVE  /\ [i \in 1..n |-> x] \in Seq(S)
         /\ Len([i \in 1..n |-> x]) = n
         /\ \A i \in 1..n : [j \in 1..n |-> x][i] = x
OBVIOUS

\* Tokens and bits that are appended together stay aligned.
LEMMA AppendAligned ==
  ASSUME NEW s \in Seq(Tokens), NEW m \in Seq(Bits), Len(s) = Len(m),
         \A i \in 1..Len(s) : m[i] = 0 <=> s[i] = "seen",
         NEW p \in Seq(Tokens), NEW b \in Seq(Bits), Len(p) = Len(b),
         \A i \in 1..Len(p) : b[i] = 0 <=> p[i] = "seen"
  PROVE  /\ s \o p \in Seq(Tokens) /\ m \o b \in Seq(Bits)
         /\ Len(s \o p) = Len(s) + Len(p) /\ Len(m \o b) = Len(s) + Len(p)
         /\ \A i \in 1..Len(s \o p) : (m \o b)[i] = 0 <=> (s \o p)[i] = "seen"
<1>1. Len(s) \in Nat /\ Len(p) \in Nat
  BY LenProperties
<1>2. /\ s \o p \in Seq(Tokens) /\ Len(s \o p) = Len(s) + Len(p)
      /\ \A i \in 1..Len(s) + Len(p) :
           (s \o p)[i] = IF i <= Len(s) THEN s[i] ELSE p[i - Len(s)]
  BY ONLY s \in Seq(Tokens), p \in Seq(Tokens), ConcatProperties
<1>3. /\ m \o b \in Seq(Bits) /\ Len(m \o b) = Len(s) + Len(p)
      /\ \A i \in 1..Len(s) + Len(p) :
           (m \o b)[i] = IF i <= Len(s) THEN m[i] ELSE b[i - Len(s)]
  BY ONLY m \in Seq(Bits), b \in Seq(Bits), Len(s) = Len(m), Len(p) = Len(b),
          ConcatProperties
<1>4. ASSUME NEW i \in 1..Len(s \o p)
      PROVE  (m \o b)[i] = 0 <=> (s \o p)[i] = "seen"
  <2>1. i \in 1..Len(s) + Len(p)
    BY <1>2
  <2>2. CASE i <= Len(s)
    <3>1. i \in 1..Len(s)
      BY <1>1, <2>1, <2>2
    <3> QED
      BY <1>2, <1>3, <2>1, <2>2, <3>1
  <2>3. CASE ~(i <= Len(s))
    <3>1. i - Len(s) \in 1..Len(p)
      BY <1>1, <2>1, <2>3
    <3> QED
      BY <1>2, <1>3, <2>1, <2>3, <3>1
  <2> QED
    BY <2>2, <2>3
<1> QED
  BY <1>2, <1>3, <1>4

\* What keeping a part does to the trajectory.
LEMMA KeepPartFacts ==
  ASSUME TypeOK, Aligned, NEW part \in Seq(Words), KeepPart(part)
  PROVE  /\ ids' \in Seq(Tokens) /\ mask' \in Seq(Bits) /\ logprobs' \in Nat
         /\ responseIds' \in Seq(Words) /\ turn' \in Seq(Words)
         /\ Aligned'
         /\ Len(part) \in Nat
         /\ Len(mask') = Len(mask) + Len(part)
         /\ Len(turn') = Len(turn) + Len(part)
         /\ mask' = mask \o Ones(Len(part))
         /\ TurnLast => TurnLast'
<1>1. /\ Len(part) \in Nat /\ Len(ids) \in Nat /\ Len(mask) \in Nat
      /\ Len(turn) \in Nat /\ Len(ids) = Len(mask) /\ logprobs = Len(ids)
      /\ ids \in Seq(Tokens) /\ mask \in Seq(Bits) /\ turn \in Seq(Words)
  BY LenProperties, Lengths DEF TypeOK, Aligned, Tokens, Bits
<1>2. /\ Ones(Len(part)) \in Seq(Bits) /\ Len(Ones(Len(part))) = Len(part)
      /\ \A i \in 1..Len(part) : Ones(Len(part))[i] = 1
  BY <1>1 DEF Ones, Bits
<1>3. /\ part \in Seq(Tokens)
      /\ \A i \in 1..Len(part) : part[i] \in Words /\ part[i] # "seen"
  <2>1. part \in Seq(Tokens)
    BY SeqMonotonic DEF Tokens
  <2>2. \A i \in 1..Len(part) : part[i] \in Words
    BY ElementOfSeq
  <2> QED
    BY <2>1, <2>2 DEF Words
<1>4. /\ ids' = ids \o part /\ mask' = mask \o Ones(Len(part))
      /\ logprobs' = logprobs + Len(part) /\ turn' = turn \o part
      /\ responseIds' = part
  BY DEF KeepPart
<1>5. \A i \in 1..Len(part) : Ones(Len(part))[i] = 0 <=> part[i] = "seen"
  BY <1>2, <1>3
<1>6. /\ ids' \in Seq(Tokens) /\ mask' \in Seq(Bits)
      /\ Len(ids') = Len(ids) + Len(part) /\ Len(mask') = Len(ids) + Len(part)
      /\ \A i \in 1..Len(ids') : mask'[i] = 0 <=> ids'[i] = "seen"
  <2>1. \A i \in 1..Len(ids) : mask[i] = 0 <=> ids[i] = "seen"
    BY DEF Aligned
  <2>2. /\ ids \o part \in Seq(Tokens) /\ mask \o Ones(Len(part)) \in Seq(Bits)
        /\ Len(ids \o part) = Len(ids) + Len(part)
        /\ Len(mask \o Ones(Len(part))) = Len(ids) + Len(part)
        /\ \A i \in 1..Len(ids \o part) :
             (mask \o Ones(Len(part)))[i] = 0 <=> (ids \o part)[i] = "seen"
    <3> DEFINE b == Ones(Len(part))
    <3>1. b \in Seq(Bits) /\ Len(part) = Len(b)
      BY <1>2
    <3>2. \A i \in 1..Len(part) : b[i] = 0 <=> part[i] = "seen"
      BY <1>5
    <3> HIDE DEF b
    <3>3. /\ ids \o part \in Seq(Tokens) /\ mask \o b \in Seq(Bits)
          /\ Len(ids \o part) = Len(ids) + Len(part)
          /\ Len(mask \o b) = Len(ids) + Len(part)
          /\ \A i \in 1..Len(ids \o part) :
               (mask \o b)[i] = 0 <=> (ids \o part)[i] = "seen"
      BY ONLY ZenonT(30), <1>1, <1>3, <2>1, <3>1, <3>2, AppendAligned
    <3> QED
      BY <3>3 DEF b
  <2> QED
    BY <1>4, <2>2
<1>7. turn' \in Seq(Words) /\ Len(turn') = Len(turn) + Len(part)
  BY <1>1, <1>4, ConcatProperties
<1>8. ASSUME TurnLast PROVE TurnLast'
  <2>1. /\ Len(turn) <= Len(mask)
        /\ \A i \in 1..Len(turn) : mask[Len(mask) - Len(turn) + i] = 1
    BY <1>8 DEF TurnLast
  <2>2. \A i \in 1..Len(mask) + Len(part) :
          mask'[i] = IF i <= Len(mask) THEN mask[i]
                     ELSE Ones(Len(part))[i - Len(mask)]
    BY ONLY <1>1, <1>2, <1>4, ConcatProperties
  <2>3. Len(mask') - Len(turn') = Len(mask) - Len(turn)
    BY <1>1, <1>6, <1>7
  <2>4. ASSUME NEW i \in 1..Len(turn')
        PROVE  mask'[Len(mask) - Len(turn) + i] = 1
    <3>1. Len(mask) - Len(turn) + i \in 1..Len(mask) + Len(part)
      BY <1>1, <1>7, <2>1
    <3>2. CASE i <= Len(turn)
      <4>1. i \in 1..Len(turn) /\ Len(mask) - Len(turn) + i <= Len(mask)
        BY <1>1, <1>7, <3>2
      <4> QED
        BY <2>1, <2>2, <3>1, <4>1
    <3>3. CASE ~(i <= Len(turn))
      <4>1. /\ i - Len(turn) \in 1..Len(part)
            /\ ~(Len(mask) - Len(turn) + i <= Len(mask))
            /\ Len(mask) - Len(turn) + i - Len(mask) = i - Len(turn)
        BY <1>1, <1>7, <3>3
      <4>2. Ones(Len(part))[i - Len(turn)] = 1
        BY <1>2, <4>1
      <4> QED
        BY ONLY <2>2, <3>1, <4>1, <4>2
    <3> QED
      BY <3>2, <3>3
  <2>5. Len(turn') <= Len(mask')
    BY <1>1, <1>6, <1>7, <2>1
  <2> QED
    BY <2>3, <2>4, <2>5 DEF TurnLast
<1> QED
  BY <1>1, <1>4, <1>6, <1>7, <1>8 DEF Aligned

\* What an answer of a tool or of the user does to it.
LEMMA ObserveFacts ==
  ASSUME TypeOK, Aligned, Len(ids) > 0, NEW n \in Nat, Observe(n)
  PROVE  /\ ids' \in Seq(Tokens) /\ mask' \in Seq(Bits) /\ logprobs' \in Nat
         /\ Aligned' /\ TurnLast'
         /\ turn' = <<>> /\ userTurns' = userTurns + 1
         /\ mask' = mask \o [i \in 1..n |-> 0]
<1> DEFINE seen == [i \in 1..n |-> "seen"]
           zeros == [i \in 1..n |-> 0]
<1>1. /\ Len(ids) \in Nat /\ Len(mask) \in Nat
      /\ Len(ids) = Len(mask) /\ logprobs = Len(ids)
      /\ ids \in Seq(Tokens) /\ mask \in Seq(Bits)
  BY Lengths DEF TypeOK, Aligned, Tokens, Bits
<1>2. /\ seen \in Seq(Tokens) /\ zeros \in Seq(Bits)
      /\ Len(seen) = n /\ Len(zeros) = n
      /\ \A i \in 1..n : seen[i] = "seen" /\ zeros[i] = 0
  BY DEF Tokens, Bits
<1>3. /\ ids' = ids \o seen /\ mask' = mask \o zeros
      /\ logprobs' = logprobs + n /\ turn' = <<>> /\ userTurns' = userTurns + 1
  BY <1>1 DEF Observe
<1> HIDE DEF seen, zeros
<1>4. /\ ids' \in Seq(Tokens) /\ mask' \in Seq(Bits)
      /\ Len(ids') = Len(ids) + n /\ Len(mask') = Len(ids) + n
      /\ \A i \in 1..Len(ids') : mask'[i] = 0 <=> ids'[i] = "seen"
  <2>1. \A i \in 1..Len(ids) : mask[i] = 0 <=> ids[i] = "seen"
    BY DEF Aligned
  <2>2. \A i \in 1..Len(seen) : zeros[i] = 0 <=> seen[i] = "seen"
    BY <1>2
  <2>3. /\ ids \o seen \in Seq(Tokens) /\ mask \o zeros \in Seq(Bits)
        /\ Len(ids \o seen) = Len(ids) + Len(seen)
        /\ Len(mask \o zeros) = Len(ids) + Len(seen)
        /\ \A i \in 1..Len(ids \o seen) :
             (mask \o zeros)[i] = 0 <=> (ids \o seen)[i] = "seen"
    <3>1. /\ seen \in Seq(Tokens) /\ zeros \in Seq(Bits)
          /\ Len(seen) = Len(zeros)
      BY <1>2
    <3> QED
      BY ONLY <1>1, <2>1, <2>2, <3>1, AppendAligned, SMTT(60)
  <2> QED
    BY <1>2, <1>3, <2>3
<1>5. TurnLast'
  BY <1>1, <1>3, <1>4 DEF TurnLast
<1> QED
  BY <1>1, <1>3, <1>4, <1>5 DEF Aligned, zeros

-----------------------------------------------------------------------------
LEMMA InitInv == Init => IInv
<1> SUFFICES ASSUME Init PROVE IInv
  OBVIOUS
<1>1. <<>> \in Seq(Words) /\ <<>> \in Seq(Words \cup {"seen"}) /\ <<>> \in Seq({0, 1})
  BY EmptySeq
<1>2. Len(<<>>) = 0
  BY EmptySeq
<1>3. TypeOK
  <2>1. /\ syncs \in 0..MaxSyncs /\ 0 \in Nat
        /\ "held" \in {"held", "loop", "call", "done", "failed"}
        /\ "pending" \in {"pending", "generating", "tools", "interacting", "terminated"}
        /\ "run" \in {"run", "cancel", "gather", "quiet", "resume"}
        /\ "held" # "call"
    BY ToolAgentAssumption DEF Init
  <2> QED
    BY <1>1, <2>1, Zenon DEF Init, TypeOK
<1> QED
  BY <1>2, <1>3 DEF Init, IInv, Aligned, TurnInv

\* The steps that leave the trajectory alone.
LEMMA QuietInv ==
  ASSUME IInv,
         Submit \/ Terminate \/ Interrupted \/ CallRaises \/ SyncBegin \/ SyncGoesOn
           \/ UNCHANGED vars
  PROVE  IInv'
<1> USE DEF IInv
<1>1. UNCHANGED <<state, dataVars, got>>
  BY DEF Submit, Terminate, Interrupted, CallRaises, SyncBegin, SyncGoesOn,
         CancelWorker, CancelServer, CancelEnd, GatherEnd, ResumeBegin,
         ResumeWorker, ResumeServer, ResumeEnd, agentVars, vars, dataVars
<1>2. /\ run' = "call" => run = "call"
      /\ run' = "failed" => run = "failed" \/ state = "generating"
  BY DEF Submit, Terminate, Interrupted, CallRaises, SyncBegin, SyncGoesOn,
         CancelWorker, CancelServer, CancelEnd, GatherEnd, ResumeBegin,
         ResumeWorker, ResumeServer, ResumeEnd, vars, Handles
<1>3. TypeOK'
  <2> DEFINE Control ==
        /\ run \in {"held", "loop", "call", "done", "failed"}
        /\ event \in BOOLEAN /\ paused \in BOOLEAN /\ cut \in BOOLEAN
        /\ cut => run = "call"
        /\ sync \in {"run", "cancel", "gather", "quiet", "resume"}
        /\ syncs \in 0..MaxSyncs
  <2>1. Control
    BY DEF TypeOK
  <2>2. Control'
    <3>1. CASE Submit \/ Terminate \/ Interrupted \/ CallRaises \/ UNCHANGED vars
      BY <2>1, <3>1
         DEF Submit, Terminate, Interrupted, CallRaises, vars, syncVars, Handles
    <3>2. CASE SyncBegin
      <4>1. /\ syncs' \in 0..MaxSyncs /\ sync' = "cancel"
            /\ UNCHANGED <<run, cut, event, paused>>
        BY <2>1, <3>2, ToolAgentAssumption DEF SyncBegin
      <4> QED
        BY <2>1, <4>1
    <3>3. CASE CancelServer
      BY <2>1, <3>3 DEF CancelServer
    <3>4. CASE CancelWorker \/ ResumeWorker \/ ResumeServer
      <4>1. /\ event' \in BOOLEAN /\ paused' \in BOOLEAN
            /\ UNCHANGED <<run, cut, sync, syncs>>
        BY <2>1, <3>4, Zenon DEF CancelWorker, ResumeWorker, ResumeServer
      <4> QED
        BY <2>1, <4>1
    <3>5. CASE CancelEnd \/ GatherEnd \/ ResumeBegin \/ ResumeEnd
      <4>1. /\ sync' \in {"run", "cancel", "gather", "quiet", "resume"}
            /\ UNCHANGED <<run, cut, event, paused, syncs>>
        BY <3>5 DEF CancelEnd, GatherEnd, ResumeBegin, ResumeEnd
      <4> QED
        BY <2>1, <4>1
    <3> QED
      BY <3>1, <3>2, <3>3, <3>4, <3>5 DEF SyncGoesOn
  <2> QED
    BY <1>1, <1>2, <2>2 DEF TypeOK, dataVars
<1>4. Aligned' /\ TurnInv'
  BY <1>1, <1>2 DEF Aligned, TurnInv, TurnLast, dataVars
<1> QED
  BY <1>3, <1>4

LEMMA PendingInv == ASSUME IInv, Pending PROVE IInv'
<1> USE DEF IInv
<1>1. <<>> \in Seq(Tokens) /\ Len(<<>>) = 0
  BY EmptySeq
<1>2. TypeOK'
  BY <1>1 DEF Pending, Handles, TypeOK, syncVars, Tokens
<1>3. Aligned' /\ TurnInv'
  BY <1>1 DEF Pending, Handles, Aligned, TurnInv, TurnLast
<1> QED
  BY <1>2, <1>3

LEMMA CallInv == ASSUME IInv, Call PROVE IInv'
<1> USE DEF IInv
<1>1. <<>> \in Seq(Words) /\ Len(<<>>) = 0
  BY EmptySeq
<1>2. TypeOK'
  BY <1>1 DEF Call, Handles, TypeOK, dataVars, syncVars
<1>3. Aligned'
  BY DEF Call, Aligned, dataVars
<1>4. TurnInv'
  BY <1>1, Lengths, ToolAgentAssumption
     DEF Call, Handles, TurnInv, TurnLast, dataVars
<1> QED
  BY <1>2, <1>3, <1>4

LEMMA GenerateInv == ASSUME IInv, Generate PROVE IInv'
<1> USE DEF IInv
<1>1. PICK w \in Words : got' = Append(got, w)
  BY DEF Generate
<1>2. got' \in Seq(Words) /\ Len(got') = Len(got) + 1
  BY <1>1 DEF TypeOK
<1>3. TypeOK'
  BY <1>2 DEF Generate, TypeOK, dataVars, syncVars
<1>4. Aligned'
  BY DEF Generate, Aligned, dataVars
<1>5. TurnInv'
  BY <1>2, Lengths, ToolAgentAssumption
     DEF Generate, TurnInv, TurnLast, dataVars
<1> QED
  BY <1>3, <1>4, <1>5

\* A part of a turn is kept, in whatever way the answer came.
LEMMA CancelledInv ==
  ASSUME IInv, NEW part \in Seq(Words), Cancelled(part), state = "generating",
         UNCHANGED syncVars, run \in {"loop", "call"}, run' = "loop", ~cut',
         cut' \in BOOLEAN, got' \in Seq(Words)
  PROVE  IInv'
<1> USE DEF IInv
<1>1. KeepPart(part)
  BY DEF Cancelled
<1>2. TypeOK'
  BY SMTT(30), <1>1, KeepPartFacts DEF Cancelled, TypeOK, syncVars, Tokens, Bits
<1>3. Aligned'
  BY <1>1, KeepPartFacts
<1>4. TurnInv'
  <2>1. state' = "generating" => Len(mask') < ResponseLength
    <3>1. Len(mask') \in Nat
      BY <1>2, LenProperties DEF TypeOK
    <3> QED
      BY <3>1, ToolAgentAssumption DEF Cancelled
  <2>2. TurnLast'
    BY <1>1, KeepPartFacts DEF TurnInv
  <2>3. state' \in {"generating", "terminated"}
    BY DEF Cancelled
  <2> QED
    BY <2>1, <2>2, <2>3 DEF TurnInv
<1> QED
  BY <1>2, <1>3, <1>4

LEMMA EndedInv == ASSUME IInv, AnswerEnded PROVE IInv'
<1> USE DEF IInv
<1>1. KeepPart(got) /\ got \in Seq(Words) /\ got # <<>> /\ Ended(got)
  BY DEF AnswerEnded, Ended, TypeOK
<1>2. <<>> \in Seq(Words)
  BY EmptySeq
<1>3. state' \in {"terminated", "tools", "interacting"} /\ called' \in BOOLEAN
  BY <1>1 DEF Ended, TypeOK, HasCall
<1>4. TypeOK'
  <2>1. /\ ids' \in Seq(Words \cup {"seen"}) /\ mask' \in Seq({0, 1})
        /\ logprobs' \in Nat /\ responseIds' \in Seq(Words)
        /\ turn' \in Seq(Words)
    BY <1>1, KeepPartFacts DEF Tokens, Bits
  <2>2. /\ run' = "loop" /\ got' = <<>> /\ cut' = FALSE /\ UNCHANGED syncVars
        /\ assistantTurns' = assistantTurns + 1 /\ UNCHANGED <<userTurns, toolRuns>>
    BY <1>1 DEF AnswerEnded, Ended
  <2>3. assistantTurns' \in Nat /\ userTurns' \in Nat /\ toolRuns' \in Nat
    BY <2>2 DEF TypeOK
  <2>4. /\ state' \in {"pending", "generating", "tools", "interacting", "terminated"}
        /\ run' \in {"held", "loop", "call", "done", "failed"} /\ run' # "call"
    BY <1>3, <2>2
  <2> QED
    BY <1>2, <1>3, <2>1, <2>2, <2>3, <2>4, Zenon DEF TypeOK, syncVars
<1>5. Aligned'
  BY <1>1, KeepPartFacts
<1>6. TurnInv'
  <2>1. Len(ids') > 0
    BY <1>1, <1>5, KeepPartFacts, Lengths DEF Aligned
  <2> QED
    BY <1>3, <2>1 DEF AnswerEnded, TurnInv
<1> QED
  BY <1>4, <1>5, <1>6

LEMMA ToolsInv == ASSUME IInv, Tools PROVE IInv'
<1> USE DEF IInv
<1>1. PICK n \in 1..MaxObserved :
        IF Len(mask) + n >= ResponseLength
        THEN /\ state' = "terminated"
             /\ UNCHANGED <<ids, mask, logprobs, userTurns, turn>>
        ELSE Observe(n) /\ state' = "generating"
  BY DEF Tools
<1>2. n \in Nat
  BY ToolAgentAssumption
<1>3. CASE Len(mask) + n >= ResponseLength
  <2>1. TypeOK' /\ Aligned'
    BY <1>1, <1>3 DEF Tools, Handles, TypeOK, Aligned, syncVars
  <2>2. TurnInv'
    BY <1>1, <1>3 DEF Tools, Handles, TurnInv
  <2> QED
    BY <2>1, <2>2
<1>4. CASE ~(Len(mask) + n >= ResponseLength)
  <2>1. Observe(n) /\ state' = "generating"
    BY <1>1, <1>4
  <2>2. Len(ids) > 0
    BY DEF Tools, Handles, TurnInv
  <2>3. <<>> \in Seq(Words)
    BY EmptySeq
  <2>4. TypeOK'
    <3>1. /\ ids' \in Seq(Words \cup {"seen"}) /\ mask' \in Seq({0, 1})
          /\ logprobs' \in Nat /\ turn' = <<>> /\ userTurns' = userTurns + 1
      BY <1>2, <2>1, <2>2, ObserveFacts DEF Tokens, Bits
    <3>2. /\ toolRuns' = toolRuns + 1 /\ run = "loop"
          /\ UNCHANGED <<run, responseIds, called, assistantTurns, got, cut, syncVars>>
      BY DEF Tools, Handles
    <3> QED
      BY <2>1, <2>3, <3>1, <3>2 DEF TypeOK, syncVars
  <2>5. Aligned' /\ TurnInv'
    BY <1>2, <2>1, <2>2, ObserveFacts DEF Tools, Handles, TurnInv
  <2> QED
    BY <2>4, <2>5
<1> QED
  BY <1>3, <1>4

LEMMA InteractInv == ASSUME IInv, Interact PROVE IInv'
<1> USE DEF IInv
<1>1. PICK n \in 1..MaxObserved : Observe(n)
  BY DEF Interact
<1>2. n \in Nat
  BY ToolAgentAssumption
<1>3. Len(ids) > 0
  BY DEF Interact, Handles, TurnInv
<1>4. <<>> \in Seq(Words)
  BY EmptySeq
<1>5. TypeOK'
  <2>1. /\ ids' \in Seq(Words \cup {"seen"}) /\ mask' \in Seq({0, 1})
        /\ logprobs' \in Nat /\ turn' = <<>> /\ userTurns' = userTurns + 1
    BY <1>1, <1>2, <1>3, ObserveFacts DEF Tokens, Bits
  <2>2. /\ state' \in {"generating", "terminated"} /\ run = "loop"
        /\ UNCHANGED <<run, responseIds, called, assistantTurns, toolRuns, got, cut,
                       syncVars>>
    BY DEF Interact, Handles
  <2> QED
    BY <1>4, <2>1, <2>2 DEF TypeOK, syncVars
<1>6. Aligned' /\ TurnInv'
  BY <1>1, <1>2, <1>3, ObserveFacts DEF Interact, Handles, TurnInv
<1> QED
  BY <1>5, <1>6

LEMMA StepInv == IInv /\ [Next]_vars => IInv'
<1> SUFFICES ASSUME IInv, [Next]_vars PROVE IInv'
  OBVIOUS
<1>1. CASE AnswerRefused
  <2>1. <<>> \in Seq(Words)
    BY EmptySeq
  <2> QED
    BY <1>1, <2>1, CancelledInv DEF AnswerRefused, Handles, IInv, TypeOK
<1>2. CASE AnswerCut
  <2>1. <<>> \in Seq(Words)
    BY EmptySeq
  <2> QED
    BY <1>2, <2>1, CancelledInv DEF AnswerCut, IInv, TypeOK
<1> QED
  BY <1>1, <1>2, QuietInv, PendingInv, CallInv, GenerateInv, EndedInv,
     ToolsInv, InteractInv DEF Next, Agent

LEMMA Invariance == Spec => []IInv
<1> QED
  BY InitInv, StepInv, PTL DEF Spec

\* Token, mask and log probability of a trajectory stay together however often
\* it is interrupted, and the mask is 0 exactly at the tokens it was given
\* (the four places of AsyncPartialToolAgentLoop that extend the lists).
THEOREM StaysAligned == FairSpec => []Aligned
<1>1. FairSpec => Spec
  BY DEF FairSpec
<1>2. IInv => Aligned
  BY DEF IInv
<1> QED
  BY <1>1, <1>2, Invariance, PTL

-----------------------------------------------------------------------------
(* The refinement of ToolAgentLoop.                                        *)

Stage == IF run = "failed" THEN "raised" ELSE state
Shown == SubSeq(mask, 1, Len(mask) - Unfinished)

\* The mask without the last u tokens.
LEMMA Prefix ==
  ASSUME NEW m \in Seq(Bits), NEW u \in 0..Len(m)
  PROVE  /\ SubSeq(m, 1, Len(m) - u) \in Seq(Bits)
         /\ Len(SubSeq(m, 1, Len(m) - u)) = Len(m) - u
         /\ \A i \in 1..(Len(m) - u) : SubSeq(m, 1, Len(m) - u)[i] = m[i]
<1>1. Len(m) \in Nat
  BY LenProperties
<1>2. Len(m) - u \in Nat /\ Len(m) - u \in Int /\ 1 \in Int
  BY <1>1
<1>3. \A i \in 1..(Len(m) - u) : m[i] \in Bits
  BY <1>1, ElementOfSeq
<1>4. /\ SubSeq(m, 1, Len(m) - u) \in Seq(Bits)
      /\ Len(SubSeq(m, 1, Len(m) - u))
           = IF 1 <= Len(m) - u THEN (Len(m) - u) - 1 + 1 ELSE 0
      /\ \A i \in 1..((Len(m) - u) - 1 + 1) :
           SubSeq(m, 1, Len(m) - u)[i] = m[1 + i - 1]
  BY ONLY <1>2, <1>3, SubSeqProperties
<1> QED
  BY <1>2, <1>4

LEMMA OnesFacts ==
  ASSUME NEW n \in Nat
  PROVE  /\ Ones(n) \in Seq(Bits) /\ Len(Ones(n)) = n
         /\ \A i \in 1..n : Ones(n)[i] = 1
BY DEF Ones, Bits

\* What is appended does not change the tokens before it.
LEMMA PrefixOfConcat ==
  ASSUME NEW m \in Seq(Bits), NEW u \in 0..Len(m), NEW k \in Nat
  PROVE  SubSeq(m \o Ones(k), 1, Len(m) - u) = SubSeq(m, 1, Len(m) - u)
<1> DEFINE c == m \o Ones(k)
           p == SubSeq(m, 1, Len(m) - u)
           q == SubSeq(c, 1, Len(c) - (u + k))
<1>1. Len(m) \in Nat /\ Ones(k) \in Seq(Bits) /\ Len(Ones(k)) = k
  BY LenProperties, OnesFacts
<1>2. /\ c \in Seq(Bits) /\ Len(c) = Len(m) + k
      /\ \A i \in 1..Len(m) + k :
           c[i] = IF i <= Len(m) THEN m[i] ELSE Ones(k)[i - Len(m)]
  BY ONLY m \in Seq(Bits), <1>1, ConcatProperties
<1>3. u + k \in 0..Len(c) /\ Len(c) - (u + k) = Len(m) - u
  BY <1>1, <1>2
<1>4. /\ p \in Seq(Bits) /\ Len(p) = Len(m) - u
      /\ \A i \in 1..(Len(m) - u) : p[i] = m[i]
  BY Prefix
<1> HIDE DEF c
<1>5. /\ q \in Seq(Bits) /\ Len(q) = Len(m) - u
      /\ \A i \in 1..(Len(m) - u) : q[i] = c[i]
  BY <1>2, <1>3, Prefix
<1>6. \A i \in 1..(Len(m) - u) : c[i] = m[i]
  BY <1>1, <1>2
<1> HIDE DEF p, q
<1>7. p = q
  BY ONLY <1>4, <1>5, <1>6, SeqEqual
<1> QED
  BY <1>3, <1>7 DEF p, q, c

\* A mask that ends with u ones is what is before them and the ones.
LEMMA TurnAppended ==
  ASSUME NEW m \in Seq(Bits), NEW u \in 0..Len(m), NEW k \in Nat,
         \A i \in 1..u : m[Len(m) - u + i] = 1
  PROVE  m \o Ones(k) = SubSeq(m, 1, Len(m) - u) \o Ones(u + k)
<1> DEFINE c == m \o Ones(k)
           p == SubSeq(m, 1, Len(m) - u)
           d == p \o Ones(u + k)
<1>1. /\ Len(m) \in Nat /\ Len(m) - u \in Nat /\ u + k \in Nat
      /\ Ones(k) \in Seq(Bits) /\ Len(Ones(k)) = k
      /\ Ones(u + k) \in Seq(Bits) /\ Len(Ones(u + k)) = u + k
      /\ \A i \in 1..k : Ones(k)[i] = 1
      /\ \A i \in 1..u + k : Ones(u + k)[i] = 1
  <2>1. Len(m) \in Nat /\ u + k \in Nat
    BY LenProperties
  <2> QED
    BY <2>1, OnesFacts
<1>2. /\ c \in Seq(Bits) /\ Len(c) = Len(m) + k
      /\ \A i \in 1..Len(m) + k :
           c[i] = IF i <= Len(m) THEN m[i] ELSE Ones(k)[i - Len(m)]
  <2> DEFINE o == Ones(k)
  <2>1. o \in Seq(Bits) /\ Len(o) = k
    BY <1>1
  <2> HIDE DEF o
  <2>2. /\ m \o o \in Seq(Bits) /\ Len(m \o o) = Len(m) + Len(o)
        /\ \A i \in 1..Len(m) + Len(o) :
             (m \o o)[i] = IF i <= Len(m) THEN m[i] ELSE o[i - Len(m)]
    BY ONLY m \in Seq(Bits), <2>1, ConcatProperties
  <2> QED
    BY <2>1, <2>2 DEF o
<1>3. /\ p \in Seq(Bits) /\ Len(p) = Len(m) - u
      /\ \A i \in 1..(Len(m) - u) : p[i] = m[i]
  BY Prefix
<1> HIDE DEF c, p
<1>4. /\ d \in Seq(Bits) /\ Len(d) = (Len(m) - u) + (u + k)
      /\ \A i \in 1..(Len(m) - u) + (u + k) :
           d[i] = IF i <= Len(m) - u THEN p[i] ELSE Ones(u + k)[i - (Len(m) - u)]
  <2> DEFINE o == Ones(u + k)
  <2>1. o \in Seq(Bits) /\ Len(o) = u + k
    BY <1>1
  <2> HIDE DEF o
  <2>2. /\ p \o o \in Seq(Bits) /\ Len(p \o o) = Len(p) + Len(o)
        /\ \A i \in 1..Len(p) + Len(o) :
             (p \o o)[i] = IF i <= Len(p) THEN p[i] ELSE o[i - Len(p)]
    BY ONLY <1>3, <2>1, ConcatProperties
  <2> QED
    BY <1>3, <2>1, <2>2 DEF o
<1> HIDE DEF d
<1>5. ASSUME NEW i \in 1..Len(m) + k
      PROVE  c[i] = d[i]
  <2>1. i \in Nat /\ i \in 1..(Len(m) - u) + (u + k)
    BY <1>1
  <2>2. CASE i <= Len(m) - u
    <3>1. i \in 1..(Len(m) - u) /\ i <= Len(m)
      BY <1>1, <2>2
    <3> QED
      BY <1>2, <1>3, <1>4, <2>1, <2>2, <3>1
  <2>3. CASE ~(i <= Len(m) - u)
    <3>1. i - (Len(m) - u) \in 1..u + k
      BY <1>1, <2>3
    <3>2. d[i] = 1
      BY ONLY <1>1, <1>4, <2>1, <2>3, <3>1
    <3>3. c[i] = 1
      <4>1. CASE i <= Len(m)
        <5>1. i - (Len(m) - u) \in 1..u /\ Len(m) - u + (i - (Len(m) - u)) = i
          BY <1>1, <2>3, <4>1
        <5>2. m[Len(m) - u + (i - (Len(m) - u))] = 1
          BY <5>1
        <5> QED
          BY <1>2, <4>1, <5>1, <5>2
      <4>2. CASE ~(i <= Len(m))
        <5>1. i - Len(m) \in 1..k
          BY <1>1, <4>2
        <5> QED
          BY <1>1, <1>2, <4>2, <5>1
      <4> QED
        BY <4>1, <4>2
    <3> QED
      BY <3>2, <3>3
  <2> QED
    BY <2>2, <2>3
<1>6. Len(c) = Len(d) /\ \A i \in 1..Len(c) : c[i] = d[i]
  BY <1>1, <1>2, <1>4, <1>5
<1>7. c = d
  BY ONLY <1>2, <1>4, <1>6, SeqEqual
<1> QED
  BY <1>7 DEF c, d, p

\* What is seen of the turns is the mask, less the unfinished turn.
LEMMA ShownFacts ==
  ASSUME IInv
  PROVE  /\ Shown \in Seq(Bits)
         /\ Unfinished \in 0..Len(mask) /\ Len(Shown) = Len(mask) - Unfinished
         /\ state # "generating" \/ turn = <<>> => Shown = mask
<1>1. mask \in Seq(Bits)
  BY DEF IInv, TypeOK, Bits
<1>2. Unfinished \in 0..Len(mask)
  BY Lengths DEF IInv, Unfinished, TurnInv, TurnLast
<1>3. ASSUME state # "generating" \/ turn = <<>> PROVE Shown = mask
  <2>1. Len(mask) - Unfinished = Len(mask)
    BY <1>3, Lengths DEF IInv, Unfinished
  <2> QED
    BY <1>1, <2>1, SubSeqFull DEF Shown
<1> QED
  BY <1>1, <1>2, <1>3, Prefix DEF Shown

\* A mask is shown whole when no turn is unfinished in the next state.
LEMMA ShownNext ==
  ASSUME IInv', state' # "generating" \/ turn' = <<>>
  PROVE  Shown' = mask'
<1>1. mask' \in Seq(Bits) /\ TypeOK'
  BY DEF IInv, TypeOK, Bits
<1>2. Len(mask') \in Nat /\ Len(<<>>) = 0
  BY <1>1, LenProperties, EmptySeq
<1>3. Unfinished' = 0
  BY <1>2 DEF Unfinished
<1>4. Len(mask') - Unfinished' = Len(mask')
  BY <1>2, <1>3
<1>5. SubSeq(mask', 1, Len(mask')) = mask'
  BY <1>1, SubSeqFull
<1> QED
  BY <1>4, <1>5 DEF Shown

\* A turn that is over is one step of the abstract loop, in however many parts
\* it came.
LEMMA TurnRefines ==
  ASSUME IInv, IInv', run # "failed", run' # "failed", state = "generating",
         NEW part \in Seq(Words), KeepPart(part), NEW c \in BOOLEAN,
         state' = Loop!AfterTurn(Len(mask'), assistantTurns + 1, c),
         state' # "generating",
         part # <<>> \/ turn # <<>> \/ Len(mask) >= ResponseLength,
         part # <<>> \/ turn # <<>> => Len(mask) + Len(part) <= ModelLength,
         assistantTurns' = assistantTurns + 1, UNCHANGED <<userTurns, toolRuns>>
  PROVE  Loop!Next
<1> DEFINE n == Len(turn) + Len(part)
<1>1. /\ mask \in Seq(Bits) /\ Len(mask) \in Nat /\ Len(turn) \in Nat
      /\ Len(part) \in Nat /\ n \in Nat
      /\ (part # <<>> => Len(part) > 0) /\ (turn # <<>> => Len(turn) > 0)
      /\ (part = <<>> => Len(part) = 0) /\ (turn = <<>> => Len(turn) = 0)
  BY Lengths, LenProperties, EmptySeq DEF IInv, TypeOK, Bits
<1>2. /\ Len(turn) \in 0..Len(mask)
      /\ \A i \in 1..Len(turn) : mask[Len(mask) - Len(turn) + i] = 1
  BY <1>1 DEF IInv, TurnInv, TurnLast
<1>3. /\ mask' = mask \o Ones(Len(part)) /\ Len(mask') = Len(mask) + Len(part)
  BY KeepPartFacts DEF IInv
<1>4. Shown = SubSeq(mask, 1, Len(mask) - Len(turn)) /\ Len(Shown) = Len(mask) - Len(turn)
  BY ShownFacts DEF Shown, Unfinished
<1>5. mask \o Ones(Len(part)) = SubSeq(mask, 1, Len(mask) - Len(turn)) \o Ones(n)
  BY <1>1, <1>2, TurnAppended
<1>6. Shown' = Shown \o Ones(n)
  BY <1>3, <1>4, <1>5, ShownNext
<1>7. /\ Len(Shown) + n = Len(mask')
      /\ n > 0 \/ Len(Shown) >= ResponseLength
      /\ n > 0 => Len(Shown) + n <= ModelLength
      /\ n \in 0..ModelLength
  <2>1. /\ n = 0 => part = <<>> /\ turn = <<>> /\ Len(Shown) = Len(mask)
        /\ n > 0 => part # <<>> \/ turn # <<>>
    BY <1>1, <1>4
  <2>2. n > 0 => Len(mask) + Len(part) <= ModelLength
    BY <2>1
  <2>3. n = 0 => Len(Shown) >= ResponseLength
    BY <2>1
  <2>4. Len(Shown) + n = Len(mask) + Len(part) /\ n <= Len(mask) + Len(part)
    <3>1. /\ Len(mask) \in Nat /\ Len(turn) \in Nat /\ Len(part) \in Nat
          /\ Len(turn) <= Len(mask) /\ Len(Shown) = Len(mask) - Len(turn)
      BY <1>1, <1>2, <1>4
    <3> QED
      BY ONLY <3>1
  <2>5. ModelLength \in Nat
    BY ToolAgentAssumption
  <2> HIDE DEF n
  <2> QED
    BY ONLY <1>1, <1>3, <2>2, <2>3, <2>4, <2>5
<1>8. Ones(n) = Loop!Many(1, n)
  BY DEF Ones, Loop!Many
<1>9. Stage = "generating" /\ Stage' = Loop!AfterTurn(Len(Shown) + n, assistantTurns + 1, c)
  BY <1>7 DEF Stage
<1> HIDE DEF n
<1>10. Loop!Generate
  BY <1>6, <1>7, <1>8, <1>9 DEF Loop!Generate, Stage, Shown
<1> QED
  BY <1>10 DEF Loop!Next

\* A part of a turn is nothing, unless it fills the response.
LEMMA CancelledRefines ==
  ASSUME IInv, IInv', run # "failed", run' # "failed", state = "generating",
         NEW part \in Seq(Words), Cancelled(part),
         part # <<>> => Len(mask) + Len(part) <= ModelLength
  PROVE  Loop!Next \/ UNCHANGED Loop!vars
<1>1. KeepPart(part) /\ UNCHANGED <<userTurns, toolRuns>>
  BY DEF Cancelled
<1>2. /\ mask \in Seq(Bits) /\ Len(mask) \in Nat /\ Len(turn) \in Nat
      /\ Len(part) \in Nat /\ (part = <<>> => Len(part) = 0)
  BY Lengths, LenProperties, EmptySeq DEF IInv, TypeOK, Bits
<1>3. /\ mask' = mask \o Ones(Len(part)) /\ Len(mask') = Len(mask) + Len(part)
      /\ Len(turn') = Len(turn) + Len(part)
  BY <1>1, KeepPartFacts DEF IInv
<1>4. CASE Len(mask') >= ResponseLength
  <2>1. state' = "terminated" /\ assistantTurns' = assistantTurns + 1
    BY <1>4 DEF Cancelled
  <2>2. state' = Loop!AfterTurn(Len(mask'), assistantTurns + 1, FALSE)
    BY <1>4, <2>1 DEF Loop!AfterTurn, Loop!LimitReached
  <2>3. part # <<>> \/ turn # <<>> \/ Len(mask) >= ResponseLength
    BY <1>2, <1>3, <1>4
  <2>4. part # <<>> \/ turn # <<>> => Len(mask) + Len(part) <= ModelLength
    BY <1>2, ToolAgentAssumption DEF IInv, TurnInv
  <2> QED
    BY <1>1, <2>1, <2>2, <2>3, <2>4, TurnRefines
<1>5. CASE ~(Len(mask') >= ResponseLength)
  <2>1. state' = "generating" /\ UNCHANGED assistantTurns
    BY <1>5 DEF Cancelled
  <2>2. Unfinished = Len(turn) /\ Unfinished' = Len(turn) + Len(part)
    BY <1>3, <2>1 DEF Unfinished
  <2>3. Len(mask') - Unfinished' = Len(mask) - Len(turn) /\ Len(turn) \in 0..Len(mask)
    BY <1>2, <1>3, <2>2 DEF IInv, TurnInv, TurnLast
  <2>4. Shown' = Shown
    BY <1>2, <1>3, <2>2, <2>3, PrefixOfConcat DEF Shown
  <2>5. Stage' = Stage
    BY <2>1 DEF Stage
  <2> QED
    BY <1>1, <2>1, <2>4, <2>5 DEF Loop!vars, Stage, Shown
<1> QED
  BY <1>4, <1>5

LEMMA EndedRefines ==
  ASSUME IInv, IInv', AnswerEnded
  PROVE  Loop!Next
<1>1. /\ run = "call" /\ run' = "loop" /\ state = "generating" /\ got \in Seq(Words)
      /\ got # <<>> /\ Ended(got) /\ KeepPart(got)
      /\ Len(mask) + Len(got) <= ModelLength
  BY DEF AnswerEnded, Ended, IInv, TypeOK, TurnInv, Aligned
<1>2. /\ assistantTurns' = assistantTurns + 1 /\ UNCHANGED <<userTurns, toolRuns>>
      /\ state' \in {"terminated", "tools", "interacting"} /\ called' \in BOOLEAN
  BY <1>1 DEF Ended, IInv, TypeOK
<1>3. state' = Loop!AfterTurn(Len(mask'), assistantTurns + 1, called')
  BY <1>1, <1>2
     DEF Ended, LimitReached, Loop!AfterTurn, Loop!LimitReached
<1> QED
  BY <1>1, <1>2, <1>3, TurnRefines

LEMMA PendingRefines ==
  ASSUME IInv, IInv', Pending
  PROVE  Loop!Next
<1>1. /\ run = "loop" /\ run' = run /\ state = "pending" /\ state' = "generating"
      /\ turn' = <<>> /\ UNCHANGED <<mask, assistantTurns, userTurns, toolRuns>>
  BY DEF Pending, Handles, IInv, TurnInv
<1>2. Shown = mask /\ Shown' = mask'
  BY <1>1, ShownFacts, ShownNext
<1>3. Loop!Pending
  BY <1>1, <1>2 DEF Loop!Pending, Stage, Shown
<1> QED
  BY <1>3 DEF Loop!Next

LEMMA RaiseRefines ==
  ASSUME IInv, IInv', CallRaises
  PROVE  Loop!Next
<1>1. /\ run = "loop" /\ run' = "failed" /\ state = "generating"
      /\ UNCHANGED <<state, mask, turn, assistantTurns, userTurns, toolRuns>>
      /\ Len(mask) >= ModelLength
  BY DEF CallRaises, Handles, dataVars, IInv, Aligned
<1>2. turn = <<>>
  BY <1>1, Lengths, ToolAgentAssumption DEF IInv, TurnInv
<1>3. Shown = mask /\ Shown' = mask'
  BY <1>1, <1>2, ShownFacts, ShownNext
<1>4. Loop!Raise
  BY <1>1, <1>3 DEF Loop!Raise, Stage, Shown
<1> QED
  BY <1>4 DEF Loop!Next

LEMMA ToolsRefines ==
  ASSUME IInv, IInv', Tools
  PROVE  Loop!Next
<1>1. /\ run = "loop" /\ run' = run /\ state = "tools" /\ toolRuns' = toolRuns + 1
      /\ UNCHANGED assistantTurns
  BY DEF Tools, Handles
<1>2. PICK n \in 1..MaxObserved :
        IF Len(mask) + n >= ResponseLength
        THEN /\ state' = "terminated"
             /\ UNCHANGED <<ids, mask, logprobs, userTurns, turn>>
        ELSE Observe(n) /\ state' = "generating"
  BY DEF Tools
<1>3. Shown = mask /\ Stage = "tools" /\ Stage' = state'
  BY <1>1, ShownFacts DEF Stage
<1>4. Shown' = mask'
  BY <1>2, ShownNext DEF Observe
<1>5. IF Len(Shown) + n >= ResponseLength
      THEN Stage' = "terminated" /\ UNCHANGED <<Shown, userTurns>>
      ELSE /\ Shown' = Shown \o Loop!Many(0, n)
           /\ userTurns' = userTurns + 1
           /\ Stage' = "generating"
  BY <1>2, <1>3, <1>4 DEF Observe, Loop!Many
<1>6. Loop!Tools
  BY <1>1, <1>3, <1>5 DEF Loop!Tools, Stage, Shown
<1> QED
  BY <1>6 DEF Loop!Next

LEMMA InteractRefines ==
  ASSUME IInv, IInv', Interact
  PROVE  Loop!Next
<1>1. /\ run = "loop" /\ run' = run /\ state = "interacting"
      /\ state' \in {"generating", "terminated"}
      /\ UNCHANGED <<assistantTurns, toolRuns>>
  BY DEF Interact, Handles
<1>2. PICK n \in 1..MaxObserved : Observe(n)
  BY DEF Interact
<1>3. Shown = mask /\ Stage = "interacting" /\ Stage' = state'
  BY <1>1, ShownFacts DEF Stage
<1>4. Shown' = mask'
  BY <1>2, ShownNext DEF Observe
<1>5. Shown' = Shown \o Loop!Many(0, n) /\ userTurns' = userTurns + 1
  BY <1>2, <1>3, <1>4 DEF Observe, Loop!Many
<1>6. Loop!Interact
  BY <1>1, <1>3, <1>5 DEF Loop!Interact, Stage, Shown
<1> QED
  BY <1>6 DEF Loop!Next

\* What does not change the trajectory, nor raises, is nothing.
LEMMA SameRefines ==
  ASSUME UNCHANGED <<state, dataVars>>, run' = "failed" <=> run = "failed"
  PROVE  UNCHANGED Loop!vars
<1>1. UNCHANGED <<state, mask, turn, assistantTurns, userTurns, toolRuns>>
  BY DEF dataVars
<1>2. Unfinished' = Unfinished
  BY <1>1 DEF Unfinished
<1>3. Shown' = Shown /\ Stage' = Stage
  BY <1>1, <1>2 DEF Shown, Stage
<1> QED
  BY <1>1, <1>3 DEF Loop!vars, Shown, Stage

LEMMA StepRefines ==
  ASSUME IInv, IInv', [Next]_vars
  PROVE  [Loop!Next]_(Loop!vars)
<1> SUFFICES Loop!Next \/ UNCHANGED Loop!vars
  OBVIOUS
<1>1. CASE AnswerRefused
  <2>1. <<>> \in Seq(Words)
    BY EmptySeq
  <2>2. run = "loop" /\ run' = run /\ state = "generating" /\ Cancelled(<<>>)
    BY <1>1 DEF AnswerRefused, Handles
  <2> QED
    BY <2>1, <2>2, CancelledRefines
<1>2. CASE AnswerCut
  <2>1. /\ run = "call" /\ run' = "loop" /\ state = "generating" /\ Cancelled(got)
        /\ got \in Seq(Words) /\ Len(mask) + Len(got) <= ModelLength
    BY <1>2 DEF AnswerCut, IInv, TypeOK, TurnInv, Aligned
  <2> QED
    BY <2>1, CancelledRefines
<1>3. CASE Submit \/ Terminate \/ Interrupted \/ Call \/ Generate \/ SyncBegin
             \/ SyncGoesOn \/ UNCHANGED vars
  <2>1. UNCHANGED <<state, dataVars>>
    BY <1>3 DEF Submit, Terminate, Interrupted, Call, Generate, SyncBegin,
       SyncGoesOn, CancelWorker, CancelServer, CancelEnd, GatherEnd, ResumeBegin,
       ResumeWorker, ResumeServer, ResumeEnd, agentVars, vars
  <2>2. run' = "failed" <=> run = "failed"
    BY <1>3 DEF Submit, Terminate, Interrupted, Call, Handles, Generate, SyncBegin,
       SyncGoesOn, CancelWorker, CancelServer, CancelEnd, GatherEnd, ResumeBegin,
       ResumeWorker, ResumeServer, ResumeEnd, agentVars, vars
  <2> QED
    BY <2>1, <2>2, SameRefines
<1> QED
  BY <1>1, <1>2, <1>3, EndedRefines, PendingRefines, RaiseRefines, ToolsRefines,
     InteractRefines DEF Next, Agent

\* An interrupted and resumed trajectory takes the steps of one that is never
\* interrupted: turns are counted once however many parts they come in, the
\* limits are tested at the same points and no tool runs twice for a turn
\* (AsyncPartialToolAgentLoop against ToolAgentLoop).
THEOREM LoopImplemented == FairSpec => ImplementsLoop
<1>1. Init => Loop!Init
  <2> SUFFICES ASSUME Init PROVE Loop!Init
    OBVIOUS
  <2>1. IInv
    BY InitInv
  <2>2. Shown = <<>> /\ Stage = "pending"
    BY <2>1, ShownFacts DEF Init, Stage
  <2> QED
    BY <2>2 DEF Init, Loop!Init, Shown, Stage
<1>2. IInv /\ IInv' /\ [Next]_vars => [Loop!Next]_(Loop!vars)
  BY StepRefines
<1>3. FairSpec => Spec
  BY DEF FairSpec
<1> QED
  BY <1>1, <1>2, <1>3, Invariance, PTL DEF Spec, ImplementsLoop, Loop!Spec
=============================================================================
