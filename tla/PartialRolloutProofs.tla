------------------------ MODULE PartialRolloutProofs ------------------------
(***************************************************************************)
(* Proofs about partial rollout, for every number of trajectories, servers *)
(* and synchronisations, and every length:                                 *)
(*   - a response that is interrupted and resumed stays one text, nothing  *)
(*     of which is generated twice;                                        *)
(*   - the versions a response is stamped with enclose those that          *)
(*     generated it;                                                       *)
(*   - nothing that is waited for is generated during a transfer;          *)
(*   - a sample is done when nothing of it is left to resume;              *)
(*   - the servers, the agent loops and the worker implement the task of   *)
(*     module SampleTask, which module FullyAsync runs for every sample.   *)
(***************************************************************************)
EXTENDS PartialRollout, SequenceTheorems, TLAPS

\* The weights are one behind the synchronisations until they are transferred.
WeightsInv ==
  weights = IF sync \in {"cancel", "gather", "quiet"} THEN syncs - 1 ELSE syncs

\* What a call knows: nothing is generated before it is accepted, and a sample
\* nobody runs has no calls.
CallInv ==
  \A t \in Trajectories :
    /\ call[t] \in {"idle", "sent"} => got[t] = <<>> /\ ~ended[t] /\ ~event[t]
    /\ call[t] \in {"gen", "full"} => served[t]
    /\ call[t] = "cut" /\ ~served[t] => got[t] = <<>>
    /\ sample \in {"held", "done"} => call[t] = "idle" /\ ~served[t]

\* What an output may be while the sample runs.
OutputInv ==
  /\ \A t \in Trajectories :
       /\ output[t].kind # "complete" => Len(output[t].tokens) < ResponseLength
       /\ call[t] # "idle" => output[t].kind # "complete"
       /\ sample = "running" /\ call[t] = "idle" => output[t].kind # "none"
  /\ HeldOrDone

\* Which servers refuse, and which generations have been told to stop.
ServerInv ==
  /\ sync = "run" => refusing = {}
  /\ sync \in {"gather", "quiet", "moved", "updated"} => refusing = Servers
  /\ \A t \in Trajectories :
       /\ call[t] = "gen" /\ at[t] \in refusing => event[t]
       /\ sync \in {"quiet", "moved", "updated"} /\ call[t] = "gen" =>
            sample = "failed"
       /\ sample = "running" /\ event[t] => sync \in {"cancel", "gather"}

\* What is kept of a response and what the engine has added to it.
Text(t) == output[t].tokens \o got[t]

\* The positions of a text follow one another, the versions never go back.
InOrder(q, w) ==
  \A i \in 1..Len(q) : /\ q[i][1] = i
                       /\ q[i][2] <= w
                       /\ i > 1 => q[i - 1][2] <= q[i][2]

TextInv == \A t \in Trajectories : InOrder(Text(t), weights)

RolloutInv == TypeOK /\ WeightsInv /\ CallInv /\ OutputInv /\ ServerInv

-----------------------------------------------------------------------------
(* Types.                                                                  *)

LEMMA OutputType ==
  ASSUME TypeOK, NEW t \in Trajectories
  PROVE  /\ output[t].kind \in {"none", "cancelled", "complete"}
         /\ output[t].tokens \in Seq(Tokens)
         /\ output[t].start \in 0..MaxSyncs
         /\ got[t] \in Seq(Tokens)
         /\ Len(output[t].tokens) \in Nat /\ Len(got[t]) \in Nat
         /\ Len(output[t].tokens) <= ResponseLength
<1>1. output[t] \in Outputs /\ got[t] \in Seq(Tokens)
  BY DEF TypeOK
<1>2. /\ output[t].kind \in {"none", "cancelled", "complete"}
      /\ output[t].tokens \in Seq(Tokens)
      /\ output[t].start \in 0..MaxSyncs
  BY <1>1 DEF Outputs
<1>3. Len(output[t].tokens) \in Nat /\ Len(got[t]) \in Nat
  BY <1>1, <1>2, LenProperties
<1> QED
  BY <1>1, <1>2, <1>3 DEF TypeOK

LEMMA ConcatOfTokens ==
  ASSUME NEW S, NEW p \in Seq(S), NEW q \in Seq(S)
  PROVE  /\ p \o q \in Seq(S)
         /\ Len(p \o q) \in Nat
         /\ Len(p) <= Len(p \o q)
         /\ \A i \in 1..Len(p \o q) : (p \o q)[i] \in S
         /\ \A i \in 1..Len(p) : (p \o q)[i] = p[i]
<1>1. Len(p) \in Nat /\ Len(q) \in Nat
  BY LenProperties
<1>2. /\ p \o q \in Seq(S)
      /\ Len(p \o q) = Len(p) + Len(q)
      /\ \A i \in 1..Len(p) + Len(q) :
           (p \o q)[i] = IF i <= Len(p) THEN p[i] ELSE q[i - Len(p)]
  BY ConcatProperties
<1>3. \A i \in 1..Len(p \o q) : (p \o q)[i] \in S
  BY <1>2, ElementOfSeq
<1>4. ASSUME NEW i \in 1..Len(p) PROVE (p \o q)[i] = p[i]
  <2>1. i \in 1..Len(p) + Len(q) /\ i <= Len(p)
    BY <1>1
  <2> QED
    BY <2>1, <1>2
<1> QED
  BY <1>1, <1>2, <1>3, <1>4

LEMMA TextType ==
  ASSUME TypeOK, NEW t \in Trajectories
  PROVE  /\ Text(t) \in Seq(Tokens)
         /\ Len(Text(t)) \in Nat
         /\ Len(output[t].tokens) <= Len(Text(t))
         /\ \A i \in 1..Len(output[t].tokens) : Text(t)[i] = output[t].tokens[i]
         /\ \A i \in 1..Len(Text(t)) :
              Text(t)[i] \in Tokens /\ Text(t)[i][1] \in Nat /\ Text(t)[i][2] \in Nat
<1>1. output[t].tokens \in Seq(Tokens) /\ got[t] \in Seq(Tokens)
  BY OutputType
<1>2. \A x \in Tokens : x[1] \in Nat /\ x[2] \in Nat
  BY RolloutAssumption DEF Tokens
<1> QED
  BY <1>1, <1>2, ConcatOfTokens DEF Text

\* What the agent loop returns: the text, cut at response_length.
LEMMA JoinedType ==
  ASSUME TypeOK, NEW t \in Trajectories
  PROVE  /\ Joined(t) \in Outputs
         /\ Joined(t).kind = IF call[t] = "cut" /\ Len(Text(t)) < ResponseLength
                             THEN "cancelled" ELSE "complete"
         /\ Len(Joined(t).tokens) <= ResponseLength
         /\ Len(Joined(t).tokens) <= Len(Text(t))
         /\ Len(output[t].tokens) <= Len(Joined(t).tokens)
         /\ \A i \in 1..Len(Joined(t).tokens) : Joined(t).tokens[i] = Text(t)[i]
<1> DEFINE n == IF Len(Text(t)) < ResponseLength THEN Len(Text(t))
                ELSE ResponseLength
<1>1. /\ Joined(t).kind = IF call[t] = "cut" /\ Len(Text(t)) < ResponseLength
                          THEN "cancelled" ELSE "complete"
      /\ Joined(t).tokens = SubSeq(Text(t), 1, n)
  BY DEF Joined, Prefix, Text
<1>2. /\ n \in Nat /\ n <= Len(Text(t)) /\ n <= ResponseLength
      /\ Len(output[t].tokens) <= n
  <2>1. Len(Text(t)) \in Nat /\ Len(output[t].tokens) <= Len(Text(t))
    BY TextType
  <2>2. Len(output[t].tokens) <= ResponseLength
    BY OutputType
  <2>3. ResponseLength \in Nat
    BY RolloutAssumption
  <2> QED
    BY <2>1, <2>2, <2>3
<1>3. \A i \in 1..n : Text(t)[i] \in Tokens
  <2>1. \A i \in 1..Len(Text(t)) : Text(t)[i] \in Tokens
    BY TextType
  <2>2. Len(Text(t)) \in Nat
    BY TextType
  <2> HIDE DEF n
  <2> QED
    BY <1>2, <2>1, <2>2
<1> HIDE DEF n
<1>4. /\ SubSeq(Text(t), 1, n) \in Seq(Tokens)
      /\ Len(SubSeq(Text(t), 1, n)) = IF 1 <= n THEN n - 1 + 1 ELSE 0
      /\ \A i \in 1..(n - 1 + 1) : SubSeq(Text(t), 1, n)[i] = Text(t)[1 + i - 1]
  BY <1>2, <1>3, SubSeqProperties
<1>5. /\ Len(Joined(t).tokens) = n
      /\ \A i \in 1..n : Joined(t).tokens[i] = Text(t)[i]
  BY <1>1, <1>2, <1>4
<1>6. Joined(t) \in Outputs
  <2>1. Joined(t) = [kind |-> Joined(t).kind, tokens |-> Joined(t).tokens,
                     start |-> IF output[t].kind = "cancelled"
                               THEN output[t].start ELSE ran,
                     end |-> ran]
    BY DEF Joined
  <2>2. Joined(t).tokens \in Seq(Tokens)
    BY <1>1, <1>4
  <2>3. Joined(t).kind \in {"none", "cancelled", "complete"}
    BY <1>1
  <2>4. ran \in 0..MaxSyncs /\ output[t].start \in 0..MaxSyncs
    BY OutputType DEF TypeOK
  <2> QED
    BY <2>1, <2>2, <2>3, <2>4 DEF Outputs
<1> QED
  BY <1>1, <1>2, <1>5, <1>6, TextType

LEMMA AnyServerType == AnyServer \in Servers
BY RolloutAssumption DEF AnyServer
LEMMA WaitingType ==
  ASSUME TypeOK, NEW S, NEW choice \in [Trajectories -> Servers],
         Start(S, choice)
  PROVE  TypeOK'
<1> USE DEF TypeOK, syncVars
<1>1. call' \in [Trajectories -> {"idle", "sent", "gen", "cut", "full"}]
  BY DEF Start
<1>2. at' \in [Trajectories -> Servers]
  BY DEF Start
<1> QED
  BY <1>1, <1>2 DEF Start

LEMMA ServerType ==
  ASSUME TypeOK, NEW t \in Trajectories,
         Accept(t) \/ Refuse(t) \/ Generate(t) \/ End(t) \/ Return(t)
  PROVE  TypeOK'
<1> USE DEF TypeOK, serverFrame, sampleVars, syncVars
<1>1. CASE Accept(t)
  BY <1>1 DEF Accept
<1>2. CASE Refuse(t)
  BY <1>2 DEF Refuse
<1>3. CASE Generate(t)
  <2> DEFINE p == Len(Context(t)) + Len(got[t]) + 1
  <2>1. p \in 1..ModelLength
    <3>1. p \in Nat \ {0}
      BY OutputType DEF Context
    <3>2. p <= ModelLength
      BY <1>3 DEF Generate
    <3> QED
      BY <3>1, <3>2, RolloutAssumption
  <2>2. <<p, weights>> \in Tokens
    BY <2>1 DEF Tokens
  <2>3. Append(got[t], <<p, weights>>) \in Seq(Tokens)
    BY <2>2, OutputType, AppendProperties
  <2>4. got' = [got EXCEPT ![t] = Append(got[t], <<p, weights>>)]
    BY <1>3 DEF Generate
  <2> HIDE DEF p
  <2>5. got' \in [Trajectories -> Seq(Tokens)]
    BY <2>3, <2>4
  <2> QED
    BY <1>3, <2>5 DEF Generate
<1>4. CASE End(t)
  BY <1>4 DEF End
<1>5. CASE Return(t)
  BY <1>5 DEF Return, Answered
<1> QED
  BY <1>1, <1>2, <1>3, <1>4, <1>5

LEMMA LeaveType ==
  ASSUME TypeOK, NEW t \in Trajectories, Leave(t)
  PROVE  /\ call' \in [Trajectories -> {"idle", "sent", "gen", "cut", "full"}]
         /\ at' \in [Trajectories -> Servers]
         /\ got' \in [Trajectories -> Seq(Tokens)]
         /\ ended' \in [Trajectories -> BOOLEAN]
         /\ event' \in [Trajectories -> BOOLEAN]
<1> USE DEF TypeOK, Leave
<1>1. call' \in [Trajectories -> {"idle", "sent", "gen", "cut", "full"}]
  OBVIOUS
<1>2. at' \in [Trajectories -> Servers]
  BY AnyServerType
<1>3. got' \in [Trajectories -> Seq(Tokens)]
  <2>1. <<>> \in Seq(Tokens)
    BY EmptySeq
  <2> QED
    BY <2>1
<1>4. ended' \in [Trajectories -> BOOLEAN]
  OBVIOUS
<1>5. event' \in [Trajectories -> BOOLEAN]
  OBVIOUS
<1> QED
  BY <1>1, <1>2, <1>3, <1>4, <1>5

LEMMA AnswerType ==
  ASSUME TypeOK, NEW t \in Trajectories, Fail(t) \/ Join(t) \/ Gathered
  PROVE  TypeOK'
<1> USE DEF TypeOK, sampleVars, syncVars
<1>1. CASE Fail(t)
  <2>1. Leave(t)
    BY <1>1 DEF Fail
  <2>2. failures' \in 0..MaxFailures /\ unpopped' \in Nat
    BY <1>1, RolloutAssumption DEF Fail
  <2>3. /\ call' \in [Trajectories -> {"idle", "sent", "gen", "cut", "full"}]
        /\ at' \in [Trajectories -> Servers]
        /\ got' \in [Trajectories -> Seq(Tokens)]
        /\ ended' \in [Trajectories -> BOOLEAN]
        /\ event' \in [Trajectories -> BOOLEAN]
    BY <2>1, LeaveType
  <2> QED
    BY <1>1, <2>2, <2>3 DEF Fail
<1>2. CASE Join(t)
  <2>1. Leave(t)
    BY <1>2 DEF Join
  <2>2. output' \in [Trajectories -> Outputs]
    BY <1>2, JoinedType DEF Join
  <2>3. \A u \in Trajectories : Len(output'[u].tokens) <= ResponseLength
    BY <1>2, JoinedType DEF Join
  <2> QED
    BY <1>2, <2>1, <2>2, <2>3, LeaveType DEF Join
<1>3. CASE Gathered
  BY <1>3 DEF Gathered
<1> QED
  BY <1>1, <1>2, <1>3

\* A step of the synchronisation that tells the generations nothing.
Turning ==
  \/ SyncBegin \/ CancelEnd \/ GatherEnd \/ Transfer \/ Update
  \/ ResumeBegin \/ ResumeEnd \/ \E v \in Servers : ResumeServer(v)

LEMMA SyncType ==
  ASSUME TypeOK, WeightsInv, Turning \/ \E v \in Servers : CancelServer(v)
  PROVE  TypeOK' /\ WeightsInv'
<1> USE RolloutAssumption DEF TypeOK, WeightsInv, syncFrame, sampleVars
<1>1. CASE SyncBegin
  BY <1>1 DEF SyncBegin
<1>2. ASSUME NEW v \in Servers, CancelServer(v) PROVE TypeOK' /\ WeightsInv'
  BY <1>2 DEF CancelServer
<1>3. CASE CancelEnd
  BY <1>3 DEF CancelEnd
<1>4. CASE GatherEnd
  BY <1>4 DEF GatherEnd
<1>5. CASE Transfer
  BY <1>5 DEF Transfer
<1>6. CASE Update
  BY <1>6 DEF Update
<1>7. CASE ResumeBegin
  BY <1>7 DEF ResumeBegin
<1>8. ASSUME NEW v \in Servers, ResumeServer(v) PROVE TypeOK' /\ WeightsInv'
  BY <1>8 DEF ResumeServer
<1>9. CASE ResumeEnd
  BY <1>9 DEF ResumeEnd
<1> QED
  BY <1>1, <1>2, <1>3, <1>4, <1>5, <1>6, <1>7, <1>8, <1>9 DEF Turning

LEMMA TypeInit ==
  ASSUME Init
  PROVE  TypeOK /\ WeightsInv
<1> USE RolloutAssumption DEF Init, TypeOK, WeightsInv
<1>1. <<>> \in Seq(Tokens) /\ Len(<<>>) = 0
  BY EmptySeq
<1>2. NoOutput \in Outputs /\ NoOutput.tokens = <<>>
  BY <1>1 DEF NoOutput, Outputs
<1>3. output \in [Trajectories -> Outputs]
  BY <1>2
<1>4. \A t \in Trajectories : Len(output[t].tokens) <= ResponseLength
  BY <1>1, <1>2
<1>5. at \in [Trajectories -> Servers]
  BY AnyServerType
<1>6. got \in [Trajectories -> Seq(Tokens)]
  BY <1>1
<1> QED
  BY <1>3, <1>4, <1>5, <1>6

LEMMA TypeStep ==
  ASSUME TypeOK, WeightsInv, [Next]_vars
  PROVE  TypeOK' /\ WeightsInv'
<1>1. ASSUME NEW choice \in [Trajectories -> Servers], Submit(choice)
      PROVE  TypeOK' /\ WeightsInv'
  <2>1. UNCHANGED syncVars
    BY <1>1 DEF Submit, Start, syncVars
  <2> QED
    BY <1>1, <2>1, WaitingType DEF Submit, WeightsInv, syncVars
<1>2. ASSUME NEW t \in Trajectories, Trajectory(t) \/ Gathered
      PROVE  TypeOK' /\ WeightsInv'
  <2>1. TypeOK'
    BY <1>2, ServerType, AnswerType DEF Trajectory
  <2>2. UNCHANGED syncVars
    BY <1>2 DEF Trajectory, Gathered, Accept, Refuse, Generate, End, Return,
                Fail, Join, serverFrame, syncVars
  <2> QED
    BY <2>1, <2>2 DEF WeightsInv, syncVars
<1>3. CASE SyncBegin \/ SyncGoesOn
  BY <1>3, SyncType DEF SyncGoesOn, Turning
<1>4. CASE UNCHANGED vars
  BY <1>4 DEF TypeOK, WeightsInv, vars, sampleVars, callVars, syncVars
<1>5. \E t \in Trajectories : TRUE
  BY RolloutAssumption
<1> QED
  BY <1>1, <1>2, <1>3, <1>4, <1>5 DEF Next

-----------------------------------------------------------------------------
(* The invariant.                                                          *)

LEMMA CallStep ==
  ASSUME TypeOK, CallInv, [Next]_vars
  PROVE  CallInv'
<1> USE DEF TypeOK, CallInv, serverFrame, syncFrame, sampleVars, syncVars
<1>1. ASSUME NEW choice \in [Trajectories -> Servers], Submit(choice)
      PROVE  CallInv'
  BY <1>1 DEF Submit, Start
<1>2. ASSUME NEW t \in Trajectories, Accept(t) PROVE CallInv'
  BY <1>2 DEF Accept
<1>3. ASSUME NEW t \in Trajectories, Refuse(t) PROVE CallInv'
  BY <1>3 DEF Refuse
<1>4. ASSUME NEW t \in Trajectories, Generate(t) PROVE CallInv'
  BY <1>4 DEF Generate
<1>5. ASSUME NEW t \in Trajectories, End(t) PROVE CallInv'
  BY <1>5 DEF End
<1>6. ASSUME NEW t \in Trajectories, Return(t) PROVE CallInv'
  BY <1>6 DEF Return, Answered
<1>7. ASSUME NEW t \in Trajectories, Fail(t) PROVE CallInv'
  BY <1>7 DEF Fail, Leave
<1>8. ASSUME NEW t \in Trajectories, Join(t) PROVE CallInv'
  BY <1>8 DEF Join, Leave
<1>9. CASE Gathered
  BY <1>9 DEF Gathered, Settled
<1>10. CASE SyncBegin
  BY <1>10 DEF SyncBegin
<1>11. CASE CancelEnd
  BY <1>11 DEF CancelEnd
<1>12. CASE GatherEnd
  BY <1>12 DEF GatherEnd
<1>13. CASE Transfer
  BY <1>13 DEF Transfer
<1>14. CASE Update
  BY <1>14 DEF Update
<1>15. CASE ResumeBegin
  BY <1>15 DEF ResumeBegin
<1>16. CASE ResumeEnd
  BY <1>16 DEF ResumeEnd
<1>17. ASSUME NEW v \in Servers, CancelServer(v) PROVE CallInv'
  BY <1>17 DEF CancelServer
<1>18. ASSUME NEW v \in Servers, ResumeServer(v) PROVE CallInv'
  BY <1>18 DEF ResumeServer
<1>19. CASE UNCHANGED vars
  BY <1>19 DEF vars, callVars, Resumed
<1> QED
  BY <1>1, <1>2, <1>3, <1>4, <1>5, <1>6, <1>7, <1>8, <1>9, <1>10, <1>11, <1>12, <1>13, <1>14, <1>15, <1>16, <1>17, <1>18, <1>19
     DEF Next, Trajectory, SyncGoesOn

LEMMA OutputStep ==
  ASSUME TypeOK, CallInv, OutputInv, [Next]_vars
  PROVE  OutputInv'
<1> USE DEF TypeOK, OutputInv, HeldOrDone, Resumed, serverFrame, syncFrame, sampleVars, syncVars
<1>1. ASSUME NEW choice \in [Trajectories -> Servers], Submit(choice)
      PROVE  OutputInv'
  BY <1>1, OutputType DEF Submit, Start
<1>2. ASSUME NEW t \in Trajectories, Accept(t) PROVE OutputInv'
  BY <1>2 DEF Accept
<1>3. ASSUME NEW t \in Trajectories, Refuse(t) PROVE OutputInv'
  BY <1>3 DEF Refuse
<1>4. ASSUME NEW t \in Trajectories, Generate(t) PROVE OutputInv'
  BY <1>4 DEF Generate
<1>5. ASSUME NEW t \in Trajectories, End(t) PROVE OutputInv'
  BY <1>5 DEF End
<1>6. ASSUME NEW t \in Trajectories, Return(t) PROVE OutputInv'
  BY <1>6 DEF Return, Answered
<1>7. ASSUME NEW t \in Trajectories, Fail(t) PROVE OutputInv'
  BY <1>7 DEF Fail, Leave
<1>8. ASSUME NEW t \in Trajectories, Join(t) PROVE OutputInv'
  <2>1. ASSUME NEW u \in Trajectories, u # t
        PROVE  output'[u] = output[u] /\ call'[u] = call[u]
    <3>1. \/ output' = output
          \/ output' = [output EXCEPT ![t] = Joined(t)]
      BY <1>8 DEF Join
    <3>2. output'[u] = output[u]
      BY <3>1, <2>1
    <3>3. call'[u] = call[u]
      BY <1>8, <2>1 DEF Join, Leave
    <3> QED
      BY <3>2, <3>3
  <2>2. call'[t] = "idle" /\ sample' = sample /\ sample \in {"failed", "running"}
    BY <1>8 DEF Join, Leave, CallInv
  <2>3. /\ Joined(t).kind # "complete" => Len(Joined(t).tokens) < ResponseLength
        /\ Joined(t).kind # "none"
    <3>1. /\ Len(Joined(t).tokens) \in Nat /\ Len(Text(t)) \in Nat
          /\ Len(Joined(t).tokens) <= Len(Text(t))
      <4>1. Joined(t).tokens \in Seq(Tokens)
        BY JoinedType DEF Outputs
      <4> QED
        BY <4>1, JoinedType, TextType, LenProperties
    <3>2. ResponseLength \in Nat
      BY RolloutAssumption
    <3>3. Joined(t).kind = IF call[t] = "cut" /\ Len(Text(t)) < ResponseLength
                           THEN "cancelled" ELSE "complete"
      BY JoinedType
    <3> QED
      BY <3>1, <3>2, <3>3
  <2>4. output'[t] = IF sample = "failed" THEN output[t] ELSE Joined(t)
    BY <1>8 DEF Join
  <2> QED
    BY <2>1, <2>2, <2>3, <2>4
<1>9. CASE Gathered
  BY <1>9, OutputType DEF Gathered, Settled, SomeCancelled
<1>10. CASE SyncBegin
  BY <1>10 DEF SyncBegin
<1>11. CASE CancelEnd
  BY <1>11 DEF CancelEnd
<1>12. CASE GatherEnd
  BY <1>12 DEF GatherEnd
<1>13. CASE Transfer
  BY <1>13 DEF Transfer
<1>14. CASE Update
  BY <1>14 DEF Update
<1>15. CASE ResumeBegin
  BY <1>15 DEF ResumeBegin
<1>16. CASE ResumeEnd
  BY <1>16 DEF ResumeEnd
<1>17. ASSUME NEW v \in Servers, CancelServer(v) PROVE OutputInv'
  BY <1>17 DEF CancelServer
<1>18. ASSUME NEW v \in Servers, ResumeServer(v) PROVE OutputInv'
  BY <1>18 DEF ResumeServer
<1>19. CASE UNCHANGED vars
  BY <1>19 DEF vars, callVars, Resumed
<1> QED
  BY <1>1, <1>2, <1>3, <1>4, <1>5, <1>6, <1>7, <1>8, <1>9, <1>10, <1>11, <1>12, <1>13, <1>14, <1>15, <1>16, <1>17, <1>18, <1>19
     DEF Next, Trajectory, SyncGoesOn

LEMMA ServerStep ==
  ASSUME TypeOK, CallInv, ServerInv, [Next]_vars
  PROVE  ServerInv'
<1> USE DEF TypeOK, CallInv, ServerInv, serverFrame, syncFrame, sampleVars, syncVars
<1>1. ASSUME NEW choice \in [Trajectories -> Servers], Submit(choice)
      PROVE  ServerInv'
  BY <1>1 DEF Submit, Start
<1>2. ASSUME NEW t \in Trajectories, Accept(t) PROVE ServerInv'
  BY <1>2 DEF Accept
<1>3. ASSUME NEW t \in Trajectories, Refuse(t) PROVE ServerInv'
  BY <1>3 DEF Refuse
<1>4. ASSUME NEW t \in Trajectories, Generate(t) PROVE ServerInv'
  BY <1>4 DEF Generate
<1>5. ASSUME NEW t \in Trajectories, End(t) PROVE ServerInv'
  BY <1>5 DEF End
<1>6. ASSUME NEW t \in Trajectories, Return(t) PROVE ServerInv'
  BY <1>6 DEF Return, Answered
<1>7. ASSUME NEW t \in Trajectories, Fail(t) PROVE ServerInv'
  BY <1>7 DEF Fail, Leave
<1>8. ASSUME NEW t \in Trajectories, Join(t) PROVE ServerInv'
  BY <1>8 DEF Join, Leave
<1>9. CASE Gathered
  BY <1>9 DEF Gathered
<1>10. CASE SyncBegin
  BY <1>10 DEF SyncBegin
<1>11. CASE CancelEnd
  BY <1>11 DEF CancelEnd
<1>12. CASE GatherEnd
  BY <1>12 DEF GatherEnd
<1>13. CASE Transfer
  BY <1>13 DEF Transfer
<1>14. CASE Update
  BY <1>14 DEF Update
<1>15. CASE ResumeBegin
  BY <1>15 DEF ResumeBegin
<1>16. CASE ResumeEnd
  BY <1>16 DEF ResumeEnd
<1>17. ASSUME NEW v \in Servers, CancelServer(v) PROVE ServerInv'
  BY <1>17 DEF CancelServer
<1>18. ASSUME NEW v \in Servers, ResumeServer(v) PROVE ServerInv'
  BY <1>18 DEF ResumeServer
<1>19. CASE UNCHANGED vars
  BY <1>19 DEF vars, callVars, Resumed
<1> QED
  BY <1>1, <1>2, <1>3, <1>4, <1>5, <1>6, <1>7, <1>8, <1>9, <1>10, <1>11, <1>12, <1>13, <1>14, <1>15, <1>16, <1>17, <1>18, <1>19
     DEF Next, Trajectory, SyncGoesOn

LEMMA RolloutInvariant == Spec => []RolloutInv
<1>1. Init => RolloutInv
  <2> SUFFICES ASSUME Init PROVE RolloutInv
    OBVIOUS
  <2>1. TypeOK /\ WeightsInv
    BY TypeInit
  <2>2. \A t \in Trajectories :
          output[t].kind = "none" /\ Len(output[t].tokens) = 0
    BY EmptySeq DEF Init, NoOutput
  <2>3. CallInv /\ ServerInv
    BY DEF Init, CallInv, ServerInv
  <2>4. OutputInv
    BY <2>2, RolloutAssumption DEF Init, OutputInv, HeldOrDone, Resumed
  <2> QED
    BY <2>1, <2>3, <2>4 DEF RolloutInv
<1>2. RolloutInv /\ [Next]_vars => RolloutInv'
  BY TypeStep, CallStep, OutputStep, ServerStep DEF RolloutInv
<1> QED
  BY <1>1, <1>2, PTL DEF Spec

\* Type correctness: no response is longer than response_length, and none of
\* the versions gets ahead of the synchronisations.
THEOREM TypeCorrectness == Spec => []TypeOK
<1>1. RolloutInv => TypeOK
  BY DEF RolloutInv
<1> QED
  BY <1>1, RolloutInvariant, PTL

\* A sample the Rollouter has counted as done has the whole response of every
\* trajectory, and one in cancel_queue has something to resume.
THEOREM SamplesComplete == Spec => []HeldOrDone
<1>1. RolloutInv => HeldOrDone
  BY DEF RolloutInv, OutputInv
<1> QED
  BY <1>1, RolloutInvariant, PTL

\* Between cancel() and resume() of the Rollouter no engine generates for a
\* sample that is waited for.
THEOREM TransfersAreQuiet == Spec => []QuietTransfer
<1>1. RolloutInv => QuietTransfer
  BY DEF RolloutInv, TypeOK, ServerInv, QuietTransfer
<1> QED
  BY <1>1, RolloutInvariant, PTL

-----------------------------------------------------------------------------
(* The text of a response.                                                 *)

LEMMA InOrderPrefix ==
  ASSUME NEW q, NEW p, NEW w, InOrder(q, w), Len(q) \in Nat, Len(p) \in Nat,
         Len(p) <= Len(q), \A i \in 1..Len(p) : p[i] = q[i]
  PROVE  InOrder(p, w)
<1>1. ASSUME NEW i \in 1..Len(p)
      PROVE  /\ i \in 1..Len(q) /\ p[i] = q[i]
             /\ i > 1 => p[i - 1] = q[i - 1]
  OBVIOUS
<1> QED
  BY <1>1 DEF InOrder

LEMMA InOrderAppend ==
  ASSUME NEW q \in Seq(Tokens), NEW w \in 0..MaxSyncs, InOrder(q, w),
         Len(q) + 1 <= ModelLength
  PROVE  InOrder(Append(q, <<Len(q) + 1, w>>), w)
<1> DEFINE x == <<Len(q) + 1, w>>
           r == Append(q, x)
<1>1. Len(q) \in Nat
  BY LenProperties
<1>2. x \in Tokens /\ x[1] = Len(q) + 1 /\ x[2] = w
  BY <1>1, RolloutAssumption DEF Tokens
<1> HIDE DEF x
<1>3. /\ Len(r) = Len(q) + 1
      /\ \A i \in 1..Len(q) : r[i] = q[i]
      /\ r[Len(q) + 1] = x
  BY <1>2, AppendProperties
<1> HIDE DEF r
<1>4. ASSUME NEW i \in 1..Len(r)
      PROVE  r[i][1] = i /\ r[i][2] <= w /\ (i > 1 => r[i - 1][2] <= r[i][2])
  <2>1. CASE i \in 1..Len(q)
    <3>1. i > 1 => i - 1 \in 1..Len(q)
      BY <1>1, <2>1
    <3> QED
      BY <1>3, <2>1, <3>1 DEF InOrder
  <2>2. CASE i = Len(q) + 1
    <3>1. i > 1 => i - 1 \in 1..Len(q)
      BY <1>1, <2>2
    <3>2. i > 1 => r[i - 1][2] <= w
      BY <1>3, <3>1 DEF InOrder
    <3> QED
      BY <1>2, <1>3, <2>2, <3>2
  <2> QED
    BY <1>1, <1>3, <2>1, <2>2
<1> QED
  BY <1>4 DEF InOrder, r, x

LEMMA InOrderLater ==
  ASSUME NEW q \in Seq(Tokens), NEW v \in Nat, NEW w \in Nat, v <= w,
         InOrder(q, v)
  PROVE  InOrder(q, w)
<1>1. ASSUME NEW i \in 1..Len(q) PROVE q[i][2] <= w
  <2>1. q[i] \in Tokens
    BY ElementOfSeq
  <2>2. q[i][2] \in Nat
    BY <2>1, RolloutAssumption DEF Tokens
  <2> QED
    BY <2>2 DEF InOrder
<1> QED
  BY <1>1 DEF InOrder

LEMMA AppendToText ==
  ASSUME NEW S, NEW p \in Seq(S), NEW q \in Seq(S), NEW x \in S
  PROVE  p \o Append(q, x) = Append(p \o q, x) /\ Len(p \o q) = Len(p) + Len(q)
<1>1. <<x>> \in Seq(S)
  OBVIOUS
<1>2. p \o q \in Seq(S)
  BY ConcatProperties
<1>3. Append(q, x) = q \o <<x>> /\ Append(p \o q, x) = (p \o q) \o <<x>>
  BY <1>2, AppendIsConcat
<1>4. (p \o q) \o <<x>> = p \o (q \o <<x>>)
  BY <1>1, ConcatAssociative
<1> QED
  BY <1>3, <1>4, ConcatProperties

\* A step leaves a text alone, cuts it, or appends what the weights of the
\* moment generate; what the trajectory keeps stays as it is.
TextChange(t) ==
  \/ output'[t] = output[t] /\ got'[t] = got[t]
  \/ output'[t] = output[t] /\ got'[t] = <<>>
  \/ output'[t] = Joined(t) /\ got'[t] = <<>> /\ call[t] \in {"cut", "full"}
  \/ /\ Len(Context(t)) + Len(got[t]) + 1 <= ModelLength
     /\ output'[t] = output[t] /\ weights' = weights
     /\ got'[t] = Append(got[t], <<Len(Context(t)) + Len(got[t]) + 1, weights>>)

LEMMA TextChanges ==
  ASSUME TypeOK, [Next]_vars, NEW t \in Trajectories
  PROVE  TextChange(t)
<1> USE DEF TypeOK, TextChange
<1>1. ASSUME NEW u \in Trajectories, Generate(u) PROVE TextChange(t)
  BY <1>1 DEF Generate, serverFrame, syncVars
<1>2. ASSUME NEW u \in Trajectories, Fail(u) PROVE TextChange(t)
  BY <1>2 DEF Fail, Leave
<1>3. ASSUME NEW u \in Trajectories, Join(u) PROVE TextChange(t)
  <2>1. \/ output' = output
        \/ output' = [output EXCEPT ![u] = Joined(u)]
    BY <1>3 DEF Join
  <2>2. got' = [got EXCEPT ![u] = <<>>] /\ call[u] \in {"cut", "full"}
    BY <1>3 DEF Join, Leave
  <2>3. output'[t] = output[t] \/ (u = t /\ output'[t] = Joined(t))
    BY <2>1
  <2>4. got'[t] = IF u = t THEN <<>> ELSE got[t]
    BY <2>2
  <2> QED
    BY <2>2, <2>3, <2>4
<1>4. CASE UNCHANGED <<output, got>>
  BY <1>4
<1>5. \/ \E u \in Trajectories : Generate(u) \/ Fail(u) \/ Join(u)
      \/ UNCHANGED <<output, got>>
  <2>1. ASSUME NEW choice \in [Trajectories -> Servers], Submit(choice)
        PROVE  UNCHANGED <<output, got>>
    BY <2>1 DEF Submit, Start
  <2>2. ASSUME NEW u \in Trajectories, Trajectory(u)
        PROVE  \/ Generate(u) \/ Fail(u) \/ Join(u)
               \/ UNCHANGED <<output, got>>
    BY <2>2 DEF Trajectory, Accept, Refuse, End, Return, serverFrame
  <2>3. CASE Gathered
    BY <2>3 DEF Gathered
  <2>4. CASE SyncBegin \/ SyncGoesOn
    BY <2>4 DEF SyncBegin, SyncGoesOn, CancelEnd, GatherEnd, Transfer, Update,
                ResumeBegin, ResumeEnd, CancelServer, ResumeServer, syncFrame
  <2>5. CASE UNCHANGED vars
    BY <2>5 DEF vars, callVars
  <2> QED
    BY <2>1, <2>2, <2>3, <2>4, <2>5 DEF Next
<1> QED
  BY <1>1, <1>2, <1>3, <1>4, <1>5

LEMMA WeightsGrow ==
  ASSUME TypeOK, [Next]_vars
  PROVE  weights' >= weights
<1> USE DEF TypeOK
<1>1. CASE Transfer
  BY <1>1 DEF Transfer
<1>2. ~Transfer => weights' = weights
  BY DEF Next, vars, Submit, Start, Trajectory, Accept, Refuse, Generate, End,
         Return, Fail, Join, Gathered, SyncBegin, SyncGoesOn, CancelEnd,
         GatherEnd, Update, ResumeBegin, ResumeEnd, CancelServer, ResumeServer,
         serverFrame, syncVars
<1> QED
  BY <1>1, <1>2

LEMMA TextStep ==
  ASSUME TypeOK, TypeOK', TextInv, [Next]_vars
  PROVE  TextInv'
<1> SUFFICES ASSUME NEW t \in Trajectories PROVE InOrder(Text(t), weights)'
  BY DEF TextInv
<1>1. InOrder(Text(t), weights) /\ Text(t) \in Seq(Tokens)
  BY TextType DEF TextInv
<1>2. /\ weights \in 0..MaxSyncs /\ weights' \in Nat /\ weights \in Nat
      /\ weights <= weights'
  BY WeightsGrow DEF TypeOK
<1>3. output[t].tokens \in Seq(Tokens) /\ got[t] \in Seq(Tokens)
  BY OutputType
<1>4. /\ Len(Text(t)) \in Nat
      /\ Len(output[t].tokens) \in Nat
      /\ Len(output[t].tokens) <= Len(Text(t))
      /\ \A i \in 1..Len(output[t].tokens) : Text(t)[i] = output[t].tokens[i]
  BY TextType, OutputType
<1>5. Text(t)' \in Seq(Tokens)
  <2>1. output'[t] \in Outputs /\ got'[t] \in Seq(Tokens)
    BY DEF TypeOK
  <2>2. output'[t].tokens \in Seq(Tokens)
    BY <2>1 DEF Outputs
  <2> QED
    BY <2>1, <2>2, ConcatProperties DEF Text
<1>6. InOrder(Text(t)', weights)
  <2>1. CASE output'[t] = output[t] /\ got'[t] = got[t]
    BY <1>1, <2>1 DEF Text
  <2>2. CASE output'[t] = output[t] /\ got'[t] = <<>>
    <3>1. Text(t)' = output[t].tokens
      BY <1>3, <2>2, ConcatEmptySeq DEF Text
    <3> QED
      BY <1>1, <1>4, <3>1, InOrderPrefix
  <2>3. CASE output'[t] = Joined(t) /\ got'[t] = <<>>
    <3>1. Joined(t).tokens \in Seq(Tokens)
      BY JoinedType DEF Outputs
    <3>2. Text(t)' = Joined(t).tokens
      BY <2>3, <3>1, ConcatEmptySeq DEF Text
    <3>3. /\ Len(Joined(t).tokens) \in Nat
          /\ Len(Joined(t).tokens) <= Len(Text(t))
          /\ \A i \in 1..Len(Joined(t).tokens) :
               Joined(t).tokens[i] = Text(t)[i]
      <4>1. Len(Joined(t).tokens) \in Nat
        BY <3>1, LenProperties
      <4> QED
        BY <4>1, JoinedType
    <3> QED
      BY <1>1, <1>4, <3>2, <3>3, InOrderPrefix
  <2>4. CASE /\ Len(Context(t)) + Len(got[t]) + 1 <= ModelLength
             /\ output'[t] = output[t]
             /\ got'[t] = Append(got[t],
                                 <<Len(Context(t)) + Len(got[t]) + 1, weights>>)
    <3> DEFINE a == Len(output[t].tokens)
               b == Len(got[t])
               n == a + b + 1
    <3>1. a \in Nat /\ b \in Nat /\ n <= ModelLength
      BY <2>4, OutputType DEF Context
    <3>2. Text(t)' = output[t].tokens \o Append(got[t], <<n, weights>>)
      BY <2>4 DEF Text, Context
    <3> HIDE DEF a, b
    <3>3. n \in 1..ModelLength
      BY <3>1, RolloutAssumption
    <3> HIDE DEF n
    <3>4. <<n, weights>> \in Tokens
      BY <1>2, <3>3 DEF Tokens
    <3>5. /\ output[t].tokens \o Append(got[t], <<n, weights>>)
               = Append(output[t].tokens \o got[t], <<n, weights>>)
          /\ Len(output[t].tokens \o got[t]) = a + b
      BY <1>3, <3>4, AppendToText DEF a, b
    <3>6. /\ Text(t)' = Append(Text(t), <<n, weights>>)
          /\ Len(Text(t)) = a + b
      BY <3>2, <3>5 DEF Text
    <3>7. n = Len(Text(t)) + 1 /\ n <= ModelLength
      BY <3>1, <3>6 DEF n
    <3> QED
      BY <1>1, <1>2, <3>6, <3>7, InOrderAppend
  <2> QED
    BY <2>1, <2>2, <2>3, <2>4, TextChanges DEF TextChange
<1> QED
  BY <1>2, <1>5, <1>6, InOrderLater DEF InOrder

\* However often cancel() and resume() interrupt it, the response of a
\* trajectory is one text, by weights that never get older.
THEOREM ResponsesContiguous == Spec => []Contiguous
<1>1. Init => TextInv
  <2> SUFFICES ASSUME Init, NEW t \in Trajectories
               PROVE  InOrder(Text(t), weights)
    BY DEF TextInv
  <2>1. Text(t) = <<>>
    BY EmptySeq, ConcatEmptySeq DEF Init, NoOutput, Text
  <2> QED
    BY <2>1 DEF InOrder
<1>2. RolloutInv /\ RolloutInv' /\ TextInv /\ [Next]_vars => TextInv'
  BY TextStep DEF RolloutInv
<1>3. RolloutInv /\ TextInv => Contiguous
  <2> SUFFICES ASSUME TypeOK, TextInv, NEW t \in Trajectories,
                      NEW i \in 1..Len(output[t].tokens)
               PROVE  /\ output[t].tokens[i][1] = i
                      /\ i > 1 => output[t].tokens[i - 1][2]
                                    <= output[t].tokens[i][2]
    BY DEF RolloutInv, Contiguous
  <2>1. /\ i \in 1..Len(Text(t))
        /\ Text(t)[i] = output[t].tokens[i]
        /\ i > 1 => Text(t)[i - 1] = output[t].tokens[i - 1]
    BY TextType, OutputType
  <2> QED
    BY <2>1 DEF TextInv, InOrder
<1> QED
  BY <1>1, <1>2, <1>3, RolloutInvariant, PTL DEF Spec

\* Only a trajectory that is not complete is submitted or called for.
LEMMA CompleteStays ==
  ASSUME TypeOK, OutputInv, [Next]_vars, NEW t \in Trajectories,
         output[t].kind = "complete"
  PROVE  output'[t] = output[t] /\ call'[t] = "idle"
<1>1. call[t] = "idle"
  BY DEF OutputInv
<1> USE DEF TypeOK
<1>2. ASSUME NEW choice \in [Trajectories -> Servers], Submit(choice)
      PROVE  output'[t] = output[t] /\ call'[t] = "idle"
  BY <1>2 DEF Submit, Start, Resumed
<1>3. ASSUME NEW u \in Trajectories, Trajectory(u)
      PROVE  output'[t] = output[t] /\ call'[t] = "idle"
  <2>1. u # t
    BY <1>1, <1>3 DEF Trajectory, Accept, Refuse, Generate, End, Return, Fail,
                      Join
  <2>2. call'[t] = call[t]
    BY <1>3, <2>1 DEF Trajectory, Accept, Refuse, Generate, End, Return,
                      Answered, Fail, Join, Leave
  <2>3. \/ output' = output
        \/ output' = [output EXCEPT ![u] = Joined(u)]
    BY <1>3 DEF Trajectory, Accept, Refuse, Generate, End, Return, Fail, Join,
                serverFrame
  <2> QED
    BY <1>1, <2>1, <2>2, <2>3
<1>4. CASE Gathered \/ UNCHANGED vars
  BY <1>1, <1>4 DEF Gathered, vars, callVars
<1>5. CASE SyncBegin \/ SyncGoesOn
  BY <1>1, <1>5 DEF SyncBegin, SyncGoesOn, CancelEnd, GatherEnd, Transfer,
                    Update, ResumeBegin, ResumeEnd, CancelServer, ResumeServer,
                    syncFrame
<1> QED
  BY <1>2, <1>3, <1>4, <1>5 DEF Next

\* A resumed sample generates what is missing and nothing else.
THEOREM NothingStartedOver == Spec => NeverStartedOver
<1>1. RolloutInv /\ [Next]_vars =>
        \A t \in Trajectories :
          /\ Len(output'[t].tokens) >= Len(output[t].tokens)
          /\ \A i \in 1..Len(output[t].tokens) :
               output'[t].tokens[i] = output[t].tokens[i]
          /\ output[t].kind = "complete" =>
               output'[t] = output[t] /\ call'[t] = "idle"
  <2> SUFFICES ASSUME RolloutInv, [Next]_vars, NEW t \in Trajectories
               PROVE  /\ Len(output'[t].tokens) >= Len(output[t].tokens)
                      /\ \A i \in 1..Len(output[t].tokens) :
                           output'[t].tokens[i] = output[t].tokens[i]
                      /\ output[t].kind = "complete" =>
                           output'[t] = output[t] /\ call'[t] = "idle"
    OBVIOUS
  <2>1. TypeOK /\ OutputInv
    BY DEF RolloutInv
  <2>2. output[t].kind = "complete" =>
          output'[t] = output[t] /\ call'[t] = "idle"
    BY <2>1, CompleteStays
  <2>3. output'[t] = output[t] \/ output'[t] = Joined(t)
    BY <2>1, TextChanges DEF TextChange
  <2>4. Len(output[t].tokens) \in Nat
    BY <2>1, OutputType
  <2>5. CASE output'[t] = output[t]
    BY <2>2, <2>4, <2>5
  <2>6. CASE output'[t] = Joined(t)
    <3>1. Len(output[t].tokens) <= Len(Joined(t).tokens)
      BY <2>1, JoinedType
    <3>2. Len(Joined(t).tokens) \in Nat
      BY <2>1, JoinedType, LenProperties DEF Outputs
    <3>3. \A i \in 1..Len(output[t].tokens) :
            Joined(t).tokens[i] = output[t].tokens[i]
      <4>1. \A i \in 1..Len(Joined(t).tokens) : Joined(t).tokens[i] = Text(t)[i]
        BY <2>1, JoinedType
      <4>2. \A i \in 1..Len(output[t].tokens) : Text(t)[i] = output[t].tokens[i]
        BY <2>1, TextType
      <4> QED
        BY <2>4, <3>1, <3>2, <4>1, <4>2
    <3> QED
      BY <2>2, <2>4, <2>6, <3>1, <3>2, <3>3
  <2> QED
    BY <2>3, <2>5, <2>6
<1> QED
  BY <1>1, RolloutInvariant, PTL DEF Spec, NeverStartedOver

-----------------------------------------------------------------------------
(* The versions of a response.                                             *)

VersionInv ==
  /\ version = IF sync = "moved" THEN weights - 1 ELSE weights
  /\ ran <= version
  /\ sample = "running" =>
       weights <= ran + 1 /\ (sync = "quiet" => weights <= ran)

Within(q, first, last) ==
  \A i \in 1..Len(q) : first <= q[i][2] /\ q[i][2] <= last

\* While a sample runs, what it generates is by the weights it was submitted
\* under or, if they were being replaced, by the next.
SpanInv ==
  \A t \in Trajectories :
    /\ output[t].end <= ran /\ output[t].start <= ran
    /\ output[t].kind = "none" => output[t].tokens = <<>>
    /\ Within(output[t].tokens, output[t].start, output[t].end + 1)
    /\ sample = "running" => Within(got[t], ran, ran + 1)

LEMMA TokenVersion ==
  ASSUME NEW q \in Seq(Tokens), NEW i \in 1..Len(q)
  PROVE  q[i][2] \in Nat
<1>1. q[i] \in Tokens
  BY ElementOfSeq
<1> QED
  BY <1>1, RolloutAssumption DEF Tokens

LEMMA WithinWiden ==
  ASSUME NEW q \in Seq(Tokens), NEW a \in Nat, NEW b \in Nat, NEW c \in Nat,
         NEW d \in Nat, Within(q, a, b), c <= a, b <= d
  PROVE  Within(q, c, d)
BY TokenVersion DEF Within

LEMMA WithinConcat ==
  ASSUME NEW p \in Seq(Tokens), NEW q \in Seq(Tokens), NEW a, NEW b,
         Within(p, a, b), Within(q, a, b)
  PROVE  Within(p \o q, a, b)
<1>1. Len(p) \in Nat /\ Len(q) \in Nat
  BY LenProperties
<1>2. /\ Len(p \o q) = Len(p) + Len(q)
      /\ \A i \in 1..Len(p) + Len(q) :
           (p \o q)[i] = IF i <= Len(p) THEN p[i] ELSE q[i - Len(p)]
  BY ConcatProperties
<1>3. ASSUME NEW i \in 1..Len(p \o q)
      PROVE  a <= (p \o q)[i][2] /\ (p \o q)[i][2] <= b
  <2>1. CASE i <= Len(p)
    <3>1. i \in 1..Len(p) /\ (p \o q)[i] = p[i]
      BY <1>1, <1>2, <2>1
    <3> QED
      BY <3>1 DEF Within
  <2>2. CASE ~(i <= Len(p))
    <3>1. i - Len(p) \in 1..Len(q) /\ (p \o q)[i] = q[i - Len(p)]
      BY <1>1, <1>2, <2>2
    <3> QED
      BY <3>1 DEF Within
  <2> QED
    BY <2>1, <2>2
<1> QED
  BY <1>3 DEF Within

LEMMA VersionStep ==
  ASSUME TypeOK, VersionInv, [Next]_vars
  PROVE  VersionInv'
<1> USE DEF TypeOK, VersionInv
<1>1. ASSUME NEW choice \in [Trajectories -> Servers], Submit(choice)
      PROVE  VersionInv'
  BY <1>1 DEF Submit, Start, syncVars
<1>2. ASSUME NEW t \in Trajectories, Trajectory(t) PROVE VersionInv'
  BY <1>2 DEF Trajectory, Accept, Refuse, Generate, End, Return, Fail, Join,
              serverFrame, sampleVars, syncVars
<1>3. CASE Gathered
  BY <1>3 DEF Gathered, syncVars
<1>4. CASE SyncBegin \/ SyncGoesOn
  BY <1>4 DEF SyncBegin, SyncGoesOn, CancelEnd, GatherEnd, Transfer, Update,
              ResumeBegin, ResumeEnd, CancelServer, ResumeServer, syncFrame,
              sampleVars
<1>5. CASE UNCHANGED vars
  BY <1>5 DEF vars, sampleVars, syncVars
<1> QED
  BY <1>1, <1>2, <1>3, <1>4, <1>5 DEF Next

\* The part of SpanInv about one trajectory.
Span(t) ==
  /\ output[t].end <= ran /\ output[t].start <= ran
  /\ output[t].kind = "none" => output[t].tokens = <<>>
  /\ Within(output[t].tokens, output[t].start, output[t].end + 1)
  /\ sample = "running" => Within(got[t], ran, ran + 1)

LEMMA SpanJoined ==
  ASSUME TypeOK, NEW t \in Trajectories, Span(t), output[t].kind # "complete",
         sample = "running"
  PROVE  /\ Joined(t).end = ran /\ Joined(t).start <= ran
         /\ Joined(t).kind # "none"
         /\ Within(Joined(t).tokens, Joined(t).start, ran + 1)
<1> DEFINE a == Joined(t).start
           p == output[t].tokens
           q == got[t]
<1>1. /\ Joined(t).end = ran
      /\ a = IF output[t].kind = "cancelled" THEN output[t].start ELSE ran
  BY DEF Joined
<1>2. /\ output[t].start \in Nat /\ output[t].end \in Nat /\ ran \in Nat
      /\ output[t].end <= ran /\ output[t].start <= ran
  BY DEF Span, TypeOK, Outputs
<1>3. a \in Nat /\ a <= ran
  BY <1>1, <1>2
<1>4. p \in Seq(Tokens) /\ q \in Seq(Tokens)
  BY OutputType
<1>5. Within(p, a, ran + 1)
  <2>1. CASE output[t].kind = "cancelled"
    <3>1. Within(p, output[t].start, output[t].end + 1) /\ a = output[t].start
      BY <1>1, <2>1 DEF Span
    <3>2. output[t].end + 1 \in Nat /\ ran + 1 \in Nat
          /\ output[t].end + 1 <= ran + 1
      BY <1>2
    <3> HIDE DEF p, a
    <3> QED
      BY <1>2, <1>3, <1>4, <3>1, <3>2, WithinWiden
  <2>2. CASE output[t].kind = "none"
    <3>1. p = <<>>
      BY <2>2 DEF Span
    <3>2. Within(<<>>, a, ran + 1)
      BY EmptySeq DEF Within
    <3> QED
      BY <3>1, <3>2
  <2> QED
    BY <2>1, <2>2, OutputType
<1>6. Within(q, a, ran + 1)
  <2>1. Within(q, ran, ran + 1)
    BY DEF Span
  <2>2. ran + 1 \in Nat /\ ran + 1 <= ran + 1
    BY <1>2
  <2> HIDE DEF q, a
  <2> QED
    BY <1>2, <1>3, <1>4, <2>1, <2>2, WithinWiden
<1> HIDE DEF a
<1>7. Within(Text(t), a, ran + 1)
  BY <1>4, <1>5, <1>6, WithinConcat DEF Text
<1>8. Within(Joined(t).tokens, a, ran + 1)
  <2>1. /\ Joined(t).tokens \in Seq(Tokens)
        /\ Len(Joined(t).tokens) <= Len(Text(t))
        /\ \A i \in 1..Len(Joined(t).tokens) : Joined(t).tokens[i] = Text(t)[i]
    BY JoinedType DEF Outputs
  <2>2. Len(Joined(t).tokens) \in Nat /\ Len(Text(t)) \in Nat
    BY <2>1, TextType, LenProperties
  <2> QED
    BY <1>7, <2>1, <2>2 DEF Within
<1>9. Joined(t).kind # "none"
  BY DEF Joined
<1> QED
  BY <1>1, <1>3, <1>8, <1>9 DEF a

\* What a step does to a response and to what it is counted from.
SpanChange(t) ==
  \/ /\ output'[t] = output[t] /\ got'[t] = got[t] /\ ran' = ran
     /\ sample' = "running" => sample = "running"
  \/ output'[t] = output[t] /\ got'[t] = <<>> /\ ran' \in {ran, version}
  \/ /\ output'[t] = output[t] /\ sample' = sample /\ ran' = ran
     /\ Len(Context(t)) + Len(got[t]) + 1 <= ModelLength
     /\ got'[t] = Append(got[t], <<Len(Context(t)) + Len(got[t]) + 1, weights>>)
  \/ /\ output'[t] = Joined(t) /\ got'[t] = <<>> /\ ran' = ran
     /\ sample = "running" /\ call[t] # "idle"

LEMMA SpanChanges ==
  ASSUME TypeOK, CallInv, [Next]_vars, NEW t \in Trajectories
  PROVE  SpanChange(t)
<1> USE DEF TypeOK, SpanChange
<1>1. ASSUME NEW choice \in [Trajectories -> Servers], Submit(choice)
      PROVE  SpanChange(t)
  BY <1>1 DEF Submit, Start, CallInv
<1>2. ASSUME NEW u \in Trajectories,
             Accept(u) \/ Refuse(u) \/ End(u) \/ Return(u)
      PROVE  SpanChange(t)
  BY <1>2 DEF Accept, Refuse, End, Return, serverFrame, sampleVars
<1>3. ASSUME NEW u \in Trajectories, Generate(u) PROVE SpanChange(t)
  BY <1>3 DEF Generate, serverFrame, sampleVars
<1>4. ASSUME NEW u \in Trajectories, Fail(u) PROVE SpanChange(t)
  BY <1>4 DEF Fail, Leave
<1>5. ASSUME NEW u \in Trajectories, Join(u) PROVE SpanChange(t)
  <2>1. \/ output' = output
        \/ output' = [output EXCEPT ![u] = Joined(u)] /\ sample # "failed"
    BY <1>5 DEF Join
  <2>2. /\ got' = [got EXCEPT ![u] = <<>>] /\ call[u] \in {"cut", "full"}
        /\ ran' = ran /\ sample' = sample
    BY <1>5 DEF Join, Leave, sampleVars
  <2>3. output'[t] = output[t]
        \/ (u = t /\ output'[t] = Joined(t) /\ sample # "failed")
    BY <2>1
  <2>4. got'[t] = IF u = t THEN <<>> ELSE got[t]
    BY <2>2
  <2>5. sample \in {"running", "failed"}
    BY <2>2 DEF CallInv
  <2> QED
    BY <2>2, <2>3, <2>4, <2>5
<1>6. CASE Gathered
  BY <1>6 DEF Gathered
<1>7. CASE SyncBegin \/ SyncGoesOn
  BY <1>7 DEF SyncBegin, SyncGoesOn, CancelEnd, GatherEnd, Transfer, Update,
              ResumeBegin, ResumeEnd, CancelServer, ResumeServer, syncFrame,
              sampleVars
<1>8. CASE UNCHANGED vars
  BY <1>8 DEF vars, sampleVars, callVars
<1> QED
  BY <1>1, <1>2, <1>3, <1>4, <1>5, <1>6, <1>7, <1>8 DEF Next, Trajectory

LEMMA WithinAppend ==
  ASSUME NEW q \in Seq(Tokens), NEW n \in 1..ModelLength,
         NEW w \in 0..MaxSyncs, NEW a, NEW b, Within(q, a, b), a <= w, w <= b
  PROVE  Within(Append(q, <<n, w>>), a, b)
<1> DEFINE x == <<n, w>>
<1>1. x \in Tokens /\ x[2] = w
  BY DEF Tokens
<1> HIDE DEF x
<1>2. /\ Len(q) \in Nat /\ Len(Append(q, x)) = Len(q) + 1
      /\ \A i \in 1..Len(q) : Append(q, x)[i] = q[i]
      /\ Append(q, x)[Len(q) + 1] = x
  BY <1>1, AppendProperties, LenProperties
<1>3. ASSUME NEW i \in 1..Len(Append(q, x))
      PROVE  a <= Append(q, x)[i][2] /\ Append(q, x)[i][2] <= b
  <2>1. i \in 1..Len(q) \/ i = Len(q) + 1
    BY <1>2
  <2> QED
    BY <1>1, <1>2, <2>1 DEF Within
<1> QED
  BY <1>3 DEF Within, x

LEMMA SpanStep ==
  ASSUME RolloutInv, RolloutInv', VersionInv, SpanInv, [Next]_vars
  PROVE  SpanInv'
<1> SUFFICES ASSUME NEW t \in Trajectories PROVE Span(t)'
  BY DEF SpanInv, Span
<1>1. Span(t) /\ TypeOK /\ TypeOK' /\ CallInv /\ OutputInv
  BY DEF SpanInv, Span, RolloutInv
<1>2. /\ ran \in Nat /\ version \in Nat /\ ran <= version
      /\ weights \in 0..MaxSyncs /\ version <= weights
      /\ sample = "running" => weights <= ran + 1
  BY <1>1, RolloutAssumption DEF TypeOK, VersionInv
<1>3. output[t].start \in Nat /\ output[t].end \in Nat
  BY SMTT(30), <1>1 DEF TypeOK, Outputs
<1>4. \A a, b : Within(<<>>, a, b)
  BY EmptySeq DEF Within
<1>5. CASE /\ output'[t] = output[t] /\ got'[t] = got[t] /\ ran' = ran
           /\ sample' = "running" => sample = "running"
  BY <1>1, <1>5 DEF Span
<1>6. CASE output'[t] = output[t] /\ got'[t] = <<>> /\ ran' \in {ran, version}
  <2>1. ran <= ran' /\ output[t].start <= ran' /\ output[t].end <= ran'
    BY <1>1, <1>2, <1>3, <1>6 DEF Span
  <2> QED
    BY <1>1, <1>4, <1>6, <2>1 DEF Span
<1>7. CASE /\ output'[t] = output[t] /\ sample' = sample /\ ran' = ran
           /\ Len(Context(t)) + Len(got[t]) + 1 <= ModelLength
           /\ got'[t] = Append(got[t],
                               <<Len(Context(t)) + Len(got[t]) + 1, weights>>)
  <2> DEFINE a == Len(Context(t))
             b == Len(got[t])
             n == a + b + 1
  <2>1. sample = "running" => Within(got'[t], ran, ran + 1)
    <3> SUFFICES ASSUME sample = "running"
                 PROVE  Within(got'[t], ran, ran + 1)
      OBVIOUS
    <3>1. n \in 1..ModelLength
      <4>1. a \in Nat /\ b \in Nat
        BY <1>1, OutputType DEF Context
      <4>2. n <= ModelLength
        BY <1>7
      <4> HIDE DEF a, b
      <4> QED
        BY <4>1, <4>2, RolloutAssumption
    <3>2. Within(got[t], ran, ran + 1) /\ got[t] \in Seq(Tokens)
      BY <1>1, OutputType DEF Span
    <3>3. got'[t] = Append(got[t], <<n, weights>>)
      BY <1>7
    <3>4. ran <= weights /\ weights <= ran + 1
      BY <1>2
    <3> HIDE DEF n
    <3> QED
      BY <1>2, <3>1, <3>2, <3>3, <3>4, WithinAppend
  <2> QED
    BY <1>1, <1>7, <2>1 DEF Span
<1>8. CASE /\ output'[t] = Joined(t) /\ got'[t] = <<>> /\ ran' = ran
           /\ sample = "running" /\ call[t] # "idle"
  <2>1. output[t].kind # "complete"
    BY <1>1, <1>8 DEF OutputInv
  <2>2. /\ Joined(t).end = ran /\ Joined(t).start <= ran
        /\ Joined(t).kind # "none"
        /\ Within(Joined(t).tokens, Joined(t).start, ran + 1)
    BY <1>1, <1>8, <2>1, SpanJoined
  <2> QED
    BY <1>2, <1>4, <1>8, <2>2 DEF Span
<1> QED
  BY <1>1, <1>5, <1>6, <1>7, <1>8, SpanChanges DEF SpanChange

\* The two versions a trajectory is stamped with enclose those that generated
\* it, but for the one that was being transferred when it was submitted.
THEOREM SpansCover == Spec => []SpanCovers
<1>1. Init => VersionInv /\ SpanInv
  <2> SUFFICES ASSUME Init PROVE VersionInv /\ SpanInv
    OBVIOUS
  <2>1. \A a, b : Within(<<>>, a, b)
    BY EmptySeq DEF Within
  <2> QED
    BY <2>1 DEF Init, NoOutput, VersionInv, SpanInv
<1>2. RolloutInv /\ RolloutInv' /\ VersionInv /\ SpanInv /\ [Next]_vars
        => VersionInv' /\ SpanInv'
  BY VersionStep, SpanStep DEF RolloutInv
<1>3. SpanInv => SpanCovers
  BY DEF SpanInv, SpanCovers, Within
<1> QED
  BY <1>1, <1>2, <1>3, RolloutInvariant, PTL DEF Spec

-----------------------------------------------------------------------------
(* The sample implements the task of module FullyAsync.                    *)

\* The trajectory is what sends its sample to cancel_queue.
Interrupted(t) ==
  IF call[t] = "idle" THEN output[t].kind = "cancelled"
  ELSE call[t] = "cut" /\ Joined(t).kind = "cancelled"

SomeServed == \E t \in Trajectories : served[t]

StageTable ==
  /\ sample = "failed" => Stage = "err"
  /\ sample \in {"held", "done"} => Stage = "none"
  /\ sample = "running" /\ Settled =>
       Stage = IF SomeCancelled THEN "cut" ELSE "ok"
  /\ sample = "running" /\ ~Settled =>
       Stage = IF SomeServed THEN IF Doomed THEN "mix" ELSE "gen"
               ELSE IF Doomed THEN "ref" ELSE "new"

GateTable ==
  /\ sync = "run" => Gate = "open"
  /\ sync = "cancel" => Gate = "closing"
  /\ sync = "resume" => Gate = "opening"
  /\ sync \in {"gather", "quiet", "moved", "updated"} => Gate = "closed"

LEMMA Tables == StageTable /\ StageTable' /\ GateTable /\ GateTable'
<1>1. StageTable
  BY DEF StageTable, Stage, SomeServed
<1>2. StageTable'
  BY DEF StageTable, Stage, SomeServed
<1>3. GateTable
  BY DEF GateTable, Gate
<1>4. GateTable'
  BY DEF GateTable, Gate
<1> QED
  BY <1>1, <1>2, <1>3, <1>4

LEMMA DoomedBy ==
  /\ Doomed <=> \E t \in Trajectories : Interrupted(t)
  /\ Doomed' <=> \E t \in Trajectories : Interrupted(t)'
BY DEF Doomed, Interrupted

LEMMA InterruptedFrame ==
  ASSUME NEW t \in Trajectories, ran' = ran, output'[t] = output[t],
         got'[t] = got[t], call'[t] = call[t]
  PROVE  Interrupted(t)' <=> Interrupted(t)
BY DEF Interrupted, Joined

\* A step that touches nothing the stage depends on.
LEMMA StageFrame ==
  ASSUME UNCHANGED <<sample, ran, output, call, got, served>>
  PROVE  Stage' = Stage
BY DEF Stage, Settled, SomeCancelled, Doomed, Joined

\* An interrupted call that generated nothing leaves the response as short as
\* it was: its trajectory is to be resumed.
LEMMA NothingGenerated ==
  ASSUME TypeOK, OutputInv, NEW t \in Trajectories, call[t] # "idle",
         got[t] = <<>>
  PROVE  Len(output[t].tokens \o got[t]) < ResponseLength
<1>1. output[t].tokens \o got[t] = output[t].tokens
  BY OutputType, ConcatEmptySeq
<1> QED
  BY <1>1 DEF OutputInv

LEMMA SubmitRefines ==
  ASSUME RolloutInv, NEW choice \in [Trajectories -> Servers], Submit(choice)
  PROVE  Task!Submit
<1> USE DEF RolloutInv
<1>1. sample = "held" /\ sample' = "running" /\ sync' = sync
  BY DEF Submit, Start, syncVars
<1>2. ~SomeServed'
  BY <1>1 DEF CallInv, SomeServed, Submit, Start
<1>3. ~Settled'
  <2>1. PICK t \in Trajectories : t \in Resumed
    BY <1>1 DEF OutputInv, HeldOrDone, Resumed
  <2>2. call'[t] = "sent"
    BY <2>1 DEF Submit, Start
  <2> QED
    BY <2>2 DEF Settled
<1>4. ASSUME NEW t \in Trajectories PROVE ~Interrupted(t)'
  <2>1. output'[t] = output[t]
    BY DEF Submit, Start
  <2>2. call'[t] = IF t \in Resumed THEN "sent" ELSE "idle"
    BY DEF Submit, Start
  <2>3. t \notin Resumed => output[t].kind = "complete"
    BY DEF Resumed
  <2> QED
    BY <2>1, <2>2, <2>3 DEF Interrupted
<1>5. Stage = "none" /\ Stage' = "new"
  BY <1>1, <1>2, <1>3, <1>4, DoomedBy, Tables DEF StageTable
<1>6. Gate' = Gate
  BY <1>1 DEF Gate
<1> QED
  BY <1>5, <1>6 DEF Task!Submit

\* A step of one call: nothing changes for the other trajectories.
LEMMA OthersStay ==
  ASSUME TypeOK, NEW t \in Trajectories,
         Accept(t) \/ Refuse(t) \/ Generate(t) \/ End(t) \/ Return(t) \/ Join(t)
  PROVE  /\ sample' = sample /\ ran' = ran /\ Gate' = Gate
         /\ \A u \in Trajectories \ {t} :
              /\ call'[u] = call[u] /\ served'[u] = served[u]
              /\ Interrupted(u)' <=> Interrupted(u)
<1> USE DEF TypeOK
<1>1. sample' = sample /\ ran' = ran /\ sync' = sync
  BY DEF Accept, Refuse, Generate, End, Return, Join, serverFrame, sampleVars,
         syncVars
<1>2. ASSUME NEW u \in Trajectories \ {t}
      PROVE  /\ call'[u] = call[u] /\ served'[u] = served[u]
             /\ output'[u] = output[u] /\ got'[u] = got[u]
  <2>1. \/ output' = output
        \/ output' = [output EXCEPT ![t] = Joined(t)]
    BY DEF Accept, Refuse, Generate, End, Return, Join, serverFrame
  <2>2. output'[u] = output[u]
    BY <2>1
  <2>3. call'[u] = call[u] /\ served'[u] = served[u]
    BY DEF Accept, Refuse, Generate, End, Return, Answered, Join, Leave
  <2>4. got'[u] = got[u]
    BY DEF Accept, Refuse, Generate, End, Return, Join, Leave
  <2> QED
    BY <2>2, <2>3, <2>4
<1>3. Gate' = Gate
  BY <1>1 DEF Gate
<1> QED
  BY <1>1, <1>2, <1>3, InterruptedFrame

LEMMA AcceptRefines ==
  ASSUME RolloutInv, NEW t \in Trajectories, Accept(t)
  PROVE  Task!Accept \/ UNCHANGED <<Stage, Gate>>
<1> USE DEF RolloutInv
<1>1. sample' = sample /\ Gate' = Gate
  BY OthersStay
<1>2. call[t] = "sent" /\ call'[t] = "gen" /\ served'[t]
  BY DEF Accept, TypeOK
<1>3. sample \in {"running", "failed"}
  BY <1>2 DEF CallInv, TypeOK
<1>4. CASE sample = "failed"
  BY <1>1, <1>4, Tables DEF StageTable
<1>5. CASE sample = "running"
  <2>1. ~Settled /\ ~Settled' /\ SomeServed'
    BY <1>2 DEF Settled, SomeServed
  <2>2. ~Interrupted(t) /\ ~Interrupted(t)'
    BY <1>2 DEF Interrupted
  <2>3. Doomed' <=> Doomed
    BY <2>2, OthersStay, DoomedBy
  <2>4. sync \in {"run", "cancel", "resume"}
    BY DEF Accept, ServerInv, TypeOK
  <2>5. Gate # "closed"
    BY <2>4, Tables DEF GateTable
  <2>6. /\ Stage = IF SomeServed THEN IF Doomed THEN "mix" ELSE "gen"
                   ELSE IF Doomed THEN "ref" ELSE "new"
        /\ Stage' = IF Doomed THEN "mix" ELSE "gen"
    BY <1>1, <1>5, <2>1, <2>3, Tables DEF StageTable
  <2> QED
    BY <1>1, <2>5, <2>6 DEF Task!Accept
<1> QED
  BY <1>3, <1>4, <1>5

\* A call that is cut short dooms its sample.
LEMMA CutRefines ==
  ASSUME RolloutInv, NEW t \in Trajectories, Refuse(t) \/ Return(t),
         sample = "running", Gate # "open",
         call[t] \in {"sent", "gen"}, call'[t] # "idle", Interrupted(t)'
  PROVE  Task!Refuse \/ UNCHANGED <<Stage, Gate>>
<1> USE DEF RolloutInv
<1>1. sample' = sample /\ Gate' = Gate
  BY OthersStay
<1>2. ~Settled /\ ~Settled' /\ Doomed'
  BY DoomedBy DEF Settled
<1>3. SomeServed' <=> SomeServed
  BY DEF SomeServed, Refuse, Return
<1>4. /\ Stage = IF SomeServed THEN IF Doomed THEN "mix" ELSE "gen"
                 ELSE IF Doomed THEN "ref" ELSE "new"
      /\ Stage' = IF SomeServed THEN "mix" ELSE "ref"
  BY <1>1, <1>2, <1>3, Tables DEF StageTable
<1> QED
  BY <1>1, <1>4 DEF Task!Refuse

LEMMA RefuseRefines ==
  ASSUME RolloutInv, NEW t \in Trajectories, Refuse(t)
  PROVE  Task!Refuse \/ UNCHANGED <<Stage, Gate>>
<1> USE DEF RolloutInv
<1>1. sample' = sample /\ Gate' = Gate
  BY OthersStay
<1>2. call[t] = "sent" /\ call'[t] = "cut"
  BY DEF Refuse, TypeOK
<1>3. sample \in {"running", "failed"}
  BY <1>2 DEF CallInv, TypeOK
<1>4. CASE sample = "failed"
  BY <1>1, <1>4, Tables DEF StageTable
<1>5. CASE sample = "running"
  <2>1. Interrupted(t)'
    <3>1. got[t] = <<>>
      BY <1>2 DEF CallInv
    <3>2. Len(output[t].tokens \o got[t]) < ResponseLength
      BY <1>2, <3>1, NothingGenerated
    <3>3. output'[t] = output[t] /\ got'[t] = got[t]
      BY DEF Refuse, serverFrame
    <3> QED
      BY <1>2, <3>2, <3>3 DEF Interrupted, Joined
  <2>2. sync # "run"
    BY DEF Refuse, ServerInv
  <2>3. Gate # "open"
    BY <2>2, Tables DEF GateTable, TypeOK
  <2> QED
    BY <1>2, <1>5, <2>1, <2>3, CutRefines
<1> QED
  BY <1>3, <1>4, <1>5

LEMMA ReturnRefines ==
  ASSUME RolloutInv, NEW t \in Trajectories, Return(t)
  PROVE  Task!Refuse \/ UNCHANGED <<Stage, Gate>>
<1> USE DEF RolloutInv
<1>1. sample' = sample /\ Gate' = Gate
  BY OthersStay
<1>2. call[t] = "gen" /\ call'[t] = IF ended[t] THEN "full" ELSE "cut"
  BY DEF Return, Answered, TypeOK
<1>3. sample \in {"running", "failed"}
  BY <1>2 DEF CallInv, TypeOK
<1>4. CASE sample = "failed"
  BY <1>1, <1>4, Tables DEF StageTable
<1>5. CASE sample = "running" /\ Interrupted(t)'
  <2>1. ~ended[t]
    BY <1>2, <1>5 DEF Interrupted
  <2>2. event[t]
    BY <2>1 DEF Return
  <2>3. sync \in {"cancel", "gather"}
    BY <1>5, <2>2 DEF ServerInv
  <2>4. Gate # "open"
    BY <2>3, Tables DEF GateTable
  <2> QED
    BY <1>2, <1>5, <2>4, CutRefines
<1>6. CASE sample = "running" /\ ~Interrupted(t)'
  <2>1. ~Interrupted(t)
    BY <1>2 DEF Interrupted
  <2>2. Doomed' <=> Doomed
    BY <1>6, <2>1, OthersStay, DoomedBy
  <2>3. ~Settled /\ ~Settled'
    BY <1>2 DEF Settled
  <2>4. SomeServed' <=> SomeServed
    BY DEF SomeServed, Return
  <2> QED
    BY <1>1, <1>6, <2>2, <2>3, <2>4, Tables DEF StageTable
<1> QED
  BY <1>3, <1>4, <1>5, <1>6

LEMMA FailRefines ==
  ASSUME RolloutInv, NEW t \in Trajectories, Fail(t)
  PROVE  Task!Fail \/ UNCHANGED <<Stage, Gate>>
<1> USE DEF RolloutInv
<1>1. sample' = "failed" /\ sync' = sync
  BY DEF Fail, syncVars
<1>2. call[t] = "gen"
  BY DEF Fail
<1>3. served[t] /\ sample \in {"running", "failed"}
  BY <1>2 DEF CallInv, TypeOK
<1>4. Gate' = Gate
  BY <1>1 DEF Gate
<1>5. CASE sample = "failed"
  BY <1>1, <1>4, <1>5, Tables DEF StageTable
<1>6. CASE sample = "running"
  <2>1. ~Settled /\ SomeServed
    BY <1>2, <1>3 DEF Settled, SomeServed
  <2>2. Stage \in {"gen", "mix"} /\ Stage' = "err"
    BY <1>1, <1>6, <2>1, Tables DEF StageTable
  <2> QED
    BY <1>4, <2>2 DEF Task!Fail
<1> QED
  BY <1>3, <1>5, <1>6

LEMMA JoinRefines ==
  ASSUME RolloutInv, NEW t \in Trajectories, Join(t)
  PROVE  Task!Finish \/ UNCHANGED <<Stage, Gate>>
<1> USE DEF RolloutInv
<1>1. sample' = sample /\ Gate' = Gate
  BY OthersStay
<1>2. call[t] \in {"cut", "full"} /\ call'[t] = "idle"
  BY DEF Join, Leave, TypeOK
<1>3. sample \in {"running", "failed"}
  BY <1>2 DEF CallInv, TypeOK
<1>4. CASE sample = "failed"
  BY <1>1, <1>4, Tables DEF StageTable
<1>5. CASE sample = "running"
  <2>1. output'[t] = Joined(t)
    BY <1>5 DEF Join, TypeOK
  <2>2. Joined(t).kind = "cancelled" => call[t] = "cut"
    BY JoinedType
  <2>3. Interrupted(t)' <=> Interrupted(t)
    BY <1>2, <2>1, <2>2 DEF Interrupted
  <2>4. Doomed' <=> Doomed
    BY <2>3, OthersStay, DoomedBy
  <2>5. SomeServed' <=> SomeServed
    BY DEF SomeServed, Join
  <2>6. ~Settled
    BY <1>2 DEF Settled
  <2>7. CASE ~Settled'
    BY <1>1, <1>5, <2>4, <2>5, <2>6, <2>7, Tables DEF StageTable
  <2>8. CASE Settled'
    <3>1. SomeCancelled' <=> Doomed
      BY <2>4, <2>8, DoomedBy DEF SomeCancelled, Settled, Interrupted
    <3>2. ~SomeServed => Doomed
      <4> SUFFICES ASSUME ~SomeServed PROVE Doomed
        OBVIOUS
      <4>1. call[t] = "cut" /\ got[t] = <<>>
        BY <1>2 DEF SomeServed, CallInv
      <4>2. Len(output[t].tokens \o got[t]) < ResponseLength
        BY <4>1, NothingGenerated
      <4>3. Interrupted(t)
        BY <4>1, <4>2 DEF Interrupted, Joined
      <4> QED
        BY <4>3, DoomedBy
    <3>3. /\ Stage = IF SomeServed THEN IF Doomed THEN "mix" ELSE "gen"
                     ELSE IF Doomed THEN "ref" ELSE "new"
          /\ Stage' = IF Doomed THEN "cut" ELSE "ok"
      BY <1>1, <1>5, <2>6, <2>8, <3>1, Tables DEF StageTable
    <3> QED
      BY <1>1, <3>2, <3>3 DEF Task!Finish
  <2> QED
    BY <2>7, <2>8
<1> QED
  BY <1>3, <1>4, <1>5

LEMMA GenerateRefines ==
  ASSUME RolloutInv, NEW t \in Trajectories, Generate(t) \/ End(t)
  PROVE  UNCHANGED <<Stage, Gate>>
<1> USE DEF RolloutInv
<1>1. sample' = sample /\ Gate' = Gate
  BY OthersStay
<1>2. call[t] = "gen" /\ call' = call /\ served' = served
  BY DEF Generate, End
<1>3. sample \in {"running", "failed"}
  BY <1>2 DEF CallInv, TypeOK
<1>4. ~Interrupted(t) /\ ~Interrupted(t)'
  BY <1>2 DEF Interrupted
<1>5. Doomed' <=> Doomed
  BY <1>4, OthersStay, DoomedBy
<1>6. ~Settled /\ ~Settled' /\ (SomeServed' <=> SomeServed)
  BY <1>2 DEF Settled, SomeServed
<1> QED
  BY <1>1, <1>3, <1>5, <1>6, Tables DEF StageTable

LEMMA GatheredRefines ==
  ASSUME RolloutInv, Gathered
  PROVE  Task!Collect
<1>1. Stage \in {"ok", "cut"} /\ Stage' = "none"
  BY Tables DEF StageTable, Gathered
<1>2. Gate' = Gate
  BY DEF Gathered, syncVars, Gate
<1> QED
  BY <1>1, <1>2 DEF Task!Collect

LEMMA SyncRefines ==
  ASSUME RolloutInv, SyncBegin \/ SyncGoesOn
  PROVE  Task!Turn \/ UNCHANGED <<Stage, Gate>>
<1>1. UNCHANGED <<sample, ran, output, call, got, served>>
  BY DEF SyncBegin, SyncGoesOn, CancelEnd, GatherEnd, Transfer, Update,
         ResumeBegin, ResumeEnd, CancelServer, ResumeServer, syncFrame,
         sampleVars
<1>2. Stage' = Stage
  BY <1>1, StageFrame
<1>3. \/ sync = "run" /\ sync' = "cancel"
      \/ sync = "cancel" /\ sync' = "gather"
      \/ /\ sync \in {"gather", "quiet", "moved"}
         /\ sync' \in {"quiet", "moved", "updated"}
      \/ sync = "updated" /\ sync' = "resume"
      \/ sync = "resume" /\ sync' = "run"
      \/ sync' = sync
  BY DEF SyncBegin, SyncGoesOn, CancelEnd, GatherEnd, Transfer, Update,
         ResumeBegin, ResumeEnd, CancelServer, ResumeServer
<1>4. \/ Gate = "open" /\ Gate' = "closing"
      \/ Gate = "closing" /\ Gate' = "closed"
      \/ Gate = "closed" /\ Gate' = "opening"
      \/ Gate = "opening" /\ Gate' = "open"
      \/ Gate' = Gate
  <2>1. CASE sync' = sync
    BY <2>1 DEF Gate
  <2>2. CASE sync' # sync
    BY <1>3, <2>2, Tables DEF GateTable
  <2> QED
    BY <2>1, <2>2
<1> QED
  BY <1>2, <1>4 DEF Task!Turn

\* The servers, the agent loops and the worker, whatever a synchronisation
\* does to them, take the steps of one task of module FullyAsync and no others.
THEOREM TaskImplemented == Spec => ImplementsTask
<1>1. Init => Task!Init
  <2> SUFFICES ASSUME Init PROVE Task!Init
    OBVIOUS
  <2>1. Stage = "none" /\ Gate = "open"
    BY Tables DEF Init, StageTable, GateTable
  <2> QED
    BY <2>1 DEF Task!Init
<1>2. RolloutInv /\ [Next]_vars => [Task!Next]_(Task!vars)
  <2> SUFFICES ASSUME RolloutInv, [Next]_vars
               PROVE  Task!Next \/ UNCHANGED <<Stage, Gate>>
    BY DEF Task!vars
  <2> USE DEF Task!Next
  <2>1. ASSUME NEW choice \in [Trajectories -> Servers], Submit(choice)
        PROVE  Task!Next
    BY <2>1, SubmitRefines
  <2>2. ASSUME NEW t \in Trajectories, Trajectory(t)
        PROVE  Task!Next \/ UNCHANGED <<Stage, Gate>>
    BY <2>2, AcceptRefines, RefuseRefines, GenerateRefines, ReturnRefines,
       FailRefines, JoinRefines DEF Trajectory
  <2>3. CASE Gathered
    BY <2>3, GatheredRefines
  <2>4. CASE SyncBegin \/ SyncGoesOn
    BY <2>4, SyncRefines
  <2>5. CASE UNCHANGED vars
    <3>1. UNCHANGED <<sample, ran, output, call, got, served, sync>>
      BY <2>5 DEF vars, sampleVars, callVars, syncVars
    <3> QED
      BY <3>1, StageFrame DEF Gate
  <2> QED
    BY <2>1, <2>2, <2>3, <2>4, <2>5 DEF Next
<1> QED
  BY <1>1, <1>2, RolloutInvariant, PTL DEF Spec, ImplementsTask, Task!Spec

=============================================================================
