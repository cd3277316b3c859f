-------------------------- MODULE PartialToolAgent --------------------------
(***************************************************************************)
(* AsyncPartialToolAgentLoop: a trajectory of a model that calls tools,    *)
(* interrupted by parameter synchronisations and resumed from the          *)
(* AgentData and the AgentState its output carries.  The agent loop looks  *)
(* at the cancellation_event of its worker between two states; the LLM     *)
(* server refuses or interrupts a generation.  cancel() and resume() of    *)
(* the manager reach worker and server in either order.                    *)
(*                                                                         *)
(* A token of the model opens a tool call, closes one or is other text; a  *)
(* token the trajectory is given is "seen".                                *)
(***************************************************************************)
EXTENDS Naturals, Sequences

CONSTANTS
  ResponseLength,     \* rollout.response_length
  ModelLength,        \* max_model_len less the first prompt
  MaxAssistantTurns,  \* multi_turn.max_assistant_turns, 0 for null
  MaxUserTurns,       \* multi_turn.max_user_turns, 0 for null
  Interaction,        \* interaction_config_path is given
  MaxObserved,        \* bounds the tokens of a tool's or a user's answer
  MaxSyncs            \* bounds the synchronisations in the model

ASSUME ToolAgentAssumption ==
  /\ ResponseLength \in Nat \ {0}
  /\ ModelLength \in Nat /\ ModelLength >= ResponseLength
  /\ MaxAssistantTurns \in Nat /\ MaxUserTurns \in Nat
  /\ Interaction \in BOOLEAN
  /\ MaxObserved \in Nat \ {0} /\ MaxSyncs \in Nat

VARIABLES
  run,          \* "held" by the Rollouter, "loop", "call" (a generation is
                \* under way), "done" or "failed"
  state,        \* AgentState, saved as agent_state
  ids,          \* prompt_ids after the first prompt
  mask,         \* response_mask
  logprobs,     \* the length of response_logprobs
  responseIds,  \* response_ids
  called,       \* tool_calls is not empty
  assistantTurns, userTurns,
  got,          \* what the engine has generated for the call under way
  turn,         \* history: what the model has said in its turn
  toolRuns,     \* history: how often the tools have run
  event,        \* the worker's cancellation_event is set
  paused,       \* the LLM server is paused
  cut,          \* the cancel_event of the call under way is set
  sync,         \* where a synchronisation stands
  syncs         \* how many have begun

dataVars == <<ids, mask, logprobs, responseIds, called, assistantTurns,
              userTurns, turn, toolRuns>>
syncVars == <<event, paused, sync, syncs>>
vars == <<run, state, dataVars, got, cut, syncVars>>

Words == {"open", "close", "text"}

\* The loop stays in its states; a cancel event belongs to a call under way,
\* and a call to the state that makes it.
TypeOK ==
  /\ run \in {"held", "loop", "call", "done", "failed"}
  /\ state \in {"pending", "generating", "tools", "interacting", "terminated"}
  /\ ids \in Seq(Words \cup {"seen"})
  /\ mask \in Seq({0, 1})
  /\ logprobs \in Nat
  /\ responseIds \in Seq(Words)
  /\ called \in BOOLEAN
  /\ assistantTurns \in Nat /\ userTurns \in Nat
  /\ got \in Seq(Words) /\ turn \in Seq(Words)
  /\ toolRuns \in Nat
  /\ event \in BOOLEAN /\ paused \in BOOLEAN /\ cut \in BOOLEAN
  /\ cut => run = "call"
  /\ run = "call" => state = "generating"
  /\ sync \in {"run", "cancel", "gather", "quiet", "resume"}
  /\ syncs \in 0..MaxSyncs

Init ==
  /\ run = "held" /\ state = "pending"
  /\ ids = <<>> /\ mask = <<>> /\ logprobs = 0
  /\ responseIds = <<>> /\ called = FALSE
  /\ assistantTurns = 0 /\ userTurns = 0
  /\ got = <<>> /\ turn = <<>> /\ toolRuns = 0
  /\ event = FALSE /\ paused = FALSE /\ cut = FALSE
  /\ sync = "run" /\ syncs = 0

-----------------------------------------------------------------------------
(* run and _run_state_machine.                                             *)

\* The sample is submitted, for the first time or with what it has.  pause()
\* and resume() have the Rollouter's lock.
Submit ==
  /\ run = "held" /\ sync \in {"run", "quiet"}
  /\ run' = "loop"
  /\ UNCHANGED <<state, dataVars, got, cut, syncVars>>

Terminate ==
  /\ run = "loop" /\ state = "terminated"
  /\ run' = "done"
  /\ UNCHANGED <<state, dataVars, got, cut, syncVars>>

\* The event is looked at before each state.
Noticed == event

Interrupted ==
  /\ run = "loop" /\ state # "terminated" /\ Noticed
  /\ run' = "held"
  /\ UNCHANGED <<state, dataVars, got, cut, syncVars>>

Handles(s) == run = "loop" /\ state = s /\ ~Noticed

\* prompt_ids is the first prompt.
Pending ==
  /\ Handles("pending")
  /\ state' = "generating"
  /\ ids' = <<>>
  /\ UNCHANGED <<run, mask, logprobs, responseIds, called, assistantTurns,
                 userTurns, turn, toolRuns, got, cut, syncVars>>

\* _handle_generating_state_partial, up to the answer of the server.
Call ==
  /\ Handles("generating")
  /\ ~paused /\ Len(ids) < ModelLength
  /\ run' = "call" /\ got' = <<>> /\ cut' = FALSE
  /\ UNCHANGED <<state, dataVars, syncVars>>

\* max_tokens is not positive: the engine raises.
CallRaises ==
  /\ Handles("generating")
  /\ ~paused /\ Len(ids) >= ModelLength
  /\ run' = "failed"
  /\ UNCHANGED <<state, dataVars, got, cut, syncVars>>

Generate ==
  /\ run = "call" /\ Len(ids) + Len(got) < ModelLength
  /\ \E w \in Words : got' = Append(got, w)
  /\ UNCHANGED <<run, state, dataVars, cut, syncVars>>

-----------------------------------------------------------------------------
(* The answer: a part of the model's turn, or the rest of it.              *)

Ones(n) == [i \in 1..n |-> 1]

KeepPart_Unmasked(part) ==
  /\ responseIds' = part
  /\ ids' = ids \o part
  /\ mask' = mask
  /\ logprobs' = logprobs + Len(part)
  /\ turn' = turn \o part

\* "Save the generated parts."
KeepPart(part) ==
  /\ responseIds' = part
  /\ ids' = ids \o part
  /\ mask' = mask \o Ones(Len(part))
  /\ logprobs' = logprobs + Len(part)
  /\ turn' = turn \o part

Cancelled_Counted(part) ==
  /\ KeepPart(part)
  /\ state' = IF Len(mask') >= ResponseLength THEN "terminated" ELSE "generating"
  /\ assistantTurns' = assistantTurns + 1
  /\ UNCHANGED <<called, userTurns, toolRuns>>

Cancelled(part) ==
  /\ KeepPart(part)
  /\ IF Len(mask') >= ResponseLength
     THEN state' = "terminated" /\ assistantTurns' = assistantTurns + 1
     ELSE state' = "generating" /\ UNCHANGED assistantTurns
  /\ UNCHANGED <<called, userTurns, toolRuns>>

\* What HermesToolParser.extract_tool_calls finds: <tool_call> ... </tool_call>.
HasCall(words) ==
  \E i, j \in 1..Len(words) : i < j /\ words[i] = "open" /\ words[j] = "close"

LimitReached(length, turns) ==
  \/ length >= ResponseLength
  \/ MaxAssistantTurns > 0 /\ turns >= MaxAssistantTurns
  \/ MaxUserTurns > 0 /\ userTurns >= MaxUserTurns

Ended(part) ==
  /\ KeepPart(part)
  /\ assistantTurns' = assistantTurns + 1
  /\ IF LimitReached(Len(mask'), assistantTurns')
     THEN state' = "terminated" /\ called' = called
     ELSE /\ called' = HasCall(responseIds')
          /\ state' = IF called' THEN "tools"
                      ELSE IF Interaction THEN "interacting" ELSE "terminated"
  /\ UNCHANGED <<userTurns, toolRuns>>

\* The server is paused: nothing, and at once.
AnswerRefused ==
  /\ Handles("generating") /\ paused
  /\ Cancelled(<<>>)
  /\ UNCHANGED <<run, got, cut, syncVars>>

AnswerCut ==
  /\ run = "call" /\ cut
  /\ Cancelled(got)
  /\ run' = "loop" /\ got' = <<>> /\ cut' = FALSE
  /\ UNCHANGED syncVars

AnswerEnded ==
  /\ run = "call" /\ got # <<>>
  /\ Ended(got)
  /\ run' = "loop" /\ got' = <<>> /\ cut' = FALSE
  /\ UNCHANGED syncVars

-----------------------------------------------------------------------------
(* The states it inherits from ToolAgentLoop, which no event interrupts.   *)

Observe(n) ==
  /\ ids' = ids \o [i \in 1..n |-> "seen"]
  /\ mask' = mask \o [i \in 1..n |-> 0]
  /\ logprobs' = IF logprobs > 0 THEN logprobs + n ELSE 0
  /\ userTurns' = userTurns + 1
  /\ turn' = <<>>

Tools ==
  /\ Handles("tools")
  /\ toolRuns' = toolRuns + 1
  /\ \E n \in 1..MaxObserved :
       IF Len(mask) + n >= ResponseLength
       THEN /\ state' = "terminated"
            /\ UNCHANGED <<ids, mask, logprobs, userTurns, turn>>
       ELSE Observe(n) /\ state' = "generating"
  /\ UNCHANGED <<run, responseIds, called, assistantTurns, got, cut, syncVars>>

Interact ==
  /\ Handles("interacting")
  /\ \E n \in 1..MaxObserved : Observe(n)
  /\ state' \in {"generating", "terminated"}
  /\ UNCHANGED <<run, responseIds, called, assistantTurns, toolRuns, got, cut,
                 syncVars>>

Agent ==
  \/ Terminate \/ Interrupted \/ Pending
  \/ Call \/ CallRaises \/ Generate
  \/ AnswerRefused \/ AnswerCut \/ AnswerEnded
  \/ Tools \/ Interact

-----------------------------------------------------------------------------
(* The synchronisation: pause() cancels and gathers, resume() lifts both.  *)

agentVars == <<state, dataVars, got>>

SyncBegin ==
  /\ sync = "run" /\ syncs < MaxSyncs
  /\ sync' = "cancel" /\ syncs' = syncs + 1
  /\ UNCHANGED <<run, agentVars, cut, event, paused>>

CancelWorker ==
  /\ sync = "cancel" /\ ~event
  /\ event' = TRUE
  /\ UNCHANGED <<run, agentVars, cut, paused, sync, syncs>>

CancelServer ==
  /\ sync = "cancel" /\ ~paused
  /\ paused' = TRUE
  /\ cut' = (run = "call")
  /\ UNCHANGED <<run, agentVars, event, sync, syncs>>

CancelEnd ==
  /\ sync = "cancel" /\ event /\ paused
  /\ sync' = "gather"
  /\ UNCHANGED <<run, agentVars, cut, event, paused, syncs>>

GatherEnd ==
  /\ sync = "gather" /\ run \notin {"loop", "call"}
  /\ sync' = "quiet"
  /\ UNCHANGED <<run, agentVars, cut, event, paused, syncs>>

ResumeBegin ==
  /\ sync = "quiet"
  /\ sync' = "resume"
  /\ UNCHANGED <<run, agentVars, cut, event, paused, syncs>>

ResumeWorker ==
  /\ sync = "resume" /\ event
  /\ event' = FALSE
  /\ UNCHANGED <<run, agentVars, cut, paused, sync, syncs>>

ResumeServer ==
  /\ sync = "resume" /\ paused
  /\ paused' = FALSE
  /\ UNCHANGED <<run, agentVars, cut, event, sync, syncs>>

ResumeEnd_ServersOnly ==
  /\ sync = "resume" /\ ~paused
  /\ sync' = "run"
  /\ UNCHANGED <<run, agentVars, cut, event, paused, syncs>>

ResumeEnd ==
  /\ sync = "resume" /\ ~event /\ ~paused
  /\ sync' = "run"
  /\ UNCHANGED <<run, agentVars, cut, event, paused, syncs>>

SyncGoesOn ==
  \/ CancelWorker \/ CancelServer \/ CancelEnd \/ GatherEnd
  \/ ResumeBegin \/ ResumeWorker \/ ResumeServer \/ ResumeEnd

Next == Submit \/ Agent \/ SyncBegin \/ SyncGoesOn

Spec == Init /\ [][Next]_vars

(* The agent loop, the manager's calls and the Rollouter go on; the engine *)
(* is not told to end a turn, it ends at the latest at max_tokens.         *)
Fairness == WF_vars(Submit) /\ WF_vars(Agent) /\ WF_vars(SyncGoesOn)

FairSpec == Spec /\ Fairness

-----------------------------------------------------------------------------
(* What the loop promises.                                                 *)

\* Token, mask and log probability stay together across interruptions: the
\* mask is 0 exactly at the tokens the trajectory was given.
Aligned ==
  /\ Len(mask) = Len(ids) /\ logprobs = Len(ids)
  /\ \A i \in 1..Len(ids) : mask[i] = 0 <=> ids[i] = "seen"

\* Whatever the synchronisations interrupt, the trajectory ends; and a pause
\* comes to its end, because the trajectory notices the cancellation in
\* whatever state it is.
TrajectoryEnds ==
  /\ <>(run \in {"done", "failed"})
  /\ sync = "gather" ~> sync = "quiet"

\* The loop without interruptions: the unfinished turn is not there yet.
Unfinished == IF state = "generating" THEN Len(turn) ELSE 0

Loop == INSTANCE ToolAgentLoop WITH
  state <- IF run = "failed" THEN "raised" ELSE state,
  mask <- SubSeq(mask, 1, Len(mask) - Unfinished)

\* The interrupted trajectory takes the steps of ToolAgentLoop: the turns are
\* counted once however many parts they come in, the limits are tested at
\* the same points and the tools never run twice for a turn.
ImplementsLoop == Loop!Spec

-----------------------------------------------------------------------------
(* What the documentation says and the code does not do.                   *)

\* "Resuming execution from the saved state": a call in a turn that reached no
\* limit is found, whether or not the turn was interrupted.
CallsFound ==
  /\ state \in {"tools", "interacting", "terminated"}
  /\ ~LimitReached(Len(mask), assistantTurns)
  => called = HasCall(turn)
=============================================================================
