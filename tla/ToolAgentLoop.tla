--------------------------- MODULE ToolAgentLoop ---------------------------
(***************************************************************************)
(* ToolAgentLoop: one trajectory of a model that calls tools, or talks to  *)
(* a user, and is never interrupted.  The text is reduced to its mask (1   *)
(* for a token of the model, 0 for a token it was given), what the model   *)
(* says is a choice.  Module PartialToolAgent shows that                   *)
(* AsyncPartialToolAgentLoop, whose trajectory is interrupted and resumed, *)
(* takes these steps.                                                      *)
(***************************************************************************)
EXTENDS Naturals, Sequences

CONSTANTS
  ResponseLength,     \* rollout.response_length
  ModelLength,        \* max_model_len less the first prompt
  MaxAssistantTurns,  \* multi_turn.max_assistant_turns, 0 for null
  MaxUserTurns,       \* multi_turn.max_user_turns, 0 for null
  Interaction,        \* interaction_config_path is given
  MaxObserved         \* bounds the tokens of a tool's or a user's answer

VARIABLES
  state,           \* AgentState; "raised" when the engine refused the prompt
  mask,            \* response_mask
  assistantTurns,
  userTurns,
  toolRuns         \* how often _handle_processing_tools_state has run

vars == <<state, mask, assistantTurns, userTurns, toolRuns>>

Init ==
  /\ state = "pending" /\ mask = <<>>
  /\ assistantTurns = 0 /\ userTurns = 0 /\ toolRuns = 0

Many(bit, n) == [i \in 1..n |-> bit]

Pending ==
  /\ state = "pending"
  /\ state' = "generating"
  /\ UNCHANGED <<mask, assistantTurns, userTurns, toolRuns>>

\* A turn of the model is over; `called' says whether it called a tool.
LimitReached(length, turns) ==
  \/ length >= ResponseLength
  \/ MaxAssistantTurns > 0 /\ turns >= MaxAssistantTurns
  \/ MaxUserTurns > 0 /\ userTurns >= MaxUserTurns

AfterTurn(length, turns, called) ==
  CASE LimitReached(length, turns) -> "terminated"
    [] ~LimitReached(length, turns) /\ called -> "tools"
    [] ~LimitReached(length, turns) /\ ~called ->
         IF Interaction THEN "interacting" ELSE "terminated"

\* When the user's answer has filled the response, what the model adds is cut
\* off it anyway: an interrupted trajectory adds nothing.
Generate ==
  /\ state = "generating"
  /\ \E n \in 0..ModelLength, called \in BOOLEAN :
       /\ n > 0 \/ Len(mask) >= ResponseLength
       /\ n > 0 => Len(mask) + n <= ModelLength
       /\ mask' = mask \o Many(1, n)
       /\ state' = AfterTurn(Len(mask) + n, assistantTurns + 1, called)
  /\ assistantTurns' = assistantTurns + 1
  /\ UNCHANGED <<userTurns, toolRuns>>

\* The prompt leaves no room: max_tokens is not positive.
Raise ==
  /\ state = "generating" /\ Len(mask) >= ModelLength
  /\ state' = "raised"
  /\ UNCHANGED <<mask, assistantTurns, userTurns, toolRuns>>

\* The tools run; an answer that does not fit ends the trajectory.
Tools ==
  /\ state = "tools"
  /\ toolRuns' = toolRuns + 1
  /\ \E n \in 1..MaxObserved :
       IF Len(mask) + n >= ResponseLength
       THEN state' = "terminated" /\ UNCHANGED <<mask, userTurns>>
       ELSE /\ mask' = mask \o Many(0, n)
            /\ userTurns' = userTurns + 1
            /\ state' = "generating"
  /\ UNCHANGED assistantTurns

\* The user answers, however long the answer is.
Interact ==
  /\ state = "interacting"
  /\ \E n \in 1..MaxObserved : mask' = mask \o Many(0, n)
  /\ userTurns' = userTurns + 1
  /\ state' \in {"generating", "terminated"}
  /\ UNCHANGED <<assistantTurns, toolRuns>>

Next == Pending \/ Generate \/ Raise \/ Tools \/ Interact

Spec == Init /\ [][Next]_vars
=============================================================================
