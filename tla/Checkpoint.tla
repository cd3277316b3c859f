----------------------------- MODULE Checkpoint -----------------------------
(***************************************************************************)
(* Checkpoints of the fully asynchronous trainer: what _save_checkpoint    *)
(* leaves on disk step by step, the retention of the checkpoint managers,  *)
(* and what load_checkpoint finds there when the job is started again      *)
(* after a crash at any of those steps.                                    *)
(*                                                                         *)
(* A checkpoint of version v is the folder global_step_<v> with a          *)
(* subfolder per role, written by the role's own manager, and the state of *)
(* the dataloader.  The file latest_checkpointed_iteration.txt names the   *)
(* version to resume from.                                                 *)
(***************************************************************************)
EXTENDS Naturals, Sequences, FiniteSets

CONSTANTS
  UseCritic,    \* use_critic
  Keep,         \* max_actor_ckpt_to_keep, max_critic_ckpt_to_keep; 0 is None
  Ranks,        \* world_size of a role's worker group
  SaveFreq,     \* trainer.save_freq, positive
  MaxVersion,   \* bounds current_param_version in the model
  MaxCrashes    \* bounds the crashes in the model

Roles == IF UseCritic THEN {"actor", "critic"} ELSE {"actor"}
Versions == 1..MaxVersion

ASSUME CheckpointAssumption ==
  /\ UseCritic \in BOOLEAN
  /\ Keep \in [Roles -> Nat]
  /\ Ranks \in Nat \ {0}
  /\ SaveFreq \in Nat \ {0}
  /\ MaxVersion \in Nat /\ MaxCrashes \in Nat

NoFile == 0             \* no tracker file
EmptyFile == MaxVersion + 1  \* opened for writing, nothing written yet

VARIABLES
  disk,      \* the subfolder of each role and version
  folders,   \* the folders global_step_<v> that exist
  data,      \* those that have a data.pt
  tracker,   \* latest_checkpointed_iteration.txt
  pc,        \* where the Trainer stands
  role,      \* the role being saved
  doomed,    \* checkpoints of that role being removed
  paths,     \* previous_saved_paths of each role's manager
  ver,       \* current_param_version
  last,      \* last_ckpt_version
  saved,     \* the newest version whose save came to its end
  crashes

diskVars == <<disk, folders, data, tracker>>
procVars == <<pc, role, doomed, paths, ver, last>>
vars == <<diskVars, procVars, saved, crashes>>

Pcs == {"train", "capacity", "make", "write", "register", "retire", "data",
        "open", "track", "down", "failed"}

\* The retention never loses track of what it may delete: a checkpoint is
\* being removed only in the steps that remove.
TypeOK ==
  /\ disk \in [Roles -> [Versions -> {"none", "partial", "complete"}]]
  /\ folders \subseteq Versions /\ data \subseteq Versions
  /\ tracker \in 0..(MaxVersion + 1)
  /\ pc \in Pcs
  /\ role \in Roles
  /\ doomed \subseteq Versions
  /\ doomed # {} => pc \in {"make", "retire"}
  /\ paths \in [Roles -> Seq(Versions)]
  /\ ver \in 0..MaxVersion /\ last \in 0..MaxVersion
  /\ saved \in 0..MaxVersion
  /\ crashes \in 0..MaxCrashes

Init ==
  /\ disk = [r \in Roles |-> [v \in Versions |-> "none"]]
  /\ folders = {} /\ data = {} /\ tracker = NoFile
  /\ pc = "train" /\ role = "actor" /\ doomed = {}
  /\ paths = [r \in Roles |-> <<>>]
  /\ ver = 0 /\ last = 0 /\ saved = 0 /\ crashes = 0

-----------------------------------------------------------------------------
(* _check_save_checkpoint, after a step that may have made a new version;  *)
(* esi is should_save_ckpt_esi.                                            *)

TrainStep(new, esi) ==
  /\ pc = "train"
  /\ new \in {ver, ver + 1} /\ new <= MaxVersion
  /\ ver' = new
  /\ pc' = IF new # last /\ (new % SaveFreq = 0 \/ esi) THEN "capacity"
                                                       ELSE "train"
  /\ role' = "actor"
  /\ UNCHANGED <<diskVars, doomed, paths, last, saved, crashes>>

-----------------------------------------------------------------------------
(* save_checkpoint of one role's manager.                                  *)

\* Drops the first n paths; their folders are removed next.
Retire(q, n) ==
  /\ paths' = [paths EXCEPT ![role] = SubSeq(q, n + 1, Len(q))]
  /\ doomed' = {q[i] : i \in 1..n}

EnsureCapacity_OffByOne ==
  /\ pc = "capacity"
  /\ IF Keep[role] > 1 /\ Len(paths[role]) >= Keep[role]
     THEN Retire(paths[role], Len(paths[role]) - Keep[role])
     ELSE UNCHANGED <<doomed, paths>>
  /\ pc' = "make"
  /\ UNCHANGED <<diskVars, role, ver, last, saved, crashes>>

\* ensure_checkpoint_capacity: with a limit of 1 it does nothing.
EnsureCapacity ==
  /\ pc = "capacity"
  /\ IF Keep[role] > 1 /\ Len(paths[role]) >= Keep[role]
     THEN Retire(paths[role], Len(paths[role]) - Keep[role] + 1)
     ELSE UNCHANGED <<doomed, paths>>
  /\ pc' = "make"
  /\ UNCHANGED <<diskVars, role, ver, last, saved, crashes>>

\* shutil.rmtree of one folder: some of its files are gone, then all.
RemoveSome(v) ==
  /\ v \in doomed
  /\ disk' = [disk EXCEPT ![role][v] = "partial"]
  /\ UNCHANGED <<folders, data, tracker, procVars, saved, crashes>>

RemoveLast(v) ==
  /\ v \in doomed
  /\ disk' = [disk EXCEPT ![role][v] = "none"]
  /\ doomed' = doomed \ {v}
  /\ UNCHANGED <<folders, data, tracker, pc, role, paths, ver, last, saved,
                 crashes>>

\* Only rank 0 makes room.  The other ranks are at local_mkdir_safe meanwhile
\* and make the new folder, before, among or after its removals.
MakeElsewhere ==
  /\ Ranks > 1 /\ pc \in {"capacity", "make"} /\ disk[role][ver] = "none"
  /\ disk' = [disk EXCEPT ![role][ver] = "partial"]
  /\ folders' = folders \cup {ver}
  /\ UNCHANGED <<data, tracker, procVars, saved, crashes>>

\* Rank 0 is at local_mkdir_safe too: the barrier, and the first files.
MakeFolder ==
  /\ pc = "make" /\ doomed = {}
  /\ disk' = [disk EXCEPT ![role][ver] = "partial"]
  /\ folders' = folders \cup {ver}
  /\ pc' = "write"
  /\ UNCHANGED <<data, tracker, role, doomed, paths, ver, last, saved,
                 crashes>>

\* Behind the last barrier every rank has written all it writes.
WriteShards ==
  /\ pc = "write"
  /\ disk' = [disk EXCEPT ![role][ver] = "complete"]
  /\ pc' = "register"
  /\ UNCHANGED <<folders, data, tracker, role, doomed, paths, ver, last,
                 saved, crashes>>

Register_OffByOne ==
  /\ pc = "register"
  /\ LET all == Append(paths[role], ver)
     IN Retire(all, IF Keep[role] > 0 /\ Len(all) >= Keep[role]
                    THEN Len(all) - Keep[role] + 1 ELSE 0)
  /\ pc' = "retire"
  /\ UNCHANGED <<diskVars, role, ver, last, saved, crashes>>

\* register_checkpoint
Register ==
  /\ pc = "register"
  /\ LET all == Append(paths[role], ver)
     IN Retire(all, IF Keep[role] > 0 /\ Len(all) > Keep[role]
                    THEN Len(all) - Keep[role] ELSE 0)
  /\ pc' = "retire"
  /\ UNCHANGED <<diskVars, role, ver, last, saved, crashes>>

\* The manager is done: the critic's turn, or the dataloader's.
NextRole ==
  /\ pc = "retire" /\ doomed = {}
  /\ IF UseCritic /\ role = "actor" THEN role' = "critic" /\ pc' = "capacity"
                                    ELSE role' = role /\ pc' = "data"
  /\ UNCHANGED <<diskVars, doomed, paths, ver, last, saved, crashes>>

-----------------------------------------------------------------------------
(* The rest of _save_checkpoint.                                           *)

SaveData_NotAwaited ==
  /\ pc = "data"
  /\ pc' = "open"
  /\ UNCHANGED <<diskVars, role, doomed, paths, ver, last, saved, crashes>>

\* Rollouter.save_checkpoint
SaveData ==
  /\ pc = "data"
  /\ folders' = folders \cup {ver} /\ data' = data \cup {ver}
  /\ pc' = "open"
  /\ UNCHANGED <<disk, tracker, role, doomed, paths, ver, last, saved,
                 crashes>>

\* open(..., "w") truncates the tracker; the version is written afterwards.
OpenTracker ==
  /\ pc = "open"
  /\ tracker' = EmptyFile
  /\ pc' = "track"
  /\ UNCHANGED <<disk, folders, data, role, doomed, paths, ver, last, saved,
                 crashes>>

WriteTracker ==
  /\ pc = "track"
  /\ tracker' = ver
  /\ last' = ver /\ saved' = ver
  /\ pc' = "train"
  /\ UNCHANGED <<disk, folders, data, role, doomed, paths, ver, crashes>>

-----------------------------------------------------------------------------
(* A crash, and a start with resume_mode "auto".                           *)

Crash ==
  /\ pc \notin {"down", "failed"} /\ crashes < MaxCrashes
  /\ pc' = "down" /\ crashes' = crashes + 1
  /\ doomed' = {}
  /\ paths' = [r \in Roles |-> <<>>]
  /\ ver' = 0 /\ last' = 0
  /\ UNCHANGED <<diskVars, role, saved>>

Restorable(v) == \A r \in Roles : disk[r][v] = "complete"

NothingFound_Lenient == tracker \notin folders

\* find_latest_ckpt_path returns None.
NothingFound == tracker = NoFile \/ (tracker \in Versions \ folders)

RestartFromScratch ==
  /\ pc = "down" /\ NothingFound
  /\ pc' = "train"
  /\ UNCHANGED <<diskVars, role, doomed, paths, ver, last, saved, crashes>>

RestartFromCheckpoint ==
  /\ pc = "down" /\ tracker \in folders /\ Restorable(tracker)
  /\ pc' = "train" /\ ver' = tracker /\ last' = tracker
  /\ UNCHANGED <<diskVars, role, doomed, paths, saved, crashes>>

\* int("") or a missing file raises: the job cannot be resumed.
RestartFails ==
  /\ pc = "down"
  /\ tracker = EmptyFile \/ (tracker \in folders /\ ~Restorable(tracker))
  /\ pc' = "failed"
  /\ UNCHANGED <<diskVars, role, doomed, paths, ver, last, saved, crashes>>

Next ==
  \/ \E new \in 0..MaxVersion, esi \in BOOLEAN : TrainStep(new, esi)
  \/ EnsureCapacity
  \/ \E v \in Versions : RemoveSome(v) \/ RemoveLast(v)
  \/ MakeElsewhere \/ MakeFolder \/ WriteShards \/ Register \/ NextRole
  \/ SaveData \/ OpenTracker \/ WriteTracker
  \/ Crash \/ RestartFromScratch \/ RestartFromCheckpoint \/ RestartFails

Spec == Init /\ [][Next]_vars

-----------------------------------------------------------------------------
(* What the checkpoints promise.                                           *)

\* The version the tracker names can be restored, dataloader included, at any
\* moment a crash may come, if no manager keeps a single checkpoint.
Tracked == tracker \in Versions => Restorable(tracker) /\ tracker \in data
KeepsMore == \A r \in Roles : Keep[r] # 1
TrackedComplete == KeepsMore => Tracked

\* A job that runs is never behind the newest save that came to its end,
\* however often it was restarted.
NoRollback == pc \notin {"down", "failed"} => ver >= saved

\* A job fails to start only because a crash came between the truncation of
\* the tracker and its write.  Then a checkpoint newer than the last finished
\* save is whole on disk, dataloader included, for resume_mode "resume_path".
Recoverable ==
  pc = "failed" /\ KeepsMore =>
    /\ tracker = EmptyFile
    /\ \E v \in data : v > saved /\ Restorable(v)

OnDisk(r) == {v \in Versions : disk[r][v] # "none"}

\* Where a role may have one folder more than its limit, the new one beside the
\* oldest: with several ranks until the first barrier, since only rank 0 makes
\* room and the others do not wait for it; with a limit of 1, under which no
\* room is made, until register_checkpoint has removed the oldest.
Extra(r) == IF Ranks = 1 /\ Keep[r] > 1 THEN 0 ELSE 1
ExtraNow(r) ==
  /\ role = r
  /\ \/ pc \in {"capacity", "make"}
     \/ pc \in {"write", "register", "retire"} /\ Keep[r] = 1

\* Behind the first barrier of a save, or with a limit of 1 behind its end, a
\* role has no more folders than its limit; before it one more.  A job started
\* again does not know what the jobs before it left, so every crash may leave
\* as many, and never more, however the crashes fall.
RetentionKept ==
  \A r \in Roles : Keep[r] > 0 =>
    Cardinality(OnDisk(r)) <= Keep[r] + crashes * (Keep[r] + Extra(r))
                              + (IF ExtraNow(r) THEN Extra(r) ELSE 0)

-----------------------------------------------------------------------------
(* What a docstring says and the code does not do.                         *)

\* "we keep the existing checkpoint until the new save completes
\* successfully": so the tracked one is there with a limit of 1 too.
TrackedAlways == Tracked
=============================================================================
