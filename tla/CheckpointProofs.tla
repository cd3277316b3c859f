-------------------------- MODULE CheckpointProofs --------------------------
(***************************************************************************)
(* Proofs about the checkpoints, for every limit, save frequency, number   *)
(* of ranks, versions and crashes: the tracked checkpoint is whole, a job  *)
(* never rolls back behind a finished save, one that cannot start has lost *)
(* nothing, and what a manager remembers is on disk.                       *)
(*                                                                         *)
(* The invariant says where the versions on disk stand to each other: a    *)
(* manager's paths increase and end at the last checkpoint or at the one   *)
(* being saved, what it removes is older than all of them, and the roles   *)
(* that came before in a save are complete at the new version.             *)
(*                                                                         *)
(* A second one counts the folders of a role: those its manager remembers, *)
(* those in its hands, and those that crashes have left behind.            *)
(***************************************************************************)
EXTENDS Checkpoint, FiniteSetTheorems, SequenceTheorems, TLAPS

Up == pc \notin {"down", "failed"}
Saving == Up /\ pc # "train"

\* The save has written, or registered, the part of role r.
Written(r) ==
  \/ role = r /\ pc \in {"register", "retire", "data", "open", "track"}
  \/ r = "actor" /\ role = "critic" /\ Saving
Registered(r) ==
  \/ role = r /\ pc \in {"retire", "data", "open", "track"}
  \/ r = "actor" /\ role = "critic" /\ Saving

LastRole == IF UseCritic THEN "critic" ELSE "actor"
Increasing(q) == \A i, j \in 1..Len(q) : i < j => q[i] < q[j]

VersionOrder ==
  /\ Up => ver >= last /\ saved = last
  /\ Saving => ver > last
  /\ ~Up => ver = 0 /\ last = 0

TrackerOrder ==
  /\ tracker # EmptyFile => tracker = saved
  /\ tracker = EmptyFile => ~Up \/ pc = "track"
  /\ tracker \in Versions => tracker \in data
  /\ data \subseteq folders

PathOrder ==
  \A r \in Roles :
    /\ Increasing(paths[r])
    /\ \A i \in 1..Len(paths[r]) :
         paths[r][i] <= last \/ (Registered(r) /\ paths[r][i] = ver)
    /\ ~Up => paths[r] = <<>>

DoomedOrder ==
  \A v \in doomed :
    /\ v < ver
    /\ KeepsMore => v < last
    /\ \A i \in 1..Len(paths[role]) : v < paths[role][i]

StageDone ==
  /\ \A r \in Roles : Written(r) => disk[r][ver] = "complete"
  /\ pc \in {"open", "track"} => ver \in data
  /\ pc \in {"data", "open", "track"} => role = LastRole

\* What a manager remembers is whole on disk.
RegisteredIntact ==
  \A r \in Roles : \A i \in 1..Len(paths[r]) :
    disk[r][paths[r][i]] = "complete"

\* While the tracker is empty the save that emptied it is whole; without a
\* limit of 1 that is the only way a start can fail.
TrackerLost ==
  /\ tracker = EmptyFile => \E v \in data : v > saved /\ Restorable(v)
  /\ pc = "failed" /\ KeepsMore => tracker = EmptyFile

IInv ==
  /\ TypeOK /\ VersionOrder /\ TrackerOrder /\ PathOrder /\ DoomedOrder
  /\ StageDone /\ RegisteredIntact /\ TrackedComplete /\ TrackerLost

-----------------------------------------------------------------------------

\* What SubSeq leaves of an increasing sequence lies above what it drops.
LEMMA RetireLemma ==
  ASSUME NEW q \in Seq(Versions), Increasing(q), NEW n \in 0..Len(q),
         NEW p, p = SubSeq(q, n + 1, Len(q))
  PROVE  /\ p \in Seq(Versions)
         /\ Len(p) = Len(q) - n
         /\ \A i \in 1..Len(p) : p[i] = q[n + i]
         /\ Increasing(p)
         /\ \A i \in 1..n, j \in 1..Len(p) : q[i] < p[j]
<1>1. \A i \in (n + 1)..Len(q) : q[i] \in Versions
  BY ElementOfSeq
<1>2. Len(q) \in Nat
  BY LenProperties
<1>3. /\ p \in Seq(Versions)
      /\ Len(p) = IF n + 1 <= Len(q) THEN Len(q) - (n + 1) + 1 ELSE 0
      /\ \A i \in 1..(Len(q) - (n + 1) + 1) : p[i] = q[(n + 1) + i - 1]
  BY <1>1, <1>2, SubSeqProperties
<1>4. Len(p) = Len(q) - n /\ \A i \in 1..Len(p) : p[i] = q[n + i]
  BY <1>2, <1>3
<1>5. Increasing(p)
  <2>1. SUFFICES ASSUME NEW i \in 1..Len(p), NEW j \in 1..Len(p), i < j
                 PROVE  p[i] < p[j]
    BY DEF Increasing
  <2>2. n + i \in 1..Len(q) /\ n + j \in 1..Len(q) /\ n + i < n + j
    BY <1>2, <1>4, <2>1
  <2> QED
    BY <1>4, <2>2 DEF Increasing
<1>6. \A i \in 1..n, j \in 1..Len(p) : q[i] < p[j]
  <2>1. SUFFICES ASSUME NEW i \in 1..n, NEW j \in 1..Len(p)
                 PROVE  q[i] < p[j]
    OBVIOUS
  <2>2. i \in 1..Len(q) /\ n + j \in 1..Len(q) /\ i < n + j
    BY <1>2, <1>4
  <2> QED
    BY <1>4, <2>2 DEF Increasing
<1> QED
  BY <1>3, <1>4, <1>5, <1>6

\* A greater element keeps an increasing sequence increasing.
LEMMA AppendLemma ==
  ASSUME NEW q \in Seq(Versions), Increasing(q), NEW v \in Versions,
         \A i \in 1..Len(q) : q[i] < v
  PROVE  /\ Append(q, v) \in Seq(Versions)
         /\ Len(Append(q, v)) = Len(q) + 1
         /\ \A i \in 1..Len(q) : Append(q, v)[i] = q[i]
         /\ Append(q, v)[Len(q) + 1] = v
         /\ Increasing(Append(q, v))
<1> DEFINE p == Append(q, v)
<1>1. /\ p \in Seq(Versions) /\ Len(p) = Len(q) + 1 /\ Len(q) \in Nat
      /\ \A i \in 1..Len(q) : p[i] = q[i]
      /\ p[Len(q) + 1] = v
  BY LenProperties, AppendProperties
<1> QED
  BY <1>1, ElementOfSeq DEF Increasing, Versions

-----------------------------------------------------------------------------
(* The invariant is inductive: one lemma per action.                       *)

\* What every step below needs of the state it starts from.
LEMMA StateFacts ==
  ASSUME IInv
  PROVE  /\ role \in Roles /\ "actor" \in Roles
         /\ \A r \in Roles : r = "actor" \/ r = "critic"
         /\ ver \in Nat /\ last \in Nat /\ saved \in Nat /\ MaxVersion \in Nat
         /\ Saving => ver \in Versions
         /\ \A r \in Roles : paths[r] \in Seq(Versions)
         /\ \A r \in Roles : Len(paths[r]) \in Nat
BY CheckpointAssumption, LenProperties
   DEF IInv, TypeOK, Roles, Versions, VersionOrder

\* A step of a job that runs, other than those that open and write it, finds
\* the tracker written and leaves it so.
LEMMA TrackerStays ==
  ASSUME IInv, Up, pc # "track", tracker' = tracker, pc' # "failed"
  PROVE  TrackerLost'
BY DEF IInv, TrackerOrder, TrackerLost, EmptyFile

LEMMA InitInv == Init => IInv
<1> SUFFICES ASSUME Init PROVE IInv
  OBVIOUS
<1>1. TypeOK
  BY CheckpointAssumption, EmptySeq DEF Init, TypeOK, Roles, Versions, Pcs, NoFile
<1>2. \A r \in Roles : Len(paths[r]) = 0
  BY DEF Init
<1>3. PathOrder /\ RegisteredIntact
  BY <1>2 DEF Init, PathOrder, Increasing, RegisteredIntact, Up
<1> QED
  BY <1>1, <1>3, CheckpointAssumption
     DEF Init, IInv, VersionOrder, TrackerOrder, DoomedOrder, StageDone,
         TrackedComplete, Tracked, TrackerLost, Written, Saving, Up, EmptyFile, NoFile,
         Versions

LEMMA TrainStepInv ==
  ASSUME IInv, NEW new \in 0..MaxVersion, NEW esi \in BOOLEAN,
         TrainStep(new, esi)
  PROVE  IInv'
<1> USE StateFacts DEF IInv, TrainStep, diskVars
<1>1. TypeOK'
  BY DEF TypeOK, Pcs
<1>2. VersionOrder'
  BY DEF TypeOK, VersionOrder, Up, Saving
<1>3. TrackerOrder'
  BY DEF TrackerOrder, Up
<1>4. PathOrder'
  BY DEF PathOrder, Registered, Saving, Up
<1>5. DoomedOrder' /\ StageDone'
  BY DEF TypeOK, DoomedOrder, StageDone, Written, Saving, Up
<1>6. RegisteredIntact' /\ TrackedComplete'
  BY DEF RegisteredIntact, TrackedComplete, Tracked, Restorable
<1>7. TrackerLost'
  <2>1. Up /\ pc # "track" /\ pc' # "failed" /\ tracker' = tracker
    BY DEF Up
  <2> QED
    BY <2>1, TrackerStays
<1> QED
  BY <1>1, <1>2, <1>3, <1>4, <1>5, <1>6, <1>7

\* ensure_checkpoint_capacity keeps the newest path, so that what it drops is
\* older than the last checkpoint.
LEMMA EnsureCapacityInv ==
  ASSUME IInv, EnsureCapacity
  PROVE  IInv'
<1> DEFINE q == paths[role]
           n == Len(q) - Keep[role] + 1
<1> USE StateFacts DEF IInv, EnsureCapacity, diskVars
<1>a. Keep[role] \in Nat
  BY CheckpointAssumption
<1>b. Saving /\ Saving' /\ Up /\ Up' /\ ~Registered(role)
  BY DEF Saving, Up, Registered
<1>c. /\ q \in Seq(Versions) /\ Increasing(q)
      /\ \A i \in 1..Len(q) : q[i] \in Versions /\ q[i] <= last
  BY <1>b, ElementOfSeq DEF PathOrder
<1>d. last < ver
  BY <1>b DEF VersionOrder
<1>e. TrackerLost'
  BY <1>b, TrackerStays
<1>1. CASE Keep[role] > 1 /\ Len(q) >= Keep[role]
  <2> DEFINE p == SubSeq(q, n + 1, Len(q))
  <2>1. n \in 0..Len(q) /\ n < Len(q)
    BY <1>1, <1>a
  <2>2. /\ p \in Seq(Versions) /\ Len(p) = Len(q) - n
        /\ \A i \in 1..Len(p) : p[i] = q[n + i]
        /\ Increasing(p)
        /\ \A i \in 1..n, j \in 1..Len(p) : q[i] < p[j]
    <3>1. p = SubSeq(q, n + 1, Len(q))
      OBVIOUS
    <3> HIDE DEF q, n, p
    <3> QED
      BY ONLY <1>c, <2>1, <3>1, RetireLemma
  <2>3. /\ paths' = [paths EXCEPT ![role] = p]
        /\ doomed' = {q[i] : i \in 1..n}
    BY <1>1 DEF Retire
  <2>4. \A i \in 1..n : q[i] \in Versions /\ q[i] < last /\ q[i] < ver
    <3>1. Len(q) \in 1..Len(q)
      BY <1>1, <1>a
    <3> HIDE DEF n
    <3>2. \A i \in 1..n : i \in 1..Len(q) /\ i < Len(q)
      BY <2>1
    <3> HIDE DEF q
    <3>3. \A i \in 1..n : q[i] < q[Len(q)]
      BY <1>c, <3>1, <3>2 DEF Increasing
    <3>4. q[Len(q)] \in Nat /\ q[Len(q)] <= last /\ last \in Nat /\ ver \in Nat
      BY <1>c, <3>1 DEF Versions
    <3>5. \A i \in 1..n : q[i] \in Nat /\ q[i] \in Versions
      BY <1>c, <3>2 DEF Versions
    <3> QED
      BY ONLY <1>d, <3>3, <3>4, <3>5
  <2>5. \A i \in 1..Len(p) : n + i \in 1..Len(q)
    BY <2>1, <2>2
  <2> HIDE DEF q, n, p
  <2>6. paths'[role] = p /\ \A r \in Roles : r # role => paths'[r] = paths[r]
    BY <2>3 DEF TypeOK
  <2>7. TypeOK'
    BY <2>2, <2>3, <2>4 DEF TypeOK, Pcs
  <2>8. PathOrder'
    <3>1. \A r \in Roles : Registered(r) => Registered(r)'
      BY <1>b DEF Registered
    <3> QED
      BY SMTT(30), <1>b, <1>c, <2>2, <2>5, <2>6, <3>1 DEF PathOrder
  <2>9. DoomedOrder'
    BY <2>2, <2>3, <2>4, <2>6 DEF DoomedOrder
  <2>10. RegisteredIntact'
    <3>1. RegisteredIntact /\ disk' = disk
      OBVIOUS
    <3>2. \A i \in 1..Len(p) : disk[role][p[i]] = "complete"
      <4>1. \A i \in 1..Len(q) : disk[role][q[i]] = "complete"
        BY ONLY <3>1, role \in Roles DEF RegisteredIntact, q
      <4> QED
        BY ONLY <2>2, <2>5, <4>1
    <3> QED
      BY ONLY <2>6, <3>1, <3>2 DEF RegisteredIntact
  <2>11. VersionOrder' /\ TrackerOrder' /\ StageDone' /\ TrackedComplete'
    BY <1>b DEF VersionOrder, TrackerOrder, StageDone, Written, TrackedComplete, Tracked, Restorable
  <2> QED
    BY <1>e, <2>7, <2>8, <2>9, <2>10, <2>11
<1>2. CASE ~(Keep[role] > 1 /\ Len(q) >= Keep[role])
  <2>1. UNCHANGED <<paths, doomed>>
    BY <1>2
  <2> QED
    BY <1>b, <1>e, <2>1
       DEF TypeOK, Pcs, VersionOrder, TrackerOrder, PathOrder, DoomedOrder,
           StageDone, RegisteredIntact, TrackedComplete, Tracked, Restorable,
           Written, Registered
<1> QED
  BY <1>1, <1>2

\* What a manager removes is neither tracked nor remembered nor being saved.
LEMMA RemoveInv ==
  ASSUME IInv, NEW v \in Versions, RemoveSome(v) \/ RemoveLast(v)
  PROVE  IInv'
<1> USE StateFacts DEF IInv
<1>1. /\ v \in doomed /\ doomed' \subseteq doomed
      /\ \E new \in {"none", "partial"} :
           disk' = [disk EXCEPT ![role][v] = new]
      /\ UNCHANGED <<folders, data, tracker, pc, role, paths, ver, last, saved,
                     crashes>>
  BY DEF RemoveSome, RemoveLast, procVars
<1>a. \A r \in Roles, w \in Versions :
        r # role \/ w # v => disk'[r][w] = disk[r][w]
  BY <1>1 DEF TypeOK
<1>2. TypeOK'
  BY <1>1 DEF TypeOK
<1>3. Up /\ Saving /\ pc \in {"make", "retire"}
  BY <1>1 DEF TypeOK, Up, Saving
<1>b. v # ver
  BY <1>1 DEF DoomedOrder, Versions
<1>c. KeepsMore => v # tracker
  BY <1>1, <1>3 DEF DoomedOrder, VersionOrder, TrackerOrder, TypeOK
<1>d. \A i \in 1..Len(paths[role]) : v # paths[role][i]
  <2>1. \A i \in 1..Len(paths[role]) : paths[role][i] \in Nat
    BY ElementOfSeq DEF Versions
  <2> QED
    BY <1>1, <2>1 DEF DoomedOrder, Versions
<1>5. StageDone'
  <2>1. \A r \in Roles : Written(r)' => Written(r)
    BY <1>1 DEF Written, Saving, Up
  <2>2. ver \in Versions /\ ver # v
    BY <1>3, <1>b
  <2>3. \A r \in Roles : disk'[r][ver] = disk[r][ver]
    BY ONLY <1>a, <2>2
  <2> QED
    BY <1>1, <2>1, <2>3 DEF StageDone, LastRole
<1>6. RegisteredIntact'
  BY <1>1, <1>a, <1>d, ElementOfSeq DEF RegisteredIntact
<1>7. TrackedComplete'
  <2>1. ASSUME KeepsMore, tracker \in Versions, NEW r \in Roles
        PROVE  disk'[r][tracker] = disk[r][tracker]
    <3>1. tracker # v
      BY <1>c, <2>1
    <3> QED
      BY ONLY <1>a, <2>1, <3>1
  <2> QED
    BY <1>1, <2>1 DEF TrackedComplete, Tracked, Restorable, KeepsMore
<1>8. VersionOrder' /\ TrackerOrder' /\ PathOrder' /\ DoomedOrder'
  BY <1>1 DEF VersionOrder, TrackerOrder, PathOrder, DoomedOrder, Registered, Saving, Up
<1>9. TrackerLost'
  BY <1>1, <1>3, TrackerStays
<1> QED
  BY <1>2, <1>5, <1>6, <1>7, <1>8, <1>9

\* A folder made ahead by another rank is newer than the tracked one and than
\* every path its manager remembers, and its save has just begun.
LEMMA MakeElsewhereInv ==
  ASSUME IInv, MakeElsewhere
  PROVE  IInv'
<1> USE StateFacts DEF IInv
<1>1. /\ pc \in {"capacity", "make"}
      /\ disk' = [disk EXCEPT ![role][ver] = "partial"]
      /\ folders' = folders \cup {ver}
      /\ UNCHANGED <<data, tracker, pc, role, doomed, paths, ver, last, saved,
                     crashes>>
  BY DEF MakeElsewhere, procVars
<1>2. Up /\ Saving /\ ver \in Versions
  BY <1>1 DEF Up, Saving
<1>a. \A r \in Roles, w \in Versions :
        r # role \/ w # ver => disk'[r][w] = disk[r][w]
  BY <1>1 DEF TypeOK
<1>3. TypeOK'
  BY <1>1, <1>2 DEF TypeOK
<1>4. VersionOrder' /\ TrackerOrder' /\ PathOrder' /\ DoomedOrder'
  BY <1>1, <1>2
     DEF VersionOrder, TrackerOrder, PathOrder, DoomedOrder, Registered, Saving, Up
<1>5. StageDone'
  <2>1. ASSUME NEW r \in Roles, Written(r)'
        PROVE  disk'[r][ver'] = "complete"
    <3>1. Written(r) /\ r # role
      BY <1>1, <2>1 DEF Written, Saving, Up
    <3> QED
      BY <1>1, <1>2, <1>a, <3>1 DEF StageDone
  <2> QED
    BY <1>1, <2>1 DEF StageDone
<1>6. RegisteredIntact'
  <2>1. ASSUME NEW r \in Roles, NEW i \in 1..Len(paths[r])
        PROVE  paths[r][i] \in Versions /\ (r = role => paths[r][i] # ver)
    <3>1. r = role => ~Registered(r)
      BY <1>1 DEF Registered
    <3>2. paths[r][i] \in Versions
      BY ElementOfSeq
    <3> QED
      BY <1>2, <3>1, <3>2 DEF PathOrder, VersionOrder, Versions
  <2> QED
    BY <1>1, <1>a, <2>1 DEF RegisteredIntact
<1>7. TrackedComplete'
  <2>1. tracker # ver
    BY <1>1, <1>2 DEF VersionOrder, TrackerOrder
  <2>2. ASSUME tracker \in Versions, NEW r \in Roles
        PROVE  disk'[r][tracker] = disk[r][tracker]
    BY ONLY <1>a, <2>1, <2>2
  <2> QED
    BY <1>1, <2>2 DEF TrackedComplete, Tracked, Restorable
<1>8. TrackerLost'
  BY <1>1, <1>2, TrackerStays
<1> QED
  BY <1>3, <1>4, <1>5, <1>6, <1>7, <1>8

\* The folder being written is newer than the tracked one and than every path
\* its manager remembers.
LEMMA WriteInv ==
  ASSUME IInv, MakeFolder \/ WriteShards
  PROVE  IInv'
<1> USE StateFacts DEF IInv
<1>1. /\ pc \in {"make", "write"} /\ pc' \in {"write", "register"}
      /\ pc = "make" => doomed = {}
      /\ \E new \in {"none", "partial", "complete"} :
           /\ disk' = [disk EXCEPT ![role][ver] = new]
           /\ pc' = "register" => new = "complete"
      /\ folders \subseteq folders' /\ folders' \subseteq folders \cup {ver}
      /\ UNCHANGED <<data, tracker, role, doomed, paths, ver, last, saved,
                     crashes>>
  BY DEF MakeFolder, WriteShards
<1>2. Up /\ Saving /\ Up' /\ Saving' /\ ver \in Versions
  BY <1>1 DEF Up, Saving
<1>a. \A r \in Roles, w \in Versions :
        r # role \/ w # ver => disk'[r][w] = disk[r][w]
  BY <1>1 DEF TypeOK
<1>b. pc' = "register" => disk'[role][ver] = "complete"
  BY <1>1, <1>2 DEF TypeOK
<1>3. doomed = {}
  BY <1>1 DEF TypeOK
<1>4. TypeOK'
  BY <1>1, <1>2, <1>3 DEF TypeOK, Pcs
<1>5. VersionOrder' /\ TrackerOrder' /\ PathOrder' /\ DoomedOrder'
  BY <1>1, <1>2, <1>3
     DEF VersionOrder, TrackerOrder, PathOrder, DoomedOrder, Registered
<1>6. StageDone'
  <2>1. ASSUME NEW r \in Roles, Written(r)'
        PROVE  disk'[r][ver'] = "complete"
    <3>1. CASE r = role
      BY <1>1, <1>b, <2>1, <3>1 DEF Written
    <3>2. CASE r # role
      <4>1. Written(r)
        BY <1>1, <1>2, <2>1, <3>2 DEF Written
      <4> QED
        BY <1>1, <1>2, <1>a, <3>2, <4>1 DEF StageDone
    <3> QED
      BY <3>1, <3>2
  <2> QED
    BY <1>1, <2>1 DEF StageDone
<1>7. RegisteredIntact'
  <2>1. ASSUME NEW r \in Roles, NEW i \in 1..Len(paths[r])
        PROVE  paths[r][i] \in Versions /\ (r = role => paths[r][i] # ver)
    <3>1. r = role => ~Registered(r)
      BY <1>1 DEF Registered
    <3>2. paths[r][i] \in Versions
      BY ElementOfSeq
    <3> QED
      BY <1>2, <3>1, <3>2 DEF PathOrder, VersionOrder, Versions
  <2> QED
    BY <1>1, <1>a, <2>1 DEF RegisteredIntact
<1>8. TrackedComplete'
  <2>1. tracker # ver
    BY <1>1, <1>2 DEF VersionOrder, TrackerOrder
  <2>2. ASSUME tracker \in Versions, NEW r \in Roles
        PROVE  disk'[r][tracker] = disk[r][tracker]
    BY ONLY <1>a, <2>1, <2>2
  <2> QED
    BY <1>1, <2>2 DEF TrackedComplete, Tracked, Restorable
<1>9. TrackerLost'
  BY <1>1, <1>2, TrackerStays
<1> QED
  BY <1>4, <1>5, <1>6, <1>7, <1>8, <1>9

\* register_checkpoint appends the new version and drops older ones: with a
\* limit other than 1 never the last checkpoint.
LEMMA RegisterInv ==
  ASSUME IInv, Register
  PROVE  IInv'
<1> DEFINE q == paths[role]
           all == Append(q, ver)
           n == IF Keep[role] > 0 /\ Len(all) > Keep[role]
                THEN Len(all) - Keep[role] ELSE 0
           p == SubSeq(all, n + 1, Len(all))
<1> USE StateFacts DEF IInv
<1>a. Keep[role] \in Nat
  BY CheckpointAssumption
<1>b. Saving /\ Saving' /\ Up /\ Up' /\ ~Registered(role) /\ ver \in Versions
  BY DEF Register, Saving, Up, Registered
<1>c. /\ q \in Seq(Versions) /\ Increasing(q)
      /\ \A i \in 1..Len(q) : q[i] \in Versions /\ q[i] <= last
  BY <1>b, ElementOfSeq DEF PathOrder
<1>d. last < ver /\ last \in Nat /\ ver \in Nat
  BY <1>b DEF VersionOrder
<1>e. \A i \in 1..Len(q) : q[i] < ver /\ q[i] \in Nat
  BY ONLY <1>c, <1>d, CheckpointAssumption DEF Versions
<1>1. /\ paths' = [paths EXCEPT ![role] = p]
      /\ doomed' = {all[i] : i \in 1..n}
      /\ pc = "register" /\ pc' = "retire"
      /\ UNCHANGED <<disk, folders, data, tracker, role, ver, last, saved,
                     crashes>>
  BY DEF Register, Retire, diskVars
<1>2. /\ all \in Seq(Versions) /\ Len(all) = Len(q) + 1
      /\ \A i \in 1..Len(q) : all[i] = q[i]
      /\ all[Len(q) + 1] = ver /\ Increasing(all)
  <2> HIDE DEF q
  <2>2. /\ q \in Seq(Versions) /\ Increasing(q) /\ ver \in Versions
        /\ \A i \in 1..Len(q) : q[i] < ver
    BY ONLY <1>b, <1>c, <1>e
  <2> QED
    BY ONLY <2>2, AppendLemma
<1>3. /\ n \in 0..Len(q) /\ Len(q) \in Nat
      /\ KeepsMore => \A i \in 1..n : i < Len(q)
  <2>1. Len(all) = Len(q) + 1 /\ Len(q) \in Nat
    BY <1>2
  <2>2. KeepsMore => Keep[role] # 1
    BY DEF KeepsMore
  <2> HIDE DEF q, all
  <2> QED
    BY ONLY <1>a, <2>1, <2>2
<1>4. /\ p \in Seq(Versions) /\ Len(p) = Len(all) - n
      /\ \A i \in 1..Len(p) : p[i] = all[n + i]
      /\ Increasing(p)
      /\ \A i \in 1..n, j \in 1..Len(p) : all[i] < p[j]
  <2>1. p = SubSeq(all, n + 1, Len(all))
    OBVIOUS
  <2> HIDE DEF all, n, p
  <2>2. n \in 0..Len(all) /\ all \in Seq(Versions) /\ Increasing(all)
    BY ONLY <1>2, <1>3
  <2> QED
    BY ONLY <2>1, <2>2, RetireLemma
<1>5. \A i \in 1..n : /\ all[i] \in Versions /\ all[i] < ver
                      /\ KeepsMore => all[i] < last
  <2> HIDE DEF n
  <2>1. \A i \in 1..n : i \in 1..Len(q) /\ all[i] = q[i]
    BY <1>2, <1>3
  <2>2. KeepsMore => \A i \in 1..n : q[i] < q[Len(q)] /\ Len(q) \in 1..Len(q)
    BY <1>c, <1>3, <2>1 DEF Increasing
  <2> HIDE DEF q, all
  <2> QED
    BY ONLY <1>c, <1>d, <1>e, <2>1, <2>2
<1>6. \A i \in 1..Len(p) : \/ p[i] = ver
                           \/ n + i \in 1..Len(q) /\ p[i] = q[n + i]
  <2> HIDE DEF q, all, n, p
  <2> QED
    BY ONLY <1>2, <1>3, <1>4
<1> HIDE DEF q, all, n, p
<1>7. paths'[role] = p /\ \A r \in Roles : r # role => paths'[r] = paths[r]
  BY <1>1 DEF TypeOK
<1>8. TypeOK'
  BY <1>1, <1>4, <1>5 DEF TypeOK, Pcs
<1>9. PathOrder'
  <2>1. \A r \in Roles : Registered(r) => Registered(r)'
    BY <1>1, <1>b DEF Registered
  <2>2. Registered(role)'
    BY <1>1 DEF Registered
  <2> QED
    BY <1>1, <1>b, <1>c, <1>4, <1>6, <1>7, <2>1, <2>2 DEF PathOrder
<1>10. DoomedOrder'
  BY <1>1, <1>4, <1>5, <1>7 DEF DoomedOrder, KeepsMore
<1>11. RegisteredIntact'
  <2>1. disk[role][ver] = "complete"
    BY <1>1 DEF StageDone, Written
  <2> QED
    BY SMTT(30), <1>1, <1>6, <1>7, <2>1 DEF RegisteredIntact, q
<1>12. VersionOrder' /\ TrackerOrder' /\ StageDone' /\ TrackedComplete'
  BY <1>1, <1>b DEF VersionOrder, TrackerOrder, StageDone, Written,
                    TrackedComplete, Tracked, Restorable, LastRole
<1>13. TrackerLost'
  BY <1>1, <1>b, TrackerStays
<1> QED
  BY <1>8, <1>9, <1>10, <1>11, <1>12, <1>13

\* The steps between and after the managers: what was written stays.
LEMMA NextRoleInv ==
  ASSUME IInv, NextRole
  PROVE  IInv'
<1> USE StateFacts DEF IInv, NextRole, diskVars
<1>1. TypeOK'
  BY DEF TypeOK, Pcs, Roles
<1>2. VersionOrder' /\ TrackerOrder' /\ DoomedOrder'
  BY DEF VersionOrder, TrackerOrder, DoomedOrder, Up, Saving
<1>3. \A r \in Roles : /\ Registered(r) => Registered(r)'
                       /\ Written(r)' => Written(r)
  BY DEF Registered, Written, Saving, Up
<1>4. PathOrder' /\ RegisteredIntact'
  BY <1>3 DEF PathOrder, RegisteredIntact, Up
<1>5. StageDone' /\ TrackedComplete'
  <2>1. pc' \in {"capacity", "data"} /\ (pc' = "data" => role' = LastRole)
    BY CheckpointAssumption DEF LastRole, Roles
  <2>2. UNCHANGED <<disk, ver, data, tracker>>
    OBVIOUS
  <2> QED
    BY ONLY IInv, <1>3, <2>1, <2>2
       DEF IInv, StageDone, TrackedComplete, Tracked, Restorable, LastRole
<1>6. TrackerLost'
  <2>1. Up /\ pc # "track" /\ pc' # "failed" /\ tracker' = tracker
    BY DEF Up
  <2> QED
    BY <2>1, TrackerStays
<1> QED
  BY <1>1, <1>2, <1>4, <1>5, <1>6

\* When the tracker is emptied the new version is whole already.
LEMMA SaveDataInv ==
  ASSUME IInv, SaveData \/ OpenTracker
  PROVE  IInv'
<1> USE StateFacts DEF IInv
<1>1. /\ \/ pc = "data" /\ pc' = "open"
         \/ pc = "open" /\ pc' = "track"
      /\ \/ /\ tracker' = tracker /\ pc' = "open"
            /\ folders' = folders \cup {ver} /\ data' = data \cup {ver}
         \/ /\ tracker' = EmptyFile /\ pc' = "track"
            /\ UNCHANGED <<folders, data>>
      /\ UNCHANGED <<disk, role, doomed, paths, ver, last, saved, crashes>>
  BY DEF SaveData, OpenTracker
<1>2. Up /\ Saving /\ Up' /\ Saving' /\ ver \in Versions /\ doomed = {}
  BY <1>1 DEF Up, Saving, TypeOK
<1>3. EmptyFile \notin Versions /\ EmptyFile \in 0..(MaxVersion + 1)
  BY CheckpointAssumption DEF EmptyFile, Versions
<1>4. TypeOK'
  BY <1>1, <1>2, <1>3 DEF TypeOK, Pcs
<1>5. VersionOrder' /\ TrackerOrder' /\ DoomedOrder'
  BY <1>1, <1>2, <1>3 DEF VersionOrder, TrackerOrder, DoomedOrder
<1>6. \A r \in Roles : Registered(r)' = Registered(r) /\ Written(r)' = Written(r)
  BY <1>1, <1>2 DEF Registered, Written
<1>7. PathOrder' /\ RegisteredIntact'
  BY <1>1, <1>2, <1>6 DEF PathOrder, RegisteredIntact
<1>8. StageDone'
  BY <1>1, <1>6 DEF StageDone, LastRole
<1>9. TrackedComplete'
  BY <1>1, <1>3 DEF TrackedComplete, Tracked, Restorable
<1>10. TrackerLost'
  <2>1. CASE pc = "data"
    BY <1>1, <1>2, <2>1, TrackerStays DEF TrackerOrder
  <2>2. CASE pc = "open"
    <3>1. \A r \in Roles : Written(r)
      BY <1>2, <2>2 DEF StageDone, Written, LastRole, Roles
    <3>2. ver \in data /\ ver > saved /\ Restorable(ver)
      BY <1>2, <2>2, <3>1 DEF StageDone, VersionOrder, Restorable
    <3> QED
      BY <1>1, <2>2, <3>2 DEF TrackerLost, Restorable
  <2> QED
    BY <1>1, <2>1, <2>2
<1> QED
  BY <1>4, <1>5, <1>7, <1>8, <1>9, <1>10

\* The tracker comes last: every role and the dataloader are at the version
\* it now names.
LEMMA WriteTrackerInv ==
  ASSUME IInv, WriteTracker
  PROVE  IInv'
<1> USE StateFacts DEF IInv, WriteTracker
<1>1. Up /\ Saving /\ Up' /\ ~Saving' /\ ver \in Versions /\ doomed = {}
  BY DEF Up, Saving, TypeOK
<1>2. TypeOK'
  BY <1>1 DEF TypeOK, Pcs, Versions
<1>3. last < ver /\ ver \in data
  BY <1>1 DEF VersionOrder, StageDone
<1>4. VersionOrder' /\ TrackerOrder' /\ DoomedOrder'
  BY <1>1, <1>3, CheckpointAssumption
     DEF VersionOrder, TrackerOrder, DoomedOrder, EmptyFile, Versions
<1>5. PathOrder' /\ RegisteredIntact'
  <2>1. \A r \in Roles : \A i \in 1..Len(paths[r]) :
          paths[r][i] \in Nat /\ paths[r][i] <= ver
    <3>1. ASSUME NEW r \in Roles, NEW i \in 1..Len(paths[r])
          PROVE  paths[r][i] \in Nat
      BY ElementOfSeq DEF Versions
    <3>2. ASSUME NEW r \in Roles, NEW i \in 1..Len(paths[r])
          PROVE  paths[r][i] <= last \/ paths[r][i] = ver
      BY DEF PathOrder
    <3> QED
      BY SMTT(30), <1>3, <3>1, <3>2
  <2> QED
    BY <1>1, <2>1 DEF PathOrder, RegisteredIntact
<1>6. \A r \in Roles : disk[r][ver] = "complete"
  <2>1. \A r \in Roles : Written(r)
    BY <1>1 DEF StageDone, Written, LastRole, Roles
  <2> QED
    BY <2>1 DEF StageDone
<1>7. StageDone' /\ TrackedComplete'
  BY <1>1, <1>3, <1>6
     DEF StageDone, Written, TrackedComplete, Tracked, Restorable
<1>8. TrackerLost'
  BY <1>1, CheckpointAssumption DEF TrackerLost, EmptyFile, Versions
<1> QED
  BY <1>2, <1>4, <1>5, <1>7, <1>8

\* A crash forgets what the processes knew and touches nothing on disk.
LEMMA CrashInv ==
  ASSUME IInv, Crash
  PROVE  IInv'
<1> USE StateFacts DEF IInv, Crash, diskVars
<1>1. \A r \in Roles : paths'[r] = <<>> /\ Len(paths'[r]) = 0
  OBVIOUS
<1>2. TypeOK'
  BY CheckpointAssumption, EmptySeq DEF TypeOK, Pcs
<1>3. PathOrder' /\ RegisteredIntact'
  BY <1>1 DEF PathOrder, RegisteredIntact, Increasing
<1>4. VersionOrder' /\ TrackerOrder' /\ DoomedOrder'
  BY DEF VersionOrder, TrackerOrder, DoomedOrder, Up, Saving
<1>5. StageDone' /\ TrackedComplete'
  BY DEF StageDone, Written, Saving, Up, TrackedComplete, Tracked, Restorable
<1>6. TrackerLost'
  BY DEF TrackerLost, Restorable
<1> QED
  BY <1>2, <1>3, <1>4, <1>5, <1>6

\* A start finds the tracked version or, without a tracker, begins at 0.
LEMMA RestartInv ==
  ASSUME IInv, RestartFromScratch \/ RestartFromCheckpoint \/ RestartFails
  PROVE  IInv'
<1> USE StateFacts DEF IInv
<1>1. /\ pc = "down" /\ pc' \in {"train", "failed"}
      /\ \/ pc' = "failed" /\ ver' = ver /\ last' = last
         \/ pc' = "train" /\ tracker = NoFile /\ ver' = ver /\ last' = last
         \/ /\ pc' = "train" /\ tracker \in Versions
            /\ ver' = tracker /\ last' = tracker
      /\ UNCHANGED <<disk, folders, data, tracker, role, doomed, paths, saved,
                     crashes>>
  BY DEF RestartFromScratch, RestartFromCheckpoint, RestartFails, NothingFound,
         diskVars, TypeOK, TrackerOrder
<1>2. /\ ver = 0 /\ last = 0 /\ doomed = {}
      /\ \A r \in Roles : paths[r] = <<>> /\ Len(paths[r]) = 0
  BY <1>1 DEF VersionOrder, PathOrder, TypeOK, Up
<1>3. TypeOK'
  BY <1>1, <1>2 DEF TypeOK, Pcs, Versions
<1>4. VersionOrder' /\ TrackerOrder'
  BY <1>1, <1>2, CheckpointAssumption
     DEF VersionOrder, TrackerOrder, Up, Saving, NoFile, EmptyFile, Versions
<1>5. PathOrder' /\ DoomedOrder' /\ RegisteredIntact'
  BY <1>1, <1>2 DEF PathOrder, DoomedOrder, RegisteredIntact
<1>6. StageDone' /\ TrackedComplete'
  BY <1>1 DEF StageDone, Written, Saving, Up, TrackedComplete, Tracked, Restorable
<1>7. TrackerLost'
  <2>1. pc' = "failed" /\ KeepsMore => tracker = EmptyFile
    BY <1>1 DEF RestartFails, RestartFromScratch, RestartFromCheckpoint,
                TrackedComplete, Tracked, TypeOK
  <2> QED
    BY <1>1, <2>1 DEF TrackerLost, Restorable, KeepsMore
<1> QED
  BY <1>3, <1>4, <1>5, <1>6, <1>7

LEMMA StutterInv == IInv /\ UNCHANGED vars => IInv'
BY DEF IInv, vars, diskVars, procVars, TypeOK, VersionOrder, TrackerOrder,
       PathOrder, DoomedOrder, StageDone, RegisteredIntact, TrackedComplete,
       Tracked, TrackerLost, Restorable, Written, Registered, Saving, Up

-----------------------------------------------------------------------------

\* The invariant holds throughout, whatever is saved and whenever it crashes.
THEOREM Invariance == Spec => []IInv
<1>1. IInv /\ [Next]_vars => IInv'
  BY TrainStepInv, EnsureCapacityInv, RemoveInv, MakeElsewhereInv, WriteInv,
     RegisterInv, NextRoleInv, SaveDataInv, WriteTrackerInv, CrashInv, RestartInv,
     StutterInv
     DEF Next
<1> QED
  BY InitInv, <1>1, PTL DEF Spec

\* The state stays within its types for every number of versions and crashes.
THEOREM TypeCorrectness == Spec => []TypeOK
<1>1. IInv => TypeOK
  BY DEF IInv
<1> QED
  BY Invariance, <1>1, PTL

\* With every limit other than 1 (none included) the version the tracker names
\* can be restored at every moment a crash may come.
THEOREM TrackedCheckpoint == Spec => []TrackedComplete
<1>1. IInv => TrackedComplete
  BY DEF IInv
<1> QED
  BY Invariance, <1>1, PTL

\* However often a job is restarted, it is never behind a save that came to
\* its end.
THEOREM NeverRollsBack == Spec => []NoRollback
<1>1. IInv => NoRollback
  BY StateFacts DEF IInv, NoRollback, VersionOrder, Up
<1> QED
  BY Invariance, <1>1, PTL

\* A job that cannot start has a checkpoint on disk that is newer than the last
\* finished save, and whole.
THEOREM NothingLost == Spec => []Recoverable
<1>1. IInv => Recoverable
  BY DEF IInv, TrackerLost, Recoverable
<1> QED
  BY Invariance, <1>1, PTL

\* What a manager remembers, and so keeps in the place of something older, is
\* whole on disk.
THEOREM RememberedIsIntact == Spec => []RegisteredIntact
<1>1. IInv => RegisteredIntact
  BY DEF IInv
<1> QED
  BY Invariance, <1>1, PTL

-----------------------------------------------------------------------------
(* Retention.  The folders of a role are those its manager remembers, those *)
(* in its hands (being removed, or the new one), and what crashes have left *)
(* behind.                                                                  *)

Remembered(r) == {paths[r][i] : i \in 1..Len(paths[r])}

\* The new folder is, or may be, on disk and not yet remembered.
NewMade ==
  \/ pc \in {"write", "register"}
  \/ pc \in {"capacity", "make"} /\ (Ranks > 1 \/ Keep[role] = 1)
InHand == doomed \cup (IF NewMade THEN {ver} ELSE {})

\* At most one folder is removed at a time: to make room, or for the new one
\* when the limit is 1.
Room ==
  /\ Keep[role] > 1 /\ pc \in {"make", "write", "register"} =>
       Len(paths[role]) < Keep[role]
  /\ doomed # {} =>
       /\ pc = IF Keep[role] > 1 THEN "make" ELSE "retire"
       /\ \E d \in Versions : doomed = {d}

\* What the crashes so far have left is at most L.
Kept(r, L) ==
  /\ OnDisk(r) \subseteq (Remembered(r) \cup L)
                         \cup (IF role = r THEN InHand ELSE {})
  /\ Len(paths[r]) <= Keep[r]
  /\ role = r => Room

Debt(r) == crashes * (Keep[r] + Extra(r))
RoleRetention(r) ==
  \E L \in SUBSET Versions : Cardinality(L) <= Debt(r) /\ Kept(r, L)

RetentionInv == \A r \in Roles : Keep[r] > 0 => RoleRetention(r)

\* A sequence has at most as many elements as places.
LEMMA ElementsBound ==
  ASSUME NEW q \in Seq(Versions), NEW n \in Nat, n = Len(q)
  PROVE  /\ IsFiniteSet({q[i] : i \in 1..n})
         /\ Cardinality({q[i] : i \in 1..n}) \in Nat
         /\ Cardinality({q[i] : i \in 1..n}) <= n
<1> DEFINE T == {q[i] : i \in 1..n}
           f == [i \in 1..n |-> q[i]]
<1>1. f \in Surjection(1..n, T)
  BY DEF Surjection
<1> HIDE DEF f, T
<1>2. IsFiniteSet(1..n) /\ Cardinality(1..n) = n
  <2>1. 1 \in Int /\ n \in Int /\ n \in Nat
    OBVIOUS
  <2>2. IsFiniteSet(1..n) /\ Cardinality(1..n) = IF 1 > n THEN 0 ELSE n - 1 + 1
    BY ONLY <2>1, FS_Interval
  <2> QED
    BY ONLY <2>1, <2>2
<1>3. IsFiniteSet(T) /\ Cardinality(T) <= Cardinality(1..n)
  BY ONLY <1>1, <1>2, FS_Surjection
<1> QED
  BY <1>2, <1>3, FS_CardinalityType DEF T

\* The sizes of finite sets add up at most.
LEMMA UnionBound ==
  ASSUME NEW S, NEW T, IsFiniteSet(S), IsFiniteSet(T)
  PROVE  /\ IsFiniteSet(S \cup T)
         /\ Cardinality(S) \in Nat /\ Cardinality(T) \in Nat
         /\ Cardinality(S \cup T) \in Nat
         /\ Cardinality(S \cup T) <= Cardinality(S) + Cardinality(T)
<1>1. /\ IsFiniteSet(S \cup T)
      /\ Cardinality(S \cup T)
           = Cardinality(S) + Cardinality(T) - Cardinality(S \cap T)
  BY FS_Union
<1>2. IsFiniteSet(S \cap T)
  BY FS_Intersection
<1>3. /\ Cardinality(S) \in Nat /\ Cardinality(T) \in Nat
      /\ Cardinality(S \cup T) \in Nat /\ Cardinality(S \cap T) \in Nat
  BY <1>1, <1>2, FS_CardinalityType
<1> QED
  BY <1>1, <1>3

\* What a manager has in its hands fits into the limit beside what it
\* remembers, up to the new folder where there is one too many.
LEMMA InHandBound ==
  ASSUME IInv, Keep[role] > 0, Room, Len(paths[role]) <= Keep[role]
  PROVE  /\ IsFiniteSet(InHand) /\ Cardinality(InHand) \in Nat
         /\ Len(paths[role]) + Cardinality(InHand)
              <= Keep[role] + (IF ExtraNow(role) THEN Extra(role) ELSE 0)
<1> DEFINE new == IF NewMade THEN {ver} ELSE {}
<1>1. /\ Keep[role] \in Nat /\ Ranks \in Nat \ {0}
      /\ Len(paths[role]) \in Nat /\ role \in Roles
  BY CheckpointAssumption, StateFacts
<1>2. /\ IsFiniteSet(doomed)
      /\ Cardinality(doomed) = IF doomed = {} THEN 0 ELSE 1
  BY FS_EmptySet, FS_Singleton DEF Room
<1>3. IsFiniteSet(new) /\ Cardinality(new) = IF NewMade THEN 1 ELSE 0
  BY FS_EmptySet, FS_Singleton
<1>4. /\ IsFiniteSet(InHand) /\ Cardinality(InHand) \in Nat
      /\ Cardinality(InHand) <= Cardinality(doomed) + Cardinality(new)
  <2>1. InHand = doomed \cup new
    BY DEF InHand
  <2> HIDE DEF new
  <2> QED
    BY <1>2, <1>3, <2>1, UnionBound
<1> HIDE DEF new
<1> DEFINE n == Len(paths[role])
           a == IF doomed = {} THEN 0 ELSE 1
           b == IF NewMade THEN 1 ELSE 0
           e == IF ExtraNow(role) THEN Extra(role) ELSE 0
<1>5. n + a + b <= Keep[role] + e
  <2>1. doomed # {} => pc = IF Keep[role] > 1 THEN "make" ELSE "retire"
    BY DEF Room
  <2>2. Keep[role] > 1 /\ pc \in {"make", "write", "register"} => n < Keep[role]
    BY DEF Room
  <2>3. n \in Nat /\ n <= Keep[role] /\ Keep[role] \in Nat \ {0}
    BY <1>1
  <2> HIDE DEF n
  <2>4. CASE Keep[role] > 1
    BY ONLY <1>1, <2>1, <2>2, <2>3, <2>4 DEF NewMade, ExtraNow, Extra
  <2>5. CASE Keep[role] = 1
    BY ONLY <1>1, <2>1, <2>3, <2>5 DEF NewMade, ExtraNow, Extra
  <2> QED
    BY <2>3, <2>4, <2>5
<1>6. n \in Nat /\ a \in Nat /\ b \in Nat /\ e \in Nat /\ Keep[role] \in Nat
  BY <1>1 DEF Extra
<1>7. Cardinality(InHand) <= a + b
  BY <1>2, <1>3, <1>4
<1> HIDE DEF n, a, b, e
<1>8. n + Cardinality(InHand) <= Keep[role] + e
  BY ONLY <1>4, <1>5, <1>6, <1>7
<1> QED
  BY <1>4, <1>8 DEF n, e

\* The folders on disk, counted by where they belong.
LEMMA FolderBound ==
  ASSUME IInv, NEW r \in Roles, Keep[r] > 0, NEW L \in SUBSET Versions, Kept(r, L)
  PROVE  /\ Cardinality(L) \in Nat /\ Cardinality(OnDisk(r)) \in Nat
         /\ Cardinality(OnDisk(r))
              <= Keep[r] + Cardinality(L)
                 + (IF ExtraNow(r) THEN Extra(r) ELSE 0)
<1>1. PICK n \in Nat : n = Len(paths[r])
  BY StateFacts
<1>2. /\ IsFiniteSet(Remembered(r)) /\ Cardinality(Remembered(r)) \in Nat
      /\ Cardinality(Remembered(r)) <= n
  BY <1>1, StateFacts, ElementsBound DEF Remembered
<1>3. IsFiniteSet(L)
  <2>1. IsFiniteSet(1..MaxVersion)
    <3>1. 1 \in Int /\ MaxVersion \in Int
      BY CheckpointAssumption
    <3> QED
      BY ONLY <3>1, FS_Interval
  <2> QED
    BY <2>1, FS_Subset DEF Versions
<1>4. Keep[r] \in Nat /\ n <= Keep[r] /\ Extra(r) \in Nat
  BY <1>1, CheckpointAssumption DEF Kept, Extra
<1> DEFINE known == Remembered(r) \cup L
<1>5. /\ IsFiniteSet(known) /\ Cardinality(known) \in Nat
      /\ Cardinality(L) \in Nat
      /\ Cardinality(known) <= n + Cardinality(L)
  BY <1>2, <1>3, UnionBound
<1> HIDE DEF known
<1>6. CASE role = r
  <2>1. /\ IsFiniteSet(InHand) /\ Cardinality(InHand) \in Nat
        /\ n + Cardinality(InHand)
             <= Keep[r] + (IF ExtraNow(r) THEN Extra(r) ELSE 0)
    BY <1>1, <1>6, InHandBound DEF Kept
  <2>2. /\ IsFiniteSet(known \cup InHand)
        /\ Cardinality(known \cup InHand) \in Nat
        /\ Cardinality(known \cup InHand)
             <= Cardinality(known) + Cardinality(InHand)
    BY <1>5, <2>1, UnionBound
  <2>3. OnDisk(r) \subseteq known \cup InHand
    BY <1>6 DEF Kept, known
  <2>4. /\ Cardinality(OnDisk(r)) \in Nat
        /\ Cardinality(OnDisk(r)) <= Cardinality(known \cup InHand)
    BY <2>2, <2>3, FS_Subset, FS_CardinalityType
  <2> QED
    BY <1>4, <1>5, <2>1, <2>2, <2>4
<1>7. CASE role # r
  <2>1. OnDisk(r) \subseteq known /\ ~ExtraNow(r)
    BY <1>7 DEF Kept, known, ExtraNow
  <2>2. /\ Cardinality(OnDisk(r)) \in Nat
        /\ Cardinality(OnDisk(r)) <= Cardinality(known)
    BY <1>5, <2>1, FS_Subset, FS_CardinalityType
  <2> QED
    BY <1>4, <1>5, <2>1, <2>2
<1> QED
  BY <1>6, <1>7

LEMMA RetentionBound ==
  ASSUME IInv, RetentionInv
  PROVE  RetentionKept
<1> SUFFICES ASSUME NEW r \in Roles, Keep[r] > 0
             PROVE  Cardinality(OnDisk(r))
                      <= Keep[r] + Debt(r)
                         + (IF ExtraNow(r) THEN Extra(r) ELSE 0)
  BY DEF RetentionKept, Debt
<1>1. PICK L \in SUBSET Versions : Cardinality(L) <= Debt(r) /\ Kept(r, L)
  BY DEF RetentionInv, RoleRetention
<1>2. /\ Cardinality(L) \in Nat /\ Cardinality(OnDisk(r)) \in Nat
      /\ Cardinality(OnDisk(r))
           <= Keep[r] + Cardinality(L) + (IF ExtraNow(r) THEN Extra(r) ELSE 0)
  BY <1>1, FolderBound
<1>3. /\ Keep[r] \in Nat /\ Extra(r) \in Nat /\ Debt(r) \in Nat
  BY CheckpointAssumption DEF Extra, Debt, IInv, TypeOK
<1> QED
  BY <1>1, <1>2, <1>3

\* A manager at its limit drops one path, the one it removes next.
LEMMA CapacityRetention ==
  ASSUME IInv, EnsureCapacity, Keep[role] > 0, NEW L, Kept(role, L)
  PROVE  Kept(role, L)'
<1> USE StateFacts
<1>1. /\ pc = "capacity" /\ pc' = "make" /\ doomed = {}
      /\ UNCHANGED <<disk, role, ver>>
      /\ Len(paths[role]) <= Keep[role] /\ Len(paths[role]) \in Nat
      /\ paths[role] \in Seq(Versions) /\ Keep[role] \in Nat
  BY CheckpointAssumption DEF EnsureCapacity, diskVars, Kept, Room
<1>2. OnDisk(role)' = OnDisk(role) /\ NewMade' = NewMade
  BY <1>1 DEF OnDisk, NewMade
<1>a. OnDisk(role) \subseteq (Remembered(role) \cup L)
                             \cup (IF NewMade THEN {ver} ELSE {})
  BY <1>1 DEF Kept, InHand
<1>3. CASE Keep[role] > 1 /\ Len(paths[role]) >= Keep[role]
  <2> DEFINE q == paths[role]
             p == SubSeq(q, 2, Len(q))
  <2>1. Len(q) = Keep[role] /\ Len(q) - Keep[role] + 1 = 1
    BY <1>1, <1>3
  <2>2. Retire(q, 1)
    <3>1. Retire(q, Len(q) - Keep[role] + 1)
      BY <1>3 DEF EnsureCapacity
    <3> QED
      BY ONLY <2>1, <3>1
  <2>3. /\ paths' = [paths EXCEPT ![role] = p]
        /\ doomed' = {q[1]} /\ q[1] \in Versions
    <3>1. doomed' = {q[i] : i \in 1..1} /\ 1 + 1 = 2
      BY <2>2 DEF Retire
    <3>2. \A i \in 1..1 : i = 1
      OBVIOUS
    <3>3. q[1] \in Versions
      BY <1>1, <1>3, ElementOfSeq
    <3> QED
      BY <2>2, <3>1, <3>2, <3>3 DEF Retire
  <2>4. /\ p \in Seq(Versions) /\ Len(p) = Len(q) - 1
        /\ \A i \in 1..Len(p) : p[i] = q[1 + i]
    <3>1. /\ q \in Seq(Versions) /\ Increasing(q) /\ 1 \in 0..Len(q)
          /\ p = SubSeq(q, 1 + 1, Len(q))
      BY <1>1, <1>3 DEF IInv, PathOrder
    <3> HIDE DEF q, p
    <3> QED
      BY ONLY ZenonT(30), <3>1, RetireLemma
  <2>5. paths'[role] = p
    BY <2>3 DEF IInv, TypeOK
  <2> HIDE DEF p
  <2>6. Remembered(role) \subseteq Remembered(role)' \cup {q[1]}
    <3>1. ASSUME NEW i \in 1..Len(q), i # 1
          PROVE  q[i] \in {p[j] : j \in 1..Len(p)}
      <4>1. i - 1 \in 1..(Len(q) - 1) /\ 1 + (i - 1) = i
        BY <1>1, <3>1
      <4>2. i - 1 \in 1..Len(p) /\ p[i - 1] = q[i]
        BY ONLY <2>4, <4>1
      <4> QED
        BY <4>2
    <3> QED
      BY SMTT(30), <1>1, <2>5, <3>1 DEF Remembered
  <2>7. OnDisk(role)' \subseteq (Remembered(role)' \cup L) \cup InHand'
    BY <1>1, <1>2, <1>a, <2>3, <2>6 DEF InHand
  <2>8. Len(paths'[role]) < Keep[role]
    BY <1>1, <2>1, <2>4, <2>5
  <2>9. Room'
    BY <1>1, <1>3, <2>3, <2>8 DEF Room
  <2> QED
    BY <1>1, <2>7, <2>8, <2>9 DEF Kept
<1>4. CASE ~(Keep[role] > 1 /\ Len(paths[role]) >= Keep[role])
  <2>1. UNCHANGED <<paths, doomed>>
    BY <1>1, <1>4 DEF EnsureCapacity
  <2>2. Room'
    BY <1>1, <1>4, <2>1 DEF Room
  <2>3. Remembered(role)' = Remembered(role) /\ InHand' = InHand
    BY <1>1, <1>2, <2>1 DEF Remembered, InHand
  <2> QED
    BY <1>1, <1>2, <2>1, <2>2, <2>3 DEF Kept
<1> QED
  BY <1>3, <1>4

\* The new version takes the place that was made; with a limit of 1 the old
\* one is removed now.
LEMMA RegisterRetention ==
  ASSUME IInv, Register, Keep[role] > 0, NEW L, Kept(role, L)
  PROVE  Kept(role, L)'
<1> DEFINE q == paths[role]
           all == Append(q, ver)
<1> USE StateFacts
<1>1. /\ pc = "register" /\ pc' = "retire" /\ doomed = {}
      /\ UNCHANGED <<disk, role, ver>>
      /\ Keep[role] > 1 => Len(q) < Keep[role]
      /\ Len(q) <= Keep[role] /\ Len(q) \in Nat
      /\ q \in Seq(Versions) /\ Keep[role] \in Nat
  BY CheckpointAssumption DEF Register, diskVars, Kept, Room
<1>2. OnDisk(role)' = OnDisk(role)
  BY <1>1 DEF OnDisk
<1>a. OnDisk(role) \subseteq (Remembered(role) \cup L) \cup {ver}
  BY <1>1 DEF Kept, InHand, NewMade
<1>3. ver \in Versions
  BY <1>1 DEF Saving, Up
<1>4. /\ all \in Seq(Versions) /\ Len(all) = Len(q) + 1
      /\ \A i \in 1..Len(q) : all[i] = q[i]
      /\ all[Len(q) + 1] = ver
  <2> HIDE DEF q
  <2> QED
    BY <1>1, <1>3, AppendProperties
<1>5. CASE Len(all) <= Keep[role]
  <2>1. SubSeq(all, 1, Len(all)) = all
    <3> HIDE DEF all
    <3> QED
      BY <1>4, SubSeqFull
  <2>2. paths' = [paths EXCEPT ![role] = all] /\ doomed' = {}
    <3>1. ~(Keep[role] > 0 /\ Len(all) > Keep[role])
      BY <1>1, <1>4, <1>5
    <3>2. /\ paths' = [paths EXCEPT ![role] = SubSeq(all, 0 + 1, Len(all))]
          /\ doomed' = {all[i] : i \in 1..0}
      BY <3>1 DEF Register, Retire
    <3>3. {all[i] : i \in 1..0} = {} /\ 0 + 1 = 1
      OBVIOUS
    <3> HIDE DEF all
    <3> QED
      BY ONLY <2>1, <3>2, <3>3
  <2>3. paths'[role] = all
    BY <2>2 DEF IInv, TypeOK
  <2> HIDE DEF all
  <2>4. Remembered(role)' = Remembered(role) \cup {ver}
    <3>1. {all[i] : i \in 1..(Len(q) + 1)} = {q[i] : i \in 1..Len(q)} \cup {ver}
      <4>1. \A i \in 1..(Len(q) + 1) : i \in 1..Len(q) \/ i = Len(q) + 1
        BY <1>1
      <4>2. Len(q) + 1 \in 1..(Len(q) + 1) /\ 1..Len(q) \subseteq 1..(Len(q) + 1)
        BY <1>1
      <4> HIDE DEF q
      <4> QED
        BY <1>4, <4>1, <4>2
    <3> QED
      BY <1>1, <1>4, <2>3, <3>1 DEF Remembered
  <2>5. Room'
    BY <1>1, <2>2 DEF Room
  <2> QED
    BY <1>1, <1>2, <1>5, <1>a, <2>3, <2>4, <2>5 DEF Kept
<1>6. CASE Len(all) > Keep[role]
  <2>1. Keep[role] = 1 /\ Len(q) = 1 /\ Len(all) = 2
    <3>1. /\ Keep[role] \in Nat /\ Keep[role] > 0 /\ Len(q) \in Nat
          /\ Keep[role] > 1 => Len(q) < Keep[role]
          /\ Len(q) <= Keep[role]
      BY <1>1
    <3>2. Len(all) = Len(q) + 1 /\ Len(all) > Keep[role]
      BY <1>4, <1>6
    <3>3. \A k, n, m \in Nat :
            /\ k > 0 /\ (k > 1 => n < k) /\ n <= k /\ m = n + 1 /\ m > k
            => k = 1 /\ n = 1 /\ m = 2
      OBVIOUS
    <3>4. Len(all) \in Nat
      BY <3>1, <3>2
    <3> HIDE DEF q, all
    <3> QED
      BY ONLY <3>1, <3>2, <3>3, <3>4
  <2>2. Retire(all, 1)
    <3>1. Retire(all, Len(all) - Keep[role])
      BY <1>6 DEF Register
    <3>2. Len(all) - Keep[role] = 1
      BY ONLY <2>1
    <3> QED
      BY ONLY <3>1, <3>2
  <2>3. all[1] = q[1] /\ all[2] = ver /\ q[1] \in Versions
    BY <1>1, <1>4, <2>1, ElementOfSeq
  <2>4. doomed' = {q[1]}
    <3>1. doomed' = {all[i] : i \in 1..1}
      BY <2>2 DEF Retire
    <3>2. \A i \in 1..1 : i = 1
      OBVIOUS
    <3> HIDE DEF all
    <3> QED
      BY <2>3, <3>1, <3>2
  <2>5. Len(paths'[role]) = 1 /\ paths'[role][1] = ver
    <3> HIDE DEF all
    <3>1. paths'[role] = SubSeq(all, 2, Len(all))
      <4>1. paths' = [paths EXCEPT ![role] = SubSeq(all, 1 + 1, Len(all))] /\ 1 + 1 = 2
        BY <2>2 DEF Retire
      <4> QED
        BY <4>1 DEF IInv, TypeOK
    <3>2. \A i \in 2..2 : all[i] \in Versions
      BY <1>3, <2>3
    <3>3. /\ Len(SubSeq(all, 2, 2)) = IF 2 <= 2 THEN 2 - 2 + 1 ELSE 0
          /\ \A i \in 1..(2 - 2 + 1) : SubSeq(all, 2, 2)[i] = all[2 + i - 1]
      BY ONLY <3>2, SubSeqProperties
    <3> QED
      BY <2>1, <2>3, <3>1, <3>3
  <2>6. Remembered(role) \subseteq {q[1]} /\ ver \in Remembered(role)'
    BY <1>1, <2>1, <2>5 DEF Remembered
  <2>7. Room'
    BY <1>1, <2>1, <2>3, <2>4 DEF Room
  <2>8. OnDisk(role)' \subseteq (Remembered(role)' \cup L) \cup InHand'
    BY <1>2, <1>a, <2>4, <2>6 DEF InHand
  <2> QED
    BY <1>1, <2>1, <2>5, <2>7, <2>8 DEF Kept
<1> QED
  BY <1>1, <1>4, <1>5, <1>6

\* A step that leaves a role's paths alone, and after which a folder of it that
\* was not on disk, or was in hand, is in hand.
LEMMA PathsSame ==
  ASSUME NEW r \in Roles, NEW L, Kept(r, L), paths'[r] = paths[r],
         \A v \in Versions : disk'[r][v] # "none" =>
           \/ disk[r][v] # "none" /\ ~(role = r /\ v \in InHand)
           \/ role' = r /\ v \in InHand',
         role' = r => Room'
  PROVE  Kept(r, L)'
<1>1. Remembered(r)' = Remembered(r) /\ Len(paths'[r]) = Len(paths[r])
  BY DEF Remembered
<1>2. ASSUME NEW v \in OnDisk(r)'
      PROVE  v \in (Remembered(r)' \cup L) \cup (IF role' = r THEN InHand' ELSE {})
  <2>1. v \in Versions /\ disk'[r][v] # "none"
    BY DEF OnDisk
  <2>2. CASE disk[r][v] # "none" /\ ~(role = r /\ v \in InHand)
    <3>1. v \in OnDisk(r)
      BY <2>1, <2>2 DEF OnDisk
    <3> QED
      BY <1>1, <2>2, <3>1 DEF Kept
  <2>3. CASE role' = r /\ v \in InHand'
    BY <2>3
  <2> QED
    BY <2>1, <2>2, <2>3
<1> QED
  BY <1>1, <1>2 DEF Kept

\* The other role's manager does not touch this role's folders.
LEMMA OtherManager ==
  ASSUME IInv, EnsureCapacity \/ Register, NEW r \in Roles, role # r,
         NEW L, Kept(r, L)
  PROVE  Kept(r, L)'
<1>1. disk' = disk /\ role' = role /\ paths'[r] = paths[r]
  <2>1. paths' = paths \/ \E p : paths' = [paths EXCEPT ![role] = p]
    BY DEF EnsureCapacity, Register, Retire
  <2> QED
    BY <2>1, StateFacts DEF EnsureCapacity, Register, diskVars, IInv, TypeOK
<1> QED
  BY <1>1, PathsSame

\* Without a crash nothing is left behind that was not before.
LEMMA KeptStays ==
  ASSUME IInv, [Next]_vars, ~Crash, NEW r \in Roles, Keep[r] > 0, NEW L, Kept(r, L)
  PROVE  Kept(r, L)' /\ crashes' = crashes
<1>a. Keep[r] \in Nat /\ TypeOK /\ (role = r => Room)
  BY CheckpointAssumption DEF IInv, Kept
<1>b. crashes' = crashes
  BY DEF Next, TrainStep, EnsureCapacity, RemoveSome, RemoveLast,
     MakeElsewhere, MakeFolder, WriteShards, Register, NextRole, SaveData,
     OpenTracker, WriteTracker, RestartFromScratch, RestartFromCheckpoint,
     RestartFails, vars
<1> SUFFICES Kept(r, L)'
  BY <1>b
<1>1. CASE EnsureCapacity
  <2>1. CASE role = r
    <3>1. role' = r
      BY <1>1, <2>1 DEF EnsureCapacity
    <3>2. Kept(role, L)'
      BY <1>1, <2>1, CapacityRetention
    <3> QED
      BY ONLY <3>1, <3>2
  <2>2. CASE role # r
    BY <1>1, <2>2, OtherManager
  <2> QED
    BY <2>1, <2>2
<1>2. CASE Register
  <2>1. CASE role = r
    <3>1. role' = r
      BY <1>2, <2>1 DEF Register
    <3>2. Kept(role, L)'
      BY <1>2, <2>1, RegisterRetention
    <3> QED
      BY ONLY <3>1, <3>2
  <2>2. CASE role # r
    BY <1>2, <2>2, OtherManager
  <2> QED
    BY <2>1, <2>2
<1>3. ASSUME NEW v \in Versions, RemoveSome(v) \/ RemoveLast(v)
      PROVE  Kept(r, L)'
  <2>1. /\ v \in doomed /\ UNCHANGED <<pc, role, paths, ver>>
        /\ doomed' = doomed \/ (doomed' = doomed \ {v} /\ disk'[role][v] = "none")
        /\ \A w \in Versions : w # v \/ r # role => disk'[r][w] = disk[r][w]
    BY <1>3, <1>a DEF RemoveSome, RemoveLast, procVars, TypeOK
  <2>2. \A w \in Versions : disk'[r][w] # "none" =>
          \/ disk[r][w] # "none" /\ ~(role = r /\ w \in InHand)
          \/ role' = r /\ w \in InHand'
    <3>1. NewMade' = NewMade
      BY <2>1 DEF NewMade
    <3> QED
      BY <2>1, <3>1 DEF InHand
  <2>3. role' = r => Room'
    BY <1>a, <2>1 DEF Room
  <2> QED
    BY <2>1, <2>2, <2>3, PathsSame
<1>4. CASE MakeElsewhere \/ MakeFolder \/ WriteShards
  <2>1. /\ pc \in {"capacity", "make", "write"}
        /\ \/ pc' = pc /\ pc # "write" /\ Ranks > 1
           \/ doomed = {} /\ pc # "capacity" /\ pc' \in {"write", "register"}
        /\ UNCHANGED <<role, doomed, paths, ver>>
        /\ \A w \in Versions : w # ver \/ r # role => disk'[r][w] = disk[r][w]
    BY <1>4, <1>a DEF MakeElsewhere, MakeFolder, WriteShards, TypeOK, procVars
  <2>2. InHand \subseteq InHand' /\ ver \in InHand'
    BY <2>1 DEF InHand, NewMade
  <2>3. role' = r => Room'
    BY <1>a, <2>1 DEF Room
  <2> QED
    BY <2>1, <2>2, <2>3, PathsSame
<1>5. ASSUME UNCHANGED <<disk, doomed, paths>>, doomed = {},
             pc' \notin {"make", "write", "register"},
             role = r => ~NewMade
      PROVE  Kept(r, L)'
  <2>1. role = r => InHand = {}
    BY <1>5 DEF InHand
  <2>2. Room'
    BY <1>5 DEF Room
  <2> QED
    BY <1>5, <2>1, <2>2, PathsSame
<1>6. ASSUME NEW new \in 0..MaxVersion, NEW esi \in BOOLEAN, TrainStep(new, esi)
      PROVE  Kept(r, L)'
  <2>1. /\ doomed = {} /\ pc = "train" /\ pc' \in {"train", "capacity"}
        /\ UNCHANGED <<disk, doomed, paths>>
    BY <1>6, <1>a DEF TrainStep, TypeOK, diskVars
  <2> QED
    BY <1>5, <2>1 DEF NewMade
<1>7. CASE NextRole
  BY <1>5, <1>7 DEF NextRole, diskVars, NewMade
<1>8. CASE SaveData \/ OpenTracker \/ WriteTracker
  <2>1. /\ pc \in {"data", "open", "track"} /\ pc' \in {"open", "track", "train"}
        /\ UNCHANGED <<disk, doomed, paths>>
    BY <1>8 DEF SaveData, OpenTracker, WriteTracker
  <2>2. doomed = {}
    BY <1>a, <2>1 DEF TypeOK
  <2> QED
    BY <1>5, <2>1, <2>2 DEF NewMade
<1>9. CASE RestartFromScratch \/ RestartFromCheckpoint \/ RestartFails
  <2>1. /\ pc = "down" /\ pc' \in {"train", "failed"}
        /\ UNCHANGED <<disk, doomed, paths>>
    BY <1>9 DEF RestartFromScratch, RestartFromCheckpoint, RestartFails, diskVars
  <2>2. doomed = {}
    BY <1>a, <2>1 DEF TypeOK
  <2> QED
    BY <1>5, <2>1, <2>2 DEF NewMade
<1>10. CASE UNCHANGED vars
  <2>1. UNCHANGED <<disk, pc, role, doomed, paths, ver>>
    BY <1>10 DEF vars, diskVars, procVars
  <2>2. OnDisk(r)' = OnDisk(r) /\ Remembered(r)' = Remembered(r) /\ InHand' = InHand
    BY <2>1 DEF OnDisk, Remembered, InHand, NewMade
  <2>3. role' = r => Room'
    BY <1>a, <2>1 DEF Room
  <2> QED
    BY <2>1, <2>2, <2>3 DEF Kept
<1> QED
  BY <1>1, <1>2, <1>3, <1>4, <1>6, <1>7, <1>8, <1>9, <1>10 DEF Next

\* After a crash everything a role has on disk is left behind, and that is no
\* more than the limit, the new folder, and what earlier crashes left.
LEMMA CrashRetention ==
  ASSUME IInv, Crash, NEW r \in Roles, Keep[r] > 0, RoleRetention(r)
  PROVE  RoleRetention(r)'
<1> USE StateFacts
<1>1. PICK L \in SUBSET Versions : Cardinality(L) <= Debt(r) /\ Kept(r, L)
  BY DEF RoleRetention
<1>2. /\ Keep[r] \in Nat /\ Extra(r) \in Nat /\ crashes \in Nat
      /\ Debt(r) \in Nat
  BY CheckpointAssumption DEF Extra, Debt, IInv, TypeOK
<1>3. Debt(r)' = Debt(r) + (Keep[r] + Extra(r))
  <2>1. Debt(r)' = (crashes + 1) * (Keep[r] + Extra(r))
    BY DEF Crash, Extra, Debt
  <2>2. \A c, k \in Nat : (c + 1) * k = c * k + k
    OBVIOUS
  <2>3. Keep[r] + Extra(r) \in Nat
    BY <1>2
  <2>4. (crashes + 1) * (Keep[r] + Extra(r))
          = crashes * (Keep[r] + Extra(r)) + (Keep[r] + Extra(r))
    BY ONLY <1>2, <2>2, <2>3
  <2> QED
    BY ONLY <2>1, <2>4 DEF Debt
<1>4. Cardinality(OnDisk(r)) <= Debt(r)'
  <2>1. /\ Cardinality(L) \in Nat /\ Cardinality(OnDisk(r)) \in Nat
        /\ Cardinality(OnDisk(r))
             <= Keep[r] + Cardinality(L) + (IF ExtraNow(r) THEN Extra(r) ELSE 0)
    BY <1>1, FolderBound
  <2> QED
    BY <1>1, <1>2, <1>3, <2>1
<1>5. /\ UNCHANGED <<disk, role>> /\ pc' = "down" /\ doomed' = {}
      /\ paths'[r] = <<>> /\ Len(paths'[r]) = 0
  BY DEF Crash, diskVars
<1>6. OnDisk(r)' = OnDisk(r) /\ OnDisk(r) \in SUBSET Versions
  BY <1>5 DEF OnDisk
<1>7. Kept(r, OnDisk(r))'
  <2>1. Room'
    BY <1>5 DEF Room
  <2> QED
    BY <1>2, <1>5, <2>1 DEF Kept
<1> QED
  BY <1>4, <1>6, <1>7 DEF RoleRetention

LEMMA RetentionStep ==
  ASSUME IInv, RetentionInv, [Next]_vars
  PROVE  RetentionInv'
<1> SUFFICES ASSUME NEW r \in Roles, Keep[r] > 0
             PROVE  RoleRetention(r)'
  BY DEF RetentionInv
<1>1. RoleRetention(r)
  BY DEF RetentionInv
<1>2. CASE Crash
  BY <1>1, <1>2, CrashRetention
<1>3. CASE ~Crash
  <2>1. PICK L \in SUBSET Versions : Cardinality(L) <= Debt(r) /\ Kept(r, L)
    BY <1>1 DEF RoleRetention
  <2>2. Kept(r, L)' /\ crashes' = crashes
    BY <1>3, <2>1, KeptStays
  <2>3. Debt(r)' = Debt(r)
    BY <2>2 DEF Debt, Extra
  <2> QED
    BY <2>1, <2>2, <2>3 DEF RoleRetention
<1> QED
  BY <1>2, <1>3

\* The folders of a role never exceed its limit, up to the one that is new
\* before an old one is gone, and what each crash has left behind, which is as
\* much again at most.
THEOREM RetentionHolds == Spec => []RetentionKept
<1>1. Init => RetentionInv
  <2> SUFFICES ASSUME Init, NEW r \in Roles, Keep[r] > 0 PROVE RoleRetention(r)
    BY DEF RetentionInv
  <2>1. OnDisk(r) = {} /\ Len(paths[r]) = 0 /\ doomed = {} /\ pc = "train"
    BY DEF Init, OnDisk
  <2>2. Cardinality({}) <= Debt(r)
    BY FS_EmptySet, CheckpointAssumption DEF Init, Debt, Extra
  <2>3. Kept(r, {})
    BY <2>1, CheckpointAssumption DEF Kept, Room
  <2> QED
    BY <2>2, <2>3 DEF RoleRetention
<1>2. IInv /\ RetentionInv /\ [Next]_vars => RetentionInv'
  BY RetentionStep
<1>3. IInv /\ RetentionInv => RetentionKept
  BY RetentionBound
<1> QED
  BY Invariance, <1>1, <1>2, <1>3, PTL DEF Spec
=============================================================================
