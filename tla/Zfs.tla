-------------------------------- MODULE Zfs --------------------------------
(***************************************************************************)
(* libinstall's zfs.rs: one zfs or zpool command per call, whose exit      *)
(* status and last words decide what is returned; pool_export repeats its  *)
(* command while the pool is busy.  Other processes use zfs as well.       *)
(*                                                                         *)
(* A dataset is the sequence of its components, the first its pool; of the *)
(* properties only whether those that were asked for are set is kept.      *)
(***************************************************************************)
EXTENDS Integers, Sequences, SequencesExt, FiniteSets

CONSTANTS
    Datasets,     \* names used
    Snapshots,
    AtNames,      \* datasets with an @ in their name
    AtSnapshots,  \* snapshots with one
    MaxFaults     \* bound on commands that fail without a reason of ours

Pools == {d[1] : d \in Datasets}
Parents(d) == {SubSeq(d, 1, n) : n \in 1..(Len(d) - 1)}

ASSUME ZfsAssumption ==
    /\ Datasets \subseteq Seq(STRING)
    /\ \A d \in Datasets : d # <<>> /\ Parents(d) \subseteq Datasets
    /\ MaxFaults \in Nat

VARIABLES
    imported,    \* pools
    datasets,    \* that are there, in pools imported or not
    snaps,       \* snaps[d]: of dataset d, the oldest first
    props,       \* datasets that have the properties asked for
    users,       \* pools somebody uses: they cannot be exported
    call,        \* the call under way or the last one
    status,      \* "idle", "busy"
    result,      \* of the last call: "none", "true", "false", "unit", "err"
    faults

zfs == <<imported, datasets, snaps, props>>
vars == <<imported, datasets, snaps, props, users, call, status, result, faults>>

(* A call: which function, its dataset or <<pool>>, its snapshot, and
   whether parents are made.  snapshot_exists and dataset_exists read only.  *)
Op == {"zpool_set", "zfs_set", "zfs_get", "dataset_exists", "dataset_remove",
       "pool_destroy", "pool_export", "snapshot_remove", "snapshot_exists",
       "snapshot_create", "snapshot_rollback", "dataset_create"}

SnapshotOps == {"snapshot_remove", "snapshot_exists", "snapshot_create",
                "snapshot_rollback"}
PoolOps == {"zpool_set", "pool_destroy", "pool_export"}

Calls == {c \in [op: Op, on: Datasets, snap: Snapshots, parents: BOOLEAN] :
             /\ c.op # "dataset_create" => ~c.parents
             /\ c.op \in {"pool_destroy", "pool_export"} => Len(c.on) = 1}

Visible(d) == d \in datasets /\ d[1] \in imported
Under(d) == {e \in datasets : IsPrefix(d, e)}
SnapIndex(c) == CHOOSE i \in DOMAIN snaps[c.on] : snaps[c.on][i] = c.snap
HasSnap(c) == Visible(c.on) /\ \E i \in DOMAIN snaps[c.on] : snaps[c.on][i] = c.snap

Init ==
    /\ imported = Pools /\ datasets = {<<p>> : p \in Pools}
    /\ snaps = [d \in Datasets |-> <<>>] /\ props = {}
    /\ users = {}
    /\ call \in Calls /\ status = "idle" /\ result = "none" /\ faults = 0

-----------------------------------------------------------------------------
(* The functions, but for their command.                                    *)

(* A pool property does not take a dataset; the rest but zfs_set and zfs_get
   refuse an @.                                                             *)
Refused(c) ==
    CASE c.op = "zpool_set" -> Len(c.on) > 1
      [] c.op \in {"zfs_set", "zfs_get"} -> FALSE
      [] c.op \in SnapshotOps -> c.on \in AtNames \/ c.snap \in AtSnapshots
      [] OTHER -> c.on \in AtNames

Call(c) ==
    /\ status = "idle"
    /\ call' = c
    /\ IF Refused(c) THEN status' = "idle" /\ result' = "err"
       ELSE status' = "busy" /\ result' = "none"
    /\ UNCHANGED <<zfs, users, faults>>

(* A faulty variant of Answer: any failure of a removal is taken for the
   absence of what was to be removed.                                       *)
AnswerAnyAbsent(c, words) ==
    IF c.op \in {"dataset_remove", "pool_destroy", "snapshot_remove"} THEN "false"
    ELSE "err"

(* What is returned when the command fails with these last words.           *)
Answer(c, words) ==
    IF \/ /\ c.op \in {"dataset_exists", "dataset_remove", "snapshot_remove",
                       "snapshot_exists"}
          /\ words = "dataset does not exist"
       \/ c.op = "pool_destroy" /\ words = "no such pool"
    THEN "false" ELSE "err"

(* A faulty variant of Retried: every failure is.                            *)
RetriedAlways(c, words) == c.op = "pool_export"

Retried(c, words) == c.op = "pool_export" /\ words = "pool is busy"

Success(c) ==
    IF c.op \in {"zpool_set", "zfs_set", "zfs_get", "dataset_create"} THEN "unit"
    ELSE "true"

-----------------------------------------------------------------------------
(* The commands.                                                            *)

(* Why a command fails; "" when it does what it is for.  Destroying a
   snapshot that is not there is complained of in other words.               *)
Complaint(c) ==
    IF c.op \in PoolOps
    THEN IF c.on[1] \notin imported THEN "no such pool"
         ELSE IF c.op # "zpool_set" /\ c.on[1] \in users THEN "pool is busy" ELSE ""
    ELSE IF c.op = "dataset_create"
    THEN IF c.on[1] \notin imported THEN "no such pool"
         ELSE IF c.parents THEN ""
         ELSE IF Visible(c.on) THEN "dataset already exists"
         ELSE IF \A d \in Parents(c.on) : Visible(d) THEN ""
         ELSE "parent does not exist"
    ELSE IF ~Visible(c.on) THEN "dataset does not exist"
    ELSE IF c.op \in {"snapshot_exists", "snapshot_rollback"} /\ ~HasSnap(c)
    THEN "dataset does not exist"
    ELSE IF c.op = "snapshot_remove" /\ ~HasSnap(c) THEN "could not find any snapshots"
    ELSE IF c.op = "snapshot_create" /\ HasSnap(c) THEN "dataset already exists"
    ELSE IF c.op = "dataset_remove" /\ Len(c.on) = 1 THEN "operation does not apply to pools"
    ELSE IF c.op = "dataset_remove" /\ c.on[1] \in users THEN "dataset is busy"
    ELSE ""

Keep(gone) == [d \in Datasets |-> IF d \in gone THEN <<>> ELSE snaps[d]]

(* A faulty variant of Created: parents are not made.                        *)
CreatedAlone(c) ==
    /\ datasets' = datasets \cup {c.on}
    /\ props' = props \cup {c.on}
    /\ UNCHANGED <<imported, snaps>>

(* zfs create -p is content with a dataset that is there, as it is.         *)
Created(c) ==
    /\ datasets' = datasets \cup {c.on} \cup Parents(c.on)
    /\ props' = IF c.on \in datasets THEN props ELSE props \cup {c.on}
    /\ UNCHANGED <<imported, snaps>>

Destroyed(gone, pools) ==
    /\ datasets' = datasets \ gone /\ props' = props \ gone
    /\ snaps' = Keep(gone) /\ imported' = imported \ pools

SnapsBecome(c, s) ==
    snaps' = [snaps EXCEPT ![c.on] = s] /\ UNCHANGED <<imported, datasets, props>>

Effect(c) ==
    CASE c.op = "dataset_create" -> Created(c)
      [] c.op = "dataset_remove" -> Destroyed(Under(c.on), {})
      [] c.op = "pool_destroy" -> Destroyed(Under(c.on), {c.on[1]})
      [] c.op = "pool_export" ->
            imported' = imported \ {c.on[1]} /\ UNCHANGED <<datasets, snaps, props>>
      [] c.op = "zfs_set" ->
            props' = props \cup {c.on} /\ UNCHANGED <<imported, datasets, snaps>>
      [] c.op = "snapshot_create" -> SnapsBecome(c, Append(snaps[c.on], c.snap))
      [] c.op = "snapshot_remove" ->
            SnapsBecome(c, RemoveAt(snaps[c.on], SnapIndex(c)))
      [] c.op = "snapshot_rollback" ->
            SnapsBecome(c, SubSeq(snaps[c.on], 1, SnapIndex(c)))
      [] OTHER -> UNCHANGED zfs

Command ==
    /\ status = "busy"
    /\ LET words == Complaint(call) IN
       IF words = ""
       THEN Effect(call) /\ status' = "idle" /\ result' = Success(call)
       ELSE /\ UNCHANGED zfs
            /\ IF Retried(call, words) THEN UNCHANGED <<status, result>>
               ELSE status' = "idle" /\ result' = Answer(call, words)
    /\ UNCHANGED <<users, call, faults>>

(* The command cannot be run, or fails in words nobody looks for.           *)
Fault ==
    /\ status = "busy" /\ faults < MaxFaults
    /\ status' = "idle" /\ result' = Answer(call, "I/O error")
    /\ faults' = faults + 1
    /\ UNCHANGED <<zfs, users, call>>

-----------------------------------------------------------------------------
(* Others: begin or end to use a pool, remove a dataset, import a pool.     *)
Use(p) ==
    /\ users' = IF p \in users THEN users \ {p} ELSE users \cup {p}
    /\ p \in imported
    /\ UNCHANGED <<zfs, call, status, result, faults>>

RemoveOther(d) ==
    /\ Visible(d) /\ Len(d) > 1 /\ d[1] \notin users
    /\ Destroyed(Under(d), {})
    /\ UNCHANGED <<users, call, status, result, faults>>

Import(p) ==
    /\ p \notin imported /\ <<p>> \in datasets
    /\ imported' = imported \cup {p} /\ users' = users \ {p}
    /\ UNCHANGED <<datasets, snaps, props, call, status, result, faults>>

Others ==
    \/ \E p \in Pools : Use(p) \/ Import(p)
    \/ \E d \in Datasets : RemoveOther(d)

Next ==
    \/ \E c \in Calls : Call(c)
    \/ Command
    \/ Fault
    \/ Others

Spec == Init /\ [][Next]_vars

(* A command that was started ends, and pool_export sleeps for a second.    *)
FairSpec == Spec /\ WF_vars(Command)

-----------------------------------------------------------------------------
(* The variables have their types; a dataset's parents are there, and it has
   a snapshot once.                                                         *)
TypeOK ==
    /\ imported \subseteq Pools /\ users \subseteq Pools
    /\ datasets \subseteq Datasets /\ props \subseteq datasets
    /\ \A d \in datasets : Parents(d) \subseteq datasets
    /\ snaps \in [Datasets -> Seq(Snapshots)]
    /\ \A d \in Datasets \ datasets : snaps[d] = <<>>
    /\ \A d \in Datasets : \A i, j \in DOMAIN snaps[d] :
          snaps[d][i] = snaps[d][j] => i = j
    /\ call \in Calls
    /\ status \in {"idle", "busy"}
    /\ result \in {"none", "true", "false", "unit", "err"}
    /\ faults \in 0..MaxFaults

Thing(c) ==
    CASE c.op \in PoolOps -> c.on[1] \in imported
      [] c.op \in SnapshotOps -> HasSnap(c)
      [] OTHER -> Visible(c.on)

(* Whatever failed or was done by others while the call was under way,      *)
(* the answer is true of the moment it was got (zfs.rs:65-218): "false" is  *)
(* never said of what is there, so that after a removal, answered either    *)
(* way, the thing is gone, and no failed command passes for its absence.    *)
AnswersTrue ==
    [][status = "busy" /\ status' = "idle" =>
          /\ result' = "false" => ~Thing(call)'
          /\ result' = "true" =>
                (Thing(call)' <=> call.op \in {"dataset_exists", "snapshot_exists",
                                               "snapshot_create", "snapshot_rollback"})
          /\ result' = "unit" => Thing(call)'
          /\ result' \in {"false", "err"} => UNCHANGED zfs]_vars

(* pool_export (zfs.rs:139-167) comes to an end, one way or the other, when *)
(* the pool is no longer used for good, and only that is retried: a pool    *)
(* that is not there or a command that cannot be run does not keep it       *)
(* waiting.  While the pool stays busy it waits for ever.                   *)
ExportEnds ==
    \A p \in Pools :
        <>[](p \notin users) =>
            (status = "busy" /\ call.on = <<p>> ~> status = "idle")
=============================================================================
