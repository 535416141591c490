----------------------------- MODULE ZfsProofs -----------------------------
(* Theorems about zfs.rs: its answers are true, for every set of datasets
   and snapshots, any number of failures, and whatever others do.           *)
EXTENDS Zfs, SequenceTheorems, TLAPS

LEMMA DatasetType ==
  ASSUME NEW d \in Datasets
  PROVE  /\ d \in Seq(STRING) /\ Len(d) \in Nat \ {0} /\ d[1] \in STRING
         /\ Parents(d) \subseteq Datasets /\ <<d[1]>> \in Datasets /\ d[1] \in Pools
<1>1. d \in Seq(STRING) /\ d # <<>> /\ Parents(d) \subseteq Datasets
  BY ZfsAssumption
<1>2. Len(d) \in Nat \ {0}
  BY <1>1, EmptySeq
<1>3. d[1] \in STRING
  BY <1>1, <1>2, ElementOfSeq
<1>4. SubSeq(d, 1, 1) = <<d[1]>>
  <2>1. \A i \in 1..1 : d[i] \in STRING
    BY <1>3
  <2>2. /\ SubSeq(d, 1, 1) \in Seq(STRING) /\ Len(SubSeq(d, 1, 1)) = 1
        /\ SubSeq(d, 1, 1)[1] = d[1]
    BY <2>1, SubSeqProperties
  <2>3. <<d[1]>> \in Seq(STRING) /\ Len(<<d[1]>>) = 1 /\ <<d[1]>>[1] = d[1]
    BY <1>3
  <2>4. \A i \in 1..1 : SubSeq(d, 1, 1)[i] = <<d[1]>>[i]
    BY <2>2, <2>3
  <2> QED
    BY <2>2, <2>3, <2>4, SeqEqual
<1>5. <<d[1]>> \in Datasets
  <2>1. CASE Len(d) = 1
    <3>1. SubSeq(d, 1, Len(d)) = d
      BY <1>1, SubSeqFull
    <3> QED
      BY <1>4, <2>1, <3>1
  <2>2. CASE Len(d) > 1
    <3>1. SubSeq(d, 1, 1) \in Parents(d)
      BY <1>2, <2>2 DEF Parents
    <3> QED
      BY <1>1, <1>4, <3>1
  <2>3. Len(d) = 1 \/ Len(d) > 1
    BY <1>2
  <2> QED
    BY <2>1, <2>2, <2>3
<1> QED
  BY <1>1, <1>2, <1>3, <1>5 DEF Pools

(* A dataset that lies in another, and what lies in it.                     *)
LEMMA ParentPrefix ==
  ASSUME NEW d \in Seq(STRING), NEW p \in Parents(d)
  PROVE  p \in Seq(STRING) /\ Len(p) \in 1..(Len(d) - 1) /\ p = SubSeq(d, 1, Len(p))
<1>1. PICK n \in 1..(Len(d) - 1) : p = SubSeq(d, 1, n)
  BY DEF Parents
<1>2. Len(d) \in Nat /\ n \in Int /\ 1 <= n
  BY <1>1, LenProperties
<1>3. \A i \in 1..n : d[i] \in STRING
  BY <1>1, <1>2, ElementOfSeq
<1>4. p \in Seq(STRING) /\ Len(p) = n
  BY <1>1, <1>2, <1>3, SubSeqProperties
<1> QED
  BY <1>1, <1>4

LEMMA ShorterPrefix ==
  ASSUME NEW d \in Seq(STRING), NEW n \in 1..Len(d), NEW m \in 1..n
  PROVE  SubSeq(SubSeq(d, 1, n), 1, m) = SubSeq(d, 1, m)
<1>1. Len(d) \in Nat
  BY LenProperties
<1> QED
  BY <1>1, SubSeqOfSubSeq

LEMMA GrandParents ==
  ASSUME NEW d \in Seq(STRING), NEW p \in Parents(d)
  PROVE  Parents(p) \subseteq Parents(d)
<1>1. Len(d) \in Nat /\ Len(p) \in 1..(Len(d) - 1) /\ p = SubSeq(d, 1, Len(p))
  BY ParentPrefix, LenProperties
<1>2. ASSUME NEW n \in 1..(Len(p) - 1)
      PROVE  n \in 1..(Len(d) - 1) /\ SubSeq(p, 1, n) = SubSeq(d, 1, n)
  <2>1. Len(p) \in 1..Len(d) /\ n \in 1..Len(p)
    BY <1>1
  <2>2. SubSeq(SubSeq(d, 1, Len(p)), 1, n) = SubSeq(d, 1, n)
    BY <2>1, ShorterPrefix
  <2> QED
    BY <1>1, <2>2
<1> QED
  BY <1>2 DEF Parents

LEMMA PrefixOfParent ==
  ASSUME NEW g \in Seq(STRING), NEW d \in Seq(STRING), NEW p \in Parents(d), IsPrefix(g, p),
         Len(g) # 0
  PROVE  IsPrefix(g, d)
<1>1. Len(d) \in Nat /\ Len(p) \in 1..(Len(d) - 1) /\ p = SubSeq(d, 1, Len(p)) /\ Len(g) \in Nat
  BY ParentPrefix, LenProperties
<1>2. Len(g) <= Len(p) /\ SubSeq(g, 1, Len(g)) = SubSeq(p, 1, Len(g))
  BY DEF IsPrefix
<1>3. SubSeq(SubSeq(d, 1, Len(p)), 1, Len(g)) = SubSeq(d, 1, Len(g))
  <2>1. Len(p) \in 1..Len(d) /\ Len(g) \in 1..Len(p)
    BY <1>1, <1>2
  <2> QED
    BY <2>1, ShorterPrefix
<1> QED
  BY <1>1, <1>2, <1>3 DEF IsPrefix

LEMMA PrefixOfItself ==
  ASSUME NEW d \in Datasets
  PROVE  IsPrefix(d, d)
  BY DatasetType DEF IsPrefix

LEMMA CallType ==
  ASSUME NEW c \in Calls
  PROVE  c.op \in Op /\ c.on \in Datasets /\ c.snap \in Snapshots /\ c.parents \in BOOLEAN
  BY DEF Calls

-----------------------------------------------------------------------------
(* The operations on the snapshots of a dataset.                            *)

Distinct(s) == \A i, j \in DOMAIN s : s[i] = s[j] => i = j

LEMMA AddedSnap ==
  ASSUME NEW s \in Seq(Snapshots), Distinct(s), NEW e \in Snapshots,
         ~\E i \in DOMAIN s : s[i] = e
  PROVE  LET t == Append(s, e) IN
         t \in Seq(Snapshots) /\ Distinct(t) /\ \E i \in DOMAIN t : t[i] = e
<1> DEFINE t == Append(s, e)
<1>1. /\ t \in Seq(Snapshots) /\ Len(t) = Len(s) + 1 /\ Len(s) \in Nat
      /\ \A i \in 1..Len(s) : t[i] = s[i]
      /\ t[Len(s) + 1] = e
      /\ DOMAIN s = 1..Len(s) /\ DOMAIN t = 1..Len(t)
  BY AppendProperties, LenProperties
<1> HIDE DEF t
<1>2. Distinct(t)
  <2>1. SUFFICES ASSUME NEW i \in 1..(Len(s) + 1), NEW j \in 1..(Len(s) + 1), t[i] = t[j]
                 PROVE  i = j
    BY <1>1 DEF Distinct
  <2>2. \A k \in 1..(Len(s) + 1) : k \in 1..Len(s) \/ k = Len(s) + 1
    BY <1>1
  <2> QED
    BY <1>1, <2>1, <2>2 DEF Distinct
<1>3. Len(s) + 1 \in DOMAIN t
  BY <1>1
<1> QED
  BY <1>1, <1>2, <1>3 DEF t

LEMMA CutSnaps ==
  ASSUME NEW s \in Seq(Snapshots), Distinct(s), NEW n \in DOMAIN s
  PROVE  LET t == SubSeq(s, 1, n) IN
         t \in Seq(Snapshots) /\ Distinct(t) /\ \E i \in DOMAIN t : t[i] = s[n]
<1> DEFINE t == SubSeq(s, 1, n)
<1>1. DOMAIN s = 1..Len(s) /\ Len(s) \in Nat /\ \A i \in 1..Len(s) : s[i] \in Snapshots
  BY LenProperties, ElementOfSeq
<1>2. /\ t \in Seq(Snapshots) /\ Len(t) = n
      /\ \A i \in 1..n : t[i] = s[i]
  <2>1. n \in Int /\ 1 <= n /\ \A i \in 1..n : s[i] \in Snapshots
    BY <1>1
  <2> QED
    BY <2>1, SubSeqProperties
<1>3. DOMAIN t = 1..n /\ n \in 1..n /\ 1..n \subseteq DOMAIN s
  BY <1>1, <1>2, LenProperties
<1> HIDE DEF t
<1>4. Distinct(t)
  BY <1>2, <1>3 DEF Distinct
<1> QED
  BY <1>2, <1>3, <1>4 DEF t

LEMMA RemovedSnap ==
  ASSUME NEW s \in Seq(Snapshots), Distinct(s), NEW n \in DOMAIN s
  PROVE  LET t == RemoveAt(s, n) IN
         t \in Seq(Snapshots) /\ Distinct(t) /\ ~\E i \in DOMAIN t : t[i] = s[n]
<1> DEFINE a == SubSeq(s, 1, n - 1)
           b == SubSeq(s, n + 1, Len(s))
           t == a \o b
<1>1. DOMAIN s = 1..Len(s) /\ Len(s) \in Nat /\ \A i \in 1..Len(s) : s[i] \in Snapshots
  BY LenProperties, ElementOfSeq
<1>2. a \in Seq(Snapshots) /\ Len(a) = n - 1 /\ \A i \in 1..(n - 1) : a[i] = s[i]
  <2>1. n - 1 \in Int /\ \A i \in 1..(n - 1) : s[i] \in Snapshots
    BY <1>1
  <2>2. Len(a) = IF 1 <= n - 1 THEN (n - 1) - 1 + 1 ELSE 0
    BY <2>1, SubSeqProperties
  <2>3. a \in Seq(Snapshots) /\ \A i \in 1..((n - 1) - 1 + 1) : a[i] = s[1 + i - 1]
    BY <2>1, SubSeqProperties
  <2> HIDE DEF a
  <2> QED
    BY <1>1, <2>2, <2>3
<1>3. b \in Seq(Snapshots) /\ Len(b) = Len(s) - n /\ \A i \in 1..(Len(s) - n) : b[i] = s[n + i]
  <2>1. n + 1 \in Int /\ Len(s) \in Int /\ \A i \in (n + 1)..Len(s) : s[i] \in Snapshots
    BY <1>1
  <2>2. Len(b) = IF n + 1 <= Len(s) THEN Len(s) - (n + 1) + 1 ELSE 0
    BY <2>1, SubSeqProperties
  <2>3. b \in Seq(Snapshots) /\ \A i \in 1..(Len(s) - (n + 1) + 1) : b[i] = s[(n + 1) + i - 1]
    BY <2>1, SubSeqProperties
  <2> HIDE DEF b
  <2>4. Len(b) = Len(s) - n
    BY <1>1, <2>2
  <2>5. \A i \in 1..(Len(s) - n) : i \in 1..(Len(s) - (n + 1) + 1) /\ (n + 1) + i - 1 = n + i
    BY <1>1
  <2> QED
    BY <2>3, <2>4, <2>5
<1> HIDE DEF a, b
<1>4. /\ t \in Seq(Snapshots) /\ Len(t) = Len(s) - 1
      /\ \A i \in 1..(Len(s) - 1) : t[i] = s[IF i < n THEN i ELSE i + 1]
  <2>1. /\ t \in Seq(Snapshots) /\ Len(t) = Len(a) + Len(b)
        /\ \A i \in 1..(Len(a) + Len(b)) : t[i] = IF i <= Len(a) THEN a[i] ELSE b[i - Len(a)]
    BY <1>2, <1>3, ConcatProperties
  <2> HIDE DEF t
  <2>2. ASSUME NEW i \in 1..(Len(s) - 1)
        PROVE  t[i] = s[IF i < n THEN i ELSE i + 1]
    <3>1. CASE i < n
      BY <1>1, <1>2, <1>3, <2>1, <3>1
    <3>2. CASE ~(i < n)
      <4>1. t[i] = b[i - (n - 1)] /\ i - (n - 1) \in 1..(Len(s) - n)
        BY <1>1, <1>2, <1>3, <2>1, <3>2
      <4>2. b[i - (n - 1)] = s[n + (i - (n - 1))] /\ n + (i - (n - 1)) = i + 1
        BY <1>1, <1>3, <4>1
      <4> QED
        BY <3>2, <4>1, <4>2
    <3> QED
      BY <3>1, <3>2
  <2> QED
    BY <1>1, <1>2, <1>3, <2>1, <2>2
<1>5. DOMAIN t = 1..(Len(s) - 1)
  BY <1>4, LenProperties
<1> HIDE DEF t
<1>6. \A i \in 1..(Len(s) - 1) : LET k == IF i < n THEN i ELSE i + 1 IN k \in DOMAIN s /\ k # n
  BY <1>1
<1>7. Distinct(t)
  <2>1. SUFFICES ASSUME NEW i \in DOMAIN t, NEW j \in DOMAIN t, t[i] = t[j]
                 PROVE  i = j
    BY DEF Distinct
  <2>2. (IF i < n THEN i ELSE i + 1) = (IF j < n THEN j ELSE j + 1)
    BY <1>4, <1>5, <1>6, <2>1 DEF Distinct
  <2> QED
    BY <1>1, <1>5, <2>2
<1>8. ~\E i \in DOMAIN t : t[i] = s[n]
  BY <1>4, <1>5, <1>6 DEF Distinct
<1> QED
  BY <1>4, <1>7, <1>8 DEF t, a, b, RemoveAt

-----------------------------------------------------------------------------
(* Types.                                                                   *)

LEMMA SnapAt ==
  ASSUME TypeOK, NEW c \in Calls, HasSnap(c)
  PROVE  SnapIndex(c) \in DOMAIN snaps[c.on] /\ snaps[c.on][SnapIndex(c)] = c.snap
  BY DEF HasSnap, SnapIndex

LEMMA SnapsType ==
  ASSUME TypeOK, NEW d \in Datasets
  PROVE  snaps[d] \in Seq(Snapshots) /\ Distinct(snaps[d])
  BY DEF TypeOK, Distinct

(* What becomes of the datasets, and the rest of what zfs keeps.            *)
Kept ==
    /\ imported \subseteq Pools
    /\ datasets \subseteq Datasets /\ props \subseteq datasets
    /\ \A d \in datasets : Parents(d) \subseteq datasets
    /\ snaps \in [Datasets -> Seq(Snapshots)]
    /\ \A d \in Datasets \ datasets : snaps[d] = <<>>
    /\ \A d \in Datasets : \A i, j \in DOMAIN snaps[d] : snaps[d][i] = snaps[d][j] => i = j

LEMMA DestroyedKept ==
  ASSUME TypeOK, NEW d \in Datasets, NEW ps, Destroyed(Under(d), ps)
  PROVE  Kept'
<1>1. /\ datasets' = datasets \ Under(d) /\ props' = props \ Under(d)
      /\ imported' = imported \ ps
      /\ snaps' = [e \in Datasets |-> IF e \in Under(d) THEN <<>> ELSE snaps[e]]
  BY DEF Destroyed, Keep
<1>2. /\ imported' \subseteq Pools /\ datasets' \subseteq Datasets /\ props' \subseteq datasets'
  BY <1>1 DEF TypeOK
<1>3. ASSUME NEW e \in datasets', NEW p \in Parents(e)
      PROVE  p \in datasets'
  <2>1. e \in datasets /\ ~IsPrefix(d, e) /\ p \in datasets
    BY <1>1, <1>3 DEF Under, TypeOK
  <2>2. d \in Seq(STRING) /\ Len(d) # 0 /\ e \in Seq(STRING)
    BY <2>1, DatasetType DEF TypeOK
  <2>3. ~IsPrefix(d, p)
    BY <1>3, <2>1, <2>2, PrefixOfParent
  <2> QED
    BY <1>1, <2>1, <2>3 DEF Under
<1>4. snaps' \in [Datasets -> Seq(Snapshots)]
  <2>1. <<>> \in Seq(Snapshots)
    BY EmptySeq
  <2> QED
    BY <1>1, <2>1 DEF TypeOK
<1>5. \A e \in Datasets \ datasets' : snaps'[e] = <<>>
  BY <1>1 DEF TypeOK
<1>6. \A e \in Datasets : \A i, j \in DOMAIN snaps'[e] : snaps'[e][i] = snaps'[e][j] => i = j
  BY <1>1 DEF TypeOK
<1> QED
  BY <1>2, <1>3, <1>4, <1>5, <1>6 DEF Kept

LEMMA SnapsBecomeKept ==
  ASSUME TypeOK, NEW c \in Calls, c.on \in datasets, NEW s \in Seq(Snapshots), Distinct(s),
         SnapsBecome(c, s)
  PROVE  Kept'
  BY CallType DEF SnapsBecome, TypeOK, Kept, Distinct

LEMMA EffectKept ==
  ASSUME TypeOK, NEW c \in Calls, Complaint(c) = "", Effect(c)
  PROVE  Kept'
<1>0. c.op \in Op /\ c.on \in Datasets /\ c.snap \in Snapshots
  BY CallType
<1>1. CASE c.op = "dataset_create"
  <2>1. /\ datasets' = datasets \cup {c.on} \cup Parents(c.on)
        /\ props' = (IF c.on \in datasets THEN props ELSE props \cup {c.on})
        /\ UNCHANGED <<imported, snaps>>
    BY <1>1 DEF Effect, Created
  <2>2. Parents(c.on) \subseteq Datasets /\ c.on \in Seq(STRING)
    BY <1>0, DatasetType
  <2>3. \A d \in datasets' : Parents(d) \subseteq datasets'
    BY <2>1, <2>2, GrandParents DEF TypeOK
  <2> QED
    BY <1>0, <2>1, <2>2, <2>3 DEF TypeOK, Kept
<1>2. CASE c.op = "dataset_remove"
  BY <1>0, <1>2, DestroyedKept DEF Effect
<1>3. CASE c.op = "pool_destroy"
  BY <1>0, <1>3, DestroyedKept DEF Effect
<1>4. CASE c.op = "pool_export"
  BY <1>4 DEF Effect, TypeOK, Kept
<1>5. CASE c.op = "zfs_set"
  <2>1. Visible(c.on)
    BY <1>5 DEF Complaint, PoolOps
  <2>2. props' = props \cup {c.on} /\ UNCHANGED <<imported, datasets, snaps>>
    BY <1>5 DEF Effect
  <2>3. props' \subseteq datasets'
    BY <2>1, <2>2 DEF TypeOK, Visible
  <2> QED
    BY <2>2, <2>3 DEF TypeOK, Kept
<1>6. CASE c.op = "snapshot_create"
  <2>1. Visible(c.on) /\ ~HasSnap(c)
    BY <1>6 DEF Complaint, PoolOps
  <2>2. snaps[c.on] \in Seq(Snapshots) /\ Distinct(snaps[c.on])
    BY <1>0, SnapsType
  <2>3. ~\E i \in DOMAIN snaps[c.on] : snaps[c.on][i] = c.snap
    BY <2>1 DEF HasSnap
  <2>4. Append(snaps[c.on], c.snap) \in Seq(Snapshots) /\ Distinct(Append(snaps[c.on], c.snap))
    BY <1>0, <2>2, <2>3, AddedSnap
  <2> QED
    BY <1>6, <2>1, <2>4, SnapsBecomeKept DEF Effect, Visible
<1>7. CASE c.op = "snapshot_remove"
  <2>1. Visible(c.on) /\ HasSnap(c)
    BY <1>7 DEF Complaint, PoolOps
  <2>2. snaps[c.on] \in Seq(Snapshots) /\ Distinct(snaps[c.on])
    BY <1>0, SnapsType
  <2>3. RemoveAt(snaps[c.on], SnapIndex(c)) \in Seq(Snapshots)
          /\ Distinct(RemoveAt(snaps[c.on], SnapIndex(c)))
    BY <2>1, <2>2, SnapAt, RemovedSnap
  <2> QED
    BY <1>7, <2>1, <2>3, SnapsBecomeKept DEF Effect, Visible
<1>8. CASE c.op = "snapshot_rollback"
  <2>1. Visible(c.on) /\ HasSnap(c)
    BY <1>8 DEF Complaint, PoolOps
  <2>2. snaps[c.on] \in Seq(Snapshots) /\ Distinct(snaps[c.on])
    BY <1>0, SnapsType
  <2>3. SubSeq(snaps[c.on], 1, SnapIndex(c)) \in Seq(Snapshots)
          /\ Distinct(SubSeq(snaps[c.on], 1, SnapIndex(c)))
    BY <2>1, <2>2, SnapAt, CutSnaps
  <2> QED
    BY <1>8, <2>1, <2>3, SnapsBecomeKept DEF Effect, Visible
<1>9. CASE c.op \in {"zpool_set", "zfs_get", "dataset_exists", "snapshot_exists"}
  BY <1>9 DEF Effect, zfs, TypeOK, Kept
<1> QED
  BY <1>0, <1>1, <1>2, <1>3, <1>4, <1>5, <1>6, <1>7, <1>8, <1>9 DEF Op

LEMMA ZfsInit ==
  ASSUME Init
  PROVE  TypeOK
<1>1. datasets \subseteq Datasets /\ \A p \in Pools : Parents(<<p>>) = {}
  BY DatasetType DEF Init, Pools, Parents
<1>2. snaps \in [Datasets -> Seq(Snapshots)]
  <2>1. <<>> \in Seq(Snapshots)
    BY EmptySeq
  <2> QED
    BY <2>1 DEF Init
<1>3. faults \in 0..MaxFaults
  BY ZfsAssumption DEF Init
<1>4. \A d \in datasets : Parents(d) \subseteq datasets
  BY <1>1 DEF Init
<1>5. \A d \in Datasets : \A i, j \in DOMAIN snaps[d] : snaps[d][i] = snaps[d][j] => i = j
  BY DEF Init
<1> QED
  BY <1>1, <1>2, <1>3, <1>4, <1>5 DEF Init, TypeOK

LEMMA ZfsNext ==
  ASSUME TypeOK, [Next]_vars
  PROVE  TypeOK'
<1>1. ASSUME NEW c \in Calls, Call(c) PROVE TypeOK'
  BY <1>1 DEF Call, zfs, TypeOK
<1>2. CASE Command
  <2>1. /\ UNCHANGED <<users, call, faults>> /\ call \in Calls
        /\ status' \in {"idle", "busy"} /\ result' \in {"none", "true", "false", "unit", "err"}
    BY <1>2 DEF Command, TypeOK, Success, Answer
  <2>2. Kept'
    <3>1. CASE Complaint(call) = ""
      BY <1>2, <2>1, <3>1, EffectKept DEF Command
    <3>2. CASE Complaint(call) # ""
      BY <1>2, <3>2 DEF Command, zfs, TypeOK, Kept
    <3> QED
      BY <3>1, <3>2
  <2> QED
    BY <2>1, <2>2 DEF TypeOK, Kept
<1>3. CASE Fault
  <2>1. faults' \in 0..MaxFaults
    <3>1. faults \in 0..MaxFaults /\ faults < MaxFaults /\ faults' = faults + 1
      BY <1>3 DEF Fault, TypeOK
    <3>2. MaxFaults \in Nat
      BY ZfsAssumption
    <3> QED
      BY <3>1, <3>2
  <2> QED
    BY <1>3, <2>1 DEF Fault, zfs, TypeOK, Answer
<1>4. ASSUME NEW p \in Pools, Use(p) PROVE TypeOK'
  BY <1>4 DEF Use, zfs, TypeOK
<1>5. ASSUME NEW p \in Pools, Import(p) PROVE TypeOK'
  BY <1>5 DEF Import, TypeOK
<1>6. ASSUME NEW d \in Datasets, RemoveOther(d) PROVE TypeOK'
  <2>1. Kept'
    BY <1>6, DestroyedKept DEF RemoveOther
  <2> QED
    BY <1>6, <2>1 DEF RemoveOther, TypeOK, Kept
<1>7. CASE UNCHANGED vars
  BY <1>7 DEF vars, TypeOK
<1> QED
  BY <1>1, <1>2, <1>3, <1>4, <1>5, <1>6, <1>7 DEF Next, Others

(* The variables keep their types: a dataset's parents are there whatever is
   created and destroyed, what is gone has no snapshots, and no snapshot is
   there twice (zfs.rs:5-302).                                              *)
THEOREM ZfsTypeCorrect == Spec => []TypeOK
  BY ZfsInit, ZfsNext, PTL DEF Spec

-----------------------------------------------------------------------------
(* Answers.                                                                 *)

LEMMA ThingForm ==
  ASSUME NEW c
  PROVE  /\ c.op \in PoolOps => (Thing(c) <=> c.on[1] \in imported)
         /\ c.op \in PoolOps => (Thing(c)' <=> c.on[1] \in imported')
         /\ c.op \in SnapshotOps => (Thing(c) <=> HasSnap(c))
         /\ c.op \in SnapshotOps => (Thing(c)' <=> HasSnap(c)')
         /\ c.op \notin PoolOps \cup SnapshotOps => (Thing(c) <=> Visible(c.on))
         /\ c.op \notin PoolOps \cup SnapshotOps => (Thing(c)' <=> Visible(c.on)')
<1>1. PoolOps \cap SnapshotOps = {}
  BY DEF PoolOps, SnapshotOps
<1>2. CASE c.op \in PoolOps
  <2>1. Thing(c) <=> c.on[1] \in imported
    BY <1>1, <1>2 DEF Thing
  <2>2. Thing(c)' <=> c.on[1] \in imported'
    BY <1>1, <1>2 DEF Thing
  <2> QED
    BY <1>1, <1>2, <2>1, <2>2
<1>3. CASE c.op \in SnapshotOps
  BY <1>1, <1>3 DEF Thing
<1>4. CASE c.op \notin PoolOps \cup SnapshotOps
  BY <1>4 DEF Thing
<1> QED
  BY <1>2, <1>3, <1>4

(* What a command that works leaves of the thing it was for.                *)
LEMMA EffectThing ==
  ASSUME TypeOK, NEW c \in Calls, Complaint(c) = "", Effect(c)
  PROVE  /\ Success(c) = "true" =>
              (Thing(c)' <=> c.op \in {"dataset_exists", "snapshot_exists",
                                       "snapshot_create", "snapshot_rollback"})
         /\ Success(c) = "unit" => Thing(c)'
<1>0. c.op \in Op /\ c.on \in Datasets /\ c.snap \in Snapshots
  BY CallType
<1>1. CASE c.op = "dataset_create"
  <2>1. datasets' = datasets \cup {c.on} \cup Parents(c.on) /\ imported' = imported
    BY <1>1 DEF Effect, Created
  <2>2. c.on[1] \in imported
    BY <1>1 DEF Complaint, PoolOps
  <2> QED
    BY <1>1, <2>1, <2>2, ThingForm DEF Success, PoolOps, SnapshotOps, Visible
<1>2. CASE c.op = "dataset_remove"
  <2>1. c.on \notin datasets'
    BY <1>0, <1>2, PrefixOfItself DEF Effect, Destroyed, Under
  <2> QED
    <3>1. ~Visible(c.on)'
      BY <2>1 DEF Visible
    <3>2. ~Thing(c)'
      BY <1>2, <3>1, ThingForm DEF PoolOps, SnapshotOps
    <3> QED
      BY <1>2, <3>2 DEF Success
<1>3. CASE c.op \in {"pool_destroy", "pool_export"}
  <2>1. imported' = imported \ {c.on[1]}
    BY <1>3 DEF Effect, Destroyed
  <2> QED
    BY <1>3, <2>1, ThingForm DEF Success, PoolOps
<1>4. CASE c.op = "zpool_set"
  <2>1. c.on[1] \in imported /\ UNCHANGED zfs
    BY <1>4 DEF Complaint, PoolOps, Effect
  <2> QED
    BY <1>4, <2>1, ThingForm DEF zfs, Success, PoolOps
<1>5. CASE c.op \in {"zfs_set", "zfs_get", "dataset_exists"}
  <2>1. Visible(c.on) /\ UNCHANGED <<imported, datasets>>
    BY <1>5 DEF Complaint, PoolOps, Effect, zfs
  <2> QED
    BY <1>5, <2>1, ThingForm DEF Success, PoolOps, SnapshotOps, Visible
<1>6. CASE c.op = "snapshot_exists"
  <2>1. HasSnap(c) /\ UNCHANGED zfs
    BY <1>6 DEF Complaint, PoolOps, Effect
  <2> QED
    BY <1>6, <2>1 DEF zfs, Success, Thing, PoolOps, SnapshotOps, HasSnap, Visible
<1>7. CASE c.op \in {"snapshot_create", "snapshot_remove", "snapshot_rollback"}
  <2>1. Visible(c.on)
    BY <1>7 DEF Complaint, PoolOps
  <2>2. snaps[c.on] \in Seq(Snapshots) /\ Distinct(snaps[c.on]) /\ snaps \in [Datasets -> Seq(Snapshots)]
    BY <1>0, SnapsType DEF TypeOK
  <2>3. ASSUME NEW s, SnapsBecome(c, s)
        PROVE  HasSnap(c)' <=> \E i \in DOMAIN s : s[i] = c.snap
    <3>1. snaps'[c.on] = s /\ Visible(c.on)'
      BY <1>0, <2>1, <2>2, <2>3 DEF SnapsBecome, Visible
    <3> QED
      BY <3>1 DEF HasSnap
  <2>4. Thing(c)' <=> HasSnap(c)'
    BY <1>7 DEF Thing, PoolOps, SnapshotOps
  <2>5. CASE c.op = "snapshot_create"
    <3>1. ~\E i \in DOMAIN snaps[c.on] : snaps[c.on][i] = c.snap
      BY <2>1, <2>5 DEF Complaint, PoolOps, HasSnap
    <3>2. \E i \in DOMAIN Append(snaps[c.on], c.snap) : Append(snaps[c.on], c.snap)[i] = c.snap
      BY <1>0, <2>2, <3>1, AddedSnap
    <3>3. SnapsBecome(c, Append(snaps[c.on], c.snap))
      BY <2>5 DEF Effect
    <3> QED
      BY <2>3, <2>4, <2>5, <3>2, <3>3
  <2>6. CASE c.op = "snapshot_remove"
    <3> DEFINE t == RemoveAt(snaps[c.on], SnapIndex(c))
    <3>1. HasSnap(c)
      BY <2>6 DEF Complaint, PoolOps
    <3>2. ~\E i \in DOMAIN t : t[i] = c.snap
      BY <2>2, <3>1, SnapAt, RemovedSnap
    <3>3. SnapsBecome(c, t)
      BY <2>6 DEF Effect
    <3>4. Success(c) = "true"
      BY <2>6 DEF Success
    <3> HIDE DEF t
    <3>5. ~HasSnap(c)'
      BY <2>3, <3>2, <3>3
    <3> QED
      BY <2>4, <2>6, <3>4, <3>5
  <2>7. CASE c.op = "snapshot_rollback"
    <3> DEFINE t == SubSeq(snaps[c.on], 1, SnapIndex(c))
    <3>1. HasSnap(c)
      BY <2>7 DEF Complaint, PoolOps
    <3>2. \E i \in DOMAIN t : t[i] = c.snap
      BY <2>2, <3>1, SnapAt, CutSnaps
    <3>3. SnapsBecome(c, t)
      BY <2>7 DEF Effect
    <3> QED
      BY <2>3, <2>4, <2>7, <3>2, <3>3
  <2> QED
    BY <1>7, <2>5, <2>6, <2>7
<1> QED
  BY <1>0, <1>1, <1>2, <1>3, <1>4, <1>5, <1>6, <1>7 DEF Op

(* A failure that is read as absence is one.                                *)
LEMMA ComplaintThing ==
  ASSUME NEW c \in Calls, Complaint(c) # "", Answer(c, Complaint(c)) = "false"
  PROVE  ~Thing(c)
<1>1. CASE c.op = "pool_destroy"
  <2>1. c.on[1] \notin imported
    BY <1>1 DEF Answer, Complaint, PoolOps
  <2> QED
    BY <1>1, <2>1, ThingForm DEF PoolOps
<1>2. CASE c.op \in {"dataset_exists", "dataset_remove", "snapshot_remove", "snapshot_exists"}
  <2>1. Complaint(c) = "dataset does not exist"
    BY <1>2 DEF Answer
  <2>2. ~Visible(c.on) \/ (c.op = "snapshot_exists" /\ ~HasSnap(c))
    BY <1>2, <2>1 DEF Complaint, PoolOps
  <2> QED
    <3>1. c.op \notin PoolOps
      BY <1>2 DEF PoolOps
    <3>2. ~Visible(c.on) => ~HasSnap(c)
      BY DEF HasSnap
    <3>3. CASE c.op \in SnapshotOps
      BY <2>2, <3>2, <3>3, ThingForm
    <3>4. CASE c.op \notin SnapshotOps
      <4>1. ~Visible(c.on)
        BY <2>2, <3>4 DEF SnapshotOps
      <4> QED
        BY <3>1, <3>4, <4>1, ThingForm
    <3> QED
      BY <3>3, <3>4
<1> QED
  BY <1>1, <1>2 DEF Answer

LEMMA AnswerStep ==
  ASSUME TypeOK, [Next]_vars, status = "busy", status' = "idle"
  PROVE  /\ result' = "false" => ~Thing(call)'
         /\ result' = "true" =>
               (Thing(call)' <=> call.op \in {"dataset_exists", "snapshot_exists",
                                              "snapshot_create", "snapshot_rollback"})
         /\ result' = "unit" => Thing(call)'
         /\ result' \in {"false", "err"} => UNCHANGED zfs
<1>1. Command \/ Fault
  BY DEF Next, Others, Call, Use, Import, RemoveOther, vars
<1>2. call' = call /\ call \in Calls
  BY <1>1 DEF Command, Fault, TypeOK
<1>3. CASE Fault
  <2>1. Answer(call, "I/O error") = "err"
    BY DEF Answer
  <2> QED
    BY <1>3, <2>1 DEF Fault
<1>4. CASE Command /\ Complaint(call) = ""
  <2>1. Effect(call) /\ result' = Success(call)
    BY <1>4 DEF Command
  <2>2. Success(call) \in {"true", "unit"}
    BY DEF Success
  <2>3. \A c : call' = c => (Thing(call)' <=> Thing(c)')
    BY DEF Thing, HasSnap, Visible
  <2>4. /\ Success(call) = "true" =>
             (Thing(call)' <=> call.op \in {"dataset_exists", "snapshot_exists",
                                            "snapshot_create", "snapshot_rollback"})
        /\ Success(call) = "unit" => Thing(call)'
    BY <1>2, <1>4, <2>1, <2>3, EffectThing
  <2> QED
    BY <2>1, <2>2, <2>4
<1>5. CASE Command /\ Complaint(call) # ""
  <2>1. UNCHANGED zfs /\ result' = Answer(call, Complaint(call))
    BY <1>5 DEF Command
  <2>2. Answer(call, Complaint(call)) \in {"false", "err"}
    BY DEF Answer
  <2>3. Thing(call)' <=> Thing(call)
    BY <1>2, <2>1 DEF zfs, Thing, HasSnap, Visible
  <2> QED
    BY <1>2, <1>5, <2>1, <2>2, <2>3, ComplaintThing
<1> QED
  BY <1>1, <1>3, <1>4, <1>5

(* Every answer is true of the moment it was got, for every set of datasets
   and whatever failed or was done by others meanwhile: "false" is never
   said of what is there, and nothing is changed by a call that fails
   (zfs.rs:65-218).                                                         *)
THEOREM AnswersTrueHolds == Spec => AnswersTrue
<1>1. TypeOK /\ [Next]_vars =>
        [status = "busy" /\ status' = "idle" =>
          /\ result' = "false" => ~Thing(call)'
          /\ result' = "true" =>
                (Thing(call)' <=> call.op \in {"dataset_exists", "snapshot_exists",
                                               "snapshot_create", "snapshot_rollback"})
          /\ result' = "unit" => Thing(call)'
          /\ result' \in {"false", "err"} => UNCHANGED zfs]_vars
  BY AnswerStep
<1> QED
  BY <1>1, ZfsTypeCorrect, PTL DEF Spec, AnswersTrue
=============================================================================
