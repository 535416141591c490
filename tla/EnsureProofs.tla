---------------------------- MODULE EnsureProofs ----------------------------
(* Proofs about module Ensure: for every path, every set of calls and any
   number of failures and of steps of other processes.                      *)
EXTENDS Ensure, TLAPS

Kinds == {"perms", "directory", "removed", "filestr", "file", "symlink"}
Labels == {"idle", "check", "compare", "unlink", "create", "recheck", "write",
           "perms", "chmod", "chown", "done"}

(* TypeOK in parts: the path, the place in the call, the observers, and what
   the call has seen.                                                       *)
Paths == node \in Node \cup {Missing} /\ fi \in Node \cup {Missing}
                                      /\ before \in Node \cup {Missing}
Place ==
    /\ calls \in CallSets /\ op \in calls
    /\ pc \in Labels
    /\ ret \in {"none", "ok", "err"}
    /\ faults \in 0..MaxFaults /\ interference \in 0..MaxInterference
Flags ==
    /\ did_work \in BOOLEAN /\ mine \in BOOLEAN /\ touched \in BOOLEAN
    /\ through \in BOOLEAN /\ again \in BOOLEAN

Looked ==
    /\ pc \in {"chmod", "chown"} => fi # Missing
    /\ pc = "chmod" => fi.type # "link"

LEMMA Parts == TypeOK <=> Paths /\ Place /\ Flags /\ Looked
  BY DEF TypeOK, Paths, Place, Flags, Looked, Labels

(* What the call made or opened is there, and it makes nothing before it
   has looked; perms alone looks at nothing but what it changes.            *)
Held ==
    /\ pc = "check" => op.kind # "perms"
    /\ mine => node # Missing
    /\ pc \in {"check", "compare", "unlink", "create"} => ~mine

LEMMA NodeFields ==
  ASSUME NEW n \in Node
  PROVE  /\ n.type \in {"dir", "file", "link", "other"} /\ n.data \in Seq(Nat)
         /\ n.mode \in Mode /\ n.owner \in Owner
         /\ n # Missing
  BY EnsureAssumption DEF EnsureAssumption, Node

LEMMA CallFields ==
  ASSUME Place
  PROVE  /\ op.kind \in Kinds /\ op.create \in {"IfMissing", "Always"}
         /\ op.data \in Seq(Nat) /\ op.mode \in Mode /\ op.owner \in Owner
<1>1. op \in CallType
  BY EnsureAssumption DEF EnsureAssumption, Place
<1> QED
  BY <1>1 DEF CallType, Kinds

LEMMA MadeType ==
  ASSUME NEW d \in Defaults
  PROVE  /\ Made("dir", <<>>, d) \in Node
         /\ Made("file", <<>>, d) \in Node
         /\ \A s \in Seq(Nat) : Made("link", s, d) \in Node
  BY EnsureAssumption DEF EnsureAssumption, Made, Node

LEMMA MadeFields ==
  ASSUME NEW t, NEW s, NEW d
  PROVE  Made(t, s, d).type = t /\ Made(t, s, d).data = s
  BY DEF Made

LEMMA ChangedType ==
  ASSUME NEW n \in Node
  PROVE  /\ \A s \in Seq(Nat) : [n EXCEPT !.data = s] \in Node
         /\ \A m \in Mode : [n EXCEPT !.mode = m] \in Node
         /\ \A o \in Owner : [n EXCEPT !.owner = o] \in Node
         /\ \A m \in Mode : [n EXCEPT !.data = <<>>, !.mode = m] \in Node
<1>1. \A s \in Seq(Nat) : [n EXCEPT !.data = s] \in Node
  BY DEF Node
<1>2. \A m \in Mode : [n EXCEPT !.mode = m] \in Node
  BY DEF Node
<1>3. \A o \in Owner : [n EXCEPT !.owner = o] \in Node
  BY DEF Node
<1>4. \A m \in Mode : [n EXCEPT !.data = <<>>, !.mode = m] \in Node
  <2> SUFFICES ASSUME NEW m \in Mode PROVE [n EXCEPT !.data = <<>>, !.mode = m] \in Node
    OBVIOUS
  <2> DEFINE c == [n EXCEPT !.data = <<>>]
  <2>1. c \in Node
    <3>1. <<>> \in Seq(Nat)
      OBVIOUS
    <3> QED
      BY <1>1, <3>1
  <2>2. [c EXCEPT !.mode = m] \in Node
    BY <2>1 DEF Node
  <2> QED
    BY <2>2
<1> QED
  BY <1>1, <1>2, <1>3, <1>4

(* What is there stays there when a field changes.                          *)
LEMMA ChangedThere ==
  ASSUME Paths, node # Missing
  PROVE  /\ \A s \in Seq(Nat) : [node EXCEPT !.data = s] # Missing
         /\ \A m \in Mode : [node EXCEPT !.mode = m] # Missing
         /\ \A o \in Owner : [node EXCEPT !.owner = o] # Missing
         /\ \A m \in Mode : [node EXCEPT !.data = <<>>, !.mode = m] # Missing
  BY ChangedType, EnsureAssumption DEF EnsureAssumption, Paths

(* A change of one field leaves the others.                                 *)
LEMMA ChangedFields ==
  ASSUME NEW n \in Node, NEW v
  PROVE  /\ LET c == [n EXCEPT !.data = v] IN
              c.data = v /\ c.type = n.type /\ c.mode = n.mode /\ c.owner = n.owner
         /\ LET c == [n EXCEPT !.mode = v] IN
              c.mode = v /\ c.type = n.type /\ c.data = n.data /\ c.owner = n.owner
         /\ LET c == [n EXCEPT !.owner = v] IN
              c.owner = v /\ c.type = n.type /\ c.data = n.data /\ c.mode = n.mode
  BY DEF Node

-----------------------------------------------------------------------------
(* Types.                                                                   *)

LEMMA InitType == Init => TypeOK /\ Held
<1> SUFFICES ASSUME Init PROVE TypeOK /\ Held
  OBVIOUS
<1>1. Paths
  BY EnsureAssumption DEF EnsureAssumption, Init, Paths
<1>2. Place
  <2>1. 0 \in 0..MaxFaults /\ 0 \in 0..MaxInterference
    BY EnsureAssumption DEF EnsureAssumption
  <2> QED
    BY <2>1 DEF Init, Place, Labels
<1>3. Flags /\ Looked /\ Held
  BY DEF Init, Flags, Looked, Held
<1> QED
  BY <1>1, <1>2, <1>3, Parts

(* The path keeps its type at every step.                                   *)
LEMMA NextPaths ==
  ASSUME TypeOK, Held, [Next]_vars
  PROVE  Paths'
<1>0. Paths /\ Place
  BY Parts
<1>1. /\ op.data \in Seq(Nat) /\ op.mode \in Mode /\ op.owner \in Owner
  BY <1>0, CallFields
<1>2. ASSUME NEW o \in calls, Call(o) PROVE Paths'
  BY <1>0, <1>2 DEF Call, Paths
<1>3. CASE Check \/ Compare \/ Recheck \/ Return
  BY <1>0, <1>3 DEF Check, Compare, Recheck, Return, local, Paths
<1>4. CASE Unlink
  BY <1>0, <1>4 DEF Unlink, local, Paths
<1>5. CASE CreateDirectory
  <2>1. node' = node \/ \E d \in Defaults : node' = Made("dir", <<>>, d)
    BY <1>5 DEF CreateDirectory
  <2>2. UNCHANGED <<fi, before>>
    BY <1>5 DEF CreateDirectory, local
  <2> QED
    BY <1>0, <2>1, <2>2, MadeType DEF Paths
<1>6. CASE CreateNew
  <2>1. node' = node \/ \E d \in Defaults : node' = Made("file", <<>>, d)
    BY <1>6 DEF CreateNew
  <2>2. UNCHANGED <<fi, before>>
    BY <1>6 DEF CreateNew, local
  <2> QED
    BY <1>0, <2>1, <2>2, MadeType DEF Paths
<1>7. CASE OpenCopy
  <2>1. \/ node' = node
        \/ \E d \in Defaults : node' = Made("file", <<>>, d)
        \/ \E d \in Defaults : /\ node # Missing
                               /\ node' = [node EXCEPT !.data = <<>>, !.mode = d.mode]
    BY <1>7 DEF OpenCopy, Exists
  <2>2. \A d \in Defaults : d.mode \in Mode
    BY EnsureAssumption DEF EnsureAssumption
  <2>3. node' \in Node \cup {Missing}
    BY <1>0, <2>1, <2>2, MadeType, ChangedType DEF Paths
  <2> QED
    BY <1>0, <1>7, <2>3 DEF OpenCopy, local, Paths
<1>8. CASE CreateLink
  <2>1. node' = node \/ \E d \in Defaults : node' = Made("link", op.data, d)
    BY <1>8 DEF CreateLink
  <2> QED
    BY <1>0, <1>1, <1>8, <2>1, MadeType DEF CreateLink, local, Paths
<1>9. CASE Write
  <2>1. node' \in Node \cup {Missing}
    BY <1>0, <1>1, <1>9, ChangedType DEF Write, Held, Paths
  <2> QED
    BY <1>0, <1>9, <2>1 DEF Write, local, Paths
<1>10. CASE CheckPerms
  BY <1>0, <1>10 DEF CheckPerms, Exists, local, Paths
<1>11. CASE Chmod
  <2>1. node' \in Node \cup {Missing}
    BY <1>0, <1>1, <1>11, ChangedType DEF Chmod, Is, Exists, Paths
  <2> QED
    BY <1>0, <1>11, <2>1 DEF Chmod, local, Paths
<1>12. CASE Chown
  <2>1. node' \in Node \cup {Missing}
    BY <1>0, <1>1, <1>12, ChangedType DEF Chown, Exists, Paths
  <2> QED
    BY <1>0, <1>12, <2>1 DEF Chown, local, Paths
<1>13. CASE Fault
  <2>1. ASSUME mine, NEW n \in 0..Len(op.data),
               node' = [node EXCEPT !.data = SubSeq(op.data, 1, n)]
        PROVE  node' \in Node \cup {Missing}
    <3>1. SubSeq(op.data, 1, n) \in Seq(Nat)
      BY <1>1
    <3> QED
      BY <1>0, <2>1, <3>1, ChangedType DEF Held, Paths
  <2>2. node' \in Node \cup {Missing}
    BY <1>0, <1>13, <2>1 DEF Fault, Paths
  <2> QED
    BY <1>0, <1>13, <2>2 DEF Fault, Paths
<1>14. CASE Interfere
  BY <1>0, <1>14, EnsureAssumption DEF EnsureAssumption, Interfere, Paths
<1>15. CASE UNCHANGED vars
  BY <1>0, <1>15 DEF vars, Paths
<1> QED
  BY <1>2, <1>3, <1>4, <1>5, <1>6, <1>7, <1>8, <1>9, <1>10, <1>11, <1>12, <1>13,
     <1>14, <1>15 DEF Next, CallAgain, Proceed

LEMMA AfterCheckType ==
  ASSUME Place, op.kind # "perms"
  PROVE  AfterCheck \in {"fail", "create", "perms", "done", "unlink", "compare"}
<1>1. CASE op.kind = "directory"
  BY <1>1 DEF AfterCheck
<1>2. CASE op.kind = "removed"
  BY <1>2 DEF AfterCheck
<1>3. CASE op.kind \in {"filestr", "file"}
  BY <1>3 DEF AfterCheck
<1>4. CASE op.kind = "symlink"
  BY <1>4 DEF AfterCheck
<1> QED
  BY <1>1, <1>2, <1>3, <1>4, CallFields DEF Kinds

LEMMA NextPlace ==
  ASSUME Place, Held, [Next]_vars
  PROVE  Place'
<1>1. op.kind \in Kinds /\ op.create \in {"IfMissing", "Always"}
  BY CallFields
<1> USE DEF Place, Labels, Kinds, GoTo, Fail, local
<1>2. ASSUME NEW o \in calls, Call(o) PROVE Place'
  BY <1>2 DEF Call
<1>3. CASE Check
  <2>1. AfterCheck \in {"fail", "create", "perms", "done", "unlink", "compare"}
    BY <1>3, AfterCheckType DEF Check, Held
  <2> QED
    BY <1>3, <2>1 DEF Check
<1>4. CASE Compare \/ Recheck \/ Return
  BY <1>4 DEF Compare, Recheck, Return
<1>5. CASE Unlink
  BY <1>5 DEF Unlink
<1>6. CASE CreateDirectory \/ CreateNew \/ OpenCopy \/ CreateLink \/ Write
  BY <1>6 DEF CreateDirectory, CreateNew, OpenCopy, CreateLink, Write
<1>7. CASE CheckPerms \/ Chmod \/ Chown
  BY <1>7 DEF CheckPerms, Chmod, Chown, ToChown
<1>8. CASE Fault
  BY <1>8, EnsureAssumption DEF EnsureAssumption, Fault
<1>9. CASE Interfere
  BY <1>9, EnsureAssumption DEF EnsureAssumption, Interfere
<1>10. CASE UNCHANGED vars
  BY <1>10 DEF vars
<1> QED
  BY <1>2, <1>3, <1>4, <1>5, <1>6, <1>7, <1>8, <1>9, <1>10 DEF Next, CallAgain, Proceed

LEMMA NextFlags ==
  ASSUME Flags, [Next]_vars
  PROVE  Flags'
<1> USE DEF Flags, local
<1>1. ASSUME NEW o \in calls, Call(o) PROVE Flags'
  BY <1>1, Zenon DEF Call
<1>2. CASE Check \/ Compare \/ Unlink \/ CheckPerms \/ Return \/ Recheck \/ Write
  BY <1>2, Zenon DEF Check, Compare, Unlink, CheckPerms, Return, Recheck, Write
<1>3. CASE CreateDirectory \/ CreateNew \/ CreateLink \/ Chown
  BY <1>3, Zenon DEF CreateDirectory, CreateNew, CreateLink, Chown
<1>4. CASE OpenCopy
  BY <1>4, Zenon DEF OpenCopy
<1>5. CASE Chmod
  BY <1>5, Zenon DEF Chmod, Is, Exists
<1>6. CASE Fault \/ Interfere
  BY <1>6, Zenon DEF Fault, Interfere
<1>7. CASE UNCHANGED vars
  BY <1>7, Zenon DEF vars
<1> QED
  BY <1>1, <1>2, <1>3, <1>4, <1>5, <1>6, <1>7 DEF Next, CallAgain, Proceed

(* perms looks before it changes anything.                                  *)
LEMMA NextLooked ==
  ASSUME TypeOK, Held, [Next]_vars
  PROVE  Looked'
<1>0. Place /\ Looked
  BY Parts
<1> USE DEF Looked, GoTo, Fail, local
<1>1. ASSUME NEW o \in calls, Call(o) PROVE Looked'
  BY <1>1 DEF Call
<1>2. CASE Check
  BY <1>0, <1>2, AfterCheckType DEF Check, Held
<1>3. CASE Compare \/ Recheck \/ Return
  BY <1>3 DEF Compare, Recheck, Return
<1>4. CASE Unlink \/ CreateDirectory \/ CreateLink \/ CreateNew \/ OpenCopy \/ Write
  BY <1>4 DEF Unlink, CreateDirectory, CreateLink, CreateNew, OpenCopy, Write
<1>5. CASE CheckPerms
  BY <1>5 DEF CheckPerms, ToChown, Exists
<1>6. CASE Chmod \/ Chown
  BY <1>0, <1>6 DEF Chmod, Chown, ToChown
<1>7. CASE Fault \/ Interfere
  BY <1>0, <1>7 DEF Fault, Interfere
<1>8. CASE UNCHANGED vars
  BY <1>0, <1>8 DEF vars
<1> QED
  BY <1>1, <1>2, <1>3, <1>4, <1>5, <1>6, <1>7, <1>8 DEF Next, CallAgain, Proceed

LEMMA NextHeld ==
  ASSUME TypeOK, Held, [Next]_vars
  PROVE  Held'
<1>0. Place /\ Paths
  BY Parts
<1> USE DEF Held, GoTo, Fail, local
<1>1. ASSUME NEW o \in calls, Call(o) PROVE Held'
  BY <1>1 DEF Call
<1>2. CASE Check
  BY <1>0, <1>2, AfterCheckType DEF Check
<1>3. CASE Compare \/ Recheck \/ Return
  BY <1>3 DEF Compare, Recheck, Return
<1>4. CASE Unlink
  BY <1>4 DEF Unlink
<1>5. CASE CreateDirectory \/ CreateLink
  BY <1>5 DEF CreateDirectory, CreateLink
<1>6. CASE CreateNew
  BY <1>0, <1>6, MadeType, NodeFields DEF CreateNew
<1>7. CASE OpenCopy
  <2>1. ASSUME NEW d \in Defaults, node # Missing
        PROVE  [node EXCEPT !.data = <<>>, !.mode = d.mode] # Missing
    <3>1. d.mode \in Mode
      BY EnsureAssumption DEF EnsureAssumption
    <3> QED
      BY <1>0, <2>1, <3>1, ChangedThere
  <2> QED
    BY <1>0, <1>7, <2>1, MadeType, NodeFields DEF OpenCopy, Exists, Is
<1>8. CASE Write
  BY <1>0, <1>8, ChangedThere, CallFields DEF Write
<1>9. CASE CheckPerms \/ Chmod \/ Chown
  <2>1. node # Missing => node' # Missing
    BY <1>0, <1>9, ChangedThere, CallFields DEF CheckPerms, Chmod, Chown, Exists, Is
  <2>2. UNCHANGED mine /\ pc' \in {"idle", "chmod", "chown", "done"}
    BY <1>9 DEF CheckPerms, Chmod, Chown, ToChown
  <2> QED
    BY <2>1, <2>2
<1>10. CASE Fault
  <2>1. ASSUME NEW n \in 0..Len(op.data)
        PROVE  SubSeq(op.data, 1, n) \in Seq(Nat)
    BY <1>0, CallFields
  <2> QED
    BY <1>0, <1>10, <2>1, ChangedThere DEF Fault
<1>11. CASE Interfere
  BY <1>11 DEF Interfere
<1>12. CASE UNCHANGED vars
  BY <1>12 DEF vars
<1> QED
  BY <1>1, <1>2, <1>3, <1>4, <1>5, <1>6, <1>7, <1>8, <1>9, <1>10, <1>11, <1>12
     DEF Next, CallAgain, Proceed

-----------------------------------------------------------------------------
(* What a call knows.                                                       *)

(* The path is what the call asks for, but for its mode and owner.          *)
Right(o, n) ==
    /\ n # Missing /\ o.kind # "removed"
    /\ o.kind = "directory" => n.type = "dir"
    /\ o.kind = "symlink" => n.type = "link" /\ n.data = o.data
    /\ o.kind \in {"filestr", "file"} =>
          IF o.create = "Always" THEN n.type = "file" /\ n.data = o.data
                                 ELSE n.type \in {"file", "link"}

(* The call has come to an end without an error.                             *)
Over == pc = "done" \/ (pc = "idle" /\ ret = "ok")

(* While nobody else is at the path, each step still finds what the one     *)
(* before it saw.                                                           *)
Seen ==
    /\ pc = "compare" => node # Missing /\ node.type = "file"
    /\ pc = "create" => node = Missing
    /\ pc = "recheck" => op.kind = "directory" /\ node # Missing /\ node.type = "dir"
    /\ pc = "write" => mine /\ node.type = "file"
    /\ pc = "perms" => op.kind = "perms" \/ Right(op, node)
    /\ pc = "chmod" => Right(op, node) /\ fi = node /\ node.type \notin {"link", "other"}
    /\ pc = "chown" => Right(op, node) /\ (node.type = "link" \/ node.mode = op.mode)
    /\ Over => Satisfied(op, node)

(* What was changed is reported, unless it was only removed.                 *)
Reported ==
    /\ pc \in {"recheck", "write"} => did_work
    /\ pc \in {"check", "compare", "perms", "chmod", "chown"} \/ Over
       => did_work \/ op.kind = "removed" \/ node = before

(* A repeated call finds everything as it should be and goes straight on.   *)
Repeated ==
    again => /\ pc \in {"check", "compare", "perms", "done", "idle"}
             /\ ~did_work
             /\ Satisfied(op, node)

(* Which calls compare, remove and write.                                   *)
Routed ==
    /\ pc = "compare" => op.kind \in {"filestr", "file"} /\ op.create = "Always"
    /\ pc = "unlink" => \/ op.kind \in {"removed", "symlink"}
                        \/ op.kind \in {"filestr", "file"} /\ op.create = "Always"
    /\ pc = "write" => op.kind \in {"filestr", "file"}

OnPath == through => touched

Inv ==
    /\ TypeOK /\ Held /\ Routed /\ OnPath
    /\ ~touched => Seen /\ Reported /\ Repeated

LEMMA Completed ==
  ASSUME Place, NEW n \in Node
  PROVE  Satisfied(op, n) <=> Right(op, n) /\ OwnedBy(op, n)
<1>1. n # Missing
  BY NodeFields
<1>2. CASE op.kind \in {"perms", "removed"}
  BY <1>1, <1>2 DEF Satisfied, Right
<1>3. CASE op.kind \in {"directory", "symlink"}
  BY <1>1, <1>3 DEF Satisfied, Right
<1>4. CASE op.kind \in {"filestr", "file"}
  BY <1>1, <1>4 DEF Satisfied, Right
<1> QED
  BY <1>2, <1>3, <1>4, CallFields DEF Kinds

LEMMA Gone == Satisfied(op, Missing) <=> op.kind = "removed"
  BY DEF Satisfied

(* What the path is where check sends a call.                               *)
LEMMA Sent ==
  ASSUME Place, Paths, op.kind # "perms"
  PROVE  /\ AfterCheck = "compare" =>
              /\ node # Missing /\ node.type = "file"
              /\ op.kind \in {"filestr", "file"} /\ op.create = "Always"
         /\ AfterCheck = "create" => node = Missing
         /\ AfterCheck = "perms" => Right(op, node)
         /\ AfterCheck = "done" => node = Missing /\ op.kind = "removed"
         /\ AfterCheck = "unlink" =>
              \/ op.kind \in {"removed", "symlink"}
              \/ op.kind \in {"filestr", "file"} /\ op.create = "Always"
         /\ Satisfied(op, node) => AfterCheck \in {"fail", "compare", "perms", "done"}
<1> USE DEF AfterCheck, Right, Satisfied, Exists, Is
<1>1. op.create \in {"IfMissing", "Always"}
  BY CallFields
<1>2. CASE op.kind = "directory"
  BY <1>2
<1>3. CASE op.kind = "removed"
  BY <1>3
<1>4. CASE op.kind \in {"filestr", "file"}
  BY <1>1, <1>4
<1>5. CASE op.kind = "symlink"
  BY <1>5
<1> QED
  BY <1>2, <1>3, <1>4, <1>5, CallFields DEF Kinds

LEMMA InitInv == Init => Inv
<1> SUFFICES ASSUME Init PROVE Inv
  OBVIOUS
<1>1. Routed /\ OnPath
  BY DEF Init, Routed, OnPath
<1>2. Seen /\ Reported /\ Repeated
  BY DEF Init, Seen, Reported, Repeated, Over
<1> QED
  BY <1>1, <1>2, InitType DEF Inv

(* The parts of Inv that hold whoever else is at the path.                  *)
LEMMA NextRouted ==
  ASSUME TypeOK, Held, Routed, [Next]_vars
  PROVE  Routed'
<1>0. Place /\ Paths
  BY Parts
<1> USE DEF Routed, GoTo, Fail, local
<1>1. ASSUME NEW o \in calls, Call(o) PROVE Routed'
  BY <1>1 DEF Call
<1>2. CASE Check
  BY <1>0, <1>2, Sent, AfterCheckType DEF Check, Held
<1>3. CASE Compare \/ Recheck \/ Return
  BY <1>3 DEF Compare, Recheck, Return
<1>4. CASE Unlink \/ CreateDirectory \/ CreateLink \/ CreateNew \/ OpenCopy \/ Write
  BY <1>4 DEF Unlink, CreateDirectory, CreateLink, CreateNew, OpenCopy, Write
<1>5. CASE CheckPerms \/ Chmod \/ Chown
  BY <1>5 DEF CheckPerms, Chmod, Chown, ToChown
<1>6. CASE Fault \/ Interfere
  BY <1>6 DEF Fault, Interfere
<1>7. CASE UNCHANGED vars
  BY <1>7 DEF vars
<1> QED
  BY <1>1, <1>2, <1>3, <1>4, <1>5, <1>6, <1>7 DEF Next, CallAgain, Proceed

(* A link or device can only be where the call writes or changes modes when *)
(* somebody put it there.                                                   *)
LEMMA NextOnPath ==
  ASSUME Inv, [Next]_vars
  PROVE  OnPath'
<1> USE DEF Inv, OnPath, local
<1>1. ~touched => /\ pc = "create" => ~Exists
                  /\ pc = "chmod" => ~Is({"link"})
  BY DEF Seen, Is, Exists
<1>2. CASE OpenCopy
  <2>1. UNCHANGED touched
    BY <1>2 DEF OpenCopy
  <2>2. Exists \/ (through' => through)
    BY <1>2, Zenon DEF OpenCopy, Is
  <2>3. pc = "create"
    BY <1>2 DEF OpenCopy
  <2> QED
    BY <1>1, <2>1, <2>2, <2>3
<1>3. CASE Chmod
  <2>1. UNCHANGED touched
    BY <1>3 DEF Chmod
  <2>2. Is({"link"}) \/ (through' => through)
    BY <1>3, Zenon DEF Chmod
  <2>3. pc = "chmod"
    BY <1>3 DEF Chmod
  <2> QED
    BY <1>1, <2>1, <2>2, <2>3
<1>4. CASE Interfere
  BY <1>4 DEF Interfere
<1>5. CASE \/ CallAgain \/ Fault
           \/ Check \/ Compare \/ Unlink \/ CreateDirectory \/ Recheck \/ CreateNew
           \/ CreateLink \/ Write \/ CheckPerms \/ Chown \/ Return
  BY <1>5 DEF CallAgain, Call, Fault, Check, Compare, Unlink, CreateDirectory, Recheck,
              CreateNew, CreateLink, Write, CheckPerms, Chown, Return
<1>6. CASE UNCHANGED vars
  BY <1>6 DEF vars
<1> QED
  BY <1>2, <1>3, <1>4, <1>5, <1>6 DEF Next, Proceed

(* One step of the call finds what the one before it saw.                   *)
LEMMA NextSeen ==
  ASSUME Inv, [Next]_vars, ~touched, ~touched'
  PROVE  Seen'
<1>0. Place /\ Paths /\ Seen /\ Held /\ Routed
  BY Parts DEF Inv
<1>a. op.kind \in Kinds /\ op.create \in {"IfMissing", "Always"}
  BY <1>0, CallFields
<1>1. ASSUME NEW o \in calls, Call(o) PROVE Seen'
  BY <1>1 DEF Call, Seen, Over, GoTo
<1>2. CASE Check
  <2>1. op.kind # "perms"
    BY <1>0, <1>2 DEF Check, Held
  <2>2. pc' \in {"idle", AfterCheck} /\ (pc' = "idle" => ret' = "err")
    BY <1>2, <1>0, <2>1, AfterCheckType DEF Check, GoTo, Fail
  <2>3. UNCHANGED <<node, op>>
    BY <1>2 DEF Check, local
  <2> QED
    BY <1>0, <2>1, <2>2, <2>3, Sent, AfterCheckType, Gone DEF Seen, Over
<1>3. CASE Compare
  <2>1. node # Missing /\ node.type = "file" /\ op.kind \in {"filestr", "file"}
        /\ op.create = "Always"
    BY <1>0, <1>3 DEF Compare, Seen, Routed
  <2>2. (pc' = "perms" /\ node.data = op.data) \/ pc' = "unlink"
    BY <1>3, <2>1 DEF Compare, Is, Exists, GoTo
  <2>3. UNCHANGED <<node, op>>
    BY <1>3 DEF Compare, local
  <2> QED
    BY <2>1, <2>2, <2>3 DEF Seen, Over, Right
<1>4. CASE Unlink
  <2>1. \/ pc' = "idle" /\ ret' = "err"
        \/ pc' = "done" /\ op.kind = "removed" /\ node' = Missing
        \/ pc' = "create" /\ node' = Missing
    BY <1>4 DEF Unlink, GoTo, Fail
  <2>2. UNCHANGED op
    BY <1>4 DEF Unlink, local
  <2> QED
    BY <2>1, <2>2, Gone DEF Seen, Over
<1>5. CASE CreateDirectory
  <2>1. PICK d \in Defaults : node' = Made("dir", <<>>, d)
    BY <1>0, <1>5 DEF CreateDirectory, Seen, Exists
  <2>2. node' # Missing /\ node'.type = "dir"
    BY <2>1, MadeType, MadeFields, NodeFields
  <2>3. op'.kind = "directory" /\ pc' = "recheck"
    BY <1>0, <1>5 DEF CreateDirectory, Seen, Exists, GoTo, local
  <2> QED
    BY <2>2, <2>3 DEF Seen, Over
<1>6. CASE CreateNew \/ OpenCopy
  <2>1. ~Exists
    BY <1>0, <1>6 DEF CreateNew, OpenCopy, Seen, Exists
  <2>2. PICK d \in Defaults : node' = Made("file", <<>>, d)
    BY <1>6, <2>1 DEF CreateNew, OpenCopy, Is
  <2>3. node'.type = "file"
    BY <2>2, MadeFields
  <2>4. pc' = "write" /\ mine'
    BY <1>6, <2>1 DEF CreateNew, OpenCopy, Is, GoTo
  <2> QED
    BY <2>3, <2>4 DEF Seen, Over
<1>7. CASE CreateLink
  <2>1. PICK d \in Defaults : node' = Made("link", op.data, d)
    BY <1>0, <1>7 DEF CreateLink, Seen, Exists
  <2>2. op.data \in Seq(Nat)
    BY <1>0, CallFields
  <2>3. node' # Missing /\ node'.type = "link" /\ node'.data = op.data
    BY <2>1, <2>2, MadeType, MadeFields, NodeFields
  <2>4. op' = op /\ op.kind = "symlink" /\ pc' = "perms"
    BY <1>0, <1>7 DEF CreateLink, Seen, Exists, GoTo, local
  <2> QED
    BY <2>3, <2>4 DEF Seen, Over, Right
<1>8. CASE Recheck
  <2>1. /\ \/ pc' = "idle" /\ ret' = "err"
           \/ pc' = "perms"
        /\ op.kind = "directory" /\ node # Missing /\ node.type = "dir"
    BY <1>0, <1>8 DEF Recheck, Seen, GoTo, Fail
  <2>2. UNCHANGED <<node, op>>
    BY <1>8 DEF Recheck, local
  <2> QED
    BY <2>1, <2>2 DEF Seen, Over, Right
<1>9. CASE Write
  <2>1. mine /\ node # Missing /\ node.type = "file" /\ op.kind \in {"filestr", "file"}
    BY <1>0, <1>9 DEF Write, Seen, Held, Routed
  <2>2. node' = [node EXCEPT !.data = op.data] /\ op' = op /\ pc' = "perms"
    BY <1>9, <2>1 DEF Write, GoTo, local
  <2>3. node' # Missing /\ node'.type = "file" /\ node'.data = op.data
    BY <1>0, <2>1, <2>2, CallFields, ChangedThere, ChangedFields DEF Paths
  <2> QED
    BY <2>1, <2>2, <2>3 DEF Seen, Over, Right
<1>10. CASE CheckPerms
  <2>1. \/ pc' = "idle" /\ ret' = "err"
        \/ /\ node # Missing /\ node.type # "other" /\ fi' = node
           /\ \/ pc' = "chmod" /\ node.type # "link" /\ node.mode # op.mode
              \/ /\ node.type = "link" \/ node.mode = op.mode
                 /\ \/ pc' = "chown"
                    \/ pc' = "done" /\ node.owner = op.owner
    BY <1>10 DEF CheckPerms, ToChown, Exists, Is, GoTo, Fail
  <2>2. UNCHANGED <<node, op>>
    BY <1>10 DEF CheckPerms, local
  <2>3. node # Missing => Right(op, node) /\ node \in Node
    BY <1>0, <1>10 DEF CheckPerms, Seen, Right, Paths
  <2> QED
    BY <1>0, <2>1, <2>2, <2>3, Completed DEF Seen, Over, OwnedBy
<1>11. CASE Chmod
  <2>1. Right(op, node) /\ fi = node /\ node.type \notin {"link", "other"}
    BY <1>0, <1>11 DEF Chmod, Seen
  <2>2. node \in Node /\ node # Missing /\ op.mode \in Mode
    BY <1>0, <2>1, CallFields DEF Right, Paths
  <2>3. node' = [node EXCEPT !.mode = op.mode] /\ op' = op
    BY <1>11, <2>1, <2>2, NodeFields DEF Chmod, Is, Exists, local
  <2>4. pc' = "chown" \/ (pc' = "done" /\ node.owner = op.owner)
    BY <1>11, <2>1, <2>2 DEF Chmod, Exists, ToChown, GoTo
  <2>5. /\ node' \in Node /\ node' # Missing
        /\ node'.mode = op.mode /\ node'.type = node.type /\ node'.data = node.data
        /\ node'.owner = node.owner
    <3>1. node' \in Node
      BY <2>2, <2>3, ChangedType
    <3>2. /\ node'.mode = op.mode /\ node'.type = node.type
          /\ node'.data = node.data /\ node'.owner = node.owner
      BY <2>2, <2>3, ChangedFields
    <3> QED
      BY <3>1, <3>2, NodeFields
  <2>6. Right(op, node')
    BY <2>1, <2>5 DEF Right
  <2> QED
    BY <1>0, <2>3, <2>4, <2>5, <2>6, Completed DEF Seen, Over, OwnedBy
<1>12. CASE Chown
  <2>1. Right(op, node) /\ (node.type = "link" \/ node.mode = op.mode)
    BY <1>0, <1>12 DEF Chown, Seen
  <2>2. node \in Node /\ node # Missing /\ op.owner \in Owner
    BY <1>0, <2>1, CallFields DEF Right, Paths
  <2>3. node' = [node EXCEPT !.owner = op.owner] /\ op' = op /\ pc' = "done"
    BY <1>12, <2>2 DEF Chown, Exists, GoTo, local
  <2>4. /\ node' \in Node /\ node' # Missing
        /\ node'.owner = op.owner /\ node'.type = node.type /\ node'.data = node.data
        /\ node'.mode = node.mode
    BY <1>0, <2>2, <2>3, ChangedType, ChangedThere, ChangedFields
  <2>5. Right(op, node')
    BY <2>1, <2>4 DEF Right
  <2> QED
    BY <1>0, <2>1, <2>3, <2>4, <2>5, Completed DEF Seen, Over, OwnedBy
<1>13. CASE Return
  BY <1>0, <1>13 DEF Return, Seen, Over, local
<1>14. CASE Fault
  BY <1>14 DEF Fault, Fail, Seen, Over
<1>15. CASE Interfere
  BY <1>15 DEF Interfere
<1>16. CASE UNCHANGED vars
  BY <1>0, <1>16 DEF vars, Seen, Over
<1> QED
  BY <1>1, <1>2, <1>3, <1>4, <1>5, <1>6, <1>7, <1>8, <1>9, <1>10, <1>11, <1>12,
     <1>13, <1>14, <1>15, <1>16 DEF Next, CallAgain, Proceed

LEMMA NextReported ==
  ASSUME Inv, [Next]_vars, ~touched, ~touched'
  PROVE  Reported'
<1>0. Place /\ Paths /\ Seen /\ Reported /\ Held /\ Routed
  BY Parts DEF Inv
<1> USE DEF Reported, Over, GoTo, Fail, local
<1>1. ASSUME NEW o \in calls, Call(o) PROVE Reported'
  BY <1>1 DEF Call
<1>2. CASE Check
  <2>1. /\ op.kind # "perms" /\ pc = "check"
        /\ UNCHANGED <<node, op, before, did_work>>
    BY <1>0, <1>2 DEF Check, Held
  <2>2. pc' \in {"idle", AfterCheck} /\ (pc' = "idle" => ret' = "err")
    BY <1>0, <1>2, <2>1, AfterCheckType DEF Check
  <2> QED
    BY <1>0, <2>1, <2>2, AfterCheckType
<1>3. CASE Compare
  BY <1>0, <1>3 DEF Compare
<1>4. CASE Unlink
  BY <1>0, <1>4 DEF Unlink
<1>5. CASE CreateDirectory \/ CreateNew \/ OpenCopy \/ CreateLink
  BY <1>5 DEF CreateDirectory, CreateNew, OpenCopy, CreateLink
<1>6. CASE Recheck \/ Write
  BY <1>0, <1>6 DEF Recheck, Write
<1>7. CASE CheckPerms
  BY <1>0, <1>7 DEF CheckPerms, ToChown
<1>8. CASE Chmod \/ Chown
  BY <1>8 DEF Chmod, Chown
<1>9. CASE Return
  BY <1>0, <1>9 DEF Return
<1>10. CASE Fault
  BY <1>10 DEF Fault
<1>11. CASE Interfere
  BY <1>11 DEF Interfere
<1>12. CASE UNCHANGED vars
  BY <1>0, <1>12 DEF vars
<1> QED
  BY <1>1, <1>2, <1>3, <1>4, <1>5, <1>6, <1>7, <1>8, <1>9, <1>10, <1>11, <1>12
     DEF Next, CallAgain, Proceed

(* A call that finds everything as it should be goes straight on.           *)
LEMMA NextRepeated ==
  ASSUME Inv, [Next]_vars, ~touched'
  PROVE  Repeated'
<1>0. Place /\ Paths
  BY Parts DEF Inv
<1>a. ~touched => Seen /\ Repeated /\ Held /\ Routed
  BY DEF Inv
<1> USE DEF Repeated, GoTo, Fail, local
<1>1. ASSUME NEW o \in calls, Call(o) PROVE Repeated'
  <2>1. again' => ret = "ok" /\ op = o /\ ~touched
    BY <1>1, Zenon DEF Call
  <2>2. /\ pc = "idle" /\ pc' \in {"check", "perms"} /\ ~did_work'
        /\ op' = o /\ UNCHANGED node
    BY <1>1 DEF Call
  <2>3. again' => Satisfied(op', node')
    BY <1>a, <2>1, <2>2 DEF Seen, Over
  <2> QED
    BY <2>2, <2>3
<1>2. ASSUME ~again' PROVE Repeated'
  BY <1>2
<1>3. ASSUME again, ~touched, again', Check \/ Compare \/ CheckPerms
      PROVE  Repeated'
  <2>1. ~did_work /\ Satisfied(op, node) /\ Seen /\ Held /\ Routed
    BY <1>a, <1>3
  <2>2. UNCHANGED <<node, op, did_work>>
    BY <1>3 DEF Check, Compare, CheckPerms
  <2>3. CASE Check
    <3>1. op.kind # "perms"
      BY <2>1, <2>3 DEF Check, Held
    <3>2. pc' \in {"idle", "compare", "perms", "done"}
      BY <1>0, <2>1, <2>3, <3>1, Sent DEF Check
    <3> QED
      BY <2>1, <2>2, <3>2
  <2>4. CASE Compare
    <3>1. /\ node # Missing /\ node.type = "file"
          /\ op.kind \in {"filestr", "file"} /\ op.create = "Always"
      BY <2>1, <2>4 DEF Compare, Seen, Routed
    <3>2. node.data = op.data
      BY <2>1, <3>1 DEF Satisfied
    <3>3. pc' = "perms"
      BY <2>4, <3>1, <3>2 DEF Compare, Is, Exists
    <3> QED
      BY <2>1, <2>2, <3>3
  <2>5. CASE CheckPerms
    <3>1. node # Missing => OwnedBy(op, node)
      BY <1>0, <2>1, Completed DEF Paths
    <3>2. pc' \in {"idle", "done"}
      BY <2>5, <3>1 DEF CheckPerms, ToChown, OwnedBy, Exists
    <3> QED
      BY <2>1, <2>2, <3>2
  <2> QED
    BY <1>3, <2>3, <2>4, <2>5
<1>4. ASSUME again, ~touched, again', Fault \/ Return
      PROVE  Repeated'
  <2>1. pc \in {"check", "compare", "perms", "done", "idle"} /\ ~did_work /\ Satisfied(op, node)
    BY <1>a, <1>4
  <2>2. UNCHANGED <<node, op, did_work>> /\ pc' = "idle"
    BY <1>4, <2>1 DEF Fault, Return
  <2> QED
    BY <2>1, <2>2
<1>5. ASSUME again, ~touched, again',
             \/ Unlink \/ CreateDirectory \/ Recheck \/ CreateNew \/ OpenCopy
             \/ CreateLink \/ Write \/ Chmod \/ Chown
      PROVE  Repeated'
  <2>1. pc \in {"check", "compare", "perms", "done", "idle"}
    BY <1>a, <1>5
  <2> QED
    BY <1>5, <2>1 DEF Unlink, CreateDirectory, Recheck, CreateNew, OpenCopy, CreateLink,
                      Write, Chmod, Chown
<1>6. CASE Interfere
  BY <1>6 DEF Interfere
<1>7. CASE UNCHANGED vars
  BY <1>a, <1>7 DEF vars
<1>8. Proceed \/ Fault => UNCHANGED <<again, touched>>
  BY DEF Proceed, Fault, Check, Compare, Unlink, CreateDirectory, Recheck, CreateNew,
         OpenCopy, CreateLink, Write, CheckPerms, Chmod, Chown, Return
<1> QED
  BY <1>1, <1>2, <1>3, <1>4, <1>5, <1>6, <1>7, <1>8 DEF Next, CallAgain, Proceed

LEMMA NextInv == Inv /\ [Next]_vars => Inv'
<1> SUFFICES ASSUME Inv, [Next]_vars PROVE Inv'
  OBVIOUS
<1>1. TypeOK /\ Held /\ Routed /\ Place /\ Flags
  BY Parts DEF Inv
<1>2. TypeOK'
  <2>1. Paths' /\ Place' /\ Flags' /\ Looked'
    BY <1>1, NextPaths, NextPlace, NextFlags, NextLooked
  <2>2. (TypeOK <=> Paths /\ Place /\ Flags /\ Looked)'
    BY Parts, PTL
  <2> QED
    BY <2>1, <2>2
<1>3. Held' /\ Routed' /\ OnPath'
  BY <1>1, NextHeld, NextRouted, NextOnPath
<1>4. ASSUME ~touched' PROVE Seen' /\ Reported' /\ Repeated'
  <2>1. CASE ~touched
    BY <1>4, <2>1, NextSeen, NextReported, NextRepeated
  <2>2. CASE touched
    <3>1. PICK o \in calls : Call(o)
      <4>1. ~(Proceed \/ Fault \/ Interfere \/ UNCHANGED vars)
        BY <1>4, <2>2 DEF Proceed, Fault, Interfere, vars, local, Check, Compare, Unlink,
             CreateDirectory, Recheck, CreateNew, OpenCopy, CreateLink, Write, CheckPerms,
             Chmod, Chown, Return
      <4> QED
        BY <4>1 DEF Next, CallAgain
    <3>2. Seen' /\ Reported'
      BY <3>1 DEF Call, Seen, Reported, Over, GoTo
    <3> QED
      BY <1>4, <3>2, NextRepeated
  <2> QED
    BY <2>1, <2>2
<1> QED
  BY <1>2, <1>3, <1>4 DEF Inv

(* Inv holds throughout: it is what types and each of the five promises of
   ensure.rs need to be kept by every step, told apart by who else touched
   the path and by how far the present call has come.                       *)
THEOREM Invariance == Spec => []Inv
  BY InitInv, NextInv, PTL DEF Spec

(* The path always holds a node with a type, contents, a mode and an owner, *)
(* the call is at one of its steps, and it is about to change a mode only   *)
(* when it has seen that there is no link, however it was failed, killed or *)
(* interfered with (ensure.rs:57-530).                                      *)
THEOREM EnsureTypeCorrect == Spec => []TypeOK
<1>1. Inv => TypeOK
  BY DEF Inv
<1> QED
  BY <1>1, Invariance, PTL

(* Ok from any function of ensure.rs means that the path is as it asks,     *)
(* whatever was there and whatever failed calls left behind, unless another *)
(* process changed it during the call.                                      *)
THEOREM EnsuredOnReturnHolds == Spec => []EnsuredOnReturn
<1>1. Inv => EnsuredOnReturn
  BY DEF Inv, Seen, Over, EnsuredOnReturn
<1> QED
  BY <1>1, Invariance, PTL

(* did_work is never FALSE over a path that was changed (ensure.rs:173-530). *)
THEOREM QuietMeansUntouchedHolds == Spec => []QuietMeansUntouched
<1>1. Inv => QuietMeansUntouched
  BY DEF Inv, Reported, Over, QuietMeansUntouched
<1> QED
  BY <1>1, Invariance, PTL

(* A call that repeats one that returned Ok does nothing (ensure.rs:57-530). *)
THEOREM SecondCallQuietHolds == Spec => []SecondCallQuiet
<1>1. Inv => SecondCallQuiet
  BY DEF Inv, Repeated, SecondCallQuiet
<1> QED
  BY <1>1, Invariance, PTL

(* With nobody else at the path while it is made, no call changes what lies *)
(* behind a link or a device, whoever put it there (ensure.rs:140-155, 465). *)
THEOREM StaysOnPathHolds == Spec => []StaysOnPath
<1>1. Inv => StaysOnPath
  BY DEF Inv, OnPath, StaysOnPath
<1> QED
  BY <1>1, Invariance, PTL

-----------------------------------------------------------------------------
(* What is there and was not made by the call keeps its type and contents   *)
(* at every step of a filestr with IfMissing.                               *)
LEMMA FilestrStep ==
  ASSUME Inv, [Next]_vars
  PROVE  [KeepsExisting("filestr")]_vars
<1> SUFFICES ASSUME Next, interference' = interference, pc # "idle",
                    op.kind = "filestr", op.create = "IfMissing", node # Missing, ~mine
             PROVE  node' # Missing /\ node'.type = node.type /\ node'.data = node.data
  BY DEF KeepsExisting
<1>0. Place /\ Paths /\ node \in Node
  BY Parts DEF Inv, Paths
<1> USE DEF local
<1>1. CASE CallAgain \/ Check \/ Compare \/ CheckPerms \/ Return \/ Recheck
  BY <1>1 DEF CallAgain, Call, Check, Compare, CheckPerms, Return, Recheck
<1>2. CASE Unlink
  BY <1>2 DEF Unlink, Inv, Routed
<1>3. CASE CreateDirectory \/ CreateLink \/ OpenCopy
  BY <1>3 DEF CreateDirectory, CreateLink, OpenCopy
<1>4. CASE CreateNew
  BY <1>4 DEF CreateNew, Exists
<1>5. CASE Write \/ Fault
  BY <1>5 DEF Write, Fault
<1>6. CASE Chmod
  <2>1. node' = node \/ node' = [node EXCEPT !.mode = op.mode]
    BY <1>6 DEF Chmod
  <2>2. CASE node' = [node EXCEPT !.mode = op.mode]
    <3>1. node' # Missing
      BY <1>0, <2>2, CallFields, ChangedThere
    <3>2. node'.type = node.type /\ node'.data = node.data
      BY <1>0, <2>2, ChangedFields
    <3> QED
      BY <3>1, <3>2
  <2> QED
    BY <2>1, <2>2
<1>7. CASE Chown
  <2>1. node' = node \/ node' = [node EXCEPT !.owner = op.owner]
    BY <1>7 DEF Chown
  <2>2. CASE node' = [node EXCEPT !.owner = op.owner]
    <3>1. node' # Missing
      BY <1>0, <2>2, CallFields, ChangedThere
    <3>2. node'.type = node.type /\ node'.data = node.data
      BY <1>0, <2>2, ChangedFields
    <3> QED
      BY <3>1, <3>2
  <2> QED
    BY <2>1, <2>2
<1>8. CASE Interfere
  BY <1>0, <1>8, EnsureAssumption DEF EnsureAssumption, Interfere, Place
<1> QED
  BY <1>1, <1>2, <1>3, <1>4, <1>5, <1>6, <1>7, <1>8 DEF Next, Proceed

(* filestr with IfMissing never replaces or empties what it did not make,   *)
(* not even what appeared after it looked (ensure.rs:310-377).              *)
THEOREM FilestrKeepsHolds == Spec => FilestrKeeps
<1>1. Inv /\ [Next]_vars => [KeepsExisting("filestr")]_vars
  BY FilestrStep
<1> QED
  BY <1>1, Invariance, PTL DEF Spec, FilestrKeeps
=============================================================================
