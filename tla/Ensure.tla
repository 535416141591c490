------------------------------- MODULE Ensure -------------------------------
(***************************************************************************)
(* libinstall's ensure.rs: calls that bring one path of the file system    *)
(* into the state the caller asks for, a system call at a time.  Between   *)
(* two of them another process may replace what is at the path, a system   *)
(* call may fail, or the installer may be killed; the caller may call      *)
(* again.                                                                  *)
(*                                                                         *)
(* Contents of files and targets of links are sequences, so that a write   *)
(* that stops half way leaves a proper prefix.  The parents of the path    *)
(* exist.                                                                  *)
(***************************************************************************)
EXTENDS Integers, Sequences

CONSTANTS
    Missing,           \* nothing is at the path
    Nodes,             \* what others may put there
    CallSets,          \* sets of calls; one caller makes calls of one set
    Defaults,          \* mode and owner of what the installer creates
    MaxFaults,         \* bound on failed system calls and kills
    MaxInterference    \* bound on steps of other processes

Mode == Nat
Owner == Nat

Node == [type: {"dir", "file", "link", "other"}, data: Seq(Nat), mode: Mode, owner: Owner]

(* The arguments of a call; owner and group are one.  symlink takes no mode
   and gives perms the mode 0.                                              *)
CallType ==
    {c \in [kind: {"perms", "directory", "removed", "filestr", "file", "symlink"},
            create: {"IfMissing", "Always"}, data: Seq(Nat), mode: Mode, owner: Owner] :
        c.kind = "symlink" => c.mode = 0}

ASSUME EnsureAssumption ==
    /\ Missing \notin Node
    /\ Nodes \subseteq Node
    /\ CallSets \subseteq SUBSET CallType
    /\ Defaults \subseteq [mode: Mode, owner: Owner]
    /\ MaxFaults \in Nat /\ MaxInterference \in Nat

VARIABLES
    node,       \* what is at the path
    calls,      \* the calls the caller may make
    op,         \* the call being made, or the last one
    pc,         \* its next step; "idle" between two calls
    fi,         \* FileInfo: what lstat returned to perms
    did_work,   \* the variable of that name
    ret,        \* "ok" or "err" when the call has returned
    mine,       \* the file the call created or opened is still at the path
    before,     \* observer: the node when the call began
    touched,    \* observer: another process changed the path since then
    through,    \* observer: the call changed what a link or device leads to
    again,      \* observer: the call repeats one that returned Ok just before
    faults, interference

vars == <<node, calls, op, pc, fi, did_work, ret, mine, before, touched,
          through, again, faults, interference>>

local == <<calls, op, before, touched, again, faults, interference>>

Init ==
    /\ node \in Nodes \cup {Missing}
    /\ calls \in CallSets
    /\ op \in calls
    /\ pc = "idle"
    /\ fi = node
    /\ did_work = FALSE
    /\ ret = "none"
    /\ mine = FALSE
    /\ before = node
    /\ touched = FALSE
    /\ through = FALSE
    /\ again = FALSE
    /\ faults = 0
    /\ interference = 0

-----------------------------------------------------------------------------
Made(type, data, d) == [type |-> type, data |-> data, mode |-> d.mode, owner |-> d.owner]

Exists == node # Missing
Is(types) == Exists /\ node.type \in types

GoTo(label) == pc' = label /\ UNCHANGED ret
Fail == pc' = "idle" /\ ret' = "err"

Call(o) ==
    /\ pc = "idle"
    /\ op' = o
    /\ again' = (ret = "ok" /\ op = o /\ ~touched)
    /\ GoTo(IF o.kind = "perms" THEN "perms" ELSE "check")
    /\ did_work' = FALSE
    /\ mine' = FALSE
    /\ before' = node
    /\ touched' = FALSE
    /\ through' = FALSE
    /\ UNCHANGED <<node, calls, fi, faults, interference>>

(* Where check(dst) sends each function; "fail" where it bails.             *)
AfterCheck ==
    IF Is({"other"}) THEN "fail"
    ELSE CASE op.kind = "directory" ->
                IF ~Exists THEN "create" ELSE IF Is({"dir"}) THEN "perms" ELSE "fail"
           [] op.kind = "removed" ->
                IF ~Exists THEN "done" ELSE IF Is({"dir"}) THEN "fail" ELSE "unlink"
           [] op.kind \in {"filestr", "file"} ->
                IF ~Exists THEN "create"
                ELSE IF op.create = "Always"
                     THEN IF Is({"file"}) THEN "compare" ELSE "unlink"
                     ELSE IF Is({"file", "link"}) THEN "perms" ELSE "fail"
           [] op.kind = "symlink" ->
                IF ~Exists THEN "create"
                ELSE IF Is({"link"}) /\ node.data = op.data THEN "perms" ELSE "unlink"

Check ==
    /\ pc = "check"
    /\ IF AfterCheck = "fail" THEN Fail ELSE GoTo(AfterCheck)
    /\ UNCHANGED <<node, fi, did_work, mine, through, local>>

(* Faulty variants of Compare: what is equal is replaced too; what differs
   is kept.                                                                 *)
CompareNever ==
    /\ pc = "compare"
    /\ IF Is({"file", "link", "other"}) THEN GoTo("unlink") ELSE Fail
    /\ UNCHANGED <<node, fi, did_work, mine, through, local>>

CompareInverted ==
    /\ pc = "compare"
    /\ IF Is({"file"}) THEN GoTo(IF node.data = op.data THEN "unlink" ELSE "perms")
       ELSE Fail
    /\ UNCHANGED <<node, fi, did_work, mine, through, local>>

(* comparestr, compare: the path is opened again, and links are followed.   *)
Compare ==
    /\ pc = "compare"
    /\ \/ ~Exists /\ Fail
       \/ Is({"dir"}) /\ Fail
       \/ Is({"file"}) /\ GoTo(IF node.data = op.data THEN "perms" ELSE "unlink")
       \/ Is({"link", "other"}) /\ (Fail \/ GoTo("perms") \/ GoTo("unlink"))
    /\ UNCHANGED <<node, fi, did_work, mine, through, local>>

(* remove_file; it does not remove directories.                             *)
Unlink ==
    /\ pc = "unlink"
    /\ IF Is({"file", "link", "other"})
       THEN /\ node' = Missing
            /\ GoTo(IF op.kind = "removed" THEN "done" ELSE "create")
       ELSE Fail /\ UNCHANGED node
    /\ UNCHANGED <<fi, did_work, mine, through, local>>

(* DirBuilder::recursive(true) accepts a directory that is there.           *)
CreateDirectory ==
    /\ pc = "create" /\ op.kind = "directory"
    /\ did_work' = TRUE
    /\ IF Exists
       THEN /\ IF Is({"dir"}) THEN GoTo("recheck") ELSE Fail
            /\ UNCHANGED node
       ELSE /\ \E d \in Defaults : node' = Made("dir", <<>>, d)
            /\ GoTo("recheck")
    /\ UNCHANGED <<fi, mine, through, local>>

(* check(dir)?.expect("directory should now exist")                         *)
Recheck ==
    /\ pc = "recheck"
    /\ IF ~Exists \/ Is({"other"}) THEN Fail ELSE GoTo("perms")
    /\ UNCHANGED <<node, fi, did_work, mine, through, local>>

(* A faulty variant of CreateNew: create(true).truncate(true).               *)
CreateTruncating ==
    /\ pc = "create" /\ op.kind = "filestr"
    /\ did_work' = TRUE
    /\ \E d \in Defaults : node' = Made("file", <<>>, d)
    /\ mine' = TRUE
    /\ GoTo("write")
    /\ UNCHANGED <<fi, through, local>>

(* create_new(true): fails when anything is there, a dangling link included. *)
CreateNew ==
    /\ pc = "create" /\ op.kind = "filestr"
    /\ did_work' = TRUE
    /\ IF Exists
       THEN Fail /\ UNCHANGED <<node, mine>>
       ELSE /\ \E d \in Defaults : node' = Made("file", <<>>, d)
            /\ mine' = TRUE
            /\ GoTo("write")
    /\ UNCHANGED <<fi, through, local>>

(* fs::copy opens what is there and truncates it, through a link too, and
   gives it the permissions of the source.                                  *)
OpenCopy ==
    /\ pc = "create" /\ op.kind = "file"
    /\ did_work' = TRUE
    /\ \/ /\ Is({"dir"})
          /\ Fail
          /\ UNCHANGED <<node, mine, through>>
       \/ /\ Is({"link", "other"})
          /\ GoTo("write")
          /\ through' = TRUE
          /\ UNCHANGED <<node, mine>>
       \/ /\ ~Exists \/ Is({"file"})
          /\ \E d \in Defaults :
                node' = IF Exists THEN [node EXCEPT !.data = <<>>, !.mode = d.mode]
                                  ELSE Made("file", <<>>, d)
          /\ mine' = TRUE
          /\ GoTo("write")
          /\ UNCHANGED through
    /\ UNCHANGED <<fi, local>>

(* write_all, or the copy loop, on the file that was opened.                *)
Write ==
    /\ pc = "write"
    /\ node' = IF mine THEN [node EXCEPT !.data = op.data] ELSE node
    /\ GoTo("perms")
    /\ UNCHANGED <<fi, did_work, mine, through, local>>

CreateLink ==
    /\ pc = "create" /\ op.kind = "symlink"
    /\ did_work' = TRUE
    /\ IF Exists
       THEN Fail /\ UNCHANGED node
       ELSE /\ \E d \in Defaults : node' = Made("link", op.data, d)
            /\ GoTo("perms")
    /\ UNCHANGED <<fi, mine, through, local>>

ToChown(info) == IF info.owner # op.owner THEN "chown" ELSE "done"

(* A faulty variant of CheckPerms: chmod is not kept from links.             *)
CheckPermsOfLinks ==
    /\ pc = "perms"
    /\ IF ~Exists \/ Is({"other"})
       THEN Fail /\ UNCHANGED fi
       ELSE /\ fi' = node
            /\ GoTo(IF node.mode # op.mode THEN "chmod" ELSE ToChown(node))
    /\ UNCHANGED <<node, did_work, mine, through, local>>

(* perms: lstat, then chmod and chown as that said.                         *)
CheckPerms ==
    /\ pc = "perms"
    /\ IF ~Exists \/ Is({"other"})
       THEN Fail /\ UNCHANGED fi
       ELSE /\ fi' = node
            /\ GoTo(IF node.type # "link" /\ node.mode # op.mode
                    THEN "chmod" ELSE ToChown(node))
    /\ UNCHANGED <<node, did_work, mine, through, local>>

(* A faulty variant of Chmod: it is the last thing perms does.               *)
ChmodOnly ==
    /\ pc = "chmod"
    /\ did_work' = TRUE
    /\ IF Exists THEN GoTo("done") ELSE Fail
    /\ through' = (through \/ Is({"link"}))
    /\ node' = IF Is({"dir", "file", "other"}) THEN [node EXCEPT !.mode = op.mode] ELSE node
    /\ UNCHANGED <<fi, mine, local>>

(* chmod(2) follows links.                                                  *)
Chmod ==
    /\ pc = "chmod"
    /\ did_work' = TRUE
    /\ IF Exists THEN GoTo(ToChown(fi)) ELSE Fail
    /\ through' = (through \/ Is({"link"}))
    /\ node' = IF Is({"dir", "file", "other"}) THEN [node EXCEPT !.mode = op.mode] ELSE node
    /\ UNCHANGED <<fi, mine, local>>

(* A faulty variant of Chown: the work is not reported.                      *)
ChownUnreported ==
    /\ pc = "chown"
    /\ IF Exists THEN GoTo("done") /\ node' = [node EXCEPT !.owner = op.owner]
                 ELSE Fail /\ UNCHANGED node
    /\ UNCHANGED <<fi, did_work, mine, through, local>>

(* lchown(2) does not.                                                      *)
Chown ==
    /\ pc = "chown"
    /\ did_work' = TRUE
    /\ IF Exists THEN GoTo("done") /\ node' = [node EXCEPT !.owner = op.owner]
                 ELSE Fail /\ UNCHANGED node
    /\ UNCHANGED <<fi, mine, through, local>>

Return ==
    /\ pc = "done"
    /\ pc' = "idle" /\ ret' = "ok"
    /\ UNCHANGED <<node, fi, did_work, mine, through, local>>

(* A system call fails, or the process is killed; a write may have begun.   *)
Fault ==
    /\ pc # "idle" /\ faults < MaxFaults
    /\ \/ UNCHANGED node
       \/ /\ pc = "write" /\ mine
          /\ \E n \in 0..Len(op.data) : node' = [node EXCEPT !.data = SubSeq(op.data, 1, n)]
    /\ Fail
    /\ faults' = faults + 1
    /\ UNCHANGED <<calls, op, fi, did_work, mine, before, touched, through, again,
                   interference>>

(* Another process replaces, adds or removes what is at the path.           *)
Interfere ==
    /\ interference < MaxInterference
    /\ node' \in (Nodes \cup {Missing}) \ {node}
    /\ mine' = FALSE
    /\ touched' = TRUE
    /\ interference' = interference + 1
    /\ UNCHANGED <<calls, op, pc, fi, did_work, ret, before, through, again, faults>>

Proceed ==
    \/ Check \/ Compare \/ Unlink
    \/ CreateDirectory \/ Recheck \/ CreateNew \/ OpenCopy \/ CreateLink \/ Write
    \/ CheckPerms \/ Chmod \/ Chown \/ Return

CallAgain == \E o \in calls : Call(o)

Next == CallAgain \/ Proceed \/ Fault \/ Interfere

Spec == Init /\ [][Next]_vars

(* A call that was made goes on, and its caller repeats it; failures, kills
   and other processes owe nothing.                                         *)
FairSpec == Spec /\ WF_vars(Proceed) /\ WF_vars(CallAgain)

-----------------------------------------------------------------------------
(* The variables have their types, and a call that is about to change a mode
   or an owner has seen something there, a mode of no link.                 *)
TypeOK ==
    /\ node \in Node \cup {Missing}
    /\ calls \in CallSets /\ op \in calls
    /\ pc \in {"idle", "check", "compare", "unlink", "create", "recheck", "write",
               "perms", "chmod", "chown", "done"}
    /\ fi \in Node \cup {Missing}
    /\ {did_work, mine, touched, through, again} \subseteq BOOLEAN
    /\ ret \in {"none", "ok", "err"}
    /\ before \in Node \cup {Missing}
    /\ faults \in 0..MaxFaults /\ interference \in 0..MaxInterference
    /\ pc \in {"chmod", "chown"} => fi # Missing
    /\ pc = "chmod" => fi.type # "link"

OwnedBy(o, n) == n.owner = o.owner /\ (n.type = "link" \/ n.mode = o.mode)

(* What the caller of o is told the path is.                                *)
Satisfied(o, n) ==
    IF n = Missing THEN o.kind = "removed"
    ELSE CASE o.kind = "removed" -> FALSE
           [] o.kind = "perms" -> OwnedBy(o, n)
           [] o.kind = "directory" -> n.type = "dir" /\ OwnedBy(o, n)
           [] o.kind = "symlink" -> n.type = "link" /\ n.data = o.data /\ OwnedBy(o, n)
           [] o.kind \in {"filestr", "file"} ->
                /\ OwnedBy(o, n)
                /\ IF o.create = "Always" THEN n.type = "file" /\ n.data = o.data
                                          ELSE n.type \in {"file", "link"}

(* A call that returns Ok has brought about what it was asked for, whatever
   was at the path and whatever earlier calls left behind when they failed,
   unless another process changed the path meanwhile.                       *)
EnsuredOnReturn ==
    pc = "idle" /\ ret = "ok" /\ ~touched => Satisfied(op, node)

(* did_work tells the truth: FALSE means that the path is as it was.        *)
QuietMeansUntouched ==
    pc = "idle" /\ ret = "ok" /\ ~touched /\ op.kind # "removed" /\ ~did_work
        => node = before

(* The calls are idempotent: one that repeats a call that returned Ok, with
   nobody else at the path, does no work.                                   *)
SecondCallQuiet ==
    again /\ ~touched /\ pc = "idle" /\ ret = "ok" => ~did_work

(* No call changes what is behind a link or a device unless another process
   changed the path during that same call: what others did before it began is
   no excuse.                                                               *)
StaysOnPath ==
    through => touched

KeepsExisting(kind) ==
    interference' = interference /\ pc # "idle"
    /\ op.kind = kind /\ op.create = "IfMissing" /\ node # Missing /\ ~mine
        => node' # Missing /\ node'.type = node.type /\ node'.data = node.data

(* filestr with IfMissing never replaces or empties what it did not create
   itself, not even what appeared after it looked ("Avoid clobbering ... in
   the face of modifications", ensure.rs:325).                              *)
FilestrKeeps == [][KeepsExisting("filestr")]_vars

(* ensure.rs:418 says the same of file ("asked to preserve in the face of
   modifications"), which opens its target with fs::copy.                   *)
FileKeeps == [][KeepsExisting("file")]_vars

(* What no call of o can change: check bails, or the entry is not removed.  *)
Blocked(o, n) ==
    IF n = Missing THEN o.kind = "perms"
    ELSE \/ n.type = "other"
         \/ o.kind = "directory" /\ n.type # "dir"
         \/ o.kind \in {"removed", "filestr", "file", "symlink"} /\ n.type = "dir"

(* A caller that repeats one call has its way in the end and keeps it,
   unless something is at the path that the call refuses to touch.          *)
Converges ==
    \A o \in UNION CallSets :
        calls = {o} => <>[](Satisfied(o, node) \/ Blocked(o, node))
=============================================================================
