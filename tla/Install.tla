------------------------------ MODULE Install ------------------------------
(***************************************************************************)
(* libinstall's apply_instruction: pools, boot environments, datasets and  *)
(* images are made by commands, one after the other, any of which may fail *)
(* or be the last before the installer is killed; a file of instructions   *)
(* may include others.  Nothing is undone, and the next run meets it.      *)
(*                                                                         *)
(* Pool names are sequences, so that <<"INSTALLER", "x">> is what          *)
(* installer_pool_name makes of <<"x">>.  create_pool passes on a variable *)
(* pool_name that is declared nowhere: it is read as the pool's target     *)
(* name or as its temporary one.                                           *)
(***************************************************************************)
EXTENDS Integers, Sequences, SequencesExt

CONSTANTS
    Names,        \* what names of pools and datasets are made of
    Files,        \* files of a bundle
    Bundle,       \* Bundle[f]: its instructions
    Unreadable,   \* files that are missing or do not parse
    Starts,       \* files a run may be given
    HostPools,    \* pools of the running system
    HostDatasets, \* and their datasets
    HostDisks,    \* and their disks
    MaxDepth,     \* nested calls the stack holds
    MaxFaults     \* bound on failures and kills

Name(n) == <<n>>
Installer(pool) == <<"INSTALLER">> \o pool            \* installer_pool_name
Altroot(pool) == <<"/altroot">> \o pool               \* installer_altroot
Ds(pool, path) == [pool |-> pool, path |-> path]

(* The ops that do nothing, EnsureFile to SeedSmf, are one.                 *)
IsInstruction(i) ==
    CASE i.op = "create_pool" ->
            /\ DOMAIN i = {"op", "name", "bails", "disks", "be"}
            /\ i.name \in Seq(Names) /\ i.bails \in BOOLEAN /\ i.be \in Names
      [] i.op = "create_dataset" ->
            /\ DOMAIN i = {"op", "dataset"}
            /\ i.dataset \in [pool: Seq(Names), path: Seq(Names)]
      [] i.op = "install_image" -> DOMAIN i = {"op", "pool"} /\ i.pool \in Seq(Names)
      [] i.op = "make_bootable" ->
            /\ DOMAIN i = {"op", "pool", "be"}
            /\ i.pool \in Seq(Names) /\ i.be \in Names
      [] i.op = "include" -> DOMAIN i = {"op", "file"} /\ i.file \in Files
      [] OTHER -> i.op = "nothing"

Written == UNION {ToSet(Bundle[f]) : f \in Files}     \* instructions of the bundle

ASSUME InstallAssumption ==
    /\ {"INSTALLER", "ROOT"} \subseteq Names
    /\ Bundle \in [Files -> Seq(Written)]
    /\ \A i \in Written : IsInstruction(i)
    /\ Unreadable \subseteq Files /\ Starts \subseteq Files
    /\ HostPools \subseteq Seq(Names) \ {<<>>}
    /\ \A p \in HostPools : p[1] # "INSTALLER"
    /\ \A d \in HostDatasets : d.pool \in HostPools
    /\ MaxDepth \in Nat \ {0} /\ MaxFaults \in Nat

VARIABLES
    reading,     \* what pool_name is: "target" or "temporary"
    pools,       \* imported pools, by the name they are imported under
    disks,       \* disks in use
    datasets,    \* datasets that are there
    bootfs,      \* <<pool, dataset>>: what pools boot
    mounts,      \* <<dataset, directory>>
    unpacked,    \* directories images were unpacked into
    file,        \* that this or the last run was given
    stack,       \* instructions left, of the innermost file first
    todo,        \* commands the present instruction has left
    log,         \* instructions this run began, includes left out
    status,      \* "idle", "running", "ok", "err", "overflow"
    faults

system == <<pools, disks, datasets, bootfs, mounts, unpacked>>
vars == <<reading, pools, disks, datasets, bootfs, mounts, unpacked,
          file, stack, todo, log, status, faults>>

Init ==
    /\ reading \in {"target", "temporary"}
    /\ pools = HostPools /\ disks = HostDisks /\ datasets = HostDatasets
    /\ bootfs = {} /\ mounts = {} /\ unpacked = {}
    /\ file \in Starts /\ stack = <<>> /\ todo = <<>> /\ log = <<>>
    /\ status = "idle" /\ faults = 0

-----------------------------------------------------------------------------
(* The commands of an instruction.                                          *)

(* What a command does, to what pool, and with what: a dataset, or disks.   *)
Cmd(do, pool, arg) == [do |-> do, pool |-> pool, arg |-> arg]

(* A faulty variant of MakeBootable: the pool's own boot environment.        *)
MakeBootableByTarget(pool, be) ==
    <<Cmd("set bootfs", pool, Ds(pool, <<"ROOT", be>>)),
      Cmd("activate", pool, Ds(pool, <<"ROOT", be>>)),
      Cmd("bootadm", Installer(pool), <<>>), Cmd("bootadm", Installer(pool), <<>>)>>

MakeBootable(pool, be) ==
    LET beds == Ds(Installer(pool), <<"ROOT", be>>) IN
    <<Cmd("set bootfs", pool, beds), Cmd("activate", pool, beds),
      Cmd("bootadm", Installer(pool), <<>>), Cmd("bootadm", Installer(pool), <<>>)>>

CreateBe(pool, be) ==
    LET root == Ds(pool, <<"ROOT">>)
        beds == Ds(pool, <<"ROOT", be>>) IN
    <<Cmd("create", pool, root), Cmd("create", pool, beds), Cmd("mkdir", pool, <<>>),
      Cmd("mount", pool, beds), Cmd("zfs set", pool, beds), Cmd("zfs set", pool, beds)>>

PoolName(ins) ==
    IF reading = "target" THEN ins.name ELSE Installer(ins.name)

(* A faulty variant of CreatePool: it is not made bootable.                  *)
CreatePoolOnly(ins) ==
    IF ins.bails THEN <<Cmd("bail", ins.name, <<>>)>>
    ELSE <<Cmd("zpool create", Installer(ins.name), ins.disks)>>
         \o CreateBe(PoolName(ins), ins.be)

CreatePool(ins) ==
    IF ins.bails THEN <<Cmd("bail", ins.name, <<>>)>>
    ELSE <<Cmd("zpool create", Installer(ins.name), ins.disks)>>
         \o CreateBe(PoolName(ins), ins.be)
         \o MakeBootable(PoolName(ins), ins.be)

CreateDataset(ins) == <<Cmd("create -p", ins.dataset.pool, ins.dataset)>>

(* A faulty variant of InstallImage: the pool's temporary name names the root. *)
InstallImageByTemporary(ins) ==
    <<Cmd("download", ins.pool, <<>>), Cmd("check", ins.pool, <<>>),
      Cmd("tar", Installer(ins.pool), <<>>)>>

(* The download is module Download's; here it is a step that may fail.      *)
InstallImage(ins) ==
    <<Cmd("download", ins.pool, <<>>), Cmd("check", ins.pool, <<>>), Cmd("tar", ins.pool, <<>>)>>

Commands(ins) ==
    CASE ins.op = "create_pool" -> CreatePool(ins)
      [] ins.op = "create_dataset" -> CreateDataset(ins)
      [] ins.op = "install_image" -> InstallImage(ins)
      [] ins.op = "make_bootable" -> MakeBootable(ins.pool, ins.be)
      [] OTHER -> <<>>

-----------------------------------------------------------------------------
(* The commands themselves; create_be mounts at /a.                         *)

MountPoint(d) == <<"/a">>

ParentThere(d) == Len(d.path) > 1 => Ds(d.pool, Front(d.path)) \in datasets

Works(cmd) ==
    CASE cmd.do = "bail" -> FALSE
      [] cmd.do = "zpool create" -> cmd.pool \notin pools /\ cmd.arg \cap disks = {}
      [] cmd.do = "create" ->
            cmd.pool \in pools /\ cmd.arg \notin datasets /\ ParentThere(cmd.arg)
      [] cmd.do = "create -p" -> cmd.pool \in pools
      [] cmd.do = "mount" ->
            cmd.arg \in datasets /\ \A m \in mounts : m[1] # cmd.arg /\ m[2] # MountPoint(cmd.arg)
      [] cmd.do = "zfs set" -> cmd.arg \in datasets
      [] cmd.do = "set bootfs" ->
            cmd.pool \in pools /\ cmd.arg \in datasets /\ cmd.arg.pool = cmd.pool
      [] cmd.do = "activate" -> cmd.arg \in datasets
      [] OTHER -> TRUE

Ancestry(d) == {Ds(d.pool, SubSeq(d.path, 1, n)) : n \in 1..Len(d.path)}

Perform(cmd) ==
    /\ pools' = IF cmd.do = "zpool create" THEN pools \cup {cmd.pool} ELSE pools
    /\ disks' = IF cmd.do = "zpool create" THEN disks \cup cmd.arg ELSE disks
    /\ datasets' = CASE cmd.do = "create" -> datasets \cup {cmd.arg}
                     [] cmd.do = "create -p" -> datasets \cup Ancestry(cmd.arg)
                     [] OTHER -> datasets
    /\ mounts' = IF cmd.do = "mount" THEN mounts \cup {<<cmd.arg, MountPoint(cmd.arg)>>} ELSE mounts
    /\ bootfs' = IF cmd.do = "set bootfs"
                 THEN {b \in bootfs : b[1] # cmd.pool} \cup {<<cmd.pool, cmd.arg>>}
                 ELSE bootfs
    /\ unpacked' = IF cmd.do = "tar" THEN unpacked \cup {Altroot(cmd.pool)} ELSE unpacked

-----------------------------------------------------------------------------
Start(f) ==
    /\ status # "running"
    /\ file' = f /\ todo' = <<>> /\ log' = <<>>
    /\ stack' = IF f \in Unreadable THEN <<>> ELSE <<Bundle[f]>>
    /\ status' = IF f \in Unreadable THEN "err" ELSE "running"
    /\ UNCHANGED <<reading, system, faults>>

Rest == <<Tail(stack[1])>> \o Tail(stack)
Running == status = "running" /\ todo = <<>> /\ stack # <<>>

(* The next instruction that is no include is entered.                      *)
Apply ==
    /\ Running /\ stack[1] # <<>>
    /\ stack[1][1].op # "include"
    /\ todo' = Commands(stack[1][1])
    /\ stack' = Rest /\ log' = Append(log, stack[1][1])
    /\ UNCHANGED <<reading, system, file, status, faults>>

(* include_file calls apply_instruction, which calls include_file; a file
   that includes itself goes on until the stack is used up.                 *)
Include ==
    /\ Running /\ stack[1] # <<>> /\ stack[1][1].op = "include"
    /\ LET f == stack[1][1].file IN
       IF f \in Unreadable THEN status' = "err" /\ UNCHANGED stack
       ELSE IF Len(stack) = MaxDepth THEN status' = "overflow" /\ UNCHANGED stack
       ELSE stack' = <<Bundle[f]>> \o Rest /\ UNCHANGED status
    /\ UNCHANGED <<reading, system, file, todo, log, faults>>

(* A file is at its end: back to the one that includes it.                  *)
EndFile ==
    /\ Running /\ stack[1] = <<>>
    /\ stack' = Tail(stack)
    /\ status' = IF Tail(stack) = <<>> THEN "ok" ELSE status
    /\ UNCHANGED <<reading, system, file, todo, log, faults>>

Command ==
    /\ status = "running" /\ todo # <<>> /\ Works(Head(todo))
    /\ Perform(Head(todo))
    /\ todo' = Tail(todo)
    /\ UNCHANGED <<reading, file, stack, log, status, faults>>

(* A faulty variant of CommandFails: an error ends its file only.            *)
CommandFailsFileOnly ==
    /\ status = "running" /\ todo # <<>>
    /\ \/ ~Works(Head(todo)) /\ UNCHANGED faults
       \/ faults < MaxFaults /\ faults' = faults + 1
    /\ stack' = Tail(stack) /\ todo' = <<>>
    /\ status' = IF Tail(stack) = <<>> THEN "err" ELSE status
    /\ UNCHANGED <<reading, system, file, log>>

(* A command fails, because it must or without a reason of ours, and `?`
   hands the error out through every include.                               *)
CommandFails ==
    /\ status = "running" /\ todo # <<>>
    /\ \/ ~Works(Head(todo)) /\ UNCHANGED faults
       \/ faults < MaxFaults /\ faults' = faults + 1
    /\ status' = "err"
    /\ UNCHANGED <<reading, system, file, stack, todo, log>>

(* A kill, which may hit before or after the command that was running.      *)
Kill ==
    /\ status = "running" /\ faults < MaxFaults
    /\ status' = "err" /\ faults' = faults + 1
    /\ UNCHANGED <<reading, system, file, stack, todo, log>>

Next ==
    \/ \E f \in Starts : Start(f)
    \/ Apply
    \/ Include
    \/ EndFile
    \/ Command
    \/ CommandFails
    \/ Kill

Spec == Init /\ [][Next]_vars

-----------------------------------------------------------------------------
(* The variables have their types; what is mounted or booted is there, and  *)
(* images are unpacked under the roots of the pools that instructions to    *)
(* install one name: the target names, not the temporary ones.              *)
TypeOK ==
    /\ reading \in {"target", "temporary"}
    /\ HostPools \subseteq pools /\ HostDisks \subseteq disks
    /\ \A d \in datasets : d.pool \in pools
    /\ \A b \in bootfs : b[2] \in datasets /\ b[2].pool = b[1]
    /\ \A m \in mounts : m[1] \in datasets
    /\ unpacked \subseteq {Altroot(i.pool) : i \in {w \in Written : w.op = "install_image"}}
    /\ file \in Starts /\ Len(stack) <= MaxDepth
    /\ status \in {"idle", "running", "ok", "err", "overflow"}
    /\ faults \in 0..MaxFaults

(* The instructions of a file with those of the files it includes in their  *)
(* places, includes nested n deep and no deeper.                            *)
Flat[n \in 0..MaxDepth] ==
    [f \in Files |->
        IF n = 0 \/ f \in Unreadable THEN <<>>
        ELSE FlattenSeq([i \in DOMAIN Bundle[f] |->
                IF Bundle[f][i].op = "include" THEN Flat[n - 1][Bundle[f][i].file]
                ELSE <<Bundle[f][i]>>])]

Includes(f, n) ==
    {Bundle[f][i].file : i \in {i \in 1..n : Bundle[f][i].op = "include"}}

(* The instructions begun are those of the files, in the order they are     *)
(* written with includes in their places, none left out, and none after the *)
(* first that fails, be it a command or a file that cannot be read          *)
(* (libinstall/src/lib.rs:651-658).  A run that ends with Ok began all.     *)
DocumentOrder ==
    /\ IsPrefix(log, Flat[MaxDepth][file])
    /\ status = "ok" => /\ log = Flat[MaxDepth][file]
                        /\ Includes(file, Len(Bundle[file])) \cap Unreadable = {}

MadePools == {log[i].name : i \in {i \in DOMAIN log : log[i].op = "create_pool"}}

(* The pools of the running system are left alone, except that a dataset is  *)
(* made in one that an instruction names (libinstall/src/lib.rs:524-532):    *)
(* when pool_name is read as the temporary name, and when it is read as the  *)
(* target's unless the run makes a pool by the name of an imported one.      *)
HostPoolsKept ==
    [][reading = "temporary" \/ MadePools \cap HostPools = {} =>
          \A p \in HostPools :
             /\ {b \in bootfs' : b[1] = p} = {b \in bootfs : b[1] = p}
             /\ \/ {d \in datasets' : d.pool = p} = {d \in datasets : d.pool = p}
                \/ log # <<>> /\ Last(log).op = "create_dataset" /\ Last(log).dataset.pool = p]_vars

(* In either reading and whatever went on before, no run that creates a      *)
(* pool ends with Ok: its boot file system is set on a pool or to a dataset  *)
(* under a name that is not there (libinstall/src/lib.rs:591-593, 496-498).  *)
PoolsNeverFinish ==
    status = "ok" => \A i \in DOMAIN log : log[i].op # "create_pool"
=============================================================================
