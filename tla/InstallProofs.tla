--------------------------- MODULE InstallProofs ---------------------------
(* Proofs about module Install: for every bundle, every host and any number
   of failures and runs.                                                     *)
EXTENDS Install, SequenceTheorems, WellFoundedInduction, TLAPS

Directories == [pool: Seq(Names), path: Seq(Names)]

DiskSets == {i.disks : i \in {w \in Written : w.op = "create_pool"}}

Verbs ==
    {"bail", "zpool create", "create", "create -p", "mkdir", "mount", "zfs set",
     "set bootfs", "activate", "bootadm", "download", "check", "tar"}

CommandType ==
    [do: Verbs, pool: Seq(Names), arg: Directories \cup DiskSets \cup {<<>>}]

(* What the commands of instruction i have in common: no boot file system is
   on the pool it is set on, datasets are made where i says and in the pool
   that must be there, and images are unpacked for the pool i names.         *)
Due(i) ==
    {c \in CommandType :
        /\ c.do = "set bootfs" => c.arg.pool = Installer(c.pool)
        /\ c.do = "create" =>
              i.op = "create_pool" /\ c.arg.pool = PoolName(i) /\ c.arg.pool = c.pool
        /\ c.do = "create -p" =>
              i.op = "create_dataset" /\ c.arg = i.dataset /\ c.arg.pool = c.pool
        /\ c.do = "tar" => i.op = "install_image" /\ c.pool = i.pool}

Fatal(c) == c.do = "bail" \/ (c.do = "set bootfs" /\ c.arg.pool # c.pool)

(* The lists are lists; what is left to do is what the last instruction has
   to do.                                                                    *)
Lists ==
    /\ reading \in {"target", "temporary"}
    /\ stack \in Seq(Seq(Written)) /\ log \in Seq(Written)

Left ==
    todo # <<>> =>
        /\ log # <<>>
        /\ \A i \in Written : i = log[Len(log)] => todo \in Seq(Due(i))

(* A run that began to create a pool has a command before it that fails.     *)
Doomed ==
    status \in {"running", "ok"} /\ (\E n \in DOMAIN log : log[n].op = "create_pool")
        => status = "running" /\ todo # <<>> /\ \E n \in 1..Len(todo) : Fatal(todo[n])

Inv == Lists /\ Left /\ Doomed

-----------------------------------------------------------------------------
(* Commands.                                                                 *)

LEMMA Four ==
  ASSUME NEW S, NEW a \in S, NEW b \in S, NEW c \in S, NEW d \in S
  PROVE  /\ <<a, b, c, d>> \in Seq(S)
         /\ Len(<<a, b, c, d>>) = 4
         /\ <<a, b, c, d>>[1] = a
  OBVIOUS

LEMMA Prepended ==
  ASSUME NEW S, NEW e \in S, NEW s \in Seq(S)
  PROVE  /\ <<e>> \o s \in Seq(S)
         /\ <<e>> \o s # s
         /\ (<<e>> \o s)[1] = e
  OBVIOUS

LEMMA InstallerName ==
  ASSUME NEW p \in Seq(Names)
  PROVE  /\ Installer(p) \in Seq(Names)
         /\ Installer(p) # p
         /\ Installer(p)[1] = "INSTALLER"
<1>1. "INSTALLER" \in Names
  BY InstallAssumption DEF InstallAssumption
<1> QED
  BY <1>1, Prepended DEF Installer

LEMMA DsType ==
  ASSUME NEW p \in Seq(Names), NEW be \in Names
  PROVE  /\ Ds(p, <<"ROOT">>) \in Directories /\ Ds(p, <<"ROOT">>).pool = p
         /\ Ds(p, <<"ROOT", be>>) \in Directories /\ Ds(p, <<"ROOT", be>>).pool = p
<1>1. "ROOT" \in Names
  BY InstallAssumption DEF InstallAssumption
<1>2. <<"ROOT">> \in Seq(Names) /\ <<"ROOT", be>> \in Seq(Names)
  BY <1>1
<1> QED
  BY <1>2 DEF Ds, Directories

LEMMA CmdType ==
  ASSUME NEW i, NEW do \in Verbs, NEW p \in Seq(Names),
         NEW arg \in Directories \cup DiskSets \cup {<<>>},
         do = "set bootfs" => arg.pool = Installer(p),
         do = "create" => i.op = "create_pool" /\ arg.pool = PoolName(i) /\ arg.pool = p,
         do = "create -p" => i.op = "create_dataset" /\ arg = i.dataset /\ arg.pool = p,
         do = "tar" => i.op = "install_image" /\ p = i.pool
  PROVE  Cmd(do, p, arg) \in Due(i)
  BY DEF Cmd, Due, CommandType

LEMMA PoolNameType ==
  ASSUME NEW i, i.name \in Seq(Names)
  PROVE  PoolName(i) \in Seq(Names)
  BY InstallerName DEF PoolName

LEMMA BootableDue ==
  ASSUME NEW i, NEW p \in Seq(Names), NEW be \in Names
  PROVE  /\ MakeBootable(p, be) \in Seq(Due(i))
         /\ Len(MakeBootable(p, be)) = 4
         /\ Fatal(MakeBootable(p, be)[1])
<1> DEFINE beds == Ds(Installer(p), <<"ROOT", be>>)
<1>1. /\ beds \in Directories /\ beds.pool = Installer(p)
      /\ Installer(p) \in Seq(Names) /\ Installer(p) # p
  BY InstallerName, DsType
<1> HIDE DEF beds
<1>2. Cmd("set bootfs", p, beds) \in Due(i)
  BY <1>1, CmdType DEF Verbs
<1>3. Cmd("activate", p, beds) \in Due(i)
  BY <1>1, CmdType DEF Verbs
<1>4. Cmd("bootadm", Installer(p), <<>>) \in Due(i)
  BY <1>1, CmdType DEF Verbs
<1>5. Fatal(Cmd("set bootfs", p, beds))
  BY <1>1 DEF Fatal, Cmd
<1> DEFINE set == Cmd("set bootfs", p, beds)
           activate == Cmd("activate", p, beds)
           bootadm == Cmd("bootadm", Installer(p), <<>>)
<1>6. MakeBootable(p, be) = <<set, activate, bootadm, bootadm>>
  BY DEF MakeBootable, beds
<1> HIDE DEF set, activate, bootadm
<1>7. set \in Due(i) /\ activate \in Due(i) /\ bootadm \in Due(i) /\ Fatal(set)
  BY <1>2, <1>3, <1>4, <1>5 DEF set, activate, bootadm
<1> QED
  BY <1>6, <1>7, Four

LEMMA BeDue ==
  ASSUME NEW i, i.op = "create_pool", i.name \in Seq(Names), NEW be \in Names
  PROVE  /\ CreateBe(PoolName(i), be) \in Seq(Due(i))
         /\ Len(CreateBe(PoolName(i), be)) = 6
<1> DEFINE p == PoolName(i)
           root == Ds(p, <<"ROOT">>)
           beds == Ds(p, <<"ROOT", be>>)
<1>1. p \in Seq(Names)
  BY PoolNameType
<1>2. root \in Directories /\ root.pool = p /\ beds \in Directories /\ beds.pool = p
  BY <1>1, DsType
<1>3. CreateBe(p, be) =
        <<Cmd("create", p, root), Cmd("create", p, beds), Cmd("mkdir", p, <<>>),
          Cmd("mount", p, beds), Cmd("zfs set", p, beds), Cmd("zfs set", p, beds)>>
  BY DEF CreateBe
<1> HIDE DEF root, beds
<1>4. Cmd("create", p, root) \in Due(i) /\ Cmd("create", p, beds) \in Due(i)
  BY <1>1, <1>2, CmdType DEF Verbs
<1>5. Cmd("mkdir", p, <<>>) \in Due(i)
  BY <1>1, CmdType DEF Verbs
<1>6. Cmd("mount", p, beds) \in Due(i)
  BY <1>1, <1>2, CmdType DEF Verbs
<1>7. Cmd("zfs set", p, beds) \in Due(i)
  BY <1>1, <1>2, CmdType DEF Verbs
<1> DEFINE a == Cmd("create", p, root)
           b == Cmd("create", p, beds)
           c == Cmd("mkdir", p, <<>>)
           d == Cmd("mount", p, beds)
           e == Cmd("zfs set", p, beds)
<1>8. CreateBe(p, be) = <<a, b, c, d, e, e>>
  BY <1>3
<1>9. a \in Due(i) /\ b \in Due(i) /\ c \in Due(i) /\ d \in Due(i) /\ e \in Due(i)
  BY <1>4, <1>5, <1>6, <1>7
<1> HIDE DEF p, a, b, c, d, e
<1>10. /\ CreateBe(p, be) \in Seq(Due(i)) /\ Len(CreateBe(p, be)) = 6
  BY <1>8, <1>9
<1> QED
  BY <1>10 DEF p

LEMMA Fields ==
  ASSUME NEW i \in Written
  PROVE  /\ i.op = "create_pool" =>
              i.name \in Seq(Names) /\ i.be \in Names /\ i.disks \in DiskSets
         /\ i.op = "create_dataset" => i.dataset \in Directories
         /\ i.op = "install_image" => i.pool \in Seq(Names)
         /\ i.op = "make_bootable" => i.pool \in Seq(Names) /\ i.be \in Names
         /\ i.op = "include" => i.file \in Files
  BY InstallAssumption DEF InstallAssumption, IsInstruction, DiskSets, Directories

LEMMA Joined ==
  ASSUME NEW S, NEW s \in Seq(S), NEW t \in Seq(S)
  PROVE  /\ s \o t \in Seq(S) /\ Len(s \o t) = Len(s) + Len(t)
         /\ Len(t) > 0 => (s \o t)[Len(s) + 1] = t[1]
  OBVIOUS

LEMMA Alone ==
  ASSUME NEW S, NEW e \in S
  PROVE  <<e>> \in Seq(S) /\ Len(<<e>>) = 1 /\ <<e>>[1] = e
  OBVIOUS

LEMMA CreatePoolDue ==
  ASSUME NEW i \in Written, i.op = "create_pool"
  PROVE  /\ CreatePool(i) \in Seq(Due(i))
         /\ \E n \in 1..Len(CreatePool(i)) : Fatal(CreatePool(i)[n])
<1>1. i.name \in Seq(Names) /\ i.be \in Names /\ i.disks \in DiskSets
  BY Fields
<1>2. CASE i.bails
  <2> DEFINE bail == Cmd("bail", i.name, <<>>)
  <2>1. bail \in Due(i)
    BY <1>1, CmdType DEF Verbs
  <2>2. Fatal(bail)
    BY DEF Fatal, Cmd
  <2>3. CreatePool(i) = <<bail>>
    BY <1>2 DEF CreatePool
  <2> HIDE DEF bail
  <2> QED
    BY <2>1, <2>2, <2>3, Alone
<1>3. CASE ~i.bails
  <2> DEFINE create == Cmd("zpool create", Installer(i.name), i.disks)
             be == CreateBe(PoolName(i), i.be)
             boot == MakeBootable(PoolName(i), i.be)
  <2>1. create \in Due(i)
    BY <1>1, InstallerName, CmdType DEF Verbs
  <2>2. be \in Seq(Due(i)) /\ Len(be) = 6
    BY <1>1, BeDue
  <2>3. boot \in Seq(Due(i)) /\ Len(boot) = 4 /\ Fatal(boot[1])
    BY <1>1, PoolNameType, BootableDue
  <2>4. CreatePool(i) = (<<create>> \o be) \o boot
    BY <1>3 DEF CreatePool
  <2> HIDE DEF create, be, boot
  <2> DEFINE single == <<create>>
             front == single \o be
  <2>5. single \in Seq(Due(i)) /\ Len(single) = 1
    BY <2>1, Alone
  <2> HIDE DEF single
  <2>6. front \in Seq(Due(i)) /\ Len(front) = 7
    <3>1. front \in Seq(Due(i)) /\ Len(front) = Len(single) + Len(be)
      BY <2>2, <2>5, Joined
    <3> QED
      BY <2>2, <2>5, <3>1
  <2>7. CreatePool(i) = front \o boot
    BY <2>4 DEF single
  <2> HIDE DEF front
  <2>8. /\ front \o boot \in Seq(Due(i)) /\ Len(front \o boot) = Len(front) + Len(boot)
        /\ (front \o boot)[Len(front) + 1] = boot[1]
    <3>1. Len(boot) > 0
      BY <2>3
    <3> QED
      BY <2>3, <2>6, <3>1, Joined
  <2>9. Len(front) + 1 \in 1..Len(front \o boot)
    BY <2>3, <2>6, <2>8
  <2> QED
    BY <2>3, <2>7, <2>8, <2>9
<1> QED
  BY <1>2, <1>3

LEMMA CommandsDue ==
  ASSUME NEW i \in Written
  PROVE  /\ Commands(i) \in Seq(Due(i))
         /\ i.op = "create_pool" => \E n \in 1..Len(Commands(i)) : Fatal(Commands(i)[n])
<1>1. CASE i.op = "create_pool"
  BY <1>1, CreatePoolDue DEF Commands
<1>2. CASE i.op = "create_dataset"
  <2> DEFINE create == Cmd("create -p", i.dataset.pool, i.dataset)
  <2>1. i.dataset \in Directories /\ i.dataset.pool \in Seq(Names)
    BY <1>2, Fields DEF Directories
  <2>2. create \in Due(i)
    BY <1>2, <2>1, CmdType DEF Verbs
  <2>3. Commands(i) = <<create>>
    BY <1>2 DEF Commands, CreateDataset
  <2> HIDE DEF create
  <2> QED
    BY <1>2, <2>2, <2>3
<1>3. CASE i.op = "install_image"
  <2> DEFINE download == Cmd("download", i.pool, <<>>)
             check == Cmd("check", i.pool, <<>>)
             tar == Cmd("tar", i.pool, <<>>)
  <2>1. i.pool \in Seq(Names)
    BY <1>3, Fields
  <2>2. download \in Due(i) /\ check \in Due(i)
    BY <2>1, CmdType DEF Verbs
  <2>4. tar \in Due(i)
    BY <1>3, <2>1, CmdType DEF Verbs
  <2>3. Commands(i) = <<download, check, tar>>
    BY <1>3 DEF Commands, InstallImage
  <2> HIDE DEF download, check, tar
  <2> QED
    BY <1>3, <2>2, <2>3, <2>4
<1>4. CASE i.op = "make_bootable"
  BY <1>4, Fields, BootableDue DEF Commands
<1>5. CASE i.op \notin {"create_pool", "create_dataset", "install_image", "make_bootable"}
  <2>1. Commands(i) = <<>>
    BY <1>5 DEF Commands
  <2> QED
    BY <1>5, <2>1
<1> QED
  BY <1>1, <1>2, <1>3, <1>4, <1>5

-----------------------------------------------------------------------------
(* The invariant.                                                            *)

LEMMA InitInv == Init => Inv
<1> SUFFICES ASSUME Init PROVE Inv
  OBVIOUS
<1>1. Lists /\ Left
  BY DEF Init, Lists, Left
<1>2. Doomed
  BY DEF Init, Doomed
<1> QED
  BY <1>1, <1>2 DEF Inv

LEMMA NextLists == Lists /\ [Next]_vars => Lists'
<1> SUFFICES ASSUME Lists, [Next]_vars PROVE Lists'
  OBVIOUS
<1> USE DEF Lists
<1>0. \A f \in Files : Bundle[f] \in Seq(Written)
  BY InstallAssumption DEF InstallAssumption
<1>1. ASSUME NEW f \in Starts, Start(f) PROVE Lists'
  <2>1. Bundle[f] \in Seq(Written)
    BY <1>0, InstallAssumption DEF InstallAssumption
  <2>2. <<Bundle[f]>> \in Seq(Seq(Written)) /\ <<>> \in Seq(Seq(Written))
    BY <2>1, Alone
  <2> QED
    BY <1>1, <2>2 DEF Start
<1>2. CASE stack # <<>> /\ stack[1] # <<>> /\ (Apply \/ Include)
  <2>1. stack[1] \in Seq(Written) /\ Tail(stack) \in Seq(Seq(Written))
    BY <1>2
  <2>2. stack[1][1] \in Written /\ Tail(stack[1]) \in Seq(Written)
    BY <1>2, <2>1
  <2>3. Rest \in Seq(Seq(Written))
    BY <2>1, <2>2, Alone, Joined DEF Rest
  <2>4. CASE Apply
    BY <2>2, <2>3, <2>4 DEF Apply
  <2>5. CASE Include
    <3> DEFINE f == stack[1][1].file
    <3>1. Bundle[f] \in Seq(Written)
      BY <1>0, <2>2, <2>5, Fields DEF Include
    <3>2. <<Bundle[f]>> \o Rest \in Seq(Seq(Written))
      BY <2>3, <3>1, Alone, Joined
    <3> QED
      BY <2>5, <3>2 DEF Include
  <2> QED
    BY <1>2, <2>4, <2>5
<1>3. CASE EndFile
  BY <1>3 DEF EndFile, Running
<1>4. CASE Command
  BY <1>4 DEF Command
<1>5. CASE CommandFails
  BY <1>5 DEF CommandFails
<1>6. CASE Kill
  BY <1>6 DEF Kill
<1>7. CASE UNCHANGED vars
  BY <1>7 DEF vars
<1>8. Apply \/ Include => stack # <<>> /\ stack[1] # <<>>
  BY DEF Apply, Include, Running
<1> QED
  BY <1>1, <1>2, <1>3, <1>4, <1>5, <1>6, <1>7, <1>8 DEF Next

(* The instruction entered is one of the bundle's.                           *)
LEMMA Entered ==
  ASSUME Lists, Apply
  PROVE  /\ stack[1][1] \in Written
         /\ log' = Append(log, stack[1][1]) /\ log' \in Seq(Written)
         /\ log' # <<>> /\ log'[Len(log')] = stack[1][1]
<1>1. stack # <<>> /\ stack[1] # <<>> /\ stack \in Seq(Seq(Written)) /\ log \in Seq(Written)
  BY DEF Lists, Apply, Running
<1>2. stack[1] \in Seq(Written)
  BY <1>1
<1>3. stack[1][1] \in Written
  BY <1>1, <1>2
<1>4. log' = Append(log, stack[1][1])
  BY DEF Apply
<1> QED
  BY <1>1, <1>3, <1>4

LEMMA DueSame ==
  ASSUME NEW i, reading' = reading
  PROVE  Due(i)' = Due(i)
  BY DEF Due, PoolName

LEMMA NextLeft == Lists /\ Left /\ [Next]_vars => Left'
<1> SUFFICES ASSUME Lists, Left, [Next]_vars PROVE Left'
  OBVIOUS
<1>1. ASSUME NEW f \in Starts, Start(f) PROVE Left'
  BY <1>1 DEF Start, Left
<1>2. CASE Apply
  <2>1. reading' = reading /\ todo' = Commands(stack[1][1])
    BY <1>2 DEF Apply
  <2>2. Commands(stack[1][1]) \in Seq(Due(stack[1][1]))
    BY <1>2, Entered, CommandsDue
  <2> SUFFICES ASSUME NEW i \in Written, i = log'[Len(log')]
               PROVE  log' # <<>> /\ todo' \in Seq(Due(i)')
    BY <1>2, Entered DEF Left
  <2> QED
    BY <1>2, <2>1, <2>2, Entered, DueSame
<1>3. CASE Command
  <2>1. reading' = reading /\ log' = log /\ todo # <<>> /\ todo' = Tail(todo)
    BY <1>3 DEF Command
  <2> SUFFICES ASSUME NEW i \in Written, i = log[Len(log)]
               PROVE  todo' \in Seq(Due(i)')
    BY <2>1 DEF Left
  <2>2. todo \in Seq(Due(i))
    BY <2>1 DEF Left
  <2>3. Tail(todo) \in Seq(Due(i))
    BY <2>1, <2>2
  <2> QED
    BY <2>1, <2>3, DueSame
<1>4. ASSUME UNCHANGED <<reading, todo, log>> PROVE Left'
  <2> SUFFICES ASSUME todo # <<>>, NEW i \in Written, i = log[Len(log)]
               PROVE  log # <<>> /\ todo \in Seq(Due(i)')
    BY <1>4 DEF Left
  <2> QED
    BY <1>4, DueSame DEF Left
<1>5. Include \/ EndFile \/ CommandFails \/ Kill \/ UNCHANGED vars
        => UNCHANGED <<reading, todo, log>>
  BY DEF Include, EndFile, CommandFails, Kill, vars
<1> QED
  BY <1>1, <1>2, <1>3, <1>4, <1>5 DEF Next

(* A command that works is not a fatal one.                                  *)
LEMMA FatalFails ==
  ASSUME NEW c, Works(c)
  PROVE  ~Fatal(c)
  BY DEF Works, Fatal

LEMMA FatalAhead ==
  ASSUME NEW S, NEW s \in Seq(S), s # <<>>, ~Fatal(Head(s)),
         NEW n \in 1..Len(s), Fatal(s[n])
  PROVE  Tail(s) # <<>> /\ \E k \in 1..Len(Tail(s)) : Fatal(Tail(s)[k])
<1>1. Head(s) = s[1]
  OBVIOUS
<1>2. n # 1
  BY <1>1
<1>3. n - 1 \in 1..Len(Tail(s)) /\ Tail(s)[n - 1] = s[n]
  BY <1>2
<1>4. Fatal(Tail(s)[n - 1])
  BY <1>3
<1>5. Tail(s) \in Seq(S) /\ Len(Tail(s)) # 0
  BY <1>3
<1>6. Tail(s) # <<>>
  <2> DEFINE t == Tail(s)
  <2>1. t \in Seq(S) /\ Len(t) # 0
    BY <1>5
  <2> HIDE DEF t
  <2>2. t # <<>>
    BY <2>1
  <2> QED
    BY <2>2 DEF t
<1> QED
  BY <1>3, <1>4, <1>6, Zenon

LEMMA NextDoomed == Lists /\ Left /\ Doomed /\ [Next]_vars => Doomed'
<1> SUFFICES ASSUME Lists, Left, Doomed, [Next]_vars PROVE Doomed'
  OBVIOUS
<1>1. ASSUME NEW f \in Starts, Start(f) PROVE Doomed'
  <2>1. log' = <<>>
    BY <1>1 DEF Start
  <2>2. DOMAIN log' = {}
    BY <2>1
  <2> QED
    BY <2>2 DEF Doomed
<1>2. CASE Apply
  <2> DEFINE i == stack[1][1]
  <2>1. status = "running" /\ status' = status /\ todo = <<>> /\ todo' = Commands(i)
    BY <1>2 DEF Apply, Running
  <2>2. i \in Written /\ log' = Append(log, i) /\ log \in Seq(Written)
    BY <1>2, Entered DEF Lists
  <2>3. \A n \in DOMAIN log : log[n].op # "create_pool"
    BY <2>1 DEF Doomed
  <2>4. \A n \in DOMAIN log' : (n \in DOMAIN log /\ log'[n] = log[n]) \/ log'[n] = i
    <3> HIDE DEF i
    <3> QED
      BY <2>2
  <2> SUFFICES ASSUME NEW n \in DOMAIN log', log'[n].op = "create_pool"
               PROVE  todo' # <<>> /\ \E k \in 1..Len(todo') : Fatal(todo'[k])
    BY <2>1 DEF Doomed, Fatal
  <2>5. i.op = "create_pool"
    BY <2>3, <2>4
  <2> HIDE DEF i
  <2>6. Commands(i) \in Seq(Due(i)) /\ \E k \in 1..Len(Commands(i)) : Fatal(Commands(i)[k])
    BY <2>2, <2>5, CommandsDue
  <2>7. Commands(i) # <<>>
    BY <2>6
  <2> QED
    BY <2>1, <2>6, <2>7
<1>3. CASE Command
  <2>1. /\ status = "running" /\ todo # <<>> /\ Works(Head(todo)) /\ todo' = Tail(todo)
        /\ log' = log /\ status' = status
    BY <1>3 DEF Command
  <2>2. log # <<>> /\ log[Len(log)] \in Written
    BY <2>1 DEF Left, Lists
  <2>3. todo \in Seq(Due(log[Len(log)]))
    BY <2>1, <2>2 DEF Left
  <2>4. ~Fatal(Head(todo))
    BY <2>1, FatalFails
  <2> SUFFICES ASSUME NEW m \in DOMAIN log, log[m].op = "create_pool"
               PROVE  todo' # <<>> /\ \E k \in 1..Len(todo') : Fatal(todo'[k])
    BY <2>1 DEF Doomed, Fatal
  <2>5. PICK n \in 1..Len(todo) : Fatal(todo[n])
    BY <2>1 DEF Doomed
  <2>6. Tail(todo) # <<>> /\ \E k \in 1..Len(Tail(todo)) : Fatal(Tail(todo)[k])
    BY <2>1, <2>3, <2>4, <2>5, FatalAhead
  <2> QED
    BY <2>1, <2>6
<1>4. CASE CommandFails \/ Kill
  BY <1>4 DEF CommandFails, Kill, Doomed
<1>5. CASE Include
  BY <1>5 DEF Include, Doomed, Fatal
<1>6. CASE EndFile
  BY <1>6 DEF EndFile, Running, Doomed
<1>7. CASE UNCHANGED vars
  BY <1>7 DEF vars, Doomed, Fatal
<1> QED
  BY <1>1, <1>2, <1>3, <1>4, <1>5, <1>6, <1>7 DEF Next

LEMMA Working ==
  ASSUME Lists, Left, Command
  PROVE  /\ log # <<>> /\ log[Len(log)] \in Written
         /\ Head(todo) \in Due(log[Len(log)])
<1>1. todo # <<>>
  BY DEF Command
<1>2. log # <<>> /\ log[Len(log)] \in Written
  BY <1>1 DEF Left, Lists
<1>3. todo \in Seq(Due(log[Len(log)]))
  BY <1>1, <1>2 DEF Left
<1> QED
  BY <1>1, <1>2, <1>3

LEMMA NextInv == Inv /\ [Next]_vars => Inv'
  BY NextLists, NextLeft, NextDoomed DEF Inv

LEMMA SpecInv == Spec => []Inv
<1> QED
  BY InitInv, NextInv, PTL DEF Spec

-----------------------------------------------------------------------------
(* In either reading of pool_name, no run that creates a pool ends with Ok   *)
(* (libinstall/src/lib.rs:591-593, 496-498): the commands of create_pool     *)
(* hold one that bails or sets a boot file system that is not on the pool.   *)
THEOREM PoolsNeverFinishHolds == Spec => []PoolsNeverFinish
<1>1. Inv => PoolsNeverFinish
  BY DEF Inv, Doomed, PoolsNeverFinish
<1> QED
  BY <1>1, SpecInv, PTL

(* A command that works sets no boot file system at all, and makes datasets
   only in a pool that is not the host's or that its instruction names.      *)
LEMMA BootfsKept ==
  ASSUME Lists, Left, Command
  PROVE  bootfs' = bootfs
<1> DEFINE c == Head(todo)
<1>1. c \in Due(log[Len(log)]) /\ Works(c)
  BY Working DEF Command
<1>2. c.pool \in Seq(Names) /\ (c.do = "set bootfs" => c.arg.pool = Installer(c.pool))
  BY <1>1 DEF Due, CommandType
<1>3. c.do # "set bootfs"
  BY <1>1, <1>2, InstallerName DEF Works
<1> QED
  BY <1>3 DEF Command, Perform

LEMMA CreatedElsewhere ==
  ASSUME Lists, Left, Command, Head(todo).do = "create",
         reading = "temporary" \/ MadePools \cap HostPools = {}
  PROVE  Head(todo).arg.pool \notin HostPools
<1> DEFINE i == log[Len(log)]
<1>1. i \in Written /\ i.op = "create_pool" /\ Head(todo).arg.pool = PoolName(i)
  BY Working DEF Due
<1>2. i.name \in Seq(Names)
  BY <1>1, Fields
<1>3. Len(log) \in DOMAIN log
  BY Working DEF Lists
<1>4. i.name \in MadePools
  BY <1>1, <1>3 DEF MadePools
<1>5. \A p \in HostPools : p[1] # "INSTALLER"
  BY InstallAssumption DEF InstallAssumption
<1>6. CASE reading = "temporary"
  <2>1. PoolName(i) = Installer(i.name)
    BY <1>6 DEF PoolName
  <2> QED
    BY <1>1, <1>2, <1>5, <2>1, InstallerName
<1>7. CASE reading = "target" /\ MadePools \cap HostPools = {}
  <2>1. PoolName(i) = i.name
    BY <1>7 DEF PoolName
  <2> QED
    BY <1>1, <1>4, <1>7, <2>1
<1> QED
  BY <1>6, <1>7 DEF Lists

LEMMA AncestryPool ==
  ASSUME NEW d
  PROVE  \A e \in Ancestry(d) : e.pool = d.pool
  BY DEF Ancestry, Ds

LEMMA DatasetsKept ==
  ASSUME Lists, Left, Command, NEW p \in HostPools,
         reading = "temporary" \/ MadePools \cap HostPools = {}
  PROVE  \/ {d \in datasets' : d.pool = p} = {d \in datasets : d.pool = p}
         \/ log # <<>> /\ Last(log).op = "create_dataset" /\ Last(log).dataset.pool = p
<1> DEFINE c == Head(todo)
<1>0. datasets' = CASE c.do = "create" -> datasets \cup {c.arg}
                    [] c.do = "create -p" -> datasets \cup Ancestry(c.arg)
                    [] OTHER -> datasets
  BY DEF Command, Perform
<1>1. CASE c.do = "create"
  <2>1. datasets' = datasets \cup {c.arg}
    BY <1>0, <1>1
  <2>2. c.arg.pool # p
    BY <1>1, CreatedElsewhere
  <2> QED
    BY <2>1, <2>2
<1>2. CASE c.do = "create -p"
  <2>1. datasets' = datasets \cup Ancestry(c.arg)
    BY <1>0, <1>2
  <2>2. /\ log # <<>> /\ Last(log).op = "create_dataset" /\ c.arg = Last(log).dataset
    BY <1>2, Working DEF Due, Last
  <2>3. \A e \in Ancestry(c.arg) : e.pool = c.arg.pool
    BY AncestryPool
  <2>4. CASE c.arg.pool = p
    BY <2>2, <2>4
  <2>5. CASE c.arg.pool # p
    BY <2>1, <2>3, <2>5
  <2> QED
    BY <2>4, <2>5
<1>3. CASE c.do \notin {"create", "create -p"}
  <2>1. datasets' = datasets
    BY <1>0, <1>3
  <2> QED
    BY <2>1
<1> QED
  BY <1>1, <1>2, <1>3

(* The pools of the running system are left alone, but for a dataset that an *)
(* instruction names (libinstall/src/lib.rs:524-532), whenever pool_name is  *)
(* not the name of an imported pool.                                         *)
THEOREM HostPoolsKeptHolds == Spec => HostPoolsKept
<1> DEFINE Kept ==
      reading = "temporary" \/ MadePools \cap HostPools = {} =>
          \A p \in HostPools :
             /\ {b \in bootfs' : b[1] = p} = {b \in bootfs : b[1] = p}
             /\ \/ {d \in datasets' : d.pool = p} = {d \in datasets : d.pool = p}
                \/ log # <<>> /\ Last(log).op = "create_dataset" /\ Last(log).dataset.pool = p
<1>1. Inv /\ [Next]_vars => [Kept]_vars
  <2> SUFFICES ASSUME Inv, [Next]_vars PROVE Kept
    OBVIOUS
  <2>1. CASE Command
    BY <2>1, BootfsKept, DatasetsKept DEF Inv
  <2>2. CASE UNCHANGED <<bootfs, datasets>>
    BY <2>2
  <2>3. Command \/ UNCHANGED <<bootfs, datasets>>
    BY DEF Next, Start, Apply, Include, EndFile, CommandFails, Kill, vars, system
  <2> QED
    BY <2>1, <2>2, <2>3
<1> QED
  BY <1>1, SpecInv, PTL DEF Spec, HostPoolsKept

-----------------------------------------------------------------------------
(* Types.  No boot file system is ever set, so none is set that is not there. *)
Types == TypeOK /\ bootfs = {}

LEMMA InitTypes == Init => Types
<1> SUFFICES ASSUME Init PROVE Types
  OBVIOUS
<1>1. /\ \A d \in HostDatasets : d.pool \in HostPools
      /\ MaxDepth \in Nat \ {0} /\ MaxFaults \in Nat
  BY InstallAssumption DEF InstallAssumption
<1>2. Len(stack) <= MaxDepth /\ faults \in 0..MaxFaults
  BY <1>1 DEF Init
<1> QED
  BY <1>1, <1>2 DEF Init, Types, TypeOK

LEMMA CommandTypes == Lists /\ Left /\ Types /\ Command => Types'
<1> SUFFICES ASSUME Lists, Left, Types, Command PROVE Types'
  OBVIOUS
<1> DEFINE c == Head(todo)
           i == log[Len(log)]
<1>1. i \in Written /\ c \in Due(i) /\ Works(c) /\ Perform(c)
  BY Working DEF Command
<1>2. UNCHANGED <<reading, file, stack, status, faults>>
  BY DEF Command
<1>3. bootfs' = {}
  BY BootfsKept DEF Types
<1> HIDE DEF c, i
<1>4. HostPools \subseteq pools' /\ HostDisks \subseteq disks' /\ pools \subseteq pools'
  BY <1>1 DEF Types, TypeOK, Perform
<1>5. datasets \subseteq datasets' /\ \A d \in datasets' : d.pool \in pools'
  <2>0. \A d \in datasets : d.pool \in pools'
    BY <1>4 DEF Types, TypeOK
  <2>1. CASE c.do = "create"
    <3>1. datasets' = datasets \cup {c.arg} /\ c.arg.pool = c.pool /\ c.pool \in pools
      BY <1>1, <2>1 DEF Perform, Works, Due
    <3> QED
      BY <1>4, <2>0, <3>1
  <2>2. CASE c.do = "create -p"
    <3>1. /\ datasets' = datasets \cup Ancestry(c.arg)
          /\ c.arg.pool = c.pool /\ c.pool \in pools
      BY <1>1, <2>2 DEF Perform, Works, Due
    <3> QED
      BY <1>4, <2>0, <3>1, AncestryPool
  <2>3. CASE c.do \notin {"create", "create -p"}
    <3>1. datasets' = datasets
      BY <1>1, <2>3 DEF Perform
    <3> QED
      BY <2>0, <3>1
  <2> QED
    BY <2>1, <2>2, <2>3
<1>6. \A m \in mounts' : m[1] \in datasets'
  <2>1. CASE c.do = "mount"
    <3>1. c.arg \in datasets /\ mounts' = mounts \cup {<<c.arg, MountPoint(c.arg)>>}
      BY <1>1, <2>1 DEF Works, Perform
    <3> QED
      BY <1>5, <3>1 DEF Types, TypeOK
  <2>2. CASE c.do # "mount"
    BY <1>1, <1>5, <2>2 DEF Perform, Types, TypeOK
  <2> QED
    BY <2>1, <2>2
<1>7. unpacked' \subseteq {Altroot(w.pool) : w \in {v \in Written : v.op = "install_image"}}
  <2>1. CASE c.do = "tar"
    <3>1. unpacked' = unpacked \cup {Altroot(i.pool)} /\ i.op = "install_image"
      BY <1>1, <2>1 DEF Perform, Due
    <3> QED
      BY <1>1, <3>1 DEF Types, TypeOK
  <2>2. CASE c.do # "tar"
    BY <1>1, <2>2 DEF Perform, Types, TypeOK
  <2> QED
    BY <2>1, <2>2
<1> QED
  BY <1>2, <1>3, <1>4, <1>5, <1>6, <1>7 DEF Types, TypeOK

(* The other steps leave the system alone: what can go wrong is the depth of
   the stack, and the bound on faults.                                       *)
LEMMA NextTypes == Lists /\ Left /\ Types /\ [Next]_vars => Types'
<1> SUFFICES ASSUME Lists, Left, Types, [Next]_vars PROVE Types'
  OBVIOUS
<1>1. /\ MaxDepth \in Nat \ {0} /\ MaxFaults \in Nat
      /\ stack \in Seq(Seq(Written)) /\ Len(stack) <= MaxDepth /\ faults \in 0..MaxFaults
  BY InstallAssumption DEF InstallAssumption, Lists, Types, TypeOK
<1>2. ASSUME UNCHANGED <<reading, system>>, file' \in Starts,
             Len(stack') <= MaxDepth, faults' \in 0..MaxFaults,
             status' \in {"idle", "running", "ok", "err", "overflow"}
      PROVE  Types'
  BY <1>2 DEF Types, TypeOK, system
<1>3. ASSUME NEW f \in Starts, Start(f) PROVE Types'
  <2>1. Len(stack') <= MaxDepth
    BY <1>1, <1>3 DEF Start
  <2> QED
    BY <1>1, <1>2, <1>3, <2>1 DEF Start
<1>4. CASE Command
  BY <1>4, CommandTypes
<1>5. ASSUME Apply \/ Include PROVE Types'
  <2>1. stack # <<>> /\ stack[1] # <<>>
    BY <1>5 DEF Apply, Include, Running
  <2>2. Rest \in Seq(Seq(Written)) /\ Len(Rest) = Len(stack)
    <3>1. Tail(stack) \in Seq(Seq(Written)) /\ Len(Tail(stack)) = Len(stack) - 1
      BY <1>1, <2>1
    <3>2. Tail(stack[1]) \in Seq(Written)
      BY <1>1, <2>1
    <3> DEFINE t == Tail(stack[1])
               s == Tail(stack)
    <3>3. <<t>> \in Seq(Seq(Written)) /\ Len(<<t>>) = 1
      BY <3>2, Alone
    <3> HIDE DEF t, s
    <3>4. <<t>> \o s \in Seq(Seq(Written)) /\ Len(<<t>> \o s) = 1 + Len(s)
      BY <3>1, <3>3, Joined DEF s
    <3> QED
      BY <1>1, <3>1, <3>4 DEF Rest, t, s
  <2>3. CASE Apply
    BY <1>1, <1>2, <2>2, <2>3 DEF Apply, Types, TypeOK
  <2>4. CASE Include
    <3> DEFINE f == stack[1][1].file
    <3>1. stack' = stack \/ (Len(stack) # MaxDepth /\ stack' = <<Bundle[f]>> \o Rest)
      BY <2>4 DEF Include
    <3>2. Len(stack') <= MaxDepth
      <4>1. CASE stack' = stack
        BY <1>1, <4>1
      <4>2. CASE Len(stack) # MaxDepth /\ stack' = <<Bundle[f]>> \o Rest
        <5>1. Len(<<Bundle[f]>> \o Rest) = 1 + Len(Rest)
          BY <2>2
        <5> QED
          BY <1>1, <2>2, <4>2, <5>1
      <4> QED
        BY <3>1, <4>1, <4>2
    <3>3. status' \in {"running", "err", "overflow"} /\ UNCHANGED <<reading, system, file, faults>>
      BY <2>4 DEF Include, Running
    <3> QED
      BY <1>1, <1>2, <3>2, <3>3 DEF Types, TypeOK
  <2> QED
    BY <1>5, <2>3, <2>4
<1>6. CASE EndFile
  <2>1. Len(stack') <= MaxDepth
    <3>1. stack # <<>> /\ stack' = Tail(stack)
      BY <1>6 DEF EndFile, Running
    <3> QED
      BY <1>1, <3>1
  <2> QED
    BY <1>1, <1>2, <1>6, <2>1 DEF EndFile, Types, TypeOK
<1>7. CASE CommandFails \/ Kill
  <2>1. faults' \in 0..MaxFaults
    BY <1>1, <1>7 DEF CommandFails, Kill
  <2>2. status' = "err" /\ UNCHANGED <<reading, system, file, stack>>
    BY <1>7 DEF CommandFails, Kill
  <2> QED
    BY <1>1, <1>2, <2>1, <2>2 DEF Types, TypeOK
<1>8. CASE UNCHANGED vars
  BY <1>1, <1>2, <1>8 DEF vars, system, Types, TypeOK
<1> QED
  BY <1>3, <1>4, <1>5, <1>6, <1>7, <1>8 DEF Next

(* Whatever runs went on before: what is mounted is there, every dataset is  *)
(* in a pool that is imported, the host's pools stay imported, and an image  *)
(* goes where the instruction that installs it says                          *)
(* (libinstall/src/lib.rs:596-601, 632-646, 700-732).                        *)
THEOREM InstallTypeCorrect == Spec => []TypeOK
<1>1. Inv /\ Types /\ [Next]_vars => Types'
  BY NextTypes DEF Inv
<1>2. Types => TypeOK
  BY DEF Types
<1> QED
  BY <1>1, <1>2, SpecInv, InitTypes, PTL DEF Spec

-----------------------------------------------------------------------------
(* Sequences of sequences, one after the other.                              *)

(* Induction over the numbers, for a set of them.                            *)
LEMMA AllNumbers ==
  ASSUME NEW S \in SUBSET Nat, 0 \in S, \A n \in S : n + 1 \in S
  PROVE  S = Nat
<1> DEFINE T == Nat \ S
           R == OpToRel(<, Nat)
<1> SUFFICES ASSUME T # {} PROVE FALSE
  OBVIOUS
<1>1. IsWellFoundedOn(R, Nat)
  BY NatLessThanWellFounded
<1>2. \A a, b \in Nat : a < b => <<a, b>> \in R
  BY DEF OpToRel
<1> HIDE DEF R
<1>3. PICK x \in T : \A y \in T : ~ (<<y, x>> \in R)
  BY <1>1, WFMin
<1>4. x # 0 /\ x - 1 \in Nat
  OBVIOUS
<1>5. x - 1 \in T
  BY <1>4
<1>6. <<x - 1, x>> \in R
  BY <1>2, <1>4
<1> HIDE DEF T
<1> QED
  BY <1>3, <1>5, <1>6

(* FlattenSeq adds one sequence after the other.                             *)
Joins(g, ss, n) ==
    g = [i \in 1..n |-> IF i = 1 THEN ss[i] ELSE g[i - 1] \o ss[i]]

LEMMA JoinsExists ==
  ASSUME NEW ss, NEW n \in Nat
  PROVE  \E g : Joins(g, ss, n)
<1> DEFINE T == {m \in Nat : \E g : Joins(g, ss, m)}
<1>1. 0 \in T
  <2> DEFINE g == [i \in 1..0 |-> ss[i]]
  <2>1. Joins(g, ss, 0)
    BY DEF Joins
  <2> QED
    BY <2>1
<1>2. ASSUME NEW m \in T PROVE m + 1 \in T
  <2>1. PICK g : Joins(g, ss, m)
    OBVIOUS
  <2> DEFINE h == [i \in 1..(m + 1) |-> IF i = 1 THEN ss[i] ELSE g[i - 1] \o ss[i]]
  <2>0. m \in Nat
    OBVIOUS
  <2>1a. g = [i \in 1..m |-> IF i = 1 THEN ss[i] ELSE g[i - 1] \o ss[i]]
    BY <2>1 DEF Joins
  <2>1b. \A i \in 1..m : g[i] = IF i = 1 THEN ss[i] ELSE g[i - 1] \o ss[i]
    <3> DEFINE k == [i \in 1..m |-> IF i = 1 THEN ss[i] ELSE g[i - 1] \o ss[i]]
    <3>1. \A i \in 1..m : k[i] = IF i = 1 THEN ss[i] ELSE g[i - 1] \o ss[i]
      OBVIOUS
    <3>2. g = k
      BY <2>1a
    <3> HIDE DEF k
    <3> QED
      BY <3>1, <3>2
  <2>1c. \A i \in 1..(m + 1) : h[i] = IF i = 1 THEN ss[i] ELSE g[i - 1] \o ss[i]
    OBVIOUS
  <2>4. h = [i \in 1..(m + 1) |-> h[i]]
    OBVIOUS
  <2> HIDE DEF h
  <2>2. \A i \in 1..m : h[i] = g[i]
    BY <2>0, <2>1b, <2>1c
  <2>3. \A i \in 1..(m + 1) : h[i] = IF i = 1 THEN ss[i] ELSE h[i - 1] \o ss[i]
    <3> SUFFICES ASSUME NEW i \in 1..(m + 1), i # 1 PROVE h[i] = h[i - 1] \o ss[i]
      BY <2>1c
    <3>1. i - 1 \in 1..m
      BY <2>0
    <3> QED
      BY <2>1c, <2>2, <3>1
  <2>5. Joins(h, ss, m + 1)
    BY <2>3, <2>4 DEF Joins
  <2> QED
    BY <2>5
<1> HIDE DEF T
<1>3. T = Nat
  <2>1. T \in SUBSET Nat
    BY DEF T
  <2> QED
    BY <1>1, <1>2, <2>1, AllNumbers
<1> QED
  BY <1>3 DEF T

LEMMA FlattenJoins ==
  ASSUME NEW ss, Len(ss) \in Nat \ {0}
  PROVE  \E g : Joins(g, ss, Len(ss)) /\ FlattenSeq(ss) = g[Len(ss)]
<1> DEFINE g == CHOOSE g : Joins(g, ss, Len(ss))
<1>1. Joins(g, ss, Len(ss))
  BY JoinsExists
<1>2. FlattenSeq(ss) = g[Len(ss)]
  BY DEF FlattenSeq, Joins
<1> QED
  BY <1>1, <1>2

(* Induction from 1 to n.                                                    *)
LEMMA UpTo ==
  ASSUME NEW n \in Nat, NEW S, n > 0 => 1 \in S, \A i \in 1..(n - 1) : i \in S => i + 1 \in S
  PROVE  1..n \subseteq S
<1> DEFINE T == {i \in Nat : i \in 1..n => i \in S}
<1>1. 0 \in T
  OBVIOUS
<1>2. ASSUME NEW i \in T PROVE i + 1 \in T
  <2>1. i \in Nat /\ (i \in 1..n => i \in S)
    OBVIOUS
  <2>2. ASSUME i + 1 \in 1..n, i = 0 PROVE i + 1 \in S
    BY <2>1, <2>2
  <2>3. ASSUME i + 1 \in 1..n, i # 0 PROVE i + 1 \in S
    <3>1. i \in 1..(n - 1) /\ i \in 1..n
      BY <2>1, <2>3
    <3> QED
      BY <2>1, <3>1
  <2> QED
    BY <2>1, <2>2, <2>3
<1> HIDE DEF T
<1>3. T = Nat
  <2>1. T \in SUBSET Nat
    BY DEF T
  <2> QED
    BY <1>1, <1>2, <2>1, AllNumbers
<1> QED
  BY <1>3 DEF T

LEMMA JoinsAt ==
  ASSUME NEW g, NEW ss, NEW n \in Nat, Joins(g, ss, n)
  PROVE  /\ n > 0 => g[1] = ss[1]
         /\ \A i \in 1..(n - 1) : g[i + 1] = g[i] \o ss[i + 1]
<1> DEFINE k == [j \in 1..n |-> IF j = 1 THEN ss[j] ELSE g[j - 1] \o ss[j]]
<1>1. \A j \in 1..n : k[j] = IF j = 1 THEN ss[j] ELSE g[j - 1] \o ss[j]
  OBVIOUS
<1>2. g = k
  BY DEF Joins
<1> HIDE DEF k
<1>3. n > 0 => g[1] = ss[1]
  BY <1>1, <1>2
<1>4. ASSUME NEW i \in 1..(n - 1) PROVE g[i + 1] = g[i] \o ss[i + 1]
  <2>1. i + 1 \in 1..n /\ i + 1 # 1 /\ (i + 1) - 1 = i
    OBVIOUS
  <2>2. k[i + 1] = IF i + 1 = 1 THEN ss[i + 1] ELSE g[(i + 1) - 1] \o ss[i + 1]
    BY <1>1, <2>1
  <2> QED
    BY <1>2, <2>1, <2>2
<1> QED
  BY <1>3, <1>4

LEMMA JoinsType ==
  ASSUME NEW S, NEW ss \in Seq(Seq(S)), NEW g, Joins(g, ss, Len(ss))
  PROVE  \A i \in 1..Len(ss) : g[i] \in Seq(S)
<1> DEFINE n == Len(ss)
           T == {i \in 1..n : g[i] \in Seq(S)}
<1>1. n \in Nat /\ \A i \in 1..n : ss[i] \in Seq(S)
  OBVIOUS
<1> HIDE DEF n
<1>2. /\ n > 0 => g[1] = ss[1]
      /\ \A i \in 1..(n - 1) : g[i + 1] = g[i] \o ss[i + 1]
  BY <1>1, JoinsAt DEF n
<1>3. n > 0 => 1 \in T
  BY <1>1, <1>2
<1>4. ASSUME NEW i \in 1..(n - 1), i \in T PROVE i + 1 \in T
  <2>1. i \in 1..n /\ i + 1 \in 1..n
    BY <1>1
  <2>4. g[i + 1] = g[i] \o ss[i + 1]
    BY <1>2
  <2>2. g[i] \in Seq(S) /\ ss[i + 1] \in Seq(S)
    BY <1>1, <1>4, <2>1
  <2>3. g[i] \o ss[i + 1] \in Seq(S)
    BY <2>2
  <2> QED
    BY <2>1, <2>3, <2>4
<1> HIDE DEF T
<1>5. 1..n \subseteq T
  BY <1>1, <1>3, <1>4, UpTo
<1> QED
  BY <1>5 DEF T, n

LEMMA FlattenType ==
  ASSUME NEW S, NEW ss \in Seq(Seq(S))
  PROVE  FlattenSeq(ss) \in Seq(S)
<1>1. CASE Len(ss) = 0
  BY <1>1 DEF FlattenSeq
<1>2. CASE Len(ss) # 0
  <2>1. Len(ss) \in Nat \ {0} /\ Len(ss) \in 1..Len(ss)
    BY <1>2
  <2> QED
    BY <2>1, FlattenJoins, JoinsType
<1> QED
  BY <1>1, <1>2

LEMMA FlattenEmpty == FlattenSeq(<<>>) = <<>>
  BY DEF FlattenSeq

LEMMA FlattenFirst ==
  ASSUME NEW S, NEW ss \in Seq(Seq(S)), ss # <<>>
  PROVE  FlattenSeq(ss) = ss[1] \o FlattenSeq(Tail(ss))
<1> DEFINE n == Len(ss)
           t == Tail(ss)
<1>1. /\ n \in Nat \ {0} /\ \A i \in 1..n : ss[i] \in Seq(S)
      /\ t \in Seq(Seq(S)) /\ Len(t) = n - 1 /\ \A i \in 1..(n - 1) : t[i] = ss[i + 1]
  OBVIOUS
<1>2. PICK g : Joins(g, ss, n) /\ FlattenSeq(ss) = g[n]
  BY <1>1, FlattenJoins
<1> HIDE DEF n, t
<1>3. g[1] = ss[1] /\ \A i \in 1..(n - 1) : g[i + 1] = g[i] \o ss[i + 1]
  <2>1. n \in Nat /\ n > 0
    BY <1>1
  <2> QED
    BY <1>2, <2>1, JoinsAt, Zenon
<1>4. CASE n = 1
  <2>1. t = <<>>
    BY <1>1, <1>4
  <2>2. FlattenSeq(t) = <<>>
    BY <2>1, FlattenEmpty
  <2>3. ss[1] \o <<>> = ss[1]
    BY <1>1, <1>4
  <2> QED
    BY <1>2, <1>3, <1>4, <2>2, <2>3 DEF t
<1>5. CASE n # 1
  <2>1. n - 1 \in Nat \ {0} /\ Len(t) = n - 1
    BY <1>1, <1>5
  <2>2. PICK h : Joins(h, t, n - 1) /\ FlattenSeq(t) = h[n - 1]
    BY <1>1, <2>1, FlattenJoins
  <2>3. \A i \in 1..(n - 1) : h[i] \in Seq(S)
    BY <1>1, <2>1, <2>2, JoinsType
  <2>4. h[1] = t[1] /\ \A i \in 1..((n - 1) - 1) : h[i + 1] = h[i] \o t[i + 1]
    <3>1. n - 1 \in Nat /\ n - 1 > 0
      BY <1>1, <2>1
    <3> DEFINE m == n - 1
    <3>2. m \in Nat /\ m > 0 /\ Joins(h, t, m)
      BY <2>2, <3>1
    <3> HIDE DEF m
    <3>3. h[1] = t[1] /\ \A i \in 1..(m - 1) : h[i + 1] = h[i] \o t[i + 1]
      BY <3>2, JoinsAt, Zenon
    <3> QED
      BY <3>3 DEF m
  <2> DEFINE T == {i \in 1..(n - 1) : g[i + 1] = ss[1] \o h[i]}
  <2>5. 1 \in T
    <3>1. 1 \in 1..(n - 1) /\ t[1] = ss[1 + 1]
      BY <1>1, <2>1
    <3> QED
      BY <1>3, <2>4, <3>1
  <2>6. ASSUME NEW i \in 1..((n - 1) - 1), i \in T PROVE i + 1 \in T
    <3>1. i \in 1..(n - 1) /\ i + 1 \in 1..(n - 1) /\ 1 \in 1..n
      BY <1>1, <2>1
    <3>2. g[(i + 1) + 1] = g[i + 1] \o ss[(i + 1) + 1]
      BY <1>3, <3>1
    <3>3. t[i + 1] = ss[(i + 1) + 1] /\ t[i + 1] \in Seq(S) /\ ss[1] \in Seq(S)
      BY <1>1, <2>1, <3>1
    <3>4. g[i + 1] = ss[1] \o h[i] /\ h[i] \in Seq(S) /\ h[i + 1] = h[i] \o t[i + 1]
      BY <2>3, <2>4, <2>6, <3>1
    <3>5. (ss[1] \o h[i]) \o t[i + 1] = ss[1] \o (h[i] \o t[i + 1])
      <4> DEFINE a == ss[1]
                 b == h[i]
                 c == t[i + 1]
      <4>1. a \in Seq(S) /\ b \in Seq(S) /\ c \in Seq(S)
        BY <3>3, <3>4
      <4> HIDE DEF a, b, c
      <4>2. (a \o b) \o c = a \o (b \o c)
        BY <4>1, ConcatAssociative
      <4> QED
        BY <4>2 DEF a, b, c
    <3>6. g[(i + 1) + 1] = ss[1] \o h[i + 1]
      BY <3>2, <3>3, <3>4, <3>5
    <3> QED
      BY <3>1, <3>6
  <2> HIDE DEF T
  <2>7. 1..(n - 1) \subseteq T
    BY <2>1, <2>5, <2>6, UpTo
  <2>8. n - 1 \in 1..(n - 1) /\ (n - 1) + 1 = n
    BY <1>1, <2>1
  <2>9. g[(n - 1) + 1] = ss[1] \o h[n - 1]
    BY <2>7, <2>8 DEF T
  <2> QED
    BY <1>2, <2>2, <2>8, <2>9 DEF t
<1> QED
  BY <1>4, <1>5

-----------------------------------------------------------------------------
(* Files with what they include.                                             *)

(* What an include stands for, n files deep at the most.                     *)
Expanded(s, n) ==
    [i \in DOMAIN s |-> IF s[i].op = "include" THEN Flat[n - 1][s[i].file] ELSE <<s[i]>>]
Flattened(s, n) == FlattenSeq(Expanded(s, n))

(* Flat at a depth, by the one before; and up to a depth.                    *)
FlatOf(g, n) ==
    [f \in Files |->
       IF n = 0 \/ f \in Unreadable THEN <<>>
       ELSE FlattenSeq([i \in DOMAIN Bundle[f] |->
               IF Bundle[f][i].op = "include" THEN g[n - 1][Bundle[f][i].file]
               ELSE <<Bundle[f][i]>>])]

Flattens(g, m) == g = [n \in 0..m |-> FlatOf(g, n)]

LEMMA FlatOfSame ==
  ASSUME NEW g, NEW h, NEW n, n # 0 => g[n - 1] = h[n - 1]
  PROVE  FlatOf(g, n) = FlatOf(h, n)
<1>1. CASE n = 0
  BY <1>1 DEF FlatOf
<1>2. CASE n # 0
  <2>1. g[n - 1] = h[n - 1]
    BY <1>2
  <2> QED
    BY <2>1 DEF FlatOf
<1> QED
  BY <1>1, <1>2

LEMMA FlattensExists ==
  ASSUME NEW m \in Nat
  PROVE  \E g : Flattens(g, m)
<1> DEFINE T == {k \in Nat : \E g : Flattens(g, k)}
<1>1. 0 \in T
  <2> DEFINE g == [n \in 0..0 |-> FlatOf(<<>>, n)]
  <2>1. \A n \in 0..0 : FlatOf(g, n) = FlatOf(<<>>, n)
    <3> HIDE DEF g
    <3> QED
      BY FlatOfSame
  <2>2. g = [n \in 0..0 |-> FlatOf(g, n)]
    BY <2>1
  <2> HIDE DEF g
  <2>3. Flattens(g, 0)
    BY <2>2 DEF Flattens
  <2> QED
    BY <2>3
<1>2. ASSUME NEW k \in T PROVE k + 1 \in T
  <2>1. k \in Nat
    OBVIOUS
  <2>2. PICK g : Flattens(g, k)
    OBVIOUS
  <2>3. g = [n \in 0..k |-> FlatOf(g, n)]
    BY <2>2 DEF Flattens
  <2> DEFINE e == [n \in 0..k |-> FlatOf(g, n)]
             h == [n \in 0..(k + 1) |-> FlatOf(g, n)]
  <2>4. \A n \in 0..k : e[n] = FlatOf(g, n)
    OBVIOUS
  <2>5. \A n \in 0..(k + 1) : h[n] = FlatOf(g, n)
    OBVIOUS
  <2>6. h = [n \in 0..(k + 1) |-> h[n]]
    OBVIOUS
  <2>7. g = e
    BY <2>3
  <2> HIDE DEF e, h
  <2>8. \A n \in 0..k : g[n] = h[n]
    BY <2>1, <2>4, <2>5, <2>7
  <2>9. \A n \in 0..(k + 1) : FlatOf(g, n) = FlatOf(h, n)
    <3> SUFFICES ASSUME NEW n \in 0..(k + 1) PROVE FlatOf(g, n) = FlatOf(h, n)
      OBVIOUS
    <3>1. n # 0 => g[n - 1] = h[n - 1]
      BY <2>1, <2>8
    <3> QED
      BY <3>1, FlatOfSame
  <2>10. h = [n \in 0..(k + 1) |-> FlatOf(h, n)]
    BY <2>5, <2>6, <2>9
  <2>11. Flattens(h, k + 1)
    BY <2>10 DEF Flattens
  <2> QED
    BY <2>1, <2>11
<1> HIDE DEF T
<1>3. T = Nat
  <2>1. T \in SUBSET Nat
    BY DEF T
  <2> QED
    BY <1>1, <1>2, <2>1, AllNumbers
<1> QED
  BY <1>3 DEF T

LEMMA FlatForm ==
  ASSUME NEW n \in 0..MaxDepth
  PROVE  Flat[n] = FlatOf(Flat, n)
<1>1. MaxDepth \in Nat
  BY InstallAssumption DEF InstallAssumption
<1>2. Flat = CHOOSE g : Flattens(g, MaxDepth)
  BY DEF Flat, Flattens, FlatOf
<1>3. Flattens(Flat, MaxDepth)
  BY <1>1, <1>2, FlattensExists
<1>4. Flat = [k \in 0..MaxDepth |-> FlatOf(Flat, k)]
  BY <1>3 DEF Flattens
<1> DEFINE e == [k \in 0..MaxDepth |-> FlatOf(Flat, k)]
<1>5. e[n] = FlatOf(Flat, n)
  OBVIOUS
<1> QED
  BY <1>4, <1>5

LEMMA BundleType ==
  ASSUME NEW f \in Files
  PROVE  Bundle[f] \in Seq(Written)
  BY InstallAssumption DEF InstallAssumption

LEMMA FlatValue ==
  ASSUME NEW n \in 0..MaxDepth, NEW f \in Files
  PROVE  Flat[n][f] = IF n = 0 \/ f \in Unreadable THEN <<>> ELSE Flattened(Bundle[f], n)
  BY FlatForm DEF FlatOf, Flattened, Expanded

LEMMA ExpandedType ==
  ASSUME NEW n, \A f \in Files : Flat[n - 1][f] \in Seq(Written), NEW s \in Seq(Written)
  PROVE  Expanded(s, n) \in Seq(Seq(Written))
<1>1. Len(s) \in Nat /\ DOMAIN s = 1..Len(s) /\ \A i \in 1..Len(s) : s[i] \in Written
  OBVIOUS
<1>2. \A i \in 1..Len(s) :
        (IF s[i].op = "include" THEN Flat[n - 1][s[i].file] ELSE <<s[i]>>) \in Seq(Written)
  BY <1>1, Fields
<1> DEFINE E(i) == IF s[i].op = "include" THEN Flat[n - 1][s[i].file] ELSE <<s[i]>>
           S == Seq(Written)
           m == Len(s)
<1>3. Expanded(s, n) = [i \in 1..m |-> E(i)]
  BY <1>1 DEF Expanded
<1>4. m \in Nat /\ \A i \in 1..m : E(i) \in S
  BY <1>1, <1>2
<1> HIDE DEF E, S, m
<1>5. [i \in 1..m |-> E(i)] \in Seq(S)
  BY <1>4, IsASeq
<1> QED
  BY <1>3, <1>5 DEF S

LEMMA FlatType ==
  ASSUME NEW n \in 0..MaxDepth
  PROVE  \A f \in Files : Flat[n][f] \in Seq(Written)
<1> DEFINE Typed(k) == \A f \in Files : Flat[k][f] \in Seq(Written)
           T == {k \in Nat : k \in 0..MaxDepth => Typed(k)}
<1>0. MaxDepth \in Nat
  BY InstallAssumption DEF InstallAssumption
<1>1. 0 \in T
  <2>1. \A f \in Files : Flat[0][f] = <<>>
    BY <1>0, FlatValue
  <2>2. <<>> \in Seq(Written)
    OBVIOUS
  <2> QED
    BY <2>1, <2>2
<1>2. ASSUME NEW k \in T PROVE k + 1 \in T
  <2>1. k \in Nat
    OBVIOUS
  <2>2. ASSUME k + 1 \in 0..MaxDepth, NEW f \in Files PROVE Flat[k + 1][f] \in Seq(Written)
    <3>1. k \in 0..MaxDepth /\ (k + 1) - 1 = k
      BY <1>0, <2>1, <2>2
    <3>2. Typed(k)
      BY <3>1
    <3>3. Expanded(Bundle[f], k + 1) \in Seq(Seq(Written))
      BY <3>1, <3>2, BundleType, ExpandedType
    <3>4. Flattened(Bundle[f], k + 1) \in Seq(Written)
      BY <3>3, FlattenType DEF Flattened
    <3>5. <<>> \in Seq(Written)
      OBVIOUS
    <3> QED
      BY <2>2, <3>4, <3>5, FlatValue
  <2> QED
    BY <2>1, <2>2
<1> HIDE DEF T
<1>3. T = Nat
  <2>1. T \in SUBSET Nat
    BY DEF T
  <2> QED
    BY <1>1, <1>2, <2>1, AllNumbers
<1>4. n \in Nat
  BY <1>0
<1> QED
  BY <1>3, <1>4 DEF T

LEMMA FlattenedType ==
  ASSUME NEW n \in 1..MaxDepth, NEW s \in Seq(Written)
  PROVE  Expanded(s, n) \in Seq(Seq(Written)) /\ Flattened(s, n) \in Seq(Written)
<1>1. n - 1 \in 0..MaxDepth
  BY InstallAssumption DEF InstallAssumption
<1>2. Expanded(s, n) \in Seq(Seq(Written))
  BY <1>1, FlatType, ExpandedType
<1> QED
  BY <1>2, FlattenType DEF Flattened

LEMMA FlattenedEmpty ==
  ASSUME NEW n
  PROVE  Flattened(<<>>, n) = <<>>
<1>1. Expanded(<<>>, n) = <<>>
  BY DEF Expanded
<1> QED
  BY <1>1, FlattenEmpty DEF Flattened

(* The first instruction, or what it includes, and then the others.          *)
LEMMA FlattenedFirst ==
  ASSUME NEW n \in 1..MaxDepth, NEW s \in Seq(Written), s # <<>>
  PROVE  /\ s[1].op = "include" =>
               Flattened(s, n) = Flat[n - 1][s[1].file] \o Flattened(Tail(s), n)
         /\ s[1].op # "include" => Flattened(s, n) = <<s[1]>> \o Flattened(Tail(s), n)
<1> DEFINE e == Expanded(s, n)
<1>1. /\ Len(s) \in Nat \ {0} /\ DOMAIN s = 1..Len(s) /\ Tail(s) \in Seq(Written)
      /\ Len(Tail(s)) = Len(s) - 1 /\ \A i \in 1..(Len(s) - 1) : Tail(s)[i] = s[i + 1]
  OBVIOUS
<1>2. e \in Seq(Seq(Written))
  BY FlattenedType
<1>3. DOMAIN e = 1..Len(s) /\ Len(e) = Len(s)
  BY <1>1, <1>2 DEF Expanded
<1>4. \A i \in 1..Len(s) :
        e[i] = IF s[i].op = "include" THEN Flat[n - 1][s[i].file] ELSE <<s[i]>>
  BY <1>1 DEF Expanded
<1>5. Tail(e) = Expanded(Tail(s), n)
  <2> DEFINE t == Expanded(Tail(s), n)
  <2>1. /\ t \in Seq(Seq(Written)) /\ DOMAIN t = 1..(Len(s) - 1)
        /\ Len(t) = Len(s) - 1
    <3>1. t \in Seq(Seq(Written))
      BY <1>1, FlattenedType
    <3>2. DOMAIN Tail(s) = 1..(Len(s) - 1)
      BY <1>1
    <3>3. DOMAIN t = 1..(Len(s) - 1)
      BY <3>2 DEF Expanded
    <3>4. Len(s) - 1 \in Nat
      BY <1>1
    <3> HIDE DEF t
    <3>5. Len(t) = Len(s) - 1
      BY <3>1, <3>3, <3>4, LenProperties
    <3> QED
      BY <3>1, <3>3, <3>5
  <2>2. \A i \in 1..(Len(s) - 1) : t[i] = e[i + 1]
    <3> SUFFICES ASSUME NEW i \in 1..(Len(s) - 1) PROVE t[i] = e[i + 1]
      OBVIOUS
    <3>1. i \in DOMAIN Tail(s) /\ i + 1 \in 1..Len(s) /\ Tail(s)[i] = s[i + 1]
      BY <1>1
    <3>2. t[i] = IF s[i + 1].op = "include" THEN Flat[n - 1][s[i + 1].file] ELSE <<s[i + 1]>>
      BY <3>1 DEF Expanded
    <3> QED
      BY <1>4, <3>1, <3>2
  <2> HIDE DEF e, t
  <2>3. e # <<>>
    BY <1>1, <1>2, <1>3
  <2>4. Tail(e) \in Seq(Seq(Written)) /\ Len(Tail(e)) = Len(s) - 1
        /\ \A i \in 1..(Len(s) - 1) : Tail(e)[i] = e[i + 1]
    BY <1>1, <1>2, <1>3, <2>3
  <2>5. Tail(e) = t
    BY <2>1, <2>2, <2>3, <2>4, SeqEqual
  <2> QED
    BY <2>5 DEF t
<1>6. e # <<>>
  <2> HIDE DEF e
  <2> QED
    BY <1>1, <1>2, <1>3
<1>7. Flattened(s, n) = e[1] \o Flattened(Tail(s), n)
  BY <1>2, <1>5, <1>6, FlattenFirst DEF Flattened
<1>8. e[1] = IF s[1].op = "include" THEN Flat[n - 1][s[1].file] ELSE <<s[1]>>
  BY <1>1, <1>4
<1> QED
  BY <1>7, <1>8

-----------------------------------------------------------------------------
(* What the open files hold, the innermost first.                            *)
Levels(stk) == [k \in DOMAIN stk |-> Flattened(stk[k], MaxDepth - Len(stk) + k)]
Ahead(stk) == FlattenSeq(Levels(stk))

LEMMA LevelsType ==
  ASSUME NEW stk \in Seq(Seq(Written)), Len(stk) <= MaxDepth
  PROVE  Levels(stk) \in Seq(Seq(Written)) /\ Len(Levels(stk)) = Len(stk)
<1>0. MaxDepth \in Nat
  BY InstallAssumption DEF InstallAssumption
<1> DEFINE m == Len(stk)
           S == Seq(Written)
           E(k) == Flattened(stk[k], MaxDepth - m + k)
<1>1. m \in Nat /\ DOMAIN stk = 1..m /\ \A k \in 1..m : stk[k] \in S
  OBVIOUS
<1>2. \A k \in 1..m : MaxDepth - m + k \in 1..MaxDepth
  BY <1>0, <1>1
<1>3. \A k \in 1..m : E(k) \in S
  BY <1>1, <1>2, FlattenedType
<1>4. Levels(stk) = [k \in 1..m |-> E(k)]
  BY <1>1 DEF Levels
<1> HIDE DEF m, S, E
<1>5. [k \in 1..m |-> E(k)] \in Seq(S)
  BY <1>1, <1>3, IsASeq
<1>6. Levels(stk) \in Seq(S) /\ DOMAIN Levels(stk) = 1..m
  BY <1>4, <1>5
<1>7. Len(Levels(stk)) = m
  BY <1>1, <1>6, LenProperties
<1> QED
  BY <1>6, <1>7 DEF S, m

LEMMA AheadEmpty == Ahead(<<>>) = <<>>
<1>1. Levels(<<>>) = <<>>
  BY DEF Levels
<1> QED
  BY <1>1, FlattenEmpty DEF Ahead

LEMMA AheadFirst ==
  ASSUME NEW stk \in Seq(Seq(Written)), stk # <<>>, Len(stk) <= MaxDepth
  PROVE  /\ Ahead(stk) = Flattened(stk[1], MaxDepth - Len(stk) + 1) \o Ahead(Tail(stk))
         /\ Tail(stk) \in Seq(Seq(Written)) /\ Len(Tail(stk)) = Len(stk) - 1
         /\ MaxDepth - Len(stk) + 1 \in 1..MaxDepth
<1>0. MaxDepth \in Nat
  BY InstallAssumption DEF InstallAssumption
<1> DEFINE e == Levels(stk)
           t == Levels(Tail(stk))
           m == Len(stk)
<1>1. /\ m \in Nat \ {0} /\ DOMAIN stk = 1..m /\ stk[1] \in Seq(Written)
      /\ Tail(stk) \in Seq(Seq(Written)) /\ Len(Tail(stk)) = m - 1
      /\ DOMAIN Tail(stk) = 1..(m - 1)
      /\ \A k \in 1..(m - 1) : Tail(stk)[k] = stk[k + 1]
  OBVIOUS
<1>2. e \in Seq(Seq(Written)) /\ Len(e) = m /\ t \in Seq(Seq(Written)) /\ Len(t) = m - 1
  <2>1. e \in Seq(Seq(Written)) /\ Len(e) = m
    BY LevelsType
  <2> DEFINE u == Tail(stk)
  <2>2. u \in Seq(Seq(Written)) /\ Len(u) <= MaxDepth /\ Len(u) = m - 1
    BY <1>0, <1>1
  <2> HIDE DEF u
  <2>3. Levels(u) \in Seq(Seq(Written)) /\ Len(Levels(u)) = Len(u)
    BY <2>2, LevelsType
  <2> QED
    BY <2>1, <2>2, <2>3 DEF u
<1>3. \A k \in 1..(m - 1) : t[k] = e[k + 1]
  <2> SUFFICES ASSUME NEW k \in 1..(m - 1) PROVE t[k] = e[k + 1]
    OBVIOUS
  <2>1. t[k] = Flattened(stk[k + 1], MaxDepth - (m - 1) + k)
    BY <1>1 DEF Levels
  <2>2. k + 1 \in DOMAIN stk
    BY <1>1
  <2>3. e[k + 1] = Flattened(stk[k + 1], MaxDepth - m + (k + 1))
    BY <2>2 DEF Levels
  <2>4. MaxDepth - (m - 1) + k = MaxDepth - m + (k + 1)
    BY <1>0, <1>1
  <2> QED
    BY <2>1, <2>3, <2>4
<1>4. e[1] = Flattened(stk[1], MaxDepth - m + 1)
  <2>1. 1 \in DOMAIN stk
    BY <1>1
  <2> QED
    BY <2>1 DEF Levels
<1>5. Ahead(stk) = FlattenSeq(e) /\ Ahead(Tail(stk)) = FlattenSeq(t)
  BY DEF Ahead
<1>6. MaxDepth - m + 1 \in 1..MaxDepth
  BY <1>0, <1>1
<1> HIDE DEF e, t
<1>7. e # <<>>
  BY <1>1, <1>2
<1>8. Tail(e) = t
  <2>1. /\ Tail(e) \in Seq(Seq(Written)) /\ Len(Tail(e)) = m - 1
        /\ \A k \in 1..(m - 1) : Tail(e)[k] = e[k + 1]
    BY <1>1, <1>2, <1>7
  <2> QED
    BY <1>2, <1>3, <2>1, SeqEqual
<1>9. FlattenSeq(e) = e[1] \o FlattenSeq(Tail(e))
  BY <1>2, <1>7, FlattenFirst
<1> QED
  BY <1>1, <1>4, <1>5, <1>6, <1>8, <1>9

LEMMA AheadType ==
  ASSUME NEW stk \in Seq(Seq(Written)), Len(stk) <= MaxDepth
  PROVE  Ahead(stk) \in Seq(Written)
  BY LevelsType, FlattenType DEF Ahead

(* A file put on top of others.                                              *)
LEMMA AheadOn ==
  ASSUME NEW s \in Seq(Written), NEW stk \in Seq(Seq(Written)), Len(stk) < MaxDepth
  PROVE  /\ <<s>> \o stk \in Seq(Seq(Written)) /\ Len(<<s>> \o stk) = Len(stk) + 1
         /\ Ahead(<<s>> \o stk) = Flattened(s, MaxDepth - Len(stk)) \o Ahead(stk)
<1>0. MaxDepth \in Nat
  BY InstallAssumption DEF InstallAssumption
<1> DEFINE up == <<s>> \o stk
<1>1. Len(stk) \in Nat
  OBVIOUS
<1>2. /\ up \in Seq(Seq(Written)) /\ Len(up) = Len(stk) + 1 /\ up # <<>>
      /\ up[1] = s /\ Tail(up) = stk
  <2> DEFINE S == Seq(Written)
  <2>1. s \in S /\ stk \in Seq(S)
    OBVIOUS
  <2> HIDE DEF S
  <2>2. /\ up \in Seq(S) /\ Len(up) = Len(stk) + 1 /\ up # <<>>
        /\ up[1] = s /\ \A k \in 1..Len(stk) : up[k + 1] = stk[k]
    BY <2>1
  <2>3. Tail(up) \in Seq(S) /\ Len(Tail(up)) = Len(stk)
        /\ \A k \in 1..Len(stk) : Tail(up)[k] = stk[k]
    <3> HIDE DEF up
    <3> QED
      BY <1>1, <2>2
  <2>4. Tail(up) = stk
    BY <2>1, <2>3, SeqEqual
  <2> QED
    BY <2>2, <2>4 DEF S
<1> HIDE DEF up
<1>3. Len(up) <= MaxDepth
  BY <1>0, <1>1, <1>2
<1>4. MaxDepth - Len(up) + 1 = MaxDepth - Len(stk)
  BY <1>0, <1>1, <1>2
<1>5. Ahead(up) = Flattened(up[1], MaxDepth - Len(up) + 1) \o Ahead(Tail(up))
  BY <1>2, <1>3, AheadFirst
<1> QED
  BY <1>2, <1>4, <1>5 DEF up

-----------------------------------------------------------------------------
(* What was begun and what is ahead make up the flattened file.              *)
Ordered ==
    /\ file \in Files
    /\ status = "running" => stack # <<>> /\ log \o Ahead(stack) = Flat[MaxDepth][file]
    /\ IsPrefix(log, Flat[MaxDepth][file])
    /\ status = "ok" => log = Flat[MaxDepth][file]

LEMMA PrefixOfMore ==
  ASSUME NEW S, NEW s \in Seq(S), NEW t \in Seq(S)
  PROVE  IsPrefix(s, s \o t)
<1>1. Len(s) \in Nat /\ Len(t) \in Nat
  OBVIOUS
<1>2. Len(s) <= Len(s \o t)
  OBVIOUS
<1>3. SubSeq(s, 1, Len(s)) = SubSeq(s \o t, 1, Len(s))
  <2>1. CASE Len(s) = 0
    BY <2>1, SubSeqEmpty
  <2>2. CASE Len(s) # 0
    <3>1. 1 \in 1..Len(s) /\ Len(s) \in 1..Len(s)
      BY <1>1, <2>2
    <3> QED
      BY <3>1, SubSeqOfConcat1
  <2> QED
    BY <2>1, <2>2
<1> QED
  BY <1>2, <1>3 DEF IsPrefix

LEMMA Regrouped ==
  ASSUME NEW S, NEW a \in Seq(S), NEW b \in Seq(S), NEW c \in Seq(S),
         NEW ab, NEW bc, ab = a \o b, bc = b \o c
  PROVE  ab \o c = a \o bc
<1>1. (a \o b) \o c = a \o (b \o c)
  BY ConcatAssociative
<1> QED
  BY <1>1

(* The instruction at hand leaves the innermost file.                        *)
LEMMA AheadRest ==
  ASSUME Lists, stack # <<>>, stack[1] # <<>>, Len(stack) <= MaxDepth
  PROVE  LET n == MaxDepth - Len(stack) + 1
             i == stack[1][1] IN
         /\ Rest \in Seq(Seq(Written)) /\ Len(Rest) = Len(stack)
         /\ Ahead(Rest) \in Seq(Written) /\ n \in 1..MaxDepth /\ i \in Written
         /\ i.op = "include" => Ahead(stack) = Flat[n - 1][i.file] \o Ahead(Rest)
         /\ i.op # "include" => Ahead(stack) = <<i>> \o Ahead(Rest)
<1> DEFINE n == MaxDepth - Len(stack) + 1
           top == stack[1]
           t == Tail(stack[1])
           under == Tail(stack)
           i == stack[1][1]
<1>0. MaxDepth \in Nat
  BY InstallAssumption DEF InstallAssumption
<1>1. stack \in Seq(Seq(Written)) /\ Len(stack) \in Nat \ {0}
  BY DEF Lists
<1>2. top \in Seq(Written)
  BY <1>1
<1>3. t \in Seq(Written) /\ i \in Written
  BY <1>2
<1>4. /\ under \in Seq(Seq(Written)) /\ Len(under) = Len(stack) - 1 /\ n \in 1..MaxDepth
      /\ Ahead(stack) = Flattened(top, n) \o Ahead(under)
  BY <1>1, AheadFirst
<1>5. top # <<>>
  OBVIOUS
<1>6. /\ i.op = "include" => Flattened(top, n) = Flat[n - 1][i.file] \o Flattened(t, n)
      /\ i.op # "include" => Flattened(top, n) = <<i>> \o Flattened(t, n)
  BY <1>2, <1>4, <1>5, FlattenedFirst
<1> HIDE DEF n, top, t, under, i
<1>7. Len(under) < MaxDepth /\ MaxDepth - Len(under) = n
  BY <1>0, <1>1, <1>4 DEF n
<1>8. /\ Rest \in Seq(Seq(Written)) /\ Len(Rest) = Len(stack)
      /\ Ahead(Rest) = Flattened(t, n) \o Ahead(under)
  <2>1. Rest = <<t>> \o under
    BY DEF Rest, t, under
  <2>2. /\ <<t>> \o under \in Seq(Seq(Written)) /\ Len(<<t>> \o under) = Len(under) + 1
        /\ Ahead(<<t>> \o under) = Flattened(t, MaxDepth - Len(under)) \o Ahead(under)
    BY <1>3, <1>4, <1>7, AheadOn
  <2>3. Len(under) + 1 = Len(stack)
    BY <1>1, <1>4
  <2>4. Ahead(<<t>> \o under) = Flattened(t, n) \o Ahead(under)
    BY <1>7, <2>2
  <2> QED
    BY <2>1, <2>2, <2>3, <2>4
<1>9. Flattened(t, n) \in Seq(Written) /\ Ahead(under) \in Seq(Written)
  <2>1. Len(under) <= MaxDepth
    BY <1>0, <1>1, <1>4
  <2> QED
    BY <1>3, <1>4, <2>1, FlattenedType, AheadType
<1>10. Ahead(Rest) \in Seq(Written)
  BY <1>8, <1>9
<1>11. ASSUME NEW first \in Seq(Written), Flattened(top, n) = first \o Flattened(t, n)
       PROVE  Ahead(stack) = first \o Ahead(Rest)
  <2> DEFINE b == Flattened(t, n)
             c == Ahead(under)
             ab == Flattened(top, n)
             bc == Ahead(Rest)
  <2>1. b \in Seq(Written) /\ c \in Seq(Written) /\ ab = first \o b /\ bc = b \o c
    BY <1>8, <1>9, <1>11
  <2>2. Ahead(stack) = ab \o c
    BY <1>4
  <2> HIDE DEF b, c, ab, bc
  <2>3. ab \o c = first \o bc
    BY <2>1, Regrouped
  <2> QED
    BY <2>2, <2>3 DEF bc
<1>12. i.op = "include" => Ahead(stack) = Flat[n - 1][i.file] \o Ahead(Rest)
  <2> SUFFICES ASSUME i.op = "include" PROVE Ahead(stack) = Flat[n - 1][i.file] \o Ahead(Rest)
    OBVIOUS
  <2>1. i.file \in Files /\ n - 1 \in 0..MaxDepth
    BY <1>0, <1>3, <1>4, Fields
  <2>2. Flat[n - 1][i.file] \in Seq(Written)
    BY <2>1, FlatType
  <2> QED
    BY <1>6, <1>11, <2>2
<1>13. i.op # "include" => Ahead(stack) = <<i>> \o Ahead(Rest)
  <2>1. <<i>> \in Seq(Written)
    BY <1>3
  <2> QED
    BY <1>6, <1>11, <2>1
<1> QED
  BY <1>3, <1>4, <1>8, <1>10, <1>12, <1>13 DEF n, i

LEMMA WholeFlat ==
  ASSUME NEW f \in Files
  PROVE  Flat[MaxDepth][f] \in Seq(Written)
<1>1. MaxDepth \in 0..MaxDepth
  BY InstallAssumption DEF InstallAssumption
<1> QED
  BY <1>1, FlatType

LEMMA OrderedInit == Init => Ordered
<1> SUFFICES ASSUME Init PROVE Ordered
  OBVIOUS
<1>1. file \in Files
  BY InstallAssumption DEF Init, InstallAssumption
<1> DEFINE whole == Flat[MaxDepth][file]
<1>4. whole \in Seq(Written) /\ <<>> \in Seq(Written)
  BY <1>1, WholeFlat
<1> HIDE DEF whole
<1>2. IsPrefix(<<>>, <<>> \o whole)
  BY <1>4, PrefixOfMore
<1>3. <<>> \o whole = whole
  BY <1>4
<1> QED
  BY <1>1, <1>2, <1>3 DEF Init, Ordered, whole

LEMMA OrderedNext == Lists /\ TypeOK /\ Ordered /\ [Next]_vars => Ordered'
<1> SUFFICES ASSUME Lists, TypeOK, Ordered, [Next]_vars PROVE Ordered'
  OBVIOUS
<1>0. MaxDepth \in Nat \ {0} /\ Len(stack) <= MaxDepth /\ log \in Seq(Written)
  BY InstallAssumption DEF InstallAssumption, TypeOK, Lists
<1>1. ASSUME NEW f \in Starts, Start(f) PROVE Ordered'
  <2>1. f \in Files /\ file' = f /\ log' = <<>>
    BY <1>1, InstallAssumption DEF Start, InstallAssumption
  <2>2. Flat[MaxDepth][f] \in Seq(Written)
    BY <2>1, WholeFlat
  <2>3. <<>> \o Flat[MaxDepth][f] = Flat[MaxDepth][f]
    BY <2>2
  <2>4. IsPrefix(<<>>, Flat[MaxDepth][f])
    <3>1. <<>> \in Seq(Written)
      OBVIOUS
    <3> QED
      BY <2>2, <2>3, <3>1, PrefixOfMore
  <2>5. CASE f \in Unreadable
    BY <1>1, <2>1, <2>4, <2>5 DEF Start, Ordered
  <2>6. CASE f \notin Unreadable
    <3>1. stack' = <<Bundle[f]>> /\ status' = "running"
      BY <1>1, <2>6 DEF Start
    <3>2. Ahead(<<Bundle[f]>>) = Flat[MaxDepth][f]
      <4>1. Bundle[f] \in Seq(Written) /\ <<>> \in Seq(Seq(Written)) /\ Len(<<>>) = 0
        BY <2>1, BundleType
      <4> DEFINE none == <<>>
                 all == Bundle[f]
      <4>6. all \in Seq(Written) /\ none \in Seq(Seq(Written)) /\ Len(none) < MaxDepth
        BY <1>0, <4>1
      <4>3. <<all>> \o none = <<all>> /\ MaxDepth - Len(none) = MaxDepth
        BY <1>0, <4>1
      <4> HIDE DEF none, all
      <4>7. Ahead(<<all>> \o none) = Flattened(all, MaxDepth - Len(none)) \o Ahead(none)
        BY <4>6, AheadOn
      <4>2. Ahead(<<all>>) = Flattened(all, MaxDepth) \o Ahead(none)
        BY <4>3, <4>7
      <4>4. Flat[MaxDepth][f] = Flattened(Bundle[f], MaxDepth)
        BY <1>0, <2>1, <2>6, FlatValue
      <4>5. Flat[MaxDepth][f] \o <<>> = Flat[MaxDepth][f]
        BY <2>2
      <4> QED
        BY <4>2, <4>4, <4>5, AheadEmpty DEF all, none
    <3> QED
      BY <2>1, <2>3, <2>4, <3>1, <3>2 DEF Ordered
  <2> QED
    BY <2>5, <2>6
<1>2. CASE Apply
  <2> DEFINE i == stack[1][1]
  <2>1. /\ status = "running" /\ status' = status /\ file' = file
        /\ stack # <<>> /\ stack[1] # <<>> /\ i.op # "include"
        /\ stack' = Rest /\ log' = Append(log, i)
    BY <1>2 DEF Apply, Running
  <2>2. /\ Rest \in Seq(Seq(Written)) /\ Len(Rest) = Len(stack) /\ i \in Written
        /\ Ahead(Rest) \in Seq(Written) /\ Ahead(stack) = <<i>> \o Ahead(Rest)
    BY <1>0, <2>1, AheadRest
  <2>3. log \o Ahead(stack) = Flat[MaxDepth][file] /\ file \in Files
    BY <2>1 DEF Ordered
  <2> HIDE DEF i
  <2>4. log' = log \o <<i>> /\ log' \in Seq(Written) /\ <<i>> \in Seq(Written)
    BY <1>0, <2>1, <2>2
  <2>5. log' \o Ahead(Rest) = Flat[MaxDepth][file]
    <3> DEFINE b == <<i>>
               c == Ahead(Rest)
               bc == Ahead(stack)
    <3>1. /\ log \in Seq(Written) /\ b \in Seq(Written) /\ c \in Seq(Written)
          /\ log' = log \o b /\ bc = b \o c
      BY <1>0, <2>2, <2>4
    <3> HIDE DEF b, c, bc
    <3>2. log' \o c = log \o bc
      BY <3>1, Regrouped
    <3> QED
      BY <2>3, <3>2 DEF c, bc
  <2>6. IsPrefix(log', Flat[MaxDepth][file])
    BY <2>2, <2>4, <2>5, PrefixOfMore
  <2>7. Rest # <<>>
    BY <2>1, <2>2 DEF Lists
  <2> QED
    BY <2>1, <2>3, <2>5, <2>6, <2>7 DEF Ordered
<1>3. CASE Include
  <2> DEFINE f == stack[1][1].file
             n == MaxDepth - Len(stack) + 1
  <2>1. /\ status = "running" /\ file' = file /\ log' = log
        /\ stack # <<>> /\ stack[1] # <<>> /\ stack[1][1].op = "include"
    BY <1>3 DEF Include, Running
  <2>2. CASE status' # "running"
    <3>1. status' \in {"err", "overflow"}
      BY <1>3, <2>1, <2>2 DEF Include
    <3> QED
      BY <2>1, <3>1 DEF Ordered
  <2>3. CASE status' = "running"
    <3>1. f \notin Unreadable /\ Len(stack) # MaxDepth /\ stack' = <<Bundle[f]>> \o Rest
      BY <1>3, <2>3 DEF Include
    <3>2. /\ Rest \in Seq(Seq(Written)) /\ Len(Rest) = Len(stack)
          /\ stack[1][1] \in Written /\ n \in 1..MaxDepth
          /\ Ahead(stack) = Flat[n - 1][f] \o Ahead(Rest)
      BY <1>0, <2>1, AheadRest
    <3>3. f \in Files
      BY <2>1, <3>2, Fields
    <3>4. Bundle[f] \in Seq(Written)
      BY <3>3, BundleType
    <3> HIDE DEF f, n
    <3>5. Len(Rest) < MaxDepth /\ n - 1 = MaxDepth - Len(Rest) /\ n - 1 \in 1..MaxDepth
      <4>1. Len(stack) \in Nat
        BY DEF Lists
      <4> QED
        BY <1>0, <3>1, <3>2, <4>1 DEF n
    <3>6. /\ Ahead(stack') = Flattened(Bundle[f], n - 1) \o Ahead(Rest)
          /\ stack' \in Seq(Seq(Written)) /\ Len(stack') = Len(Rest) + 1
      BY <3>1, <3>2, <3>4, <3>5, AheadOn
    <3>7. Flat[n - 1][f] = Flattened(Bundle[f], n - 1)
      BY <3>1, <3>3, <3>5, FlatValue
    <3>8. Ahead(stack') = Ahead(stack)
      BY <3>2, <3>6, <3>7
    <3>9. stack' # <<>>
      BY <3>2, <3>6
    <3> QED
      BY <2>1, <2>3, <3>8, <3>9 DEF Ordered
  <2> QED
    BY <2>2, <2>3
<1>4. CASE EndFile
  <2>1. /\ status = "running" /\ file' = file /\ log' = log /\ stack # <<>>
        /\ stack[1] = <<>> /\ stack' = Tail(stack)
        /\ status' = IF Tail(stack) = <<>> THEN "ok" ELSE status
    BY <1>4 DEF EndFile, Running
  <2>2. /\ Ahead(stack) = Flattened(stack[1], MaxDepth - Len(stack) + 1) \o Ahead(Tail(stack))
        /\ Tail(stack) \in Seq(Seq(Written)) /\ Len(Tail(stack)) <= MaxDepth
    <3>1. stack \in Seq(Seq(Written)) /\ Len(stack) \in Nat
      BY DEF Lists
    <3>2. /\ Ahead(stack) = Flattened(stack[1], MaxDepth - Len(stack) + 1) \o Ahead(Tail(stack))
          /\ Tail(stack) \in Seq(Seq(Written)) /\ Len(Tail(stack)) = Len(stack) - 1
      BY <1>0, <2>1, <3>1, AheadFirst
    <3> QED
      BY <1>0, <3>1, <3>2
  <2>3. Ahead(Tail(stack)) \in Seq(Written)
    BY <2>2, AheadType
  <2>4. Ahead(stack) = Ahead(Tail(stack))
    <3>1. Flattened(stack[1], MaxDepth - Len(stack) + 1) = <<>>
      BY <2>1, FlattenedEmpty
    <3>2. <<>> \o Ahead(Tail(stack)) = Ahead(Tail(stack))
      BY <2>3
    <3> QED
      BY <2>2, <3>1, <3>2
  <2>5. log \o Ahead(Tail(stack)) = Flat[MaxDepth][file]
    BY <2>1, <2>4 DEF Ordered
  <2>6. Tail(stack) = <<>> => log = Flat[MaxDepth][file]
    <3>1. log \o <<>> = log
      BY <1>0
    <3> QED
      BY <2>5, <3>1, AheadEmpty
  <2> QED
    BY <2>1, <2>5, <2>6 DEF Ordered
<1>5. CASE Command \/ UNCHANGED vars
  BY <1>5 DEF Command, vars, Ordered
<1>6. CASE CommandFails \/ Kill
  BY <1>6 DEF CommandFails, Kill, Ordered
<1> QED
  BY <1>1, <1>2, <1>3, <1>4, <1>5, <1>6 DEF Next

(* The files included so far were there.                                     *)
Read ==
    /\ status = "running" =>
          /\ file \notin Unreadable
          /\ \E n \in 0..Len(Bundle[file]) :
                /\ stack[Len(stack)] = SubSeq(Bundle[file], n + 1, Len(Bundle[file]))
                /\ Includes(file, n) \cap Unreadable = {}
    /\ status = "ok" => Includes(file, Len(Bundle[file])) \cap Unreadable = {}

LEMMA LastOfRest ==
  ASSUME Lists, stack # <<>>
  PROVE  /\ Len(stack) \in Nat \ {0} /\ stack[Len(stack)] \in Seq(Written)
         /\ Len(Rest) = Len(stack)
         /\ Rest[Len(stack)] = IF Len(stack) = 1 THEN Tail(stack[1]) ELSE stack[Len(stack)]
         /\ Len(stack) # 1 => Tail(stack) # <<>> /\ Tail(stack)[Len(stack) - 1] = stack[Len(stack)]
<1> DEFINE t == Tail(stack[1])
           u == Tail(stack)
           m == Len(stack)
<1>1. /\ stack \in Seq(Seq(Written)) /\ m \in Nat \ {0} /\ stack[m] \in Seq(Written)
      /\ u \in Seq(Seq(Written)) /\ Len(u) = m - 1 /\ \A k \in 1..(m - 1) : u[k] = stack[k + 1]
  BY DEF Lists
<1>2. Rest = <<t>> \o u
  BY DEF Rest
<1>3. m # 1 => u # <<>> /\ u[m - 1] = stack[m]
  <2> SUFFICES ASSUME m # 1 PROVE u # <<>> /\ u[m - 1] = stack[m]
    OBVIOUS
  <2> HIDE DEF m, u
  <2>1. m - 1 \in 1..(m - 1) /\ (m - 1) + 1 = m /\ Len(u) # 0
    BY <1>1
  <2> QED
    BY <1>1, <2>1
<1> HIDE DEF t, u, m
<1>4. /\ Len(<<t>> \o u) = 1 + Len(u) /\ (<<t>> \o u)[1] = t
      /\ \A k \in 1..Len(u) : (<<t>> \o u)[k + 1] = u[k]
  BY <1>1
<1>5. Len(Rest) = m
  BY <1>1, <1>2, <1>4
<1>6. m = 1 => Rest[m] = t
  BY <1>2, <1>4
<1>7. m # 1 => Rest[m] = stack[m]
  <2> SUFFICES ASSUME m # 1 PROVE Rest[m] = stack[m]
    OBVIOUS
  <2>1. m - 1 \in 1..Len(u) /\ (m - 1) + 1 = m
    BY <1>1
  <2> QED
    BY <1>2, <1>3, <1>4, <2>1
<1> QED
  BY <1>1, <1>3, <1>5, <1>6, <1>7 DEF t, u, m

(* Past an instruction of the outermost file that is no include of a file
   that cannot be read.                                                      *)
LEMMA ReadOn ==
  ASSUME NEW f \in Files, NEW n \in 0..Len(Bundle[f]), NEW s,
         s = SubSeq(Bundle[f], n + 1, Len(Bundle[f])), s # <<>>,
         Includes(f, n) \cap Unreadable = {},
         s[1].op = "include" => s[1].file \notin Unreadable
  PROVE  \E k \in 0..Len(Bundle[f]) :
            /\ Tail(s) = SubSeq(Bundle[f], k + 1, Len(Bundle[f]))
            /\ Includes(f, k) \cap Unreadable = {}
<1> DEFINE b == Bundle[f]
<1>1. b \in Seq(Written) /\ Len(b) \in Nat /\ n \in Nat
  BY BundleType
<1> HIDE DEF b
<1>2. n < Len(b)
  <2>1. CASE n = Len(b)
    <3>1. SubSeq(b, n + 1, Len(b)) = <<>>
      BY <1>1, <2>1, SubSeqEmpty
    <3> QED
      BY <3>1 DEF b
  <2>2. n <= Len(b)
    BY DEF b
  <2> QED
    BY <1>1, <2>1, <2>2
<1>3. n + 1 \in 1..Len(b) /\ Len(b) \in (n + 1)..Len(b)
  BY <1>1, <1>2
<1>4. Head(s) = b[n + 1] /\ Tail(s) = SubSeq(b, (n + 1) + 1, Len(b))
  BY <1>1, <1>3, HeadTailOfSubSeq DEF b
<1>5. s[1] = b[n + 1]
  <2>1. \A j \in (n + 1)..Len(b) : b[j] \in Written
    BY <1>1
  <2>2. \A j \in 1..(Len(b) - (n + 1) + 1) : SubSeq(b, n + 1, Len(b))[j] = b[(n + 1) + j - 1]
    BY <1>1, <2>1, SubSeqProperties
  <2>3. 1 \in 1..(Len(b) - (n + 1) + 1) /\ (n + 1) + 1 - 1 = n + 1
    BY <1>1, <1>2
  <2> QED
    BY <2>2, <2>3 DEF b
<1>6. Includes(f, n + 1) \cap Unreadable = {}
  <2> SUFFICES ASSUME NEW i \in 1..(n + 1), b[i].op = "include", b[i].file \in Unreadable
               PROVE  FALSE
    BY DEF Includes, b
  <2>1. CASE i = n + 1
    BY <1>5, <2>1
  <2>2. CASE i # n + 1
    <3>1. i \in 1..n
      BY <1>1, <2>2
    <3>2. b[i].file \in Includes(f, n)
      BY <3>1 DEF Includes, b
    <3> QED
      BY <3>2
  <2> QED
    BY <2>1, <2>2
<1>7. n + 1 \in 0..Len(Bundle[f])
  BY <1>1, <1>2 DEF b
<1> QED
  BY <1>4, <1>6, <1>7 DEF b

LEMMA ReadInit == Init => Read
  BY DEF Init, Read

LEMMA ReadNext == Lists /\ Ordered /\ Read /\ [Next]_vars => Read'
<1> SUFFICES ASSUME Lists, Ordered, Read, [Next]_vars PROVE Read'
  OBVIOUS
<1>0. file \in Files
  BY DEF Ordered
<1>1. ASSUME NEW f \in Starts, Start(f) PROVE Read'
  <2>1. file' = f /\ f \in Files
    BY <1>1, InstallAssumption DEF Start, InstallAssumption
  <2>2. CASE f \in Unreadable
    BY <1>1, <2>2 DEF Start, Read
  <2>3. CASE f \notin Unreadable
    <3>1. stack' = <<Bundle[f]>> /\ status' = "running"
      BY <1>1, <2>3 DEF Start
    <3>2. stack'[Len(stack')] = Bundle[f]
      BY <3>1
    <3>3. Bundle[f] = SubSeq(Bundle[f], 0 + 1, Len(Bundle[f])) /\ Len(Bundle[f]) \in Nat
      BY <2>1, BundleType, SubSeqFull
    <3>4. Includes(f, 0) \cap Unreadable = {}
      BY DEF Includes
    <3>5. 0 \in 0..Len(Bundle[f])
      BY <3>3
    <3> QED
      BY <2>1, <2>3, <3>1, <3>2, <3>3, <3>4, <3>5 DEF Read
  <2> QED
    BY <2>2, <2>3
(* The last of the open files is where it was, or an instruction further on. *)
<1>2. ASSUME status = "running", status' = "running", file' = file, stack # <<>>,
             stack'[Len(stack')] = Rest[Len(stack)], stack[1] # <<>>,
             stack[1][1].op = "include" => stack[1][1].file \notin Unreadable
      PROVE  Read'
  <2>1. PICK n \in 0..Len(Bundle[file]) :
           /\ stack[Len(stack)] = SubSeq(Bundle[file], n + 1, Len(Bundle[file]))
           /\ Includes(file, n) \cap Unreadable = {}
    BY <1>2 DEF Read
  <2>2. file \notin Unreadable
    BY <1>2 DEF Read
  <2>3. CASE Len(stack) = 1
    <3>1. stack'[Len(stack')] = Tail(stack[1])
      BY <1>2, <2>3, LastOfRest
    <3>2. \E k \in 0..Len(Bundle[file]) :
             /\ Tail(stack[1]) = SubSeq(Bundle[file], k + 1, Len(Bundle[file]))
             /\ Includes(file, k) \cap Unreadable = {}
      BY <1>0, <1>2, <2>1, <2>3, ReadOn
    <3> QED
      BY <1>2, <2>2, <3>1, <3>2 DEF Read
  <2>4. CASE Len(stack) # 1
    <3>1. stack'[Len(stack')] = stack[Len(stack)]
      BY <1>2, <2>4, LastOfRest
    <3> QED
      BY <1>2, <2>1, <2>2, <3>1 DEF Read
  <2> QED
    BY <2>3, <2>4
<1>3. CASE Apply
  <2>1. /\ status = "running" /\ status' = "running" /\ file' = file /\ stack # <<>>
        /\ stack[1] # <<>> /\ stack[1][1].op # "include" /\ stack' = Rest
    BY <1>3 DEF Apply, Running
  <2>2. Len(Rest) = Len(stack)
    BY <2>1, LastOfRest
  <2> QED
    BY <1>2, <2>1, <2>2
<1>4. CASE Include
  <2>1. /\ status = "running" /\ file' = file /\ stack # <<>> /\ stack[1] # <<>>
        /\ stack[1][1].op = "include" /\ status' \in {"running", "err", "overflow"}
    BY <1>4 DEF Include, Running
  <2>2. CASE status' # "running"
    BY <2>1, <2>2 DEF Read
  <2>3. CASE status' = "running"
    <3> DEFINE f == stack[1][1].file
    <3>1. f \notin Unreadable /\ stack' = <<Bundle[f]>> \o Rest
      BY <1>4, <2>3 DEF Include
    <3>2. /\ Len(stack) \in Nat \ {0} /\ Len(Rest) = Len(stack)
          /\ Rest \in Seq(Seq(Written)) /\ stack[1][1] \in Written
      <4>1. stack \in Seq(Seq(Written))
        BY DEF Lists
      <4>2. stack[1] \in Seq(Written) /\ Tail(stack) \in Seq(Seq(Written))
        BY <2>1, <4>1
      <4>3. stack[1][1] \in Written /\ Tail(stack[1]) \in Seq(Written)
        BY <2>1, <4>2
      <4>4. Rest \in Seq(Seq(Written))
        BY <4>2, <4>3, Alone, Joined DEF Rest
      <4> QED
        BY <2>1, <4>3, <4>4, LastOfRest
    <3>3. Bundle[f] \in Seq(Written)
      BY <2>1, <3>2, Fields, BundleType
    <3> DEFINE s == Bundle[f]
               r == Rest
    <3> HIDE DEF s, r
    <3>4. Len(<<s>> \o r) = Len(r) + 1 /\ (<<s>> \o r)[Len(r) + 1] = r[Len(r)]
      <4>1. s \in Seq(Written) /\ r \in Seq(Seq(Written)) /\ Len(r) \in Nat \ {0}
        BY <3>2, <3>3 DEF s, r
      <4> QED
        BY <4>1
    <3>5. stack'[Len(stack')] = Rest[Len(stack)]
      BY <3>1, <3>2, <3>4 DEF s, r
    <3> QED
      BY <1>2, <2>1, <2>3, <3>1, <3>5
  <2> QED
    BY <2>2, <2>3
<1>5. CASE EndFile
  <2>1. /\ status = "running" /\ file' = file /\ stack # <<>> /\ stack[1] = <<>>
        /\ stack' = Tail(stack) /\ status' = IF Tail(stack) = <<>> THEN "ok" ELSE status
    BY <1>5 DEF EndFile, Running
  <2>2. PICK n \in 0..Len(Bundle[file]) :
           /\ stack[Len(stack)] = SubSeq(Bundle[file], n + 1, Len(Bundle[file]))
           /\ Includes(file, n) \cap Unreadable = {}
    BY <2>1 DEF Read
  <2>3. file \notin Unreadable
    BY <2>1 DEF Read
  <2>4. Len(stack) \in Nat \ {0} /\ stack \in Seq(Seq(Written))
    BY <2>1, LastOfRest DEF Lists
  <2>5. CASE Len(stack) = 1
    <3>1. Tail(stack) = <<>> /\ status' = "ok"
      <4> DEFINE u == Tail(stack)
      <4>1. u \in Seq(Seq(Written)) /\ Len(u) = 0
        BY <2>1, <2>4, <2>5
      <4> HIDE DEF u
      <4>2. u = <<>>
        BY <4>1
      <4> QED
        BY <2>1, <4>2 DEF u
    <3>2. n = Len(Bundle[file])
      <4> DEFINE all == Bundle[file]
      <4>1. all \in Seq(Written) /\ Len(all) \in Nat
        BY <1>0, BundleType
      <4>2. SubSeq(all, n + 1, Len(all)) = <<>> /\ n \in 0..Len(all)
        BY <2>1, <2>2, <2>5
      <4> HIDE DEF all
      <4>3. \A j \in (n + 1)..Len(all) : all[j] \in Written
        BY <4>1, <4>2
      <4>4. Len(SubSeq(all, n + 1, Len(all))) = IF n + 1 <= Len(all) THEN Len(all) - (n + 1) + 1 ELSE 0
        BY <4>1, <4>2, <4>3, SubSeqProperties
      <4>5. Len(SubSeq(all, n + 1, Len(all))) = 0
        <5>1. Len(<<>>) = 0
          OBVIOUS
        <5> QED
          BY <4>2, <5>1
      <4> QED
        BY <4>1, <4>2, <4>4, <4>5 DEF all
    <3> QED
      BY <2>1, <2>2, <3>1, <3>2 DEF Read
  <2>6. CASE Len(stack) # 1
    <3>1. Tail(stack) # <<>> /\ Tail(stack)[Len(stack) - 1] = stack[Len(stack)]
      BY <2>1, <2>6, LastOfRest
    <3>2. Len(Tail(stack)) = Len(stack) - 1
      BY <2>1, <2>4
    <3> QED
      BY <2>1, <2>2, <2>3, <3>1, <3>2 DEF Read
  <2> QED
    BY <2>5, <2>6
<1>6. CASE Command \/ UNCHANGED vars
  BY <1>6 DEF Command, vars, Read
<1>7. CASE CommandFails \/ Kill
  BY <1>7 DEF CommandFails, Kill, Read
<1> QED
  BY <1>1, <1>3, <1>4, <1>5, <1>6, <1>7 DEF Next

(* The instructions begun are those of the files, in the order they are      *)
(* written with includes in their places, none left out and none after the   *)
(* first that fails, for every bundle and however deep includes are nested   *)
(* (libinstall/src/lib.rs:651-658).                                          *)
THEOREM DocumentOrderHolds == Spec => []DocumentOrder
<1>1. Inv /\ Types /\ Ordered /\ [Next]_vars => Ordered'
  BY OrderedNext DEF Inv, Types
<1>2. Inv /\ Ordered /\ Read /\ [Next]_vars => Read'
  BY ReadNext DEF Inv
<1>3. Inv /\ Types /\ [Next]_vars => Types'
  BY NextTypes DEF Inv
<1>4. Ordered /\ Read => DocumentOrder
  BY DEF Ordered, Read, DocumentOrder
<1> QED
  BY <1>1, <1>2, <1>3, <1>4, SpecInv, InitTypes, OrderedInit, ReadInit, PTL DEF Spec
=============================================================================
