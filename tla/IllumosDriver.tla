--------------------------- MODULE IllumosDriver ---------------------------
(***************************************************************************)
(* libsysconfig's illumos driver: what each instruction does to a system,  *)
(* one system call or command at a time.                                   *)
(*                                                                         *)
(* A handler reads what it needs when it is entered, so a call is the list *)
(* of effects it still has to perform (todo).  An effect may fail, stop    *)
(* half way, or, for File::write whose count is ignored, store less than   *)
(* it was given and still report success.                                  *)
(*                                                                         *)
(* Text is a sequence of lines, a line a sequence of words; a line of the  *)
(* shadow file is what module Shadow takes it for.                         *)
(***************************************************************************)
EXTENDS Instructions

CONSTANTS
    Absent,       \* the content of a file that does not exist
    Disks,        \* what a system may hold at the beginning
    MaxFaults     \* bound on failures, short writes and crashes

Systems == {"host", "image"}    \* "/" and what is mounted at the alternate root

Files == {"nodename", "hosts", "resolv.conf", "nsswitch.dns", "nsswitch.conf",
          "init", "shadow", ".UNCONFIGURED"}

SmfProps == {"keymap/layout", "ttymon/terminal_type"}

Items == Files \cup SmfProps

Line == [words: Seq(Word)]
Words(ws) == [words |-> ws]

LineOf(item) == IF item = "shadow" THEN ShadowLine ELSE Line

Disk == {d \in [Items -> {Absent} \cup Seq(Line \cup ShadowLine)] :
            \A i \in Items : d[i] \in {Absent} \cup Seq(LineOf(i))}

Object == Seq(Word)    \* a dataset or a terminal

(* The words the driver writes itself.                                      *)
Literals ==
    {"LANG", "TZ", "UTF-8", "nameserver", "domain", "search", "::1", "127.0.0.1",
     "dataset", "console-login"}

ASSUME DriverAssumption ==
    /\ Literals \subseteq Word
    /\ MaxFaults \in Nat
    /\ Disks \subseteq Disk
    /\ Absent \notin Seq(Line \cup ShadowLine)

VARIABLES
    disk,      \* disk[s][i]: content of item i of system s
    made,      \* <<s, o>>: object o exists in system s
    status,    \* of the driver call: "idle", "busy", "ok", "err", "panic"
    todo,      \* effects the call has still to perform
    short,     \* observer: a write of this run (or, when the program is not
               \* applying, of the last) stored less than it was given
    faults     \* failures so far

stored == <<disk, made>>
driverVars == <<disk, made, status, todo, short, faults>>

-----------------------------------------------------------------------------
(* Effects.                                                                 *)

Effect ==
    {e \in [do: {"truncate", "write", "write_all", "cp", "set"}, sys: Systems,
            on: Items, lines: Seq(Line \cup ShadowLine)] :
        e.lines \in Seq(LineOf(e.on)) /\ (e.do = "cp" => e.on = "nsswitch.conf")}
    \cup [do: {"run"}, sys: Systems, object: Object]

(* Path::join(root, path) is path when path is absolute, and every path
   constant of the driver is.                                               *)
AbsolutePaths == Files
SystemOf(root, file) == IF file \in AbsolutePaths THEN "host" ELSE root

Put(do, root, file, lines) ==
    [do |-> do, sys |-> SystemOf(root, file), on |-> file, lines |-> lines]

(* File::create followed by one File::write.                                *)
Replace(root, file, lines) ==
    <<Put("truncate", root, file, <<>>), Put("write", root, file, lines)>>

(* svccfg, which is given the alternate root when there is one.             *)
SetProp(root, prop, value) ==
    <<[do |-> "set", sys |-> root, on |-> prop, lines |-> <<Words(<<value>>)>>]>>

(* A faulty variant of Create: what exists is taken for what was asked.      *)
CreateUnlessMade(sys, object) ==
    IF <<sys, object>> \in made THEN <<>>
    ELSE <<[do |-> "run", sys |-> sys, object |-> object]>>

(* A command that creates an object and fails when there is one already.    *)
Create(sys, object) == <<[do |-> "run", sys |-> sys, object |-> object]>>

-----------------------------------------------------------------------------
(* The handlers: the effects of an instruction on the state they are
   entered in.                                                              *)

Content(root, file) == disk[SystemOf(root, file)][file]

(* The names in /etc/default/init that str::starts_with takes for the key.  *)
Beginning == [LANG |-> {"LANG", "LANGUAGE"}, TZ |-> {"TZ", "TZDIR"}]

StartsWith(line, key) ==
    line.words # <<>> /\ line.words[1] \in Beginning[key]

(* A faulty variant of SetInInit: the setting is a line of its own.          *)
AddToInit(root, key, setting) ==
    Replace(root, "init", Append(Content(root, "init"), setting))

(* set_locale, setup_timezone: every line that starts with the key becomes
   the setting; nothing is done when some line is the setting already.      *)
SetInInit(root, key, setting) ==
    LET old == Content(root, "init") IN
    IF \E i \in DOMAIN old : old[i] = setting
    THEN <<>>
    ELSE Replace(root, "init",
             [i \in DOMAIN old |-> IF StartsWith(old[i], key) THEN setting ELSE old[i]])

(* The suffix is appended unless the name contains UTF-8 in this case.      *)
FinalLocale(ins) ==
    IF ins.unicode /\ ~(\E i \in DOMAIN ins.name : ins.name[i] = "UTF-8")
    THEN Append(ins.name, "UTF-8")
    ELSE ins.name

LocaleSetting(ins) == Words(<<"LANG">> \o FinalLocale(ins))
TimezoneSetting(ins) == Words(<<"TZ", ins.name>>)

SetLocale(root, ins) == SetInInit(root, "LANG", LocaleSetting(ins))
SetupTimezone(root, ins) == SetInInit(root, "TZ", TimezoneSetting(ins))

(* Every line but the name servers' begins with a newline of its own.       *)
ResolvConf(ins) ==
    LET lines(word, values) ==
            [i \in DOMAIN values |-> Words(<<word, values[i]>>)]
        servers == lines("nameserver", ins.nameservers)
        rest == lines("domain", ins.domain) \o lines("search", ins.search)
    IN  (IF servers = <<>> /\ rest # <<>> THEN <<Words(<<>>)>> ELSE servers) \o rest

(* A faulty variant of SetupDns: the file is appended to.                    *)
SetupDnsAppending(root, ins) ==
    LET old == Content(root, "resolv.conf") IN
    Append(Replace(root, "resolv.conf",
                   (IF old = Absent THEN <<>> ELSE old) \o ResolvConf(ins)),
           Put("cp", root, "nsswitch.conf", <<>>))

SetupDns(root, ins) ==
    Append(Replace(root, "resolv.conf", ResolvConf(ins)),
           Put("cp", root, "nsswitch.conf", <<>>))

NodenameFile(hostname) == <<Words(<<hostname>>)>>
HostsFile(hostname) == <<Words(<<"::1", hostname>>), Words(<<"127.0.0.1", hostname>>)>>

SetHostname(root, ins) ==
    Replace(root, "nodename", NodenameFile(ins.name))
    \o Replace(root, "hosts", HostsFile(ins.name))

(* Without an entry for root nothing is written, and the call succeeds.     *)
SetRootPasswordHash(root, ins) ==
    LET old == Content(root, "shadow") IN
    IF HasEntry(ParseFile(old), "root")
    THEN <<Put("truncate", root, "shadow", <<>>),
           Put("write_all", root, "shadow", WithPassword(old, "root", ins.value))>>
    ELSE <<>>

(* zfs create knows no root: the dataset is one of the running system.      *)
DatasetObject(ins) == <<"dataset", ins.name>>
CreateDataset(ins) == Create("host", DatasetObject(ins))

SetupKeyboard(root, ins) == SetProp(root, "keymap/layout", ins.layout)

(* Only the type: a property is set; anything more: an instance (with a
   name) or a property group (without) is added first.  The type of the group
   is the console's, that of an instance its own; svccfg stops at an addition
   that fails.                                                              *)
TerminalObject(ins) == <<"console-login">> \o ins.name
OnlyType(ins) == ins.name = <<>> /\ ins.label = <<>>
SetsType(ins) == ins.op = "terminal" /\ ins.name = <<>>

SetType(root, ins) == SetProp(root, "ttymon/terminal_type", ins.type)

SetupTerminal(root, ins) ==
    IF OnlyType(ins) THEN SetType(root, ins)
    ELSE Create(root, TerminalObject(ins))
         \o (IF SetsType(ins) /\ <<root, TerminalObject(ins)>> \notin made
             THEN SetType(root, ins) ELSE <<>>)

(* The objects an instruction creates.                                      *)
Creates(ins) ==
    CASE ins.op = "dataset" -> {DatasetObject(ins)}
      [] ins.op = "terminal" /\ ~OnlyType(ins) -> {TerminalObject(ins)}
      [] OTHER -> {}

Effects(root, ins) ==
    CASE ins.op = "dataset"   -> CreateDataset(ins)
      [] ins.op = "locale"    -> SetLocale(root, ins)
      [] ins.op = "dns"       -> SetupDns(root, ins)
      [] ins.op = "password"  -> SetRootPasswordHash(root, ins)
      [] ins.op = "hostname"  -> SetHostname(root, ins)
      [] ins.op = "keymap"    -> SetupKeyboard(root, ins)
      [] ins.op = "timezone"  -> SetupTimezone(root, ins)
      [] ins.op = "terminal"  -> SetupTerminal(root, ins)

(* setup_interface and add_route: ipadm is run without create-addr and route
   without add, in every case, so that both only tell how they are used and
   fail.                                                                    *)
Misused(ins) == ins.op \in {"route", "interface"}

ShadowReadable(root) ==
    Content(root, "shadow") # Absent /\ Parses(Content(root, "shadow"))

(* A faulty variant of Refuses: the name files must not exist yet.           *)
RefusesToReplace(root, ins) ==
    \/ Misused(ins)
    \/ ins.op = "hostname" /\ Content(root, "nodename") # Absent
    \/ ins.op = "password" /\ (ins.kind = "clear" \/ ~ShadowReadable(root))
    \/ ins.op \in {"locale", "timezone"} /\ Content(root, "init") = Absent

(* The handler returns an error before it changes anything.                 *)
Refuses(root, ins) ==
    \/ Misused(ins)
    \/ /\ ins.op = "password"
       /\ \/ ins.kind = "clear"
          \/ ~ShadowReadable(root)
    \/ ins.op \in {"locale", "timezone"} /\ Content(root, "init") = Absent

(* unimplemented!()                                                         *)
Panics(ins) == ins.op = "timeserver"

-----------------------------------------------------------------------------
(* The steps of a call.                                                     *)

Fault == faults < MaxFaults /\ faults' = faults + 1

Enter(root, ins) ==
    /\ status = "idle"
    /\ ~Panics(ins) /\ ~Refuses(root, ins)
    /\ status' = "busy"
    /\ todo' = Effects(root, ins)
    /\ UNCHANGED <<disk, made, short, faults>>

EnterRefused(root, ins) ==
    /\ status = "idle"
    /\ Panics(ins) \/ Refuses(root, ins)
    /\ status' = IF Panics(ins) THEN "panic" ELSE "err"
    /\ UNCHANGED <<disk, made, todo, short, faults>>

NewLines(e) == IF e.do = "cp" THEN disk[e.sys]["nsswitch.dns"] ELSE e.lines

(* A command that cannot succeed in this state.                             *)
Rejected(e) ==
    \/ e.do = "run" /\ <<e.sys, e.object>> \in made
    \/ e.do = "cp" /\ disk[e.sys]["nsswitch.dns"] = Absent

(* The effect has stored its first n lines, or made its object.             *)
Perform(e, n) ==
    \/ /\ e.do = "run"
       /\ made' = made \cup {<<e.sys, e.object>>}
       /\ UNCHANGED disk
    \/ /\ e.do # "run"
       /\ disk' = [disk EXCEPT ![e.sys][e.on] = SubSeq(NewLines(e), 1, n)]
       /\ UNCHANGED made

Size(e) == IF e.do = "run" THEN 0 ELSE Len(NewLines(e))

Step ==
    /\ status = "busy" /\ todo # <<>>
    /\ ~Rejected(Head(todo))
    /\ Perform(Head(todo), Size(Head(todo)))
    /\ todo' = Tail(todo)
    /\ UNCHANGED <<status, short, faults>>

(* dest.write returns Ok with the number of bytes it stored; nobody looks.  *)
ShortWrite ==
    /\ status = "busy" /\ todo # <<>> /\ Head(todo).do = "write"
    /\ \E n \in 0..(Size(Head(todo)) - 1) : Perform(Head(todo), n)
    /\ todo' = Tail(todo)
    /\ short' = TRUE
    /\ Fault
    /\ UNCHANGED status

StepRejected ==
    /\ status = "busy" /\ todo # <<>>
    /\ Rejected(Head(todo))
    /\ status' = "err"
    /\ todo' = <<>>
    /\ UNCHANGED <<disk, made, short, faults>>

(* What is left of the first effect when it stops half way.  The repository
   of SMF takes a property whole or not at all.                             *)
Interrupted ==
    \/ UNCHANGED stored
    \/ /\ todo # <<>>
       /\ ~Rejected(Head(todo))
       /\ \E n \in 0..Size(Head(todo)) :
            /\ Head(todo).do = "set" => n = Size(Head(todo))
            /\ Perform(Head(todo), n)

(* A system call or command fails, or one before the first effect (the read
   of the file); `?` ends the handler.                                      *)
StepFails ==
    /\ status = "busy"
    /\ Interrupted
    /\ status' = "err"
    /\ todo' = <<>>
    /\ Fault
    /\ UNCHANGED short

Return ==
    /\ status = "busy" /\ todo = <<>>
    /\ status' = "ok"
    /\ UNCHANGED <<disk, made, todo, short, faults>>

(* A call that was entered, without the failures nobody asked for.          *)
Proceed == Step \/ StepRejected \/ Return

DriverInit ==
    /\ disk \in [Systems -> Disks]
    /\ made = {}
    /\ status = "idle"
    /\ todo = <<>>
    /\ short = FALSE
    /\ faults = 0

-----------------------------------------------------------------------------
(* What an instruction that returned Ok promises.                           *)

(* The effects of the pending call that will store an item.                 *)
Pending(s, i) ==
    {k \in DOMAIN todo : /\ todo[k].do \in {"write", "write_all", "cp", "set"}
                         /\ todo[k].sys = s /\ todo[k].on = i}

(* What an item holds, and which objects exist, once the pending call has
   performed what it has still to do.                                       *)
Due(s, i) ==
    IF Pending(s, i) = {} THEN disk[s][i]
    ELSE NewLines(todo[CHOOSE k \in Pending(s, i) : TRUE])

DueMade(s, o) ==
    \/ <<s, o>> \in made
    \/ \E k \in DOMAIN todo : todo[k].do = "run" /\ todo[k].sys = s /\ todo[k].object = o

(* The file has the setting, or has no line with the key to put it in.      *)
Settled(lines, key, setting) ==
    /\ lines # Absent
    /\ \/ \E i \in DOMAIN lines : lines[i] = setting
       \/ \A i \in DOMAIN lines : ~StartsWith(lines[i], key)

(* The first line of root carries the hash, unless a mark hides it.         *)
PasswordSet(lines, h) ==
    /\ lines # Absent
    /\ HasEntry(lines, "root") => lines[FirstOf(lines, "root")].pw \in Mark \cup {h}

InPlace(root, ins) ==
    LET file(f) == Due(SystemOf(root, f), f) IN
    CASE ins.op = "dataset"   -> DueMade("host", DatasetObject(ins))
      [] ins.op = "locale"    -> Settled(file("init"), "LANG", LocaleSetting(ins))
      [] ins.op = "timezone"  -> Settled(file("init"), "TZ", TimezoneSetting(ins))
      [] ins.op = "dns"       -> /\ file("resolv.conf") = ResolvConf(ins)
                                 /\ file("nsswitch.conf") = Content(root, "nsswitch.dns")
                                 /\ Content(root, "nsswitch.dns") # Absent
      [] ins.op = "password"  -> /\ ins.kind = "hash"
                                 /\ PasswordSet(file("shadow"), ins.value)
      [] ins.op = "hostname"  -> /\ file("nodename") = NodenameFile(ins.name)
                                 /\ file("hosts") = HostsFile(ins.name)
      [] ins.op = "keymap"    ->
            Due(root, "keymap/layout") = <<Words(<<ins.layout>>)>>
      [] ins.op = "terminal"  ->
            /\ ~OnlyType(ins) => DueMade(root, TerminalObject(ins))
            /\ SetsType(ins) =>
                  Due(root, "ttymon/terminal_type") = <<Words(<<ins.type>>)>>
      [] OTHER -> FALSE

(* Two instructions that write the same place: the later one counts.        *)
Overrides(later, ins) ==
    \/ later.op = ins.op /\ ins.op \notin {"dataset", "terminal"}
    \/ SetsType(later) /\ SetsType(ins)

DriverTypeOK ==
    /\ disk \in [Systems -> Disk]
    /\ made \subseteq Systems \X Object
    /\ status \in {"idle", "busy", "ok", "err", "panic"}
    /\ todo \in Seq(Effect)
    /\ short \in BOOLEAN
    /\ faults \in 0..MaxFaults
=============================================================================
