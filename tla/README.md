# A verification project for illumos-installer

TLA+ models of illumos-installer's programs and libraries, TLC runs over small
instances of them, and TLAPS proofs of what holds for every instance.
References are to files of the repository, `path:line`.

Contents: [the system](#the-system), [modules](#modules), [runs](#runs),
[bounds](#bounds), [fairness](#fairness), [proofs](#proofs),
[where the code and its text disagree](#where-the-code-and-its-text-disagree),
[readings and assumptions](#readings-and-assumptions),
[not modelled](#not-modelled), [plan](#plan).

## The system

The workspace holds two programs in use (`sysconfig`, `passutil`), a converter
(`sysconfigen`) and the libraries below. There is no server and no thread
outside the image download; what makes the code hard is that it edits the only
copy of system files in place, runs external commands that are not idempotent,
and is started again by SMF after a failure or a crash.

| Component | State it keeps | Operations | What makes it correct |
|---|---|---|---|
| `libshadow` | the entries of `/etc/shadow` in memory | parse, `get_entry`, `insert_or_update`, `set_password_hash`, `update_password_hash`, serialize | what was not edited is kept; a file that was read stays readable; marks keep accounts locked |
| `passutil` | none of its own | print a shadow file with one password changed | the same |
| `libsysconfig` illumos driver | files under `/etc`, the SMF repository, datasets | one handler per instruction | Ok means the instruction is in place; failures can be retried; other lines and accounts are kept |
| `libsysconfig` `Image`, mock driver | root path and choice of driver | `apply_instruction(s)` | the mock driver changes nothing |
| `sysconfig` | `config/finished` in the SMF repository | check the guard, load, apply, set the guard, refresh | the guard is set only over a configured system, and stops later runs |
| `libcfgparser`, `libsysconfig` keyword parser | the options and arguments of the command being read | text to keywords to instructions | a command reaches no other one; what comes out is what the driver takes |
| `sysconfigen` | the output file | convert a text to JSON, YAML or RON | a build that fails leaves nothing that is loaded |
| `libinstall` `ensure` | one path of the file system | `perms`, `directory`, `removed`, `filestr`, `file`, `symlink` | Ok means the path is as asked; repeating is harmless; races do no damage |
| `libinstall` install engine | pools, boot environments, mounts, the temporary archive | one function per instruction; a download in a second thread | instructions run in the order they are written; the host's pools are left alone; the whole image is unpacked, or the call fails |
| `libinstall` `zfs` | pools, datasets, snapshots | set, get, create, remove, export, snapshots | answers are true when given; retries end |
| `libimgapi`, `illumos` crate, packaging | none | data types; an empty submodule; build files | - |

Interactions. SMF starts `sysconfig` (`sysconfig/sysconfig.xml`). `main` asks
`svcprop` whether `config/finished` is true, loads the instructions and hands
them one by one to `Image::apply_instruction`, which calls the illumos or the
mock driver. Instructions come from a text through `libcfgparser` and
`parse_keywords`, or from JSON, YAML or RON that `sysconfigen` made of such a
text. A driver handler reads and writes files directly, calls `libshadow` for
the password and runs `zfs`, `ipadm`, `route`, `cp` and `svccfg` for the rest.
The first error ends `main`. After the last instruction `main` sets the guard
with `svccfg setprop` and copies it into the running snapshot with
`svccfg refresh`.

`libinstall` stands apart. It reads a file of instructions that may include
others, takes them in order and calls `ensure`, `zfs` and external commands for
each; `install_image` starts one thread that downloads and reports its progress
over a channel and one that receives, joins both, and unpacks the archive.

The hard behaviours: a failure or kill between two system calls (a file is
truncated before it is written, one of two commands has run); a write that
stores less than it was given and reports success; the next run over what the
last one left (a pool that exists, an archive from an earlier call); commands
that fail when their object exists; the guard being set in one place and read in
another; another process at a path between check and use, or at a pool between
two tries; threads that wait for one another; two names for one pool; numbers
that double as "not set"; endless retries. `PROJECT.json` lists each hazard at
its line.

## Modules

| Module | Models | State and actions |
|---|---|---|
| `Shadow` | `libshadow/src/lib.rs`, `shadow.pest` | constant operators only: `ParseFile`, `Serialize`, `GetEntry`, `InsertOrUpdate`, ... A file is a sequence of lines, a line a record of fields |
| `ShadowEdit` | `passutil`, other clients of `libshadow` | `disk` is the file, `mem` the parsed `ShadowFile`; `Load`, `SetPassword`, `CopyEntry`, `Store` |
| `Instructions` | `libsysconfig/src/lib.rs`, `Instruction` | the instructions and their fields; constant operators only |
| `IllumosDriver` | `libsysconfig/src/illumos_driver.rs` | `disk[s][i]` is the content of item `i` (a file or an SMF property) of system `s`, `made` the objects commands create. A handler is the sequence of *effects* it performs, computed from the state it is entered in because every handler reads what it needs before its first write; `Enter`/`EnterRefused` start a call, `Step` performs one effect, `ShortWrite`, `StepFails`, `Interrupted` are the ways it goes wrong, `Return` ends it |
| `Sysconfig` | `sysconfig/src/main.rs`, `Image`, mock driver | `phase` is where `main` is, `next` the instruction, `finished` the guard (current and running), `config` the file; one action per step of `main`, plus `MainFails` and `Crash` |
| `RunOnce` | abstract specification of the service | `system`, whether the configuration is `applied`, and the mark `done`; `Work` as long as it is not done, `Finish` when it is applied |
| `CfgParser` | `libcfgparser` | constant operators: the grammar over tokens (`IsConfig`) and `ParseConfig` |
| `SysconfigKeywords` | `libsysconfig` `parse_keywords`, `keywords.rs` | constant operators: `ParseKeywords` gives instructions, an error or a panic |
| `PoolKeywords` | `libinstall`'s `zpool-create`: `parse_keywords` and the arguments `create_pool` builds | constant operators: `Vdevs`, `PoolOptions`, `ZpoolArguments`, `BehindName` |
| `TextToInstructions` | an author at work | `text` grows by a token; the properties look at what the operators above make of every text |
| `Sysconfigen` | `sysconfigen/src/main.rs`, the loader of `sysconfig` | `out` is the output file as far as it is written; `Build`, `Parse`, `BeginInstruction`, `EndInstruction`, `Finish`, `Fail`; `LoadedBy` is what `sysconfig` makes of it at any moment |
| `Ensure` | `libinstall/src/ensure.rs` | `node` is what is at the path, `pc` the next system call, `fi` the `FileInfo` that `perms` holds, `mine` whether the open file is still the one at the path; one action per system call, plus `Fault` and `Interfere` |
| `Fetch` | abstract specification of `install_image` | `outcome` and what this call `unpacked`; `Begin`, `Succeed`, `Fail` |
| `Download` | `install_image`, `download_file` | a program counter for main, sender and receiver each, the channel with both its ends, the temporary file; one action per step that another thread can see, plus `Kill` |
| `Install` | `apply_instruction` and what it calls | `stack` holds the instructions left of each open file, `todo` the commands the present one has left, and `pools`, `datasets`, `mounts`, `bootfs` what they make; `Apply`, `Include`, `EndFile`, `Command`, `CommandFails`, `Kill` |
| `Zfs` | `libinstall/src/zfs.rs` | pools, datasets, snapshots; `Call`, `Command` (one try), `Fault`, and other processes: `Use`, `Import`, `RemoveOther` |
| `MC...` | - | values of the constants for TLC |
| `ShadowProofs`, `EditProofs`, `SysconfigProofs`, `DownloadProofs`, `EnsureProofs`, `InstallProofs`, `ZfsProofs`, `TextProofs` | - | theorems and their lemmas |

`Sysconfig` extends `IllumosDriver`, which extends `Shadow` and `Instructions`:
one run of the program is `Start`, `CheckFinished`, `Load`, then for each
instruction `Apply`, steps of the driver and `Applied` or `ApplyFailed`, then
`ApplyDone`, `SetFinished`, `Refresh`. `Sysconfig` instantiates `RunOnce`.
`SysconfigKeywords` and `PoolKeywords` stand on `CfgParser`, `Sysconfigen` on
`SysconfigKeywords`; what they produce are the instructions `IllumosDriver`
takes. `Download` instantiates `Fetch`, and `Install` takes a download for the
one step of `Fetch` that succeeds or fails. `Install` likewise takes each call
of `ensure` and `zfs` for one command that succeeds or fails.

A definition described as "a faulty variant" is what the definition after it
would be with a plausible bug. It is used nowhere in the models; putting it in
the place of the definition it varies breaks the property `PROJECT.json` pairs
it with, which shows that the property says something about the code.

## Runs

All modules are checked with `tlc -config <cfg> <module>`.

| Configuration | Question | Result |
|---|---|---|
| `MCShadowEdit` | Which edits of a shadow file keep what was not edited? | `OthersKept`, `MarksKept`, `StaysReadable` hold |
| `MCSysconfig` | What do runs that fail, die and are repeated leave, and does the service finish in the end? | `FinishedMeansApplied`, `RunGuard`, `InitFileKept`, `AccountsKept`, `RerunChangesNothing` hold, and the program implements `RunOnce`; the service finishes or is wedged for ever, and `Wedged` tells the two apart: `FinishesOrWedges`, `WedgedForGood`, `Converges` |
| `MCTextToInstructions` | What can come out of a text? | `PasswordsArriveHashed`, `ReadApart`, `LayoutKept` hold |
| `MCSysconfigen` | What can be loaded before, during and after a build? | `WholeOrNothing` holds |
| `MCEnsure` | What does Ok of an `ensure` function promise, against failures and one step of another process, and does repeating a call get there? | `EnsuredOnReturn`, `QuietMeansUntouched`, `SecondCallQuiet`, `StaysOnPath`, `FilestrKeeps`, `Converges` hold |
| `MCDownload` | Do the threads of `install_image` end, and what does its Ok say? | `Returns`, `OkNeedsDownload`, `CutShortFails` hold, and the threads implement `Fetch` |
| `MCZfs` | Are answers true, and do retries end? | `AnswersTrue`, `ExportEnds` hold |
| `MCInstall` | What do bundles do to a host, run after run? | `DocumentOrder`, `HostPoolsKept`, `PoolsNeverFinish` hold |
| `MCShadowInsert` (`MCShadowEdit`), `MCSysconfigAltRoot`, `MCSysconfigLang` (both `MCSysconfig`), `MCEnsureFile` (`MCEnsure`) | Does the code do what the repository says of it? | `EditedPresent`, `AltRootLeavesHostAlone`, `OnlyLangLines`, `FileKeeps` are violated, see [below](#where-the-code-and-its-text-disagree) |

What the passing runs say, with their qualifications:

* `FinishedMeansApplied` excepts runs with a short write. `File::write` returns
  a count nobody looks at (`libsysconfig/src/illumos_driver.rs:222` and four
  more), so a short write does end in a guard over a truncated file.
  "In place" is also what the code makes of a file without a `LANG` or `TZ`
  line, which it leaves as it is and reports as done; and a password hidden by a
  mark. `InPlace` of module `IllumosDriver` says so instruction by instruction.
* `ImplementsRunOnce` maps `applied` to "all in place, or a write was short",
  for the same reason. Runs with an alternate root are left out: they edit the
  running system (disagreement 2) and set no guard.
* `InitFileKept` holds in every step only as "no line is added"; that every line
  stays in its place, and is replaced by one of its own kind if at all, holds as
  long as no step fails. A kind is what `starts_with` takes for one, so that
  `LANGUAGE` and `TZDIR` lines are overwritten with the others (disagreement 3).
  A kill between `File::create` and `write` (`illumos_driver.rs:332-333`) loses
  the file, and the next run succeeds over the empty one.
* `OthersKept` compares files as `libshadow` reads and prints them: a `lastchg`
  or `flag` of 0 disappears. It allows an edited user without a line to get one
  at the end, which is what `insert_or_update` says it does and does not
  (disagreement 1). `MarksKept` excepts the users whose whole entry may come
  from another file. In `RerunChangesNothing` the shadow file is compared
  in the same way.
* `Wedged` is the state that retries cannot leave: an object that an
  instruction creates exists already, a file it reads is missing or unreadable,
  or the instruction always fails or panics, as every route and interface does.
  A failure after a `zfs create` or `svccfg add` leads there (`Creating` in
  `MCSysconfig`).
* `StaysOnPath` excepts a call during which another process changed the path: a
  link put there between the `lstat` and the `chmod` of `perms` is followed. A
  link that was there when the call began is not. `Ensure!Converges` excepts
  what a call refuses to touch.
* `PasswordsArriveHashed` is needed because the driver turns down a clear
  password only when it comes to it, after other instructions were applied.
* `LayoutKept` speaks of a `zpool-create` without options whose groups come
  first, or of a single disk: a plain disk in front of a group joins the group
  (`libinstall/src/lib.rs:266-296`), and two plain disks are refused.
* `WholeOrNothing` excepts YAML, where the beginning of a document is a
  document; and while what is loaded is never a part, the configuration that was
  there before the build is destroyed by it (`sysconfigen/src/main.rs:91`).
* `OkNeedsDownload` says that Ok takes an awaited download and a source without
  a slash: `rsplitn(1, '/')` does not split (`lib.rs:609`), so the temporary
  file of any URL lies in directories that nobody makes. No call with a real
  URL ends in Ok.
* `Returns` excepts a server that never answers: the HTTP client is made without
  a timeout (`lib.rs:607`) and `main` joins the downloading thread without one
  (line 628).
* `CutShortFails`: the receiver leaves after one message, so whether a download
  of more than one chunk goes on is a race; the sender's error is lost, but what
  it leaves does not pass for an image.
* `AnswersTrue`: an answer is true of the moment it is got; others may change it
  at once. Removing a snapshot that is not there is an error and not "false",
  since `zfs destroy` complains in other words than `snapshot_remove` looks for.
* `ExportEnds` needs that the pool is not used for good in the end. While it is
  used, `pool_export` waits for ever (`zfs.rs:157-164`).
* `DocumentOrder` is what makes nested includes one list of instructions. A file
  that includes itself uses up the stack; that is `"overflow"`.
* `PoolsNeverFinish`: whichever of the two ways the undeclared `pool_name`
  (`lib.rs:591`) is read, making a pool bootable fails, because the prefix is
  added once too few or once too often (`lib.rs:489-498`). That the pool stays
  imported is in the model and not in the formula.
* `HostPoolsKept` excepts, in the reading of `pool_name` as the target's name,
  runs that make a pool named like an imported one, which get a boot environment
  made in the host's pool; and datasets that an instruction asks for by name.

Deadlock is checked in every run but `MCTextToInstructions`, where a text of
full length is the end.

## Bounds

* `MaxFaults = 2` in `Sysconfig`, `Ensure` and `Install`: one failure may leave
  something behind and a second may hit the run that meets it. Faults are failed
  calls, short writes and kills. One counter for all keeps combinations of two
  different ones. `Sysconfigen` has 3, one for each phase; `Zfs` has 1, because
  nothing but the call it hits remembers a failed command. `Download` needs
  none: calls and kills are unbounded and the state space is finite.
* Configurations of two to six instructions which between them hold every
  instruction, two writes of the same place, an instruction that panics, ones
  that are refused (a clear password, a route, an interface) and the hash that the
  grammar does not read. Numbers of
  instructions matter only through pairs: what one leaves for the next one or
  for itself when it is repeated.
* Disks: as installed; `LANGUAGE` and no `TZ` line, root marked; `init` missing;
  `shadow` and `nsswitch.dns` missing.
* `MCShadowEdit`: files of up to three lines with a repeated user, every mark,
  an odd hash, numbers 0 to 5 with `MaxI64 = 3`, so that a number that does not
  fit occurs. There is no bound on the number of edits.
* `MCEnsure`: six nodes covering every type with right and wrong contents,
  modes and owners, two umasks, two faults and one step of another process. A
  second interference adds no new order relative to the checks of one call. A
  caller makes any mixture of calls, or the same one over and over, which is
  what `Converges` is about.
* `MCTextToInstructions`: five tokens hold two commands with an operand each and
  the newline between them, or one command with what the grammar and
  `parse_keywords` tell apart; behind `zpool-create` and a name, four operands
  hold two groups of one disk or one group of three, an option twice, or a plain
  disk before a group.
* `MCSysconfigen`: texts of two commands, of one, with an unknown keyword, with
  a keyword that panics, and one that the grammar turns down, in each format and
  one after the other.
* `MCDownload`: images of 0 to 3 chunks: none, one (the receiver's only
  message), one on either side of the receiver's end, and one more.
* `MCZfs`: a pool, a dataset in a dataset, a name with an `@`, a snapshot and one
  that is refused; other processes act without bound.
* `MCInstall`: a host with two pools; bundles that make a pool of a new name, of
  the host's and of the data pool's, install an image, include others, one that
  is missing, and themselves. `MaxDepth = 4` stands for the depth at which the
  stack is used up; includes that end are two deep.

## Fairness

`Sysconfig!FairSpec` gives weak fairness to `Run`, the steps of a started
process that are not failures (the kernel schedules it and commands return), and
strong fairness to `Start("smf")`: SMF starts a transient service at every boot
and when an operator clears it, with no limit on attempts
(`sysconfig/sysconfig.xml`, `duration` transient, `timeout_seconds` 0). It is
strong because runs do not overlap in the model: a run with the mock driver,
however often somebody makes one, does not keep SMF from starting the service.
Failures, kills and short writes have none, and are finitely many through
`MaxFaults`, so "in the end" reads "once failures stop". `Ensure!FairSpec` gives
it to the steps of a call and to the caller's repetition, and to no failure and
no other process.

`Download!FairSpec` gives weak fairness to what each of the three threads does by
itself, since the kernel runs them side by side, and none to `Network`, a request
or a chunk that is waited for: `Client::new()` sets no timeout (`lib.rs:607`).
Nothing obliges a kill, or another call. `Zfs!FairSpec`
gives it to `Command`: a command that was started ends, and the sleep between
two tries is a second (`zfs.rs:160`). Nothing obliges another process to let go
of a pool, which is why `ExportEnds` assumes it.

## Proofs

`tlapm` checks `ShadowProofs`, `EditProofs`, `SysconfigProofs`,
`DownloadProofs`, `EnsureProofs`, `InstallProofs`, `ZfsProofs` and `TextProofs`.
Assumptions are the named ASSUMEs of the models:

* `ShadowAssumption`: alphanumeric users are users, plain hashes are hashes, the
  marks and the empty text are not hashes;
* `DonorAssumption`: the files of `ShadowEdit` are sequences of shadow lines, and
  the donor parses;
* `DriverAssumption`: the driver's own words are words, initial disks are well
  formed, and `Absent` is no content of a file;
* `SysconfigAssumption`: configurations are sequences of instructions;
* `DownloadAssumption`: sizes are natural numbers;
* `EnsureAssumption`: nodes, calls and defaults are of their types, and the
  missing node is no node;
* `InstallAssumption`: bundles are sequences of instructions, and no pool of the
  host has the prefix of an installer's;
* `ZfsAssumption`: datasets are non-empty sequences of names, and what a dataset
  lies in is a dataset;
* `CfgParserAssumption`, `KeywordsAssumption`, `PoolKeywordsAssumption`,
  `TextAssumption`: command words are cut into at most two words, numbers are
  words, what is generated for a password is a plain hash, and texts are made of
  tokens;
* `SysconfigenAssumption`: what is built are texts, and what a scalar that is cut
  short may be taken for are instructions.

No bound is assumed: the theorems hold for every configuration, disk, set of
users and hashes, image, path, call, bundle, set of datasets and text of any
length, and any `MaxFaults`.

* `TypeCorrect`: `Spec => []TypeOK` of `Sysconfig`. The content is in the files:
  whatever a handler parses, edits, prints and writes, in whole or in part,
  `/etc/shadow` is a sequence of shadow lines with numbers that are natural
  numbers, and text files are sequences of text lines. `ShadowProofs` shows that
  parsing yields entries, that editing keeps them and that printing yields lines
  again; the key fact is that a column holds a natural number or its own "not
  set" value, which is exactly the one `PrintNum` leaves out. `SysconfigProofs`
  shows that each handler's effects are well typed in the state it is entered in
  and that each step keeps `DriverTypeOK`, and then has one step per action of
  `main`.
* `RunGuardHolds`: `Spec => RunGuard`. `RunGuard` speaks of one step, and is not
  inductive: it needs that a run under SMF past the check found the guard unset,
  and that nobody but a run that is applying with the illumos driver has a call
  pending. `GuardInv` states both; with it the only actions that change what is
  stored (`DriverStep`, `DriverFault`, `Crash`) need a busy driver, hence a run
  that `RunGuard` does not speak of.
* `InitFileKeptHolds`, `AccountsKeptHolds`: both compare the files before and
  after a step as they will be when the pending call is through (`Due`), and so
  need to know what a pending call may hold. `PlanInv` says that its effects
  follow a plan (`Planned`: a file is truncated once and then written, nothing
  else touches it, only items of the instruction at hand are touched, and only its
  first effect makes an object; `Sensible`: where that object exists, nothing but
  its making is planned), and that `/etc/default/init` is never due to get shorter
  (`InitSafe`). With it no
  step but `Apply` changes what is due, unless it fails (`StepShape`, `DueKept`),
  and what `Apply` makes due is the old file with its lines rewritten
  (`EffectsPlan`, `RewrittenLines`, `RootPasswordLines`). `Progress` ties the
  call to the instruction at `next`.
* `RerunChangesNothingHolds`: for every configuration in place. `EnterAgain`
  shows, instruction by instruction, that carrying it out where it is in place
  makes nothing else due; shadow is compared as it is parsed.
* `FinishedMeansAppliedHolds` and `OnceImplemented`: `Spec =>
  []FinishedMeansApplied` and `Spec => ImplementsRunOnce`, assuming that no run
  is for an alternate root (`"altroot" \notin Modes`). With one both are false,
  since such a run edits the files of the running system and can undo or truncate
  what the guard vouches for (disagreement 2). The invariant is `Applying`: the
  instructions before `next` are in force, that is in place or replaced by a
  later one before `next`; the one at hand will be when its call is through, or
  the call cannot come to its end (`CannotEnd`: its `cp` has no file to copy, or
  what it makes exists); and from the end of the
  last one to the guard and after it, all are. `EnterPuts`, `EnterKeeps` and
  `StepKeeps` show that entering puts an instruction in place, keeps those it
  does not replace, and that no step of its plan undoes either. `OnceStep` then
  maps every step to one of `RunOnce` or to a stutter.
* `WedgedForGoodHolds`: a property of two moments, though a safety property.
  `Stuck` is an invariant from the first moment on: some instruction is lost
  (`Hopeless`: its object exists, a file it reads is missing or does not parse,
  it is a route or an interface, or it panics), and no run under SMF has come
  past it. `LostStays` shows that nothing mends it. An unreadable shadow file is
  lost only when no call is about to fill it, because between a truncation and
  its write it is empty, which does not parse either.
* `EditTypeCorrect`, `OthersKeptHolds`, `MarksKeptHolds`, `StaysReadableHolds`:
  all properties of `ShadowEdit`, for every file, donor, set of users and hashes
  and any number of edits. `OthersKept` and `MarksKept` compare the file before
  and after a `Store`, and what a store prints was put into memory by the edits
  before it, so they need an invariant over both: `MemInv` says that memory has
  one entry per line in the same order, that the entry of a line no edit may
  have touched is that line as it was parsed, and that the entry of a marked
  line still prints its mark. `InsertOrUpdate` keeps it because it replaces the
  first entry of a user by one of the same user; `StoreStep` turns it into what
  the new file holds. `StaysReadable` also needs that no number in memory is
  beyond `MaxI64` and that what is loaded came from a file that parses
  (`ReadInv`).
* `EnsureTypeCorrect`, `EnsuredOnReturnHolds`, `QuietMeansUntouchedHolds`,
  `SecondCallQuietHolds`, `StaysOnPathHolds`, `FilestrKeepsHolds`: all safety
  properties of `Ensure`, for all arguments, nodes and numbers of failures and
  of steps of others. None but `TypeOK` is inductive, since each speaks of the
  end of a call. `Inv` adds what holds on the way there: a file the call opened
  is at the path (`Held`); where in the call each function can be (`Routed`);
  and, as long as nobody has `touched` the path since the call began, what it
  looks at is what it found (`Seen`), which is no link where it changes a mode;
  what `did_work` records is what happened (`Reported`); and a repetition of a
  call that returned Ok starts from what that call left (`Repeated`).
  `FilestrKeeps` is about every step and holds with other processes, because
  `create_new` does not open a file that is there.
* `DownloadTypeCorrect`, `OkNeedsDownloadHolds`, `FetchImplemented`: for images
  of any number of chunks. The argument is that a message vouches for the
  temporary file: if the channel holds one, the receiver got one, or main is past
  the receiver, then the future was awaited, the name has no slash, at least one
  chunk was written and the file is this call's. `tar` succeeds on a whole
  archive only, so Ok means the whole image, though the sender's result was
  thrown away. `StepRefines` shows step by step that every action of the threads
  is one of `Fetch` or leaves `Fetch`'s variables as they are.
* `PoolsNeverFinishHolds`, `HostPoolsKeptHolds`, `InstallTypeCorrect`: for every
  bundle and host and any number of runs. `Left` says that what is left to do is
  what the last instruction begun asks for (`Due`), hence that a boot file
  system is always set to a dataset whose pool has one prefix more than the pool
  it is set on, in either reading of `pool_name`; `InstallerName` shows that the
  two names differ, so that command never works. `Doomed` follows a run: once it
  has begun to create a pool there is a command ahead that fails, a command that
  works is never that one, and so the run cannot come to its end. For
  `HostPoolsKept`, the only datasets made are those of a pool of the run's own
  and those that an instruction names. `InstallTypeCorrect` rests on the same
  `Left`: datasets are made in the pool the command finds imported, images are
  unpacked for the pool the instruction names, and, since no boot file system
  can be set at all, none is set that is not there.
* `DocumentOrderHolds`: for every bundle and depth of includes. `Ordered` says
  that while a run reads, what was begun and what is left of the open files
  (`Ahead`) make up the file with its includes in their places, `Flat`, and that
  afterwards what was begun is the beginning of it; `Read`, that what was passed
  of the outermost file is readable, so that a run that came to its end passed
  all of it. Both need what `Flat` and `FlattenSeq` compute, for every depth and
  length: `AllNumbers` gives induction over the natural numbers as the
  well-foundedness of a set, and with it `FlattensExists` and `FlatForm` show
  that the recursive functions are what their definitions say.
* `ZfsTypeCorrect`, `AnswersTrueHolds`: for every set of datasets and whatever
  others do. `TypeOK` is inductive: what a dataset lies in is there, because
  `create` asks for its parents or makes them and `destroy` takes what lies in a
  dataset along (`EffectKept`, with `GrandParents` and `PrefixOfParent`);
  and no snapshot is there twice, which is what makes the position `SnapIndex`
  finds the only one, so that removing it removes the snapshot (`RemovedSnap`).
  `AnswersTrue` speaks of one step: what a command that worked changed
  (`EffectThing`) and what a complaint tells (`ComplaintThing`).
* `PasswordsArriveHashedHolds`, `ReadApartHolds`, `LayoutKeptHolds`: all
  properties of `TextToInstructions`, for texts of any length. That a text is
  made of tokens is all there is to its specification; the rest is what the
  parsers compute. `OfKinds`, `Lines`, `Vdevs` and `FlattenSeq` are recursive
  functions that take one element after the other: `StepsExist` gives the
  function its definition asks for, `StepsAt` its values, and `...Runs` and
  `...Append` what one more element adds; `Appends` is induction over sequences
  by what is appended to them, once more as the well-foundedness of a set.
  `PasswordsArriveHashed` goes down the types: a text is read as keywords
  (`ParseConfigType`), and a keyword that is not turned down makes an
  instruction (`InstructionType`). For `ReadApart`, a newline ends a line, so
  that the lines behind it are those of what stands behind it (`LinesBehind`,
  `ConfigBehind`). For `LayoutKept`, what `Take` has put into groups and has at
  hand is always printed as the words it was given, from the first group on
  (`GroupsPrinted`).
* `SysconfigenTypeCorrect`, `WholeOrNothingHolds`: for every text, format and
  number of failures. Neither is inductive: that an instruction is appended needs
  that there is one left. `Progress` says that what is in the output file is a
  beginning of what the text parsed to, with one instruction left where another is
  begun, and all of it once its end is written; that there is one instruction for
  every command of the text is `ParseTextType`, the same as above.

Only model-checked: every liveness property. Fairness is out of the prover's
reach. Every safety property that a passing run checks is proved for every value
of the constants, `FinishedMeansApplied` and `ImplementsRunOnce` for those
without an alternate root.

## Where the code and its text disagree

Four are runs that TLC ends with a counterexample; `PROJECT.json` quotes the
line.

1. `insert_or_update` never inserts: without a line of the entry's user it
   changes nothing, where its comment says that the entry goes to the end
   (`libshadow/src/lib.rs:159-168`). `EditedPresent`, `MCShadowInsert`.
2. With `--alt-root` every file handler still edits the running system, because
   `Path::join` with an absolute path drops the root. `AltRootLeavesHostAlone`,
   `MCSysconfigAltRoot`.
3. `set_locale` says that it does something only to lines that start with
   `LANG=`, and overwrites `LANGUAGE=` lines (`illumos_driver.rs:312-313`), as
   `setup_timezone` does `TZDIR=` lines (line 426). `OnlyLangLines`,
   `MCSysconfigLang`.
4. `ensure::file` with `IfMissing` truncates a file that appears after its
   check (`libinstall/src/ensure.rs:465`), where `filestr` uses `create_new`.
   `FileKeeps`, `MCEnsureFile`.

Others were met while modelling and have no run of their own: a missing call,
two constants, a case of one line, or something the repository makes no promise
of. They are in the models as the code has them, and show as the qualifications
of properties above:

5. `install_image` makes "sure we have a mounted boot environment" by asking what
   is at its directory and dropping the answer (`libinstall/src/lib.rs:631-633`).
   Boot environments are mounted at `/a` (line 732), and images unpacked at
   `/altroot-` and the pool's name, so that none ever goes into one.
6. A hash set on an account that is `NP`, `NL` or `*LK*` is not printed
   (`libshadow/src/lib.rs:73-83`); `sysconfig` then reports success for root.
   `MarksKept` takes this for the intention.
7. A `lastchg` or `flag` of 0 disappears when a shadow file is read and printed
   (`libshadow/src/lib.rs:86`, `134`).
8. `/etc/.UNCONFIGURED` is not removed: the command is built, not run
   (`sysconfig/src/main.rs:155-156`).
9. `setup_interface` and `add_route` run `ipadm` and `route` without a
   subcommand (`illumos_driver.rs:118-196`, `206`), so that no configuration
   with an interface or a route is ever applied.
10. `static6` and `pbkdf2iters` are supported options (`keywords.rs:19`, `44`)
    that the grammar cannot read, an option's name having no digits
    (`config.pest:20`).
11. The name of the temporary file and the two names of a pool
    (`libinstall/src/lib.rs:609`, `489-498` with `591`); and the filter of a
    pool's options, which is true of every option (line 227), and their place,
    where `zpool create` reads disks (lines 560-568).

## Readings and assumptions

* The `illumos` crate is an empty submodule; `run`, `run_capture_stdout`,
  `svccfg` and `svcprop` are taken for what their callers expect: run a command,
  an error when it fails.
* Some lines do not compile as they stand and are read as meant: `add_route`
  names `ipadm_args` in its report (`illumos_driver.rs:209`), `setup_dns` calls
  `run_command` without importing it (line 387), and the arguments of `svccfg`
  differ between its callers.
* `libinstall/src/lib.rs` does not compile at this commit. Where a line has one
  evident meaning it is read so: `url` in `install_image` is `src` (line 609),
  `total_size` is `info.size` (line 693), `include_file` returns a `Result`
  (line 651), `log` is no argument. Where it has two, both are modelled:
  `pool_name` in `create_pool` (line 591, `Install`'s `reading`), and whether the
  future of `download_file` is awaited (line 621, `Download`'s `awaited`).
* `zfs create`, and `svccfg` `add` and `addpg`, fail when their object exists;
  `zfs create -p` does not. `ipadm` without a subcommand, which is how
  `setup_interface` runs it (`illumos_driver.rs:118-196`), and `route` without
  one, which is how `add_route` does (line 206), are errors of use: these two
  instructions always fail, before anything changes. `svcprop`
  reads the running snapshot, `svccfg setprop` changes the current
  configuration, `refresh` copies one to the other. A property is stored whole
  or not at all. `tar` fails on an archive that is cut off. `zpool create` reads
  what stands behind the pool's name as disks. The words with which `zfs` and
  `zpool` fail are those `zfs.rs` looks for, but for the destruction of a
  snapshot, whose complaint is another.
* Text is lines of words; a write that stops half way leaves whole lines. A
  `starts_with` test is the set of first words that pass it. In `CfgParser` a
  text is a sequence of tokens; what a command word takes of a longer word (it
  ends at a digit or a capital) is the constant `Cut`.
* A JSON or RON document that is cut off is turned down; a YAML document that is
  cut off may be read as what there is of it.
* A kill ends the process and leaves the kernel up, so what was written is
  there. Power loss is not modelled.
* The configuration file does not change between runs.
* The numeric columns of a shadow line are naturals; texts no rule accepts are
  represented by hashes that are not plain and users that are not alphanumeric.
* In `Ensure`, parents of the path exist, and owner and group are one value.
* `Zfs` keeps of properties only whether those that were asked for are set.

## Not modelled

* `libimgapi` has data types only; the `illumos` crate is not in the repository;
  packaging and CI are build files. Logging and the wording of errors have no
  effect on state.
* The keywords of `libinstall`'s `parse_keywords` other than `zpool-create`
  build variants of `Instruction` that do not exist or name variables that are
  not defined, so that it is open what they would do. `translate_uid` and
  `translate_gid` have no caller.
* `sysconfigen` without a command runs a shell over a list that nothing reads.
* In the driver, the arguments of commands that no property tells apart (dataset
  properties, addresses, prompts) are left out. In `Sysconfig`, reading the
  configuration is one step that succeeds with `config` or fails; what the file
  may hold is `Sysconfigen`'s and `TextToInstructions`'.
* What power loss keeps (`illumos_driver.rs:333`) would need a model of the page
  cache and of the SMF repository's own durability.

## Plan

Done: the driver and `sysconfig` with their refinement of `RunOnce`, `libshadow`,
the parsers, `sysconfigen`, `ensure`, the download with its refinement of
`Fetch`, `zfs.rs`, the instructions of `libinstall`; proofs of every safety
property that a passing run checks. Left, in this order:

1. The step half of the liveness properties: what keeps a bound on the steps left
   (`Converges` of `Ensure`, `Returns` of `Download`) decreasing.
2. Power loss: written but unsynced data over `Sysconfig`.
