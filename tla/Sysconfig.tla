----------------------------- MODULE Sysconfig -----------------------------
(***************************************************************************)
(* The sysconfig program: one run after the other on one machine, started  *)
(* by SMF at boot, by an operator for an image mounted at an alternate     *)
(* root, or by an operator without either (the mock driver).  A run may    *)
(* fail or be killed between any two steps; SMF starts the next one.       *)
(*                                                                         *)
(* svccfg setprop changes the service's configuration, svcprop reads the   *)
(* running snapshot, and refresh copies the one to the other.              *)
(***************************************************************************)
EXTENDS IllumosDriver

CONSTANTS
    Configs,    \* what the configuration file may say: sequences of instructions
    Modes       \* which ways of starting the program are considered

ASSUME SysconfigAssumption ==
    /\ Configs \subseteq Seq(Instruction)
    /\ Modes \subseteq {"smf", "altroot", "mock"}

VARIABLES
    config,      \* the instructions in the configuration file
    mode,        \* how the run was started
    phase,       \* where main is; "down" between two runs
    next,        \* index of the instruction to apply
    finished,    \* config/finished of the service: current and running
    exit         \* how the last run ended

mainVars == <<config, mode, phase, next, finished, exit>>
vars == <<driverVars, mainVars>>

Phase == {"down", "check", "load", "apply", "guard", "refresh"}

Init ==
    /\ DriverInit
    /\ config \in Configs
    /\ mode = "smf"
    /\ phase = "down"
    /\ next = 1
    /\ finished = [current |-> FALSE, running |-> FALSE]
    /\ exit = "none"

-----------------------------------------------------------------------------
(* Image::new(root) keeps the root the driver is given.                     *)
Root(m) == IF m = "altroot" THEN "image" ELSE "host"

(* The process starts; only under SMF it looks whether it has run before.   *)
Start(m) ==
    /\ phase = "down"
    /\ mode' = m
    /\ phase' = IF m = "smf" THEN "check" ELSE "load"
    /\ exit' = "none"
    /\ UNCHANGED <<driverVars, config, next, finished>>

(* A faulty variant of CheckFinished: the answer is not looked at.           *)
CheckFinishedIgnored ==
    /\ phase = "check"
    /\ phase' = "load"
    /\ UNCHANGED <<driverVars, config, mode, next, finished, exit>>

(* svcprop config/finished.                                                 *)
CheckFinished ==
    /\ phase = "check"
    /\ IF finished.running
       THEN phase' = "down" /\ exit' = "ok"
       ELSE phase' = "load" /\ UNCHANGED exit
    /\ UNCHANGED <<driverVars, config, mode, next, finished>>

(* The configuration file is read and parsed, and the image chosen.         *)
Load ==
    /\ phase = "load"
    /\ phase' = "apply"
    /\ next' = 1
    /\ short' = (short /\ mode = "mock")
    /\ UNCHANGED <<disk, made, status, todo, faults, config, mode, finished, exit>>

(* Image::apply_instruction with the illumos driver.                        *)
Apply ==
    /\ phase = "apply" /\ next <= Len(config) /\ mode # "mock"
    /\ \/ Enter(Root(mode), config[next])
       \/ EnterRefused(Root(mode), config[next])
    /\ UNCHANGED mainVars

(* ... and with the mock driver, which only reports.                        *)
ApplyMock ==
    /\ phase = "apply" /\ next <= Len(config) /\ mode = "mock"
    /\ next' = next + 1
    /\ UNCHANGED <<driverVars, config, mode, phase, finished, exit>>

DriverStep ==
    /\ phase = "apply"
    /\ Proceed
    /\ UNCHANGED mainVars

DriverFault ==
    /\ phase = "apply"
    /\ ShortWrite \/ StepFails
    /\ UNCHANGED mainVars

(* The handler returned Ok: the next instruction.                           *)
Applied ==
    /\ phase = "apply" /\ status = "ok"
    /\ status' = "idle"
    /\ next' = next + 1
    /\ UNCHANGED <<disk, made, todo, short, faults, config, mode, phase, finished, exit>>

(* A faulty variant of ApplyFailed: the loop goes on.                        *)
ApplyFailedGoesOn ==
    /\ phase = "apply" /\ status \in {"err", "panic"}
    /\ status' = "idle"
    /\ next' = next + 1
    /\ UNCHANGED <<disk, made, todo, short, faults, config, mode, phase, finished, exit>>

(* It returned Err, and `?` ends main; or it panicked.                      *)
ApplyFailed ==
    /\ phase = "apply" /\ status \in {"err", "panic"}
    /\ status' = "idle"
    /\ phase' = "down"
    /\ exit' = "err"
    /\ UNCHANGED <<disk, made, todo, short, faults, config, mode, next, finished>>

(* All instructions are applied; only under SMF there is a guard to set.    *)
ApplyDone ==
    /\ phase = "apply" /\ status = "idle" /\ next > Len(config)
    /\ IF mode = "smf"
       THEN phase' = "guard" /\ UNCHANGED exit
       ELSE phase' = "down" /\ exit' = "ok"
    /\ UNCHANGED <<driverVars, config, mode, next, finished>>

(* A faulty variant of SetFinished: the snapshot is not refreshed.           *)
SetFinishedOnly ==
    /\ phase = "guard"
    /\ finished' = [finished EXCEPT !.current = TRUE]
    /\ phase' = "down"
    /\ exit' = "ok"
    /\ UNCHANGED <<driverVars, config, mode, next>>

(* The command that would remove /etc/.UNCONFIGURED is built and dropped
   unexecuted; svccfg sets config/finished.                                 *)
SetFinished ==
    /\ phase = "guard"
    /\ finished' = [finished EXCEPT !.current = TRUE]
    /\ phase' = "refresh"
    /\ UNCHANGED <<driverVars, config, mode, next, exit>>

(* svccfg refresh, and main returns.                                        *)
Refresh ==
    /\ phase = "refresh"
    /\ finished' = [finished EXCEPT !.running = finished.current]
    /\ phase' = "down"
    /\ exit' = "ok"
    /\ UNCHANGED <<driverVars, config, mode, next>>

(* svcprop, the configuration file or svccfg fails, or the process dies
   there; a svccfg that fails or outlives the process may have done its work. *)
MainFails ==
    /\ phase \in {"check", "load", "guard", "refresh"}
    /\ \/ UNCHANGED finished
       \/ phase = "guard" /\ finished' = [finished EXCEPT !.current = TRUE]
       \/ phase = "refresh" /\ finished' = [finished EXCEPT !.running = finished.current]
    /\ phase' = "down"
    /\ exit' = "err"
    /\ Fault
    /\ UNCHANGED <<disk, made, status, todo, short, config, mode, next>>

(* The process is killed while it applies.                                  *)
Crash ==
    /\ phase = "apply"
    /\ IF status = "busy" THEN Interrupted ELSE UNCHANGED stored
    /\ status' = "idle"
    /\ todo' = <<>>
    /\ phase' = "down"
    /\ exit' = "err"
    /\ Fault
    /\ UNCHANGED <<short, config, mode, next, finished>>

(* What a run does when nothing fails.                                      *)
Run ==
    \/ CheckFinished
    \/ Load
    \/ Apply
    \/ ApplyMock
    \/ DriverStep
    \/ Applied
    \/ ApplyFailed
    \/ ApplyDone
    \/ SetFinished
    \/ Refresh

Next ==
    \/ \E m \in Modes : Start(m)
    \/ Run
    \/ DriverFault
    \/ MainFails
    \/ Crash

Spec == Init /\ [][Next]_vars

(* A run that was started goes on, and a machine that is up or comes up
   again starts the service again (a boot, a restart by SMF, an operator who
   clears the service).  Strong fairness, because runs do not overlap here and
   one with the mock driver, however often somebody makes it, does not keep SMF
   from starting the service; nothing obliges a failure to happen.          *)
FairSpec == Spec /\ WF_vars(Run) /\ SF_vars(Start("smf"))

-----------------------------------------------------------------------------
(* The variables have their types.                                          *)
TypeOK ==
    /\ DriverTypeOK
    /\ config \in Configs
    /\ mode \in {"smf", "altroot", "mock"}
    /\ phase \in Phase
    /\ next \in Nat \ {0}
    /\ finished \in [current: BOOLEAN, running: BOOLEAN]
    /\ exit \in {"none", "ok", "err"}

(* "Check if we have run before and exit if we did" (main.rs:64): once the
   guard is in the running snapshot, no run under SMF changes the system
   again; and a run with the mock driver never does.                        *)
RunGuard ==
    [][(mode = "smf" /\ finished.running) \/ mode = "mock"
          => UNCHANGED stored]_vars

AllInPlace ==
    \A i \in DOMAIN config :
        \/ InPlace("host", config[i])
        \/ \E j \in (i + 1)..Len(config) : Overrides(config[j], config[i])

(* The guard is never set over a half configured system: when the running
   snapshot says that the service has finished, every instruction of the
   file is in place (or replaced by a later one of the file), however many
   runs failed or died before, unless a write of the last run was short.    *)
FinishedMeansApplied ==
    finished.running /\ ~short => AllInPlace

Once == INSTANCE RunOnce
            WITH system <- stored, applied <- AllInPlace \/ short, done <- finished.running

(* Under SMF and with the mock driver the program keeps what RunOnce
   promises, through failures, kills and restarts: the step that makes the
   guard visible finds the configuration in place and changes nothing else,
   and after it neither the system nor the guard changes again
   (main.rs:61-71, 145-165).                                                *)
ImplementsRunOnce == Once!Safety

(* Setting the locale or the time zone, any number of times in any runs,
   adds no line to /etc/default/init; and as long as no step fails it takes
   none away, replaces a line whose name begins with LANG or TZ by one of the
   same kind (LANGUAGE and TZDIR lose their values in this), and keeps every
   other line where it is.                                                  *)
InitFileKept ==
    [][\A s \in Systems : Due(s, "init") # Absent =>
          LET old == Due(s, "init")
              new == Due(s, "init")' IN
          /\ Len(new) <= Len(old)
          /\ faults' = faults =>
                /\ Len(new) = Len(old)
                /\ \A i \in DOMAIN old :
                      IF StartsWith(old[i], "LANG") THEN StartsWith(new[i], "LANG")
                      ELSE IF StartsWith(old[i], "TZ") THEN StartsWith(new[i], "TZ")
                      ELSE new[i] = old[i]]_vars

(* Setting root's password keeps every account and every other password, that
   of a second line of root among them, as long as no step fails.           *)
AccountsKept ==
    [][\A s \in Systems : Due(s, "shadow") # Absent /\ faults' = faults =>
          LET old == Due(s, "shadow")
              new == Due(s, "shadow")' IN
          /\ Len(new) = Len(old)
          /\ \A i \in DOMAIN old :
                /\ new[i].user = old[i].user
                /\ new[i].pw # old[i].pw => /\ old[i].user = "root"
                                            /\ i = FirstOf(old, "root")
                                            /\ old[i].pw \notin Mark]_vars

(* Applying again what is in place (a retry, or a run that died between the
   guard and the refresh) changes nothing but what the files hold between a
   truncation and its write; shadow is compared as libshadow reads it.      *)
RerunChangesNothing ==
    [][mode # "altroot" /\ faults' = faults
          /\ (\A i \in DOMAIN config : InPlace("host", config[i]))
        => \A i \in Items :
              IF i = "shadow" /\ Due("host", i) # Absent
              THEN ParseFile(Due("host", i)') = ParseFile(Due("host", i))
              ELSE Due("host", i)' = Due("host", i)]_vars

-----------------------------------------------------------------------------
(* Why a run can fail for good.                                             *)

(* The object an instruction creates exists, a file it reads is missing or
   unreadable, or it is never carried out.                                  *)
Hopeless(ins) ==
    \/ Panics(ins)
    \/ Refuses("host", ins)
    \/ \E o \in Creates(ins) : <<"host", o>> \in made
    \/ ins.op = "dns" /\ disk["host"]["nsswitch.dns"] = Absent

Wedged ==
    /\ phase = "down" /\ ~finished.running
    /\ \E i \in DOMAIN config : Hopeless(config[i])

(* A service that comes to rest in such a state between two runs never
   finishes: neither a retry nor a reboot helps.                            *)
WedgedForGood == [](Wedged => []~finished.running)

(* That is the only way not to finish: the service finishes, or a failure
   leaves it wedged.                                                        *)
FinishesOrWedges == <>(finished.running \/ Wedged)

RestartSafe ==
    \A i \in DOMAIN config :
        \/ config[i].op \in {"hostname", "dns", "locale", "timezone", "keymap"}
        \/ config[i].op = "terminal" /\ OnlyType(config[i])

(* A configuration of instructions that may be repeated is applied in the
   end, whatever fails or dies on the way.                                  *)
Converges == RestartSafe /\ ~Wedged => <>finished.running

-----------------------------------------------------------------------------
(* What the repository says of the program; the code does otherwise.        *)

(* sysconfig/src/main.rs:132: with an alternate root the run is there "to
   configure image mounted at" that root, so the running system stays.      *)
AltRootLeavesHostAlone ==
    [][mode = "altroot" => disk'["host"] = disk["host"]]_vars

(* illumos_driver.rs:312, of set_locale: "Only do something if the line starts
   with LANG=", so a line of another variable stays.                        *)
OnlyLangLines ==
    [][\A s \in Systems :
          Due(s, "init") # Absent /\ Due(s, "init")' # Absent /\ faults' = faults =>
              \A i \in DOMAIN Due(s, "init") :
                  \/ Due(s, "init")'[i] = Due(s, "init")[i]
                  \/ Due(s, "init")[i].words[1] = "LANG"]_vars
=============================================================================
