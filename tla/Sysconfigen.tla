---------------------------- MODULE Sysconfigen ----------------------------
(***************************************************************************)
(* sysconfigen build: a text is converted to a file of instructions that   *)
(* sysconfig loads.  The file is created first, then the text is parsed,   *)
(* then the serializer writes piece by piece, without a buffer; sysconfig  *)
(* may be started, and load what is there, after any of them.              *)
(***************************************************************************)
EXTENDS SysconfigKeywords

CONSTANTS
    Sources,      \* texts that are built
    Torn,         \* instructions that a scalar cut short may be taken for
    MaxFaults     \* bound on failures and kills

ASSUME SysconfigenAssumption ==
    /\ Sources \subseteq Seq(Token)
    /\ Torn \subseteq Instruction
    /\ MaxFaults \in Nat

Format == {"json", "yaml", "ron"}      \* the pretty ones are read alike
Extension == Format \cup {"other"}     \* of the name sysconfig is given

(* A file that was created: its instructions so far, whether another one is
   begun, whether the end is written.                                       *)
Document ==
    [format: Format, set: Seq(Instruction), torn: BOOLEAN, whole: BOOLEAN]

VARIABLES
    out,       \* the output file: no document, or one
    phase,     \* of the build: "idle", "parse", "write"
    source,    \* the text of this or the last build that created the file
    format,    \* and its output format
    set,       \* the instructions it parsed to
    exit,      \* how the last build ended
    faults     \* failures and kills so far

vars == <<out, phase, source, format, set, exit, faults>>

Init ==
    /\ out = <<>> /\ phase = "idle"
    /\ source \in Sources /\ format = "ron" /\ set = <<>>
    /\ exit = "none" /\ faults = 0

Empty(f) == [format |-> f, set |-> <<>>, torn |-> FALSE, whole |-> FALSE]

(* Any output name may be given with any format.                            *)
Build(s, f) ==
    /\ phase = "idle"
    /\ out' = <<Empty(f)>>
    /\ phase' = "parse" /\ source' = s /\ format' = f /\ set' = <<>> /\ exit' = "none"
    /\ UNCHANGED faults

Parse ==
    LET parsed == ParseText(source) IN
    /\ phase = "parse"
    /\ IF parsed.result = "ok"
       THEN phase' = "write" /\ set' = parsed.set /\ UNCHANGED exit
       ELSE phase' = "idle" /\ exit' = parsed.result /\ UNCHANGED set
    /\ UNCHANGED <<out, source, format, faults>>

Unwritten == Len(out[1].set) < Len(set)

BeginInstruction ==
    /\ phase = "write" /\ Unwritten /\ ~out[1].torn
    /\ out' = [out EXCEPT ![1].torn = TRUE]
    /\ UNCHANGED <<phase, source, format, set, exit, faults>>

EndInstruction ==
    /\ phase = "write" /\ out[1].torn
    /\ out' = [out EXCEPT ![1].torn = FALSE,
                          ![1].set = Append(@, set[Len(@) + 1])]
    /\ UNCHANGED <<phase, source, format, set, exit, faults>>

Finish ==
    /\ phase = "write" /\ ~Unwritten
    /\ out' = [out EXCEPT ![1].whole = TRUE]
    /\ phase' = "idle" /\ exit' = "ok"
    /\ UNCHANGED <<source, format, set, faults>>

(* A read or write fails, or the process is killed.                         *)
Fail ==
    /\ phase # "idle" /\ faults < MaxFaults
    /\ phase' = "idle" /\ exit' = "err" /\ faults' = faults + 1
    /\ UNCHANGED <<out, source, format, set>>

Next ==
    \/ \E s \in Sources, f \in Format : Build(s, f)
    \/ Parse
    \/ BeginInstruction
    \/ EndInstruction
    \/ Finish
    \/ Fail

Spec == Init /\ [][Next]_vars

-----------------------------------------------------------------------------
(* sysconfig's main: the reader goes by the extension, and JSON is YAML; an
   unknown extension is read as a text, which no document is.               *)
ReadAs(ext, document) ==
    ext = document.format \/ (ext = "yaml" /\ document.format = "json")

(* The instructions a load may end with; none when it fails.  A list in
   brackets has to be closed; a YAML document may end anywhere, and what is
   begun is turned down or taken for something shorter.                     *)
LoadedBy(ext) ==
    IF out = <<>> \/ ~ReadAs(ext, out[1]) THEN {}
    ELSE IF out[1].whole THEN {out[1].set}
    ELSE IF out[1].format # "yaml" THEN {}
    ELSE IF out[1].torn THEN {Append(out[1].set, i) : i \in Torn}
    ELSE IF out[1].set = <<>> THEN {} ELSE {out[1].set}

(* The variables have their types.                                          *)
TypeOK ==
    /\ out = <<>> \/ (Len(out) = 1 /\ out[1] \in Document)
    /\ phase \in {"idle", "parse", "write"}
    /\ source \in Sources /\ format \in Format
    /\ set \in Seq(Instruction)
    /\ exit \in {"none", "ok", "err", "panic"}
    /\ faults \in 0..MaxFaults

(* Whenever sysconfig is started, before, during or after builds that       *)
(* succeed, fail (sysconfigen/src/main.rs:90-122) or are killed: what it    *)
(* loads has one instruction for every command of one text, the one built   *)
(* last, and is never the beginning of it nor what an earlier build left.   *)
(* YAML output is excepted.                                                 *)
WholeOrNothing ==
    \A ext \in Extension : \A loaded \in LoadedBy(ext) :
        out[1].format # "yaml" =>
            /\ out[1].format = format
            /\ Len(loaded) = Len(ParseConfig(source))
            /\ loaded = set
=============================================================================
