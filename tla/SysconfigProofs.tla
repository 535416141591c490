-------------------------- MODULE SysconfigProofs --------------------------
(* Theorems about the sysconfig program, behind lemmas about the handlers    *)
(* and steps of its driver.                                                  *)
EXTENDS Sysconfig, ShadowProofs

(* The fields of an instruction, by its kind.                               *)
LEMMA InstructionFields ==
  ASSUME NEW ins \in Instruction
  PROVE  /\ ins.op = "dataset" => ins.name \in Word
         /\ ins.op = "locale" => ins.name \in Seq(Word) /\ ins.unicode \in BOOLEAN
         /\ ins.op = "dns" => /\ ins.nameservers \in Seq(Word)
                              /\ ins.domain \in Seq(Word) /\ ins.search \in Seq(Word)
         /\ ins.op = "route" => ins.match \in Word /\ ins.gateway \in Word
         /\ ins.op = "password" => ins.kind \in {"clear", "hash"} /\ ins.value \in Hashes
         /\ ins.op = "hostname" => ins.name \in Word
         /\ ins.op = "keymap" => ins.layout \in Word
         /\ ins.op = "timezone" => ins.name \in Word
         /\ ins.op = "terminal" => ins.name \in Option(Word) /\ ins.type \in Word
         /\ ins.op = "interface" => ins.device \in Word /\ ins.name \in Option(Word)
  BY DEF Instruction, Option

LEMMA InstructionOp ==
  ASSUME NEW ins \in Instruction
  PROVE  ins.op \in {"dataset", "locale", "dns", "route", "password", "hostname",
                     "keymap", "timezone", "terminal", "timeserver", "interface"}
  BY DEF Instruction

LEMMA PutType ==
  ASSUME NEW do \in {"truncate", "write", "write_all"}, NEW root \in Systems,
         NEW f \in Files, NEW lines \in Seq(LineOf(f))
  PROVE  Put(do, root, f, lines) \in Effect
<1>1. lines \in Seq(Line \cup ShadowLine)
  <2>1. LineOf(f) \subseteq Line \cup ShadowLine
    BY DEF LineOf
  <2> QED
    BY <2>1, SeqMonotonic
<1>2. SystemOf(root, f) \in Systems
  BY DEF SystemOf, Systems, AbsolutePaths
<1>3. f \in Items
  BY DEF Items
<1> QED
  BY <1>1, <1>2, <1>3 DEF Put, Effect

LEMMA ReplaceType ==
  ASSUME NEW root \in Systems, NEW f \in Files, NEW lines \in Seq(LineOf(f))
  PROVE  Replace(root, f, lines) \in Seq(Effect)
<1>1. <<>> \in Seq(LineOf(f))
  BY EmptySeq
<1>2. Put("truncate", root, f, <<>>) \in Effect /\ Put("write", root, f, lines) \in Effect
  BY <1>1, PutType
<1> QED
  BY <1>2 DEF Replace

LEMMA SetPropType ==
  ASSUME NEW root \in Systems, NEW prop \in SmfProps, NEW value \in Word
  PROVE  SetProp(root, prop, value) \in Seq(Effect)
<1>1. <<value>> \in Seq(Word)
  BY Singleton
<1>2. Words(<<value>>) \in Line
  BY <1>1 DEF Words, Line
<1>3. /\ <<Words(<<value>>)>> \in Seq(Line)
      /\ <<Words(<<value>>)>> \in Seq(Line \cup ShadowLine)
  BY <1>2, Singleton
<1>4. prop \in Items /\ LineOf(prop) = Line
  BY DEF Items, SmfProps, LineOf
<1>5. [do |-> "set", sys |-> root, on |-> prop, lines |-> <<Words(<<value>>)>>] \in Effect
  BY <1>3, <1>4 DEF Effect
<1> QED
  BY <1>5 DEF SetProp

LEMMA CreateType ==
  ASSUME NEW sys \in Systems, NEW object \in Object
  PROVE  Create(sys, object) \in Seq(Effect)
<1>1. [do |-> "run", sys |-> sys, object |-> object] \in Effect
  BY DEF Effect
<1> QED
  BY <1>1 DEF Create

(* What a system holds has the type of its item.                            *)
LEMMA ContentType ==
  ASSUME disk \in [Systems -> Disk], NEW s \in Systems, NEW i \in Items
  PROVE  disk[s][i] \in {Absent} \cup Seq(LineOf(i))
  BY DEF Disk

(* Rewriting /etc/default/init writes lines.                                *)
LEMMA SetInInitType ==
  ASSUME disk \in [Systems -> Disk], NEW root \in Systems, NEW key,
         NEW setting \in Line, Content(root, "init") # Absent
  PROVE  SetInInit(root, key, setting) \in Seq(Effect)
<1> DEFINE old == Content(root, "init")
           new == [i \in DOMAIN old |-> IF StartsWith(old[i], key) THEN setting ELSE old[i]]
<1>1. SystemOf(root, "init") \in Systems /\ "init" \in Items /\ "init" \in Files
  BY DEF SystemOf, Systems, AbsolutePaths, Items, Files
<1>2. LineOf("init") = Line
  BY DEF LineOf
<1>3. old \in Seq(Line)
  BY <1>1, <1>2, ContentType DEF Content
<1>4. DOMAIN old = 1..Len(old) /\ Len(old) \in Nat /\ \A i \in 1..Len(old) : old[i] \in Line
  BY <1>3, LenProperties, ElementOfSeq
<1>5. new \in Seq(Line)
  <2> HIDE DEF old
  <2>1. \A i \in 1..Len(old) : new[i] \in Line
    BY <1>4
  <2> QED
    BY <1>4, <2>1
<1>6. Replace(root, "init", new) \in Seq(Effect)
  BY <1>1, <1>2, <1>5, ReplaceType
<1> QED
  BY <1>6, EmptySeq DEF SetInInit
LEMMA LineType ==
  /\ \A a \in Word : Words(<<a>>) \in Line
  /\ \A a, b \in Word : Words(<<a, b>>) \in Line
  /\ Words(<<>>) \in Line
<1>1. \A a \in Word : <<a>> \in Seq(Word)
  BY Singleton
<1>2. \A a, b \in Word : <<a, b>> \in Seq(Word)
  BY Pair
<1>3. <<>> \in Seq(Word)
  BY EmptySeq
<1> QED
  BY <1>1, <1>2, <1>3 DEF Words, Line

LEMMA LocaleSettingType ==
  ASSUME NEW ins \in Instruction, ins.op = "locale"
  PROVE  LocaleSetting(ins) \in Line
<1>1. ins.name \in Seq(Word)
  BY InstructionFields
<1>2. Append(ins.name, "UTF-8") \in Seq(Word)
  BY <1>1, AppendProperties, DriverAssumption DEF Literals
<1>3. FinalLocale(ins) \in Seq(Word)
  BY <1>1, <1>2 DEF FinalLocale
<1>4. <<"LANG">> \in Seq(Word)
  BY DriverAssumption, Singleton DEF Literals
<1>5. <<"LANG">> \o FinalLocale(ins) \in Seq(Word)
  BY <1>3, <1>4, ConcatProperties
<1> QED
  BY <1>5 DEF LocaleSetting, Words, Line

LEMMA ResolvConfType ==
  ASSUME NEW ins \in Instruction, ins.op = "dns"
  PROVE  ResolvConf(ins) \in Seq(Line)
<1> DEFINE lines(word, values) == [i \in DOMAIN values |-> Words(<<word, values[i]>>)]
           servers == lines("nameserver", ins.nameservers)
           rest == lines("domain", ins.domain) \o lines("search", ins.search)
           start == IF servers = <<>> /\ rest # <<>> THEN <<Words(<<>>)>> ELSE servers
<1>0. "nameserver" \in Word /\ "domain" \in Word /\ "search" \in Word
  BY DriverAssumption DEF Literals
<1>1. ASSUME NEW word \in Word, NEW values \in Seq(Word)
      PROVE  lines(word, values) \in Seq(Line)
  <2>1. DOMAIN values = 1..Len(values) /\ Len(values) \in Nat
    BY LenProperties
  <2>2. \A i \in 1..Len(values) : Words(<<word, values[i]>>) \in Line
    BY LineType, ElementOfSeq
  <2> QED
    BY <2>1, <2>2
<1>2. servers \in Seq(Line)
  BY <1>0, <1>1, InstructionFields
<1>3. lines("domain", ins.domain) \in Seq(Line) /\ lines("search", ins.search) \in Seq(Line)
  BY <1>0, <1>1, InstructionFields
<1>4. rest \in Seq(Line)
  BY <1>3, ConcatProperties
<1>5. <<Words(<<>>)>> \in Seq(Line)
  BY LineType, Singleton
<1>6. start \in Seq(Line)
  BY <1>2, <1>5
<1>7. start \o rest \in Seq(Line)
  BY <1>4, <1>6, ConcatProperties
<1> QED
  BY <1>7 DEF ResolvConf

LEMMA HostnameFilesType ==
  ASSUME NEW name \in Word
  PROVE  NodenameFile(name) \in Seq(Line) /\ HostsFile(name) \in Seq(Line)
<1>1. "::1" \in Word /\ "127.0.0.1" \in Word
  BY DriverAssumption DEF Literals
<1> QED
  BY <1>1, LineType, Singleton, Pair DEF NodenameFile, HostsFile

(* The objects instructions create.                                         *)
LEMMA ObjectType ==
  ASSUME NEW ins \in Instruction
  PROVE  /\ ins.op = "dataset" => DatasetObject(ins) \in Object
         /\ ins.op = "terminal" => TerminalObject(ins) \in Object
<1>1. {"dataset", "console-login"} \subseteq Word
  BY DriverAssumption DEF Literals
<1>2. CASE ins.op = "dataset"
  BY <1>1, <1>2, InstructionFields, Pair DEF DatasetObject, Object
<1>5. CASE ins.op = "terminal"
  <2>1. ins.name \in Seq(Word)
    BY <1>5, InstructionFields DEF Option
  <2>2. <<"console-login">> \in Seq(Word)
    BY <1>1, Singleton
  <2>3. <<"console-login">> \o ins.name \in Seq(Word)
    BY <2>1, <2>2, ConcatProperties
  <2> QED
    BY <1>5, <2>3 DEF TerminalObject, Object
<1> QED
  BY <1>2, <1>5

(* A handler that is entered has effects to perform, each of them well
   formed.                                                                  *)
LEMMA EffectsType ==
  ASSUME disk \in [Systems -> Disk], NEW root \in Systems, NEW ins \in Instruction,
         ~Panics(ins), ~Refuses(root, ins)
  PROVE  Effects(root, ins) \in Seq(Effect)
<1>1. CASE ins.op = "dataset"
  <2>1. CreateDataset(ins) \in Seq(Effect)
    BY <1>1, ObjectType, CreateType DEF CreateDataset, Systems
  <2> QED
    BY <1>1, <2>1 DEF Effects
<1>2. CASE ins.op = "locale"
  <2>1. SetLocale(root, ins) \in Seq(Effect)
    BY <1>2, LocaleSettingType, SetInInitType DEF SetLocale, Refuses
  <2> QED
    BY <1>2, <2>1 DEF Effects
<1>3. CASE ins.op = "dns"
  <2>1. Replace(root, "resolv.conf", ResolvConf(ins)) \in Seq(Effect)
    BY <1>3, ResolvConfType, ReplaceType DEF Files, LineOf
  <2>2. Put("cp", root, "nsswitch.conf", <<>>) \in Effect
    <3>1. <<>> \in Seq(Line) /\ <<>> \in Seq(Line \cup ShadowLine)
      BY EmptySeq
    <3> QED
      BY <3>1 DEF Put, Effect, SystemOf, AbsolutePaths, Systems, Items, Files, LineOf
  <2>3. SetupDns(root, ins) \in Seq(Effect)
    BY <2>1, <2>2, AppendProperties DEF SetupDns
  <2> QED
    BY <1>3, <2>3 DEF Effects
<1>5. CASE ins.op = "password"
  <2> DEFINE old == Content(root, "shadow")
  <2>1. old \in Seq(ShadowLine)
    <3>1. SystemOf(root, "shadow") \in Systems /\ "shadow" \in Items
      BY DEF SystemOf, Systems, AbsolutePaths, Items, Files
    <3>2. old # Absent
      BY <1>5 DEF Refuses, ShadowReadable
    <3> QED
      BY <3>1, <3>2, ContentType DEF Content, LineOf
  <2>2. CASE HasEntry(ParseFile(old), "root")
    <3>1. ins.value \in Hashes
      BY <1>5, InstructionFields
    <3>2. WithPassword(old, "root", ins.value) \in Seq(ShadowLine)
      BY <2>1, <2>2, <3>1, WithPasswordType
    <3>3. /\ Put("truncate", root, "shadow", <<>>) \in Effect
          /\ Put("write_all", root, "shadow", WithPassword(old, "root", ins.value)) \in Effect
      BY <3>2, EmptySeq, PutType DEF Files, LineOf
    <3>4. SetRootPasswordHash(root, ins) =
            <<Put("truncate", root, "shadow", <<>>),
              Put("write_all", root, "shadow", WithPassword(old, "root", ins.value))>>
      BY <2>2 DEF SetRootPasswordHash
    <3>5. SetRootPasswordHash(root, ins) \in Seq(Effect)
      BY <3>3, <3>4, Pair
    <3> QED
      BY <1>5, <3>5 DEF Effects
  <2>3. CASE ~HasEntry(ParseFile(old), "root")
    <3>1. SetRootPasswordHash(root, ins) \in Seq(Effect)
      BY <2>3, EmptySeq DEF SetRootPasswordHash
    <3> QED
      BY <1>5, <3>1 DEF Effects
  <2> QED
    BY <2>2, <2>3
<1>6. CASE ins.op = "hostname"
  <2>1. ins.name \in Word
    BY <1>6, InstructionFields
  <2>2. /\ Replace(root, "nodename", NodenameFile(ins.name)) \in Seq(Effect)
        /\ Replace(root, "hosts", HostsFile(ins.name)) \in Seq(Effect)
    BY <2>1, HostnameFilesType, ReplaceType DEF Files, LineOf
  <2>3. SetHostname(root, ins) \in Seq(Effect)
    BY <2>2, ConcatProperties DEF SetHostname
  <2> QED
    BY <1>6, <2>3 DEF Effects
<1>7. CASE ins.op = "keymap"
  <2>1. SetupKeyboard(root, ins) \in Seq(Effect)
    BY <1>7, InstructionFields, SetPropType DEF SetupKeyboard, SmfProps
  <2> QED
    BY <1>7, <2>1 DEF Effects
<1>8. CASE ins.op = "timezone"
  <2>1. TimezoneSetting(ins) \in Line
    BY <1>8, InstructionFields, DriverAssumption, LineType DEF TimezoneSetting, Literals
  <2>2. SetupTimezone(root, ins) \in Seq(Effect)
    BY <1>8, <2>1, SetInInitType DEF SetupTimezone, Refuses
  <2> QED
    BY <1>8, <2>2 DEF Effects
<1>9. CASE ins.op = "terminal"
  <2>1. SetProp(root, "ttymon/terminal_type", ins.type) \in Seq(Effect)
    BY <1>9, InstructionFields, SetPropType DEF SmfProps
  <2>2. Create(root, TerminalObject(ins)) \in Seq(Effect)
    BY <1>9, ObjectType, CreateType
  <2>3. SetupTerminal(root, ins) \in Seq(Effect)
    BY <2>1, <2>2, EmptySeq, ConcatProperties DEF SetupTerminal, SetType
  <2> QED
    BY <1>9, <2>3 DEF Effects
<1> QED
  BY <1>1, <1>2, <1>3, <1>5, <1>6, <1>7, <1>8, <1>9, InstructionOp DEF Panics, Refuses, Misused

(* What an effect stores fits the item it is for.                           *)
LEMMA NewLinesType ==
  ASSUME disk \in [Systems -> Disk], NEW e \in Effect, e.do # "run", ~Rejected(e)
  PROVE  NewLines(e) \in Seq(LineOf(e.on))
<1>1. /\ e.sys \in Systems
      /\ e.lines \in Seq(LineOf(e.on))
      /\ e.do = "cp" => e.on = "nsswitch.conf"
  BY DEF Effect
<1>2. CASE e.do = "cp"
  <2>1. disk[e.sys]["nsswitch.dns"] # Absent
    BY <1>2 DEF Rejected
  <2>2. disk[e.sys]["nsswitch.dns"] \in Seq(Line)
    BY <1>1, <2>1, ContentType DEF Items, Files, LineOf
  <2> QED
    BY <1>1, <1>2, <2>2 DEF NewLines, LineOf
<1>3. CASE e.do # "cp"
  BY <1>1, <1>3 DEF NewLines
<1> QED
  BY <1>2, <1>3

LEMMA SizeType ==
  ASSUME disk \in [Systems -> Disk], NEW e \in Effect, ~Rejected(e)
  PROVE  Size(e) \in Nat
  BY NewLinesType, LenProperties DEF Size

(* An effect, performed whole or in part, leaves well formed contents.      *)
LEMMA PerformType ==
  ASSUME DriverTypeOK, NEW e \in Effect, ~Rejected(e), NEW n \in 0..Size(e), Perform(e, n)
  PROVE  disk' \in [Systems -> Disk] /\ made' \subseteq Systems \X Object
<1>1. CASE e.do = "run"
  <2>1. e.sys \in Systems /\ e.object \in Object
    BY <1>1 DEF Effect
  <2> QED
    BY <1>1, <2>1 DEF Perform, DriverTypeOK
<1>2. CASE e.do # "run"
  <2>1. e.sys \in Systems /\ e.on \in Items
    BY <1>2 DEF Effect
  <2>2. NewLines(e) \in Seq(LineOf(e.on))
    BY <1>2, NewLinesType DEF DriverTypeOK
  <2> DEFINE new == SubSeq(NewLines(e), 1, n)
  <2>3. new \in Seq(LineOf(e.on))
    <3>1. n \in Int /\ \A i \in 1..n : NewLines(e)[i] \in LineOf(e.on)
      BY <1>2, <2>2, ElementOfSeq, LenProperties DEF Size
    <3> QED
      BY <3>1, SubSeqProperties
  <2>4. new \in Seq(Line \cup ShadowLine)
    <3>1. LineOf(e.on) \subseteq Line \cup ShadowLine
      BY DEF LineOf
    <3> HIDE DEF new
    <3> QED
      BY <2>3, <3>1, SeqMonotonic
  <2>5. disk' = [disk EXCEPT ![e.sys][e.on] = new] /\ made' = made
    BY <1>2 DEF Perform
  <2> HIDE DEF new
  <2>6. [disk[e.sys] EXCEPT ![e.on] = new] \in Disk
    BY <2>1, <2>3, <2>4 DEF DriverTypeOK, Disk
  <2> QED
    BY <2>1, <2>5, <2>6 DEF DriverTypeOK
<1> QED
  BY <1>1, <1>2

LEMMA HeadType ==
  ASSUME DriverTypeOK, todo # <<>>
  PROVE  Head(todo) \in Effect /\ Tail(todo) \in Seq(Effect)
  BY HeadTailProperties DEF DriverTypeOK

LEMMA FaultType ==
  ASSUME DriverTypeOK, Fault
  PROVE  faults' \in 0..MaxFaults
  BY DriverAssumption DEF DriverTypeOK, Fault

(* Entering a handler and every step of it preserve the types.              *)
LEMMA EnterType ==
  ASSUME DriverTypeOK, NEW root \in Systems, NEW ins \in Instruction,
         Enter(root, ins) \/ EnterRefused(root, ins)
  PROVE  DriverTypeOK'
<1>1. CASE Enter(root, ins)
  BY <1>1, EffectsType DEF Enter, DriverTypeOK
<1>2. CASE EnterRefused(root, ins)
  BY <1>2 DEF EnterRefused, DriverTypeOK
<1> QED
  BY <1>1, <1>2

LEMMA InterruptedType ==
  ASSUME DriverTypeOK, Interrupted
  PROVE  disk' \in [Systems -> Disk] /\ made' \subseteq Systems \X Object
<1>1. CASE UNCHANGED stored
  BY <1>1 DEF stored, DriverTypeOK
<1>2. CASE ~UNCHANGED stored
  <2>1. todo # <<>> /\ ~Rejected(Head(todo))
    BY <1>2 DEF Interrupted
  <2>2. PICK n \in 0..Size(Head(todo)) : Perform(Head(todo), n)
    BY <1>2 DEF Interrupted
  <2> QED
    BY <2>1, <2>2, HeadType, PerformType
<1> QED
  BY <1>1, <1>2

LEMMA StepType ==
  ASSUME DriverTypeOK, Proceed \/ ShortWrite \/ StepFails
  PROVE  DriverTypeOK'
<1>1. CASE Step
  <2>1. Size(Head(todo)) \in 0..Size(Head(todo))
    BY <1>1, HeadType, SizeType DEF Step, DriverTypeOK
  <2>2. disk' \in [Systems -> Disk] /\ made' \subseteq Systems \X Object
    BY <1>1, <2>1, HeadType, PerformType DEF Step
  <2> QED
    BY <1>1, <2>2, HeadType DEF Step, DriverTypeOK
<1>2. CASE StepRejected
  BY <1>2, EmptySeq DEF StepRejected, DriverTypeOK
<1>3. CASE Return
  BY <1>3 DEF Return, DriverTypeOK
<1>4. CASE ShortWrite
  <2>1. ~Rejected(Head(todo))
    BY <1>4 DEF ShortWrite, Rejected
  <2>2. PICK n \in 0..(Size(Head(todo)) - 1) : Perform(Head(todo), n)
    BY <1>4 DEF ShortWrite
  <2>3. n \in 0..Size(Head(todo))
    BY <1>4, <2>1, HeadType, SizeType DEF ShortWrite, DriverTypeOK
  <2>4. disk' \in [Systems -> Disk] /\ made' \subseteq Systems \X Object
    BY <1>4, <2>1, <2>2, <2>3, HeadType, PerformType DEF ShortWrite
  <2> QED
    BY <1>4, <2>4, HeadType, FaultType DEF ShortWrite, DriverTypeOK
<1>5. CASE StepFails
  BY <1>5, InterruptedType, FaultType, EmptySeq DEF StepFails, DriverTypeOK
<1> QED
  BY <1>1, <1>2, <1>3, <1>4, <1>5 DEF Proceed

-----------------------------------------------------------------------------
(* What a call has still to store, as a function of the disk and of its
   effects.                                                                 *)
Saves(e) == e.do \in {"write", "write_all", "cp", "set"}
SamePlace(e, f) == e.sys = f.sys /\ e.on = f.on

Saving(es, s, i) == {k \in DOMAIN es : Saves(es[k]) /\ es[k].sys = s /\ es[k].on = i}

NewLinesIn(d, e) == IF e.do = "cp" THEN d[e.sys]["nsswitch.dns"] ELSE e.lines

DueIn(d, es, s, i) ==
    IF Saving(es, s, i) = {} THEN d[s][i]
    ELSE NewLinesIn(d, es[CHOOSE k \in Saving(es, s, i) : TRUE])

MadeIn(m, es, s, o) ==
    \/ <<s, o>> \in m
    \/ \E k \in DOMAIN es : es[k].do = "run" /\ es[k].sys = s /\ es[k].object = o

(* The effects of a handler store no item twice, truncate nothing they do
   not store later, write no file of an alternate root and not the file that
   cp reads, and create an object first of all if they do.                  *)
Planned(es) ==
    /\ \A k, l \in DOMAIN es :
          Saves(es[k]) /\ Saves(es[l]) /\ SamePlace(es[k], es[l]) => k = l
    /\ \A k \in DOMAIN es : es[k].do = "truncate" =>
          /\ es[k].lines = <<>>
          /\ \E l \in DOMAIN es : k < l /\ Saves(es[l]) /\ SamePlace(es[k], es[l])
    /\ \A k \in DOMAIN es : es[k].do # "run" =>
          es[k].on # "nsswitch.dns" /\ (es[k].on \in Files => es[k].sys = "host")
    /\ \A k \in DOMAIN es : es[k].do = "run" => k = 1
    /\ (\E k \in DOMAIN es : es[k].do = "cp") =>
          \A l \in DOMAIN es : es[l].on \in {"resolv.conf", "nsswitch.conf"}

(* Nothing is to follow the creation of an object that exists.              *)
Sensible(es, m) ==
    \A k \in DOMAIN es : es[k].do = "run" /\ <<es[k].sys, es[k].object>> \in m =>
        \A l \in DOMAIN es : es[l].do = "run"

LEMMA PendingForm ==
  ASSUME NEW s, NEW i
  PROVE  /\ Pending(s, i) = Saving(todo, s, i)
         /\ Pending(s, i)' = Saving(todo', s, i)
  BY DEF Pending, Saving, Saves

LEMMA DueForm ==
  ASSUME NEW s, NEW i
  PROVE  /\ Due(s, i) = DueIn(disk, todo, s, i)
         /\ Due(s, i)' = DueIn(disk', todo', s, i)
  BY DEF Due, DueIn, NewLines, NewLinesIn, Pending, Saving, Saves

LEMMA MadeForm ==
  ASSUME NEW s, NEW o
  PROVE  /\ DueMade(s, o) <=> MadeIn(made, todo, s, o)
         /\ DueMade(s, o)' <=> MadeIn(made', todo', s, o)
  BY DEF DueMade, MadeIn

LEMMA DueSaved ==
  ASSUME NEW d, NEW es, Planned(es), NEW k \in DOMAIN es, Saves(es[k])
  PROVE  DueIn(d, es, es[k].sys, es[k].on) = NewLinesIn(d, es[k])
<1> DEFINE K == Saving(es, es[k].sys, es[k].on)
<1>1. k \in K
  BY DEF Saving
<1>2. \A l \in K : l = k
  BY DEF Saving, Planned, SamePlace
<1>3. (CHOOSE l \in K : TRUE) = k
  <2> HIDE DEF K
  <2> QED
    BY <1>1, <1>2
<1> QED
  BY <1>1, <1>3 DEF DueIn

LEMMA DueUnsaved ==
  ASSUME NEW d, NEW es, NEW s, NEW i, Saving(es, s, i) = {}
  PROVE  DueIn(d, es, s, i) = d[s][i]
  BY DEF DueIn

(* The rest of a plan.                                                      *)
LEMMA TailElements ==
  ASSUME NEW es \in Seq(Effect), es # <<>>
  PROVE  /\ 1 \in DOMAIN es /\ es[1] = Head(es)
         /\ DOMAIN es \subseteq Nat /\ DOMAIN Tail(es) \subseteq Nat
         /\ \A k \in DOMAIN Tail(es) : k + 1 \in DOMAIN es /\ Tail(es)[k] = es[k + 1]
         /\ \A k \in DOMAIN es : k # 1 => k - 1 \in DOMAIN Tail(es) /\ Tail(es)[k - 1] = es[k]
         /\ \A k \in DOMAIN es : 1 <= k
         /\ \A k \in DOMAIN Tail(es) : 1 <= k
<1>1. /\ Tail(es) \in Seq(Effect)
      /\ Len(Tail(es)) = Len(es) - 1
      /\ \A i \in 1..Len(Tail(es)) : Tail(es)[i] = es[i + 1]
  BY HeadTailProperties
<1>2. Len(es) \in Nat /\ DOMAIN es = 1..Len(es) /\ Len(es) # 0
  BY LenProperties, EmptySeq
<1>3. DOMAIN Tail(es) = 1..(Len(es) - 1)
  BY <1>1, LenProperties
<1>4. es[1] = Head(es)
  OBVIOUS
<1>5. \A k \in DOMAIN es : k # 1 => k - 1 \in DOMAIN Tail(es) /\ Tail(es)[k - 1] = es[k]
  <2> SUFFICES ASSUME NEW k \in 1..Len(es), k # 1
               PROVE  k - 1 \in 1..(Len(es) - 1) /\ Tail(es)[k - 1] = es[k]
    BY <1>2, <1>3
  <2>1. k - 1 \in 1..(Len(es) - 1) /\ (k - 1) + 1 = k
    BY <1>2
  <2> QED
    BY <1>1, <2>1
<1> QED
  BY <1>1, <1>2, <1>3, <1>4, <1>5

LEMMA PlannedTail ==
  ASSUME NEW es \in Seq(Effect), es # <<>>, Planned(es)
  PROVE  Planned(Tail(es)) /\ \A m : Sensible(Tail(es), m)
<1> DEFINE ts == Tail(es)
<1>1. /\ \A k \in DOMAIN ts : k \in Nat /\ k + 1 \in DOMAIN es /\ ts[k] = es[k + 1]
      /\ \A k \in DOMAIN es : k # 1 => k - 1 \in DOMAIN ts /\ ts[k - 1] = es[k]
      /\ \A k \in DOMAIN es : k \in Nat /\ 1 <= k
  BY TailElements
<1> HIDE DEF ts
<1>2. \A k, l \in DOMAIN ts :
        Saves(ts[k]) /\ Saves(ts[l]) /\ SamePlace(ts[k], ts[l]) => k = l
  <2> SUFFICES ASSUME NEW k \in DOMAIN ts, NEW l \in DOMAIN ts,
                      Saves(ts[k]), Saves(ts[l]), SamePlace(ts[k], ts[l])
               PROVE  k = l
    OBVIOUS
  <2>1. k + 1 = l + 1
    BY <1>1 DEF Planned
  <2> QED
    BY <1>1, <2>1
<1>3. ASSUME NEW k \in DOMAIN ts, ts[k].do = "truncate"
      PROVE  /\ ts[k].lines = <<>>
             /\ \E l \in DOMAIN ts : k < l /\ Saves(ts[l]) /\ SamePlace(ts[k], ts[l])
  <2>0. ts[k].lines = <<>>
    BY <1>1, <1>3 DEF Planned
  <2>1. PICK l \in DOMAIN es : k + 1 < l /\ Saves(es[l]) /\ SamePlace(es[k + 1], es[l])
    BY <1>1, <1>3 DEF Planned
  <2>2. k < l - 1 /\ l # 1
    BY <1>1, <2>1
  <2> QED
    BY <1>1, <2>0, <2>1, <2>2
<1>4. \A k \in DOMAIN ts : ts[k].do # "run" =>
        ts[k].on # "nsswitch.dns" /\ (ts[k].on \in Files => ts[k].sys = "host")
  BY <1>1 DEF Planned
<1>5. \A k \in DOMAIN ts : ts[k].do # "run"
  <2> SUFFICES ASSUME NEW k \in DOMAIN ts, ts[k].do = "run" PROVE FALSE
    OBVIOUS
  <2>1. k + 1 \in DOMAIN es /\ es[k + 1].do = "run"
    BY <1>1
  <2>2. k + 1 = 1
    BY <2>1 DEF Planned
  <2>3. k \in Nat /\ 1 <= k
    BY TailElements DEF ts
  <2> QED
    BY <2>2, <2>3
<1>6. (\E k \in DOMAIN ts : ts[k].do = "cp") =>
        \A l \in DOMAIN ts : ts[l].on \in {"resolv.conf", "nsswitch.conf"}
  BY <1>1 DEF Planned
<1>7. Planned(ts) /\ \A m : Sensible(ts, m)
  BY <1>2, <1>3, <1>4, <1>5, <1>6 DEF Planned, Sensible
<1> QED
  BY <1>7 DEF ts

LEMMA EffectFields ==
  ASSUME NEW e \in Effect
  PROVE  /\ e.do \in {"truncate", "write", "write_all", "cp", "set", "run"}
         /\ e.sys \in Systems
         /\ e.do # "run" => e.on \in Items /\ e.lines \in Seq(LineOf(e.on))
         /\ e.do = "run" => e.object \in Object
         /\ e.do = "cp" => e.on = "nsswitch.conf"
         /\ Saves(e) <=> e.do \notin {"run", "truncate"}
  BY DEF Effect, Saves

(* Carrying out the first effect of a plan leaves what is due as it was.    *)
LEMMA DueKept ==
  ASSUME NEW d \in [Systems -> Disk], NEW d2, NEW es \in Seq(Effect), es # <<>>, Planned(es),
         \A t \in Systems, j \in Items :
            d2[t][j] = IF Head(es).do # "run" /\ t = Head(es).sys /\ j = Head(es).on
                       THEN NewLinesIn(d, Head(es)) ELSE d[t][j],
         NEW s \in Systems, NEW i \in Items
  PROVE  DueIn(d2, Tail(es), s, i) = DueIn(d, es, s, i)
<1> DEFINE ts == Tail(es)
           e == Head(es)
<1>1. /\ 1 \in DOMAIN es /\ es[1] = e
      /\ \A k \in DOMAIN ts : k \in Nat /\ k + 1 \in DOMAIN es /\ ts[k] = es[k + 1]
      /\ \A k \in DOMAIN es : k # 1 => k - 1 \in DOMAIN ts /\ ts[k - 1] = es[k]
      /\ \A k \in DOMAIN es : k \in Nat /\ 1 <= k
  BY TailElements
<1>2. /\ e \in Effect /\ Planned(ts)
      /\ \A k \in DOMAIN es : es[k] \in Effect
  BY HeadTailProperties, PlannedTail, ElementOfSeq, LenProperties
<1>3. e.do # "run" => e.on # "nsswitch.dns"
  BY <1>1 DEF Planned
<1>6. \A t \in Systems, j \in Items :
        d2[t][j] = IF e.do # "run" /\ t = e.sys /\ j = e.on THEN NewLinesIn(d, e) ELSE d[t][j]
  OBVIOUS
<1> HIDE DEF ts, e
<1>7. CASE Saving(es, s, i) = {}
  <2>1. Saving(ts, s, i) = {}
    BY <1>1, <1>7 DEF Saving
  <2>2. ~(e.do # "run" /\ s = e.sys /\ i = e.on)
    <3> SUFFICES ASSUME e.do # "run", s = e.sys, i = e.on PROVE FALSE
      OBVIOUS
    <3>1. e.do = "truncate"
      BY <1>1, <1>2, <1>7, EffectFields DEF Saving
    <3>2. PICK l \in DOMAIN es : Saves(es[l]) /\ SamePlace(es[1], es[l])
      BY <1>1, <3>1 DEF Planned
    <3> QED
      BY <1>1, <1>7, <3>2 DEF Saving, SamePlace
  <2> QED
    BY <1>6, <1>7, <2>1, <2>2, DueUnsaved DEF ts
<1>8. CASE Saving(es, s, i) # {}
  <2>1. PICK k \in DOMAIN es : Saves(es[k]) /\ es[k].sys = s /\ es[k].on = i
    BY <1>8 DEF Saving
  <2>2. DueIn(d, es, s, i) = NewLinesIn(d, es[k])
    BY <2>1, DueSaved
  <2>3. CASE k = 1
    <3>1. e.do # "run" /\ s = e.sys /\ i = e.on
      BY <1>1, <1>2, <2>1, <2>3, EffectFields
    <3>2. Saving(ts, s, i) = {}
      <4> SUFFICES ASSUME NEW l \in DOMAIN ts, Saves(ts[l]), ts[l].sys = s, ts[l].on = i
                   PROVE  FALSE
        BY DEF Saving
      <4>1. l + 1 \in DOMAIN es /\ es[l + 1] = ts[l]
        BY <1>1
      <4>2. l + 1 = k
        BY <2>1, <4>1 DEF Planned, SamePlace
      <4>3. l \in Nat /\ 1 <= l
        BY TailElements DEF ts
      <4> QED
        BY <2>3, <4>2, <4>3
    <3> QED
      BY <1>1, <1>6, <2>2, <2>3, <3>1, <3>2, DueUnsaved DEF ts
  <2>4. CASE k # 1
    <3>1. k - 1 \in DOMAIN ts /\ ts[k - 1] = es[k]
      BY <1>1, <2>4
    <3>2. DueIn(d2, ts, s, i) = NewLinesIn(d2, es[k])
      BY <1>2, <2>1, <3>1, DueSaved
    <3>3. es[k].sys \in Systems /\ "nsswitch.dns" \in Items
      BY <1>2, EffectFields DEF Items, Files
    <3>4. NewLinesIn(d2, es[k]) = NewLinesIn(d, es[k])
      BY <1>3, <1>6, <3>3 DEF NewLinesIn
    <3> QED
      BY <2>2, <3>2, <3>4 DEF ts
  <2> QED
    BY <2>3, <2>4
<1> QED
  BY <1>7, <1>8

-----------------------------------------------------------------------------
(* The plans of the handlers.                                               *)

(* What an instruction may store.                                           *)
Writes(ins) ==
    CASE ins.op = "dns" -> {"resolv.conf", "nsswitch.conf"}
      [] ins.op \in {"locale", "timezone"} -> {"init"}
      [] ins.op = "password" -> {"shadow"}
      [] ins.op = "hostname" -> {"nodename", "hosts"}
      [] ins.op = "keymap" -> {"keymap/layout"}
      [] ins.op = "terminal" /\ SetsType(ins) -> {"ttymon/terminal_type"}
      [] OTHER -> {}

LEMMA PutFields ==
  ASSUME NEW do, NEW root, NEW f \in Files, NEW lines
  PROVE  LET e == Put(do, root, f, lines) IN
         e.do = do /\ e.sys = "host" /\ e.on = f /\ e.lines = lines
  BY DEF Put, SystemOf, AbsolutePaths

LEMMA NoPlan == Planned(<<>>)
  BY DEF Planned

LEMMA RunPlan ==
  ASSUME NEW e, NEW f, e.do = "run", f.do = "set", f.on \in SmfProps, NEW d
  PROVE  /\ Planned(<<e>>) /\ Planned(<<e, f>>)
         /\ DueIn(d, <<e, f>>, f.sys, f.on) = f.lines
<1>1. Planned(<<e>>) /\ Planned(<<e, f>>)
  BY DEF Planned, Saves, SmfProps, Files
<1>2. 2 \in DOMAIN <<e, f>> /\ <<e, f>>[2] = f /\ Saves(f)
  BY DEF Saves
<1> QED
  BY <1>1, <1>2, DueSaved DEF NewLinesIn

LEMMA SetPlan ==
  ASSUME NEW e, e.do = "set", e.on \in SmfProps, NEW d
  PROVE  Planned(<<e>>) /\ DueIn(d, <<e>>, e.sys, e.on) = e.lines
<1>1. Planned(<<e>>)
  BY DEF Planned, SmfProps, Files
<1>2. 1 \in DOMAIN <<e>> /\ <<e>>[1] = e /\ Saves(e)
  BY DEF Saves
<1> QED
  BY <1>1, <1>2, DueSaved DEF NewLinesIn

LEMMA ReplacePlan ==
  ASSUME NEW e, NEW f, e.do = "truncate", f.do \in {"write", "write_all"},
         e.lines = <<>>, e.sys = "host", f.sys = "host", e.on = f.on, f.on # "nsswitch.dns", NEW d
  PROVE  Planned(<<e, f>>) /\ DueIn(d, <<e, f>>, "host", f.on) = f.lines
<1>1. Planned(<<e, f>>)
  BY DEF Planned, Saves, SamePlace
<1>2. 2 \in DOMAIN <<e, f>> /\ <<e, f>>[2] = f /\ Saves(f)
  BY DEF Saves
<1>3. DueIn(d, <<e, f>>, f.sys, f.on) = NewLinesIn(d, f)
  BY <1>1, <1>2, DueSaved
<1> QED
  BY <1>1, <1>3 DEF NewLinesIn

LEMMA DnsPlan ==
  ASSUME NEW e, NEW f, NEW g, e.do = "truncate", f.do = "write", g.do = "cp",
         e.lines = <<>>, e.sys = "host", f.sys = "host", g.sys = "host",
         e.on = "resolv.conf", f.on = "resolv.conf", g.on = "nsswitch.conf", NEW d
  PROVE  /\ Planned(<<e, f, g>>)
         /\ DueIn(d, <<e, f, g>>, "host", "resolv.conf") = f.lines
         /\ DueIn(d, <<e, f, g>>, "host", "nsswitch.conf") = d["host"]["nsswitch.dns"]
<1>1. Planned(<<e, f, g>>)
  BY DEF Planned, Saves, SamePlace
<1>2. /\ 2 \in DOMAIN <<e, f, g>> /\ <<e, f, g>>[2] = f /\ Saves(f)
      /\ 3 \in DOMAIN <<e, f, g>> /\ <<e, f, g>>[3] = g /\ Saves(g)
  BY DEF Saves
<1> QED
  BY <1>1, <1>2, DueSaved DEF NewLinesIn

LEMMA HostnamePlan ==
  ASSUME NEW e, NEW f, NEW g, NEW h, e.do = "truncate", f.do = "write",
         g.do = "truncate", h.do = "write",
         e.lines = <<>>, g.lines = <<>>,
         e.sys = "host", f.sys = "host", g.sys = "host", h.sys = "host",
         e.on = "nodename", f.on = "nodename", g.on = "hosts", h.on = "hosts", NEW d
  PROVE  /\ Planned(<<e, f, g, h>>)
         /\ DueIn(d, <<e, f, g, h>>, "host", "nodename") = f.lines
         /\ DueIn(d, <<e, f, g, h>>, "host", "hosts") = h.lines
<1>1. Planned(<<e, f, g, h>>)
  BY DEF Planned, Saves, SamePlace
<1>2. /\ 2 \in DOMAIN <<e, f, g, h>> /\ <<e, f, g, h>>[2] = f /\ Saves(f)
      /\ 4 \in DOMAIN <<e, f, g, h>> /\ <<e, f, g, h>>[4] = h /\ Saves(h)
  BY DEF Saves
<1> QED
  BY <1>1, <1>2, DueSaved DEF NewLinesIn

(* What SetInInit makes of the file.                                        *)
Rewritten(old, key, setting) ==
    IF \E i \in DOMAIN old : old[i] = setting THEN old
    ELSE [i \in DOMAIN old |-> IF StartsWith(old[i], key) THEN setting ELSE old[i]]

LEMMA SetInInitPlan ==
  ASSUME NEW root, NEW key, NEW setting
  PROVE  LET es == SetInInit(root, key, setting) IN
         /\ Planned(es)
         /\ \A k \in DOMAIN es : es[k].do # "run" /\ es[k].on = "init"
         /\ DueIn(disk, es, "host", "init") =
                Rewritten(disk["host"]["init"], key, setting)
<1> DEFINE old == disk["host"]["init"]
           new == [i \in DOMAIN old |-> IF StartsWith(old[i], key) THEN setting ELSE old[i]]
           e == Put("truncate", root, "init", <<>>)
           f == Put("write", root, "init", new)
<1>1. Content(root, "init") = old
  BY DEF Content, SystemOf, AbsolutePaths, Files
<1>2. CASE \E i \in DOMAIN old : old[i] = setting
  <2>1. SetInInit(root, key, setting) = <<>>
    BY <1>1, <1>2 DEF SetInInit
  <2>2. Saving(<<>>, "host", "init") = {}
    BY DEF Saving
  <2> QED
    BY <1>2, <2>1, <2>2, NoPlan, DueUnsaved DEF Rewritten
<1>3. CASE ~(\E i \in DOMAIN old : old[i] = setting)
  <2>1. SetInInit(root, key, setting) = <<e, f>>
    BY <1>1, <1>3 DEF SetInInit, Replace
  <2>2. Rewritten(old, key, setting) = new
    BY <1>3 DEF Rewritten
  <2>3. /\ e.do = "truncate" /\ e.sys = "host" /\ e.on = "init" /\ e.lines = <<>>
        /\ f.do = "write" /\ f.sys = "host" /\ f.on = "init" /\ f.lines = new
    BY PutFields DEF Files
  <2> HIDE DEF old, new, e, f
  <2>4. Planned(<<e, f>>) /\ DueIn(disk, <<e, f>>, "host", "init") = new
    BY <2>3, ReplacePlan
  <2> QED
    BY <2>1, <2>2, <2>3, <2>4 DEF old
<1> QED
  BY <1>2, <1>3

LEMMA SetPropPlan ==
  ASSUME NEW root, NEW prop \in SmfProps, NEW value
  PROVE  LET es == SetProp(root, prop, value) IN
         /\ Planned(es)
         /\ \A k \in DOMAIN es : es[k].do # "run" /\ es[k].on = prop
         /\ DueIn(disk, es, root, prop) = <<Words(<<value>>)>>
<1> DEFINE e == [do |-> "set", sys |-> root, on |-> prop, lines |-> <<Words(<<value>>)>>]
<1>1. e.do = "set" /\ e.sys = root /\ e.on = prop /\ e.lines = <<Words(<<value>>)>>
  OBVIOUS
<1>2. SetProp(root, prop, value) = <<e>>
  BY DEF SetProp
<1> HIDE DEF e
<1>3. Planned(<<e>>) /\ DueIn(disk, <<e>>, root, prop) = <<Words(<<value>>)>>
  BY <1>1, SetPlan
<1> QED
  BY <1>1, <1>2, <1>3

LEMMA CreatePlan ==
  ASSUME NEW sys, NEW object
  PROVE  LET es == Create(sys, object) IN
         /\ Planned(es)
         /\ \A k \in DOMAIN es : es[k].do = "run"
         /\ \A m : MadeIn(m, es, sys, object)
<1> DEFINE e == [do |-> "run", sys |-> sys, object |-> object]
<1>1. e.do = "run" /\ e.sys = sys /\ e.object = object
  OBVIOUS
<1>2. Create(sys, object) = <<e>>
  BY DEF Create
<1> HIDE DEF e
<1>3. Planned(<<e>>)
  BY <1>1 DEF Planned, Saves
<1>4. \A m : MadeIn(m, <<e>>, sys, object)
  <2>1. 1 \in DOMAIN <<e>> /\ <<e>>[1] = e
    OBVIOUS
  <2> QED
    BY <1>1, <2>1 DEF MadeIn
<1> QED
  BY <1>1, <1>2, <1>3, <1>4

LEMMA JoinTwo ==
  ASSUME NEW e, NEW f
  PROVE  /\ <<e>> \o <<f>> = <<e, f>>
         /\ <<>> \o <<f>> = <<f>>
<1> DEFINE S == {e, f}
           both == <<e>> \o <<f>>
<1>1. /\ <<e>> \in Seq(S) /\ <<f>> \in Seq(S) /\ Len(<<e>>) = 1 /\ Len(<<f>>) = 1
      /\ <<e, f>> \in Seq(S) /\ Len(<<e, f>>) = 2
  BY Singleton, Pair
<1>2. both \in Seq(S) /\ Len(both) = 2 /\ both[1] = e /\ both[2] = f
  BY <1>1, ConcatProperties
<1>3. \A i \in 1..2 : both[i] = <<e, f>>[i]
  BY <1>2
<1>4. <<>> \o <<f>> = <<f>>
  BY <1>1, ConcatEmptySeq
<1> HIDE DEF S, both
<1>5. both = <<e, f>>
  BY <1>1, <1>2, <1>3, SeqEqual
<1> QED
  BY <1>4, <1>5 DEF both

LEMMA JoinThree ==
  ASSUME NEW e, NEW f, NEW g
  PROVE  Append(<<e, f>>, g) = <<e, f, g>>
<1> DEFINE S == {e, f, g}
           all == Append(<<e, f>>, g)
<1>1. /\ <<e, f>> \in Seq(S) /\ Len(<<e, f>>) = 2
      /\ <<e, f, g>> \in Seq(S) /\ Len(<<e, f, g>>) = 3
  BY Pair
<1>2. /\ all \in Seq(S) /\ Len(all) = 3
      /\ all[1] = e /\ all[2] = f /\ all[3] = g
  BY <1>1, AppendProperties
<1>3. \A i \in 1..3 : all[i] = <<e, f, g>>[i]
  BY <1>2
<1> HIDE DEF S, all
<1>4. all = <<e, f, g>>
  BY <1>1, <1>2, <1>3, SeqEqual
<1> QED
  BY <1>4 DEF all

LEMMA JoinFour ==
  ASSUME NEW e, NEW f, NEW g, NEW h
  PROVE  <<e, f>> \o <<g, h>> = <<e, f, g, h>>
<1> DEFINE S == {e, f, g, h}
           all == <<e, f>> \o <<g, h>>
<1>1. /\ <<e, f>> \in Seq(S) /\ <<g, h>> \in Seq(S) /\ Len(<<e, f>>) = 2 /\ Len(<<g, h>>) = 2
      /\ <<e, f, g, h>> \in Seq(S) /\ Len(<<e, f, g, h>>) = 4
  BY Pair
<1>2. /\ all \in Seq(S) /\ Len(all) = 4
      /\ all[1] = e /\ all[2] = f /\ all[3] = g /\ all[4] = h
  BY <1>1, ConcatProperties
<1>3. \A i \in 1..4 : all[i] = <<e, f, g, h>>[i]
  BY <1>2
<1> HIDE DEF S, all
<1>4. all = <<e, f, g, h>>
  BY <1>1, <1>2, <1>3, SeqEqual
<1> QED
  BY <1>4 DEF all

LEMMA SetupDnsPlan ==
  ASSUME NEW root, NEW ins
  PROVE  LET es == SetupDns(root, ins) IN
         /\ Planned(es)
         /\ \A k \in DOMAIN es : /\ es[k].do # "run"
                                 /\ es[k].on \in {"resolv.conf", "nsswitch.conf"}
         /\ \E k \in DOMAIN es : es[k].do = "cp" /\ es[k].sys = "host"
         /\ DueIn(disk, es, "host", "resolv.conf") = ResolvConf(ins)
         /\ DueIn(disk, es, "host", "nsswitch.conf") = disk["host"]["nsswitch.dns"]
<1> DEFINE e == Put("truncate", root, "resolv.conf", <<>>)
           f == Put("write", root, "resolv.conf", ResolvConf(ins))
           g == Put("cp", root, "nsswitch.conf", <<>>)
<1>1. /\ e.do = "truncate" /\ e.sys = "host" /\ e.on = "resolv.conf" /\ e.lines = <<>>
      /\ f.do = "write" /\ f.sys = "host" /\ f.on = "resolv.conf" /\ f.lines = ResolvConf(ins)
      /\ g.do = "cp" /\ g.sys = "host" /\ g.on = "nsswitch.conf"
  <2>1. "resolv.conf" \in Files /\ "nsswitch.conf" \in Files
    BY DEF Files
  <2> QED
    BY <2>1, PutFields
<1>2. SetupDns(root, ins) = Append(<<e, f>>, g)
  BY DEF SetupDns, Replace
<1> HIDE DEF e, f, g
<1>3. SetupDns(root, ins) = <<e, f, g>>
  BY <1>2, JoinThree
<1>4. /\ Planned(<<e, f, g>>)
      /\ DueIn(disk, <<e, f, g>>, "host", "resolv.conf") = f.lines
      /\ DueIn(disk, <<e, f, g>>, "host", "nsswitch.conf") = disk["host"]["nsswitch.dns"]
  BY <1>1, DnsPlan
<1>5. /\ \A k \in DOMAIN <<e, f, g>> : /\ <<e, f, g>>[k].do # "run"
                                       /\ <<e, f, g>>[k].on \in {"resolv.conf", "nsswitch.conf"}
      /\ 3 \in DOMAIN <<e, f, g>> /\ <<e, f, g>>[3] = g
  BY <1>1
<1> QED
  BY <1>1, <1>3, <1>4, <1>5

LEMMA SetHostnamePlan ==
  ASSUME NEW root, NEW ins
  PROVE  LET es == SetHostname(root, ins) IN
         /\ Planned(es)
         /\ \A k \in DOMAIN es : es[k].do # "run" /\ es[k].on \in {"nodename", "hosts"}
         /\ DueIn(disk, es, "host", "nodename") = NodenameFile(ins.name)
         /\ DueIn(disk, es, "host", "hosts") = HostsFile(ins.name)
<1> DEFINE e == Put("truncate", root, "nodename", <<>>)
           f == Put("write", root, "nodename", NodenameFile(ins.name))
           g == Put("truncate", root, "hosts", <<>>)
           h == Put("write", root, "hosts", HostsFile(ins.name))
<1>1. /\ e.do = "truncate" /\ e.sys = "host" /\ e.on = "nodename" /\ e.lines = <<>>
      /\ f.do = "write" /\ f.sys = "host" /\ f.on = "nodename"
      /\ f.lines = NodenameFile(ins.name)
      /\ g.do = "truncate" /\ g.sys = "host" /\ g.on = "hosts" /\ g.lines = <<>>
      /\ h.do = "write" /\ h.sys = "host" /\ h.on = "hosts"
      /\ h.lines = HostsFile(ins.name)
  <2>1. "nodename" \in Files /\ "hosts" \in Files
    BY DEF Files
  <2> QED
    BY <2>1, PutFields
<1>2. SetHostname(root, ins) = <<e, f>> \o <<g, h>>
  BY DEF SetHostname, Replace
<1> HIDE DEF e, f, g, h
<1>3. SetHostname(root, ins) = <<e, f, g, h>>
  <2>1. <<e, f>> \o <<g, h>> = <<e, f, g, h>>
    BY JoinFour
  <2> QED
    BY <1>2, <2>1
<1>4. /\ Planned(<<e, f, g, h>>)
      /\ DueIn(disk, <<e, f, g, h>>, "host", "nodename") = f.lines
      /\ DueIn(disk, <<e, f, g, h>>, "host", "hosts") = h.lines
  BY <1>1, HostnamePlan
<1>5. \A k \in DOMAIN <<e, f, g, h>> : /\ <<e, f, g, h>>[k].do # "run"
                                       /\ <<e, f, g, h>>[k].on \in {"nodename", "hosts"}
  BY <1>1
<1> QED
  BY <1>1, <1>3, <1>4, <1>5

(* The shadow file after the handler: as it was when it has no root.        *)
WithRootPassword(old, h) ==
    IF HasEntry(ParseFile(old), "root") THEN WithPassword(old, "root", h) ELSE old

LEMMA PasswordPlan ==
  ASSUME NEW root, NEW ins
  PROVE  LET es == SetRootPasswordHash(root, ins) IN
         /\ Planned(es)
         /\ \A k \in DOMAIN es : es[k].do # "run" /\ es[k].on = "shadow"
         /\ DueIn(disk, es, "host", "shadow") =
                WithRootPassword(disk["host"]["shadow"], ins.value)
<1> DEFINE old == disk["host"]["shadow"]
           new == WithPassword(old, "root", ins.value)
           e == Put("truncate", root, "shadow", <<>>)
           f == Put("write_all", root, "shadow", new)
<1>1. Content(root, "shadow") = old
  BY DEF Content, SystemOf, AbsolutePaths, Files
<1>2. CASE ~HasEntry(ParseFile(old), "root")
  <2>1. SetRootPasswordHash(root, ins) = <<>>
    BY <1>1, <1>2 DEF SetRootPasswordHash
  <2>2. Saving(<<>>, "host", "shadow") = {}
    BY DEF Saving
  <2> QED
    BY <1>2, <2>1, <2>2, NoPlan, DueUnsaved DEF WithRootPassword
<1>3. CASE HasEntry(ParseFile(old), "root")
  <2>1. SetRootPasswordHash(root, ins) = <<e, f>>
    BY <1>1, <1>3 DEF SetRootPasswordHash
  <2>2. WithRootPassword(old, ins.value) = new
    BY <1>3 DEF WithRootPassword
  <2>3. /\ e.do = "truncate" /\ e.sys = "host" /\ e.on = "shadow" /\ e.lines = <<>>
        /\ f.do = "write_all" /\ f.sys = "host" /\ f.on = "shadow" /\ f.lines = new
    BY PutFields DEF Files
  <2> HIDE DEF old, new, e, f
  <2>4. Planned(<<e, f>>) /\ DueIn(disk, <<e, f>>, "host", "shadow") = new
    BY <2>3, ReplacePlan
  <2> QED
    BY <2>1, <2>2, <2>3, <2>4 DEF old
<1> QED
  BY <1>2, <1>3

LEMMA TerminalPlan ==
  ASSUME NEW root, NEW ins
  PROVE  LET es == SetupTerminal(root, ins) IN
         /\ Planned(es) /\ Sensible(es, made)
         /\ \A k \in DOMAIN es : es[k].do # "run" => /\ SetsType(ins) \/ OnlyType(ins)
                                                     /\ es[k].on = "ttymon/terminal_type"
         /\ ~OnlyType(ins) => \A m : MadeIn(m, es, root, TerminalObject(ins))
         /\ OnlyType(ins) \/ (SetsType(ins) /\ <<root, TerminalObject(ins)>> \notin made) =>
              DueIn(disk, es, root, "ttymon/terminal_type") = <<Words(<<ins.type>>)>>
<1> DEFINE e == [do |-> "run", sys |-> root, object |-> TerminalObject(ins)]
           f == [do |-> "set", sys |-> root, on |-> "ttymon/terminal_type",
                 lines |-> <<Words(<<ins.type>>)>>]
<1>1. /\ e.do = "run" /\ e.sys = root /\ e.object = TerminalObject(ins)
      /\ f.do = "set" /\ f.sys = root /\ f.on = "ttymon/terminal_type"
      /\ f.lines = <<Words(<<ins.type>>)>>
  OBVIOUS
<1>2. SetType(root, ins) = <<f>> /\ Create(root, TerminalObject(ins)) = <<e>>
  BY DEF SetType, SetProp, Create
<1>3. "ttymon/terminal_type" \in SmfProps
  BY DEF SmfProps
<1> HIDE DEF e, f
<1>4. <<e>> \o <<f>> = <<e, f>>
  BY JoinTwo
<1>5. <<e>> \o <<>> = <<e>>
  BY Singleton, ConcatEmptySeq
<1>6. CASE OnlyType(ins)
  <2>1. SetupTerminal(root, ins) = <<f>>
    BY <1>2, <1>6 DEF SetupTerminal
  <2>2. Planned(<<f>>) /\ DueIn(disk, <<f>>, root, "ttymon/terminal_type") = f.lines
    BY <1>1, <1>3, SetPlan
  <2>3. \A k \in DOMAIN <<f>> : <<f>>[k] = f
    OBVIOUS
  <2> QED
    BY <1>1, <1>6, <2>1, <2>2, <2>3 DEF Sensible
<1>7. CASE ~OnlyType(ins) /\ SetsType(ins) /\ <<root, TerminalObject(ins)>> \notin made
  <2>1. SetupTerminal(root, ins) = <<e, f>>
    BY <1>2, <1>4, <1>7 DEF SetupTerminal
  <2>2. Planned(<<e, f>>) /\ DueIn(disk, <<e, f>>, root, "ttymon/terminal_type") = f.lines
    BY <1>1, <1>3, RunPlan
  <2>3. /\ \A k \in DOMAIN <<e, f>> : <<e, f>>[k] \in {e, f}
        /\ 1 \in DOMAIN <<e, f>> /\ <<e, f>>[1] = e
    OBVIOUS
  <2>4. Sensible(<<e, f>>, made)
    BY <1>1, <1>7, <2>3 DEF Sensible
  <2>5. \A m : MadeIn(m, <<e, f>>, root, TerminalObject(ins))
    BY <1>1, <2>3 DEF MadeIn
  <2> QED
    BY <1>1, <1>7, <2>1, <2>2, <2>3, <2>4, <2>5
<1>8. CASE ~OnlyType(ins) /\ ~(SetsType(ins) /\ <<root, TerminalObject(ins)>> \notin made)
  <2>1. SetupTerminal(root, ins) = <<e>>
    BY <1>2, <1>5, <1>8 DEF SetupTerminal
  <2>2. Planned(<<e>>)
    BY <1>1 DEF Planned, Saves
  <2>3. /\ \A k \in DOMAIN <<e>> : <<e>>[k] = e
        /\ 1 \in DOMAIN <<e>> /\ <<e>>[1] = e
    OBVIOUS
  <2> QED
    BY <1>1, <1>8, <2>1, <2>2, <2>3 DEF Sensible, MadeIn
<1> QED
  BY <1>6, <1>7, <1>8

LEMMA SensibleStores ==
  ASSUME NEW es, \A k \in DOMAIN es : es[k].do # "run"
  PROVE  \A m : Sensible(es, m)
  BY DEF Sensible

(* The plan of any instruction: what it stores, and what it creates.        *)
LEMMA EffectsPlan ==
  ASSUME NEW root, NEW ins \in Instruction, ~Panics(ins), ~Misused(ins)
  PROVE  LET es == Effects(root, ins) IN
         /\ Planned(es) /\ Sensible(es, made)
         /\ \A k \in DOMAIN es : es[k].do # "run" => es[k].on \in Writes(ins)
         /\ ins.op = "dataset" => \A m : MadeIn(m, es, "host", DatasetObject(ins))
         /\ ins.op = "locale" =>
              DueIn(disk, es, "host", "init") =
                 Rewritten(disk["host"]["init"], "LANG", LocaleSetting(ins))
         /\ ins.op = "dns" =>
              /\ \E k \in DOMAIN es : es[k].do = "cp" /\ es[k].sys = "host"
              /\ DueIn(disk, es, "host", "resolv.conf") = ResolvConf(ins)
              /\ DueIn(disk, es, "host", "nsswitch.conf") = disk["host"]["nsswitch.dns"]
         /\ ins.op = "password" =>
              DueIn(disk, es, "host", "shadow") =
                 WithRootPassword(disk["host"]["shadow"], ins.value)
         /\ ins.op = "hostname" =>
              /\ DueIn(disk, es, "host", "nodename") = NodenameFile(ins.name)
              /\ DueIn(disk, es, "host", "hosts") = HostsFile(ins.name)
         /\ ins.op = "keymap" =>
              DueIn(disk, es, root, "keymap/layout") = <<Words(<<ins.layout>>)>>
         /\ ins.op = "timezone" =>
              DueIn(disk, es, "host", "init") =
                 Rewritten(disk["host"]["init"], "TZ", TimezoneSetting(ins))
         /\ ins.op = "terminal" =>
              /\ ~OnlyType(ins) => \A m : MadeIn(m, es, root, TerminalObject(ins))
              /\ SetsType(ins) /\ (~OnlyType(ins) => <<root, TerminalObject(ins)>> \notin made) =>
                   DueIn(disk, es, root, "ttymon/terminal_type") = <<Words(<<ins.type>>)>>
<1>1. CASE ins.op = "dataset"
  <2>1. Effects(root, ins) = Create("host", DatasetObject(ins))
    BY <1>1 DEF Effects, CreateDataset
  <2> QED
    BY <1>1, <2>1, CreatePlan DEF Sensible
<1>2. CASE ins.op = "locale"
  <2>1. Effects(root, ins) = SetInInit(root, "LANG", LocaleSetting(ins))
    BY <1>2 DEF Effects, SetLocale
  <2>2. Writes(ins) = {"init"}
    BY <1>2 DEF Writes
  <2> QED
    BY <1>2, <2>1, <2>2, SetInInitPlan, SensibleStores
<1>3. CASE ins.op = "dns"
  <2>1. Effects(root, ins) = SetupDns(root, ins)
    BY <1>3 DEF Effects
  <2>2. Writes(ins) = {"resolv.conf", "nsswitch.conf"}
    BY <1>3 DEF Writes
  <2> QED
    BY <1>3, <2>1, <2>2, SetupDnsPlan, SensibleStores
<1>5. CASE ins.op = "password"
  <2>1. Effects(root, ins) = SetRootPasswordHash(root, ins)
    BY <1>5 DEF Effects
  <2>2. Writes(ins) = {"shadow"}
    BY <1>5 DEF Writes
  <2> QED
    BY <1>5, <2>1, <2>2, PasswordPlan, SensibleStores
<1>6. CASE ins.op = "hostname"
  <2>1. Effects(root, ins) = SetHostname(root, ins)
    BY <1>6 DEF Effects
  <2>2. Writes(ins) = {"nodename", "hosts"}
    BY <1>6 DEF Writes
  <2> QED
    BY <1>6, <2>1, <2>2, SetHostnamePlan, SensibleStores
<1>7. CASE ins.op = "keymap"
  <2>1. Effects(root, ins) = SetProp(root, "keymap/layout", ins.layout)
    BY <1>7 DEF Effects, SetupKeyboard
  <2>2. Writes(ins) = {"keymap/layout"}
    BY <1>7 DEF Writes
  <2>3. "keymap/layout" \in SmfProps
    BY DEF SmfProps
  <2> QED
    BY <1>7, <2>1, <2>2, <2>3, SetPropPlan, SensibleStores
<1>8. CASE ins.op = "timezone"
  <2>1. Effects(root, ins) = SetInInit(root, "TZ", TimezoneSetting(ins))
    BY <1>8 DEF Effects, SetupTimezone
  <2>2. Writes(ins) = {"init"}
    BY <1>8 DEF Writes
  <2> QED
    BY <1>8, <2>1, <2>2, SetInInitPlan, SensibleStores
<1>9. CASE ins.op = "terminal"
  <2>1. Effects(root, ins) = SetupTerminal(root, ins)
    BY <1>9 DEF Effects
  <2>2. SetsType(ins) => Writes(ins) = {"ttymon/terminal_type"}
    BY <1>9 DEF Writes
  <2>3. OnlyType(ins) => SetsType(ins)
    BY <1>9 DEF OnlyType, SetsType
  <2> QED
    BY <1>9, <2>1, <2>2, <2>3, TerminalPlan
<1> QED
  BY <1>1, <1>2, <1>3, <1>5, <1>6, <1>7, <1>8, <1>9,
     InstructionOp DEF Panics, Misused

-----------------------------------------------------------------------------
(* What the handlers make of the two files they edit.                       *)

LEMMA SettingKinds ==
  ASSUME NEW ins \in Instruction
  PROVE  /\ ins.op = "locale" => /\ LocaleSetting(ins) \in Line
                                 /\ StartsWith(LocaleSetting(ins), "LANG")
                                 /\ ~StartsWith(LocaleSetting(ins), "TZ")
         /\ ins.op = "timezone" => /\ TimezoneSetting(ins) \in Line
                                   /\ StartsWith(TimezoneSetting(ins), "TZ")
                                   /\ ~StartsWith(TimezoneSetting(ins), "LANG")
<1>1. ASSUME ins.op = "locale"
      PROVE  /\ LocaleSetting(ins) \in Line
             /\ StartsWith(LocaleSetting(ins), "LANG")
             /\ ~StartsWith(LocaleSetting(ins), "TZ")
  <2>1. LocaleSetting(ins) \in Line
    BY <1>1, LocaleSettingType
  <2>2. FinalLocale(ins) \in Seq(Word)
    <3>1. ins.name \in Seq(Word)
      BY <1>1, InstructionFields
    <3>2. Append(ins.name, "UTF-8") \in Seq(Word)
      BY <3>1, AppendProperties, DriverAssumption DEF Literals
    <3> QED
      BY <3>1, <3>2 DEF FinalLocale
  <2>3. <<"LANG">> \in Seq(Word) /\ Len(<<"LANG">>) = 1 /\ <<"LANG">>[1] = "LANG"
    BY DriverAssumption, Singleton DEF Literals
  <2> DEFINE ws == <<"LANG">> \o FinalLocale(ins)
  <2>4. ws \in Seq(Word) /\ Len(ws) = 1 + Len(FinalLocale(ins)) /\ ws[1] = "LANG"
    BY <2>2, <2>3, ConcatProperties
  <2>5. ws # <<>>
    BY <2>2, <2>4, LenProperties, EmptySeq
  <2>6. LocaleSetting(ins).words = ws
    BY DEF LocaleSetting, Words
  <2> HIDE DEF ws
  <2> QED
    BY <2>1, <2>4, <2>5, <2>6 DEF StartsWith, Beginning
<1>2. ASSUME ins.op = "timezone"
      PROVE  /\ TimezoneSetting(ins) \in Line
             /\ StartsWith(TimezoneSetting(ins), "TZ")
             /\ ~StartsWith(TimezoneSetting(ins), "LANG")
  <2>1. TimezoneSetting(ins) \in Line
    BY <1>2, InstructionFields, DriverAssumption, LineType DEF TimezoneSetting, Literals
  <2>2. TimezoneSetting(ins).words = <<"TZ", ins.name>>
    BY DEF TimezoneSetting, Words
  <2>3. <<"TZ", ins.name>>[1] = "TZ" /\ <<"TZ", ins.name>> # <<>>
    OBVIOUS
  <2> QED
    BY <2>1, <2>2, <2>3 DEF StartsWith, Beginning
<1> QED
  BY <1>1, <1>2

LEMMA RewrittenLines ==
  ASSUME NEW old \in Seq(Line), NEW key, NEW setting \in Line
  PROVE  LET new == Rewritten(old, key, setting) IN
         /\ new \in Seq(Line) /\ Len(new) = Len(old)
         /\ DOMAIN new = 1..Len(old) /\ DOMAIN old = 1..Len(old)
         /\ \A i \in 1..Len(old) :
               new[i] = old[i] \/ (StartsWith(old[i], key) /\ new[i] = setting)
         /\ (\E i \in 1..Len(old) : StartsWith(old[i], key)) =>
               \E i \in 1..Len(old) : new[i] = setting \/ old[i] = setting
<1>1. DOMAIN old = 1..Len(old) /\ Len(old) \in Nat /\ \A i \in 1..Len(old) : old[i] \in Line
  BY LenProperties, ElementOfSeq
<1>2. CASE \E i \in DOMAIN old : old[i] = setting
  BY <1>1, <1>2 DEF Rewritten
<1>3. CASE ~(\E i \in DOMAIN old : old[i] = setting)
  <2> DEFINE new == [i \in DOMAIN old |-> IF StartsWith(old[i], key) THEN setting ELSE old[i]]
  <2>1. Rewritten(old, key, setting) = new
    BY <1>3 DEF Rewritten
  <2>2. \A i \in 1..Len(old) : new[i] \in Line
    BY <1>1
  <2>3. DOMAIN new = 1..Len(old) /\ new \in Seq(Line) /\ Len(new) = Len(old)
    BY <1>1, <2>2
  <2>4. \A i \in 1..Len(old) : new[i] = IF StartsWith(old[i], key) THEN setting ELSE old[i]
    BY <1>1
  <2> HIDE DEF new
  <2> QED
    BY <1>1, <2>1, <2>3, <2>4
<1> QED
  BY <1>2, <1>3

(* The setting is in the file afterwards, if the file had a line for it.    *)
LEMMA RewrittenSettled ==
  ASSUME NEW old \in Seq(Line), NEW key, NEW setting \in Line
  PROVE  Settled(Rewritten(old, key, setting), key, setting)
<1> DEFINE new == Rewritten(old, key, setting)
<1>1. /\ new \in Seq(Line) /\ DOMAIN new = 1..Len(old) /\ DOMAIN old = 1..Len(old)
      /\ \A i \in 1..Len(old) :
            new[i] = old[i] \/ (StartsWith(old[i], key) /\ new[i] = setting)
  BY RewrittenLines
<1>2. new # Absent
  <2>1. new \in Seq(Line \cup ShadowLine)
    BY <1>1, SeqMonotonic
  <2> QED
    BY <2>1, DriverAssumption
<1>3. CASE \E i \in DOMAIN old : old[i] = setting
  <2>1. new = old
    BY <1>3 DEF Rewritten
  <2> QED
    BY <1>2, <1>3, <2>1 DEF Settled
<1>4. CASE ~(\E i \in DOMAIN old : old[i] = setting)
  <2>1. \A i \in DOMAIN new : new[i] = IF StartsWith(old[i], key) THEN setting ELSE old[i]
    BY <1>1, <1>4 DEF Rewritten
  <2> HIDE DEF new
  <2>2. \/ \E i \in DOMAIN new : new[i] = setting
        \/ \A i \in DOMAIN new : ~StartsWith(new[i], key)
    BY <2>1
  <2> QED
    BY <1>2, <2>2 DEF Settled, new
<1> QED
  BY <1>3, <1>4

(* ... and a setting of the other kind stays.                               *)
LEMMA OtherStaysSettled ==
  ASSUME NEW old \in Seq(Line), NEW key, NEW setting \in Line,
         NEW key2, NEW setting2 \in Line, Settled(old, key2, setting2),
         ~StartsWith(setting, key2), ~StartsWith(setting2, key)
  PROVE  Settled(Rewritten(old, key, setting), key2, setting2)
<1> DEFINE new == Rewritten(old, key, setting)
<1>1. /\ new \in Seq(Line) /\ DOMAIN new = 1..Len(old) /\ DOMAIN old = 1..Len(old)
      /\ \A i \in 1..Len(old) :
            new[i] = old[i] \/ (StartsWith(old[i], key) /\ new[i] = setting)
  BY RewrittenLines
<1>2. new # Absent
  <2>1. new \in Seq(Line \cup ShadowLine)
    BY <1>1, SeqMonotonic
  <2> QED
    BY <2>1, DriverAssumption
<1> HIDE DEF new
<1>3. \/ \E i \in DOMAIN new : new[i] = setting2
      \/ \A i \in DOMAIN new : ~StartsWith(new[i], key2)
  BY <1>1 DEF Settled
<1>4. Settled(new, key2, setting2)
  BY <1>2, <1>3 DEF Settled
<1> QED
  BY <1>4 DEF new

(* What is settled is not touched again.                                    *)
LEMMA SettledStays ==
  ASSUME NEW old \in Seq(Line), NEW key, NEW setting \in Line, Settled(old, key, setting)
  PROVE  Rewritten(old, key, setting) = old
<1>1. CASE \E i \in DOMAIN old : old[i] = setting
  BY <1>1 DEF Rewritten
<1>2. CASE \A i \in DOMAIN old : ~StartsWith(old[i], key)
  <2> DEFINE new == Rewritten(old, key, setting)
  <2>1. /\ new \in Seq(Line) /\ Len(new) = Len(old) /\ DOMAIN old = 1..Len(old)
        /\ \A i \in 1..Len(old) : new[i] = old[i]
    BY <1>2, RewrittenLines
  <2> HIDE DEF new
  <2>2. new = old
    BY <2>1, SeqEqual
  <2> QED
    BY <2>2 DEF new
<1> QED
  BY <1>1, <1>2 DEF Settled

(* The password of root afterwards, and the rest of the file.               *)
LEMMA RootPasswordLines ==
  ASSUME NEW old \in Seq(ShadowLine), NEW h \in Hashes
  PROVE  LET new == WithRootPassword(old, h) IN
         /\ new \in Seq(ShadowLine) /\ Len(new) = Len(old)
         /\ PasswordSet(new, h)
         /\ \A i \in 1..Len(old) :
               /\ new[i].user = old[i].user
               /\ new[i].pw # old[i].pw => /\ old[i].user = "root"
                                           /\ i = FirstOf(old, "root")
                                           /\ old[i].pw \notin Mark
         /\ PasswordSet(old, h) => ParseFile(new) = ParseFile(old)
<1> DEFINE new == WithRootPassword(old, h)
           n == FirstOf(old, "root")
<1>1. /\ DOMAIN old = 1..Len(old) /\ DOMAIN ParseFile(old) = 1..Len(old)
      /\ \A i \in 1..Len(old) : ParseFile(old)[i].user = old[i].user
  BY LenProperties, ParseFileType, LineFields DEF ParseFile
<1>2. old # Absent
  <2>1. old \in Seq(Line \cup ShadowLine)
    BY SeqMonotonic
  <2> QED
    BY <2>1, DriverAssumption
<1>3. CASE ~HasEntry(ParseFile(old), "root")
  <2>1. ~HasEntry(old, "root")
    BY <1>1, <1>3 DEF HasEntry
  <2>2. new = old
    BY <1>3 DEF WithRootPassword
  <2> QED
    BY <1>2, <2>1, <2>2 DEF PasswordSet
<1>4. CASE HasEntry(ParseFile(old), "root")
  <2>1. new = WithPassword(old, "root", h)
    BY <1>4 DEF WithRootPassword
  <2> HIDE DEF new, n
  <2>2. /\ new \in Seq(ShadowLine) /\ Len(new) = Len(old)
        /\ HasEntry(old, "root") /\ n \in 1..Len(old) /\ FirstOf(new, "root") = n
        /\ \A i \in 1..Len(old) :
              /\ new[i].user = old[i].user
              /\ i # n => new[i].pw = old[i].pw
              /\ i # n => ParseLine(new[i]) = ParseLine(old[i])
        /\ old[n].user = "root"
        /\ new[n].pw = IF old[n].pw \in Mark THEN old[n].pw ELSE h
        /\ new[n].pw = old[n].pw => ParseLine(new[n]) = ParseLine(old[n])
    BY <1>4, <2>1, WithPasswordLines DEF n
  <2>3. new # Absent
    <3>1. new \in Seq(Line \cup ShadowLine)
      BY <2>2, SeqMonotonic
    <3> QED
      BY <3>1, DriverAssumption
  <2>4. PasswordSet(new, h)
    BY <2>2, <2>3 DEF PasswordSet
  <2>5. \A i \in 1..Len(old) :
          /\ new[i].user = old[i].user
          /\ new[i].pw # old[i].pw => /\ old[i].user = "root"
                                      /\ i = FirstOf(old, "root")
                                      /\ old[i].pw \notin Mark
    BY <2>2 DEF n
  <2>6. ASSUME PasswordSet(old, h) PROVE ParseFile(new) = ParseFile(old)
    <3>1. new[n].pw = old[n].pw
      BY <2>2, <2>6 DEF PasswordSet, n
    <3>2. \A i \in 1..Len(old) : ParseLine(new[i]) = ParseLine(old[i])
      BY <2>2, <3>1
    <3>3. DOMAIN new = 1..Len(old)
      BY <2>2, LenProperties
    <3> QED
      BY <1>1, <3>2, <3>3 DEF ParseFile
  <2> QED
    BY <2>2, <2>4, <2>5, <2>6 DEF new
<1> QED
  BY <1>3, <1>4

-----------------------------------------------------------------------------
(* Steps and what is in place.                                              *)

(* An instruction stays in place while what it stores stays due, what it
   creates stays made, and the file that cp reads stays as it is.           *)
LEMMA InPlaceKept ==
  ASSUME NEW ins \in Instruction, InPlace("host", ins),
         \A i \in Writes(ins) : Due("host", i)' = Due("host", i),
         \A s, o : DueMade(s, o) => DueMade(s, o)',
         disk'["host"]["nsswitch.dns"] = disk["host"]["nsswitch.dns"]
  PROVE  InPlace("host", ins)'
<1>0. \A f : SystemOf("host", f) = "host"
  BY DEF SystemOf
<1>1. CASE ins.op = "dataset"
  <2>1. InPlace("host", ins) <=> DueMade("host", DatasetObject(ins))
    BY <1>1 DEF InPlace
  <2>2. InPlace("host", ins)' <=> DueMade("host", DatasetObject(ins))'
    BY <1>1 DEF InPlace
  <2> QED
    BY <2>1, <2>2
<1>2. CASE ins.op = "locale"
  <2>1. Due("host", "init")' = Due("host", "init")
    BY <1>2 DEF Writes
  <2> QED
    BY <1>0, <1>2, <2>1 DEF InPlace
<1>3. CASE ins.op = "dns"
  <2>1. /\ Due("host", "resolv.conf")' = Due("host", "resolv.conf")
        /\ Due("host", "nsswitch.conf")' = Due("host", "nsswitch.conf")
    BY <1>3 DEF Writes
  <2> QED
    BY <1>0, <1>3, <2>1 DEF InPlace, Content
<1>5. CASE ins.op = "password"
  <2>1. Due("host", "shadow")' = Due("host", "shadow")
    BY <1>5 DEF Writes
  <2> QED
    BY <1>0, <1>5, <2>1 DEF InPlace
<1>6. CASE ins.op = "hostname"
  <2>1. /\ Due("host", "nodename")' = Due("host", "nodename")
        /\ Due("host", "hosts")' = Due("host", "hosts")
    BY <1>6 DEF Writes
  <2> QED
    BY <1>0, <1>6, <2>1 DEF InPlace
<1>7. CASE ins.op = "keymap"
  <2>1. Due("host", "keymap/layout")' = Due("host", "keymap/layout")
    BY <1>7 DEF Writes
  <2> QED
    BY <1>7, <2>1 DEF InPlace
<1>8. CASE ins.op = "timezone"
  <2>1. Due("host", "init")' = Due("host", "init")
    BY <1>8 DEF Writes
  <2> QED
    BY <1>0, <1>8, <2>1 DEF InPlace
<1>9. CASE ins.op = "terminal"
  <2>1. SetsType(ins) =>
          Due("host", "ttymon/terminal_type")' = Due("host", "ttymon/terminal_type")
    BY <1>9 DEF Writes
  <2>2. InPlace("host", ins) <=>
          /\ ~OnlyType(ins) => DueMade("host", TerminalObject(ins))
          /\ SetsType(ins) => Due("host", "ttymon/terminal_type") = <<Words(<<ins.type>>)>>
    BY <1>9 DEF InPlace
  <2>3. InPlace("host", ins)' <=>
          /\ ~OnlyType(ins) => DueMade("host", TerminalObject(ins))'
          /\ SetsType(ins) => Due("host", "ttymon/terminal_type")' = <<Words(<<ins.type>>)>>
    BY <1>9 DEF InPlace
  <2> QED
    BY <2>1, <2>2, <2>3
<1>12. CASE ins.op \in {"timeserver", "route", "interface"}
  BY <1>12 DEF InPlace
<1> QED
  BY <1>1, <1>2, <1>3, <1>5, <1>6, <1>7, <1>8, <1>9, <1>12, InstructionOp

(* Entering a handler: what it does not store stays due.                    *)
LEMMA EnterDue ==
  ASSUME NEW root, NEW ins \in Instruction, todo = <<>>, Enter(root, ins)
  PROVE  /\ Planned(todo') /\ Sensible(todo', made') /\ ~Misused(ins)
         /\ \A k \in DOMAIN todo' : todo'[k].do # "run" => todo'[k].on \in Writes(ins)
         /\ \A s, i : Due(s, i) = disk[s][i] /\ Due(s, i)' = DueIn(disk, Effects(root, ins), s, i)
         /\ \A s, i : i \notin Writes(ins) => Due(s, i)' = Due(s, i)
         /\ \A s, i : i \in Files /\ s # "host" => Due(s, i)' = Due(s, i)
         /\ \A s, o : DueMade(s, o) => DueMade(s, o)'
         /\ \A s, o : DueMade(s, o)' <=> MadeIn(made, Effects(root, ins), s, o)
         /\ disk' = disk /\ made' = made /\ todo' = Effects(root, ins)
<1>1. /\ disk' = disk /\ made' = made /\ todo' = Effects(root, ins)
      /\ ~Panics(ins) /\ ~Misused(ins)
  BY DEF Enter, Refuses
<1> DEFINE es == Effects(root, ins)
<1>2. /\ Planned(es) /\ Sensible(es, made)
      /\ \A k \in DOMAIN es : es[k].do # "run" => es[k].on \in Writes(ins)
  BY <1>1, EffectsPlan
<1> HIDE DEF es
<1>3. \A s, i : Saving(todo, s, i) = {}
  BY DEF Saving
<1>4. \A s, i : Due(s, i) = disk[s][i]
  BY <1>3, DueForm, DueUnsaved
<1>5. \A s, i : Due(s, i)' = DueIn(disk, es, s, i)
  BY <1>1, DueForm DEF es
<1>6. \A s, i : i \notin Writes(ins) => Saving(es, s, i) = {}
  BY <1>2 DEF Saving, Saves
<1>7. \A s, i : i \in Files /\ s # "host" => Saving(es, s, i) = {}
  BY <1>2 DEF Saving, Saves, Planned
<1>8. \A s, o : DueMade(s, o)' <=> MadeIn(made, es, s, o)
  BY <1>1, MadeForm DEF es
<1>9. \A s, o : DueMade(s, o) => MadeIn(made, es, s, o)
  BY DEF DueMade, MadeIn
<1> QED
  BY <1>1, <1>2, <1>4, <1>5, <1>6, <1>7, <1>8, <1>9, DueUnsaved DEF es

(* The files an entered handler edits are there.                            *)
LEMMA EnterContents ==
  ASSUME DriverTypeOK, NEW root, NEW ins \in Instruction, Enter(root, ins)
  PROVE  /\ ins.op \in {"locale", "timezone"} => disk["host"]["init"] \in Seq(Line)
         /\ ins.op = "password" => /\ disk["host"]["shadow"] \in Seq(ShadowLine)
                                   /\ ins.kind = "hash" /\ ins.value \in Hashes
<1>1. ~Refuses(root, ins)
  BY DEF Enter
<1>2. "host" \in Systems /\ "init" \in Items /\ "shadow" \in Items
  BY DEF Systems, Items, Files
<1>3. /\ Content(root, "init") = disk["host"]["init"]
      /\ Content(root, "shadow") = disk["host"]["shadow"]
  BY DEF Content, SystemOf, AbsolutePaths, Files
<1>4. /\ disk["host"]["init"] \in {Absent} \cup Seq(Line)
      /\ disk["host"]["shadow"] \in {Absent} \cup Seq(ShadowLine)
  BY <1>2, ContentType DEF DriverTypeOK, LineOf
<1> QED
  BY <1>1, <1>3, <1>4, InstructionFields DEF Refuses, ShadowReadable

(* ... what is in place stays in place, unless the instruction overrides it *)
LEMMA EnterKeeps ==
  ASSUME DriverTypeOK, todo = <<>>, NEW ins \in Instruction, Enter("host", ins),
         NEW other \in Instruction, InPlace("host", other), ~Overrides(ins, other)
  PROVE  InPlace("host", other)'
<1>1. /\ \A s, i : Due(s, i) = disk[s][i] /\ Due(s, i)' = DueIn(disk, Effects("host", ins), s, i)
      /\ \A s, i : i \notin Writes(ins) => Due(s, i)' = Due(s, i)
      /\ \A s, o : DueMade(s, o) => DueMade(s, o)'
      /\ disk' = disk
  BY EnterDue
<1>2. ~Panics(ins) /\ ~Misused(ins)
  BY DEF Enter, Refuses
<1>3. CASE Writes(ins) \cap Writes(other) = {}
  BY <1>1, <1>3, InPlaceKept
<1>4. CASE /\ ins.op \in {"locale", "timezone"} /\ other.op \in {"locale", "timezone"}
           /\ ins.op # other.op
  <2>0. SystemOf("host", "init") = "host" /\ disk["host"]["init"] \in Seq(Line)
    BY <1>4, EnterContents DEF SystemOf
  <2>1. CASE ins.op = "locale"
    <3>0. other.op = "timezone"
      BY <1>4, <2>1
    <3>1. Settled(disk["host"]["init"], "TZ", TimezoneSetting(other))
      BY <1>1, <2>0, <3>0 DEF InPlace
    <3>2. Due("host", "init")' = Rewritten(disk["host"]["init"], "LANG", LocaleSetting(ins))
      BY <1>1, <1>2, <2>1, EffectsPlan
    <3>3. Settled(Due("host", "init")', "TZ", TimezoneSetting(other))
      BY <2>0, <2>1, <3>0, <3>1, <3>2, SettingKinds, OtherStaysSettled
    <3> QED
      BY <2>0, <3>0, <3>3 DEF InPlace, Settled, StartsWith
  <2>2. CASE ins.op = "timezone"
    <3>0. other.op = "locale"
      BY <1>4, <2>2
    <3>1. Settled(disk["host"]["init"], "LANG", LocaleSetting(other))
      BY <1>1, <2>0, <3>0 DEF InPlace
    <3>2. Due("host", "init")' = Rewritten(disk["host"]["init"], "TZ", TimezoneSetting(ins))
      BY <1>1, <1>2, <2>2, EffectsPlan
    <3>3. Settled(Due("host", "init")', "LANG", LocaleSetting(other))
      BY <2>0, <2>2, <3>0, <3>1, <3>2, SettingKinds, OtherStaysSettled
    <3> QED
      BY <2>0, <3>0, <3>3 DEF InPlace, Settled, StartsWith
  <2> QED
    BY <1>4, <2>1, <2>2
<1>5. CASE Writes(ins) \cap Writes(other) # {} /\ ins.op = other.op
  <2>1. ins.op # "dataset" /\ (ins.op = "terminal" => SetsType(ins) /\ SetsType(other))
    BY <1>5 DEF Writes, SetsType
  <2> QED
    BY <1>5, <2>1 DEF Overrides
<1>6. Writes(ins) \cap Writes(other) = {} \/ ins.op = other.op
        \/ (/\ ins.op \in {"locale", "timezone"} /\ other.op \in {"locale", "timezone"})
  BY InstructionOp DEF Writes, SetsType
<1> QED
  BY <1>3, <1>4, <1>5, <1>6

(* ... and it is in place itself once its effects are performed, unless it is
   one that fails for good.                                                 *)
LEMMA EnterPuts ==
  ASSUME DriverTypeOK, todo = <<>>, NEW ins \in Instruction, Enter("host", ins),
         ~Hopeless(ins)
  PROVE  InPlace("host", ins)'
<1>1. /\ \A s, i : Due(s, i)' = DueIn(disk, Effects("host", ins), s, i)
      /\ \A s, o : DueMade(s, o)' <=> MadeIn(made, Effects("host", ins), s, o)
      /\ disk' = disk
  BY EnterDue
<1>2. ~Panics(ins) /\ ~Misused(ins)
  BY DEF Enter, Refuses
<1>3. \A f : SystemOf("host", f) = "host"
  BY DEF SystemOf
<1>4. CASE ins.op = "dataset"
  <2>1. DueMade("host", DatasetObject(ins))'
    BY <1>1, <1>2, <1>4, EffectsPlan
  <2> QED
    BY <1>4, <2>1 DEF InPlace
<1>5. CASE ins.op = "locale"
  <2>1. Due("host", "init")' = Rewritten(disk["host"]["init"], "LANG", LocaleSetting(ins))
    BY <1>1, <1>2, <1>5, EffectsPlan
  <2>2. Settled(Due("host", "init")', "LANG", LocaleSetting(ins))
    BY <1>5, <2>1, EnterContents, SettingKinds, RewrittenSettled
  <2> QED
    BY <1>3, <1>5, <2>2 DEF InPlace, Settled, StartsWith
<1>6. CASE ins.op = "timezone"
  <2>1. Due("host", "init")' = Rewritten(disk["host"]["init"], "TZ", TimezoneSetting(ins))
    BY <1>1, <1>2, <1>6, EffectsPlan
  <2>2. Settled(Due("host", "init")', "TZ", TimezoneSetting(ins))
    BY <1>6, <2>1, EnterContents, SettingKinds, RewrittenSettled
  <2> QED
    BY <1>3, <1>6, <2>2 DEF InPlace, Settled, StartsWith
<1>7. CASE ins.op = "dns"
  <2>1. /\ Due("host", "resolv.conf")' = ResolvConf(ins)
        /\ Due("host", "nsswitch.conf")' = disk["host"]["nsswitch.dns"]
    BY <1>1, <1>2, <1>7, EffectsPlan
  <2> QED
    BY <1>1, <1>3, <1>7, <2>1 DEF InPlace, Content, Hopeless
<1>9. CASE ins.op = "password"
  <2>1. Due("host", "shadow")' = WithRootPassword(disk["host"]["shadow"], ins.value)
    BY <1>1, <1>2, <1>9, EffectsPlan
  <2>2. ins.kind = "hash" /\ PasswordSet(Due("host", "shadow")', ins.value)
    BY <1>9, <2>1, EnterContents, RootPasswordLines
  <2> QED
    BY <1>3, <1>9, <2>2 DEF InPlace, PasswordSet
<1>10. CASE ins.op = "hostname"
  <2>1. /\ Due("host", "nodename")' = NodenameFile(ins.name)
        /\ Due("host", "hosts")' = HostsFile(ins.name)
    BY <1>1, <1>2, <1>10, EffectsPlan
  <2> QED
    BY <1>3, <1>10, <2>1 DEF InPlace
<1>11. CASE ins.op = "keymap"
  <2>1. Due("host", "keymap/layout")' = <<Words(<<ins.layout>>)>>
    BY <1>1, <1>2, <1>11, EffectsPlan
  <2> QED
    BY <1>11, <2>1 DEF InPlace
<1>12. CASE ins.op = "terminal"
  <2>1. ~OnlyType(ins) => <<"host", TerminalObject(ins)>> \notin made
    BY <1>12 DEF Hopeless, Creates
  <2>2. ~OnlyType(ins) => DueMade("host", TerminalObject(ins))'
    BY <1>1, <1>2, <1>12, EffectsPlan
  <2>3. SetsType(ins) => Due("host", "ttymon/terminal_type")' = <<Words(<<ins.type>>)>>
    BY <1>1, <1>2, <1>12, <2>1, EffectsPlan
  <2> QED
    BY <1>12, <2>2, <2>3 DEF InPlace
<1> QED
  BY <1>2, <1>4, <1>5, <1>6, <1>7, <1>9, <1>10, <1>11, <1>12,
     InstructionOp DEF Panics, Misused

(* A step of a plan leaves what is due and what will be made as it is.      *)
LEMMA StepKeeps ==
  ASSUME DriverTypeOK, Planned(todo), Step
  PROVE  /\ Planned(todo') /\ Sensible(todo', made')
         /\ \A k \in DOMAIN todo' : k + 1 \in DOMAIN todo /\ todo'[k] = todo[k + 1]
         /\ \A k \in DOMAIN todo : k # 1 => k - 1 \in DOMAIN todo' /\ todo'[k - 1] = todo[k]
         /\ \A s \in Systems, i \in Items : Due(s, i)' = Due(s, i)
         /\ \A s, o : DueMade(s, o) => DueMade(s, o)'
         /\ disk'["host"]["nsswitch.dns"] = disk["host"]["nsswitch.dns"]
         /\ \A s \in Systems, i \in Items :
               disk'[s][i] = disk[s][i]
                 \/ (todo[1].do = "truncate" /\ todo[1].sys = s /\ todo[1].on = i /\ disk'[s][i] = <<>>)
                 \/ (Saves(todo[1]) /\ todo[1].sys = s /\ todo[1].on = i /\ Saving(todo', s, i) = {})
<1> DEFINE e == Head(todo)
<1>1. /\ todo # <<>> /\ todo \in Seq(Effect) /\ todo' = Tail(todo)
      /\ ~Rejected(e) /\ Perform(e, Size(e)) /\ disk \in [Systems -> Disk]
  BY DEF Step, DriverTypeOK
<1>2. /\ Planned(todo') /\ Sensible(todo', made') /\ e \in Effect
      /\ 1 \in DOMAIN todo /\ todo[1] = e
      /\ \A k \in DOMAIN todo' : k + 1 \in DOMAIN todo /\ todo'[k] = todo[k + 1]
      /\ \A k \in DOMAIN todo' : k \in Nat /\ 1 <= k
      /\ \A k \in DOMAIN todo : k # 1 => k - 1 \in DOMAIN todo' /\ todo'[k - 1] = todo[k]
  BY <1>1, PlannedTail, HeadTailProperties, TailElements
<1> HIDE DEF e
<1>3. NewLines(e) = NewLinesIn(disk, e)
  BY DEF NewLines, NewLinesIn
<1>4. CASE e.do = "run"
  <2>1. disk' = disk /\ made' = made \cup {<<e.sys, e.object>>}
    BY <1>1, <1>4 DEF Perform
  <2>2. ASSUME NEW s \in Systems, NEW i \in Items
        PROVE  DueIn(disk', todo', s, i) = DueIn(disk, todo, s, i)
    BY <1>1, <1>4, <2>1, DueKept DEF e
  <2>3. ASSUME NEW s, NEW o, MadeIn(made, todo, s, o)
        PROVE  MadeIn(made', todo', s, o)
    <3>1. CASE <<s, o>> \in made
      BY <2>1, <3>1 DEF MadeIn
    <3>2. CASE \E k \in DOMAIN todo : todo[k].do = "run" /\ todo[k].sys = s /\ todo[k].object = o
      BY <1>2, <2>1, <3>2 DEF MadeIn
    <3> QED
      BY <2>3, <3>1, <3>2 DEF MadeIn
  <2>4. \A s \in Systems, i \in Items : Due(s, i)' = Due(s, i)
    BY <2>2, DueForm
  <2>5. \A s, o : DueMade(s, o) => DueMade(s, o)'
    BY <2>3, MadeForm
  <2> QED
    BY <1>2, <2>1, <2>4, <2>5
<1>5. CASE e.do # "run"
  <2>1. made' = made /\ disk' = [disk EXCEPT ![e.sys][e.on] = SubSeq(NewLines(e), 1, Size(e))]
    BY <1>1, <1>5 DEF Perform
  <2>2. SubSeq(NewLines(e), 1, Size(e)) = NewLinesIn(disk, e)
    BY <1>1, <1>2, <1>3, <1>5, NewLinesType, SubSeqFull DEF Size
  <2>3. disk' = [disk EXCEPT ![e.sys][e.on] = NewLinesIn(disk, e)]
    BY <2>1, <2>2
  <2>5. ASSUME NEW s, NEW o, MadeIn(made, todo, s, o)
        PROVE  MadeIn(made', todo', s, o)
    <3>1. CASE <<s, o>> \in made
      BY <2>1, <3>1 DEF MadeIn
    <3>2. CASE \E k \in DOMAIN todo : todo[k].do = "run" /\ todo[k].sys = s /\ todo[k].object = o
      BY <1>2, <1>5, <3>2 DEF MadeIn
    <3> QED
      BY <2>5, <3>1, <3>2 DEF MadeIn
  <2>6. e.sys \in Systems /\ e.on \in Items /\ e.on # "nsswitch.dns"
    BY <1>2, <1>5, EffectFields DEF Planned
  <2>7. \A s \in Systems, i \in Items :
          disk'[s][i] = IF s = e.sys /\ i = e.on THEN NewLinesIn(disk, e) ELSE disk[s][i]
    <3>1. \A t \in Systems : disk[t] \in [Items -> {Absent} \cup Seq(Line \cup ShadowLine)]
      BY <1>1 DEF Disk
    <3> QED
      BY <1>1, <2>3, <2>6, <3>1
  <2>4. ASSUME NEW s \in Systems, NEW i \in Items
        PROVE  DueIn(disk', todo', s, i) = DueIn(disk, todo, s, i)
    BY <1>1, <1>5, <2>7, DueKept DEF e
  <2>8. disk'["host"]["nsswitch.dns"] = disk["host"]["nsswitch.dns"]
    BY <2>6, <2>7 DEF Systems, Items, Files
  <2>9. ASSUME NEW s \in Systems, NEW i \in Items
        PROVE  \/ disk'[s][i] = disk[s][i]
               \/ e.do = "truncate" /\ e.sys = s /\ e.on = i /\ disk'[s][i] = <<>>
               \/ Saves(e) /\ e.sys = s /\ e.on = i /\ Saving(todo', s, i) = {}
    <3>1. CASE ~(e.sys = s /\ e.on = i)
      BY <2>7, <3>1
    <3>2. CASE e.sys = s /\ e.on = i /\ ~Saves(e)
      <4>1. e.do = "truncate"
        BY <1>2, <1>5, <3>2, EffectFields
      <4>2. e.lines = <<>>
        BY <1>2, <4>1 DEF Planned
      <4> QED
        BY <2>7, <3>2, <4>1, <4>2 DEF NewLinesIn
    <3>3. CASE e.sys = s /\ e.on = i /\ Saves(e)
      <4>1. Saving(todo', s, i) = {}
        <5> SUFFICES ASSUME NEW k \in DOMAIN todo', Saves(todo'[k]),
                            todo'[k].sys = s, todo'[k].on = i
                     PROVE  FALSE
          BY DEF Saving
        <5>1. k + 1 = 1
          BY <1>2, <3>3 DEF Planned, SamePlace
        <5> QED
          BY <1>2, <5>1
      <4> QED
        BY <3>3, <4>1
    <3> QED
      BY <3>1, <3>2, <3>3
  <2> QED
    BY <1>2, <2>4, <2>5, <2>8, <2>9, DueForm, MadeForm
<1> QED
  BY <1>4, <1>5

LEMMA DueType ==
  ASSUME DriverTypeOK, NEW s \in Systems, NEW i \in Items
  PROVE  Due(s, i) \in {Absent} \cup Seq(LineOf(i))
<1>1. disk[s][i] \in {Absent} \cup Seq(LineOf(i))
  BY ContentType DEF DriverTypeOK
<1>2. CASE Saving(todo, s, i) = {}
  BY <1>1, <1>2, DueForm, DueUnsaved
<1>3. CASE Saving(todo, s, i) # {}
  <2> DEFINE k == CHOOSE k \in Saving(todo, s, i) : TRUE
  <2>1. k \in Saving(todo, s, i)
    BY <1>3
  <2>2. Due(s, i) = NewLinesIn(disk, todo[k])
    BY <1>3, DueForm DEF DueIn
  <2> HIDE DEF k
  <2>3. k \in DOMAIN todo /\ Saves(todo[k]) /\ todo[k].on = i
    BY <2>1 DEF Saving
  <2>4. todo[k] \in Effect
    BY <2>3, ElementOfSeq, LenProperties DEF DriverTypeOK
  <2>5. /\ todo[k].sys \in Systems /\ todo[k].lines \in Seq(LineOf(i))
        /\ todo[k].do = "cp" => i = "nsswitch.conf"
    BY <2>3, <2>4 DEF Effect, Saves
  <2>6. CASE todo[k].do = "cp"
    <3>1. disk[todo[k].sys]["nsswitch.dns"] \in {Absent} \cup Seq(Line)
      BY <2>5, ContentType DEF DriverTypeOK, Items, Files, LineOf
    <3> QED
      BY <2>2, <2>5, <2>6, <3>1 DEF NewLinesIn, LineOf
  <2>7. CASE todo[k].do # "cp"
    BY <2>2, <2>5, <2>7 DEF NewLinesIn
  <2> QED
    BY <2>6, <2>7
<1> QED
  BY <1>2, <1>3

(* The rest of a plan, whatever the first effect did.                       *)
LEMMA RestOfPlan ==
  ASSUME DriverTypeOK, Planned(todo), todo # <<>>, todo' = Tail(todo)
  PROVE  /\ Planned(todo') /\ todo[1] \in Effect /\ todo[1] = Head(todo) /\ 1 \in DOMAIN todo
         /\ todo[1].do # "run" => /\ todo[1].sys \in Systems /\ todo[1].on \in Items
                                  /\ todo[1].on # "nsswitch.dns"
         /\ \A k \in DOMAIN todo' : k + 1 \in DOMAIN todo /\ todo'[k] = todo[k + 1]
         /\ \A k \in DOMAIN todo : k # 1 => k - 1 \in DOMAIN todo' /\ todo'[k - 1] = todo[k]
         /\ \A s, i : Saves(todo[1]) /\ todo[1].sys = s /\ todo[1].on = i =>
                        Saving(todo', s, i) = {}
         /\ \A s, i : Saving(todo', s, i) # {} => Saving(todo, s, i) # {}
<1>1. /\ Planned(todo') /\ todo[1] \in Effect /\ todo[1] = Head(todo) /\ 1 \in DOMAIN todo
      /\ \A k \in DOMAIN todo' : k \in Nat /\ 1 <= k /\ k + 1 \in DOMAIN todo /\ todo'[k] = todo[k + 1]
      /\ \A k \in DOMAIN todo : k # 1 => k - 1 \in DOMAIN todo' /\ todo'[k - 1] = todo[k]
  BY PlannedTail, HeadTailProperties, TailElements DEF DriverTypeOK
<1>2. todo[1].do # "run" => /\ todo[1].sys \in Systems /\ todo[1].on \in Items
                            /\ todo[1].on # "nsswitch.dns"
  BY <1>1, EffectFields DEF Planned
<1>3. ASSUME NEW s, NEW i, Saves(todo[1]), todo[1].sys = s, todo[1].on = i
      PROVE  Saving(todo', s, i) = {}
  <2> SUFFICES ASSUME NEW k \in DOMAIN todo', Saves(todo'[k]),
                      todo'[k].sys = s, todo'[k].on = i
               PROVE  FALSE
    BY DEF Saving
  <2>1. k + 1 = 1
    BY <1>1, <1>3 DEF Planned, SamePlace
  <2> QED
    BY <1>1, <2>1
<1>4. \A s, i : Saving(todo', s, i) # {} => Saving(todo, s, i) # {}
  BY <1>1 DEF Saving
<1> QED
  BY <1>1, <1>2, <1>3, <1>4

(* What part of an effect stores.                                           *)
LEMMA PartStored ==
  ASSUME DriverTypeOK, NEW e \in Effect, ~Rejected(e), NEW n \in 0..Size(e), Perform(e, n),
         NEW s \in Systems, NEW i \in Items
  PROVE  \/ disk'[s][i] = disk[s][i]
         \/ /\ e.do # "run" /\ e.sys = s /\ e.on = i
            /\ NewLines(e) \in Seq(LineOf(i)) /\ n \in 0..Len(NewLines(e))
            /\ disk'[s][i] = SubSeq(NewLines(e), 1, n)
            /\ disk'[s][i] \in Seq(LineOf(i)) /\ Len(disk'[s][i]) = n
<1>1. CASE e.do = "run"
  BY <1>1 DEF Perform
<1>2. CASE e.do # "run"
  <2>1. e.sys \in Systems /\ e.on \in Items
    BY <1>2, EffectFields
  <2>2. NewLines(e) \in Seq(LineOf(e.on)) /\ Size(e) = Len(NewLines(e))
    BY <1>2, NewLinesType DEF DriverTypeOK, Size
  <2> DEFINE new == SubSeq(NewLines(e), 1, n)
  <2>3. new \in Seq(LineOf(e.on)) /\ Len(new) = n
    <3>1. n \in Int /\ \A j \in 1..n : NewLines(e)[j] \in LineOf(e.on)
      BY <2>2, ElementOfSeq, LenProperties
    <3> QED
      BY <2>2, <3>1, SubSeqProperties, LenProperties
  <2>4. disk' = [disk EXCEPT ![e.sys][e.on] = new]
    BY <1>2 DEF Perform
  <2>5. new = SubSeq(NewLines(e), 1, n)
    OBVIOUS
  <2> HIDE DEF new
  <2>6. \A t \in Systems : disk[t] \in [Items -> {Absent} \cup Seq(Line \cup ShadowLine)]
    BY DEF DriverTypeOK, Disk
  <2>7. disk'[s][i] = IF s = e.sys /\ i = e.on THEN new ELSE disk[s][i]
    BY <2>1, <2>4, <2>6 DEF DriverTypeOK
  <2> QED
    BY <1>2, <2>2, <2>3, <2>5, <2>7
<1> QED
  BY <1>1, <1>2

(* A short write: what was due at its place is cut, the rest is not touched. *)
LEMMA ShortKeeps ==
  ASSUME DriverTypeOK, Planned(todo), ShortWrite
  PROVE  /\ todo # <<>> /\ todo' = Tail(todo)
         /\ \A s \in Systems, i \in Items :
              \/ /\ disk'[s][i] = disk[s][i] /\ Due(s, i)' = Due(s, i)
              \/ /\ Saving(todo', s, i) = {} /\ Due(s, i)' = disk'[s][i]
                 /\ Due(s, i) \in Seq(LineOf(i)) /\ disk'[s][i] \in Seq(LineOf(i))
                 /\ Len(disk'[s][i]) <= Len(Due(s, i))
<1> DEFINE e == Head(todo)
<1>1. /\ todo # <<>> /\ todo' = Tail(todo) /\ e.do = "write"
      /\ \E n \in 0..(Size(e) - 1) : Perform(e, n)
  BY DEF ShortWrite
<1>2. /\ Planned(todo') /\ todo[1] \in Effect /\ todo[1] = e /\ 1 \in DOMAIN todo
      /\ e.sys \in Systems /\ e.on \in Items /\ e.on # "nsswitch.dns"
      /\ \A k \in DOMAIN todo' : k + 1 \in DOMAIN todo /\ todo'[k] = todo[k + 1]
      /\ \A k \in DOMAIN todo : k # 1 => k - 1 \in DOMAIN todo' /\ todo'[k - 1] = todo[k]
      /\ \A s, i : Saves(e) /\ e.sys = s /\ e.on = i => Saving(todo', s, i) = {}
  BY <1>1, RestOfPlan
<1> HIDE DEF e
<1>3. Saves(e) /\ ~Rejected(e)
  BY <1>1 DEF Saves, Rejected
<1>4. Size(e) \in Nat /\ disk \in [Systems -> Disk]
  BY <1>2, <1>3, SizeType DEF DriverTypeOK
<1>5. PICK n \in 0..Size(e) : Perform(e, n)
  BY <1>1, <1>4
<1>6. ASSUME NEW s \in Systems, NEW i \in Items
      PROVE  \/ /\ disk'[s][i] = disk[s][i] /\ Due(s, i)' = Due(s, i)
             \/ /\ Saving(todo', s, i) = {} /\ Due(s, i)' = disk'[s][i]
                /\ Due(s, i) \in Seq(LineOf(i)) /\ disk'[s][i] \in Seq(LineOf(i))
                /\ Len(disk'[s][i]) <= Len(Due(s, i))
  <2>1. CASE e.sys = s /\ e.on = i
    <3>1. Saving(todo', s, i) = {}
      BY <1>2, <1>3, <2>1
    <3>2. Due(s, i)' = disk'[s][i]
      BY <3>1, DueForm, DueUnsaved
    <3>3. Due(s, i) = NewLines(e)
      <4>1. DueIn(disk, todo, todo[1].sys, todo[1].on) = NewLinesIn(disk, todo[1])
        BY <1>2, <1>3, DueSaved
      <4> QED
        BY <1>2, <2>1, <4>1, DueForm DEF NewLines, NewLinesIn
    <3>4. NewLines(e) \in Seq(LineOf(i))
      BY <1>1, <1>2, <1>3, <1>4, <2>1, NewLinesType
    <3>6. disk' = [disk EXCEPT ![e.sys][e.on] = SubSeq(NewLines(e), 1, n)]
      BY <1>1, <1>5 DEF Perform
    <3>7. disk'[s][i] = SubSeq(NewLines(e), 1, n)
      <4>1. disk[s] \in [Items -> {Absent} \cup Seq(Line \cup ShadowLine)]
        BY <1>4 DEF Disk
      <4> QED
        BY <1>4, <2>1, <3>6, <4>1
    <3>8. SubSeq(NewLines(e), 1, n) \in Seq(LineOf(i)) /\ Len(SubSeq(NewLines(e), 1, n)) = n
      <4>1. n \in 0..Len(NewLines(e)) /\ Len(NewLines(e)) \in Nat
        BY <1>1, <1>5, <3>4, LenProperties DEF Size
      <4>2. n \in Int /\ \A j \in 1..n : NewLines(e)[j] \in LineOf(i)
        BY <3>4, <4>1, ElementOfSeq
      <4> QED
        BY <4>1, <4>2, SubSeqProperties
    <3>9. n <= Len(NewLines(e))
      BY <1>1, <1>5, <3>4, LenProperties DEF Size
    <3> QED
      BY <3>1, <3>2, <3>3, <3>4, <3>7, <3>8, <3>9
  <2>2. CASE ~(e.sys = s /\ e.on = i)
    <3>0. \A t \in Systems, j \in Items :
            ~(e.sys = t /\ e.on = j) => disk'[t][j] = disk[t][j]
      BY <1>2, <1>3, <1>5, PartStored
    <3>1. disk'[s][i] = disk[s][i]
      BY <2>2, <3>0
    <3>2. CASE Saving(todo, s, i) = {}
      <4>1. Saving(todo', s, i) = {}
        BY <1>2, <3>2 DEF Saving
      <4> QED
        BY <3>1, <3>2, <4>1, DueForm, DueUnsaved
    <3>3. CASE Saving(todo, s, i) # {}
      <4>1. PICK k \in DOMAIN todo : Saves(todo[k]) /\ todo[k].sys = s /\ todo[k].on = i
        BY <3>3 DEF Saving
      <4>2. k - 1 \in DOMAIN todo' /\ todo'[k - 1] = todo[k]
        BY <1>2, <2>2, <4>1
      <4>3. Due(s, i) = NewLinesIn(disk, todo[k])
        BY <4>1, DueForm, DueSaved
      <4>4. Due(s, i)' = NewLinesIn(disk', todo[k])
        BY <1>2, <4>1, <4>2, DueForm, DueSaved
      <4>5. todo[k].sys \in Systems /\ "nsswitch.dns" \in Items
        BY <4>1 DEF Items, Files
      <4>6. disk'[todo[k].sys]["nsswitch.dns"] = disk[todo[k].sys]["nsswitch.dns"]
        BY <1>2, <3>0, <4>5
      <4> QED
        BY <3>1, <4>3, <4>4, <4>6 DEF NewLinesIn
    <3> QED
      BY <3>2, <3>3
  <2> QED
    BY <2>1, <2>2
<1> QED
  BY <1>1, <1>6

(* A call that ends early leaves no more lines of /etc/default/init than it
   would have left.                                                         *)
LEMMA InterruptedInit ==
  ASSUME DriverTypeOK, Planned(todo), Interrupted, todo' = <<>>, NEW s \in Systems,
         Saving(todo, s, "init") # {} =>
            disk[s]["init"] # Absent /\ Len(disk[s]["init"]) <= Len(Due(s, "init")),
         Due(s, "init") # Absent
  PROVE  Len(Due(s, "init")') <= Len(Due(s, "init"))
<1>1. "init" \in Items
  BY DEF Items, Files
<1>2. Due(s, "init") \in Seq(LineOf("init")) /\ Len(Due(s, "init")) \in Nat
  BY <1>1, DueType, LenProperties
<1>3. Due(s, "init")' = disk'[s]["init"]
  <2>1. Saving(todo', s, "init") = {}
    BY DEF Saving
  <2> QED
    BY <2>1, DueForm, DueUnsaved
<1>4. Len(disk[s]["init"]) <= Len(Due(s, "init"))
  <2>1. Saving(todo, s, "init") = {} => Due(s, "init") = disk[s]["init"]
    BY DueForm, DueUnsaved
  <2> QED
    BY <1>2, <2>1
<1>5. CASE disk'[s]["init"] = disk[s]["init"]
  BY <1>3, <1>4, <1>5
<1>6. CASE disk'[s]["init"] # disk[s]["init"]
  <2> DEFINE e == Head(todo)
  <2>1. todo # <<>> /\ ~Rejected(e) /\ \E n \in 0..Size(e) : Perform(e, n)
    BY <1>6 DEF Interrupted, stored
  <2>2. e \in Effect /\ 1 \in DOMAIN todo /\ todo[1] = e
    BY <2>1, HeadTailProperties, TailElements DEF DriverTypeOK
  <2> HIDE DEF e
  <2>3. PICK n \in 0..Size(e) : Perform(e, n)
    BY <2>1
  <2>4. /\ e.do # "run" /\ e.sys = s /\ e.on = "init"
        /\ NewLines(e) \in Seq(LineOf("init")) /\ n \in 0..Len(NewLines(e))
        /\ Len(disk'[s]["init"]) = n
    BY <1>1, <1>6, <2>1, <2>2, <2>3, PartStored
  <2>5. Len(NewLines(e)) <= Len(Due(s, "init"))
    <3>1. CASE Saves(e)
      <4>1. DueIn(disk, todo, todo[1].sys, todo[1].on) = NewLinesIn(disk, todo[1])
        BY <2>2, <3>1, DueSaved
      <4>2. Due(s, "init") = NewLines(e)
        BY <2>2, <2>4, <4>1, DueForm DEF NewLines, NewLinesIn
      <4> QED
        BY <1>2, <4>2
    <3>2. CASE ~Saves(e)
      <4>1. e.do = "truncate"
        BY <2>2, <2>4, <3>2, EffectFields
      <4>2. NewLines(e) = <<>>
        BY <2>2, <4>1 DEF Planned, NewLines
      <4> QED
        BY <1>2, <4>2, EmptySeq
    <3> QED
      BY <3>1, <3>2
  <2>6. Len(NewLines(e)) \in Nat
    BY <2>4, LenProperties
  <2> QED
    BY <1>2, <1>3, <2>4, <2>5, <2>6
<1> QED
  BY <1>5, <1>6

(* A command that cannot succeed ends a call that has nothing to store but
   what cp and the write before it store.                                   *)
LEMMA RejectedDue ==
  ASSUME DriverTypeOK, Planned(todo), Sensible(todo, made), StepRejected, NEW s, NEW i
  PROVE  /\ todo # <<>> /\ 1 \in DOMAIN todo
         /\ \/ Due(s, i)' = Due(s, i)
            \/ /\ todo[1].do = "cp" /\ todo[1].on = "nsswitch.conf" /\ todo[1].sys = "host"
               /\ disk["host"]["nsswitch.dns"] = Absent
               /\ i \in {"resolv.conf", "nsswitch.conf"}
<1>1. /\ todo # <<>> /\ Rejected(Head(todo)) /\ todo' = <<>> /\ disk' = disk
  BY DEF StepRejected
<1>2. Head(todo) \in Effect /\ 1 \in DOMAIN todo /\ todo[1] = Head(todo)
  BY <1>1, HeadTailProperties, TailElements DEF DriverTypeOK
<1>3. Due(s, i)' = disk[s][i]
  <2>1. Saving(todo', s, i) = {}
    BY <1>1 DEF Saving
  <2> QED
    BY <1>1, <2>1, DueForm, DueUnsaved
<1>4. CASE Saving(todo, s, i) = {}
  BY <1>1, <1>2, <1>3, <1>4, DueForm, DueUnsaved
<1>5. CASE Saving(todo, s, i) # {}
  <2>1. PICK k \in DOMAIN todo : Saves(todo[k]) /\ todo[k].on = i
    BY <1>5 DEF Saving
  <2>2. todo[1].do # "run"
    BY <1>1, <1>2, <2>1 DEF Sensible, Rejected, Saves
  <2>3. todo[1].do = "cp" /\ disk[todo[1].sys]["nsswitch.dns"] = Absent
    BY <1>1, <1>2, <2>2 DEF Rejected
  <2>4. todo[1].on = "nsswitch.conf"
    BY <1>2, <2>3 DEF Effect
  <2>5. todo[1].sys = "host"
    BY <1>2, <2>2, <2>4 DEF Planned, Files
  <2>6. i \in {"resolv.conf", "nsswitch.conf"}
    BY <1>2, <2>1, <2>3 DEF Planned
  <2> QED
    BY <1>1, <1>2, <2>3, <2>4, <2>5, <2>6
<1> QED
  BY <1>4, <1>5

-----------------------------------------------------------------------------
(* What no later run can mend.                                              *)

(* A part of an effect changes what the plan was to store, and nothing else. *)
LEMMA StoresPlanned ==
  ASSUME DriverTypeOK, Planned(todo), Step \/ ShortWrite \/ Interrupted
  PROVE  /\ made \subseteq made'
         /\ \A s \in Systems, i \in Items :
               disk'[s][i] = disk[s][i] \/ (Saving(todo, s, i) # {} /\ i # "nsswitch.dns")
<1>1. CASE UNCHANGED stored
  BY <1>1 DEF stored
<1>2. ASSUME todo # <<>>, ~Rejected(Head(todo)), NEW n \in 0..Size(Head(todo)),
             Perform(Head(todo), n)
      PROVE  /\ made \subseteq made'
             /\ \A s \in Systems, i \in Items :
                   disk'[s][i] = disk[s][i] \/ (Saving(todo, s, i) # {} /\ i # "nsswitch.dns")
  <2>1. Head(todo) = todo[1] /\ 1 \in DOMAIN todo /\ Head(todo) \in Effect
    BY <1>2, HeadTailProperties, LenProperties, ElementOfSeq DEF DriverTypeOK
  <2>2. made \subseteq made'
    BY <1>2 DEF Perform
  <2>3. ASSUME NEW s \in Systems, NEW i \in Items, disk'[s][i] # disk[s][i]
        PROVE  Saving(todo, s, i) # {} /\ i # "nsswitch.dns"
    <3>1. todo[1].do # "run" /\ todo[1].sys = s /\ todo[1].on = i
      BY <1>2, <2>1, <2>3, PartStored
    <3>2. i # "nsswitch.dns"
      BY <2>1, <3>1 DEF Planned
    <3>3. CASE todo[1].do = "truncate"
      BY <2>1, <3>1, <3>2, <3>3 DEF Planned, Saving, SamePlace
    <3>4. CASE todo[1].do # "truncate"
      <4>1. Saves(todo[1])
        BY <2>1, <3>1, <3>4 DEF Effect, Saves
      <4> QED
        BY <2>1, <3>1, <3>2, <4>1 DEF Saving
    <3> QED
      BY <3>2, <3>3, <3>4
  <2> QED
    BY <2>2, <2>3
<1>3. CASE Step
  <2>1. todo # <<>> /\ ~Rejected(Head(todo)) /\ Perform(Head(todo), Size(Head(todo)))
    BY <1>3 DEF Step
  <2>2. Size(Head(todo)) \in Nat
    <3>1. Head(todo) \in Effect
      BY <2>1, HeadTailProperties DEF DriverTypeOK
    <3> QED
      BY <2>1, <3>1, SizeType DEF DriverTypeOK
  <2> QED
    BY <1>2, <2>1, <2>2
<1>4. CASE ShortWrite
  <2>1. /\ todo # <<>> /\ Head(todo).do = "write"
        /\ \E n \in 0..(Size(Head(todo)) - 1) : Perform(Head(todo), n)
    BY <1>4 DEF ShortWrite
  <2>2. ~Rejected(Head(todo))
    BY <2>1 DEF Rejected
  <2>3. Size(Head(todo)) \in Nat
    <3>1. Head(todo) \in Effect
      BY <2>1, HeadTailProperties DEF DriverTypeOK
    <3> QED
      BY <2>2, <3>1, SizeType DEF DriverTypeOK
  <2> QED
    BY <1>2, <2>1, <2>2, <2>3
<1>5. CASE Interrupted
  BY <1>1, <1>2, <1>5 DEF Interrupted
<1> QED
  BY <1>3, <1>4, <1>5

(* A command is ahead that cannot succeed.                                  *)
CannotEnd == \E k \in DOMAIN todo : Rejected(todo[k])

(* A call for it that gets under way has a command ahead that cannot succeed. *)
LEMMA LostEnter ==
  ASSUME NEW ins \in Instruction, Enter("host", ins), Hopeless(ins)
  PROVE  CannotEnd'
<1>1. todo' = Effects("host", ins) /\ disk' = disk /\ made' = made /\ ~Panics(ins)
        /\ ~Refuses("host", ins) /\ ~Misused(ins)
  BY DEF Enter, Refuses
<1>2. CASE ins.op = "dns" /\ disk["host"]["nsswitch.dns"] = Absent
  <2>1. \E k \in DOMAIN todo' : todo'[k].do = "cp" /\ todo'[k].sys = "host"
    BY <1>1, <1>2, EffectsPlan
  <2> QED
    BY <1>1, <1>2, <2>1 DEF CannotEnd, Rejected
<1>3. ASSUME NEW o \in Creates(ins), <<"host", o>> \in made
      PROVE  CannotEnd'
  <2>1. MadeIn({}, todo', "host", o)
    <3>1. CASE ins.op = "dataset"
      BY <1>1, <1>3, <3>1, EffectsPlan DEF Creates
    <3>3. CASE ins.op = "terminal"
      BY <1>1, <1>3, <3>3, EffectsPlan DEF Creates
    <3> QED
      BY <1>3, <3>1, <3>3 DEF Creates
  <2> QED
    BY <1>1, <1>3, <2>1 DEF CannotEnd, MadeIn, Rejected
<1> QED
  BY <1>1, <1>2, <1>3 DEF Hopeless

LEMMA RejectedStays ==
  ASSUME DriverTypeOK, Planned(todo), Step \/ ShortWrite, CannotEnd
  PROVE  CannotEnd'
<1>1. PICK k \in DOMAIN todo : Rejected(todo[k])
  BY DEF CannotEnd
<1>2. todo # <<>> /\ todo' = Tail(todo) /\ ~Rejected(Head(todo))
  BY DEF Step, ShortWrite, Rejected
<1>3. k - 1 \in DOMAIN todo' /\ todo'[k - 1] = todo[k]
  <2>1. todo[1] = Head(todo)
    BY <1>2, RestOfPlan
  <2> QED
    BY <1>1, <1>2, <2>1, RestOfPlan
<1>4. /\ made \subseteq made'
      /\ \A s \in Systems : disk'[s]["nsswitch.dns"] = disk[s]["nsswitch.dns"]
  BY StoresPlanned DEF Items, Files
<1>5. todo[k] \in Effect
  BY <1>1, ElementOfSeq, LenProperties DEF DriverTypeOK
<1>6. todo[k].do = "cp" => todo[k].sys \in Systems
  BY <1>5 DEF Effect
<1> QED
  BY <1>1, <1>3, <1>4, <1>6 DEF CannotEnd, Rejected

-----------------------------------------------------------------------------
(* The program.                                                              *)

LEMMA RootType ==
  ASSUME NEW m
  PROVE  Root(m) \in Systems
  BY DEF Root, Systems

LEMMA InstructionAt ==
  ASSUME TypeOK, next <= Len(config)
  PROVE  config[next] \in Instruction
<1>1. config \in Seq(Instruction)
  BY SysconfigAssumption DEF TypeOK
<1>2. next \in 1..Len(config)
  BY <1>1, LenProperties DEF TypeOK
<1> QED
  BY <1>1, <1>2, ElementOfSeq

LEMMA InitType ==
  ASSUME Init
  PROVE  TypeOK
<1>1. disk \in [Systems -> Disk]
  <2>1. disk \in [Systems -> Disks]
    BY DEF Init, DriverInit
  <2>2. Disks \subseteq Disk
    BY DriverAssumption
  <2> QED
    BY <2>1, <2>2
<1>2. todo \in Seq(Effect)
  BY EmptySeq DEF Init, DriverInit
<1>3. faults \in 0..MaxFaults
  BY DriverAssumption DEF Init, DriverInit
<1>4. /\ made \subseteq Systems \X Object
      /\ status \in {"idle", "busy", "ok", "err", "panic"}
      /\ short \in BOOLEAN
  BY DEF Init, DriverInit
<1>5. DriverTypeOK
  BY <1>1, <1>2, <1>3, <1>4 DEF DriverTypeOK
<1> QED
  BY <1>5 DEF Init, TypeOK, Phase

LEMMA NextType ==
  ASSUME TypeOK, [Next]_vars
  PROVE  TypeOK'
<1> USE DEF TypeOK, Phase
<1>1. ASSUME NEW m \in Modes, Start(m) PROVE TypeOK'
  BY <1>1, SysconfigAssumption DEF Start, driverVars, DriverTypeOK
<1>2. CASE CheckFinished
  BY <1>2 DEF CheckFinished, driverVars, DriverTypeOK
<1>3. CASE Load
  BY <1>3 DEF Load, DriverTypeOK
<1>4. CASE Apply
  <2>1. DriverTypeOK'
    BY <1>4, InstructionAt, RootType, EnterType DEF Apply
  <2> QED
    BY <1>4, <2>1 DEF Apply, mainVars
<1>5. CASE ApplyMock
  BY <1>5 DEF ApplyMock, driverVars, DriverTypeOK
<1>6. CASE DriverStep
  <2>1. DriverTypeOK'
    BY <1>6, StepType DEF DriverStep
  <2> QED
    BY <1>6, <2>1 DEF DriverStep, mainVars
<1>7. CASE Applied
  BY <1>7 DEF Applied, DriverTypeOK
<1>8. CASE ApplyFailed
  BY <1>8 DEF ApplyFailed, DriverTypeOK
<1>9. CASE ApplyDone
  BY <1>9 DEF ApplyDone, driverVars, DriverTypeOK
<1>10. CASE SetFinished
  BY <1>10 DEF SetFinished, driverVars, DriverTypeOK
<1>11. CASE Refresh
  BY <1>11 DEF Refresh, driverVars, DriverTypeOK
<1>12. CASE DriverFault
  <2>1. DriverTypeOK'
    BY <1>12, StepType DEF DriverFault
  <2> QED
    BY <1>12, <2>1 DEF DriverFault, mainVars
<1>13. CASE MainFails
  <2>1. faults' \in 0..MaxFaults
    BY <1>13, FaultType DEF MainFails
  <2>2. finished' \in [current: BOOLEAN, running: BOOLEAN]
    BY <1>13 DEF MainFails
  <2> QED
    BY <1>13, <2>1, <2>2 DEF MainFails, DriverTypeOK
<1>14. CASE Crash
  <2>1. faults' \in 0..MaxFaults
    BY <1>14, FaultType DEF Crash
  <2>2. disk' \in [Systems -> Disk] /\ made' \subseteq Systems \X Object
    BY <1>14, InterruptedType DEF Crash, stored, DriverTypeOK
  <2> QED
    BY <1>14, <2>1, <2>2, EmptySeq DEF Crash, DriverTypeOK
<1>15. CASE UNCHANGED vars
  BY <1>15 DEF vars, mainVars, driverVars, DriverTypeOK
<1> QED
  BY <1>1, <1>2, <1>3, <1>4, <1>5, <1>6, <1>7, <1>8, <1>9, <1>10, <1>11, <1>12,
     <1>13, <1>14, <1>15 DEF Next, Run

(* The variables keep their types: what the driver writes is always a file
   of the right kind, however the run ends (File::create, write, Command::run
   of the handlers in illumos_driver.rs).                                   *)
THEOREM TypeCorrect == Spec => []TypeOK
  BY InitType, NextType, PTL DEF Spec

-----------------------------------------------------------------------------
(* Only a run under SMF that found the guard unset comes past the check, and
   only a run that is applying with the illumos driver has a call pending.  *)
GuardInv ==
    /\ phase # "apply" \/ mode = "mock" => status = "idle"
    /\ mode = "smf" /\ phase \notin {"down", "check"} => ~finished.running

LEMMA GuardInit ==
  ASSUME Init
  PROVE  GuardInv
  BY DEF Init, DriverInit, GuardInv

LEMMA StepBusy ==
  ASSUME Proceed \/ ShortWrite \/ StepFails
  PROVE  status = "busy"
  BY DEF Proceed, Step, StepRejected, Return, ShortWrite, StepFails

LEMMA GuardNext ==
  ASSUME TypeOK, GuardInv, [Next]_vars
  PROVE  GuardInv'
<1> USE DEF GuardInv
<1>1. ASSUME NEW m \in Modes, Start(m) PROVE GuardInv'
  BY <1>1 DEF Start, driverVars
<1>2. CASE CheckFinished
  BY <1>2 DEF CheckFinished, driverVars
<1>3. CASE Load
  BY <1>3 DEF Load
<1>4. CASE Apply
  BY <1>4 DEF Apply, mainVars
<1>5. CASE ApplyMock
  BY <1>5 DEF ApplyMock, driverVars
<1>6. CASE DriverStep
  BY <1>6, StepBusy DEF DriverStep, mainVars
<1>7. CASE Applied
  BY <1>7 DEF Applied
<1>8. CASE ApplyFailed
  BY <1>8 DEF ApplyFailed
<1>9. CASE ApplyDone
  BY <1>9 DEF ApplyDone, driverVars
<1>10. CASE SetFinished
  BY <1>10 DEF SetFinished, driverVars, TypeOK
<1>11. CASE Refresh
  BY <1>11 DEF Refresh, driverVars
<1>12. CASE DriverFault
  BY <1>12, StepBusy DEF DriverFault, mainVars
<1>13. CASE MainFails
  BY <1>13 DEF MainFails
<1>14. CASE Crash
  BY <1>14 DEF Crash
<1>15. CASE UNCHANGED vars
  BY <1>15 DEF vars, mainVars, driverVars
<1> QED
  BY <1>1, <1>2, <1>3, <1>4, <1>5, <1>6, <1>7, <1>8, <1>9, <1>10, <1>11, <1>12,
     <1>13, <1>14, <1>15 DEF Next, Run

(* The step of RunGuard, from the invariant.                                *)
LEMMA GuardStep ==
  ASSUME GuardInv, [Next]_vars
  PROVE  (mode = "smf" /\ finished.running) \/ mode = "mock" => UNCHANGED stored
<1> SUFFICES ASSUME (mode = "smf" /\ finished.running) \/ mode = "mock"
             PROVE  UNCHANGED stored
  OBVIOUS
<1>1. status = "idle"
  BY DEF GuardInv
<1>2. CASE DriverStep \/ DriverFault
  BY <1>1, <1>2, StepBusy DEF DriverStep, DriverFault
<1>3. CASE Crash
  BY <1>1, <1>3 DEF Crash, stored
<1>4. CASE (\E m \in Modes : Start(m)) \/ CheckFinished \/ ApplyMock \/ ApplyDone
             \/ SetFinished \/ Refresh
  BY <1>4 DEF Start, CheckFinished, ApplyMock, ApplyDone, SetFinished, Refresh,
              driverVars, stored
<1>5. CASE Load \/ Applied \/ ApplyFailed \/ MainFails
  BY <1>5 DEF Load, Applied, ApplyFailed, MainFails, stored
<1>6. CASE Apply
  BY <1>6 DEF Apply, Enter, EnterRefused, stored
<1>7. CASE UNCHANGED vars
  BY <1>7 DEF vars, driverVars, stored
<1> QED
  BY <1>2, <1>3, <1>4, <1>5, <1>6, <1>7 DEF Next, Run

(* Once the guard is in the running snapshot of the service no run under SMF
   changes the system (main.rs:61-71), and a run with the mock driver never
   does.                                                                    *)
THEOREM RunGuardHolds == Spec => RunGuard
<1>1. Init => GuardInv
  BY GuardInit
<1>2. TypeOK /\ GuardInv /\ [Next]_vars => GuardInv'
  BY GuardNext
<1>3. GuardInv /\ [Next]_vars =>
        [(mode = "smf" /\ finished.running) \/ mode = "mock" => UNCHANGED stored]_vars
  BY GuardStep
<1> QED
  BY <1>1, <1>2, <1>3, TypeCorrect, PTL DEF Spec, RunGuard

-----------------------------------------------------------------------------
(* Where a run is: only the illumos driver has calls, one for the instruction
   it is at, and only under SMF is there a guard to set.                    *)
Progress ==
    /\ phase = "apply" => next <= Len(config) + 1
    /\ status # "idle" => phase = "apply" /\ next <= Len(config) /\ mode # "mock"
    /\ phase \in {"guard", "refresh"} => mode = "smf"
    /\ todo # <<>> => status = "busy"

LEMMA ConfigType ==
  ASSUME TypeOK
  PROVE  config \in Seq(Instruction) /\ Len(config) \in Nat /\ DOMAIN config = 1..Len(config)
  BY SysconfigAssumption, LenProperties DEF TypeOK

LEMMA ProgressInit ==
  ASSUME Init
  PROVE  Progress
  BY DEF Init, DriverInit, Progress

LEMMA ProgressNext ==
  ASSUME TypeOK, GuardInv, Progress, [Next]_vars
  PROVE  Progress'
<1> USE DEF Progress
<1>0. Len(config) \in Nat /\ next \in Nat \ {0}
  BY ConfigType DEF TypeOK
<1>1. ASSUME NEW m \in Modes, Start(m) PROVE Progress'
  BY <1>1 DEF Start, driverVars, GuardInv
<1>2. CASE CheckFinished
  BY <1>2 DEF CheckFinished, driverVars, GuardInv
<1>3. CASE Load
  BY <1>0, <1>3 DEF Load, GuardInv
<1>4. CASE Apply
  BY <1>4 DEF Apply, mainVars, Enter, EnterRefused
<1>5. CASE ApplyMock
  BY <1>0, <1>5 DEF ApplyMock, driverVars
<1>6. CASE DriverStep
  <2>1. status' \in {"busy", "ok", "err"} /\ (todo' # <<>> => status' = "busy")
    BY <1>6 DEF DriverStep, Proceed, Step, StepRejected, Return
  <2> QED
    BY <1>6, <2>1, StepBusy DEF DriverStep, mainVars
<1>7. CASE Applied
  BY <1>0, <1>7 DEF Applied
<1>8. CASE ApplyFailed
  BY <1>8 DEF ApplyFailed
<1>9. CASE ApplyDone
  BY <1>9 DEF ApplyDone, driverVars
<1>10. CASE SetFinished
  BY <1>10 DEF SetFinished, driverVars
<1>11. CASE Refresh
  BY <1>11 DEF Refresh, driverVars
<1>12. CASE DriverFault
  <2>1. todo' # <<>> => status' = "busy"
    BY <1>12 DEF DriverFault, ShortWrite, StepFails
  <2> QED
    BY <1>12, <2>1, StepBusy DEF DriverFault, mainVars
<1>13. CASE MainFails
  BY <1>13 DEF MainFails
<1>14. CASE Crash
  BY <1>14 DEF Crash
<1>15. CASE UNCHANGED vars
  BY <1>15 DEF vars, mainVars, driverVars
<1> QED
  BY <1>1, <1>2, <1>3, <1>4, <1>5, <1>6, <1>7, <1>8, <1>9, <1>10, <1>11, <1>12,
     <1>13, <1>14, <1>15 DEF Next, Run

(* The pending call follows a plan, which stores what its instruction is
   about, and leaves no fewer lines in /etc/default/init than it found.     *)
InitSafe(s) ==
    Saving(todo, s, "init") # {} =>
        disk[s]["init"] # Absent /\ Len(disk[s]["init"]) <= Len(Due(s, "init"))

PlanInv ==
    /\ Planned(todo) /\ Sensible(todo, made)
    /\ \A k \in DOMAIN todo : todo[k].do # "run" => todo[k].on \in Writes(config[next])
    /\ \A s \in Systems : InitSafe(s)

LEMMA PlanEmpty ==
  ASSUME todo' = <<>>
  PROVE  PlanInv'
<1>1. Planned(todo') /\ Sensible(todo', made')
  BY NoPlan DEF Sensible
<1>2. \A s : Saving(todo', s, "init") = {}
  BY DEF Saving
<1> QED
  BY <1>1, <1>2 DEF PlanInv, InitSafe

(* What any step does to the system and to the pending call.                *)
LEMMA StepShape ==
  ASSUME TypeOK, GuardInv, Progress, [Next]_vars
  PROVE  \/ UNCHANGED <<disk, made, todo>> /\ (todo = <<>> \/ UNCHANGED <<config, next>>)
         \/ /\ todo = <<>> /\ phase = "apply" /\ next <= Len(config) /\ mode # "mock"
            /\ status = "idle" /\ Enter(Root(mode), config[next]) /\ UNCHANGED mainVars
         \/ DriverStep /\ (Step \/ StepRejected)
         \/ DriverFault /\ ShortWrite
         \/ Interrupted /\ todo' = <<>> /\ Fault
<1>1. CASE Apply
  BY <1>1 DEF Apply, Enter, EnterRefused, Progress
<1>2. CASE DriverStep
  <2>1. Return => UNCHANGED <<disk, made, todo>> /\ todo = <<>>
    BY DEF Return
  <2> QED
    BY <1>2, <2>1 DEF DriverStep, Proceed
<1>3. CASE DriverFault
  BY <1>3 DEF DriverFault, StepFails
<1>4. CASE Crash
  BY <1>4 DEF Crash, Interrupted
<1>5. CASE (\E m \in Modes : Start(m)) \/ CheckFinished \/ Load \/ SetFinished \/ Refresh
             \/ MainFails
  <2>1. todo = <<>> /\ UNCHANGED <<disk, made, todo>>
    BY <1>5 DEF Start, CheckFinished, Load, SetFinished, Refresh, MainFails, driverVars,
                Progress, GuardInv
  <2> QED
    BY <2>1
<1>6. CASE ApplyMock \/ Applied \/ ApplyFailed \/ ApplyDone
  <2>1. todo = <<>> /\ UNCHANGED <<disk, made, todo>>
    BY <1>6 DEF ApplyMock, Applied, ApplyFailed, ApplyDone, driverVars, Progress, GuardInv
  <2> QED
    BY <2>1
<1>7. CASE UNCHANGED vars
  BY <1>7 DEF vars, mainVars, driverVars
<1> QED
  BY <1>1, <1>2, <1>3, <1>4, <1>5, <1>6, <1>7 DEF Next, Run

LEMMA PlanInit ==
  ASSUME Init
  PROVE  PlanInv
<1>1. todo = <<>> /\ \A s : Saving(<<>>, s, "init") = {}
  BY DEF Init, DriverInit, Saving
<1> QED
  BY <1>1, NoPlan DEF PlanInv, InitSafe, Sensible

LEMMA PlanNext ==
  ASSUME TypeOK, GuardInv, Progress, PlanInv, [Next]_vars
  PROVE  PlanInv'
<1>0. DriverTypeOK /\ Planned(todo) /\ "init" \in Items /\ "init" \in Files
  BY DEF TypeOK, PlanInv, Items, Files
<1>1. CASE todo' = <<>>
  BY <1>1, PlanEmpty
<1>2. CASE UNCHANGED <<disk, made, todo, config, next>>
  <2>1. \A s : Due(s, "init")' = Due(s, "init")
    BY <1>2, DueForm
  <2> QED
    BY <1>2, <2>1 DEF PlanInv, InitSafe, Sensible
<1>3. CASE /\ todo = <<>> /\ next <= Len(config)
           /\ Enter(Root(mode), config[next]) /\ UNCHANGED mainVars
  <2> DEFINE ins == config[next]
  <2>1. ins \in Instruction /\ config' = config /\ next' = next
    BY <1>3, InstructionAt DEF mainVars
  <2> HIDE DEF ins
  <2>2. /\ Planned(todo') /\ Sensible(todo', made')
        /\ \A k \in DOMAIN todo' : todo'[k].do # "run" => todo'[k].on \in Writes(ins)
        /\ \A s : Due(s, "init")' = DueIn(disk, Effects(Root(mode), ins), s, "init")
        /\ disk' = disk
    BY <1>3, <2>1, EnterDue DEF ins
  <2>3. ASSUME NEW s \in Systems, Saving(todo', s, "init") # {}
        PROVE  disk'[s]["init"] # Absent /\ Len(disk'[s]["init"]) <= Len(Due(s, "init")')
    <3>1. PICK k \in DOMAIN todo' : Saves(todo'[k]) /\ todo'[k].sys = s /\ todo'[k].on = "init"
      BY <2>3 DEF Saving
    <3>2. s = "host" /\ "init" \in Writes(ins)
      BY <1>0, <2>2, <3>1 DEF Planned, Saves
    <3>3. ins.op \in {"locale", "timezone"}
      BY <2>1, <3>2, InstructionOp DEF Writes
    <3>4. disk["host"]["init"] \in Seq(Line)
      BY <1>0, <1>3, <2>1, <3>3, EnterContents DEF ins
    <3>5. Len(Due("host", "init")') = Len(disk["host"]["init"])
      <4>1. ~Panics(ins) /\ ~Misused(ins)
        BY <1>3 DEF Enter, Refuses, ins
      <4>2. CASE ins.op = "locale"
        <5>1. Due("host", "init")' = Rewritten(disk["host"]["init"], "LANG", LocaleSetting(ins))
          BY <2>1, <2>2, <4>1, <4>2, EffectsPlan
        <5> QED
          BY <2>1, <3>4, <4>2, <5>1, SettingKinds, RewrittenLines
      <4>3. CASE ins.op = "timezone"
        <5>1. Due("host", "init")' = Rewritten(disk["host"]["init"], "TZ", TimezoneSetting(ins))
          BY <2>1, <2>2, <4>1, <4>3, EffectsPlan
        <5> QED
          BY <2>1, <3>4, <4>3, <5>1, SettingKinds, RewrittenLines
      <4> QED
        BY <3>3, <4>2, <4>3
    <3>6. disk["host"]["init"] # Absent
      <4>1. disk["host"]["init"] \in Seq(Line \cup ShadowLine)
        BY <3>4, SeqMonotonic
      <4> QED
        BY <4>1, DriverAssumption
    <3>7. Len(disk["host"]["init"]) \in Nat
      BY <3>4, LenProperties
    <3> QED
      BY <2>2, <3>2, <3>5, <3>6, <3>7
  <2> QED
    BY <2>1, <2>2, <2>3 DEF PlanInv, InitSafe, ins
<1>4. CASE DriverStep /\ Step
  <2>1. /\ Planned(todo') /\ Sensible(todo', made')
        /\ \A k \in DOMAIN todo' : k + 1 \in DOMAIN todo /\ todo'[k] = todo[k + 1]
        /\ \A s \in Systems : Due(s, "init")' = Due(s, "init")
        /\ \A s \in Systems :
             disk'[s]["init"] = disk[s]["init"]
               \/ (todo[1].do = "truncate" /\ disk'[s]["init"] = <<>>)
               \/ Saving(todo', s, "init") = {}
    BY <1>0, <1>4, StepKeeps
  <2>2. config' = config /\ next' = next
    BY <1>4 DEF DriverStep, mainVars
  <2>3. ASSUME NEW s \in Systems, Saving(todo', s, "init") # {}
        PROVE  disk'[s]["init"] # Absent /\ Len(disk'[s]["init"]) <= Len(Due(s, "init")')
    <3>1. disk[s]["init"] # Absent /\ Len(disk[s]["init"]) <= Len(Due(s, "init"))
      <4>1. Saving(todo, s, "init") # {}
        BY <2>1, <2>3 DEF Saving
      <4> QED
        BY <4>1 DEF PlanInv, InitSafe
    <3>2. CASE disk'[s]["init"] = disk[s]["init"]
      BY <2>1, <3>1, <3>2
    <3>3. CASE disk'[s]["init"] = <<>>
      <4>1. <<>> \in Seq(Line \cup ShadowLine) /\ Len(<<>>) = 0
        BY EmptySeq
      <4>2. PICK k \in DOMAIN todo' : Saves(todo'[k]) /\ todo'[k].sys = s /\ todo'[k].on = "init"
        BY <2>3 DEF Saving
      <4>3. k + 1 \in DOMAIN todo /\ todo[k + 1] = todo'[k]
        BY <2>1, <4>2
      <4>4. Due(s, "init") = NewLinesIn(disk, todo[k + 1])
        BY <1>0, <4>2, <4>3, DueForm, DueSaved
      <4>5. todo[k + 1] \in Effect
        BY <1>0, <4>3, ElementOfSeq, LenProperties DEF DriverTypeOK
      <4>6. /\ todo[k + 1].do # "run" /\ todo[k + 1].do # "cp" /\ todo[k + 1].on = "init"
            /\ todo[k + 1].lines \in Seq(LineOf("init"))
        BY <4>2, <4>3, <4>5, EffectFields
      <4>7. Due(s, "init") \in Seq(Line) /\ Len(Due(s, "init")) \in Nat
        BY <4>4, <4>6, LenProperties DEF NewLinesIn, LineOf
      <4>8. disk'[s]["init"] # Absent /\ Len(disk'[s]["init"]) = 0
        BY <3>3, <4>1, DriverAssumption
      <4> QED
        BY <2>1, <4>7, <4>8
    <3> QED
      BY <2>1, <2>3, <3>2, <3>3
  <2> QED
    BY <2>1, <2>2, <2>3 DEF PlanInv, InitSafe
<1>5. CASE DriverFault /\ ShortWrite
  <2>1. /\ todo # <<>> /\ todo' = Tail(todo)
        /\ \A s \in Systems : Saving(todo', s, "init") # {} =>
              disk'[s]["init"] = disk[s]["init"] /\ Due(s, "init")' = Due(s, "init")
    BY <1>0, <1>5, ShortKeeps
  <2>2. /\ Planned(todo') /\ Sensible(todo', made')
        /\ \A k \in DOMAIN todo' : k + 1 \in DOMAIN todo /\ todo'[k] = todo[k + 1]
        /\ \A s : Saving(todo', s, "init") # {} => Saving(todo, s, "init") # {}
    BY <1>0, <2>1, RestOfPlan, PlannedTail DEF DriverTypeOK
  <2>3. config' = config /\ next' = next
    BY <1>5 DEF DriverFault, mainVars
  <2> QED
    BY <2>1, <2>2, <2>3 DEF PlanInv, InitSafe
<1> QED
  BY <1>1, <1>2, <1>3, <1>4, <1>5, StepShape DEF StepRejected

LEMMA PlanHolds == Spec => [](GuardInv /\ Progress /\ PlanInv)
<1>1. Init => GuardInv /\ Progress /\ PlanInv
  BY GuardInit, ProgressInit, PlanInit
<1>2. TypeOK /\ GuardInv /\ Progress /\ PlanInv /\ [Next]_vars
        => GuardInv' /\ Progress' /\ PlanInv'
  BY GuardNext, ProgressNext, PlanNext
<1> QED
  BY <1>1, <1>2, TypeCorrect, PTL DEF Spec

-----------------------------------------------------------------------------
(* The files the program edits.                                             *)

LEMMA InitFileStep ==
  ASSUME TypeOK, GuardInv, Progress, PlanInv, [Next]_vars,
         NEW s \in Systems, Due(s, "init") # Absent
  PROVE  LET old == Due(s, "init")
             new == Due(s, "init")' IN
         /\ Len(new) <= Len(old)
         /\ faults' = faults =>
               /\ Len(new) = Len(old)
               /\ \A i \in DOMAIN old :
                     IF StartsWith(old[i], "LANG") THEN StartsWith(new[i], "LANG")
                     ELSE IF StartsWith(old[i], "TZ") THEN StartsWith(new[i], "TZ")
                     ELSE new[i] = old[i]
<1>0. /\ DriverTypeOK /\ Planned(todo) /\ Sensible(todo, made)
      /\ "init" \in Items /\ "init" \in Files /\ faults \in Int
  BY DEF TypeOK, PlanInv, Items, Files, DriverTypeOK
<1>1. /\ Due(s, "init") \in Seq(Line) /\ Len(Due(s, "init")) \in Nat
      /\ DOMAIN Due(s, "init") = 1..Len(Due(s, "init"))
  BY <1>0, DueType, LenProperties DEF LineOf
<1>2. CASE Due(s, "init")' = Due(s, "init")
  BY <1>1, <1>2
<1>3. CASE UNCHANGED <<disk, made, todo>>
  BY <1>2, <1>3, DueForm
<1>4. CASE DriverStep /\ Step
  BY <1>0, <1>2, <1>4, StepKeeps
<1>5. CASE DriverStep /\ StepRejected
  BY <1>0, <1>2, <1>5, RejectedDue
<1>6. CASE DriverFault /\ ShortWrite
  <2>1. faults' # faults
    BY <1>0, <1>6 DEF ShortWrite, Fault
  <2>2. Len(Due(s, "init")') <= Len(Due(s, "init"))
    BY <1>0, <1>1, <1>6, ShortKeeps
  <2> QED
    BY <2>1, <2>2
<1>7. CASE Interrupted /\ todo' = <<>> /\ Fault
  <2>1. faults' # faults
    BY <1>0, <1>7 DEF Fault
  <2>2. Len(Due(s, "init")') <= Len(Due(s, "init"))
    BY <1>0, <1>7, InterruptedInit DEF PlanInv, InitSafe
  <2> QED
    BY <2>1, <2>2
<1>8. CASE todo = <<>> /\ next <= Len(config) /\ Enter(Root(mode), config[next])
  <2> DEFINE ins == config[next]
  <2>1. ins \in Instruction /\ ~Panics(ins) /\ ~Misused(ins) /\ Enter(Root(mode), ins)
    BY <1>8, InstructionAt DEF Enter, Refuses
  <2> HIDE DEF ins
  <2>2. /\ \A i : Due(s, i) = disk[s][i]
        /\ \A i : Due(s, i)' = DueIn(disk, Effects(Root(mode), ins), s, i)
        /\ "init" \notin Writes(ins) => Due(s, "init")' = Due(s, "init")
        /\ s # "host" => Due(s, "init")' = Due(s, "init")
    BY <1>0, <1>8, <2>1, EnterDue
  <2>3. CASE s = "host" /\ ins.op = "locale"
    <3>1. Due(s, "init")' = Rewritten(Due(s, "init"), "LANG", LocaleSetting(ins))
      BY <2>1, <2>2, <2>3, EffectsPlan
    <3> QED
      BY <1>1, <2>1, <2>3, <3>1, SettingKinds, RewrittenLines
  <2>4. CASE s = "host" /\ ins.op = "timezone"
    <3>1. Due(s, "init")' = Rewritten(Due(s, "init"), "TZ", TimezoneSetting(ins))
      BY <2>1, <2>2, <2>4, EffectsPlan
    <3>2. \A i \in 1..Len(Due(s, "init")) :
            ~(StartsWith(Due(s, "init")[i], "LANG") /\ StartsWith(Due(s, "init")[i], "TZ"))
      BY DEF StartsWith, Beginning
    <3> QED
      BY <1>1, <2>1, <2>4, <3>1, <3>2, SettingKinds, RewrittenLines
  <2>5. CASE ~(s = "host" /\ ins.op \in {"locale", "timezone"})
    <3>1. s = "host" => "init" \notin Writes(ins)
      BY <2>1, <2>5, InstructionOp DEF Writes
    <3> QED
      BY <1>2, <2>2, <3>1
  <2> QED
    BY <2>3, <2>4, <2>5
<1> QED
  BY <1>3, <1>4, <1>5, <1>6, <1>7, <1>8, StepShape

(* Setting the locale or the time zone, in any number of runs that fail or
   die anywhere, adds no line to /etc/default/init; a step that does not fail
   keeps every line in its place, and replaces none but those whose name
   begins with LANG or TZ, by one of the same kind: LANGUAGE and TZDIR, which
   are other variables, are overwritten (illumos_driver.rs:302-333, 414-453). *)
THEOREM InitFileKeptHolds == Spec => InitFileKept
<1>1. TypeOK /\ GuardInv /\ Progress /\ PlanInv /\ [Next]_vars =>
        [\A s \in Systems : Due(s, "init") # Absent =>
          LET old == Due(s, "init")
              new == Due(s, "init")' IN
          /\ Len(new) <= Len(old)
          /\ faults' = faults =>
                /\ Len(new) = Len(old)
                /\ \A i \in DOMAIN old :
                      IF StartsWith(old[i], "LANG") THEN StartsWith(new[i], "LANG")
                      ELSE IF StartsWith(old[i], "TZ") THEN StartsWith(new[i], "TZ")
                      ELSE new[i] = old[i]]_vars
  BY InitFileStep
<1> QED
  BY <1>1, TypeCorrect, PlanHolds, PTL DEF Spec, InitFileKept

LEMMA AccountsStep ==
  ASSUME TypeOK, GuardInv, Progress, PlanInv, [Next]_vars,
         NEW s \in Systems, Due(s, "shadow") # Absent, faults' = faults
  PROVE  LET old == Due(s, "shadow")
             new == Due(s, "shadow")' IN
         /\ Len(new) = Len(old)
         /\ \A i \in DOMAIN old :
               /\ new[i].user = old[i].user
               /\ new[i].pw # old[i].pw => /\ old[i].user = "root"
                                           /\ i = FirstOf(old, "root")
                                           /\ old[i].pw \notin Mark
<1>0. /\ DriverTypeOK /\ Planned(todo) /\ Sensible(todo, made)
      /\ "shadow" \in Items /\ "shadow" \in Files /\ faults \in Int
  BY DEF TypeOK, PlanInv, Items, Files, DriverTypeOK
<1>1. /\ Due(s, "shadow") \in Seq(ShadowLine)
      /\ DOMAIN Due(s, "shadow") = 1..Len(Due(s, "shadow"))
  BY <1>0, DueType, LenProperties DEF LineOf
<1>2. CASE Due(s, "shadow")' = Due(s, "shadow")
  BY <1>1, <1>2
<1>3. CASE UNCHANGED <<disk, made, todo>>
  BY <1>2, <1>3, DueForm
<1>4. CASE DriverStep /\ Step
  BY <1>0, <1>2, <1>4, StepKeeps
<1>5. CASE DriverStep /\ StepRejected
  BY <1>0, <1>2, <1>5, RejectedDue
<1>6. CASE DriverFault /\ ShortWrite
  BY <1>0, <1>6 DEF ShortWrite, Fault
<1>7. CASE Interrupted /\ todo' = <<>> /\ Fault
  BY <1>0, <1>7 DEF Fault
<1>8. CASE todo = <<>> /\ next <= Len(config) /\ Enter(Root(mode), config[next])
  <2> DEFINE ins == config[next]
  <2>1. ins \in Instruction /\ ~Panics(ins) /\ ~Misused(ins) /\ Enter(Root(mode), ins)
    BY <1>8, InstructionAt DEF Enter, Refuses
  <2> HIDE DEF ins
  <2>2. /\ \A i : Due(s, i) = disk[s][i]
        /\ \A i : Due(s, i)' = DueIn(disk, Effects(Root(mode), ins), s, i)
        /\ "shadow" \notin Writes(ins) => Due(s, "shadow")' = Due(s, "shadow")
        /\ s # "host" => Due(s, "shadow")' = Due(s, "shadow")
    BY <1>0, <1>8, <2>1, EnterDue
  <2>3. CASE s = "host" /\ ins.op = "password"
    <3>1. Due(s, "shadow")' = WithRootPassword(Due(s, "shadow"), ins.value)
      BY <2>1, <2>2, <2>3, EffectsPlan
    <3>2. ins.value \in Hashes
      BY <2>1, <2>3, InstructionFields
    <3> QED
      BY <1>1, <3>1, <3>2, RootPasswordLines
  <2>4. CASE ~(s = "host" /\ ins.op = "password")
    <3>1. s = "host" => "shadow" \notin Writes(ins)
      BY <2>1, <2>4, InstructionOp DEF Writes
    <3> QED
      BY <1>2, <2>2, <3>1
  <2> QED
    BY <2>3, <2>4
<1> QED
  BY <1>3, <1>4, <1>5, <1>6, <1>7, <1>8, StepShape

(* No account is lost and no password but that of root's first line changes
   when it is set, for every shadow file, in any number of runs, as long as no
   step fails (illumos_driver.rs:240-261 with libshadow).                   *)
THEOREM AccountsKeptHolds == Spec => AccountsKept
<1>1. TypeOK /\ GuardInv /\ Progress /\ PlanInv /\ [Next]_vars =>
        [\A s \in Systems : Due(s, "shadow") # Absent /\ faults' = faults =>
          LET old == Due(s, "shadow")
              new == Due(s, "shadow")' IN
          /\ Len(new) = Len(old)
          /\ \A i \in DOMAIN old :
                /\ new[i].user = old[i].user
                /\ new[i].pw # old[i].pw => /\ old[i].user = "root"
                                            /\ i = FirstOf(old, "root")
                                            /\ old[i].pw \notin Mark]_vars
  BY AccountsStep
<1> QED
  BY <1>1, TypeCorrect, PlanHolds, PTL DEF Spec, AccountsKept

(* A file that is as the configuration has it stays so when its instruction
   is carried out again; shadow as libshadow reads it.                      *)
Same(i) ==
    IF i = "shadow" /\ Due("host", i) # Absent
    THEN ParseFile(Due("host", i)') = ParseFile(Due("host", i))
    ELSE Due("host", i)' = Due("host", i)

LEMMA EnterAgain ==
  ASSUME DriverTypeOK, todo = <<>>, NEW ins \in Instruction, Enter("host", ins),
         InPlace("host", ins), NEW i \in Writes(ins)
  PROVE  Same(i)
<1>0. /\ \A x : Due("host", x) = disk["host"][x]
      /\ \A x : Due("host", x)' = DueIn(disk, Effects("host", ins), "host", x)
      /\ ~Panics(ins) /\ ~Misused(ins) /\ \A f : SystemOf("host", f) = "host"
  BY EnterDue DEF Enter, SystemOf
<1>1. CASE ins.op = "locale"
  <2>1. Due("host", "init")' = Rewritten(Due("host", "init"), "LANG", LocaleSetting(ins))
    BY <1>0, <1>1, EffectsPlan
  <2>2. Settled(Due("host", "init"), "LANG", LocaleSetting(ins)) /\ i = "init"
    BY <1>0, <1>1 DEF InPlace, Writes
  <2> QED
    BY <1>0, <1>1, <2>1, <2>2, EnterContents, SettingKinds, SettledStays DEF Same
<1>2. CASE ins.op = "timezone"
  <2>1. Due("host", "init")' = Rewritten(Due("host", "init"), "TZ", TimezoneSetting(ins))
    BY <1>0, <1>2, EffectsPlan
  <2>2. Settled(Due("host", "init"), "TZ", TimezoneSetting(ins)) /\ i = "init"
    BY <1>0, <1>2 DEF InPlace, Writes
  <2> QED
    BY <1>0, <1>2, <2>1, <2>2, EnterContents, SettingKinds, SettledStays DEF Same
<1>3. CASE ins.op = "password"
  <2>1. Due("host", "shadow")' = WithRootPassword(Due("host", "shadow"), ins.value)
    BY <1>0, <1>3, EffectsPlan
  <2>2. PasswordSet(Due("host", "shadow"), ins.value) /\ i = "shadow"
    BY <1>0, <1>3 DEF InPlace, Writes
  <2>3. Due("host", "shadow") \in Seq(ShadowLine) /\ ins.value \in Hashes
    BY <1>0, <1>3, EnterContents
  <2>4. ParseFile(Due("host", "shadow")') = ParseFile(Due("host", "shadow"))
    BY <2>1, <2>2, <2>3, RootPasswordLines
  <2>5. Due("host", "shadow") # Absent
    BY <2>2 DEF PasswordSet
  <2> QED
    BY <2>2, <2>4, <2>5 DEF Same
<1>4. CASE ins.op = "dns"
  <2>1. /\ Due("host", "resolv.conf")' = ResolvConf(ins)
        /\ Due("host", "nsswitch.conf")' = disk["host"]["nsswitch.dns"]
    BY <1>0, <1>4, EffectsPlan
  <2>2. /\ Due("host", "resolv.conf") = ResolvConf(ins)
        /\ Due("host", "nsswitch.conf") = disk["host"]["nsswitch.dns"]
        /\ i \in {"resolv.conf", "nsswitch.conf"}
    BY <1>0, <1>4 DEF InPlace, Writes, Content
  <2> QED
    BY <2>1, <2>2 DEF Same
<1>5. CASE ins.op = "hostname"
  <2>1. /\ Due("host", "nodename")' = NodenameFile(ins.name)
        /\ Due("host", "hosts")' = HostsFile(ins.name)
    BY <1>0, <1>5, EffectsPlan
  <2>2. /\ Due("host", "nodename") = NodenameFile(ins.name)
        /\ Due("host", "hosts") = HostsFile(ins.name)
        /\ i \in {"nodename", "hosts"}
    BY <1>0, <1>5 DEF InPlace, Writes
  <2> QED
    BY <2>1, <2>2 DEF Same
<1>6. CASE ins.op = "keymap"
  <2>1. Due("host", "keymap/layout")' = <<Words(<<ins.layout>>)>>
    BY <1>0, <1>6, EffectsPlan
  <2>2. Due("host", "keymap/layout") = <<Words(<<ins.layout>>)>> /\ i = "keymap/layout"
    BY <1>6 DEF InPlace, Writes
  <2> QED
    BY <2>1, <2>2 DEF Same
<1>7. CASE ins.op = "terminal"
  <2>0. SetsType(ins) /\ i = "ttymon/terminal_type"
    BY <1>7 DEF Writes
  <2>1. Due("host", "ttymon/terminal_type") = <<Words(<<ins.type>>)>>
    BY <1>7, <2>0 DEF InPlace
  <2>2. CASE ~OnlyType(ins) => <<"host", TerminalObject(ins)>> \notin made
    <3>1. Due("host", "ttymon/terminal_type")' = <<Words(<<ins.type>>)>>
      BY <1>0, <1>7, <2>0, <2>2, EffectsPlan
    <3> QED
      BY <2>0, <2>1, <3>1 DEF Same
  <2>3. CASE ~OnlyType(ins) /\ <<"host", TerminalObject(ins)>> \in made
    <3> DEFINE es == Effects("host", ins)
    <3>1. MadeIn({}, es, "host", TerminalObject(ins)) /\ Sensible(es, made)
      BY <1>0, <1>7, <2>3, EffectsPlan
    <3> HIDE DEF es
    <3>2. \A l \in DOMAIN es : es[l].do = "run"
      BY <2>3, <3>1 DEF MadeIn, Sensible
    <3>3. Saving(es, "host", i) = {}
      BY <3>2 DEF Saving, Saves
    <3> QED
      BY <1>0, <2>0, <3>3, DueUnsaved DEF Same, es
  <2> QED
    BY <2>2, <2>3
<1>8. ins.op \in {"locale", "timezone", "password", "dns", "hostname", "keymap", "terminal"}
  BY InstructionOp DEF Writes, SetsType
<1> QED
  BY <1>1, <1>2, <1>3, <1>4, <1>5, <1>6, <1>7, <1>8

LEMMA RerunStep ==
  ASSUME TypeOK, GuardInv, Progress, PlanInv, [Next]_vars, mode # "altroot", faults' = faults,
         \A i \in DOMAIN config : InPlace("host", config[i]), NEW i \in Items
  PROVE  Same(i)
<1>0. /\ DriverTypeOK /\ Planned(todo) /\ Sensible(todo, made) /\ faults \in Int /\ "host" \in Systems
      /\ Root(mode) = "host" /\ DOMAIN config = 1..Len(config) /\ next \in Nat \ {0}
      /\ Len(config) \in Nat
  BY ConfigType DEF TypeOK, PlanInv, Systems, DriverTypeOK, Root
<1>1. CASE Due("host", i)' = Due("host", i)
  BY <1>1 DEF Same
<1>2. CASE UNCHANGED <<disk, made, todo>>
  BY <1>1, <1>2, DueForm
<1>3. CASE DriverStep /\ Step
  BY <1>0, <1>1, <1>3, StepKeeps
<1>4. CASE DriverStep /\ StepRejected
  <2>1. CASE /\ todo # <<>> /\ 1 \in DOMAIN todo /\ todo[1].do = "cp"
             /\ todo[1].on = "nsswitch.conf" /\ disk["host"]["nsswitch.dns"] = Absent
    <3>1. next \in DOMAIN config /\ todo[1].on \in Writes(config[next])
      BY <1>0, <2>1 DEF PlanInv, Progress
    <3>2. config[next].op = "dns"
      BY <2>1, <3>1, InstructionAt, InstructionOp, <1>0 DEF Writes
    <3>3. InPlace("host", config[next])
      BY <3>1
    <3> QED
      BY <2>1, <3>2, <3>3 DEF InPlace, Content, SystemOf
  <2> QED
    BY <1>0, <1>1, <1>4, <2>1, RejectedDue
<1>5. CASE DriverFault /\ ShortWrite
  BY <1>0, <1>5 DEF ShortWrite, Fault
<1>6. CASE Interrupted /\ todo' = <<>> /\ Fault
  BY <1>0, <1>6 DEF Fault
<1>7. CASE todo = <<>> /\ next <= Len(config) /\ Enter(Root(mode), config[next])
  <2> DEFINE ins == config[next]
  <2>1. ins \in Instruction /\ Enter("host", ins) /\ InPlace("host", ins)
    BY <1>0, <1>7, InstructionAt
  <2> HIDE DEF ins
  <2>2. CASE i \in Writes(ins)
    BY <1>0, <1>7, <2>1, <2>2, EnterAgain
  <2>3. CASE i \notin Writes(ins)
    BY <1>1, <1>7, <2>1, <2>3, EnterDue
  <2> QED
    BY <2>2, <2>3
<1> QED
  BY <1>2, <1>3, <1>4, <1>5, <1>6, <1>7, StepShape

(* A run over a system that is already as the configuration says changes no
   item of it, for every configuration and system: a retry after a kill
   between the guard and the refresh is harmless (main.rs:61-71 with the
   tests of illumos_driver.rs:107-143, 217-252).                            *)
THEOREM RerunChangesNothingHolds == Spec => RerunChangesNothing
<1>1. TypeOK /\ GuardInv /\ Progress /\ PlanInv /\ [Next]_vars =>
        [mode # "altroot" /\ faults' = faults
           /\ (\A i \in DOMAIN config : InPlace("host", config[i]))
         => \A i \in Items :
               IF i = "shadow" /\ Due("host", i) # Absent
               THEN ParseFile(Due("host", i)') = ParseFile(Due("host", i))
               ELSE Due("host", i)' = Due("host", i)]_vars
  BY RerunStep DEF Same
<1> QED
  BY <1>1, TypeCorrect, PlanHolds, PTL DEF Spec, RerunChangesNothing

-----------------------------------------------------------------------------
(* What a run that comes to its end leaves, without an alternate root.      *)

(* Of the first n instructions each is in place or replaced by a later one. *)
InForce(n) ==
    \A i \in 1..n :
        \/ InPlace("host", config[i])
        \/ \E j \in (i + 1)..n : Overrides(config[j], config[i])

(* A run under SMF has the instructions before next in force; the one it is
   at will be when its effects are performed, unless one of them cannot be.  *)
Applying ==
    /\ ~short /\ mode = "smf" /\ phase = "apply" =>
          /\ status = "idle" => InForce(next - 1)
          /\ status = "ok" => InForce(next)
          /\ status = "busy" => InForce(next) \/ CannotEnd
    /\ ~short /\ (phase \in {"guard", "refresh"} \/ finished.running) => InForce(Len(config))

LEMMA RestKeeps ==
  ASSUME UNCHANGED <<disk, made, todo>>
  PROVE  \A ins \in Instruction : InPlace("host", ins) => InPlace("host", ins)'
<1>1. \A s, i : Due(s, i)' = Due(s, i)
  BY DueForm
<1>2. \A s, o : DueMade(s, o) => DueMade(s, o)'
  BY DEF DueMade
<1> QED
  BY <1>1, <1>2, InPlaceKept

LEMMA StepKeepsPlaces ==
  ASSUME DriverTypeOK, Planned(todo), Step
  PROVE  \A ins \in Instruction : InPlace("host", ins) => InPlace("host", ins)'
<1>1. \A ins \in Instruction : Writes(ins) \subseteq Items
  BY DEF Writes, Items, Files, SmfProps
<1>2. "host" \in Systems
  BY DEF Systems
<1> QED
  BY <1>1, <1>2, StepKeeps, InPlaceKept

LEMMA InForceKept ==
  ASSUME TypeOK, config' = config, NEW n \in 0..Len(config), InForce(n),
         \A ins \in Instruction : InPlace("host", ins) => InPlace("host", ins)'
  PROVE  InForce(n)'
<1>1. \A i \in 1..n : config[i] \in Instruction
  BY ConfigType, ElementOfSeq
<1>2. ASSUME NEW i \in 1..n
      PROVE  \/ InPlace("host", config[i])'
             \/ \E j \in (i + 1)..n : Overrides(config'[j], config'[i])
  <2>1. CASE InPlace("host", config[i])
    BY <1>1, <2>1
  <2> QED
    BY <2>1 DEF InForce
<1> QED
  BY <1>2 DEF InForce

(* Entering the handler of the next instruction adds it to those in force.  *)
LEMMA InForceExtends ==
  ASSUME TypeOK, GuardInv, Progress, config' = config, todo = <<>>, next <= Len(config),
         Enter("host", config[next]), InForce(next - 1),
         ~Hopeless(config[next]), NEW n, n = next
  PROVE  InForce(n)'
<1>0. DriverTypeOK /\ n \in Nat /\ n >= 1 /\ Len(config) \in Nat
  BY ConfigType DEF TypeOK
<1>1. \A i \in 1..n : config[i] \in Instruction
  BY <1>0, ConfigType, ElementOfSeq
<1>2. InPlace("host", config[n])'
  BY <1>0, <1>1, EnterPuts
<1>3. ASSUME NEW i \in 1..n
      PROVE  \/ InPlace("host", config[i])'
             \/ \E j \in (i + 1)..n : Overrides(config'[j], config'[i])
  <2>1. CASE i = n
    BY <1>2, <2>1
  <2>2. CASE i # n /\ Overrides(config[n], config[i])
    BY <1>0, <2>2
  <2>3. CASE i # n /\ ~Overrides(config[n], config[i]) /\ InPlace("host", config[i])
    BY <1>0, <1>1, <2>3, EnterKeeps
  <2>4. CASE i # n /\ \E j \in (i + 1)..(n - 1) : Overrides(config[j], config[i])
    BY <1>0, <2>4
  <2>5. i # n => i \in 1..(next - 1)
    BY <1>0
  <2> QED
    BY <2>1, <2>2, <2>3, <2>4, <2>5 DEF InForce
<1> QED
  BY <1>3 DEF InForce

LEMMA ApplyingInit ==
  ASSUME Init
  PROVE  Applying
  BY DEF Init, Applying

LEMMA EnterApplies ==
  ASSUME TypeOK, GuardInv, Progress, PlanInv, Applying, mode = "smf", Apply
  PROVE  Applying'
<1>0. /\ DriverTypeOK /\ ~finished.running /\ Root(mode) = "host" /\ phase = "apply"
      /\ UNCHANGED mainVars /\ next \in Nat \ {0} /\ next <= Len(config)
  BY DEF TypeOK, GuardInv, Apply, Root
<1>1. CASE EnterRefused("host", config[next])
  BY <1>0, <1>1 DEF Applying, EnterRefused, mainVars
<1>2. CASE Enter("host", config[next])
  <2>1. /\ status = "idle" /\ status' = "busy" /\ short' = short /\ disk' = disk
        /\ todo' = Effects("host", config[next]) /\ todo = <<>>
    BY <1>2 DEF Enter, Progress
  <2>2. ASSUME ~short PROVE InForce(next)' \/ CannotEnd'
    <3>1. InForce(next - 1)
      BY <1>0, <2>1, <2>2 DEF Applying
    <3>2. CASE Hopeless(config[next])
      BY <1>0, <1>2, <3>2, InstructionAt, LostEnter
    <3>3. CASE ~Hopeless(config[next])
      <4>1. config' = config /\ next' = next
        BY <1>0 DEF mainVars
      <4>2. \A n : n = next => InForce(n)'
        BY <1>0, <1>2, <2>1, <3>1, <3>3, <4>1, InForceExtends
      <4> QED
        BY <4>1, <4>2 DEF InForce
    <3> QED
      BY <3>2, <3>3
  <2> QED
    BY <1>0, <2>1, <2>2 DEF Applying, mainVars
<1> QED
  BY <1>0, <1>1, <1>2 DEF Apply

LEMMA StepApplies ==
  ASSUME TypeOK, GuardInv, Progress, PlanInv, Applying, mode = "smf", DriverStep
  PROVE  Applying'
<1>0. /\ DriverTypeOK /\ ~finished.running /\ phase = "apply" /\ status = "busy"
      /\ UNCHANGED mainVars /\ next \in 0..Len(config) /\ Planned(todo)
  BY StepBusy, ConfigType DEF TypeOK, GuardInv, DriverStep, Progress, PlanInv
<1>1. config' = config /\ next' = next
  BY <1>0 DEF mainVars
<1>2. CASE Step
  <2>1. status' = "busy" /\ short' = short
    BY <1>0, <1>2 DEF Step
  <2>2. InForce(next) => InForce(next)'
    <3>1. \A n \in 0..Len(config) : InForce(n) => InForce(n)'
      BY <1>0, <1>1, <1>2, StepKeepsPlaces, InForceKept
    <3> QED
      BY <1>0, <1>1, <3>1 DEF InForce
  <2>3. CannotEnd => CannotEnd'
    BY <1>0, <1>2, RejectedStays
  <2> QED
    BY <1>0, <2>1, <2>2, <2>3 DEF Applying, mainVars
<1>3. CASE StepRejected
  BY <1>0, <1>3 DEF Applying, StepRejected, mainVars
<1>4. CASE Return
  <2>1. /\ status' = "ok" /\ short' = short /\ todo = <<>>
        /\ UNCHANGED <<disk, made, todo>>
    BY <1>4 DEF Return
  <2>2. InForce(next) => InForce(next)'
    <3>1. \A n \in 0..Len(config) : InForce(n) => InForce(n)'
      BY <1>0, <1>1, <2>1, RestKeeps, InForceKept
    <3> QED
      BY <1>0, <1>1, <3>1 DEF InForce
  <2>3. ~CannotEnd
    BY <2>1 DEF CannotEnd
  <2> QED
    BY <1>0, <2>1, <2>2, <2>3 DEF Applying, mainVars
<1> QED
  BY <1>2, <1>3, <1>4 DEF DriverStep, Proceed

(* The steps that leave the system and the call alone.                      *)
LEMMA RestApplies ==
  ASSUME TypeOK, UNCHANGED <<disk, made, todo, config>>
  PROVE  \A n \in 0..Len(config) : InForce(n) => InForce(n)'
  BY RestKeeps, InForceKept

LEMMA ApplyingNext ==
  ASSUME TypeOK, GuardInv, Progress, PlanInv, Applying, mode # "altroot", [Next]_vars
  PROVE  Applying'
<1>0. /\ next \in Nat \ {0} /\ Len(config) \in Nat /\ Len(config) \in 0..Len(config)
      /\ mode \in {"smf", "mock"} /\ phase \in Phase
  BY ConfigType DEF TypeOK
<1>a. UNCHANGED <<disk, made, todo, config>> /\ InForce(Len(config)) => InForce(Len(config))'
  <2> HAVE UNCHANGED <<disk, made, todo, config>> /\ InForce(Len(config))
  <2>1. \A n \in 0..Len(config) : InForce(n) => InForce(n)'
    BY RestApplies
  <2> QED
    BY <1>0, <2>1 DEF InForce
<1>1. ASSUME NEW m \in Modes, Start(m) PROVE Applying'
  <2>1. /\ UNCHANGED <<disk, made, todo, short, config, finished>>
        /\ phase' \in {"check", "load"}
    BY <1>1 DEF Start, driverVars
  <2> QED
    BY <1>a, <2>1 DEF Applying
<1>2. CASE CheckFinished
  <2>1. /\ UNCHANGED <<disk, made, todo, short, config, finished>>
        /\ phase' \in {"down", "load"}
    BY <1>2 DEF CheckFinished, driverVars
  <2> QED
    BY <1>a, <2>1 DEF Applying
<1>3. CASE Load
  <2>1. /\ UNCHANGED <<disk, made, todo, config, finished, status, mode>>
        /\ phase' = "apply" /\ next' = 1 /\ short' = (short /\ mode = "mock")
        /\ mode = "smf" => ~finished.running
        /\ status = "idle"
    BY <1>3 DEF Load, GuardInv
  <2>2. InForce(next - 1)'
    BY <2>1 DEF InForce
  <2>3. (short /\ mode = "mock") \in BOOLEAN
    OBVIOUS
  <2>4. CASE mode = "smf"
    BY <2>1, <2>2, <2>4 DEF Applying
  <2>5. CASE mode = "mock"
    <3>1. short' => short
      BY <2>1
    <3>2. short => short'
      BY <2>1, <2>5
    <3> QED
      BY <1>a, <2>1, <2>5, <3>1, <3>2 DEF Applying
  <2> QED
    BY <1>0, <2>4, <2>5
<1>4. CASE Apply
  BY <1>0, <1>4, EnterApplies DEF Apply
<1>5. CASE ApplyMock
  <2>1. /\ UNCHANGED <<disk, made, todo, short, config, finished, phase, mode>>
        /\ mode = "mock" /\ phase = "apply"
    BY <1>5 DEF ApplyMock, driverVars
  <2> QED
    BY <1>a, <2>1 DEF Applying
<1>6. CASE DriverStep
  <2>1. mode = "smf"
    BY <1>0, <1>6, StepBusy DEF DriverStep, Progress
  <2> QED
    BY <1>6, <2>1, StepApplies
<1>7. CASE Applied
  <2>1. /\ UNCHANGED <<disk, made, todo, short, config, finished, phase, mode>>
        /\ mode = "smf" /\ status = "ok" /\ status' = "idle" /\ next' = next + 1
        /\ phase = "apply" /\ ~finished.running /\ next <= Len(config)
    BY <1>0, <1>7 DEF Applied, Progress, GuardInv
  <2>2. InForce(next) => InForce(next - 1)'
    <3>1. InForce(next) => \A n : n = next => InForce(n)'
      BY <1>0, <2>1, RestApplies
    <3>2. next' - 1 = next
      BY <1>0, <2>1
    <3> QED
      BY <3>1, <3>2 DEF InForce
  <2> QED
    BY <2>1, <2>2 DEF Applying
<1>8. CASE ApplyFailed
  BY <1>0, <1>8 DEF ApplyFailed, Applying, GuardInv
<1>9. CASE ApplyDone
  <2>1. /\ UNCHANGED <<disk, made, todo, short, config, finished>>
        /\ phase = "apply" /\ status = "idle" /\ next > Len(config)
        /\ IF mode = "smf" THEN phase' = "guard" ELSE phase' = "down"
    BY <1>9 DEF ApplyDone, driverVars
  <2>2. next - 1 = Len(config)
    BY <1>0, <2>1 DEF Progress
  <2> QED
    BY <1>0, <1>a, <2>1, <2>2 DEF Applying
<1>10. CASE SetFinished
  <2>1. /\ UNCHANGED <<disk, made, todo, short, config>>
        /\ phase = "guard" /\ phase' = "refresh"
    BY <1>10 DEF SetFinished, driverVars
  <2> QED
    BY <1>a, <2>1 DEF Applying
<1>11. CASE Refresh
  <2>1. /\ UNCHANGED <<disk, made, todo, short, config>>
        /\ phase = "refresh" /\ phase' = "down"
    BY <1>11 DEF Refresh, driverVars
  <2> QED
    BY <1>a, <2>1 DEF Applying
<1>12. CASE DriverFault
  <2>1. mode = "smf" /\ phase = "apply" /\ ~finished.running /\ UNCHANGED mainVars
    BY <1>0, <1>12, StepBusy DEF DriverFault, Progress, GuardInv
  <2>2. CASE ShortWrite
    BY <2>2 DEF ShortWrite, Applying
  <2>3. CASE StepFails
    BY <2>1, <2>3 DEF StepFails, Applying, mainVars
  <2> QED
    BY <1>12, <2>2, <2>3 DEF DriverFault
<1>13. CASE MainFails
  <2>1. /\ UNCHANGED <<disk, made, todo, short, config>>
        /\ phase' = "down" /\ phase \in {"check", "load", "guard", "refresh"}
        /\ finished'.running = finished.running \/ phase = "refresh"
    BY <1>13 DEF MainFails, TypeOK
  <2> QED
    BY <1>a, <2>1 DEF Applying
<1>14. CASE Crash
  <2>1. phase' = "down" /\ UNCHANGED <<short, config, finished>> /\ phase = "apply"
    BY <1>14 DEF Crash
  <2>2. finished.running => UNCHANGED <<disk, made, todo>>
    <3> HAVE finished.running
    <3>1. mode = "mock" /\ status = "idle" /\ todo = <<>>
      BY <1>0, <2>1 DEF GuardInv, Progress
    <3> QED
      BY <1>14, <3>1 DEF Crash, stored
  <2> QED
    BY <1>a, <2>1, <2>2 DEF Applying
<1>15. CASE UNCHANGED vars
  <2>1. UNCHANGED <<disk, made, todo, short, config, finished, phase, mode, status, next>>
    BY <1>15 DEF vars, mainVars, driverVars
  <2>2. \A n : InForce(n) <=> InForce(n)'
    <3>1. \A c : InPlace("host", c) <=> InPlace("host", c)'
      BY <2>1 DEF InPlace, Due, DueMade, Content, Pending, NewLines, Settled, PasswordSet
    <3> QED
      BY <2>1, <3>1 DEF InForce
  <2>3. CannotEnd => CannotEnd'
    BY <2>1 DEF CannotEnd, Rejected
  <2> QED
    BY <2>1, <2>2, <2>3 DEF Applying
<1> QED
  BY <1>1, <1>2, <1>3, <1>4, <1>5, <1>6, <1>7, <1>8, <1>9, <1>10, <1>11, <1>12,
     <1>13, <1>14, <1>15 DEF Next, Run

LEMMA NoAltRootHolds ==
  ASSUME "altroot" \notin Modes
  PROVE  Spec => [](mode # "altroot")
<1>1. Init => mode # "altroot"
  BY DEF Init
<1>2. mode # "altroot" /\ [Next]_vars => (mode # "altroot")'
  <2> SUFFICES ASSUME mode # "altroot", [Next]_vars
               PROVE  (mode # "altroot")'
    OBVIOUS
  <2>1. CASE \E m \in Modes : Start(m)
    BY <2>1 DEF Start
  <2>2. CASE ~(\E m \in Modes : Start(m))
    <3>1. mode' = mode
      BY <2>2 DEF Next, Run, CheckFinished, Load, Apply, ApplyMock, DriverStep, Applied,
                  ApplyFailed, ApplyDone, SetFinished, Refresh, DriverFault, MainFails,
                  Crash, vars, mainVars
    <3> QED
      BY <3>1
  <2> QED
    BY <2>1, <2>2
<1> QED
  BY <1>1, <1>2, PTL DEF Spec

LEMMA ApplyingHolds ==
  ASSUME "altroot" \notin Modes
  PROVE  Spec => []Applying
<1>1. Init => Applying
  BY ApplyingInit
<1>2. TypeOK /\ GuardInv /\ Progress /\ PlanInv /\ mode # "altroot" /\ Applying /\ [Next]_vars
        => Applying'
  BY ApplyingNext
<1>3. Spec => [](mode # "altroot")
  BY NoAltRootHolds
<1> QED
  BY <1>1, <1>2, <1>3, TypeCorrect, PlanHolds, PTL DEF Spec

LEMMA AllInForce ==
  ASSUME TypeOK
  PROVE  AllInPlace <=> InForce(Len(config))
  BY ConfigType DEF AllInPlace, InForce

(* The guard vouches for the system: on a machine that no run configures for
   an alternate root, a service that says it has finished has every
   instruction of its file in place, for every configuration, system and
   number of failures (main.rs:61-71, 145-165, illumos_driver.rs:34-105).
   With an alternate root it does not hold: the file handlers work on the
   running system then.                                                     *)
THEOREM FinishedMeansAppliedHolds ==
  ASSUME "altroot" \notin Modes
  PROVE  Spec => []FinishedMeansApplied
<1>1. TypeOK /\ Applying => FinishedMeansApplied
  BY AllInForce DEF Applying, FinishedMeansApplied
<1> QED
  BY <1>1, ApplyingHolds, TypeCorrect, PTL

-----------------------------------------------------------------------------
(* The program implements RunOnce.                                          *)

LEMMA OnceInit ==
  ASSUME Init
  PROVE  Once!Init
  BY DEF Init, Once!Init, DriverInit

(* While the guard is visible no step touches the system or the call.       *)
LEMMA FinishedRests ==
  ASSUME TypeOK, GuardInv, Progress, mode # "altroot", finished.running, [Next]_vars
  PROVE  UNCHANGED <<disk, made, todo, short, config>>
<1>0. mode \in {"smf", "mock"} /\ status = "idle" /\ todo = <<>>
  BY DEF TypeOK, GuardInv, Progress
<1>1. CASE (\E m \in Modes : Start(m)) \/ CheckFinished \/ ApplyMock \/ ApplyDone
             \/ SetFinished \/ Refresh
  BY <1>1 DEF Start, CheckFinished, ApplyMock, ApplyDone, SetFinished, Refresh, driverVars
<1>2. CASE Load
  <2>1. mode = "mock"
    BY <1>0, <1>2 DEF Load, GuardInv
  <2>2. short' = short
    BY <1>2, <2>1 DEF Load, TypeOK, DriverTypeOK
  <2> QED
    BY <1>2, <2>2 DEF Load
<1>3. CASE Apply
  BY <1>0, <1>3 DEF Apply, GuardInv
<1>4. CASE DriverStep \/ DriverFault
  BY <1>0, <1>4, StepBusy DEF DriverStep, DriverFault
<1>5. CASE Applied \/ ApplyFailed \/ MainFails
  BY <1>5 DEF Applied, ApplyFailed, MainFails
<1>6. CASE Crash
  BY <1>0, <1>6 DEF Crash, stored
<1>7. CASE UNCHANGED vars
  BY <1>7 DEF vars, mainVars, driverVars
<1> QED
  BY <1>1, <1>2, <1>3, <1>4, <1>5, <1>6, <1>7 DEF Next, Run

LEMMA OnceStep ==
  ASSUME TypeOK, GuardInv, Progress, PlanInv, Applying, mode # "altroot", [Next]_vars, TypeOK'
  PROVE  [Once!Next]_<<stored, AllInPlace \/ short, finished.running>>
<1>0. finished.running \in BOOLEAN /\ finished'.running \in BOOLEAN
  BY DEF TypeOK
<1>1. CASE finished.running
  <2>1. UNCHANGED <<disk, made, todo, short, config>>
    BY <1>1, FinishedRests
  <2>2. finished'.running
    <3>1. CASE finished' = finished
      BY <1>1, <3>1
    <3>2. CASE finished' # finished
      <4>1. phase \in {"guard", "refresh"} /\ mode = "smf"
        BY <3>2 DEF Next, Run, Start, CheckFinished, Load, Apply, ApplyMock, DriverStep, Applied,
                    ApplyFailed, ApplyDone, SetFinished, Refresh, DriverFault, MainFails,
                    Crash, vars, mainVars, Progress
      <4> QED
        BY <1>1, <4>1 DEF GuardInv
    <3> QED
      BY <3>1, <3>2
  <2>3. AllInPlace' <=> AllInPlace
    <3>1. \A c : InPlace("host", c)' <=> InPlace("host", c)
      BY <2>1 DEF InPlace, Due, DueMade, Content, Pending, NewLines, Settled, PasswordSet
    <3> QED
      BY <2>1, <3>1 DEF AllInPlace
  <2>4. UNCHANGED <<stored, AllInPlace \/ short, finished.running>>
    BY <1>0, <1>1, <2>1, <2>2, <2>3 DEF stored
  <2> QED
    BY <2>4
<1>2. CASE ~finished.running /\ ~finished'.running
  <2>1. Once!Work
    BY <1>0, <1>2 DEF Once!Work
  <2> QED
    BY <2>1 DEF Once!Next
<1>3. CASE ~finished.running /\ finished'.running
  <2>1. Refresh \/ (MainFails /\ phase = "refresh")
    BY <1>3 DEF Next, Run, Start, CheckFinished, Load, Apply, ApplyMock, DriverStep, Applied,
                ApplyFailed, ApplyDone, SetFinished, Refresh, DriverFault, MainFails,
                Crash, vars, mainVars, TypeOK
  <2>2. UNCHANGED <<disk, made, todo, short, config>> /\ phase = "refresh"
    BY <2>1 DEF Refresh, MainFails, driverVars
  <2>3. AllInPlace \/ short
    BY <2>2, AllInForce DEF Applying
  <2>4. AllInPlace' <=> AllInPlace
    <3>1. \A c : InPlace("host", c)' <=> InPlace("host", c)
      BY <2>2 DEF InPlace, Due, DueMade, Content, Pending, NewLines, Settled, PasswordSet
    <3> QED
      BY <2>2, <3>1 DEF AllInPlace
  <2>5. (AllInPlace \/ short)' = (AllInPlace \/ short)
    BY <2>2, <2>4
  <2>6. Once!Finish
    BY <1>0, <1>3, <2>2, <2>3, <2>5 DEF Once!Finish, stored
  <2> QED
    BY <2>6 DEF Once!Next
<1> QED
  BY <1>0, <1>1, <1>2, <1>3

(* Without an alternate root the program is a run-once service, for every
   configuration and system and through any number of failures, kills and
   restarts: the step that makes the guard visible finds the configuration
   in place and changes nothing else, and nothing changes after it
   (main.rs:61-71, 145-165).                                                *)
THEOREM OnceImplemented ==
  ASSUME "altroot" \notin Modes
  PROVE  Spec => ImplementsRunOnce
<1>1. Init => Once!Init
  BY OnceInit
<1>2. TypeOK /\ GuardInv /\ Progress /\ PlanInv /\ Applying /\ mode # "altroot"
        /\ [Next]_vars /\ TypeOK'
        => [Once!Next]_<<stored, AllInPlace \/ short, finished.running>>
  BY OnceStep
<1>3. Spec => [](mode # "altroot")
  BY NoAltRootHolds
<1> QED
  BY <1>1, <1>2, <1>3, ApplyingHolds, TypeCorrect, PlanHolds, PTL
     DEF Spec, ImplementsRunOnce, Once!Safety

-----------------------------------------------------------------------------
(* A wedged service stays wedged.                                           *)

(* An unreadable shadow file is lost only when nobody is about to fill it:
   between its truncation and the write it is empty, and mended after.      *)
LostForGood(ins) ==
    /\ Hopeless(ins)
    /\ ins.op = "password" /\ ins.kind # "clear" => Saving(todo, "host", "shadow") = {}

(* No step of any run mends what makes an instruction fail for good.        *)
LEMMA LostStays ==
  ASSUME TypeOK, GuardInv, Progress, PlanInv, [Next]_vars,
         NEW ins \in Instruction, LostForGood(ins)
  PROVE  LostForGood(ins)'
<1>0. /\ DriverTypeOK /\ Planned(todo) /\ "host" \in Systems
      /\ {"shadow", "init", "nsswitch.dns"} \subseteq Items
      /\ Saving(<<>>, "host", "shadow") = {}
  BY DEF TypeOK, PlanInv, Systems, Items, Files, Saving
<1>1. UNCHANGED <<disk, made>> => Hopeless(ins)'
  BY DEF LostForGood, Hopeless, Refuses, Misused, Panics, ShadowReadable, Content, Creates
<1>2. CASE UNCHANGED <<disk, made>> /\ (todo' = todo \/ todo' = <<>>)
  BY <1>0, <1>1, <1>2 DEF LostForGood
<1>3. CASE Step \/ ShortWrite \/ (Interrupted /\ todo' = <<>>)
  <2>1. /\ made \subseteq made'
        /\ \A i \in Items :
             disk'["host"][i] = disk["host"][i] \/ (Saving(todo, "host", i) # {} /\ i # "nsswitch.dns")
    BY <1>0, <1>3, StoresPlanned
  <2>2. disk'["host"]["nsswitch.dns"] = disk["host"]["nsswitch.dns"]
    BY <1>0, <2>1
  <2>3. disk["host"]["init"] = Absent => disk'["host"]["init"] = Absent
    BY <1>0, <2>1 DEF PlanInv, InitSafe
  <2>4. ins.op = "password" /\ ins.kind # "clear" =>
            disk'["host"]["shadow"] = disk["host"]["shadow"]
    BY <1>0, <2>1 DEF LostForGood
  <2>5. Refuses("host", ins) => Refuses("host", ins)'
    BY <2>3, <2>4 DEF Refuses, ShadowReadable, Content, SystemOf
  <2>6. \A o : <<"host", o>> \in made => <<"host", o>> \in made'
    BY <2>1
  <2>7. Hopeless(ins)'
    BY <2>2, <2>5, <2>6 DEF LostForGood, Hopeless, Panics, Creates
  <2>8. Saving(todo', "host", "shadow") # {} => Saving(todo, "host", "shadow") # {}
    <3>1. CASE todo' = <<>>
      BY <1>0, <3>1
    <3>2. CASE Step \/ ShortWrite
      <4>1. todo # <<>> /\ todo' = Tail(todo)
        BY <3>2 DEF Step, ShortWrite
      <4> QED
        BY <1>0, <4>1, RestOfPlan
    <3> QED
      BY <1>3, <3>1, <3>2
  <2> QED
    BY <2>7, <2>8 DEF LostForGood
<1>4. CASE todo = <<>> /\ next <= Len(config) /\ Enter(Root(mode), config[next])
  <2> DEFINE new == config[next]
  <2>1. new \in Instruction /\ Enter(Root(mode), new)
    BY <1>4, InstructionAt
  <2> HIDE DEF new
  <2>2. /\ UNCHANGED <<disk, made>>
        /\ \A k \in DOMAIN todo' : todo'[k].do # "run" => todo'[k].on \in Writes(new)
    BY <1>4, <2>1, EnterDue
  <2>3. SUFFICES ASSUME ins.op = "password", ins.kind # "clear",
                        Saving(todo', "host", "shadow") # {}
                 PROVE  FALSE
    BY <1>1, <2>2 DEF LostForGood
  <2>4. PICK k \in DOMAIN todo' : Saves(todo'[k]) /\ todo'[k].on = "shadow"
    BY <2>3 DEF Saving
  <2>5. "shadow" \in Writes(new)
    BY <2>2, <2>4 DEF Saves
  <2>6. new.op = "password"
    BY <2>1, <2>5, InstructionOp DEF Writes
  <2>7. ShadowReadable(Root(mode))
    BY <2>1, <2>6 DEF Enter, Refuses
  <2>8. ShadowReadable("host")
    BY <2>7 DEF ShadowReadable, Content, SystemOf, AbsolutePaths, Files
  <2> QED
    BY <2>3, <2>8 DEF LostForGood, Hopeless, Panics, Refuses, Misused, Creates
<1>5. CASE StepRejected
  BY <1>2, <1>5 DEF StepRejected
<1> QED
  BY <1>2, <1>3, <1>4, <1>5, StepShape

(* Why the service cannot finish any more: no run under SMF gets past an
   instruction that is lost.                                                *)
StuckAt(i) ==
    /\ LostForGood(config[i])
    /\ mode = "smf" =>
          /\ phase \notin {"guard", "refresh"}
          /\ phase = "apply" => /\ next <= i
                                /\ next = i => /\ status # "ok"
                                               /\ status = "busy" => CannotEnd

Stuck == ~finished.running /\ \E i \in DOMAIN config : StuckAt(i)

LEMMA WedgedStuck ==
  ASSUME TypeOK, GuardInv, Progress, Wedged
  PROVE  Stuck
<1>1. todo = <<>> /\ phase = "down" /\ ~finished.running
  BY DEF Wedged, GuardInv, Progress
<1>2. PICK i \in DOMAIN config : Hopeless(config[i])
  BY DEF Wedged
<1>5. Saving(todo, "host", "shadow") = {}
  BY <1>1 DEF Saving
<1> QED
  BY <1>1, <1>2, <1>5 DEF Stuck, StuckAt, LostForGood

LEMMA StuckNext ==
  ASSUME TypeOK, GuardInv, Progress, PlanInv, Stuck, [Next]_vars
  PROVE  Stuck'
<1>0. /\ next \in Nat \ {0} /\ Len(config) \in Nat /\ DOMAIN config = 1..Len(config)
      /\ DriverTypeOK /\ Planned(todo) /\ ~finished.running
  BY ConfigType DEF TypeOK, PlanInv, Stuck
<1>1. PICK i \in DOMAIN config : StuckAt(i)
  BY DEF Stuck
<1>2. config' = config
  BY DEF Next, Run, Start, CheckFinished, Load, Apply, ApplyMock, DriverStep, Applied,
         ApplyFailed, ApplyDone, SetFinished, Refresh, DriverFault, MainFails, Crash,
         vars, mainVars
<1>3. LostForGood(config[i])'
  <2>1. config[i] \in Instruction /\ LostForGood(config[i])
    BY <1>1, ConfigType, ElementOfSeq DEF StuckAt
  <2>2. \A ins \in Instruction : LostForGood(ins) => LostForGood(ins)'
    BY LostStays
  <2> QED
    BY <1>2, <2>1, <2>2
<1>4. i \in DOMAIN config' /\ i \in Nat /\ i >= 1 /\ i <= Len(config)
  BY <1>0, <1>1, <1>2
<1>5. phase \notin {"guard", "refresh"}
  BY <1>1 DEF StuckAt, Progress
<1>6. ~finished'.running
  BY <1>0, <1>5 DEF Next, Run, Start, CheckFinished, Load, Apply, ApplyMock, DriverStep, Applied,
         ApplyFailed, ApplyDone, SetFinished, Refresh, DriverFault, MainFails, Crash,
         vars, mainVars
<1>7. SUFFICES mode' = "smf" =>
                 /\ phase' \notin {"guard", "refresh"}
                 /\ phase' = "apply" => /\ next' <= i
                                        /\ next' = i => /\ status' # "ok"
                                                        /\ status' = "busy" => CannotEnd'
  BY <1>2, <1>3, <1>4, <1>6 DEF Stuck, StuckAt
<1>8. CASE (\E m \in Modes : Start(m)) \/ CheckFinished \/ ApplyFailed \/ MainFails \/ Crash
  BY <1>8 DEF Start, CheckFinished, ApplyFailed, MainFails, Crash
<1>9. CASE Load
  <2>1. status' = "idle" /\ next' = 1
    BY <1>9 DEF Load, GuardInv
  <2> QED
    BY <1>4, <1>9, <2>1 DEF Load
<1>10. CASE SetFinished \/ Refresh
  BY <1>5, <1>10 DEF SetFinished, Refresh
<1>11. CASE Apply
  <2>1. UNCHANGED mainVars /\ phase = "apply"
    BY <1>11 DEF Apply
  <2>2. CASE mode = "smf" /\ next = i
    <3>1. CASE Enter("host", config[next])
      <4>1. Hopeless(config[next]) /\ config[next] \in Instruction
        BY <1>1, <1>11, <2>2, InstructionAt DEF StuckAt, LostForGood, Apply
      <4>2. CannotEnd'
        BY <3>1, <4>1, LostEnter
      <4>3. status' = "busy"
        BY <3>1 DEF Enter
      <4> QED
        BY <1>4, <2>1, <2>2, <4>2, <4>3 DEF mainVars
    <3>2. CASE EnterRefused("host", config[next])
      BY <1>4, <2>1, <2>2, <3>2 DEF mainVars, EnterRefused
    <3> QED
      BY <1>11, <2>2, <3>1, <3>2 DEF Apply, Root
  <2>3. CASE mode # "smf" \/ next # i
    BY <1>1, <2>1, <2>3 DEF mainVars, StuckAt
  <2> QED
    BY <2>2, <2>3
<1>12. CASE ApplyMock \/ ApplyDone
  BY <1>0, <1>1, <1>4, <1>12 DEF ApplyMock, ApplyDone, StuckAt
<1>13. CASE DriverStep \/ DriverFault
  <2>1. UNCHANGED mainVars /\ phase = "apply" /\ status = "busy"
    BY <1>13, StepBusy DEF DriverStep, DriverFault
  <2>2. CASE Step \/ ShortWrite
    <3>1. CannotEnd => CannotEnd'
      BY <1>0, <2>2, RejectedStays
    <3>2. status' = "busy"
      BY <2>1, <2>2 DEF Step, ShortWrite
    <3> QED
      BY <1>1, <2>1, <3>1, <3>2 DEF StuckAt, mainVars
  <2>3. CASE StepRejected \/ StepFails
    BY <1>1, <2>1, <2>3 DEF StepRejected, StepFails, StuckAt, mainVars
  <2>4. CASE Return
    <3>1. ~CannotEnd
      BY <2>4 DEF Return, CannotEnd
    <3> QED
      BY <1>1, <2>1, <3>1 DEF StuckAt, mainVars
  <2> QED
    BY <1>13, <2>2, <2>3, <2>4 DEF DriverStep, DriverFault, Proceed
<1>14. CASE Applied
  <2>1. mode = "smf" => next < i
    BY <1>0, <1>1, <1>4, <1>14 DEF Applied, StuckAt
  <2>2. next' = next + 1 /\ status' = "idle" /\ phase' = "apply" /\ mode' = mode
    BY <1>14 DEF Applied
  <2> QED
    BY <1>0, <1>4, <2>1, <2>2
<1>15. CASE UNCHANGED vars
  <2>1. UNCHANGED <<disk, made, todo, status, mode, phase, next>>
    BY <1>15 DEF vars, mainVars, driverVars
  <2>2. CannotEnd => CannotEnd'
    BY <2>1 DEF CannotEnd, Rejected
  <2> QED
    BY <1>1, <2>1, <2>2 DEF StuckAt
<1> QED
  BY <1>8, <1>9, <1>10, <1>11, <1>12, <1>13, <1>14, <1>15 DEF Next, Run

(* A service that comes to rest with an instruction that fails for good is
   never reported as finished again, whatever is started, fails or is killed
   after that, an operator's runs for an alternate root included: what is
   missing or unreadable is not mended, and what exists is not removed
   (main.rs:145-149, with the handlers of illumos_driver.rs).               *)
THEOREM WedgedForGoodHolds == Spec => WedgedForGood
<1>1. TypeOK /\ GuardInv /\ Progress /\ Wedged => Stuck
  BY WedgedStuck
<1>2. TypeOK /\ GuardInv /\ Progress /\ PlanInv /\ Stuck /\ [Next]_vars => Stuck'
  BY StuckNext
<1>3. Stuck => ~finished.running
  BY DEF Stuck
<1> QED
  BY <1>1, <1>2, <1>3, TypeCorrect, PlanHolds, PTL DEF Spec, WedgedForGood
=============================================================================
