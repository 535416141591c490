----------------------------- MODULE EditProofs -----------------------------
(* Theorems about clients of libshadow.                                     *)
EXTENDS ShadowEdit, ShadowProofs

LEMMA DonorEntry ==
  ASSUME NEW u, HasEntry(ParseFile(Donor), u)
  PROVE  /\ GetEntry(ParseFile(Donor), u) \in Entry
         /\ GetEntry(ParseFile(Donor), u).user = u
         /\ HasEntry(Donor, u)
         /\ \E i \in 1..Len(Donor) : GetEntry(ParseFile(Donor), u) = ParseLine(Donor[i])
<1>1. ParseFile(Donor) \in Seq(Entry) /\ Len(ParseFile(Donor)) = Len(Donor)
  BY ParseFileType, DonorAssumption
<1>2. DOMAIN Donor = 1..Len(Donor)
  BY DonorAssumption, LenProperties
<1>3. \A i \in 1..Len(Donor) : ParseFile(Donor)[i] = ParseLine(Donor[i])
  BY <1>2 DEF ParseFile
<1>4. \A i \in 1..Len(Donor) : ParseLine(Donor[i]).user = Donor[i].user
  BY DEF ParseLine
<1>5. PICK i \in 1..Len(Donor) : GetEntry(ParseFile(Donor), u) = ParseFile(Donor)[i]
  BY <1>1, GetEntryProperties
<1>6. GetEntry(ParseFile(Donor), u).user = u
  BY <1>1, GetEntryProperties
<1> QED
  BY <1>1, <1>2, <1>3, <1>4, <1>5, <1>6, GetEntryProperties DEF HasEntry

-----------------------------------------------------------------------------
(* Types.                                                                   *)

(* What SetPassword and CopyEntry put into memory.                          *)
LEMMA EditStep ==
  ASSUME TypeOK,
         NEW u \in Users,
         (\E input \in Hashes \cup {"clear"} : SetPassword(u, input)) \/ CopyEntry(u),
         loaded'
  PROVE  /\ loaded /\ ret' = "ok" /\ UNCHANGED disk
         /\ edited' = edited \cup {u}
         /\ \E e \in Entry :
              /\ mem' = InsertOrUpdate(mem, e)
              /\ e.user = u
              /\ \/ \E h \in Hashes : HasEntry(mem, u) /\ e = SetPasswordHash(GetEntry(mem, u), h)
                 \/ HasEntry(ParseFile(Donor), u) /\ e = GetEntry(ParseFile(Donor), u)
<1>1. CASE \E input \in Hashes \cup {"clear"} : SetPassword(u, input)
  <2>1. PICK input \in Hashes \cup {"clear"} : SetPassword(u, input)
    BY <1>1
  <2>2. HasEntry(mem, u)
    BY <2>1 DEF SetPassword
  <2>3. PICK h \in Hashes :
             mem' = InsertOrUpdate(mem, SetPasswordHash(GetEntry(mem, u), h))
    BY <2>1, <2>2, ShadowAssumption DEF SetPassword
  <2>4. GetEntry(mem, u) \in Entry /\ GetEntry(mem, u).user = u
    BY <2>2, GetEntryProperties DEF TypeOK
  <2>5. /\ SetPasswordHash(GetEntry(mem, u), h) \in Entry
        /\ SetPasswordHash(GetEntry(mem, u), h).user = u
    BY <2>4, SetHashType
  <2>6. /\ loaded /\ ret' = "ok" /\ UNCHANGED disk
        /\ edited' = edited \cup {u}
    BY <2>1, <2>2 DEF SetPassword
  <2> QED
    BY <2>2, <2>3, <2>5, <2>6
<1>2. CASE CopyEntry(u)
  BY <1>2, DonorEntry DEF CopyEntry
<1> QED
  BY <1>1, <1>2

LEMMA EditInitType ==
  ASSUME Init
  PROVE  TypeOK
<1>1. disk \in Seq(ShadowLine)
  BY DonorAssumption DEF Init
<1>2. mem \in Seq(Entry)
  BY EmptySeq DEF Init
<1> QED
  BY <1>1, <1>2 DEF Init, TypeOK

LEMMA EditNextType ==
  ASSUME TypeOK, [Next]_vars
  PROVE  TypeOK'
<1> USE DEF TypeOK
<1>1. CASE Load
  BY <1>1, ParseFileType DEF Load
<1>2. ASSUME NEW u \in Users, NEW input \in Hashes \cup {"clear"}, SetPassword(u, input)
      PROVE  TypeOK'
  <2>1. CASE loaded'
    BY <1>2, <2>1, EditStep, InsertOrUpdateType
  <2>2. CASE ~loaded'
    <3>1. ~HasEntry(mem, u)
      BY <1>2, <2>2 DEF SetPassword
    <3> QED
      BY <1>2, <3>1, EmptySeq DEF SetPassword
  <2> QED
    BY <2>1, <2>2
<1>3. ASSUME NEW u \in Users, CopyEntry(u)
      PROVE  TypeOK'
  <2>1. loaded'
    BY <1>3 DEF CopyEntry
  <2> QED
    BY <1>3, <2>1, EditStep, InsertOrUpdateType
<1>4. CASE Store
  BY <1>4, SerializeType, EmptySeq DEF Store
<1>5. CASE UNCHANGED vars
  BY <1>5 DEF vars
<1> QED
  BY <1>1, <1>2, <1>3, <1>4, <1>5 DEF Next

(* What is stored is always a shadow file, and what is in memory always a
   list of entries that can be printed (parse_shadow_file, serialize).      *)
THEOREM EditTypeCorrect == Spec => []TypeOK
  BY EditInitType, EditNextType, PTL DEF Spec

-----------------------------------------------------------------------------
(* No edit since the file was loaded can have reached line i.               *)
Untouched(i) ==
    disk[i].user \notin edited \/ \E j \in 1..(i-1) : disk[j].user = disk[i].user

(* While a file is loaded the entries in memory are those of its lines, but
   for the hash of the first entry of an edited user.                       *)
MemInv ==
    loaded =>
        /\ Len(mem) = Len(disk)
        /\ \A i \in 1..Len(disk) :
             /\ mem[i].user = disk[i].user
             /\ Untouched(i) => mem[i] = ParseLine(disk[i])
             /\ disk[i].pw \in Mark /\ ~HasEntry(Donor, disk[i].user)
                  => PrintPassword(mem[i]) = disk[i].pw

(* An edit keeps MemInv.                                                    *)
LEMMA EditMem ==
  ASSUME TypeOK, MemInv, TypeOK',
         NEW u \in Users,
         (\E input \in Hashes \cup {"clear"} : SetPassword(u, input)) \/ CopyEntry(u),
         loaded'
  PROVE  MemInv'
<1>1. /\ loaded /\ UNCHANGED disk
      /\ edited' = edited \cup {u}
  BY EditStep
<1>2. PICK e \in Entry :
        /\ mem' = InsertOrUpdate(mem, e)
        /\ e.user = u
        /\ \/ \E h \in Hashes : HasEntry(mem, u) /\ e = SetPasswordHash(GetEntry(mem, u), h)
           \/ HasEntry(ParseFile(Donor), u) /\ e = GetEntry(ParseFile(Donor), u)
  BY EditStep
<1>3. mem \in Seq(Entry) /\ disk \in Seq(ShadowLine)
  BY DEF TypeOK
<1>4. /\ Len(mem') = Len(mem)
      /\ \A i \in 1..Len(mem) :
           \/ mem'[i] = mem[i]
           \/ /\ mem'[i] = e
              /\ mem[i].user = u
              /\ \A j \in 1..Len(mem) : mem[j].user = u => i <= j
  BY <1>2, <1>3, InsertOrUpdateProperties
<1>5. Len(mem) = Len(disk) /\ Len(disk) \in Nat
  BY <1>1, <1>3, LenProperties DEF MemInv
<1>6. ASSUME NEW i \in 1..Len(disk)
      PROVE  /\ mem'[i].user = disk[i].user
             /\ Untouched(i)' => mem'[i] = ParseLine(disk[i])
             /\ disk[i].pw \in Mark /\ ~HasEntry(Donor, disk[i].user)
                  => PrintPassword(mem'[i]) = disk[i].pw
  <2>1. /\ mem[i].user = disk[i].user
        /\ Untouched(i) => mem[i] = ParseLine(disk[i])
        /\ disk[i].pw \in Mark /\ ~HasEntry(Donor, disk[i].user)
             => PrintPassword(mem[i]) = disk[i].pw
    BY <1>1 DEF MemInv
  <2>2. Untouched(i)' => Untouched(i)
    BY <1>1 DEF Untouched
  <2>3. CASE mem'[i] = mem[i]
    BY <2>1, <2>2, <2>3
  <2>4. CASE /\ mem'[i] = e
             /\ mem[i].user = u
             /\ \A j \in 1..Len(mem) : mem[j].user = u => i <= j
    <3>1. mem'[i].user = disk[i].user
      BY <1>2, <2>1, <2>4
    <3>2. ~Untouched(i)'
      <4>1. disk[i].user = u /\ u \in edited'
        BY <1>1, <2>1, <2>4
      <4>2. \A j \in 1..(i-1) : disk[j].user # disk[i].user
        <5> SUFFICES ASSUME NEW j \in 1..(i-1), disk[j].user = disk[i].user
                     PROVE  FALSE
          OBVIOUS
        <5>1. j \in 1..Len(disk) /\ ~(i <= j)
          BY <1>5
        <5>2. mem[j].user = u
          BY <1>1, <4>1, <5>1 DEF MemInv
        <5> QED
          BY <1>5, <2>4, <5>1, <5>2
      <4> QED
        BY <1>1, <4>1, <4>2 DEF Untouched
    <3>3. ASSUME disk[i].pw \in Mark, ~HasEntry(Donor, disk[i].user)
          PROVE  PrintPassword(mem'[i]) = disk[i].pw
      <4>1. disk[i].user = u
        BY <2>1, <2>4
      <4>2. PICK h \in Hashes :
                HasEntry(mem, u) /\ e = SetPasswordHash(GetEntry(mem, u), h)
        BY <1>2, <3>3, <4>1, DonorEntry
      <4>3. GetEntry(mem, u) = mem[i]
        <5>1. /\ FirstOf(mem, u) \in 1..Len(mem)
              /\ mem[FirstOf(mem, u)].user = u
              /\ \A j \in 1..Len(mem) : mem[j].user = u => FirstOf(mem, u) <= j
          BY <1>3, <4>2, FirstOfProperties
        <5>2. FirstOf(mem, u) = i
          BY <1>5, <2>4, <5>1
        <5> QED
          BY <5>2 DEF GetEntry
      <4>4. PrintPassword(mem[i]) = disk[i].pw
        BY <2>1, <3>3
      <4>5. mem[i] \in Entry
        BY <1>3, <1>5, ElementOfSeq
      <4> QED
        BY <2>4, <3>3, <4>2, <4>3, <4>4, <4>5, MarkHidesHash
    <3> QED
      BY <3>1, <3>2, <3>3
  <2> QED
    BY <1>4, <1>5, <2>3, <2>4
<1> QED
  BY <1>1, <1>4, <1>5, <1>6 DEF MemInv

LEMMA MemNext ==
  ASSUME TypeOK, MemInv, [Next]_vars
  PROVE  MemInv'
<1>1. TypeOK'
  BY EditNextType
<1>2. CASE Load
  <2>1. CASE Parses(disk)
    <3>1. /\ mem' = ParseFile(disk) /\ UNCHANGED disk
          /\ Len(ParseFile(disk)) = Len(disk)
      BY <1>2, <2>1, ParseFileType DEF Load, TypeOK
    <3>2. ASSUME NEW i \in 1..Len(disk)
          PROVE  /\ mem'[i] = ParseLine(disk[i])
                 /\ mem'[i].user = disk[i].user
                 /\ PrintPassword(mem'[i]) = disk[i].pw
      <4>1. DOMAIN disk = 1..Len(disk) /\ disk[i] \in ShadowLine
        BY LenProperties, ElementOfSeq DEF TypeOK
      <4>2. mem'[i] = ParseLine(disk[i])
        BY <3>1, <4>1 DEF ParseFile
      <4> QED
        BY <4>1, <4>2, PasswordRoundTrip, LineFields
    <3> QED
      BY <3>1, <3>2 DEF MemInv
  <2>2. CASE ~Parses(disk)
    BY <1>2, <2>2 DEF Load, MemInv
  <2> QED
    BY <2>1, <2>2
<1>3. ASSUME NEW u \in Users, NEW input \in Hashes \cup {"clear"}, SetPassword(u, input)
      PROVE  MemInv'
  <2>1. CASE loaded'
    BY <1>1, <1>3, <2>1, EditMem
  <2>2. CASE ~loaded'
    BY <2>2 DEF MemInv
  <2> QED
    BY <2>1, <2>2
<1>4. ASSUME NEW u \in Users, CopyEntry(u)
      PROVE  MemInv'
  <2>1. loaded'
    BY <1>4 DEF CopyEntry
  <2> QED
    BY <1>1, <1>4, <2>1, EditMem
<1>5. CASE Store
  BY <1>5 DEF Store, MemInv
<1>6. CASE UNCHANGED vars
  BY <1>6 DEF vars, MemInv, Untouched
<1> QED
  BY <1>2, <1>3, <1>4, <1>5, <1>6 DEF Next

(* Only storing changes the file, and what it writes for each line.         *)
LEMMA StoreStep ==
  ASSUME TypeOK, MemInv, [Next]_vars, disk' # disk
  PROVE  /\ Len(disk') = Len(disk)
         /\ \A i \in 1..Len(disk) :
              /\ disk'[i].user = disk[i].user
              /\ Untouched(i) => disk'[i] = PrintEntry(ParseLine(disk[i]))
              /\ disk[i].pw \in Mark /\ ~HasEntry(Donor, disk[i].user)
                   => disk'[i].pw = disk[i].pw
<1>1. Store
  BY DEF Next, Load, SetPassword, CopyEntry, vars
<1>2. loaded /\ disk' = Serialize(mem)
  BY <1>1 DEF Store
<1>3. mem \in Seq(Entry)
  BY DEF TypeOK
<1>4. DOMAIN mem = 1..Len(mem) /\ Len(mem) = Len(disk)
  BY <1>2, <1>3, LenProperties DEF MemInv
<1>5. Len(disk') = Len(disk)
  BY <1>2, <1>3, <1>4, SerializeType
<1>6. \A i \in 1..Len(disk) : disk'[i] = PrintEntry(mem[i])
  BY <1>2, <1>4 DEF Serialize
<1>7. ASSUME NEW i \in 1..Len(disk)
      PROVE  /\ disk'[i].user = disk[i].user
             /\ Untouched(i) => disk'[i] = PrintEntry(ParseLine(disk[i]))
             /\ disk[i].pw \in Mark /\ ~HasEntry(Donor, disk[i].user)
                  => disk'[i].pw = disk[i].pw
  <2>1. disk'[i].user = mem[i].user /\ disk'[i].pw = PrintPassword(mem[i])
    BY <1>6, EntryFields
  <2> QED
    BY <1>2, <1>6, <2>1 DEF MemInv
<1> QED
  BY <1>5, <1>7

(* Whatever is edited, however often, storing a shadow file keeps the other
   accounts, their passwords, and the second lines of a user, for every file
   and every edit (insert_or_update, serialize).                            *)
THEOREM OthersKeptHolds == Spec => OthersKept
<1>1. Init => MemInv
  BY DEF Init, MemInv
<1>2. TypeOK /\ MemInv /\ [Next]_vars =>
        [/\ Len(disk') >= Len(disk)
         /\ \A i \in (Len(disk) + 1)..Len(disk') :
              disk'[i].user \in edited /\ ~HasEntry(disk, disk'[i].user)
         /\ \A i \in DOMAIN disk :
            /\ disk'[i].user = disk[i].user
            /\ disk[i].user \notin edited \/ (\E j \in 1..(i-1) : disk[j].user = disk[i].user)
                 => /\ disk'[i].pw = disk[i].pw
                    /\ \A c \in Column : disk[i].num[c] # <<Unset(c)>>
                                           => disk'[i].num[c] = disk[i].num[c]]_disk
  <2> SUFFICES ASSUME TypeOK, MemInv, [Next]_vars, disk' # disk
               PROVE  /\ Len(disk') = Len(disk)
                      /\ \A i \in DOMAIN disk :
                         /\ disk'[i].user = disk[i].user
                         /\ Untouched(i) =>
                              /\ disk'[i].pw = disk[i].pw
                              /\ \A c \in Column : disk[i].num[c] # <<Unset(c)>>
                                                     => disk'[i].num[c] = disk[i].num[c]
    BY DEF Untouched
  <2>1. DOMAIN disk = 1..Len(disk) /\ Len(disk) \in Nat
    BY LenProperties DEF TypeOK
  <2>2. ASSUME NEW i \in 1..Len(disk), Untouched(i)
        PROVE  /\ disk'[i].pw = disk[i].pw
               /\ \A c \in Column : disk[i].num[c] # <<Unset(c)>>
                                      => disk'[i].num[c] = disk[i].num[c]
    <3>1. disk[i] \in ShadowLine
      BY ElementOfSeq DEF TypeOK
    <3>2. disk'[i] = PrintEntry(ParseLine(disk[i]))
      BY <2>2, StoreStep
    <3>3. disk'[i].pw = disk[i].pw
      BY <3>1, <3>2, PasswordRoundTrip DEF PrintEntry
    <3>4. \A c \in Column : disk[i].num[c] # <<Unset(c)>>
                                => disk'[i].num[c] = disk[i].num[c]
      BY <3>1, <3>2, NumRoundTrip DEF PrintEntry
    <3> QED
      BY <3>3, <3>4
  <2> QED
    BY <2>1, <2>2, StoreStep
<1>3. TypeOK /\ MemInv /\ [Next]_vars => MemInv'
  BY MemNext
<1> QED
  BY <1>1, <1>2, <1>3, EditTypeCorrect, PTL DEF Spec, OthersKept

(* A mark is never lost to a password, for every file, hash and sequence of
   edits (print_password_entry).                                            *)
THEOREM MarksKeptHolds == Spec => MarksKept
<1>1. Init => MemInv
  BY DEF Init, MemInv
<1>2. TypeOK /\ MemInv /\ [Next]_vars =>
        [\A i \in DOMAIN disk :
            disk[i].pw \in Mark /\ ~HasEntry(Donor, disk[i].user)
                => disk'[i].pw = disk[i].pw]_disk
  <2> SUFFICES ASSUME TypeOK, MemInv, [Next]_vars, disk' # disk
               PROVE  \A i \in DOMAIN disk :
                        disk[i].pw \in Mark /\ ~HasEntry(Donor, disk[i].user)
                            => disk'[i].pw = disk[i].pw
    OBVIOUS
  <2>1. DOMAIN disk = 1..Len(disk)
    BY LenProperties DEF TypeOK
  <2> QED
    BY <2>1, StoreStep
<1>3. TypeOK /\ MemInv /\ [Next]_vars => MemInv'
  BY MemNext
<1> QED
  BY <1>1, <1>2, <1>3, EditTypeCorrect, PTL DEF Spec, MarksKept

-----------------------------------------------------------------------------
FitsI64(e) == \A c \in Column : e.num[c] <= MaxI64

(* What is loaded came from a file that parses, and its numbers fit.        *)
ReadInv ==
    /\ loaded => Parses(disk) /\ \A i \in 1..Len(mem) : FitsI64(mem[i])
    /\ StaysReadable

LEMMA ParsedFits ==
  ASSUME NEW file \in Seq(ShadowLine), Parses(file), NEW i \in 1..Len(file)
  PROVE  FitsI64(ParseLine(file[i]))
<1> SUFFICES ASSUME NEW c \in Column PROVE ParseLine(file[i]).num[c] <= MaxI64
  BY DEF FitsI64
<1>1. i \in DOMAIN file
  BY LenProperties
<1>2. CASE file[i].num[c] = <<>>
  <2>1. ParseLine(file[i]).num[c] = Unset(c)
    BY <1>2 DEF ParseLine
  <2>2. Unset(c) \in {0, -1}
    BY DEF Unset
  <2>3. MaxI64 \in Nat
    BY ShadowAssumption
  <2> QED
    BY ONLY <2>1, <2>2, <2>3
<1>3. CASE file[i].num[c] # <<>>
  <2>1. file[i].num[c][1] <= MaxI64
    BY <1>1, <1>3 DEF Parses, NumbersFit
  <2>2. ParseLine(file[i]).num[c] = file[i].num[c][1]
    BY <1>3 DEF ParseLine
  <2> QED
    BY <2>1, <2>2
<1> QED
  BY <1>2, <1>3

(* An edit puts no number into memory that was not read.                    *)
LEMMA EditFits ==
  ASSUME TypeOK, ReadInv,
         NEW u \in Users,
         (\E input \in Hashes \cup {"clear"} : SetPassword(u, input)) \/ CopyEntry(u),
         loaded'
  PROVE  \A i \in 1..Len(mem') : FitsI64(mem'[i])
<1>1. loaded
  BY EditStep
<1>2. PICK e \in Entry :
        /\ mem' = InsertOrUpdate(mem, e)
        /\ e.user = u
        /\ \/ \E h \in Hashes : HasEntry(mem, u) /\ e = SetPasswordHash(GetEntry(mem, u), h)
           \/ HasEntry(ParseFile(Donor), u) /\ e = GetEntry(ParseFile(Donor), u)
  BY EditStep
<1>3. FitsI64(e)
  <2>1. CASE \E h \in Hashes : HasEntry(mem, u) /\ e = SetPasswordHash(GetEntry(mem, u), h)
    <3>1. PICK h \in Hashes : HasEntry(mem, u) /\ e = SetPasswordHash(GetEntry(mem, u), h)
      BY <2>1
    <3>2. PICK i \in 1..Len(mem) : GetEntry(mem, u) = mem[i]
      BY <3>1, GetEntryProperties DEF TypeOK
    <3>3. e.num = mem[i].num
      BY <3>1, <3>2, GetEntryProperties, SetHashType DEF TypeOK
    <3> QED
      BY <1>1, <3>3 DEF ReadInv, FitsI64
  <2>2. CASE HasEntry(ParseFile(Donor), u) /\ e = GetEntry(ParseFile(Donor), u)
    <3>1. PICK i \in 1..Len(Donor) : e = ParseLine(Donor[i])
      BY <2>2, DonorEntry
    <3> QED
      BY <3>1, DonorAssumption, ParsedFits
  <2> QED
    BY <1>2, <2>1, <2>2
<1>4. /\ Len(mem') = Len(mem)
      /\ \A i \in 1..Len(mem) : mem'[i] = mem[i] \/ mem'[i] = e
  BY <1>2, InsertOrUpdateProperties DEF TypeOK
<1> QED
  BY <1>1, <1>3, <1>4 DEF ReadInv

(* What is stored parses again, unless a hash outside the grammar is in it. *)
LEMMA StoreReadable ==
  ASSUME TypeOK, MemInv, ReadInv, Store
  PROVE  StaysReadable'
<1>1. /\ loaded /\ Parses(disk) /\ disk' = Serialize(mem)
      /\ \A i \in 1..Len(mem) : FitsI64(mem[i])
  BY DEF Store, ReadInv
<1>2. mem \in Seq(Entry) /\ disk \in Seq(ShadowLine)
  BY DEF TypeOK
<1>3. /\ disk' \in Seq(ShadowLine)
      /\ Len(disk') = Len(mem) /\ Len(mem) = Len(disk)
      /\ DOMAIN mem = 1..Len(disk) /\ DOMAIN disk = 1..Len(disk)
      /\ DOMAIN disk' = 1..Len(disk)
  BY <1>1, <1>2, SerializeType, LenProperties DEF MemInv
<1>4. SUFFICES ASSUME \A i \in DOMAIN disk' : disk'[i].pw \notin Hashes \ PlainHashes
               PROVE  Parses(disk')
  BY DEF StaysReadable
<1>5. disk' # <<>>
  BY <1>1, <1>2, <1>3, EmptySeq DEF Parses, Grammatical
<1>6. ASSUME NEW i \in 1..Len(disk)
      PROVE  /\ disk'[i].user \in AlnumUsers
             /\ disk'[i].pw \in Mark \cup PlainHashes
             /\ \A c \in Column : disk'[i].num[c] # <<>> => disk'[i].num[c][1] <= MaxI64
  <2>1. disk'[i] = PrintEntry(mem[i])
    BY <1>1, <1>3 DEF Serialize
  <2>2. disk'[i].user \in AlnumUsers
    <3>1. disk'[i].user = disk[i].user
      BY <1>1, <2>1, EntryFields DEF MemInv
    <3> QED
      BY <1>1, <1>3, <3>1 DEF Parses, Grammatical
  <2>3. disk'[i].pw \in Mark \cup PlainHashes
    <3>1. disk'[i] \in ShadowLine
      BY <1>3, ElementOfSeq
    <3>2. disk'[i].pw \in Mark \cup Hashes
      BY <3>1 DEF ShadowLine
    <3> QED
      BY <1>3, <1>4, <3>2
  <2>4. ASSUME NEW c \in Column, disk'[i].num[c] # <<>>
        PROVE  disk'[i].num[c][1] <= MaxI64
    <3>1. disk'[i].num[c] = PrintNum(c, mem[i].num[c])
      BY <2>1 DEF PrintEntry
    <3>2. disk'[i].num[c] = <<mem[i].num[c]>>
      BY <2>4, <3>1 DEF PrintNum
    <3>3. disk'[i].num[c][1] = mem[i].num[c]
      BY <3>2
    <3> QED
      BY <1>1, <1>3, <3>3 DEF FitsI64
  <2> QED
    BY <2>2, <2>3, <2>4
<1> QED
  BY <1>3, <1>5, <1>6 DEF Parses, Grammatical, NumbersFit

LEMMA ReadNext ==
  ASSUME TypeOK, MemInv, ReadInv, [Next]_vars
  PROVE  ReadInv'
<1>1. CASE Load
  <2>1. CASE Parses(disk)
    <3>1. /\ mem' = ParseFile(disk) /\ disk' = disk
          /\ Len(ParseFile(disk)) = Len(disk) /\ disk \in Seq(ShadowLine)
          /\ DOMAIN disk = 1..Len(disk)
      BY <1>1, <2>1, ParseFileType, LenProperties DEF Load, TypeOK
    <3>2. \A i \in 1..Len(mem') : mem'[i] = ParseLine(disk[i])
      BY <3>1 DEF ParseFile
    <3>3. \A i \in 1..Len(mem') : FitsI64(mem'[i])
      BY <2>1, <3>1, <3>2, ParsedFits
    <3> QED
      BY <2>1, <3>1, <3>3 DEF ReadInv, StaysReadable
  <2>2. CASE ~Parses(disk)
    BY <1>1, <2>2 DEF Load, ReadInv, StaysReadable
  <2> QED
    BY <2>1, <2>2
<1>2. ASSUME NEW u \in Users, NEW input \in Hashes \cup {"clear"}, SetPassword(u, input)
      PROVE  ReadInv'
  <2>1. CASE loaded'
    <3>1. loaded /\ disk' = disk
      BY <1>2, <2>1, EditStep
    <3>2. \A i \in 1..Len(mem') : FitsI64(mem'[i])
      BY <1>2, <2>1, EditFits
    <3> QED
      BY <3>1, <3>2 DEF ReadInv, StaysReadable
  <2>2. CASE ~loaded'
    <3>1. ret' = "err"
      BY <1>2, <2>2 DEF SetPassword
    <3> QED
      BY <2>2, <3>1 DEF ReadInv, StaysReadable
  <2> QED
    BY <2>1, <2>2
<1>3. ASSUME NEW u \in Users, CopyEntry(u)
      PROVE  ReadInv'
  <2>1. loaded' /\ loaded /\ disk' = disk
    BY <1>3 DEF CopyEntry
  <2>2. \A i \in 1..Len(mem') : FitsI64(mem'[i])
    BY <1>3, <2>1, EditFits
  <2> QED
    BY <2>1, <2>2 DEF ReadInv, StaysReadable
<1>4. CASE Store
  <2>1. ~loaded'
    BY <1>4 DEF Store
  <2> QED
    BY <1>4, <2>1, StoreReadable DEF ReadInv
<1>5. CASE UNCHANGED vars
  BY <1>5 DEF vars, ReadInv, StaysReadable
<1> QED
  BY <1>1, <1>2, <1>3, <1>4, <1>5 DEF Next

(* A shadow file that was read or stored stays readable whatever is edited,
   unless a hash outside the grammar is put into it.                        *)
THEOREM StaysReadableHolds == Spec => []StaysReadable
<1>1. Init => MemInv /\ ReadInv
  BY DEF Init, MemInv, ReadInv, StaysReadable
<1>2. TypeOK /\ MemInv /\ ReadInv /\ [Next]_vars => MemInv' /\ ReadInv'
  BY MemNext, ReadNext
<1>3. ReadInv => StaysReadable
  BY DEF ReadInv
<1> QED
  BY <1>1, <1>2, <1>3, EditTypeCorrect, PTL DEF Spec
=============================================================================
