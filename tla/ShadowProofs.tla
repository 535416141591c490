---------------------------- MODULE ShadowProofs ----------------------------
(* Lemmas about the operators of module Shadow.                             *)
EXTENDS Shadow, SequenceTheorems, WellFoundedInduction, TLAPS

LEMMA Singleton ==
  ASSUME NEW S, NEW a \in S
  PROVE  <<a>> \in Seq(S) /\ Len(<<a>>) = 1 /\ <<a>>[1] = a
  OBVIOUS

LEMMA Pair ==
  ASSUME NEW S, NEW a \in S, NEW b \in S
  PROVE  <<a, b>> \in Seq(S) /\ Len(<<a, b>>) = 2 /\ <<a, b>>[1] = a /\ <<a, b>>[2] = b
  OBVIOUS

LEMMA Triple ==
  ASSUME NEW S, NEW a \in S, NEW b \in S, NEW c \in S
  PROVE  <<a, b, c>> \in Seq(S)
  OBVIOUS

(* A column that came out of a file goes back as a column.                  *)
LEMMA PrintNumType ==
  ASSUME NEW c \in Column, NEW n \in Nat \cup {Unset(c)}
  PROVE  PrintNum(c, n) \in NumText
<1>1. CASE n = Unset(c)
  BY <1>1, EmptySeq DEF PrintNum, NumText
<1>2. CASE n # Unset(c)
  <2>1. n \in Nat
    BY <1>2
  <2>2. <<n>> \in Seq(Nat) /\ Len(<<n>>) = 1
    BY <2>1, Singleton
  <2> QED
    BY <1>2, <2>2 DEF PrintNum, NumText
<1> QED
  BY <1>1, <1>2

(* Parsing a line gives an entry.                                           *)
LEMMA ParseLineType ==
  ASSUME NEW l \in ShadowLine
  PROVE  ParseLine(l) \in Entry
<1> DEFINE num == [c \in Column |-> IF l.num[c] = <<>> THEN Unset(c) ELSE l.num[c][1]]
<1>1. \A c \in Column : num[c] \in Nat \cup {Unset(c)}
  <2> TAKE c \in Column
  <2>1. l.num[c] \in Seq(Nat)
    BY DEF ShadowLine, NumText
  <2>2. CASE l.num[c] = <<>>
    BY <2>2
  <2>3. CASE l.num[c] # <<>>
    <3>1. 1 \in 1..Len(l.num[c])
      BY <2>1, <2>3, EmptySeq
    <3>2. l.num[c][1] \in Nat
      BY <2>1, <3>1, ElementOfSeq
    <3> QED
      BY <2>3, <3>2
  <2> QED
    BY <2>2, <2>3
<1>2. \A c \in Column : Unset(c) \in Int
  BY DEF Unset
<1>3. num \in [Column -> Int]
  <2>1. \A c \in Column : num[c] \in Int
    BY <1>1, <1>2
  <2> QED
    BY <2>1
<1>4. l.user \in Users /\ l.pw \in Mark \cup Hashes
  BY DEF ShadowLine
<1>5. ParseLine(l).num = num
  BY DEF ParseLine
<1> HIDE DEF num
<1>6. ParseLine(l) \in [user: Users, hash: Hashes \cup {""}, locked: BOOLEAN,
                        nologin: BOOLEAN, nopassword: BOOLEAN, num: [Column -> Int]]
  BY <1>3, <1>4, <1>5 DEF ParseLine
<1>7. ParseLine(l).hash = "" =>
        ParseLine(l).locked \/ ParseLine(l).nologin \/ ParseLine(l).nopassword
  BY <1>4, ShadowAssumption DEF ParseLine, Mark
<1> QED
  BY <1>1, <1>5, <1>6, <1>7 DEF Entry

(* Printing an entry gives a line.                                          *)
LEMMA PrintEntryType ==
  ASSUME NEW e \in Entry
  PROVE  PrintEntry(e) \in ShadowLine
<1>1. PrintPassword(e) \in Mark \cup Hashes
  BY DEF PrintPassword, Entry, Mark
<1>2. \A c \in Column : PrintNum(c, e.num[c]) \in NumText
  BY PrintNumType DEF Entry
<1>3. [c \in Column |-> PrintNum(c, e.num[c])] \in [Column -> NumText]
  BY <1>2
<1> QED
  BY <1>1, <1>3 DEF PrintEntry, ShadowLine, Entry

LEMMA ParseFileType ==
  ASSUME NEW file \in Seq(ShadowLine)
  PROVE  ParseFile(file) \in Seq(Entry) /\ Len(ParseFile(file)) = Len(file)
<1>1. DOMAIN file = 1..Len(file) /\ Len(file) \in Nat
  BY LenProperties
<1>2. \A i \in 1..Len(file) : ParseLine(file[i]) \in Entry
  BY ElementOfSeq, ParseLineType
<1> QED
  BY <1>1, <1>2 DEF ParseFile

LEMMA SerializeType ==
  ASSUME NEW entries \in Seq(Entry)
  PROVE  Serialize(entries) \in Seq(ShadowLine) /\ Len(Serialize(entries)) = Len(entries)
<1>1. DOMAIN entries = 1..Len(entries) /\ Len(entries) \in Nat
  BY LenProperties
<1>2. \A i \in 1..Len(entries) : PrintEntry(entries[i]) \in ShadowLine
  BY ElementOfSeq, PrintEntryType
<1> QED
  BY <1>1, <1>2 DEF Serialize

(* The loops of get_entry and insert_or_update stop at the first entry.     *)
LEMMA FirstOfProperties ==
  ASSUME NEW S, NEW entries \in Seq(S), NEW u, HasEntry(entries, u)
  PROVE  /\ FirstOf(entries, u) \in 1..Len(entries)
         /\ entries[FirstOf(entries, u)].user = u
         /\ \A j \in 1..Len(entries) : entries[j].user = u => FirstOf(entries, u) <= j
<1> DEFINE I == {i \in 1..Len(entries) : entries[i].user = u}
<1>1. DOMAIN entries = 1..Len(entries) /\ Len(entries) \in Nat
  BY LenProperties
<1>2. PICK n \in I : TRUE
  BY <1>1 DEF HasEntry
<1>3. I \in SUBSET Nat
  BY <1>1
<1>4. \E m \in I : \A k \in I : m <= k
  <2> DEFINE R == {ss \in Nat \X Nat : ss[1] < ss[2]}
  <2>1. IsWellFoundedOn(R, Nat)
    BY NatLessThanWellFounded DEF OpToRel
  <2> HIDE DEF R, I
  <2>2. PICK m \in I : \A k \in I : ~(<<k, m>> \in R)
    BY <1>2, <1>3, <2>1, WFMin
  <2>3. ASSUME NEW k \in I PROVE m <= k
    <3>1. k \in Nat /\ m \in Nat
      BY <1>3
    <3>2. ~(k < m)
      BY <2>2, <3>1 DEF R
    <3> QED
      BY <3>1, <3>2
  <2> QED
    BY <2>3
<1> QED
  BY <1>1, <1>4 DEF FirstOf

LEMMA InsertOrUpdateType ==
  ASSUME NEW entries \in Seq(Entry), NEW e \in Entry
  PROVE  InsertOrUpdate(entries, e) \in Seq(Entry)
<1>1. CASE HasEntry(entries, e.user)
  <2>1. FirstOf(entries, e.user) \in 1..Len(entries)
    BY <1>1, FirstOfProperties
  <2> QED
    BY <1>1, <2>1, ExceptSeq DEF InsertOrUpdate
<1>2. CASE ~HasEntry(entries, e.user)
  BY <1>2 DEF InsertOrUpdate
<1> QED
  BY <1>1, <1>2

LEMMA WithPasswordType ==
  ASSUME NEW file \in Seq(ShadowLine), NEW u, NEW h \in Hashes,
         HasEntry(ParseFile(file), u)
  PROVE  WithPassword(file, u, h) \in Seq(ShadowLine)
<1> DEFINE entries == ParseFile(file)
           e == GetEntry(entries, u)
<1>1. entries \in Seq(Entry)
  BY ParseFileType
<1>2. e \in Entry
  BY <1>1, FirstOfProperties, ElementOfSeq DEF GetEntry
<1>3. SetPasswordHash(e, h) \in Entry
  <2> HIDE DEF e
  <2> QED
    BY <1>2, ShadowAssumption DEF SetPasswordHash, Entry
<1>4. InsertOrUpdate(entries, SetPasswordHash(e, h)) \in Seq(Entry)
  BY <1>1, <1>3, InsertOrUpdateType
<1> QED
  BY <1>4, SerializeType DEF WithPassword

(* Reading a password text and printing it gives the text.                  *)
LEMMA PasswordRoundTrip ==
  ASSUME NEW l \in ShadowLine
  PROVE  PrintPassword(ParseLine(l)) = l.pw
  BY ShadowAssumption DEF ShadowLine, ParseLine, PrintPassword, Mark

(* A column that is not empty holds one number.                             *)
LEMMA SingleNumber ==
  ASSUME NEW s \in NumText, s # <<>>
  PROVE  s = <<s[1]>>
<1>1. s \in Seq(Nat) /\ Len(s) <= 1
  BY DEF NumText
<1>2. Len(s) \in Nat /\ Len(s) # 0
  BY <1>1, LenProperties, EmptySeq
<1>3. ASSUME NEW n \in Nat, n <= 1, n # 0
      PROVE  n = 1
  BY <1>3
<1>4. Len(s) = 1
  BY <1>1, <1>2, <1>3
<1> QED
  BY <1>1, <1>4

LEMMA LineFields ==
  ASSUME NEW l
  PROVE  ParseLine(l).user = l.user
  BY DEF ParseLine

LEMMA EntryFields ==
  ASSUME NEW e
  PROVE  PrintEntry(e).user = e.user /\ PrintEntry(e).pw = PrintPassword(e)
  BY DEF PrintEntry

(* So does a column, unless it holds the value of an empty one.             *)
LEMMA NumRoundTrip ==
  ASSUME NEW l \in ShadowLine, NEW c \in Column, l.num[c] # <<Unset(c)>>
  PROVE  PrintNum(c, ParseLine(l).num[c]) = l.num[c]
<1>1. l.num[c] \in NumText
  BY DEF ShadowLine
<1>2. CASE l.num[c] = <<>>
  BY <1>2 DEF ParseLine, PrintNum
<1>3. CASE l.num[c] # <<>>
  <2>2. l.num[c] = <<l.num[c][1]>>
    BY <1>1, <1>3, SingleNumber
  <2>3. l.num[c][1] # Unset(c)
    BY <2>2
  <2>4. ParseLine(l).num[c] = l.num[c][1]
    BY <1>3 DEF ParseLine
  <2> QED
    BY <2>2, <2>3, <2>4 DEF PrintNum
<1> QED
  BY <1>2, <1>3

(* Setting a hash does not change what a marked entry prints.               *)
LEMMA MarkHidesHash ==
  ASSUME NEW e \in Entry, NEW h, PrintPassword(e) \in Mark
  PROVE  PrintPassword(SetPasswordHash(e, h)) = PrintPassword(e)
<1>1. e.hash \notin Mark
  BY ShadowAssumption DEF Entry, Mark
<1>2. e.locked \/ e.nologin \/ e.nopassword
  BY <1>1 DEF PrintPassword
<1>3. /\ SetPasswordHash(e, h).locked = e.locked
      /\ SetPasswordHash(e, h).nologin = e.nologin
      /\ SetPasswordHash(e, h).nopassword = e.nopassword
  BY DEF SetPasswordHash, Entry
<1> QED
  BY <1>2, <1>3 DEF PrintPassword

LEMMA GetEntryProperties ==
  ASSUME NEW entries \in Seq(Entry), NEW u, HasEntry(entries, u)
  PROVE  /\ GetEntry(entries, u) \in Entry
         /\ GetEntry(entries, u).user = u
         /\ \E i \in 1..Len(entries) : GetEntry(entries, u) = entries[i]
<1>1. /\ FirstOf(entries, u) \in 1..Len(entries)
      /\ entries[FirstOf(entries, u)].user = u
  BY FirstOfProperties
<1> QED
  BY <1>1, ElementOfSeq DEF GetEntry

LEMMA SetHashType ==
  ASSUME NEW e \in Entry, NEW h \in Hashes
  PROVE  /\ SetPasswordHash(e, h) \in Entry
         /\ SetPasswordHash(e, h).user = e.user
         /\ SetPasswordHash(e, h).num = e.num
  BY ShadowAssumption DEF SetPasswordHash, Entry

(* insert_or_update replaces the first entry of the user, when there is one. *)
LEMMA InsertOrUpdateProperties ==
  ASSUME NEW entries \in Seq(Entry), NEW e \in Entry
  PROVE  LET new == InsertOrUpdate(entries, e) IN
         /\ new \in Seq(Entry)
         /\ Len(new) = Len(entries)
         /\ \A i \in 1..Len(entries) :
              \/ new[i] = entries[i]
              \/ /\ new[i] = e
                 /\ entries[i].user = e.user
                 /\ \A j \in 1..Len(entries) : entries[j].user = e.user => i <= j
<1>1. InsertOrUpdate(entries, e) \in Seq(Entry)
  BY InsertOrUpdateType
<1>2. CASE HasEntry(entries, e.user)
  <2> DEFINE n == FirstOf(entries, e.user)
  <2>1. /\ n \in 1..Len(entries)
        /\ entries[n].user = e.user
        /\ \A j \in 1..Len(entries) : entries[j].user = e.user => n <= j
    BY <1>2, FirstOfProperties
  <2>2. InsertOrUpdate(entries, e) = [entries EXCEPT ![n] = e]
    BY <1>2 DEF InsertOrUpdate
  <2> HIDE DEF n
  <2>3. Len([entries EXCEPT ![n] = e]) = Len(entries)
    BY <2>1, ExceptSeq
  <2>4. \A i \in 1..Len(entries) :
          [entries EXCEPT ![n] = e][i] = IF i = n THEN e ELSE entries[i]
    BY <2>1, ExceptSeq
  <2> QED
    BY <1>1, <2>1, <2>2, <2>3, <2>4
<1>3. CASE ~HasEntry(entries, e.user)
  BY <1>1, <1>3 DEF InsertOrUpdate
<1> QED
  BY <1>2, <1>3

(* Printing what was read and reading it again gives what was read, also in
   the columns whose text changes.                                          *)
LEMMA NumReread ==
  ASSUME NEW c \in Column, NEW n
  PROVE  (IF PrintNum(c, n) = <<>> THEN Unset(c) ELSE PrintNum(c, n)[1]) = n
<1>1. CASE n = Unset(c)
  BY <1>1 DEF PrintNum
<1>2. CASE n # Unset(c)
  <2>1. PrintNum(c, n) = <<n>> /\ <<n>> # <<>>
    BY <1>2 DEF PrintNum
  <2> QED
    BY <2>1
<1> QED
  BY <1>1, <1>2

LEMMA LineReread ==
  ASSUME NEW l \in ShadowLine, NEW e \in Entry,
         e.num = ParseLine(l).num, e.user = l.user, PrintPassword(e) = l.pw
  PROVE  ParseLine(PrintEntry(e)) = ParseLine(l)
<1> DEFINE p == PrintEntry(e)
<1>1. p.user = l.user /\ p.pw = l.pw
  BY EntryFields
<1>2. \A c \in Column : p.num[c] = PrintNum(c, e.num[c])
  BY DEF PrintEntry
<1> HIDE DEF p
<1>3. \A c \in Column : (IF p.num[c] = <<>> THEN Unset(c) ELSE p.num[c][1]) = e.num[c]
  BY <1>2, NumReread
<1>4. [c \in Column |-> IF p.num[c] = <<>> THEN Unset(c) ELSE p.num[c][1]]
        = [c \in Column |-> e.num[c]]
  BY <1>3
<1>5. [c \in Column |-> e.num[c]]
        = [c \in Column |-> IF l.num[c] = <<>> THEN Unset(c) ELSE l.num[c][1]]
  BY DEF ParseLine
<1> QED
  BY <1>1, <1>4, <1>5 DEF ParseLine, p

(* What setting a password does to the lines of a file: every account stays,
   and only the password of the first line of the user may change, to what
   was asked, and only when no mark hides it.                               *)
LEMMA WithPasswordLines ==
  ASSUME NEW file \in Seq(ShadowLine), NEW u, NEW h \in Hashes,
         HasEntry(ParseFile(file), u)
  PROVE  LET new == WithPassword(file, u, h)
             n == FirstOf(file, u) IN
         /\ new \in Seq(ShadowLine) /\ Len(new) = Len(file)
         /\ HasEntry(file, u) /\ n \in 1..Len(file) /\ FirstOf(new, u) = n
         /\ \A i \in 1..Len(file) :
               /\ new[i].user = file[i].user
               /\ i # n => new[i].pw = file[i].pw
               /\ i # n => ParseLine(new[i]) = ParseLine(file[i])
         /\ file[n].user = u
         /\ new[n].pw = IF file[n].pw \in Mark THEN file[n].pw ELSE h
         /\ new[n].pw = file[n].pw => ParseLine(new[n]) = ParseLine(file[n])
<1> DEFINE entries == ParseFile(file)
           e == GetEntry(entries, u)
           f == SetPasswordHash(e, h)
           ins == InsertOrUpdate(entries, f)
           new == WithPassword(file, u, h)
           n == FirstOf(file, u)
<1>0. /\ entries \in Seq(Entry) /\ Len(entries) = Len(file) /\ Len(file) \in Nat
      /\ DOMAIN file = 1..Len(file) /\ DOMAIN entries = 1..Len(file)
  BY ParseFileType, LenProperties
<1>1. \A i \in 1..Len(file) : /\ file[i] \in ShadowLine
                              /\ entries[i] = ParseLine(file[i])
                              /\ entries[i].user = file[i].user
  BY <1>0, ElementOfSeq, LineFields DEF ParseFile
<1>2. HasEntry(file, u) /\ FirstOf(entries, u) = n
  <2>0. HasEntry(entries, u)
    OBVIOUS
  <2> HIDE DEF entries
  <2>1. DOMAIN entries = DOMAIN file /\ \A i \in DOMAIN file : entries[i].user = file[i].user
    BY <1>0, <1>1
  <2>2. FirstOf(entries, u) = FirstOf(file, u)
    BY <2>1 DEF FirstOf
  <2>3. HasEntry(file, u)
    BY <2>0, <2>1 DEF HasEntry
  <2> QED
    BY <2>2, <2>3
<1>3. /\ n \in 1..Len(file) /\ file[n].user = u
      /\ \A j \in 1..Len(file) : file[j].user = u => n <= j
  BY <1>2, FirstOfProperties
<1>4. e = ParseLine(file[n]) /\ e \in Entry /\ e.user = u
  BY <1>0, <1>1, <1>2, <1>3, ParseLineType DEF GetEntry
<1>5. f \in Entry /\ f.user = u /\ f.num = e.num
  BY <1>4, SetHashType
<1>6. ins = [entries EXCEPT ![n] = f]
  BY <1>2, <1>5 DEF InsertOrUpdate
<1>7. /\ ins \in Seq(Entry) /\ Len(ins) = Len(file)
      /\ \A i \in 1..Len(file) : ins[i] = IF i = n THEN f ELSE entries[i]
  <2> HIDE DEF entries, e, f, ins, n
  <2> QED
    BY <1>0, <1>3, <1>5, <1>6, ExceptSeq
<1>8. new = Serialize(ins)
  BY DEF WithPassword
<1> HIDE DEF entries, e, f, ins, new, n
<1>9. new \in Seq(ShadowLine) /\ Len(new) = Len(file)
  BY <1>7, <1>8, SerializeType
<1>10. \A i \in 1..Len(file) : new[i] = PrintEntry(ins[i])
  BY <1>7, <1>8, LenProperties DEF Serialize
<1>11. \A i \in 1..Len(file) :
         i # n => /\ new[i].user = file[i].user
                  /\ new[i].pw = file[i].pw
                  /\ ParseLine(new[i]) = ParseLine(file[i])
  <2> TAKE i \in 1..Len(file)
  <2> HAVE i # n
  <2>1. ins[i] = ParseLine(file[i]) /\ ins[i] \in Entry
    BY <1>1, <1>7, ParseLineType
  <2>2. /\ ins[i].num = ParseLine(file[i]).num /\ ins[i].user = file[i].user
        /\ PrintPassword(ins[i]) = file[i].pw
    BY <1>1, <2>1, PasswordRoundTrip, LineFields
  <2>3. new[i] = PrintEntry(ins[i])
    BY <1>10
  <2> QED
    BY <1>1, <2>1, <2>2, <2>3, EntryFields, LineReread
<1>12. new[n].user = file[n].user /\ new[n].pw = PrintPassword(f) /\ new[n] = PrintEntry(f)
  BY <1>3, <1>5, <1>7, <1>10, EntryFields
<1>13. PrintPassword(f) = IF file[n].pw \in Mark THEN file[n].pw ELSE h
  <2>1. PrintPassword(e) = file[n].pw /\ file[n] \in ShadowLine
    BY <1>1, <1>3, <1>4, PasswordRoundTrip
  <2>2. CASE file[n].pw \in Mark
    BY <1>4, <2>1, <2>2, MarkHidesHash DEF f
  <2>3. CASE file[n].pw \notin Mark
    <3>1. ~e.locked /\ ~e.nologin /\ ~e.nopassword
      BY <1>4, <2>3 DEF ParseLine, Mark
    <3>2. ~f.locked /\ ~f.nologin /\ ~f.nopassword /\ f.hash = h
      BY <1>4, <3>1 DEF f, SetPasswordHash, Entry
    <3> QED
      BY <2>3, <3>2 DEF PrintPassword
  <2> QED
    BY <2>2, <2>3
<1>14. new[n].pw = file[n].pw => ParseLine(new[n]) = ParseLine(file[n])
  BY <1>1, <1>3, <1>4, <1>5, <1>12, LineReread
<1>15. FirstOf(new, u) = n
  <2>1. DOMAIN new = DOMAIN file /\ \A i \in DOMAIN file : new[i].user = file[i].user
    BY <1>0, <1>9, <1>11, <1>12, LenProperties
  <2> QED
    BY <2>1 DEF FirstOf, n
<1> QED
  BY <1>2, <1>3, <1>9, <1>11, <1>12, <1>13, <1>14, <1>15 DEF new, n
=============================================================================
