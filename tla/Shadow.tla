------------------------------- MODULE Shadow -------------------------------
(***************************************************************************)
(* libshadow: the /etc/shadow grammar (shadow.pest), the ShadowFile and    *)
(* ShadowEntry types with their accessors, and the printing of a file.     *)
(*                                                                         *)
(* A file on disk is a sequence of lines, a line a record of its fields:   *)
(* the user, the password text, and for each numeric column either <<>>    *)
(* (the column is empty) or <<n>>.  The characters of names and hashes are *)
(* abstracted to what the grammar tells apart: a name is alphanumeric or   *)
(* not, a password text is one of the three marks, a hash the password     *)
(* rule accepts, or a text that no rule accepts.                           *)
(***************************************************************************)
EXTENDS Integers, Sequences

CONSTANTS
    Users,         \* user names that occur in shadow files
    AlnumUsers,    \* those made of ASCII alphanumerics only
    Hashes,        \* password texts other than the marks
    PlainHashes,   \* those the rule `password` matches up to the next colon
    MaxI64         \* the largest number parse::<i64> accepts

(* A password text that starts with NL, NP or *LK* is consumed by the mark's
   rule first (PEG choice does not come back), so it is not plain.           *)
ASSUME ShadowAssumption ==
    /\ AlnumUsers \subseteq Users
    /\ PlainHashes \subseteq Hashes
    /\ MaxI64 \in Nat
    /\ {"*LK*", "NL", "NP", ""} \cap Hashes = {}

Mark == {"*LK*", "NL", "NP"}

Column == {"lastchg", "min", "max", "warn", "inactive", "expire", "flag"}

NumText == {s \in Seq(Nat) : Len(s) <= 1}

(* A line of the file.                                                      *)
ShadowLine == [user: Users, pw: Mark \cup Hashes, num: [Column -> NumText]]

-----------------------------------------------------------------------------
(* Parsing.                                                                 *)

(* impl Default for ShadowEntry: the value that stands for an empty column. *)
Unset(c) == IF c \in {"lastchg", "flag"} THEN 0 ELSE -1

(* struct ShadowEntry; the hash of a marked entry is the empty string until
   it is set.                                                               *)
Entry ==
    {e \in [user: Users, hash: Hashes \cup {""}, locked: BOOLEAN, nologin: BOOLEAN,
            nopassword: BOOLEAN, num: [Column -> Int]] :
        /\ e.hash = "" => e.locked \/ e.nologin \/ e.nopassword
        /\ \A c \in Column : e.num[c] \in Nat \cup {Unset(c)}}

(* The grammar needs at least one entry and accepts alphanumeric users.     *)
Grammatical(file) ==
    /\ file # <<>>
    /\ \A i \in DOMAIN file : /\ file[i].user \in AlnumUsers
                              /\ file[i].pw \in Mark \cup PlainHashes

(* parse::<i64>() fails on a number that does not fit.                      *)
NumbersFit(file) ==
    \A i \in DOMAIN file : \A c \in Column :
        file[i].num[c] # <<>> => file[i].num[c][1] <= MaxI64

Parses(file) == Grammatical(file) /\ NumbersFit(file)

ParseLine(l) ==
    [user |-> l.user,
     hash |-> IF l.pw \in Mark THEN "" ELSE l.pw,
     locked |-> l.pw = "*LK*",
     nologin |-> l.pw = "NL",
     nopassword |-> l.pw = "NP",
     num |-> [c \in Column |-> IF l.num[c] = <<>> THEN Unset(c)
                               ELSE l.num[c][1]]]

(* parse_shadow_file, on a file that Parses.                                *)
ParseFile(file) == [i \in DOMAIN file |-> ParseLine(file[i])]

-----------------------------------------------------------------------------
(* Printing.                                                                *)

(* Faulty variants of PrintPassword: the mark NL is forgotten; a hash is
   printed before any mark.                                                 *)
PrintPasswordWithoutNL(e) ==
    IF e.locked THEN "*LK*" ELSE IF e.nopassword THEN "NP" ELSE e.hash

PrintPasswordHashFirst(e) ==
    IF e.hash # "" THEN e.hash
    ELSE IF e.locked THEN "*LK*" ELSE IF e.nologin THEN "NL" ELSE "NP"

(* print_password_entry: the marks hide the hash.                           *)
PrintPassword(e) ==
    IF e.locked THEN "*LK*"
    ELSE IF e.nologin THEN "NL"
    ELSE IF e.nopassword THEN "NP"
    ELSE e.hash

(* A faulty variant of PrintNum: one test for every column.                 *)
PrintNumZeroOnly(c, n) == IF n = 0 THEN <<>> ELSE <<n>>

(* print_lastchg, print_min, ..., print_flag.                               *)
PrintNum(c, n) == IF n = Unset(c) THEN <<>> ELSE <<n>>

PrintEntry(e) ==
    [user |-> e.user, pw |-> PrintPassword(e),
     num |-> [c \in Column |-> PrintNum(c, e.num[c])]]

Serialize(entries) == [i \in DOMAIN entries |-> PrintEntry(entries[i])]

-----------------------------------------------------------------------------
(* The accessors of ShadowFile and ShadowEntry.                             *)

HasEntry(entries, u) == \E i \in DOMAIN entries : entries[i].user = u

(* A faulty variant of FirstOf: the loop goes on to the last match.         *)
LastOf(entries, u) ==
    CHOOSE i \in DOMAIN entries :
        /\ entries[i].user = u
        /\ \A j \in DOMAIN entries : entries[j].user = u => i >= j

FirstOf(entries, u) ==
    CHOOSE i \in DOMAIN entries :
        /\ entries[i].user = u
        /\ \A j \in DOMAIN entries : entries[j].user = u => i <= j

(* get_entry clones the first entry of the user.                            *)
GetEntry(entries, u) == entries[FirstOf(entries, u)]

(* A faulty variant of InsertOrUpdate: the entry always goes to the end.     *)
InsertAtEnd(entries, e) == Append(entries, e)

(* insert_or_update: the loop replaces the first entry of the user and
   returns; after a loop that found none the function ends.                 *)
InsertOrUpdate(entries, e) ==
    IF HasEntry(entries, e.user)
    THEN [entries EXCEPT ![FirstOf(entries, e.user)] = e]
    ELSE entries

SetPasswordHash(e, h) == [e EXCEPT !.hash = h]

(* What set_root_password_hash and passutil both do to the lines of a file
   that Parses and has an entry of user u.                                  *)
WithPassword(file, u, h) ==
    LET entries == ParseFile(file) IN
    Serialize(InsertOrUpdate(entries, SetPasswordHash(GetEntry(entries, u), h)))
=============================================================================
