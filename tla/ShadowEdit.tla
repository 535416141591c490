----------------------------- MODULE ShadowEdit -----------------------------
(***************************************************************************)
(* A client of libshadow editing /etc/shadow: passutil, whose output the   *)
(* operator puts back in place of the file, and any other caller of the    *)
(* library (copying an entry between files with insert_or_update).         *)
(***************************************************************************)
EXTENDS Shadow

CONSTANTS
    InitialFiles,   \* the contents /etc/shadow may have at the beginning
    Donor           \* a second shadow file entries are copied from

ASSUME DonorAssumption ==
    /\ InitialFiles \subseteq Seq(ShadowLine)
    /\ Donor \in Seq(ShadowLine)
    /\ Parses(Donor)

VARIABLES
    disk,     \* the lines of the file
    loaded,   \* whether a ShadowFile is in memory
    mem,      \* its entries
    edited,   \* observer: the users edited since the file was loaded
    ret       \* outcome of the last call: "none", "ok" or "err"

vars == <<disk, loaded, mem, edited, ret>>

Init ==
    /\ disk \in InitialFiles
    /\ loaded = FALSE
    /\ mem = <<>>
    /\ edited = {}
    /\ ret = "none"

(* fs::read_to_string and parse_shadow_file.                                *)
Load ==
    /\ ~loaded
    /\ IF Parses(disk)
       THEN loaded' = TRUE /\ mem' = ParseFile(disk) /\ ret' = "ok"
       ELSE ret' = "err" /\ UNCHANGED <<loaded, mem>>
    /\ edited' = {}
    /\ UNCHANGED disk

(* passutil -s u: an input that starts with $ is taken for a hash as it
   stands, anything else is hashed by sha512_crypt, whose result is plain.
   Without an entry of that user passutil fails.                            *)
SetPassword(u, input) ==
    /\ loaded
    /\ IF HasEntry(mem, u)
       THEN \E h \in IF input \in Hashes THEN {input} ELSE PlainHashes :
               /\ mem' = InsertOrUpdate(mem, SetPasswordHash(GetEntry(mem, u), h))
               /\ edited' = edited \cup {u}
               /\ ret' = "ok"
               /\ UNCHANGED loaded
       ELSE /\ loaded' = FALSE /\ mem' = <<>>
            /\ ret' = "err"
            /\ UNCHANGED edited
    /\ UNCHANGED disk

(* insert_or_update with an entry get_entry returned for another file.      *)
CopyEntry(u) ==
    /\ loaded
    /\ HasEntry(ParseFile(Donor), u)
    /\ mem' = InsertOrUpdate(mem, GetEntry(ParseFile(Donor), u))
    /\ edited' = edited \cup {u}
    /\ ret' = "ok"
    /\ UNCHANGED <<disk, loaded>>

(* serialize, and the result takes the place of the file.                   *)
Store ==
    /\ loaded
    /\ disk' = Serialize(mem)
    /\ loaded' = FALSE
    /\ mem' = <<>>
    /\ ret' = "ok"
    /\ UNCHANGED edited

Next ==
    \/ Load
    \/ \E u \in Users, input \in Hashes \cup {"clear"} : SetPassword(u, input)
    \/ \E u \in Users : CopyEntry(u)
    \/ Store

Spec == Init /\ [][Next]_vars

-----------------------------------------------------------------------------
(* The variables have their types.                                          *)
TypeOK ==
    /\ disk \in Seq(ShadowLine)
    /\ loaded \in BOOLEAN
    /\ mem \in Seq(Entry)
    /\ edited \subseteq Users
    /\ ret \in {"none", "ok", "err"}

(* A file libshadow has read once stays readable, whatever edits and stores
   follow: only a hash outside the grammar, which set_password_hash accepts
   as it stands, can end that.                                              *)
StaysReadable ==
    ret = "ok" => \/ Parses(disk)
                  \/ \E i \in DOMAIN disk : disk[i].pw \in Hashes \ PlainHashes

(* Storing keeps the accounts and their order, and the password of every user
   no edit named, of every second line of a user, and the numeric columns that
   do not hold the value that stands for an empty one; a line behind the old
   ones could only be that of an edited user who had none.                  *)
OthersKept ==
    [][disk' # disk =>
        /\ Len(disk') >= Len(disk)
        /\ \A i \in (Len(disk) + 1)..Len(disk') :
            disk'[i].user \in edited /\ ~HasEntry(disk, disk'[i].user)
        /\ \A i \in DOMAIN disk :
            /\ disk'[i].user = disk[i].user
            /\ disk[i].user \notin edited \/ (\E j \in 1..(i-1) : disk[j].user = disk[i].user)
                 => /\ disk'[i].pw = disk[i].pw
                    /\ \A c \in Column : disk[i].num[c] # <<Unset(c)>>
                                           => disk'[i].num[c] = disk[i].num[c]]_disk

(* Setting a password never unlocks an account: a line that carries a mark
   keeps it, whatever hash was set, unless the whole entry was replaced by
   one of another file.                                                     *)
MarksKept ==
    [][\A i \in DOMAIN disk :
        disk[i].pw \in Mark /\ ~HasEntry(Donor, disk[i].user)
            => disk'[i].pw = disk[i].pw]_disk

-----------------------------------------------------------------------------
(* What the repository says of the library; the code does otherwise.        *)

(* libshadow/src/lib.rs:159-160, of insert_or_update: "Update the shadow entry
   if one with the same username already exists or insert a new one at the
   end", so that an edited user has an entry.                               *)
EditedPresent ==
    loaded /\ ret = "ok" => \A u \in edited : HasEntry(mem, u)
=============================================================================
