------------------------- MODULE TextToInstructions -------------------------
(***************************************************************************)
(* What comes out of any text: a text is written token by token, and what  *)
(* parse_config and the two parse_keywords make of it is looked at after   *)
(* each: the instructions that reach libsysconfig's driver, and the        *)
(* commands libinstall makes pools with.                                   *)
(***************************************************************************)
EXTENDS SysconfigKeywords, PoolKeywords

CONSTANTS
    Styles        \* how a text may be written: what it begins with, the
                  \* tokens it goes on with, and a bound on its length

ASSUME TextAssumption ==
    Styles \subseteq [beginning: Seq(Token), tokens: SUBSET Token, limit: Nat]

VARIABLES
    style,
    text

TextInit == style \in Styles /\ text = style.beginning

Write(token) ==
    /\ Len(text) < style.limit
    /\ text' = Append(text, token)
    /\ UNCHANGED style

TextNext == \E token \in style.tokens : Write(token)

TextSpec == TextInit /\ [][TextNext]_<<style, text>>

-----------------------------------------------------------------------------
Read == ParseText(text)

(* Whatever the text says, what comes out of libcfgparser and               *)
(* parse_keywords (libsysconfig/src/lib.rs:100-295) are instructions the    *)
(* driver takes: no password is left clear, which the driver turns down,    *)
(* and one that was hashed here is one that libshadow reads again.          *)
PasswordsArriveHashed ==
    /\ Read.set \in Seq(Instruction)
    /\ \A i \in DOMAIN Read.set : Read.set[i].op = "password" =>
          /\ Read.set[i].kind = "hash"
          /\ Read.set[i].value \in PlainHashes \cup Crypted

(* A configuration may be put together from others: what stands before and  *)
(* behind a newline, each a configuration, are read together as they are    *)
(* read alone, so nothing of a command (its options, its arguments, a       *)
(* comment's newline) reaches the next one.                                 *)
ReadApart ==
    \A i \in 1..(Len(text) - 1) :
        LET front == SubSeq(text, 1, i)
            back == SubSeq(text, i + 1, Len(text)) IN
        IsConfig(front) /\ IsConfig(back) =>
            /\ IsConfig(text)
            /\ ParseConfig(text) = ParseConfig(front) \o ParseConfig(back)

(* The keywords of the text that create_pool is reached with.               *)
Pools ==
    IF ~IsConfig(text) THEN {}
    ELSE {k \in ToSet(ParseConfig(text)) :
             k.name = "zpool-create" /\ ~AshiftRefused(k) /\ ~Bails(Vdevs(k))}

Spelled(words) ==
    [i \in DOMAIN words |-> IF words[i] \in DOMAIN Group THEN Group[words[i]] ELSE words[i]]

(* Without options, the pool zpool is told to make is the one the            *)
(* configuration describes, group by group and disk by disk                  *)
(* (libinstall/src/lib.rs:258-298, 570-587), when the disks of the first     *)
(* group stand behind its name.                                              *)
LayoutKept ==
    \A k \in Pools :
        LET words == VdevArguments(k) IN
        k.options = <<>> /\ (words[1] \in DOMAIN Group \/ Len(words) = 1)
            => BehindName(k) = Spelled(words)
=============================================================================
