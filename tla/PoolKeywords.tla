---------------------------- MODULE PoolKeywords ----------------------------
(***************************************************************************)
(* libinstall's zpool-create: a keyword's options and arguments to a       *)
(* CreatePool instruction (parse_keywords), and that to the words the      *)
(* command zpool create is given (create_pool).                            *)
(***************************************************************************)
EXTENDS CfgParser

CONSTANT
    Numbers       \* texts that parse as i32

ASSUME PoolKeywordsAssumption == Numbers \subseteq Texts

Group == [mirror |-> "mirror", raidz |-> "raidz1", raidz1 |-> "raidz1",
          raidz2 |-> "raidz2", raidz3 |-> "raidz3"]

-----------------------------------------------------------------------------
(* parse_keywords                                                           *)

NoVdev == [type |-> "", devices |-> <<>>]

(* A faulty variant of Take: the devices of the group before are kept.       *)
TakeKeeping(state, word) ==
    IF word \in DOMAIN Group
    THEN [vdevs |-> IF state.vdev.type = "" THEN state.vdevs
                    ELSE Append(state.vdevs, state.vdev),
          vdev |-> [state.vdev EXCEPT !.type = Group[word]]]
    ELSE [state EXCEPT !.vdev.devices = Append(@, word)]

(* One argument: the name of a group ends the group before it, but not a run
   of plain disks, which joins the group.                                   *)
Take(state, word) ==
    IF word \in DOMAIN Group
    THEN IF state.vdev.type = ""
         THEN [state EXCEPT !.vdev.type = Group[word]]
         ELSE [vdevs |-> Append(state.vdevs, state.vdev),
               vdev |-> [NoVdev EXCEPT !.type = Group[word]]]
    ELSE [state EXCEPT !.vdev.devices = Append(@, word)]

(* What stands behind the pool's name, if anything does.                    *)
VdevArguments(k) == IF k.arguments = <<>> THEN <<>> ELSE Tail(k.arguments)

Vdevs(k) ==
    LET words == VdevArguments(k)
        Taken[n \in 0..Len(words)] ==
          IF n = 0 THEN [vdevs |-> <<>>, vdev |-> NoVdev]
          ELSE Take(Taken[n - 1], words[n])
        end == Taken[Len(words)]
    IN  Append(end.vdevs, end.vdev)

Given(k) == IF k.options = <<>> THEN {} ELSE DOMAIN k.options[1]

(* An ashift that is no number refuses the whole file.                      *)
AshiftRefused(k) == "ashift" \in Given(k) /\ k.options[1]["ashift"] \notin Numbers

(* The filter `k != "ashift" || k != "uefi"` lets every option pass.         *)
PoolOptions(k) == Given(k)

-----------------------------------------------------------------------------
(* create_pool                                                              *)

(* It bails out unless there is at most one plain vdev, of one disk.        *)
Bails(vdevs) ==
    \/ \E i \in DOMAIN vdevs : vdevs[i].type = "" /\ Len(vdevs[i].devices) # 1
    \/ \E i, j \in DOMAIN vdevs : i # j /\ vdevs[i].type = "" /\ vdevs[j].type = ""

Printed(vdev) == (IF vdev.type = "" THEN <<>> ELSE <<vdev.type>>) \o vdev.devices

(* The groups and disks, with the options between them and the pool's name;
   a HashMap's order is any.                                                *)
ZpoolArguments(vdevs) == FlattenSeq([i \in DOMAIN vdevs |-> Printed(vdevs[i])])

OptionWords(names) ==
    LET order == SetToSeq(names) IN
    FlattenSeq([i \in DOMAIN order |-> <<"-o", order[i]>>])

BehindName(k) == OptionWords(PoolOptions(k)) \o ZpoolArguments(Vdevs(k))
=============================================================================
