---------------------------- MODULE Instructions ----------------------------
(***************************************************************************)
(* libsysconfig's instructions: what a configuration is made of once it    *)
(* has been read, and what Image::apply_instruction takes.                 *)
(***************************************************************************)
EXTENDS Shadow

CONSTANTS
    Word          \* words of configuration files, names and arguments

(* enum Instruction.  An Option is a sequence of length 0 or 1; the label of
   a terminal stands for its label, modules and prompt; the address of a
   static NetworkConfig, dataset properties and `primary` change no control. *)
Option(S) == {s \in Seq(S) : Len(s) <= 1}

NetworkConfig == {"static", "dhcp", "dhcp-stateful", "dhcp-stateless"}

Instruction ==
    [op: {"dataset"}, name: Word]
    \cup [op: {"locale"}, name: Seq(Word), unicode: BOOLEAN]
    \cup [op: {"dns"}, nameservers: Seq(Word), domain: Option(Word),
          search: Option(Word)]
    \cup [op: {"route"}, match: Word, gateway: Word]
    \cup [op: {"password"}, kind: {"clear", "hash"}, value: Hashes]
    \cup [op: {"hostname"}, name: Word]
    \cup [op: {"keymap"}, layout: Word]
    \cup [op: {"timezone"}, name: Word]
    \cup [op: {"terminal"}, name: Option(Word), label: Option(Word), type: Word]
    \cup [op: {"timeserver"}]
    \cup [op: {"interface"}, device: Word, name: Option(Word),
          ipv4: Option(NetworkConfig), ipv6: Option(NetworkConfig)]
=============================================================================
