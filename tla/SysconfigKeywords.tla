------------------------- MODULE SysconfigKeywords -------------------------
(***************************************************************************)
(* libsysconfig's parse_keywords: the keywords of a configuration file to  *)
(* instructions.  A keyword is turned down with an error or, where an      *)
(* argument is indexed that is not there, with a panic; the first one that *)
(* is ends it.                                                             *)
(***************************************************************************)
EXTENDS Instructions, CfgParser

CONSTANTS
    Split,        \* Split[t]: t between its full stops
    Utf8,         \* words that begin with UTF-8 in capitals or small letters
    Colons,       \* words with a colon in them
    Crypted,      \* words that begin with $, a digit and $
    Generated     \* Generated[t]: what gen_password_hash returns for t

ASSUME KeywordsAssumption ==
    /\ Texts \subseteq Word
    /\ Split \in [Texts -> Seq(Word)]
    /\ Utf8 \subseteq Word /\ Colons \subseteq Texts
    /\ Crypted \subseteq Texts \cap Hashes
    /\ Generated \in [Texts -> PlainHashes]

(* The keywords with an arm of their own; get_supported_keywords has the same. *)
Supported ==
    {"keyboard", "timezone", "terminal", "timeserver", "system_locale",
     "network_interface", "dataset", "setup_dns", "route", "root_password"}

TerminalOptions == {"name", "label", "module", "prompt", "type"}

Has(k, option) == k.options # <<>> /\ option \in DOMAIN k.options[1]
Get(k, option) == IF Has(k, option) THEN <<k.options[1][option]>> ELSE <<>>

(* A terminal type may be an option; an empty one is none.                  *)
TypeGiven(k) == Has(k, "type") /\ k.options[1]["type"] # ""

(* How many arguments are indexed, there or not.                            *)
Needed(k) ==
    CASE k.name = "setup_dns" -> 0
      [] k.name = "route" -> 2
      [] k.name = "terminal" /\ TypeGiven(k) -> 0
      [] OTHER -> 1

Refused(k) ==
    \/ k.name \notin Supported
    \/ k.name = "terminal" /\ k.options # <<>> /\ ~(DOMAIN k.options[1] \subseteq TerminalOptions)

(* "ok" when the keyword yields an instruction.                             *)
Verdict(k) ==
    IF Refused(k) THEN "err"
    ELSE IF Len(k.arguments) < Needed(k) THEN "panic" ELSE "ok"

(* A full stop and UTF-8 in any case; no full stop at all counts as well.   *)
IsUnicode(name) ==
    Len(name) > 1 => \E i \in 2..Len(name) : name[i] \in Utf8

(* A faulty variant of SetupTerminalOf: the type is left an Option.          *)
SetupTerminalUntyped(k) ==
    [op |-> "terminal", name |-> Get(k, "name"), label |-> Get(k, "label"),
     type |-> Get(k, "type")]

SetupTerminalOf(k) ==
    [op |-> "terminal", name |-> Get(k, "name"),
     label |-> IF Has(k, "label") THEN Get(k, "label")
               ELSE IF Has(k, "module") THEN Get(k, "module") ELSE Get(k, "prompt"),
     type |-> IF TypeGiven(k) THEN k.options[1]["type"] ELSE k.arguments[1]]

(* An address with a colon is an IPv6 one, and static6 is then not looked
   at; options without an address mean DHCP, no options mean nothing.       *)
ConfigureNetworkAdapterOf(k) ==
    LET six == Has(k, "static") /\ k.options[1]["static"] \in Colons
        four == Has(k, "static") /\ ~six
        dhcp == k.options # <<>> /\ ~Has(k, "static") /\ ~Has(k, "static6")
    IN  [op |-> "interface", device |-> k.arguments[1], name |-> Get(k, "name"),
         ipv4 |-> IF four THEN <<"static">> ELSE IF dhcp THEN <<"dhcp">> ELSE <<>>,
         ipv6 |-> IF six \/ Has(k, "static6") THEN <<"static">>
                  ELSE IF dhcp THEN <<"dhcp-stateful">> ELSE <<>>]

AddRouteOf(k) ==
    LET n == IF Len(k.arguments) > 2 THEN 2 ELSE 1 IN
    [op |-> "route", match |-> k.arguments[n], gateway |-> k.arguments[n + 1]]

(* A faulty variant of SetRootPasswordOf: the password is taken as it is.    *)
SetRootPasswordAsIs(k) ==
    [op |-> "password", kind |-> IF k.arguments[1] \in Crypted THEN "hash" ELSE "clear",
     value |-> k.arguments[1]]

SetRootPasswordOf(k) ==
    [op |-> "password", kind |-> "hash",
     value |-> IF k.arguments[1] \in Crypted THEN k.arguments[1]
               ELSE Generated[k.arguments[1]]]

(* The instruction of a keyword whose verdict is "ok".                      *)
InstructionOf(k) ==
    CASE k.name = "keyboard" -> [op |-> "keymap", layout |-> k.arguments[1]]
      [] k.name = "timezone" -> [op |-> "timezone", name |-> k.arguments[1]]
      [] k.name = "terminal" -> SetupTerminalOf(k)
      [] k.name = "timeserver" -> [op |-> "timeserver"]
      [] k.name = "network_interface" -> ConfigureNetworkAdapterOf(k)
      [] k.name = "system_locale" ->
            [op |-> "locale", name |-> Split[k.arguments[1]],
             unicode |-> IsUnicode(Split[k.arguments[1]])]
      [] k.name = "dataset" -> [op |-> "dataset", name |-> k.arguments[1]]
      [] k.name = "setup_dns" ->
            [op |-> "dns", nameservers |-> k.arguments,
             domain |-> Get(k, "domain"), search |-> Get(k, "search")]
      [] k.name = "route" -> AddRouteOf(k)
      [] k.name = "root_password" -> SetRootPasswordOf(k)

Bad(keywords) == {i \in DOMAIN keywords : Verdict(keywords[i]) # "ok"}

(* A faulty variant of ParseKeywords: a keyword that is not known is left out. *)
ParseKeywordsSkipping(keywords) ==
    LET known == SelectSeq(keywords, LAMBDA k : Verdict(k) # "err") IN
    IF Bad(known) = {}
    THEN [result |-> "ok", set |-> [i \in DOMAIN known |-> InstructionOf(known[i])]]
    ELSE [result |-> "panic", set |-> <<>>]

ParseKeywords(keywords) ==
    IF Bad(keywords) = {}
    THEN [result |-> "ok", set |-> [i \in DOMAIN keywords |-> InstructionOf(keywords[i])]]
    ELSE LET first == CHOOSE i \in Bad(keywords) : \A j \in Bad(keywords) : i <= j IN
         [result |-> Verdict(keywords[first]), set |-> <<>>]

(* A text all the way: parse_config, then parse_keywords.                   *)
ParseText(text) ==
    IF IsConfig(text) THEN ParseKeywords(ParseConfig(text))
    ELSE [result |-> "err", set |-> <<>>]
=============================================================================
