------------------------ MODULE MCTextToInstructions ------------------------
(* Texts of up to five tokens: two short commands, or one with what the
   grammar and parse_keywords tell apart; and up to five tokens behind the
   name of a pool, the last a newline.                                       *)
EXTENDS TextToInstructions

MCTexts ==
    {"keyboard", "keyboard2", "2", "6", "0", "German", "h",
     "network_interface", "root_password",
     "terminal", "type", "static", "static6", "::1", "$6$h", "pw", "h0",
     "zpool-create", "p", "ashift", "uefi", "12", "on",
     "c", "c1", "c2", "1", "mirror", "raidz"}
MCQuoteless == MCTexts \ {"::1", "$6$h"}

MCCut ==
    [t \in MCTexts |->
        CASE t = "keyboard2" -> <<"keyboard", "2">>
          [] t = "static6" -> <<"static", "6">>
          [] t = "utf8only" -> <<"utf", "8only">>
          [] t \in {"2", "6", "0", "German", "::1", "$6$h"} -> <<>>
          [] t = "h0" -> <<"h", "0">>
          [] OTHER -> <<t>>]

MCWord == MCTexts
MCSplit == [t \in MCTexts |-> <<t>>]
MCGenerated == [t \in MCTexts |-> "h0"]

WordToken(t) == [kind |-> "word", text |-> t]
OptionToken(n, t) == [kind |-> "option", name |-> n, text |-> t]

SysconfigTokens ==
    {WordToken(t) : t \in {"keyboard", "keyboard2", "German", "network_interface",
                           "root_password", "terminal"}}
    \cup {[kind |-> "quoted", text |-> t] : t \in {"$6$h", "pw"}}
    \cup {OptionToken("static", "::1"), OptionToken("static6", "::1"),
          OptionToken("type", "pw")}
    \cup {[kind |-> k] : k \in {"newline", "comment"}}

PoolTokens ==
    {WordToken(t) : t \in {"c1", "c2", "mirror", "raidz"}}
    \cup {OptionToken(n, t) : n \in {"ashift", "uefi"}, t \in {"12", "on"}}
    \cup {[kind |-> "newline"]}

MCStyles ==
    {[beginning |-> <<>>, tokens |-> SysconfigTokens, limit |-> 5],
     [beginning |-> <<WordToken("zpool-create"), WordToken("p")>>,
      tokens |-> PoolTokens, limit |-> 7]}
=============================================================================
