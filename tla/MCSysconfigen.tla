--------------------------- MODULE MCSysconfigen ---------------------------
(* Texts of two commands, of one, with an unknown keyword, with a keyword
   that panics, and one that the grammar turns down.                         *)
EXTENDS Sysconfigen

MCTexts == {"keyboard", "timezone", "terminal", "hostname", "German", "UTC"}
MCQuoteless == MCTexts
MCCut == [t \in MCTexts |-> IF t \in {"German", "UTC"} THEN <<>> ELSE <<t>>]
MCSplit == [t \in MCTexts |-> <<t>>]
MCGenerated == [t \in MCTexts |-> "h0"]

Line(words) ==
    Append([i \in DOMAIN words |-> [kind |-> "word", text |-> words[i]]],
           [kind |-> "newline"])

Comment == <<[kind |-> "comment"]>>

MCSources ==
    {Line(<<"keyboard", "German">>) \o Comment \o Line(<<"timezone", "UTC">>),
     Line(<<"terminal", "UTC">>),
     Line(<<"keyboard", "German">>) \o Line(<<"hostname", "German">>),
     Line(<<"keyboard", "German">>) \o Line(<<"timezone">>),
     Line(<<"UTC">>)}

MCTorn == {[op |-> "keymap", layout |-> "Ger"]}
MCWord == MCTexts \cup {"Ger"}
=============================================================================
