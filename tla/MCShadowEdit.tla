---------------------------- MODULE MCShadowEdit ----------------------------
(* Two or three lines with every kind of password text, a repeated user, a
   user the grammar rejects, and the numbers that stand for an empty column. *)
EXTENDS ShadowEdit

Nums(lastchg, min, flag) ==
    [c \in Column |-> CASE c = "lastchg" -> lastchg
                        [] c = "min" -> min
                        [] c = "flag" -> flag
                        [] OTHER -> <<>>]

Plain == Nums(<<2>>, <<>>, <<>>)
L(u, p, n) == [user |-> u, pw |-> p, num |-> n]

MCInitialFiles ==
    {<<L("root", p, n), L("adm", q, Plain), L("root", "h1", Plain)>> :
        p \in {"h1", "*LK*", "odd"}, q \in {"NP", "NL"},
        n \in {Plain, Nums(<<2>>, <<0>>, <<1>>), Nums(<<5>>, <<>>, <<>>)}}
    \cup {<<>>, <<L("pkg_srv", "NP", Plain), L("root", "h1", Plain)>>}

MCDonor == <<L("sys", "h2", Plain), L("root", "h2", Nums(<<1>>, <<1>>, <<>>))>>
=============================================================================
