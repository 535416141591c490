---------------------------- MODULE MCSysconfig ----------------------------
(* One machine, its disk ordinary or with something missing, and
   configurations that between them hold every instruction.                 *)
EXTENDS Sysconfig

MCWord ==
    Literals \cup {"CMASK", "LANGUAGE", "022", "C", "UTC", "CET", "unset", "hosts",
                   "files", "files dns", "node1", "en_US", "de_DE", "ns1", "example",
                   "German", "vt100", "xterm", "a", "rpool/data", "default", "gw", "net0"}

Nums(lastchg) == [c \in Column |-> IF c = "lastchg" THEN lastchg ELSE <<>>]
Acct(u, p) == [user |-> u, pw |-> p, num |-> Nums(<<1>>)]

W(name, value) == Words(<<name, value>>)

MCInit == <<W("CMASK", "022"), W("LANG", "C"), W("TZ", "UTC")>>
MCShadow ==
    <<Acct("root", "h0"), Acct("adm", "NP"),
      [Acct("root", "h0") EXCEPT !.num = Nums(<<0>>)]>>

(* A system as it is installed.                                             *)
Fresh ==
    [i \in Items |->
        CASE i = "init" -> MCInit
          [] i = "shadow" -> MCShadow
          [] i = "nsswitch.dns" -> <<W("hosts", "files dns")>>
          [] i = "nsswitch.conf" -> <<W("hosts", "files")>>
          [] i = ".UNCONFIGURED" -> <<>>
          [] i \in SmfProps -> <<Words(<<"unset">>)>>
          [] OTHER -> Absent]

MCDisks ==
    {Fresh,
     [Fresh EXCEPT !["init"] = <<W("LANGUAGE", "C"), W("CMASK", "022"), W("LANG", "C")>>,
                   !["shadow"] = <<Acct("adm", "NP"), Acct("root", "NP")>>],
     [Fresh EXCEPT !["init"] = Absent],
     [Fresh EXCEPT !["shadow"] = Absent, !["nsswitch.dns"] = Absent]}

FreshOnly == {Fresh}

Hostname == [op |-> "hostname", name |-> "node1"]
Locale(name, unicode) == [op |-> "locale", name |-> name, unicode |-> unicode]
Timezone == [op |-> "timezone", name |-> "CET"]
Dns == [op |-> "dns", nameservers |-> <<"ns1">>, domain |-> <<"example">>, search |-> <<>>]
Keymap == [op |-> "keymap", layout |-> "German"]
Terminal(name, label, type) ==
    [op |-> "terminal", name |-> name, label |-> label, type |-> type]
Dataset == [op |-> "dataset", name |-> "rpool/data"]
Route == [op |-> "route", match |-> "default", gateway |-> "gw"]
Interface == [op |-> "interface", device |-> "net0", name |-> <<>>, ipv4 |-> <<"dhcp">>, ipv6 |-> <<>>]
Password(kind, value) == [op |-> "password", kind |-> kind, value |-> value]
TimeServer == [op |-> "timeserver"]

(* The first two can be repeated as they are; the third's second locale
   undoes the first.                                                         *)
Safe == <<Hostname, Locale(<<"en_US">>, TRUE), Timezone, Keymap,
          Terminal(<<>>, <<>>, "vt100"), Dns>>
Secret == <<Password("hash", "h1"), Locale(<<"de_DE", "UTF-8">>, TRUE), Dns>>
Twice == <<Locale(<<"en_US">>, TRUE), Timezone, Locale(<<"de_DE", "UTF-8">>, TRUE)>>
Creating == <<Dataset, Terminal(<<>>, <<"a">>, "vt100"), Terminal(<<"a">>, <<>>, "vt100"),
              Terminal(<<>>, <<>>, "xterm"), Hostname>>
Console == <<Terminal(<<>>, <<"a">>, "vt100"), Keymap>>
Passwords == <<Password("hash", "h1"), Timezone, Password("hash", "odd")>>
Stuck == {<<Hostname, TimeServer>>, <<Timezone, Password("clear", "h1")>>,
          <<Password("hash", "odd"), Timezone, Password("hash", "h1")>>,
          <<Hostname, Route>>, <<Keymap, Interface>>}

MCConfigs == {Safe, Secret, Twice, Creating, Console, Passwords} \cup Stuck
LocaleOnly == {<<Locale(<<"C">>, TRUE), Timezone>>}

LangDisks == {Fresh, [Fresh EXCEPT !["init"] = <<W("LANGUAGE", "C"), W("LANG", "C")>>]}
LangConfigs == {<<Locale(<<"C">>, TRUE)>>, <<Locale(<<"en_US">>, TRUE), Hostname>>}
=============================================================================
