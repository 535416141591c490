----------------------------- MODULE MCInstall -----------------------------
(* A host with the pool rpool and a data pool tank; bundles that make a pool
   of a new name, of the host's and of the data pool's, that install an
   image, and files that include others, one that is not there, and
   themselves.                                                               *)
EXTENDS Install

Rpool == Name("rpool")
Tank == Name("tank")
New == Name("new")

MCHostPools == {Rpool, Tank}
MCHostDatasets == {Ds(Rpool, <<"ROOT">>), Ds(Rpool, <<"ROOT", "be">>)}

Pool(name, disk) ==
    [op |-> "create_pool", name |-> name, bails |-> FALSE, disks |-> {disk}, be |-> "be"]
Bailing == [Pool(New, "d1") EXCEPT !.bails = TRUE]
Dataset(pool) == [op |-> "create_dataset", dataset |-> Ds(pool, <<"data", "x">>)]
Image(pool) == [op |-> "install_image", pool |-> pool]
Boot(pool) == [op |-> "make_bootable", pool |-> pool, be |-> "be"]
IncludeOf(f) == [op |-> "include", file |-> f]
Nothing == [op |-> "nothing"]

MCFiles == {"main", "host", "data", "image", "part", "missing", "loop", "nested", "bails"}

MCBundle ==
    [f \in MCFiles |->
        CASE f = "main" -> <<Pool(New, "d1"), Dataset(Installer(New)), Image(New)>>
          [] f = "host" -> <<Pool(Rpool, "d2"), Boot(Rpool)>>
          [] f = "data" -> <<Nothing, Pool(Tank, "d3")>>
          [] f = "image" -> <<Dataset(Tank), Image(New)>>
          [] f = "part" -> <<Boot(Rpool), Nothing>>
          [] f = "loop" -> <<Nothing, IncludeOf("loop"), Nothing>>
          [] f = "nested" -> <<IncludeOf("image"), IncludeOf("part"), Nothing,
                               IncludeOf("missing")>>
          [] f = "bails" -> <<IncludeOf("image"), Nothing, IncludeOf("missing"), Bailing>>
          [] OTHER -> <<>>]
=============================================================================
