------------------------------- MODULE MCZfs -------------------------------
(* A pool, a dataset in a dataset, and one name that is refused.            *)
EXTENDS Zfs

MCDatasets == {<<"p">>, <<"p", "a">>, <<"p", "a", "b">>, <<"p", "c@d">>}
MCAtNames == {<<"p", "c@d">>}
=============================================================================
