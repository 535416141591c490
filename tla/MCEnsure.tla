------------------------------ MODULE MCEnsure ------------------------------
(* Every function with one set of arguments, every type of node with right
   and wrong contents, and modes and owners that are right or wrong.        *)
EXTENDS Ensure

Want == <<1, 2>>

N(type, data, mode, owner) ==
    [type |-> type, data |-> data, mode |-> mode, owner |-> owner]

MCNodes ==
    {N("file", Want, 7, 0), N("file", <<3>>, 6, 1), N("link", Want, 5, 0),
     N("link", <<3>>, 5, 1), N("dir", <<>>, 6, 0), N("other", <<>>, 6, 1)}

MCDefaults == {[mode |-> 6, owner |-> 0], [mode |-> 7, owner |-> 0]}

C(kind, create) ==
    [kind |-> kind, create |-> create, data |-> Want, mode |-> 7, owner |-> 0]

MCCalls ==
    {C(k, "Always") : k \in {"perms", "directory", "removed"}}
    \cup {[C("symlink", "Always") EXCEPT !.mode = 0]}
    \cup {C(k, c) : k \in {"filestr", "file"}, c \in {"IfMissing", "Always"}}

(* Any mixture of calls, or one call over and over.                         *)
OneCall == {{c} : c \in MCCalls}
MCCallSets == {MCCalls} \cup OneCall
=============================================================================
