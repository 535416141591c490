--------------------------- MODULE DownloadProofs ---------------------------
(* Proofs about module Download: whatever the interleaving of its threads,
   the failures and the kills, install_image keeps what Fetch promises.      *)
EXTENDS Download, TLAPS

(* The temporary file is the work of this call.                             *)
Fresh == tmp = "this" /\ awaited /\ ~slashed

(* Whoever was told of progress was told of this call's: a message, the
   receiver that took one and main behind it vouch for the file.            *)
Vouched ==
    \/ sender \in {"chunk", "send"}
    \/ chan > 0
    \/ receiver \in {"got", "end"}
    \/ main \in {"check", "tar", "ok"}
    => Fresh

(* Threads run only while main waits for the sender or the receiver.        *)
Quiet ==
    /\ sender \in {"create", "chunk", "send"} => awaited
    /\ main # "sender" => sender \in {"none", "end"}
    /\ main = "directory" => receiver = "none" /\ sender = "none" /\ chan = 0

Told ==
    /\ main \notin {"ok", "err", "panic"} => unpacked = "nothing"
    /\ main \in {"err", "panic"} => unpacked \in {"nothing", "part"}
    /\ main = "ok" => unpacked = "whole" /\ got = size /\ size > 0

Inv == TypeOK /\ Vouched /\ Quiet /\ Told

(* TypeOK in two halves: those of the variables that are Booleans, and the
   others.                                                                  *)
Switches == awaited \in BOOLEAN /\ slashed \in BOOLEAN /\ tx \in BOOLEAN /\ rx \in BOOLEAN

Places ==
    /\ main \in Ended \cup {"directory", "sender", "receiver", "check", "tar"}
    /\ sender \in {"none", "request", "create", "chunk", "send", "end"}
    /\ receiver \in {"none", "waiting", "got", "end", "panicked"}
    /\ chan \in Nat
    /\ size \in Nat /\ got \in 0..size
    /\ tmp \in {"none", "this", "old whole", "old part"}
    /\ unpacked \in {"nothing", "part", "whole", "stale"}

LEMMA Halves == TypeOK <=> Switches /\ Places
  BY DEF TypeOK, Switches, Places

LEMMA NothingGot == \A n \in Sizes : n \in Nat /\ 0 \in 0..n
<1> SUFFICES ASSUME NEW n \in Sizes PROVE n \in Nat /\ 0 \in 0..n
  OBVIOUS
<1>1. n \in Nat
  BY DownloadAssumption DEF DownloadAssumption
<1>2. 0 <= n
  BY <1>1
<1>3. QED
  BY <1>1, <1>2

LEMMA InitInv == Init => Inv
<1> SUFFICES ASSUME Init PROVE Inv
  OBVIOUS
<1>1. Switches
  BY Zenon DEF Init, Switches
<1>2. Places
  BY DEF Init, Places, Ended
<1>3. Vouched /\ Quiet /\ Told
  BY DEF Init, Vouched, Quiet, Told
<1>4. QED
  BY <1>1, <1>2, <1>3, Halves DEF Inv

LEMMA NextInv == Inv /\ [Next]_vars => Inv'
<1> SUFFICES ASSUME Inv, [Next]_vars PROVE Inv'
  OBVIOUS
<1>0. (TypeOK <=> Switches /\ Places) /\ (TypeOK' <=> Switches' /\ Places')
  BY DEF TypeOK, Switches, Places
<1> USE DEF Inv, TypeOK, Vouched, Quiet, Told, Fresh, Ended, ends, download,
            SenderReturns, Whole
<1>1. ASSUME NEW s \in BOOLEAN, Begin(s) PROVE Inv'
  <2>1. Switches'
    BY <1>1, Zenon DEF Begin, Switches
  <2>2. Places'
    BY <1>1 DEF Begin, Places
  <2>3. /\ main' = "directory" /\ unpacked' = "nothing" /\ chan' = 0
        /\ sender' = "none" /\ receiver' = "none"
    BY <1>1 DEF Begin
  <2>4. Vouched' /\ Quiet' /\ Told'
    <3> HIDE DEF Fresh, Inv
    <3>1. QED
      BY <2>3
  <2>5. QED
    BY <2>1, <2>2, <2>4, <1>0, Zenon
<1>2. CASE NotAwaited
  BY <1>2 DEF NotAwaited
<1>3. CASE Get
  <2>1. Switches'
    BY <1>3, Zenon DEF Get, Switches
  <2>2. Places'
    <3>1. size' \in Nat /\ got' \in 0..size'
      <4>1. CASE size' \in Sizes /\ got' = 0
        BY <4>1, NothingGot
      <4>2. CASE UNCHANGED <<size, got>>
        BY <4>2
      <4>3. QED
        BY <1>3, <4>1, <4>2 DEF Get
    <3>2. QED
      BY <1>3, <3>1 DEF Get, Places
  <2>3. /\ sender' \in {"create", "end"} /\ sender = "request" /\ awaited
        /\ UNCHANGED <<awaited, main, slashed, receiver, chan, tmp, unpacked>>
    BY <1>3 DEF Get
  <2>4. QED
    BY <2>1, <2>2, <2>3, <1>0
<1>4. CASE CreateTmp
  BY <1>4 DEF CreateTmp
<1>5. CASE Chunk
  <2>1. Switches'
    BY <1>5, Zenon DEF Chunk, Switches
  <2>2. Places'
    BY <1>5 DEF Chunk, Places
  <2>3. /\ sender' \in {"send", "end"} /\ sender = "chunk" /\ Fresh
        /\ UNCHANGED <<awaited, main, slashed, receiver, chan, tmp, unpacked>>
    BY <1>5 DEF Chunk
  <2>4. QED
    BY <2>1, <2>2, <2>3, <1>0
<1>6. CASE Send
  <2>1. Fresh /\ main = "sender" /\ awaited
    BY <1>6 DEF Send
  <2>2. chan' \in Nat
    BY <1>6 DEF Send
  <2>3. sender' \in {"chunk", "end"} /\ tx' \in BOOLEAN
    BY <1>6 DEF Send
  <2>4. UNCHANGED <<awaited, main, slashed, receiver, rx, size, got, tmp, unpacked>>
    BY <1>6 DEF Send
  <2>5. QED
    BY <2>1, <2>2, <2>3, <2>4
<1>7. CASE Receiver
  <2>1. CASE Recv
    <3>1. Fresh /\ chan' \in Nat /\ main # "directory"
      BY <2>1 DEF Recv
    <3>2. receiver' = "got"
      BY <2>1 DEF Recv
    <3>3. UNCHANGED <<awaited, main, slashed, sender, tx, rx, size, got, tmp, unpacked>>
      BY <2>1 DEF Recv
    <3>4. QED
      BY <3>1, <3>2, <3>3
  <2>2. CASE RecvFails
    BY <2>2 DEF RecvFails
  <2>3. CASE DropRx
    BY <2>3 DEF DropRx
  <2>4. QED
    BY <1>7, <2>1, <2>2, <2>3 DEF Receiver
<1>8. CASE Directory
  BY <1>8 DEF Directory
<1>9. CASE JoinSender
  BY <1>9 DEF JoinSender
<1>10. CASE JoinReceiver
  BY <1>10 DEF JoinReceiver
<1>11. CASE Check
  BY <1>11 DEF Check
<1>12. CASE Tar
  BY <1>12 DEF Tar
<1>13. CASE Kill
  BY <1>13 DEF Kill
<1>14. CASE UNCHANGED vars
  <2>1. Switches' /\ Vouched'
    BY <1>14, Zenon DEF vars, Switches
  <2>2. Places' /\ Quiet' /\ Told'
    BY <1>14 DEF vars, Places
  <2>3. QED
    BY <2>1, <2>2, <1>0
<1> HIDE DEF Inv, Ended, SenderReturns
<1>15. QED
  BY <1>1, <1>2, <1>3, <1>4, <1>5, <1>6, <1>7, <1>8, <1>9, <1>10, <1>11, <1>12,
     <1>13, <1>14 DEF Next, Network, Sender, Main

LEMMA AlwaysInv == Spec => []Inv
  BY InitInv, NextInv, PTL DEF Spec

(* The variables of install_image and its threads keep their types, and no   *)
(* more is written than the image has (libinstall/src/lib.rs:660-698).       *)
THEOREM DownloadTypeCorrect == Spec => []TypeOK
<1>1. Inv => TypeOK
  BY DEF Inv
<1>2. QED
  BY <1>1, AlwaysInv, PTL

(* For images of any size and any number of calls: Ok needs an awaited       *)
(* future, a src without a slash and a download of this call that ended      *)
(* (libinstall/src/lib.rs:609-629).                                          *)
THEOREM OkNeedsDownloadHolds == Spec => []OkNeedsDownload
<1>1. Inv => OkNeedsDownload
  BY DEF Inv, Vouched, Told, Fresh, OkNeedsDownload
<1>2. QED
  BY <1>1, AlwaysInv, PTL

-----------------------------------------------------------------------------
(* The refinement.                                                          *)

LEMMA InitRefines == Init => F!Init
  BY DEF Init, F!Init, Outcome

(* A step that main does not end a call with is a stutter.                  *)
LEMMA StepRefines == Inv /\ [Next]_vars => [F!Next]_F!vars
<1> SUFFICES ASSUME Inv, [Next]_vars PROVE [F!Next]_F!vars
  OBVIOUS
<1> USE DEF Inv, TypeOK, Vouched, Told, Fresh, Ended, Outcome
<1>1. ASSUME NEW s \in BOOLEAN, Begin(s) PROVE F!Begin
  BY <1>1 DEF Begin, F!Begin
<1>2. CASE Network \/ Sender \/ Receiver
  <2>1. main' = main /\ unpacked' = unpacked
    BY <1>2 DEF Network, Sender, NotAwaited, Get, CreateTmp, Chunk, Send, Receiver, Recv,
                RecvFails, DropRx
  <2>2. QED
    BY <2>1 DEF F!vars
<1>3. CASE Directory \/ JoinSender \/ JoinReceiver \/ Check
  <2>1. /\ main \notin Ended /\ unpacked' = unpacked
        /\ main' \notin Ended \/ main' \in {"err", "panic"}
    BY <1>3 DEF Directory, JoinSender, JoinReceiver, Check
  <2>2. QED
    BY <2>1 DEF F!vars, F!Next, F!Fail
<1>4. CASE Tar
  BY <1>4 DEF Tar, Whole, F!Next, F!Succeed, F!Fail
<1>5. CASE Kill
  BY <1>5 DEF Kill, F!Next, F!Fail
<1>6. CASE UNCHANGED vars
  BY <1>6 DEF vars, F!vars
<1>7. QED
  BY <1>1, <1>2, <1>3, <1>4, <1>5, <1>6 DEF Next, Main, F!Next

(* Every behaviour of install_image, for images of any size, is one that     *)
(* Fetch allows (libinstall/src/lib.rs:604-649): an archive of an earlier    *)
(* call is never unpacked, and Ok means that the whole image was.            *)
THEOREM FetchImplemented == Spec => ImplementsFetch
  BY InitRefines, StepRefines, AlwaysInv, PTL DEF Spec, ImplementsFetch, F!Safety
=============================================================================
