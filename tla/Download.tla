------------------------------ MODULE Download ------------------------------
(***************************************************************************)
(* libinstall's install_image and download_file: a thread that downloads   *)
(* to a temporary file and sends its progress, a thread that receives it,  *)
(* and main, which joins both and unpacks what the temporary file holds.   *)
(*                                                                         *)
(* download_file is an async function, and the closure given to the thread *)
(* only calls it.  Both readings are here: the future is awaited (a        *)
(* runtime drives it in the thread), or it is the thread's result, never   *)
(* runs, and is dropped, with the sending end in it, when main has joined. *)
(***************************************************************************)
EXTENDS Integers

CONSTANTS
    Sizes         \* how many chunks an image comes in

ASSUME DownloadAssumption == Sizes \subseteq Nat

VARIABLES
    awaited,     \* the reading
    main,        \* where install_image is
    slashed,     \* src has a slash in it, and so has the temporary name
    sender,      \* where the downloading thread is
    receiver,    \* where the receiving thread is
    chan,        \* messages sent and not received
    tx,          \* the sending end has not been dropped
    rx,          \* nor the receiving end
    size,        \* chunks of the image
    got,         \* chunks written
    tmp,         \* the temporary file: "none", this call's, or an older one's
    unpacked     \* by this call: "nothing", "part", "whole", "stale"

ends == <<chan, tx, rx>>
download == <<size, got, tmp>>
vars == <<awaited, main, slashed, sender, receiver, chan, tx, rx, size, got, tmp, unpacked>>

Ended == {"idle", "ok", "err", "panic"}

Init ==
    /\ awaited \in BOOLEAN
    /\ main = "idle" /\ slashed = FALSE
    /\ sender = "none" /\ receiver = "none"
    /\ chan = 0 /\ tx = FALSE /\ rx = FALSE
    /\ size = 0 /\ got = 0
    /\ tmp = "none" /\ unpacked = "nothing"

Whole == (tmp = "this" /\ got = size /\ size > 0) \/ tmp = "old whole"

(* A call, the first or a repeated one; the channel is made.                *)
Begin(s) ==
    /\ main \in Ended
    /\ main' = "directory" /\ slashed' = s
    /\ sender' = "none" /\ receiver' = "none"
    /\ chan' = 0 /\ tx' = TRUE /\ rx' = TRUE
    /\ tmp' = IF tmp = "none" THEN "none" ELSE IF Whole THEN "old whole" ELSE "old part"
    /\ unpacked' = "nothing"
    /\ UNCHANGED <<awaited, size, got>>

(* ensure::directory, then both threads.                                    *)
Directory ==
    /\ main = "directory"
    /\ \/ main' = "err" /\ UNCHANGED <<sender, receiver>>
       \/ main' = "sender" /\ sender' = "request" /\ receiver' = "waiting"
    /\ UNCHANGED <<awaited, slashed, ends, download, unpacked>>

-----------------------------------------------------------------------------
(* download_file                                                            *)

(* It returns, with Ok or an error, and drops its end of the channel.       *)
SenderReturns == sender' = "end" /\ tx' = FALSE

(* The future is made and not polled.                                       *)
NotAwaited ==
    /\ sender = "request" /\ ~awaited
    /\ sender' = "end"
    /\ UNCHANGED <<awaited, main, slashed, receiver, ends, download, unpacked>>

(* A faulty variant of Get: the progress is not reset.                       *)
GetResuming ==
    /\ sender = "request" /\ awaited
    /\ \/ SenderReturns /\ UNCHANGED <<size, got>>
       \/ sender' = "create" /\ size' \in Sizes /\ UNCHANGED <<got, tx>>
    /\ UNCHANGED <<awaited, main, slashed, receiver, chan, rx, tmp, unpacked>>

(* The request is answered with a length, or fails.                         *)
Get ==
    /\ sender = "request" /\ awaited
    /\ \/ SenderReturns /\ UNCHANGED <<size, got>>
       \/ sender' = "create" /\ size' \in Sizes /\ got' = 0 /\ UNCHANGED tx
    /\ UNCHANGED <<awaited, main, slashed, receiver, chan, rx, tmp, unpacked>>

(* rsplitn(1, '/') does not split: a name with a slash in it is a file in
   directories that nobody made.                                            *)
CreateTmp ==
    /\ sender = "create"
    /\ \/ SenderReturns /\ UNCHANGED tmp
       \/ ~slashed /\ sender' = "chunk" /\ tmp' = "this" /\ UNCHANGED tx
    /\ UNCHANGED <<awaited, main, slashed, receiver, chan, rx, size, got, unpacked>>

(* A chunk arrives and is written; or the stream ends or fails.             *)
Chunk ==
    /\ sender = "chunk"
    /\ \/ got < size /\ got' = got + 1 /\ sender' = "send" /\ UNCHANGED tx
       \/ SenderReturns /\ UNCHANGED got
    /\ UNCHANGED <<awaited, main, slashed, receiver, chan, rx, size, tmp, unpacked>>

(* A faulty variant of Send: it does not matter that nobody receives.        *)
SendAnyway ==
    /\ sender = "send"
    /\ chan' = (IF rx THEN chan + 1 ELSE chan) /\ sender' = "chunk"
    /\ UNCHANGED <<awaited, main, slashed, receiver, tx, rx, download, unpacked>>

(* The progress is reported after each chunk; a report nobody can receive
   ends the download.                                                       *)
Send ==
    /\ sender = "send"
    /\ \/ rx /\ chan' = chan + 1 /\ sender' = "chunk" /\ UNCHANGED tx
       \/ ~rx /\ SenderReturns /\ UNCHANGED chan
    /\ UNCHANGED <<awaited, main, slashed, receiver, rx, download, unpacked>>

-----------------------------------------------------------------------------
(* The receiver: one message, then the end of the closure drops rx.         *)

Recv ==
    /\ receiver = "waiting" /\ chan > 0
    /\ receiver' = "got" /\ chan' = chan - 1
    /\ UNCHANGED <<awaited, main, slashed, sender, tx, rx, download, unpacked>>

(* A faulty variant of RecvFails: if let in place of expect.                 *)
RecvFailsQuietly ==
    /\ receiver = "waiting" /\ chan = 0 /\ ~tx
    /\ receiver' = "end" /\ rx' = FALSE
    /\ UNCHANGED <<awaited, main, slashed, sender, chan, tx, download, unpacked>>

(* No message and nobody left to send one: expect panics.                   *)
RecvFails ==
    /\ receiver = "waiting" /\ chan = 0 /\ ~tx
    /\ receiver' = "panicked" /\ rx' = FALSE
    /\ UNCHANGED <<awaited, main, slashed, sender, chan, tx, download, unpacked>>

DropRx ==
    /\ receiver = "got"
    /\ receiver' = "end" /\ rx' = FALSE /\ chan' = 0
    /\ UNCHANGED <<awaited, main, slashed, sender, tx, download, unpacked>>

-----------------------------------------------------------------------------
(* install_image, after the threads were started.                           *)

(* A faulty variant of JoinSender: its result is kept in a variable.         *)
JoinSenderKeeping ==
    /\ main = "sender" /\ sender = "end"
    /\ main' = "receiver"
    /\ UNCHANGED <<awaited, slashed, sender, receiver, ends, download, unpacked>>

(* An error is not looked at; the result, which may be the future, is
   dropped.                                                                 *)
JoinSender ==
    /\ main = "sender" /\ sender = "end"
    /\ main' = "receiver" /\ tx' = FALSE
    /\ UNCHANGED <<awaited, slashed, sender, receiver, chan, rx, download, unpacked>>

JoinReceiver ==
    /\ main = "receiver" /\ receiver \in {"end", "panicked"}
    /\ main' = IF receiver = "end" THEN "check" ELSE "panic"
    /\ UNCHANGED <<awaited, slashed, sender, receiver, ends, download, unpacked>>

(* What is at the extraction directory, or that nothing is, is dropped; only
   a failing lstat ends the call.                                           *)
Check ==
    /\ main = "check"
    /\ main' \in {"tar", "err"}
    /\ UNCHANGED <<awaited, slashed, sender, receiver, ends, download, unpacked>>

(* tar succeeds on a whole archive only, and may fail on any.               *)
Tar ==
    /\ main = "tar"
    /\ \/ /\ Whole /\ main' = "ok"
          /\ unpacked' = IF tmp = "this" THEN "whole" ELSE "stale"
       \/ /\ main' = "err"
          /\ unpacked' \in {"nothing", IF tmp = "this" THEN "part" ELSE "stale"}
    /\ UNCHANGED <<awaited, slashed, sender, receiver, ends, download>>

(* The process is killed, perhaps while tar is at work; its threads end.    *)
Kill ==
    /\ main \notin Ended
    /\ main' = "panic" /\ sender' = "none" /\ receiver' = "none"
    /\ unpacked' \in {unpacked} \cup
          (IF main = "tar" THEN {IF tmp = "this" THEN "part" ELSE "stale"} ELSE {})
    /\ UNCHANGED <<awaited, slashed, ends, download>>

(* What the network has to do, and what the downloading thread does alone.  *)
Network == Get \/ Chunk
Sender == NotAwaited \/ CreateTmp \/ Send
Receiver == Recv \/ RecvFails \/ DropRx
Main == Directory \/ JoinSender \/ JoinReceiver \/ Check \/ Tar

Next ==
    \/ \E s \in BOOLEAN : Begin(s)
    \/ Network
    \/ Sender
    \/ Receiver
    \/ Main
    \/ Kill

Spec == Init /\ [][Next]_vars

(* The kernel runs every thread.  Client::new() sets no timeout, so that
   nothing obliges a request or a chunk ever to come to an end.             *)
FairSpec == Spec /\ WF_vars(Sender) /\ WF_vars(Receiver) /\ WF_vars(Main)

-----------------------------------------------------------------------------
(* The variables have their types; no more is written than there is.        *)
TypeOK ==
    /\ awaited \in BOOLEAN /\ slashed \in BOOLEAN
    /\ main \in Ended \cup {"directory", "sender", "receiver", "check", "tar"}
    /\ sender \in {"none", "request", "create", "chunk", "send", "end"}
    /\ receiver \in {"none", "waiting", "got", "end", "panicked"}
    /\ chan \in Nat /\ tx \in BOOLEAN /\ rx \in BOOLEAN
    /\ size \in Nat /\ got \in 0..size
    /\ tmp \in {"none", "this", "old whole", "old part"}
    /\ unpacked \in {"nothing", "part", "whole", "stale"}

Outcome ==
    IF main \in {"idle", "ok"} THEN main
    ELSE IF main \in Ended THEN "failed" ELSE "busy"

F == INSTANCE Fetch WITH outcome <- Outcome

(* install_image (libinstall/src/lib.rs:604-649) keeps what Fetch promises:  *)
(* although the sender's result is thrown away, a call whose download did    *)
(* not even begin cannot reach tar, because the message that did not come    *)
(* stops the receiver and with it main, so an archive left by an earlier     *)
(* call is never unpacked and taken for the new image; and a truncated one   *)
(* does not end in Ok.                                                       *)
ImplementsFetch == F!Safety

(* The server is asked for something.                                       *)
Waiting == awaited /\ sender \in {"request", "chunk"}

(* Only a server that never answers keeps a call from ending, in either      *)
(* reading: whoever waits for a message or for a thread of this program is   *)
(* let go in the end (libinstall/src/lib.rs:607, 621-629).                   *)
Returns ==
    \/ <>[]Waiting
    \/ main = "directory" ~> main \in Ended

(* Ok says more than it seems to: the future was awaited, src had no slash   *)
(* in it (no URL with // in it has none), and there was something to        *)
(* download.  Every other call ends in an error or a panic, however an      *)
(* earlier one left the temporary file (libinstall/src/lib.rs:609-629).     *)
OkNeedsDownload ==
    main = "ok" => awaited /\ ~slashed /\ got = size /\ size > 0

(* The receiver leaves after one message, and a sender that finds it gone    *)
(* before its last chunk abandons the download (libinstall/src/lib.rs:624,   *)
(* 694): that call does not end in Ok, though the sender's error is lost.    *)
CutShortFails ==
    sender = "send" /\ ~rx /\ got < size ~> main \in {"err", "panic"}
=============================================================================
