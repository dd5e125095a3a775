------------------------------ MODULE ClientWorker ------------------------------
(***************************************************************************)
(* Worker::run_client() when the client sends (src/worker.cpp): connect,   *)
(* handshake, then a pipeline of InFlight sends, each with its own buffer  *)
(* and context, each sent again when it completes.  The contexts live      *)
(* until the worker is gone, so a context is its index in context_pool_.   *)
(*                                                                         *)
(* The kernel is external.  A zero-copy send posts its result and, later,  *)
(* a notification with the same user_data.  The counters of StatsCollector *)
(* are left out, but for which contexts an error was counted.              *)
(***************************************************************************)
EXTENDS UringEngine

CONSTANTS
    InFlight,       \* config_.in_flight
    ZeroCopy,       \* config_.zero_copy
    MaxNotifs       \* bound: notifications outstanding per context

ASSUME ClientAssumption ==
    /\ InFlight \in Nat \ {0}
    /\ ZeroCopy \in BOOLEAN
    /\ MaxNotifs \in Nat

VARIABLES
    pc,         \* where the worker's thread is
    stop,       \* stop_signal_
    batch,      \* completions of the current reap still to be handled
    sq,         \* SQEs prepared and not submitted
    sending,    \* sends of each context the kernel holds
    notifs,     \* notifications of each context the kernel owes
    cq,         \* completions not yet marked seen
    failed      \* contexts whose send ended in an error

engineVars == <<sq, sending, notifs, cq>>
vars == <<pc, stop, batch, engineVars, failed>>

Ctxs == 1..InFlight

Sock == "sockfd"

Results == {"positive", "zero", "again", "error"}

Cqes == [ctx : Ctxs, res : Results, notif : BOOLEAN]

Sqes == [kind : {"SEND", "SEND_ZC"}, fd : {Sock}, ctx : Ctxs]

Init ==
    /\ pc = "start"
    /\ stop = FALSE
    /\ batch = 0
    /\ sq = <<>>
    /\ sending = [c \in Ctxs |-> 0]
    /\ notifs = [c \in Ctxs |-> 0]
    /\ cq = <<>>
    /\ failed = {}

--------------------------------------------------------------------------------
(* The worker's thread *)

SendKind == IF ZeroCopy THEN "SEND_ZC" ELSE "SEND"

prep_send(q, c) ==
    IF ZeroCopy THEN prep_send_zc(q, Sock, c) ELSE prep_send_standard(q, Sock, c)

\* The socket cannot be connected, or the handshake not sent: run_client returns.
ConnectFails ==
    /\ pc = "start"
    /\ pc' = "done"
    /\ UNCHANGED <<stop, batch, engineVars, failed>>

\* Connected: a send is prepared for each context.
Setup ==
    /\ pc = "start"
    /\ sq' = PrepEach(sq, [c \in Ctxs |-> [kind |-> SendKind, fd |-> Sock, ctx |-> c]])
    /\ pc' = "submit"
    /\ UNCHANGED <<stop, batch, sending, notifs, cq, failed>>

LeaveLoop ==
    /\ pc = "loop"
    /\ stop
    /\ pc' = "exit"
    /\ UNCHANGED <<stop, batch, engineVars, failed>>

ReapNothing ==
    /\ pc = "loop"
    /\ ~stop
    /\ reap_completions(Len(cq), InFlight) = 0
    /\ pc' = "submit_and_wait"
    /\ UNCHANGED <<stop, batch, engineVars, failed>>

ReapSome ==
    /\ pc = "loop"
    /\ ~stop
    /\ reap_completions(Len(cq), InFlight) > 0
    /\ batch' = reap_completions(Len(cq), InFlight)
    /\ pc' = "cqe"
    /\ UNCHANGED <<stop, engineVars, failed>>

BatchEnd ==
    /\ pc = "cqe"
    /\ batch = 0
    /\ pc' = "submit"
    /\ UNCHANGED <<stop, batch, engineVars, failed>>

\* The kernel consumes one SQE inside submit() or submit_and_wait().
SubmitSqe ==
    /\ pc \in {"submit", "submit_and_wait"}
    /\ sq # <<>>
    /\ sending' = [sending EXCEPT ![Head(sq).ctx] = @ + 1]
    /\ sq' = Tail(sq)
    /\ UNCHANGED <<pc, stop, batch, notifs, cq, failed>>

SubmitDone ==
    /\ pc = "submit"
    /\ sq = <<>>
    /\ pc' = "loop"
    /\ UNCHANGED <<stop, batch, engineVars, failed>>

\* Mutant: io_uring_submit_and_wait(), which waits for a completion for ever.
WaitForCompletion ==
    /\ pc = "submit_and_wait"
    /\ sq = <<>>
    /\ pc' = IF cq = <<>> THEN pc ELSE "loop"
    /\ UNCHANGED <<stop, batch, engineVars, failed>>

\* submit_and_wait() returns: a completion is there, or 200ms have passed.
WaitDone ==
    /\ pc = "submit_and_wait"
    /\ sq = <<>>
    /\ pc' = "loop"
    /\ UNCHANGED <<stop, batch, engineVars, failed>>

\* Mutant: a handler that marks its completion seen goes on to the end of the
\* loop's body, where it is marked seen and counted once more.
CqeSeenTwice ==
    /\ cq' = SubSeq(cq, 3, Len(cq))
    /\ batch' = batch - 2

CqeSeen ==
    /\ cq' = Tail(cq)
    /\ batch' = batch - 1

AtCompletion ==
    /\ pc = "cqe"
    /\ batch > 0

\* Mutant: a notification is taken for a completed send.
HandleNotifAsSend ==
    /\ AtCompletion
    /\ Head(cq).notif
    /\ sq' = prep_send(sq, Head(cq).ctx)
    /\ CqeSeen
    /\ UNCHANGED <<pc, stop, sending, notifs, failed>>

\* The kernel no longer reads the buffer: only counted.
HandleNotif ==
    /\ AtCompletion
    /\ Head(cq).notif
    /\ CqeSeen
    /\ UNCHANGED <<pc, stop, sq, sending, notifs, failed>>

\* Mutant: -EAGAIN is taken for the end of the send.
HandleSentDroppingAgain ==
    /\ AtCompletion
    /\ ~Head(cq).notif
    /\ Head(cq).res \in {"positive", "again"}
    /\ sq' = IF stop \/ Head(cq).res = "again" THEN sq
             ELSE prep_send(sq, Head(cq).ctx)
    /\ CqeSeen
    /\ UNCHANGED <<pc, stop, sending, notifs, failed>>

\* The whole buffer is sent again, also after a partial send.
HandleSent ==
    /\ AtCompletion
    /\ ~Head(cq).notif
    /\ Head(cq).res \in {"positive", "again"}
    /\ sq' = IF stop THEN sq ELSE prep_send(sq, Head(cq).ctx)
    /\ CqeSeen
    /\ UNCHANGED <<pc, stop, sending, notifs, failed>>

\* An error, which is counted, or 0 bytes, which is not: either way the context
\* is not used again.
HandleError ==
    /\ AtCompletion
    /\ ~Head(cq).notif
    /\ Head(cq).res \notin {"positive", "again"}
    /\ failed' = failed \cup {Head(cq).ctx}
    /\ CqeSeen
    /\ UNCHANGED <<pc, stop, sq, sending, notifs>>

\* The loop is left: the socket is closed and the ring destroyed.
Exit ==
    /\ pc = "exit"
    /\ sq' = <<>>
    /\ cq' = <<>>
    /\ sending' = [c \in Ctxs |-> 0]
    /\ notifs' = [c \in Ctxs |-> 0]
    /\ pc' = "done"
    /\ UNCHANGED <<stop, batch, failed>>

--------------------------------------------------------------------------------
(* The kernel and the stop signal (external) *)

Post(c, res, notif) ==
    cq' = Append(cq, [ctx |-> c, res |-> res, notif |-> notif])

\* A send without zero copy completes; one with it only where the kernel refuses
\* to start it (-EINVAL, -ENOMEM), and then there is no notification.
KernelSend ==
    \E c \in Ctxs, r \in {"positive", "again", "error"} :
        /\ ZeroCopy => r = "error"
        /\ sending[c] > 0
        /\ sending' = [sending EXCEPT ![c] = @ - 1]
        /\ Post(c, r, FALSE)
        /\ UNCHANGED <<pc, stop, batch, sq, notifs, failed>>

KernelSendZc ==
    \E c \in Ctxs, r \in {"positive", "again", "error"} :
        /\ ZeroCopy
        /\ sending[c] > 0
        /\ notifs[c] < MaxNotifs
        /\ sending' = [sending EXCEPT ![c] = @ - 1]
        /\ notifs' = [notifs EXCEPT ![c] = @ + 1]
        /\ Post(c, r, FALSE)
        /\ UNCHANGED <<pc, stop, batch, sq, failed>>

KernelNotif ==
    \E c \in Ctxs :
        /\ notifs[c] > 0
        /\ notifs' = [notifs EXCEPT ![c] = @ - 1]
        /\ Post(c, "zero", TRUE)
        /\ UNCHANGED <<pc, stop, batch, sq, sending, failed>>

\* main's deadline, or SIGINT or SIGTERM.
StopSignal ==
    /\ ~stop
    /\ stop' = TRUE
    /\ UNCHANGED <<pc, batch, engineVars, failed>>

Terminated ==
    /\ pc = "done"
    /\ UNCHANGED vars

--------------------------------------------------------------------------------

Worker ==
    \/ ConnectFails \/ Setup \/ LeaveLoop \/ ReapNothing \/ ReapSome
    \/ BatchEnd \/ SubmitSqe \/ SubmitDone \/ WaitDone
    \/ HandleNotif \/ HandleSent \/ HandleError \/ Exit

Kernel == KernelSend \/ KernelSendZc \/ KernelNotif

Next == Worker \/ Kernel \/ StopSignal \/ Terminated

Spec == Init /\ [][Next]_vars

\* The thread is scheduled; the kernel owes nothing.
FairSpec == Spec /\ WF_vars(Worker)

--------------------------------------------------------------------------------
(* Properties *)

\* Every variable stays in its domain.
TypeOK ==
    /\ pc \in {"start", "submit", "loop", "cqe", "submit_and_wait", "exit", "done"}
    /\ stop \in BOOLEAN
    /\ batch \in Nat
    /\ sq \in Seq(Sqes)
    /\ sending \in [Ctxs -> Nat]
    /\ notifs \in [Ctxs -> Nat]
    /\ cq \in Seq(Cqes)
    /\ failed \subseteq Ctxs

\* The entries that stand for a send of context c, not for its notifications.
SqAt(c) == Hits(sq, {e \in Sqes : e.ctx = c})
CqAt(c) == Hits(cq, {e \in Cqes : e.ctx = c /\ ~e.notif})

\* Exactly one send of context c is under way: prepared, in the kernel, or
\* completed and not yet handled.
UnderWay(c) ==
    \/ One(SqAt(c)) /\ sending[c] = 0 /\ CqAt(c) = {}
    \/ SqAt(c) = {} /\ sending[c] = 1 /\ CqAt(c) = {}
    \/ SqAt(c) = {} /\ sending[c] = 0 /\ One(CqAt(c))

Retired(c) == SqAt(c) = {} /\ sending[c] = 0 /\ CqAt(c) = {}

\* Every context stays in rotation: until the stop signal, from one handler to
\* the next, it has exactly one send under way unless a send of it failed.
\* No prep_send_*() whose result nobody looks at ever finds the queue full, and
\* no two sends share a buffer.
InRotation ==
    pc \notin {"start", "done"} =>
        \A c \in Ctxs :
            /\ c \in failed => Retired(c)
            /\ c \notin failed => UnderWay(c) \/ (stop /\ Retired(c))

Pipe == INSTANCE Pipeline WITH
    Slots <- Ctxs,
    slot <- IF pc = "start" THEN <<>>
            ELSE [c \in Ctxs |-> IF UnderWay(c) THEN "busy" ELSE "retired"],
    told <- stop,
    fragile <- FALSE

\* The ring, its two queues, the batches and the notifications implement the
\* abstract pipeline: a context leaves only by a failed send or after the stop
\* signal, none comes back, and once told to stop the worker winds down.
ImplementsPipeline == Pipe!LiveSpec

\* Once the stop signal is set the worker returns, also when the peer takes no
\* more data and no completion ever comes.
Stops == stop ~> pc = "done"
================================================================================
