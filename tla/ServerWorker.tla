------------------------------ MODULE ServerWorker ------------------------------
(***************************************************************************)
(* Worker::run_server() for TCP (src/worker.cpp): one server thread, its   *)
(* ring, its sessions, and what surrounds it: the kernel that completes    *)
(* its operations, the peers, and the stop signal.                         *)
(*                                                                         *)
(* A connection accepted from a peer is an element of Conns and keeps that *)
(* identity for ever; a descriptor number (Fds) is reused after close().   *)
(* The user_data of an operation is the address (Addrs) of an IOContext.   *)
(* A session owns its contexts and erasing it frees them, whatever is      *)
(* still in flight; a freed address may be allocated again.  Reading a     *)
(* freed context is undefined behaviour, modelled by View: the reader sees *)
(* the old contents, or bytes that name no operation type; once the        *)
(* address is allocated again it sees the new owner's contents.            *)
(*                                                                         *)
(* The kernel is external.  Its completions are those the handlers         *)
(* distinguish.  The counters of StatsCollector, which the worker writes   *)
(* and never reads, are left out here.                                     *)
(***************************************************************************)
EXTENDS UringEngine, FiniteSets, Functions

CONSTANTS
    Conns,          \* connections that peers may open, each once
    Fds,            \* descriptor numbers accept() may return
    Addrs,          \* heap addresses of IOContexts
    Bufs,           \* buffers of the provided-buffer ring
    InFlight,       \* config_.in_flight
    UseMultishot,   \* use_multishot: configured, and the ring was set up
    ZeroCopy,       \* config_.zero_copy
    Directions,     \* what the handshakes of the peers may ask for
    MaxNotifs,      \* bound: zero-copy notifications outstanding per context
    None,           \* no connection, no descriptor, no buffer
    AcceptCtx       \* the address of accept_ctx

ASSUME InFlightAssumption == InFlight \in Nat \ {0}

ASSUME ConstantsAssumption ==
    /\ UseMultishot \in BOOLEAN
    /\ ZeroCopy \in BOOLEAN
    /\ Directions \subseteq {"forward", "reverse"}
    /\ MaxNotifs \in Nat
    /\ None \notin Conns /\ None \notin Fds /\ None \notin Bufs
    /\ AcceptCtx \notin Addrs

\* Allocation never fails.
ASSUME AddrsAssumption ==
    /\ IsFiniteSet(Fds) /\ IsFiniteSet(Addrs)
    /\ Cardinality(Addrs) >= Cardinality(Fds) * InFlight

VARIABLES
    pc,         \* where the worker's thread is
    stop,       \* stop_signal_
    batch,      \* completions of the current reap still to be handled
    sq,         \* SQEs prepared and not submitted
    kernel,     \* how many instances of each operation the kernel holds
    cq,         \* completions not yet marked seen
    bufs,       \* buffers the kernel may select for a multishot receive
    fdTable,    \* the connection each descriptor number refers to
    sessions,   \* sessions: descriptor number -> the session's connection
    reverse,    \* is_reverse of a connection's session
    overdue,    \* steady_clock::now() >= deadline of that session
    ctx,        \* the contents last written at each address
    live,       \* addresses of contexts that are allocated
    backlog,    \* connections established and not yet accepted
    peer,       \* the other end of each connection
    hs          \* the handshake the peer has sent

engineVars == <<sq, kernel, cq, bufs>>
sessionVars == <<fdTable, sessions, reverse, overdue, ctx, live>>
peerVars == <<backlog, peer, hs>>
vars == <<pc, stop, batch, engineVars, sessionVars, peerVars>>

--------------------------------------------------------------------------------
(* Values *)

SendKind == IF ZeroCopy THEN "SEND_ZC" ELSE "SEND"

IOKinds == {"SEND", "SEND_ZC", "NOTIF", "RECV", "RECV_MULTISHOT"}

\* An IOContext; conn is the connection of the session that owns it.
Context == [type : {"SEND", "RECV"}, fd : Fds, conn : Conns]

\* Bytes that match no IOContext::Type the loop handles.
Garbage == [type |-> "NONE", fd |-> None, conn |-> None]

AcceptSqe == [kind |-> "ACCEPT", fd |-> None, ctx |-> AcceptCtx]

AcceptOp == [kind |-> "ACCEPT", conn |-> None, ctx |-> AcceptCtx]

\* Operations the kernel may hold: conn is the open file the operation pins.
Ops == {AcceptOp} \cup [kind : IOKinds, conn : Conns, ctx : Addrs]

Results == {"positive", "zero", "again", "nobufs", "error"}

\* A completion.  conn is the connection it came from, fd the descriptor an
\* accept returns, buf the provided buffer it carries.
Cqe(a, c, res) == [ctx |-> a, conn |-> c, fd |-> None, res |-> res,
                   more |-> FALSE, notif |-> FALSE, buf |-> None]

Cqes == [ctx : Addrs \cup {AcceptCtx}, conn : Conns \cup {None},
         fd : Fds \cup {None}, res : Results, more : BOOLEAN,
         notif : BOOLEAN, buf : Bufs \cup {None}]

Sqes == {AcceptSqe} \cup [kind : IOKinds, fd : Fds, ctx : Addrs]

PcValues == {"start", "loop", "reap", "cqe", "handshake", "submit",
             "submit_and_wait", "exit", "done"}

Init ==
    /\ pc = "start"
    /\ stop = FALSE
    /\ batch = 0
    /\ sq = <<>>
    /\ kernel = [o \in Ops |-> 0]
    /\ cq = <<>>
    /\ bufs = Bufs
    /\ fdTable = [f \in Fds |-> None]
    /\ sessions = [f \in Fds |-> None]
    /\ reverse = [c \in Conns |-> FALSE]
    /\ overdue = [c \in Conns |-> TRUE]
    /\ ctx = [a \in Addrs |-> Garbage]
    /\ live = {}
    /\ backlog = {}
    /\ peer = [c \in Conns |-> "idle"]
    /\ hs = [c \in Conns |-> "none"]

--------------------------------------------------------------------------------
(* Helpers of the handlers *)

\* What reading the IOContext at address a may yield.
View(a) == IF a \in live THEN {ctx[a]} ELSE {ctx[a], Garbage}

\* Mutant: the sessions are erased and their descriptors not closed.
EraseSessionsLeaking(S) ==
    /\ sessions' = [f \in Fds |-> IF f \in S THEN None ELSE sessions[f]]
    /\ live' = {a \in live : ctx[a].conn \notin {sessions[f] : f \in S}}
    /\ UNCHANGED <<fdTable, reverse, overdue, ctx>>

\* close() of the descriptors in S and erase() of their sessions, with the
\* contexts those sessions own.
EraseSessions(S) ==
    /\ sessions' = [f \in Fds |-> IF f \in S THEN None ELSE sessions[f]]
    /\ fdTable' = [f \in Fds |-> IF f \in S THEN None ELSE fdTable[f]]
    /\ live' = {a \in live : ctx[a].conn \notin {sessions[f] : f \in S}}
    /\ UNCHANGED <<reverse, overdue, ctx>>

\* sessions.find(fd), and if it is there close() and erase() it.
CloseIfPresent(fd) ==
    EraseSessions({f \in Fds : f = fd /\ sessions[f] # None})

\* Mutant: a handler that marks its completion seen goes on to the end of the
\* loop's body, where it is marked seen and counted once more.
CqeSeenTwice ==
    /\ cq' = SubSeq(cq, 3, Len(cq))
    /\ batch' = batch - 2

\* engine.cqe_seen() at the end of a handler.
CqeSeen ==
    /\ cq' = Tail(cq)
    /\ batch' = batch - 1

prep_send(q, fd, a) ==
    IF ZeroCopy THEN prep_send_zc(q, fd, a) ELSE prep_send_standard(q, fd, a)

--------------------------------------------------------------------------------
(* The worker's thread *)

\* The listen socket cannot be created: run_server returns.
SetupFail ==
    /\ pc = "start"
    /\ pc' = "done"
    /\ UNCHANGED <<stop, batch, engineVars, sessionVars, peerVars>>

Setup ==
    /\ pc = "start"
    /\ sq' = prep_accept(sq, None, AcceptCtx)
    /\ pc' = "submit"
    /\ UNCHANGED <<stop, batch, kernel, cq, bufs, sessionVars, peerVars>>

\* The loop's condition fails.
LeaveLoop ==
    /\ pc = "loop"
    /\ stop
    /\ pc' = "exit"
    /\ UNCHANGED <<stop, batch, engineVars, sessionVars, peerVars>>

\* Mutant: the comparison with the deadline is the wrong way round.
ExpiredInverted == {f \in Fds : /\ sessions[f] # None
                                /\ reverse[sessions[f]]
                                /\ ~overdue[sessions[f]]}

\* Reverse sessions whose deadline has passed.
Expired == {f \in Fds : /\ sessions[f] # None
                        /\ reverse[sessions[f]]
                        /\ overdue[sessions[f]]}

\* The condition holds: close the reverse sessions that are past their deadline.
Sweep ==
    /\ pc = "loop"
    /\ ~stop
    /\ EraseSessions(Expired)
    /\ pc' = "reap"
    /\ UNCHANGED <<stop, batch, engineVars, peerVars>>

ReapNothing ==
    /\ pc = "reap"
    /\ reap_completions(Len(cq), InFlight) = 0
    /\ pc' = "submit_and_wait"
    /\ UNCHANGED <<stop, batch, engineVars, sessionVars, peerVars>>

ReapSome ==
    /\ pc = "reap"
    /\ reap_completions(Len(cq), InFlight) > 0
    /\ batch' = reap_completions(Len(cq), InFlight)
    /\ pc' = "cqe"
    /\ UNCHANGED <<stop, engineVars, sessionVars, peerVars>>

BatchEnd ==
    /\ pc = "cqe"
    /\ batch = 0
    /\ pc' = "submit"
    /\ UNCHANGED <<stop, batch, engineVars, sessionVars, peerVars>>

\* The kernel consumes one SQE inside submit() or submit_and_wait().  The
\* descriptor number is resolved here: it names whatever connection has it
\* now, and if none does the operation completes at once with -EBADF.
SubmitSqe ==
    /\ pc \in {"submit", "submit_and_wait"}
    /\ sq # <<>>
    /\ LET e == Head(sq)
           c == IF e = AcceptSqe THEN None ELSE fdTable[e.fd]
           o == [kind |-> e.kind, conn |-> c, ctx |-> e.ctx]
       IN  IF o \in Ops
           THEN /\ kernel' = [kernel EXCEPT ![o] = @ + 1]
                /\ cq' = cq
           ELSE /\ cq' = Append(cq, Cqe(e.ctx, None, "error"))
                /\ kernel' = kernel
    /\ sq' = Tail(sq)
    /\ UNCHANGED <<pc, stop, batch, bufs, sessionVars, peerVars>>

SubmitDone ==
    /\ pc = "submit"
    /\ sq = <<>>
    /\ pc' = "loop"
    /\ UNCHANGED <<stop, batch, engineVars, sessionVars, peerVars>>

\* Mutant: io_uring_submit_and_wait(), which waits for a completion for ever.
WaitForCompletion ==
    /\ pc = "submit_and_wait"
    /\ sq = <<>>
    /\ pc' = IF cq = <<>> THEN pc ELSE "loop"
    /\ UNCHANGED <<stop, batch, engineVars, sessionVars, peerVars>>

\* submit_and_wait() returns: a completion is there, or 200ms have passed.
WaitDone ==
    /\ pc = "submit_and_wait"
    /\ sq = <<>>
    /\ pc' = "loop"
    /\ UNCHANGED <<stop, batch, engineVars, sessionVars, peerVars>>

\* The head of the batch is a completion of the accept.
AtAccept(where) ==
    /\ pc = where
    /\ batch > 0
    /\ Head(cq).ctx = AcceptCtx

\* Mutant: the accept is taken for a multishot one.
RearmAcceptNever(q) == q

RearmAccept(q) == prep_accept(q, None, AcceptCtx)

\* Mutant: a failed accept() is only counted.
HandleAcceptErrorNoRearm ==
    /\ AtAccept("cqe")
    /\ Head(cq).res # "positive"
    /\ CqeSeen
    /\ UNCHANGED <<pc, stop, sq, kernel, bufs, sessionVars, peerVars>>

\* accept() failed: re-arm.
HandleAcceptError ==
    /\ AtAccept("cqe")
    /\ Head(cq).res # "positive"
    /\ sq' = RearmAccept(sq)
    /\ CqeSeen
    /\ UNCHANGED <<pc, stop, kernel, bufs, sessionVars, peerVars>>

\* A connection: the worker enters recv_handshake() on a blocking socket.
HandleAccept ==
    /\ AtAccept("cqe")
    /\ Head(cq).res = "positive"
    /\ pc' = "handshake"
    /\ UNCHANGED <<stop, batch, engineVars, sessionVars, peerVars>>

\* Mutant: the handler ends after close(), before it re-arms the accept.
HandshakeFailedNoRearm ==
    /\ AtAccept("handshake")
    /\ peer[Head(cq).conn] = "closed"
    /\ fdTable' = [fdTable EXCEPT ![Head(cq).fd] = None]
    /\ CqeSeen
    /\ pc' = "cqe"
    /\ UNCHANGED <<stop, sq, kernel, bufs, sessions, reverse, overdue, ctx, live,
                   peerVars>>

\* Mutant: the descriptor is not closed.
HandshakeFailedLeaking ==
    /\ AtAccept("handshake")
    /\ peer[Head(cq).conn] = "closed"
    /\ sq' = RearmAccept(sq)
    /\ CqeSeen
    /\ pc' = "cqe"
    /\ UNCHANGED <<stop, kernel, bufs, sessionVars, peerVars>>

\* recv_handshake() fails: the peer closed or reset the connection.
HandshakeFailed ==
    /\ AtAccept("handshake")
    /\ peer[Head(cq).conn] = "closed"
    /\ fdTable' = [fdTable EXCEPT ![Head(cq).fd] = None]
    /\ sq' = RearmAccept(sq)
    /\ CqeSeen
    /\ pc' = "cqe"
    /\ UNCHANGED <<stop, kernel, bufs, sessions, reverse, overdue, ctx, live,
                   peerVars>>

\* A session for the accepted connection with one context of the given type
\* for each of n operations of the given kind, and then the re-armed accept.
OpenSession(n, type, kind, isReverse) ==
    LET c == Head(cq).conn
        fd == Head(cq).fd
    IN  /\ \E new \in Injection(1..n, Addrs \ live) :
              /\ ctx' = [a \in Addrs |->
                            IF a \in {new[i] : i \in 1..n}
                            THEN [type |-> type, fd |-> fd, conn |-> c]
                            ELSE ctx[a]]
              /\ live' = live \cup {new[i] : i \in 1..n}
              /\ sq' = RearmAccept(PrepEach(sq,
                          [i \in 1..n |->
                              [kind |-> kind, fd |-> fd, ctx |-> new[i]]]))
        /\ sessions' = [sessions EXCEPT ![fd] = c]
        /\ reverse' = [reverse EXCEPT ![c] = isReverse]
        /\ overdue' = [overdue EXCEPT ![c] = ~isReverse]
        /\ CqeSeen
        /\ pc' = "cqe"
        /\ UNCHANGED <<stop, kernel, bufs, fdTable, peerVars>>

OpenReverse ==
    /\ AtAccept("handshake")
    /\ hs[Head(cq).conn] = "reverse"
    /\ OpenSession(InFlight, "SEND", SendKind, TRUE)

OpenMultishot ==
    /\ AtAccept("handshake")
    /\ hs[Head(cq).conn] = "forward"
    /\ UseMultishot
    /\ OpenSession(1, "RECV", "RECV_MULTISHOT", FALSE)

OpenSingleShot ==
    /\ AtAccept("handshake")
    /\ hs[Head(cq).conn] = "forward"
    /\ ~UseMultishot
    /\ OpenSession(InFlight, "RECV", "RECV", FALSE)

\* The head of the batch is a completion of a connection, and v is what the
\* worker reads at the address it carries.
AtCompletion(v, type) ==
    /\ pc = "cqe"
    /\ batch > 0
    /\ Head(cq).ctx # AcceptCtx
    /\ v \in View(Head(cq).ctx)
    /\ v.type = type

keep_sending(fd) ==
    /\ sessions[fd] # None
    /\ ~overdue[sessions[fd]]
    /\ ~stop

\* A send completed and is sent again while the session should keep sending.
HandleSend ==
    \E v \in Context :
        /\ AtCompletion(v, "SEND")
        /\ sq' = IF /\ ~Head(cq).notif
                    /\ Head(cq).res \in {"positive", "again"}
                    /\ keep_sending(v.fd)
                 THEN prep_send(sq, v.fd, Head(cq).ctx)
                 ELSE sq
        /\ CqeSeen
        /\ UNCHANGED <<pc, stop, kernel, bufs, sessionVars, peerVars>>

\* The provided buffer a completion with data carries goes back to the ring.
return_recv_buffer(cqe) ==
    bufs' = IF cqe.res = "positive" /\ cqe.buf # None
            THEN bufs \cup {cqe.buf}
            ELSE bufs

\* Mutant: the buffer is returned only with the last completion.
HandleRecvMoreKeepingBuffer ==
    \E v \in Context :
        /\ AtCompletion(v, "RECV")
        /\ UseMultishot
        /\ Head(cq).more
        /\ CqeSeen
        /\ UNCHANGED <<pc, stop, sq, kernel, bufs, sessionVars, peerVars>>

\* A multishot receive reports data and stays armed.
HandleRecvMore ==
    \E v \in Context :
        /\ AtCompletion(v, "RECV")
        /\ UseMultishot
        /\ Head(cq).more
        /\ return_recv_buffer(Head(cq))
        /\ CqeSeen
        /\ UNCHANGED <<pc, stop, sq, kernel, sessionVars, peerVars>>

\* Mutant: -ENOBUFS is only counted.
HandleRecvNoBufsNoRearm ==
    \E v \in Context :
        /\ AtCompletion(v, "RECV")
        /\ UseMultishot
        /\ ~Head(cq).more
        /\ Head(cq).res = "nobufs"
        /\ CqeSeen
        /\ UNCHANGED <<pc, stop, sq, kernel, bufs, sessionVars, peerVars>>

\* It terminated because the buffer ring was empty: re-arm.
HandleRecvNoBufs ==
    \E v \in Context :
        /\ AtCompletion(v, "RECV")
        /\ UseMultishot
        /\ ~Head(cq).more
        /\ Head(cq).res = "nobufs"
        /\ sq' = prep_recv_multishot(sq, v.fd, Head(cq).ctx)
        /\ CqeSeen
        /\ UNCHANGED <<pc, stop, kernel, bufs, sessionVars, peerVars>>

\* Mutant: IORING_CQE_F_MORE is not looked at.
HandleRecvEndWithMore ==
    \E v \in Context :
        /\ AtCompletion(v, "RECV")
        /\ UseMultishot
        /\ Head(cq).res # "nobufs"
        /\ return_recv_buffer(Head(cq))
        /\ CloseIfPresent(v.fd)
        /\ CqeSeen
        /\ UNCHANGED <<pc, stop, sq, kernel, peerVars>>

\* Mutant: -ENOBUFS ends the session like any other error.
HandleRecvEndNoBufs ==
    \E v \in Context :
        /\ AtCompletion(v, "RECV")
        /\ UseMultishot
        /\ ~Head(cq).more
        /\ return_recv_buffer(Head(cq))
        /\ CloseIfPresent(v.fd)
        /\ CqeSeen
        /\ UNCHANGED <<pc, stop, sq, kernel, peerVars>>

\* It terminated for any other reason: close the session.
HandleRecvEnd ==
    \E v \in Context :
        /\ AtCompletion(v, "RECV")
        /\ UseMultishot
        /\ ~Head(cq).more
        /\ Head(cq).res # "nobufs"
        /\ return_recv_buffer(Head(cq))
        /\ CloseIfPresent(v.fd)
        /\ CqeSeen
        /\ UNCHANGED <<pc, stop, sq, kernel, peerVars>>

\* A single-shot receive got data, or nothing yet: receive again.
HandleRecvAgain ==
    \E v \in Context :
        /\ AtCompletion(v, "RECV")
        /\ ~UseMultishot
        /\ Head(cq).res \in {"positive", "again"}
        /\ sq' = prep_recv(sq, v.fd, Head(cq).ctx)
        /\ CqeSeen
        /\ UNCHANGED <<pc, stop, kernel, bufs, sessionVars, peerVars>>

\* A single-shot receive saw EOF or an error: close the session.
HandleRecvClose ==
    \E v \in Context :
        /\ AtCompletion(v, "RECV")
        /\ ~UseMultishot
        /\ Head(cq).res \notin {"positive", "again"}
        /\ CloseIfPresent(v.fd)
        /\ CqeSeen
        /\ UNCHANGED <<pc, stop, sq, kernel, bufs, peerVars>>

\* A freed context that matches no type: the completion is only marked seen.
HandleUnknown ==
    /\ AtCompletion(Garbage, "NONE")
    /\ CqeSeen
    /\ UNCHANGED <<pc, stop, sq, kernel, bufs, sessionVars, peerVars>>

\* The loop is left: every session is closed, and the ring is destroyed.
Exit ==
    /\ pc = "exit"
    /\ EraseSessions({f \in Fds : sessions[f] # None})
    /\ sq' = <<>>
    /\ cq' = <<>>
    /\ kernel' = [o \in Ops |-> 0]
    /\ pc' = "done"
    /\ UNCHANGED <<stop, batch, bufs, peerVars>>

--------------------------------------------------------------------------------
(* The kernel (external) *)

Post(cqe) == cq' = Append(cq, cqe)

\* An operation completes with its last completion.
Finish(o) == kernel' = [kernel EXCEPT ![o] = @ - 1]

KernelAccept ==
    \E c \in backlog, f \in Fds :
        /\ kernel[AcceptOp] > 0
        /\ fdTable[f] = None
        /\ fdTable' = [fdTable EXCEPT ![f] = c]
        /\ backlog' = backlog \ {c}
        /\ Post([Cqe(AcceptCtx, c, "positive") EXCEPT !.fd = f])
        /\ Finish(AcceptOp)
        /\ UNCHANGED <<pc, stop, batch, sq, bufs, sessions, reverse, overdue,
                       ctx, live, peer, hs>>

\* -EMFILE, -EAGAIN, -ECONNABORTED, ...
KernelAcceptError ==
    /\ kernel[AcceptOp] > 0
    /\ Post(Cqe(AcceptCtx, None, "error"))
    /\ Finish(AcceptOp)
    /\ UNCHANGED <<pc, stop, batch, sq, bufs, sessionVars, peerVars>>

\* The stream of c may have ended.
Gone(c) == peer[c] = "closed"

\* How an operation may end.
Outcomes(kind, c) ==
    CASE kind \in {"SEND", "SEND_ZC"} ->
            {"positive", "again"} \cup (IF Gone(c) THEN {"error"} ELSE {})
      [] kind = "RECV" ->
            {"positive", "again"} \cup (IF Gone(c) THEN {"zero", "error"} ELSE {})
      [] kind = "RECV_MULTISHOT" ->
            (IF bufs = {} THEN {"nobufs"} ELSE {})
                \cup (IF Gone(c) THEN {"zero", "error"} ELSE {})

KernelComplete ==
    \E k \in {"SEND", "RECV", "RECV_MULTISHOT"}, c \in Conns, a \in Addrs :
        LET o == [kind |-> k, conn |-> c, ctx |-> a]
        IN  /\ kernel[o] > 0
            /\ \E r \in Outcomes(k, c) : Post(Cqe(a, c, r))
            /\ Finish(o)
            /\ UNCHANGED <<pc, stop, batch, sq, bufs, sessionVars, peerVars>>

\* A zero-copy send completes in two parts: the result now, and a notification
\* once the buffer is no longer read.
KernelSendZc ==
    \E c \in Conns, a \in Addrs :
        LET o == [kind |-> "SEND_ZC", conn |-> c, ctx |-> a]
            n == [kind |-> "NOTIF", conn |-> c, ctx |-> a]
        IN  /\ kernel[o] > 0
            /\ kernel[n] < MaxNotifs
            /\ \E r \in Outcomes("SEND_ZC", c) :
                  Post([Cqe(a, c, r) EXCEPT !.more = TRUE])
            /\ kernel' = [kernel EXCEPT ![o] = @ - 1, ![n] = @ + 1]
            /\ UNCHANGED <<pc, stop, batch, sq, bufs, sessionVars, peerVars>>

KernelNotif ==
    \E c \in Conns, a \in Addrs :
        LET n == [kind |-> "NOTIF", conn |-> c, ctx |-> a]
        IN  /\ kernel[n] > 0
            /\ Post([Cqe(a, c, "zero") EXCEPT !.notif = TRUE])
            /\ Finish(n)
            /\ UNCHANGED <<pc, stop, batch, sq, bufs, sessionVars, peerVars>>

\* Data arrived: one completion more of an operation that stays armed.
KernelRecvMore ==
    \E c \in Conns, a \in Addrs, b \in bufs :
        /\ kernel[[kind |-> "RECV_MULTISHOT", conn |-> c, ctx |-> a]] > 0
        /\ Post([Cqe(a, c, "positive") EXCEPT !.more = TRUE, !.buf = b])
        /\ bufs' = bufs \ {b}
        /\ UNCHANGED <<pc, stop, batch, sq, kernel, sessionVars, peerVars>>

--------------------------------------------------------------------------------
(* Peers, time and the stop signal (external) *)

PeerConnect ==
    \E c \in Conns :
        /\ peer[c] = "idle"
        /\ peer' = [peer EXCEPT ![c] = "open"]
        /\ backlog' = backlog \cup {c}
        /\ UNCHANGED <<pc, stop, batch, engineVars, sessionVars, hs>>

PeerHandshake ==
    \E c \in Conns, d \in Directions :
        /\ peer[c] = "open"
        /\ hs[c] = "none"
        /\ hs' = [hs EXCEPT ![c] = d]
        /\ UNCHANGED <<pc, stop, batch, engineVars, sessionVars, backlog, peer>>

PeerClose ==
    \E c \in Conns :
        /\ peer[c] = "open"
        /\ peer' = [peer EXCEPT ![c] = "closed"]
        /\ UNCHANGED <<pc, stop, batch, engineVars, sessionVars, backlog, hs>>

DeadlinePasses ==
    \E c \in Conns :
        /\ reverse[c]
        /\ ~overdue[c]
        /\ overdue' = [overdue EXCEPT ![c] = TRUE]
        /\ UNCHANGED <<pc, stop, batch, engineVars, fdTable, sessions, reverse,
                       ctx, live, peerVars>>

StopSignal ==
    /\ ~stop
    /\ stop' = TRUE
    /\ UNCHANGED <<pc, batch, engineVars, sessionVars, peerVars>>

Terminated ==
    /\ pc = "done"
    /\ UNCHANGED vars

--------------------------------------------------------------------------------

Open == HandshakeFailed \/ OpenReverse \/ OpenMultishot \/ OpenSingleShot

Handle ==
    \/ HandleAcceptError \/ HandleAccept \/ HandleSend
    \/ HandleRecvMore \/ HandleRecvNoBufs \/ HandleRecvEnd
    \/ HandleRecvAgain \/ HandleRecvClose \/ HandleUnknown

Loop ==
    \/ SetupFail \/ Setup \/ LeaveLoop \/ Sweep \/ ReapNothing \/ ReapSome
    \/ BatchEnd \/ SubmitSqe \/ SubmitDone \/ WaitDone \/ Exit

Worker == Loop \/ Handle \/ Open

Kernel ==
    \/ KernelAccept \/ KernelAcceptError \/ KernelComplete
    \/ KernelSendZc \/ KernelNotif \/ KernelRecvMore

Environment ==
    \/ PeerConnect \/ PeerHandshake \/ PeerClose
    \/ DeadlinePasses \/ StopSignal

Next == Worker \/ Kernel \/ Environment \/ Terminated

Spec == Init /\ [][Next]_vars

Answered(c) == hs[c] # "none" \/ peer[c] = "closed"

PeerAnswers ==
    /\ PeerHandshake \/ PeerClose
    /\ \E c \in Conns : ~Answered(c) /\ Answered(c)'

\* The thread is scheduled; a peer that connected ends its handshake, by sending
\* it or by closing; time passes; and a pending accept that can take a
\* connection, again and again, takes it once.
FairSpec ==
    /\ Spec
    /\ WF_vars(Worker)
    /\ WF_vars(PeerAnswers)
    /\ WF_vars(DeadlinePasses)
    /\ SF_vars(KernelAccept)

--------------------------------------------------------------------------------
(* Properties *)

\* Every variable stays in its domain.
TypeOK ==
    /\ pc \in PcValues
    /\ stop \in BOOLEAN
    /\ batch \in Nat
    /\ sq \in Seq(Sqes)
    /\ kernel \in [Ops -> Nat]
    /\ cq \in Seq(Cqes)
    /\ bufs \subseteq Bufs
    /\ fdTable \in [Fds -> Conns \cup {None}]
    /\ sessions \in [Fds -> Conns \cup {None}]
    /\ reverse \in [Conns -> BOOLEAN]
    /\ overdue \in [Conns -> BOOLEAN]
    /\ ctx \in [Addrs -> Context \cup {Garbage}]
    /\ live \subseteq Addrs
    /\ backlog \subseteq Conns
    /\ peer \in [Conns -> {"idle", "open", "closed"}]
    /\ hs \in [Conns -> {"none", "forward", "reverse"}]

\* Entries of a queue that carry address a.
At(q, a) == {i \in DOMAIN q : q[i].ctx = a}

NoneAt(q, a) == \A i \in DOMAIN q : q[i].ctx # a

OneAt(q, a) == \E i \in At(q, a) : \A j \in At(q, a) : j = i

\* From its setup to its exit the server has exactly one accept: prepared, in
\* the kernel, or completed and not yet handled.  Each accept completion is
\* answered by one prep_accept() whatever became of the connection, and that
\* call, whose result nobody looks at, always finds room in the queue.
AcceptArmed ==
    pc \notin {"start", "done"} =>
        \/ kernel[AcceptOp] = 1 /\ NoneAt(sq, AcceptCtx) /\ NoneAt(cq, AcceptCtx)
        \/ kernel[AcceptOp] = 0 /\ OneAt(sq, AcceptCtx) /\ NoneAt(cq, AcceptCtx)
        \/ kernel[AcceptOp] = 0 /\ NoneAt(sq, AcceptCtx) /\ OneAt(cq, AcceptCtx)

\* The completion of an accept that returned descriptor f is still unhandled.
Arriving(f) == \E i \in DOMAIN cq : cq[i].fd = f

\* Every open descriptor has exactly one owner while the worker runs: the
\* completion that brings it, or its session.  So none leaks, none is closed
\* twice, and sessions[client_fd] never replaces a session.
FdsOwned ==
    pc # "done" =>
        \A f \in Fds :
            /\ Arriving(f) => sessions[f] = None /\ fdTable[f] # None
            /\ ~Arriving(f) => sessions[f] = fdTable[f]

\* The contexts of connection c.
ContextsOf(c) == {a \in live : ctx[a].conn = c}

\* The ways in which an operation that will still post a last completion, or
\* has posted it, refers to context a.
Prepared(a) == \E i \in DOMAIN sq : sq[i].ctx = a
InKernel(a) == \E o \in Ops : o.ctx = a /\ kernel[o] > 0
Ended(a) == \E i \in DOMAIN cq : cq[i].ctx = a /\ ~cq[i].more

\* Nothing pending refers to a context that was freed: not an SQE, not an
\* operation in the kernel, not a completion.  Otherwise the worker would read
\* freed memory when it casts user_data back to an IOContext.
NoStaleContext ==
    \A a \in Addrs \ live :
        /\ ~Prepared(a)
        /\ ~InKernel(a)
        /\ NoneAt(cq, a)

\* Every session that receives has an operation that will report its end:
\* prepared, in the kernel, or with its last completion unhandled.  A session
\* without one would hold its descriptor for ever.
SessionsWatched ==
    \A f \in Fds :
        sessions[f] # None /\ ~reverse[sessions[f]] =>
            \E a \in ContextsOf(sessions[f]) :
                Prepared(a) \/ InKernel(a) \/ Ended(a)

\* Each provided buffer is with the kernel or in exactly one completion still
\* to be handled: none is lost, none is handed back twice.
BuffersConserved ==
    pc # "done" =>
        \A b \in Bufs :
            LET holders == {i \in DOMAIN cq : cq[i].buf = b}
            IN  IF b \in bufs THEN holders = {}
                ELSE \E i \in holders : \A j \in holders : j = i

\* A session is closed by the end of its own stream, by its own deadline, or
\* by the worker's exit.
ClosedForCause ==
    [][\A f \in Fds :
          sessions[f] # None /\ sessions'[f] # sessions[f] =>
              \/ pc = "exit"
              \/ pc = "loop" /\ f \in Expired
              \/ pc = "cqe" /\ Head(cq).conn = sessions[f]
                            /\ Head(cq).res \in {"zero", "error"}]_vars

\* A send completion leads to a send only on the session it belongs to, while
\* that session is open and before its deadline.
SendGated ==
    [][\A f \in Fds :
          (pc = "cqe" /\ sq' # sq /\ sq'[Len(sq')].kind = SendKind
                      /\ sq'[Len(sq')].fd = f) =>
              /\ sessions[f] = Head(cq).conn
              /\ sessions[f] # None
              /\ ~overdue[sessions[f]]]_vars

\* A reverse session that is past its deadline is closed.
ReverseEnds ==
    \A f \in Fds, c \in Conns :
        sessions[f] = c /\ reverse[c] /\ overdue[c] ~> sessions[f] # c

\* A connection that reached the listen queue is accepted unless the worker
\* returns first, also when it had to wait for a descriptor to become free.
Accepted == \A c \in Conns : c \in backlog ~> c \notin backlog \/ pc = "done"

\* Once the stop signal is set the worker returns.
Stops == stop ~> pc = "done"
================================================================================
