------------------------------ MODULE ReceiveWorker ------------------------------
(***************************************************************************)
(* The two workers of src/worker.cpp that receive on one socket, without   *)
(* sessions: run_client_reverse_recv() (the client of a reverse TCP        *)
(* connection) and run_server() over UDP.  Each has one multishot receive  *)
(* on a ring of provided buffers, or a pipeline of InFlight receives, each *)
(* with a buffer of its own.  Startup brings a thread to one of the two;   *)
(* the loops of the other workers are one step here (Elsewhere).           *)
(*                                                                         *)
(* A context is its index; the multishot receive has context 1.  The       *)
(* kernel is external.  A datagram of no bytes completes a receive with 0. *)
(* With CqEntries completions waiting, the kernel ends a multishot receive *)
(* with its last data (no IORING_CQE_F_MORE).                              *)
(***************************************************************************)
EXTENDS UringEngine, Startup

CONSTANTS
    InFlight,       \* config_.in_flight
    BufCount,       \* next_pow2(config_.in_flight), by setup_multishot_recv()
    CqEntries       \* completions the ring holds: at least twice the -q given

ASSUME ReceiveAssumption ==
    /\ InFlight \in Nat \ {0}
    /\ \E e \in 0..InFlight : BufCount = 2^e /\ 2^e >= InFlight /\ 2^e < 2 * InFlight
    /\ CqEntries \in Nat /\ CqEntries >= BufCount

VARIABLES
    stop,           \* stop_signal_
    peer_closed,
    batch,          \* completions of the current reap still to be handled
    sq,             \* SQEs prepared and not submitted
    armed,          \* receives of each context the kernel holds
    cq,             \* completions not yet marked seen
    ring,           \* provided buffers the kernel may fill
    stream,         \* TCP: "open", "ended" once all the peer sent was received
    failed,         \* contexts whose receive ended for good
    freed,          \* the memory receives write to was freed
    corrupted       \* the kernel wrote to freed memory

engineVars == <<sq, armed, cq, ring>>
memory == <<freed, corrupted>>
receiveVars == <<stop, peer_closed, batch, engineVars, stream, failed, memory>>
vars == <<pc, startVars, receiveVars>>

\* Which of the four receivers this is: the protocol, and use_multishot.
cfg == [udp |-> config.udp, multishot |-> engine.recv_buf_ring]

Receiving == role \in {"client_reverse", "server_udp"}

Ctxs == 1..InFlight

\* Mutant: the count of buffers is rounded up to the next power of two twice.
BufsDoubled == 1..(2 * BufCount)

Bufs == 1..BufCount

Sock == "sockfd"

Slots == IF cfg.multishot THEN {1} ELSE Ctxs

Cqes == [ctx : Ctxs, res : {"positive", "zero", "again", "nobufs", "error"},
         more : BOOLEAN, buf : SUBSET Bufs]

Sqes == [kind : {"RECV", "RECV_MULTISHOT"}, fd : {Sock}, ctx : Ctxs]

Init ==
    /\ StartInit
    /\ stop = FALSE
    /\ peer_closed = FALSE
    /\ batch = 0
    /\ sq = <<>>
    /\ armed = [c \in Ctxs |-> 0]
    /\ cq = <<>>
    /\ ring = {}
    /\ stream = "open"
    /\ failed = {}
    /\ freed = FALSE
    /\ corrupted = FALSE

--------------------------------------------------------------------------------
(* The worker's thread *)

Goto(l) == pc' = l /\ UNCHANGED <<startVars, stop, stream>>

\* On the way to the loop.  setup_multishot_recv() ends with all its buffers in
\* the ring.
Start ==
    /\ \/ Main \/ SocketCall \/ SocketCallFails \/ ConstructEngine \/ ConstructThrows
       \/ Register \/ AllocatePool \/ SetupBufRing \/ SetupBufMem \/ Ready
    /\ ring' = IF "buf_mem" \in held' /\ Receiving THEN Bufs ELSE {}
    /\ UNCHANGED <<stop, peer_closed, batch, sq, armed, cq, stream, failed, memory>>

\* The loop of another worker.
Elsewhere ==
    /\ pc = "start"
    /\ ~Receiving
    /\ Goto("exit")
    /\ UNCHANGED <<peer_closed, batch, engineVars, failed, memory>>

Setup ==
    /\ pc = "start"
    /\ Receiving
    /\ sq' = IF cfg.multishot THEN prep_recv_multishot(sq, Sock, 1)
             ELSE PrepEach(sq, [c \in Ctxs |-> [kind |-> "RECV", fd |-> Sock, ctx |-> c]])
    /\ Goto("submit")
    /\ UNCHANGED <<peer_closed, batch, armed, cq, ring, failed, memory>>

\* The condition of the loop; over UDP nothing ever sets peer_closed.
Running == ~stop /\ ~peer_closed

Loop ==
    /\ pc = "loop"
    /\ \/ ~Running /\ Goto("exit") /\ UNCHANGED batch
       \/ Running /\ cq = <<>> /\ Goto("submit_and_wait") /\ UNCHANGED batch
       \/ Running /\ cq # <<>> /\ Goto("cqe")
          /\ batch' = reap_completions(Len(cq), InFlight)
    /\ UNCHANGED <<peer_closed, engineVars, failed, memory>>

BatchEnd ==
    /\ pc = "cqe"
    /\ batch = 0
    /\ Goto("submit")
    /\ UNCHANGED <<peer_closed, batch, engineVars, failed, memory>>

\* The kernel consumes one SQE inside submit() or submit_and_wait().
SubmitSqe ==
    /\ pc \in {"submit", "submit_and_wait"}
    /\ sq # <<>>
    /\ armed' = [armed EXCEPT ![Head(sq).ctx] = @ + 1]
    /\ sq' = Tail(sq)
    /\ Goto(pc)
    /\ UNCHANGED <<peer_closed, batch, cq, ring, failed, memory>>


\* submit() returns; submit_and_wait() does at a completion or after 200ms.
Submitted ==
    /\ pc \in {"submit", "submit_and_wait"}
    /\ sq = <<>>
    /\ Goto("loop")
    /\ UNCHANGED <<peer_closed, batch, engineVars, failed, memory>>

\* Mutant: the completion is marked seen and counted twice.
CompletionTwice(multishot) ==
    /\ pc = "cqe"
    /\ batch > 0
    /\ cfg.multishot = multishot
    /\ cq' = SubSeq(cq, 3, Len(cq))
    /\ batch' = batch - 2
    /\ Goto("cqe")
    /\ UNCHANGED <<armed, memory>>

\* The completion at hand, which the handler marks seen.
Completion(multishot) ==
    /\ pc = "cqe"
    /\ batch > 0
    /\ cfg.multishot = multishot
    /\ cq' = Tail(cq)
    /\ batch' = batch - 1
    /\ Goto("cqe")
    /\ UNCHANGED <<armed, memory>>

res == Head(cq).res

ctx == Head(cq).ctx

\* Mutant: the buffer of a completion is not given back.
return_recv_bufferNever == ring' = ring

\* return_recv_buffer(), where the completion carries data.
return_recv_buffer == ring' = ring \cup Head(cq).buf

HandleMore ==
    /\ Completion(TRUE)
    /\ Head(cq).more
    /\ return_recv_buffer
    /\ UNCHANGED <<peer_closed, sq, failed>>

\* All buffers were out: received again, also after the stop signal.
HandleNoBufs ==
    /\ Completion(TRUE)
    /\ ~Head(cq).more /\ res = "nobufs"
    /\ sq' = prep_recv_multishot(sq, Sock, ctx)
    /\ UNCHANGED <<peer_closed, ring, failed>>

\* The multishot receive ended otherwise.  For the client the connection is
\* over; the listener of a UDP server is armed again until the stop signal.
HandleMultishotEnd ==
    /\ Completion(TRUE)
    /\ ~Head(cq).more /\ res # "nobufs"
    /\ return_recv_buffer
    /\ \/ /\ cfg.udp
          /\ sq' = IF stop THEN sq ELSE prep_recv_multishot(sq, Sock, ctx)
          /\ UNCHANGED <<peer_closed, failed>>
       \/ /\ ~cfg.udp
          /\ peer_closed' = TRUE
          /\ failed' = failed \cup {ctx}
          /\ UNCHANGED sq

\* Mutant: -EAGAIN is taken for the end of the receive.
HandleRecvDroppingAgain ==
    /\ Completion(FALSE)
    /\ res \in {"positive", "again"}
    /\ sq' = IF (stop /\ ~cfg.udp) \/ res = "again" THEN sq ELSE prep_recv(sq, Sock, ctx)
    /\ UNCHANGED <<peer_closed, ring, failed>>

\* The client looks at the stop signal first, the UDP server does not.
HandleRecv ==
    /\ Completion(FALSE)
    /\ res \in {"positive", "again"}
    /\ sq' = IF stop /\ ~cfg.udp THEN sq ELSE prep_recv(sq, Sock, ctx)
    /\ UNCHANGED <<peer_closed, ring, failed>>

\* Mutant: any result but a positive one ends the connection.
HandleRecvEndAlsoAgain ==
    /\ Completion(FALSE)
    /\ res # "positive"
    /\ peer_closed' = ~cfg.udp
    /\ failed' = failed \cup {ctx}
    /\ UNCHANGED <<sq, ring>>

\* 0 or an error.  The UDP server looks for a session of the descriptor, finds
\* none and does nothing: the context is not used again.
HandleRecvEnd ==
    /\ Completion(FALSE)
    /\ res \in {"zero", "error"}
    /\ peer_closed' = ~cfg.udp
    /\ failed' = failed \cup {ctx}
    /\ UNCHANGED <<sq, ring>>

\* After the loop.  The buffers of pending receives may be freed, the provided
\* ones withdrawn; the end of the ring ends the receives.
Finishing ==
    /\ Leave \/ Release \/ Return
    /\ LET released == held \ held'
       IN  /\ freed' = (freed \/ released \cap {"pool", "buf_mem"} # {})
           /\ ring' = IF "buf_ring" \in released THEN {} ELSE ring
           /\ IF "queue" \in released
              THEN sq' = <<>> /\ cq' = <<>> /\ armed' = [c \in Ctxs |-> 0]
              ELSE UNCHANGED <<sq, cq, armed>>
    /\ UNCHANGED <<stop, peer_closed, batch, stream, failed, corrupted>>

--------------------------------------------------------------------------------
(* The kernel, the peer and the stop signal (external) *)

\* A completion of context c; without F_MORE its receive is over.
Post(c, r, more, buf) ==
    /\ armed[c] > 0
    /\ armed' = IF more THEN armed ELSE [armed EXCEPT ![c] = @ - 1]
    /\ cq' = Append(cq, [ctx |-> c, res |-> r, more |-> more, buf |-> buf])
    /\ corrupted' = (corrupted \/ (freed /\ r = "positive"))
    /\ UNCHANGED <<startVars, pc, stop, peer_closed, batch, sq, stream, failed, freed>>

KernelData ==
    \E b \in ring :
        /\ stream = "open"
        /\ Post(1, "positive", Len(cq) < CqEntries, {b})
        /\ ring' = ring \ {b}

KernelNoBufs ==
    /\ cfg.multishot
    /\ ring = {}
    /\ Post(1, "nobufs", FALSE, {})
    /\ UNCHANGED ring

KernelRecv ==
    \E c \in Ctxs, r \in {"positive", "again"} :
        /\ ~cfg.multishot
        /\ stream = "open"
        /\ Post(c, r, FALSE, {})
        /\ UNCHANGED ring

\* The end of the stream or an error; over UDP an empty datagram or an error.
KernelEnd ==
    \E c \in Ctxs, r \in {"zero", "error"} :
        /\ cfg.udp \/ stream = "ended"
        /\ cfg.multishot => ring # {}
        /\ Post(c, r, FALSE, {})
        /\ UNCHANGED ring

PeerEnds ==
    /\ Receiving /\ ~cfg.udp
    /\ pc \notin {"main", "setup"}
    /\ stream = "open"
    /\ stream' = "ended"
    /\ UNCHANGED <<startVars, pc, stop, peer_closed, batch, engineVars, failed, memory>>

StopSignal ==
    /\ pc # "main"
    /\ ~stop
    /\ stop' = TRUE
    /\ UNCHANGED <<startVars, pc, peer_closed, batch, engineVars, stream, failed, memory>>

Terminated ==
    /\ Ended
    /\ UNCHANGED vars

--------------------------------------------------------------------------------

Worker ==
    \/ Start \/ Elsewhere \/ Setup \/ Loop \/ BatchEnd \/ SubmitSqe \/ Submitted
    \/ HandleMore \/ HandleNoBufs \/ HandleMultishotEnd \/ HandleRecv \/ HandleRecvEnd
    \/ Finishing

Next ==
    \/ Worker \/ KernelData \/ KernelNoBufs \/ KernelRecv \/ KernelEnd
    \/ PeerEnds \/ StopSignal \/ Terminated

Spec == Init /\ [][Next]_vars

\* The thread is scheduled, and the end of a stream (or the lack of a buffer to
\* report it with) completes a receive.  Data need never come.
FairSpec == Spec /\ WF_vars(Worker) /\ WF_vars(KernelEnd \/ KernelNoBufs)

--------------------------------------------------------------------------------
(* Properties *)

\* Every variable stays in its domain.
TypeOK ==
    /\ StartTypeOK
    /\ pc \in {"main", "setup", "start", "submit", "loop", "cqe", "submit_and_wait",
               "exit", "release", "done", "aborted", "exited"}
    /\ {stop, peer_closed, freed, corrupted} \subseteq BOOLEAN
    /\ batch \in Nat
    /\ sq \in Seq(Sqes)
    /\ armed \in [Ctxs -> Nat]
    /\ cq \in Seq(Cqes)
    /\ ring \subseteq Bufs
    /\ stream \in {"open", "ended"}
    /\ failed \subseteq Ctxs

\* The receives of context c that are prepared, and those that are over and not
\* handled.
SqAt(c) == Hits(sq, {e \in Sqes : e.ctx = c})
CqAt(c) == Hits(cq, {e \in Cqes : e.ctx = c /\ ~e.more})

\* One receive of context c: prepared, in the kernel, or over and not handled.
UnderWay(c) ==
    \/ One(SqAt(c)) /\ armed[c] = 0 /\ CqAt(c) = {}
    \/ SqAt(c) = {} /\ armed[c] = 1 /\ CqAt(c) = {}
    \/ SqAt(c) = {} /\ armed[c] = 0 /\ One(CqAt(c))

Retired(c) == SqAt(c) = {} /\ armed[c] = 0 /\ CqAt(c) = {}

\* The worker has no operation yet.
Starting == pc \in {"main", "setup", "start"}

\* The contexts as the pipeline sees them, and whether one end is a reason to end.
slot ==
    IF Starting \/ ~Receiving THEN <<>>
    ELSE [c \in Slots |-> CASE Retired(c) -> "retired"
                            [] UnderWay(c) -> "busy"
                            [] OTHER -> "crowded"]

fragile == ~Starting /\ Receiving /\ ~cfg.udp

Pipe == INSTANCE Pipeline WITH Slots <- Ctxs, told <- stop

\* The worker implements the abstract pipeline: each context always has exactly
\* one receive, lost neither to a full queue nor to a ring without buffers nor
\* to -EAGAIN; the listener of a multishot UDP server in particular stays armed
\* until the stop signal.  A worker with a reason to end winds down.
ImplementsPipeline == Pipe!LiveSpec

\* Every provided buffer is in the ring or in exactly one completion not yet
\* handled: a worker that receives for hours does not run out of buffers.
BuffersConserved ==
    Receiving /\ {"buf_ring", "buf_mem"} \subseteq held =>
        \A b \in Bufs :
            LET holders == Hits(cq, {e \in Cqes : b \in e.buf})
            IN  IF b \in ring THEN holders = {} ELSE One(holders)

\* The client takes the connection for closed only when it is, and when all that
\* the server sent before closing is counted: no data waits in the completion
\* queue.  In particular a completion queue that fills up never ends a receive
\* early, because it has room for every provided buffer.
EndsForCause ==
    peer_closed =>
        /\ stream = "ended"
        /\ \A i \in DOMAIN cq : cq[i].res # "positive"

\* The kernel never writes to memory the worker has freed, except in the client
\* without multishot, which frees the buffers of its receives while they are
\* pending and destroys the ring after that.
FreedUnwritten == corrupted => ~cfg.udp /\ ~cfg.multishot

================================================================================
