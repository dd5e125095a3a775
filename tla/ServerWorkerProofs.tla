-------------------------- MODULE ServerWorkerProofs ---------------------------
(***************************************************************************)
(* ServerWorker, for every value of its constants: its variables stay in   *)
(* their domains, it has exactly one accept wherever the submission queue  *)
(* leaves room for one, and every descriptor has one owner.                *)
(*                                                                         *)
(* With multishot receive and sending clients also: no completion names a  *)
(* context that was freed, a session is closed only for its own            *)
(* connection's end, no provided buffer is lost, and, if the submission    *)
(* queue is at least twice as deep as the pipeline, every session keeps a  *)
(* receive that will report its end.                                       *)
(***************************************************************************)
EXTENDS ServerWorker, UringEngineProofs

(* Types *)

\* While a batch is handled its completions are still at the head of the queue.
BatchInCq == pc \in {"cqe", "handshake"} => batch =< Len(cq)

\* The completion of a successful accept names its connection and descriptor.
AcceptCqes ==
    \A i \in DOMAIN cq :
        cq[i].ctx = AcceptCtx /\ cq[i].res = "positive" =>
            cq[i].conn \in Conns /\ cq[i].fd \in Fds

\* The handshake is read while its accept completion heads the batch.
InHandshake ==
    pc = "handshake" =>
        batch > 0 /\ Head(cq).ctx = AcceptCtx /\ Head(cq).res = "positive"

SqBounded == Len(sq) =< QueueDepth

TypeInv ==
    /\ TypeOK
    /\ BatchInCq
    /\ AcceptCqes
    /\ InHandshake
    /\ SqBounded

\* What TypeInv says of the queues, the kernel and the contexts.
LEMMA TypeFacts ==
    TypeInv =>
        /\ sq \in Seq(Sqes) /\ cq \in Seq(Cqes) /\ batch \in Nat
        /\ kernel \in [Ops -> Nat]
        /\ bufs \subseteq Bufs /\ live \subseteq Addrs /\ backlog \subseteq Conns
        /\ fdTable \in [Fds -> Conns \cup {None}]
        /\ sessions \in [Fds -> Conns \cup {None}]
        /\ pc \in {"cqe", "handshake"} => batch =< Len(cq)
        /\ Len(sq) =< QueueDepth
  BY Zenon DEF TypeInv, TypeOK, BatchInCq, SqBounded

LEMMA CqeType ==
    ASSUME NEW a \in Addrs \cup {AcceptCtx}, NEW c \in Conns \cup {None},
           NEW r \in Results
    PROVE  Cqe(a, c, r) \in Cqes
  BY Zenon DEF Cqe, Cqes

\* Posting a completion keeps what TypeInv says of the completion queue.
LEMMA PostType ==
    ASSUME TypeInv, NEW e \in Cqes, Post(e),
           e.ctx = AcceptCtx /\ e.res = "positive" => e.conn \in Conns /\ e.fd \in Fds
    PROVE  /\ cq' \in Seq(Cqes)
           /\ Len(cq') = Len(cq) + 1
           /\ AcceptCqes'
           /\ cq # <<>> => Head(cq') = Head(cq)
           /\ \A i \in DOMAIN cq : cq'[i] = cq[i]
  <1>1. cq \in Seq(Cqes) /\ AcceptCqes
    BY Zenon, TypeFacts DEF TypeInv
  <1>2. cq' = Append(cq, e)
    BY Zenon DEF Post
  <1>3. /\ cq' \in Seq(Cqes) /\ Len(cq') = Len(cq) + 1
        /\ cq # <<>> => Head(cq') = Head(cq)
        /\ \A i \in DOMAIN cq : cq'[i] = cq[i]
        /\ \A i \in DOMAIN cq' : i \in DOMAIN cq \/ cq'[i] = e
    BY <1>1, <1>2
  <1>4. AcceptCqes'
    BY Zenon, <1>1, <1>3 DEF AcceptCqes
  <1> QED
    BY Zenon, <1>3, <1>4

\* Marking the head of a batch seen keeps it too.
LEMMA CqeSeenType ==
    ASSUME TypeInv, pc \in {"cqe", "handshake"}, batch > 0, CqeSeen
    PROVE  /\ cq # <<>>
           /\ Head(cq) \in Cqes
           /\ Head(cq) = cq[1]
           /\ cq' \in Seq(Cqes)
           /\ Len(cq') = Len(cq) - 1
           /\ \A i \in DOMAIN cq' : i + 1 \in DOMAIN cq /\ cq'[i] = cq[i + 1]
           /\ batch' \in Nat
           /\ batch' =< Len(cq')
           /\ AcceptCqes'
           /\ DOMAIN cq = 1..Len(cq) /\ DOMAIN cq' = 1..(Len(cq) - 1)
           /\ Len(cq) \in Nat /\ Len(cq) > 0
           /\ DOMAIN cq \subseteq Nat /\ DOMAIN cq' \subseteq Nat
  <1>1. cq \in Seq(Cqes) /\ cq # <<>> /\ batch \in Nat /\ batch =< Len(cq)
    BY TypeFacts
  <1>2. cq' = Tail(cq) /\ batch' = batch - 1
    BY Zenon DEF CqeSeen
  <1>3. /\ cq' \in Seq(Cqes)
        /\ Len(cq') = Len(cq) - 1
        /\ \A i \in DOMAIN cq' : i + 1 \in DOMAIN cq /\ cq'[i] = cq[i + 1]
    BY <1>1, <1>2
  <1>4. AcceptCqes'
    BY Zenon, <1>3 DEF TypeInv, AcceptCqes
  <1>5. /\ DOMAIN cq = 1..Len(cq) /\ DOMAIN cq' = 1..(Len(cq) - 1)
        /\ Len(cq) \in Nat /\ Len(cq) > 0
        /\ DOMAIN cq \subseteq Nat /\ DOMAIN cq' \subseteq Nat
    BY <1>1, <1>2
  <1>6. Head(cq) \in Cqes /\ Head(cq) = cq[1] /\ batch' \in Nat /\ batch' =< Len(cq')
    BY <1>1, <1>2, <1>3
  <1> QED
    BY Zenon, <1>1, <1>3, <1>4, <1>5, <1>6

\* Closing sessions keeps the types.
LEMMA EraseType ==
    ASSUME TypeInv, NEW S, EraseSessions(S)
    PROVE  /\ fdTable' \in [Fds -> Conns \cup {None}]
           /\ sessions' \in [Fds -> Conns \cup {None}]
           /\ live' \subseteq Addrs
           /\ reverse' = reverse /\ overdue' = overdue /\ ctx' = ctx
  BY Zenon DEF TypeInv, TypeOK, EraseSessions

\* The SQEs the handlers prepare are SQEs.
LEMMA SqeTypes ==
    /\ AcceptSqe \in Sqes
    /\ \A k \in IOKinds, f \in Fds, a \in Addrs :
          [kind |-> k, fd |-> f, ctx |-> a] \in Sqes
    /\ SendKind \in IOKinds
  BY Zenon DEF AcceptSqe, Sqes, SendKind, IOKinds

LEMMA PrepTypes ==
    ASSUME NEW q \in Seq(Sqes), Len(q) =< QueueDepth,
           NEW f \in Fds, NEW a \in Addrs
    PROVE  /\ RearmAccept(q) \in Seq(Sqes)
           /\ Len(RearmAccept(q)) =< QueueDepth
           /\ prep_send(q, f, a) \in Seq(Sqes)
           /\ Len(prep_send(q, f, a)) =< QueueDepth
           /\ prep_recv(q, f, a) \in Seq(Sqes)
           /\ Len(prep_recv(q, f, a)) =< QueueDepth
           /\ prep_recv_multishot(q, f, a) \in Seq(Sqes)
           /\ Len(prep_recv_multishot(q, f, a)) =< QueueDepth
  <1>1. \A e \in Sqes : GetSqe(q, e) \in Seq(Sqes) /\ Len(GetSqe(q, e)) =< QueueDepth
    BY Zenon, GetSqeProperties
  <1>2. RearmAccept(q) = GetSqe(q, AcceptSqe)
    BY Zenon DEF RearmAccept, prep_accept, AcceptSqe
  <1>3. \A k \in IOKinds : [kind |-> k, fd |-> f, ctx |-> a] \in Sqes
    BY Zenon, SqeTypes
  <1>4. {"SEND", "SEND_ZC", "RECV", "RECV_MULTISHOT"} \subseteq IOKinds
    BY Zenon DEF IOKinds
  <1> QED
    BY Zenon, <1>1, <1>2, <1>3, <1>4, SqeTypes
    DEF prep_send, prep_send_zc, prep_send_standard, prep_recv, prep_recv_multishot

\* Only the accept completion at the head of the batch opens a session.
LEMMA OpenSessionType ==
    ASSUME TypeInv, AtAccept("handshake"),
           NEW n \in Nat, NEW type \in {"SEND", "RECV"}, NEW kind \in IOKinds,
           NEW isReverse \in BOOLEAN, OpenSession(n, type, kind, isReverse)
    PROVE  TypeInv'
  <1> DEFINE c == Head(cq).conn
             fd == Head(cq).fd
  <1>1. CqeSeen /\ pc = "handshake" /\ batch > 0 /\ pc' = "cqe"
    BY Zenon DEF OpenSession, AtAccept
  <1>2. c \in Conns /\ fd \in Fds
    BY <1>1, CqeSeenType DEF TypeInv, AcceptCqes, InHandshake
  <1>3. PICK new \in Injection(1..n, Addrs \ live) :
              /\ ctx' = [a \in Addrs |->
                            IF a \in {new[i] : i \in 1..n}
                            THEN [type |-> type, fd |-> fd, conn |-> c]
                            ELSE ctx[a]]
              /\ live' = live \cup {new[i] : i \in 1..n}
              /\ sq' = RearmAccept(PrepEach(sq,
                          [i \in 1..n |->
                              [kind |-> kind, fd |-> fd, ctx |-> new[i]]]))
    BY Zenon DEF OpenSession
  <1>4. \A i \in 1..n : new[i] \in Addrs
    BY Zenon DEF Injection
  <1>5. [i \in 1..n |-> [kind |-> kind, fd |-> fd, ctx |-> new[i]]] \in Seq(Sqes)
    BY <1>2, <1>4, SqeTypes
  <1>6. sq' \in Seq(Sqes) /\ Len(sq') =< QueueDepth
    <2> DEFINE q == PrepEach(sq, [i \in 1..n |->
                              [kind |-> kind, fd |-> fd, ctx |-> new[i]]])
    <2>1. q \in Seq(Sqes) /\ Len(q) =< QueueDepth
      BY Zenon, <1>5, PrepEachProperties DEF TypeInv, TypeOK, SqBounded
    <2> QED
      BY Zenon, <1>2, <1>3, <2>1, GetSqeProperties, SqeTypes
      DEF RearmAccept, prep_accept, AcceptSqe
  <1>7. ctx' \in [Addrs -> Context \cup {Garbage}] /\ live' \subseteq Addrs
    BY Zenon, <1>2, <1>3, <1>4 DEF TypeInv, TypeOK, Context
  <1>8. /\ sessions' \in [Fds -> Conns \cup {None}]
        /\ reverse' \in [Conns -> BOOLEAN]
        /\ overdue' \in [Conns -> BOOLEAN]
    BY Zenon, <1>2 DEF TypeInv, TypeOK, OpenSession
  <1>9. UNCHANGED <<stop, kernel, bufs, fdTable, backlog, peer, hs>>
    BY Zenon DEF OpenSession, peerVars
  <1> QED
    BY Zenon, <1>1, <1>6, <1>7, <1>8, <1>9, CqeSeenType
    DEF TypeInv, TypeOK, BatchInCq, InHandshake, SqBounded, PcValues

\* A completion handler that leaves the sessions as they are, or closes some.
LEMMA HandlerType ==
    ASSUME TypeInv, pc = "cqe", batch > 0, CqeSeen,
           UNCHANGED <<pc, stop, kernel, backlog, peer, hs>>,
           sq' \in Seq(Sqes), Len(sq') =< QueueDepth, bufs' \subseteq Bufs,
           \/ UNCHANGED <<fdTable, sessions, reverse, overdue, ctx, live>>
           \/ \E S \in SUBSET Fds : EraseSessions(S)
    PROVE  TypeInv'
  <1>1. /\ fdTable' \in [Fds -> Conns \cup {None}]
        /\ sessions' \in [Fds -> Conns \cup {None}]
        /\ live' \subseteq Addrs
        /\ reverse' = reverse /\ overdue' = overdue /\ ctx' = ctx
    BY Zenon, EraseType DEF TypeInv, TypeOK
  <1> QED
    BY Zenon, <1>1, CqeSeenType
    DEF TypeInv, TypeOK, BatchInCq, InHandshake, SqBounded, PcValues

\* A kernel step that posts one completion.
LEMMA PostingType ==
    ASSUME TypeInv, NEW e \in Cqes, Post(e),
           e.ctx = AcceptCtx /\ e.res = "positive" => e.conn \in Conns /\ e.fd \in Fds,
           kernel' \in [Ops -> Nat], bufs' \subseteq Bufs, backlog' \subseteq Conns,
           fdTable' \in [Fds -> Conns \cup {None}],
           UNCHANGED <<pc, stop, batch, sq, sessions, reverse, overdue, ctx, live,
                       peer, hs>>
    PROVE  TypeInv'
  <1>1. TypeOK'
    BY Zenon, PostType DEF TypeInv, TypeOK
  <1>2. BatchInCq'
    <2>1. BatchInCq /\ batch \in Nat /\ Len(cq) \in Nat
      <3>1. BatchInCq /\ batch \in Nat /\ cq \in Seq(Cqes)
        BY Zenon, TypeFacts DEF TypeInv
      <3> QED
        BY <3>1
    <2>2. Len(cq') = Len(cq) + 1
      BY Zenon, PostType
    <2> QED
      BY <2>1, <2>2 DEF BatchInCq
  <1>3. InHandshake'
    <2>1. ASSUME pc = "handshake" PROVE cq # <<>>
      <3>1. batch > 0 /\ batch \in Nat /\ batch =< Len(cq) /\ cq \in Seq(Cqes)
        BY Zenon, <2>1, TypeFacts DEF TypeInv, InHandshake
      <3> QED
        BY <3>1
    <2> QED
      BY Zenon, <2>1, PostType DEF TypeInv, InHandshake
  <1> QED
    BY Zenon, <1>1, <1>2, <1>3, PostType DEF TypeInv, SqBounded

LEMMA TypeInit == Init => TypeInv
  <1> SUFFICES ASSUME Init PROVE TypeInv
    BY Zenon
  <1>1. TypeOK
    <2>1. sq \in Seq(Sqes) /\ cq \in Seq(Cqes)
      BY DEF Init
    <2>2. kernel \in [Ops -> Nat] /\ ctx \in [Addrs -> Context \cup {Garbage}]
      BY Zenon DEF Init
    <2>3. /\ fdTable \in [Fds -> Conns \cup {None}]
          /\ sessions \in [Fds -> Conns \cup {None}]
          /\ reverse \in [Conns -> BOOLEAN]
          /\ overdue \in [Conns -> BOOLEAN]
      BY Zenon DEF Init
    <2>4. /\ peer \in [Conns -> {"idle", "open", "closed"}]
          /\ hs \in [Conns -> {"none", "forward", "reverse"}]
      BY Zenon DEF Init
    <2> QED
      BY Zenon, <2>1, <2>2, <2>3, <2>4 DEF Init, TypeOK, PcValues
  <1> QED
    BY <1>1, QueueDepthAssumption
    DEF Init, TypeInv, BatchInCq, AcceptCqes, InHandshake, SqBounded

LEMMA LoopType ==
    ASSUME TypeInv, Loop
    PROVE  TypeInv'
  <1> USE DEF TypeInv, TypeOK, BatchInCq, AcceptCqes, InHandshake, SqBounded,
              PcValues
  <1>1. CASE SetupFail
    BY Zenon, <1>1 DEF SetupFail, engineVars, sessionVars, peerVars
  <1>2. CASE Setup
    <2>1. sq' \in Seq(Sqes) /\ Len(sq') =< QueueDepth
      BY Zenon, <1>2, GetSqeProperties, SqeTypes DEF Setup, prep_accept, AcceptSqe
    <2> QED
      BY Zenon, <1>2, <2>1 DEF Setup, sessionVars, peerVars
  <1>3. CASE LeaveLoop
    BY Zenon, <1>3 DEF LeaveLoop, engineVars, sessionVars, peerVars
  <1>4. CASE Sweep
    BY Zenon, <1>4, EraseType DEF Sweep, engineVars, peerVars
  <1>5. CASE ReapNothing
    BY Zenon, <1>5 DEF ReapNothing, engineVars, sessionVars, peerVars
  <1>6. CASE ReapSome
    <2>1. batch' \in Nat /\ batch' =< Len(cq)
      BY SMTT(30), <1>6, InFlightAssumption DEF ReapSome, reap_completions, Lesser
    <2> QED
      BY Zenon, <1>6, <2>1 DEF ReapSome, engineVars, sessionVars, peerVars
  <1>7. CASE BatchEnd
    BY Zenon, <1>7 DEF BatchEnd, engineVars, sessionVars, peerVars
  <1>8. CASE SubmitSqe
    <2>1. sq' \in Seq(Sqes) /\ Len(sq') =< QueueDepth /\ Head(sq) \in Sqes
      BY SMTT(30), <1>8, QueueDepthAssumption DEF SubmitSqe
    <2>2. kernel' \in [Ops -> Nat] /\ cq' \in Seq(Cqes) /\ AcceptCqes'
      <3> DEFINE e == Head(sq)
                 c == IF e = AcceptSqe THEN None ELSE fdTable[e.fd]
                 o == [kind |-> e.kind, conn |-> c, ctx |-> e.ctx]
      <3>1. CASE o \in Ops
        BY SMTT(30), <1>8, <3>1 DEF SubmitSqe
      <3>2. CASE o \notin Ops
        <4>1. Cqe(e.ctx, None, "error") \in Cqes
          BY SMTT(30), <2>1, CqeType DEF Sqes, AcceptSqe, Results
        <4>2. cq' = Append(cq, Cqe(e.ctx, None, "error")) /\ kernel' = kernel
          BY Zenon, <1>8, <3>2 DEF SubmitSqe
        <4> QED
          BY Zenon, <4>1, <4>2, PostType DEF Post, Cqe
      <3> QED
        BY Zenon, <3>1, <3>2
    <2> QED
      BY Zenon, <1>8, <2>1, <2>2 DEF SubmitSqe, sessionVars, peerVars
  <1>9. CASE SubmitDone \/ WaitDone
    BY Zenon, <1>9 DEF SubmitDone, WaitDone, engineVars, sessionVars, peerVars
  <1>10. CASE Exit
    BY <1>10, EraseType, QueueDepthAssumption DEF Exit, peerVars
  <1> QED
    BY Zenon, <1>1, <1>2, <1>3, <1>4, <1>5, <1>6, <1>7, <1>8, <1>9, <1>10 DEF Loop

\* What a handler of a completion reads.
LEMMA CompletionType ==
    ASSUME TypeInv, NEW v \in Context, NEW type, AtCompletion(v, type), CqeSeen
    PROVE  /\ pc = "cqe" /\ batch > 0
           /\ Head(cq) \in Cqes
           /\ Head(cq).ctx \in Addrs
           /\ v.fd \in Fds
  <1>1. pc = "cqe" /\ batch > 0 /\ Head(cq).ctx # AcceptCtx
    BY Zenon DEF AtCompletion
  <1>2. Head(cq) \in Cqes
    BY Zenon, <1>1, CqeSeenType
  <1> QED
    BY Zenon, <1>1, <1>2 DEF Cqes, Context

LEMMA HandleType ==
    ASSUME TypeInv, Handle
    PROVE  TypeInv'
  <1>0. /\ sq \in Seq(Sqes) /\ Len(sq) =< QueueDepth
        /\ bufs \subseteq Bufs
        /\ cq \in Seq(Cqes)
    BY Zenon DEF TypeInv, TypeOK, SqBounded
  <1>1. CASE HandleAcceptError
    <2>1. sq' \in Seq(Sqes) /\ Len(sq') =< QueueDepth
      BY Zenon, <1>0, <1>1, GetSqeProperties, SqeTypes
      DEF HandleAcceptError, RearmAccept, prep_accept, AcceptSqe
    <2> QED
      BY Zenon, <1>0, <1>1, <2>1, HandlerType
      DEF HandleAcceptError, AtAccept, sessionVars, peerVars
  <1>2. CASE HandleAccept
    BY Zenon, <1>2 DEF HandleAccept, AtAccept, TypeInv, TypeOK, BatchInCq, AcceptCqes,
                InHandshake, SqBounded, PcValues, engineVars, sessionVars, peerVars
  <1>3. CASE HandleSend
    <2>1. PICK v \in Context :
              /\ AtCompletion(v, "SEND")
              /\ CqeSeen
              /\ sq' \in {sq, prep_send(sq, v.fd, Head(cq).ctx)}
      BY Zenon, <1>3 DEF HandleSend
    <2>2. sq' \in Seq(Sqes) /\ Len(sq') =< QueueDepth
      BY Zenon, <1>0, <2>1, CompletionType, PrepTypes
    <2> QED
      BY Zenon, <1>0, <1>3, <2>1, <2>2, CompletionType, HandlerType
      DEF HandleSend, sessionVars, peerVars
  <1>4. CASE HandleRecvMore
    <2>1. PICK v \in Context :
              AtCompletion(v, "RECV") /\ CqeSeen /\ return_recv_buffer(Head(cq))
      BY Zenon, <1>4 DEF HandleRecvMore
    <2>2. bufs' \subseteq Bufs
      BY Zenon, <1>0, <2>1, CompletionType DEF return_recv_buffer, Cqes
    <2> QED
      BY Zenon, <1>0, <1>4, <2>1, <2>2, CompletionType, HandlerType
      DEF HandleRecvMore, sessionVars, peerVars
  <1>5. CASE HandleRecvNoBufs
    <2>1. PICK v \in Context :
              /\ AtCompletion(v, "RECV")
              /\ CqeSeen
              /\ sq' = prep_recv_multishot(sq, v.fd, Head(cq).ctx)
      BY Zenon, <1>5 DEF HandleRecvNoBufs
    <2>2. sq' \in Seq(Sqes) /\ Len(sq') =< QueueDepth
      BY Zenon, <1>0, <2>1, CompletionType, PrepTypes
    <2> QED
      BY Zenon, <1>0, <1>5, <2>1, <2>2, CompletionType, HandlerType
      DEF HandleRecvNoBufs, sessionVars, peerVars
  <1>6. CASE HandleRecvEnd
    <2>1. PICK v \in Context :
              /\ AtCompletion(v, "RECV")
              /\ CqeSeen
              /\ return_recv_buffer(Head(cq))
              /\ CloseIfPresent(v.fd)
      BY Zenon, <1>6 DEF HandleRecvEnd
    <2>2. bufs' \subseteq Bufs
      BY Zenon, <1>0, <2>1, CompletionType DEF return_recv_buffer, Cqes
    <2>3. \E S \in SUBSET Fds : EraseSessions(S)
      BY Zenon, <2>1 DEF CloseIfPresent
    <2> QED
      BY Zenon, <1>0, <1>6, <2>1, <2>2, <2>3, CompletionType, HandlerType
      DEF HandleRecvEnd, peerVars
  <1>7. CASE HandleRecvAgain
    <2>1. PICK v \in Context :
              /\ AtCompletion(v, "RECV")
              /\ CqeSeen
              /\ sq' = prep_recv(sq, v.fd, Head(cq).ctx)
      BY Zenon, <1>7 DEF HandleRecvAgain
    <2>2. sq' \in Seq(Sqes) /\ Len(sq') =< QueueDepth
      BY Zenon, <1>0, <2>1, CompletionType, PrepTypes
    <2> QED
      BY Zenon, <1>0, <1>7, <2>1, <2>2, CompletionType, HandlerType
      DEF HandleRecvAgain, sessionVars, peerVars
  <1>8. CASE HandleRecvClose
    <2>1. PICK v \in Context :
              AtCompletion(v, "RECV") /\ CqeSeen /\ CloseIfPresent(v.fd)
      BY Zenon, <1>8 DEF HandleRecvClose
    <2>2. \E S \in SUBSET Fds : EraseSessions(S)
      BY Zenon, <2>1 DEF CloseIfPresent
    <2> QED
      BY Zenon, <1>0, <1>8, <2>1, <2>2, CompletionType, HandlerType
      DEF HandleRecvClose, peerVars
  <1>9. CASE HandleUnknown
    BY Zenon, <1>0, <1>9, HandlerType
    DEF HandleUnknown, AtCompletion, sessionVars, peerVars
  <1> QED
    BY Zenon, <1>1, <1>2, <1>3, <1>4, <1>5, <1>6, <1>7, <1>8, <1>9 DEF Handle

LEMMA OpenType ==
    ASSUME TypeInv, Open
    PROVE  TypeInv'
  <1>1. CASE HandshakeFailed
    <2>1. CqeSeen /\ pc = "handshake" /\ batch > 0 /\ pc' = "cqe"
      BY Zenon, <1>1 DEF HandshakeFailed, AtAccept
    <2>2. sq' \in Seq(Sqes) /\ Len(sq') =< QueueDepth
      BY ZenonT(30), <1>1, GetSqeProperties, SqeTypes
      DEF HandshakeFailed, RearmAccept, prep_accept, AcceptSqe, TypeInv, TypeOK,
          SqBounded
    <2>3. fdTable' \in [Fds -> Conns \cup {None}]
      BY ZenonT(30), <1>1 DEF HandshakeFailed, TypeInv, TypeOK
    <2> QED
      BY Zenon, <1>1, <2>1, <2>2, <2>3, CqeSeenType
      DEF HandshakeFailed, peerVars, TypeInv, TypeOK, BatchInCq, InHandshake,
          SqBounded, PcValues
  <1>2. CASE OpenReverse
    BY ZenonT(30), <1>2, OpenSessionType, SqeTypes, InFlightAssumption DEF OpenReverse
  <1>3. CASE OpenMultishot
    BY Zenon, <1>3, OpenSessionType DEF OpenMultishot, IOKinds
  <1>4. CASE OpenSingleShot
    BY Zenon, <1>4, OpenSessionType, InFlightAssumption DEF OpenSingleShot, IOKinds
  <1> QED
    BY Zenon, <1>1, <1>2, <1>3, <1>4 DEF Open

LEMMA KernelType ==
    ASSUME TypeInv, Kernel
    PROVE  TypeInv'
  <1>0. /\ kernel \in [Ops -> Nat] /\ bufs \subseteq Bufs /\ backlog \subseteq Conns
        /\ fdTable \in [Fds -> Conns \cup {None}]
    BY Zenon DEF TypeInv, TypeOK
  <1>1. CASE KernelAccept
    <2>1. PICK c \in backlog, f \in Fds :
              /\ kernel[AcceptOp] > 0
              /\ fdTable' = [fdTable EXCEPT ![f] = c]
              /\ backlog' = backlog \ {c}
              /\ Post([Cqe(AcceptCtx, c, "positive") EXCEPT !.fd = f])
              /\ Finish(AcceptOp)
      BY Zenon, <1>1 DEF KernelAccept
    <2> DEFINE e == [Cqe(AcceptCtx, c, "positive") EXCEPT !.fd = f]
    <2>2. e \in Cqes /\ e.conn \in Conns /\ e.fd \in Fds
      BY Zenon, <1>0 DEF Cqe, Cqes, Results
    <2>3. kernel' \in [Ops -> Nat]
      BY <1>0, <2>1 DEF Finish, Ops
    <2>4. fdTable' \in [Fds -> Conns \cup {None}] /\ backlog' \subseteq Conns
      BY Zenon, <1>0, <2>1
    <2> HIDE DEF e
    <2> QED
      BY Zenon, <1>0, <1>1, <2>1, <2>2, <2>3, <2>4, PostingType DEF KernelAccept, e
  <1>2. CASE KernelAcceptError
    <2>1. Cqe(AcceptCtx, None, "error") \in Cqes
      BY Zenon, CqeType DEF Results
    <2>2. kernel' \in [Ops -> Nat]
      BY SMTT(30), <1>0, <1>2 DEF KernelAcceptError, Finish, Ops
    <2> QED
      BY Zenon, <1>0, <1>2, <2>1, <2>2, PostingType
      DEF KernelAcceptError, Cqe, sessionVars, peerVars
  <1>3. CASE KernelComplete
    <2>1. PICK k \in {"SEND", "RECV", "RECV_MULTISHOT"}, c \in Conns, a \in Addrs,
               r \in Results :
              /\ kernel[[kind |-> k, conn |-> c, ctx |-> a]] > 0
              /\ Post(Cqe(a, c, r))
              /\ Finish([kind |-> k, conn |-> c, ctx |-> a])
      BY <1>3 DEF KernelComplete, Outcomes, Results
    <2>2. Cqe(a, c, r) \in Cqes /\ Cqe(a, c, r).ctx # AcceptCtx
      BY Zenon, CqeType, ConstantsAssumption DEF Cqe
    <2>3. kernel' \in [Ops -> Nat]
      BY <1>0, <2>1 DEF Finish, Ops, IOKinds
    <2> QED
      BY Zenon, <1>0, <1>3, <2>1, <2>2, <2>3, PostingType
      DEF KernelComplete, sessionVars, peerVars
  <1>4. CASE KernelSendZc
    <2>1. PICK c \in Conns, a \in Addrs, r \in Results :
              /\ kernel[[kind |-> "SEND_ZC", conn |-> c, ctx |-> a]] > 0
              /\ Post([Cqe(a, c, r) EXCEPT !.more = TRUE])
              /\ kernel' = [kernel EXCEPT
                              ![[kind |-> "SEND_ZC", conn |-> c, ctx |-> a]] = @ - 1,
                              ![[kind |-> "NOTIF", conn |-> c, ctx |-> a]] = @ + 1]
      BY Zenon, <1>4 DEF KernelSendZc, Outcomes, Results
    <2>2. /\ [Cqe(a, c, r) EXCEPT !.more = TRUE] \in Cqes
          /\ [Cqe(a, c, r) EXCEPT !.more = TRUE].ctx # AcceptCtx
      BY Zenon, ConstantsAssumption DEF Cqe, Cqes
    <2>3. kernel' \in [Ops -> Nat]
      BY <1>0, <2>1 DEF Ops, IOKinds
    <2> QED
      BY Zenon, <1>0, <1>4, <2>1, <2>2, <2>3, PostingType
      DEF KernelSendZc, sessionVars, peerVars
  <1>5. CASE KernelNotif
    <2>1. PICK c \in Conns, a \in Addrs :
              /\ kernel[[kind |-> "NOTIF", conn |-> c, ctx |-> a]] > 0
              /\ Post([Cqe(a, c, "zero") EXCEPT !.notif = TRUE])
              /\ Finish([kind |-> "NOTIF", conn |-> c, ctx |-> a])
      BY Zenon, <1>5 DEF KernelNotif
    <2>2. /\ [Cqe(a, c, "zero") EXCEPT !.notif = TRUE] \in Cqes
          /\ [Cqe(a, c, "zero") EXCEPT !.notif = TRUE].ctx # AcceptCtx
      BY Zenon, ConstantsAssumption DEF Cqe, Cqes, Results
    <2>3. kernel' \in [Ops -> Nat]
      BY <1>0, <2>1 DEF Finish, Ops, IOKinds
    <2> QED
      BY Zenon, <1>0, <1>5, <2>1, <2>2, <2>3, PostingType
      DEF KernelNotif, sessionVars, peerVars
  <1>6. CASE KernelRecvMore
    <2>1. PICK c \in Conns, a \in Addrs, b \in bufs :
              /\ Post([Cqe(a, c, "positive") EXCEPT !.more = TRUE, !.buf = b])
              /\ bufs' = bufs \ {b}
      BY Zenon, <1>6 DEF KernelRecvMore
    <2>2. /\ [Cqe(a, c, "positive") EXCEPT !.more = TRUE, !.buf = b] \in Cqes
          /\ [Cqe(a, c, "positive") EXCEPT !.more = TRUE, !.buf = b].ctx # AcceptCtx
      BY ZenonT(30), <1>0, ConstantsAssumption DEF Cqe, Cqes, Results
    <2> QED
      BY Zenon, <1>0, <1>6, <2>1, <2>2, PostingType
      DEF KernelRecvMore, sessionVars, peerVars
  <1> QED
    BY Zenon, <1>1, <1>2, <1>3, <1>4, <1>5, <1>6 DEF Kernel

LEMMA EnvironmentType ==
    ASSUME TypeInv, Environment
    PROVE  TypeInv'
  <1> USE DEF TypeInv, TypeOK, BatchInCq, AcceptCqes, InHandshake, SqBounded,
              engineVars, sessionVars, peerVars
  <1>1. CASE PeerConnect
    BY Zenon, <1>1 DEF PeerConnect
  <1>2. CASE PeerHandshake
    BY SMTT(30), <1>2, ConstantsAssumption DEF PeerHandshake
  <1>3. CASE PeerClose
    BY Zenon, <1>3 DEF PeerClose
  <1>4. CASE DeadlinePasses
    BY Zenon, <1>4 DEF DeadlinePasses
  <1>5. CASE StopSignal
    BY Zenon, <1>5 DEF StopSignal
  <1> QED
    BY Zenon, <1>1, <1>2, <1>3, <1>4, <1>5 DEF Environment

LEMMA TypeStutter ==
    ASSUME TypeInv, UNCHANGED vars
    PROVE  TypeInv'
  BY Zenon DEF TypeInv, TypeOK, BatchInCq, AcceptCqes, InHandshake, SqBounded, vars,
         engineVars, sessionVars, peerVars

LEMMA TypeStep == TypeInv /\ [Next]_vars => TypeInv'
  BY Zenon, LoopType, HandleType, OpenType, KernelType, EnvironmentType, TypeStutter
  DEF Next, Worker, Terminated

LEMMA TypeInvariant == Spec => []TypeInv
  BY TypeInit, TypeStep, PTL DEF Spec

\* Every variable of the server stays in its domain; in particular no handler
\* looks past the end of the completion queue, and a handshake is always read
\* on a descriptor that accept() returned.
THEOREM TypeCorrect == Spec => []TypeOK
  <1>1. TypeInv => TypeOK
    BY Zenon DEF TypeInv
  <1> QED
    BY <1>1, TypeInvariant, PTL

--------------------------------------------------------------------------------
(* The accept *)

LEMMA AppendAt ==
    ASSUME NEW S, NEW q \in Seq(S), NEW e \in S, NEW a
    PROVE  /\ e.ctx # a => /\ NoneAt(Append(q, e), a) <=> NoneAt(q, a)
                           /\ OneAt(q, a) => OneAt(Append(q, e), a)
           /\ e.ctx = a => /\ ~NoneAt(Append(q, e), a)
                           /\ NoneAt(q, a) => OneAt(Append(q, e), a)
  <1> DEFINE p == Append(q, e)
  <1>1. /\ DOMAIN q = 1..Len(q) /\ DOMAIN p = 1..(Len(q) + 1) /\ Len(q) \in Nat
        /\ \A i \in 1..Len(q) : p[i] = q[i]
        /\ p[Len(q) + 1] = e
    OBVIOUS
  <1> HIDE DEF p
  <1>2. ASSUME e.ctx # a PROVE NoneAt(p, a) <=> NoneAt(q, a)
    BY <1>1, <1>2 DEF NoneAt
  <1>3. ASSUME e.ctx # a PROVE At(p, a) = At(q, a)
    BY <1>1, <1>3 DEF At
  <1>4. ASSUME e.ctx = a PROVE ~NoneAt(p, a)
    BY <1>1, <1>4 DEF NoneAt
  <1>5. ASSUME e.ctx = a, NoneAt(q, a) PROVE At(p, a) = {Len(q) + 1}
    BY <1>1, <1>5 DEF At, NoneAt
  <1>6. ASSUME e.ctx # a, OneAt(q, a) PROVE OneAt(p, a)
    BY Zenon, <1>3, <1>6 DEF OneAt
  <1>7. ASSUME e.ctx = a, NoneAt(q, a) PROVE OneAt(p, a)
    BY Zenon, <1>5, <1>7 DEF OneAt
  <1> QED
    BY Zenon, <1>2, <1>4, <1>6, <1>7 DEF p

LEMMA TailAt ==
    ASSUME NEW S, NEW q \in Seq(S), q # <<>>, NEW a
    PROVE  /\ NoneAt(q, a) => NoneAt(Tail(q), a) /\ Head(q).ctx # a
           /\ Head(q).ctx # a /\ OneAt(q, a) => OneAt(Tail(q), a)
           /\ Head(q).ctx = a /\ OneAt(q, a) => NoneAt(Tail(q), a)
  <1> DEFINE p == Tail(q)
  <1>1. /\ DOMAIN q = 1..Len(q) /\ DOMAIN p = 1..(Len(q) - 1)
        /\ Len(q) \in Nat /\ Len(q) > 0
        /\ \A i \in 1..(Len(q) - 1) : p[i] = q[i + 1]
        /\ Head(q) = q[1]
    OBVIOUS
  <1> HIDE DEF p
  <1>2. NoneAt(q, a) => NoneAt(p, a) /\ Head(q).ctx # a
    BY <1>1 DEF NoneAt
  <1>3. ASSUME Head(q).ctx # a, OneAt(q, a) PROVE OneAt(p, a)
    <2>1. PICK i \in DOMAIN q : q[i].ctx = a /\ \A j \in DOMAIN q : q[j].ctx = a => j = i
      BY Zenon, <1>3 DEF OneAt, At
    <2>2. i - 1 \in DOMAIN p /\ p[i - 1].ctx = a
      BY <1>1, <1>3, <2>1
    <2>3. \A j \in DOMAIN p : p[j].ctx = a => j = i - 1
      BY SMTT(30), <1>1, <2>1
    <2> QED
      BY Zenon, <2>2, <2>3 DEF OneAt, At
  <1>4. ASSUME Head(q).ctx = a, OneAt(q, a) PROVE NoneAt(p, a)
    <2>1. \A j \in DOMAIN q : q[j].ctx = a => j = 1
      BY <1>1, <1>4 DEF OneAt, At
    <2> QED
      BY <1>1, <2>1 DEF NoneAt
  <1> QED
    BY Zenon, <1>2, <1>3, <1>4 DEF p

\* An accept is either prepared or leaves room for the batch at hand: the SQEs
\* prepared so far and the completions still to come are together no more
\* than one reap returns.
AcceptRoom ==
    pc \in {"cqe", "handshake"} /\ NoneAt(sq, AcceptCtx) =>
        Len(sq) + batch =< InFlight

\* Every submit() leaves the submission queue empty.
SqSubmitted == pc \in {"start", "loop", "reap", "exit"} => sq = <<>>

\* No accept before the setup.
NotStarted ==
    pc = "start" => kernel[AcceptOp] = 0 /\ NoneAt(cq, AcceptCtx)

ArmedInv ==
    /\ TypeInv
    /\ AcceptArmed
    /\ AcceptRoom
    /\ SqSubmitted
    /\ NotStarted

LEMMA ArmedInit == Init => ArmedInv
  BY TypeInit DEF Init, ArmedInv, AcceptArmed, AcceptRoom, SqSubmitted, NotStarted,
                  NoneAt, Ops

\* The accept is the one operation with AcceptCtx as its user_data.
LEMMA AcceptOnly ==
    /\ AcceptOp \in Ops
    /\ \A o \in Ops : o # AcceptOp => o.ctx # AcceptCtx
    /\ \A e \in Sqes : e.ctx = AcceptCtx <=> e = AcceptSqe
  BY ConstantsAssumption DEF Ops, AcceptOp, Sqes, AcceptSqe

\* A step that leaves the accepts of the queues and of the kernel as they are.
LEMMA ArmedFrame ==
    ASSUME ArmedInv, TypeInv', pc \notin {"start", "done"}, pc' \notin {"start", "done"},
           kernel'[AcceptOp] = kernel[AcceptOp],
           NoneAt(sq, AcceptCtx) => NoneAt(sq', AcceptCtx),
           OneAt(sq, AcceptCtx) => OneAt(sq', AcceptCtx),
           NoneAt(cq, AcceptCtx) => NoneAt(cq', AcceptCtx),
           OneAt(cq, AcceptCtx) => OneAt(cq', AcceptCtx)
    PROVE  AcceptArmed'
  BY Zenon DEF ArmedInv, AcceptArmed

LEMMA LoopArmed ==
    ASSUME ArmedInv, TypeInv', Loop
    PROVE  ArmedInv'
  <1> USE DEF ArmedInv, AcceptRoom, SqSubmitted, NotStarted
  <1>1. CASE SetupFail
    BY Zenon, <1>1 DEF SetupFail, AcceptArmed, engineVars
  <1>2. CASE Setup
    <2>1. sq = <<>> /\ kernel'[AcceptOp] = 0 /\ NoneAt(cq', AcceptCtx)
      BY Zenon, <1>2 DEF Setup
    <2>2. sq' = <<AcceptSqe>>
      BY <1>2, <2>1, QueueDepthAssumption DEF Setup, prep_accept, GetSqe, AcceptSqe
    <2>3. OneAt(sq', AcceptCtx)
      BY <2>2 DEF OneAt, At, AcceptSqe
    <2> QED
      BY Zenon, <1>2, <2>1, <2>3 DEF Setup, AcceptArmed
  <1>3. CASE LeaveLoop
    BY Zenon, <1>3 DEF LeaveLoop, AcceptArmed, engineVars
  <1>4. CASE Sweep
    BY Zenon, <1>4 DEF Sweep, AcceptArmed, engineVars
  <1>5. CASE ReapNothing
    BY Zenon, <1>5 DEF ReapNothing, AcceptArmed, engineVars
  <1>6. CASE ReapSome
    <2>1. batch' =< InFlight /\ batch' \in Nat
      BY <1>6, InFlightAssumption
      DEF ReapSome, reap_completions, Lesser, TypeInv, TypeOK
    <2>2. Len(sq') + batch' =< InFlight
      BY <1>6, <2>1, InFlightAssumption DEF ReapSome, engineVars
    <2> QED
      BY Zenon, <1>6, <2>2 DEF ReapSome, AcceptArmed, engineVars
  <1>7. CASE BatchEnd
    BY Zenon, <1>7 DEF BatchEnd, AcceptArmed, engineVars
  <1>8. CASE SubmitSqe
    <2> DEFINE e == Head(sq)
               c == IF e = AcceptSqe THEN None ELSE fdTable[e.fd]
               o == [kind |-> e.kind, conn |-> c, ctx |-> e.ctx]
    <2>1. /\ pc \in {"submit", "submit_and_wait"} /\ pc' = pc
          /\ sq \in Seq(Sqes) /\ sq # <<>> /\ sq' = Tail(sq) /\ e \in Sqes
          /\ kernel \in [Ops -> Nat] /\ cq \in Seq(Cqes)
      BY <1>8, TypeFacts DEF SubmitSqe
    <2>2. CASE e = AcceptSqe
      <3>1. o = AcceptOp /\ e.ctx = AcceptCtx
        BY <2>2 DEF AcceptSqe, AcceptOp
      <3>2. kernel' = [kernel EXCEPT ![AcceptOp] = @ + 1] /\ cq' = cq
        BY Zenon, <1>8, <3>1, AcceptOnly DEF SubmitSqe
      <3>3. kernel[AcceptOp] = 0 /\ OneAt(sq, AcceptCtx) /\ NoneAt(cq, AcceptCtx)
        BY Zenon, <2>1, <3>1, TailAt DEF AcceptArmed
      <3>4. kernel'[AcceptOp] = 1 /\ NoneAt(sq', AcceptCtx)
        BY SMTT(30), <2>1, <3>1, <3>2, <3>3, TailAt, AcceptOnly
      <3> QED
        BY Zenon, <2>1, <3>2, <3>3, <3>4 DEF AcceptArmed
    <2>3. CASE e # AcceptSqe
      <3>1. e.ctx # AcceptCtx
        BY Zenon, <2>1, <2>3, AcceptOnly
      <3>2. /\ NoneAt(sq, AcceptCtx) => NoneAt(sq', AcceptCtx)
            /\ OneAt(sq, AcceptCtx) => OneAt(sq', AcceptCtx)
        BY Zenon, <2>1, <3>1, TailAt
      <3>3. /\ kernel'[AcceptOp] = kernel[AcceptOp]
            /\ NoneAt(cq, AcceptCtx) => NoneAt(cq', AcceptCtx)
            /\ OneAt(cq, AcceptCtx) => OneAt(cq', AcceptCtx)
        <4>1. CASE o \in Ops
          <5>1. kernel' = [kernel EXCEPT ![o] = @ + 1] /\ cq' = cq
            BY Zenon, <1>8, <4>1 DEF SubmitSqe
          <5>2. o # AcceptOp /\ AcceptOp \in Ops
            BY Zenon, <3>1, AcceptOnly DEF AcceptOp
          <5> HIDE DEF o
          <5> QED
            BY Zenon, <2>1, <5>1, <5>2
        <4>2. CASE o \notin Ops
          <5> DEFINE x == Cqe(e.ctx, None, "error")
          <5>1. cq' = Append(cq, x) /\ kernel' = kernel
            BY Zenon, <1>8, <4>2 DEF SubmitSqe
          <5>2. x \in Cqes /\ x.ctx # AcceptCtx
            <6>1. e.ctx \in Addrs \cup {AcceptCtx}
              BY <2>1 DEF Sqes, AcceptSqe
            <6>2. "error" \in Results
              BY Zenon DEF Results
            <6>3. x \in Cqes
              BY Zenon, <6>1, <6>2, CqeType
            <6>4. x.ctx = e.ctx
              BY Zenon DEF Cqe
            <6> QED
              BY Zenon, <3>1, <6>3, <6>4
          <5> HIDE DEF x
          <5> QED
            BY Zenon, <2>1, <5>1, <5>2, AppendAt
        <4> QED
          BY Zenon, <4>1, <4>2
      <3> QED
        BY Zenon, <2>1, <3>2, <3>3, ArmedFrame
    <2> QED
      BY Zenon, <2>2, <2>3
  <1>9. CASE SubmitDone \/ WaitDone
    BY Zenon, <1>9 DEF SubmitDone, WaitDone, AcceptArmed, engineVars
  <1>10. CASE Exit
    BY Zenon, <1>10 DEF Exit, AcceptArmed
  <1> QED
    BY Zenon, <1>1, <1>2, <1>3, <1>4, <1>5, <1>6, <1>7, <1>8, <1>9, <1>10 DEF Loop

\* A handler of a connection's completion prepares at most one SQE, which is
\* not an accept.
LEMMA HandlerArmed ==
    ASSUME ArmedInv, TypeInv', pc = "cqe", pc' = "cqe", batch > 0, CqeSeen,
           Head(cq).ctx # AcceptCtx, kernel' = kernel,
           \/ sq' = sq
           \/ \E k \in IOKinds, f \in Fds, a \in Addrs :
                 sq' = GetSqe(sq, [kind |-> k, fd |-> f, ctx |-> a])
    PROVE  ArmedInv'
  <1>1. sq \in Seq(Sqes) /\ cq \in Seq(Cqes) /\ cq # <<>> /\ cq' = Tail(cq)
    BY Zenon, CqeSeenType DEF ArmedInv, TypeInv, TypeOK, CqeSeen
  <1>2. /\ NoneAt(cq, AcceptCtx) => NoneAt(cq', AcceptCtx)
        /\ OneAt(cq, AcceptCtx) => OneAt(cq', AcceptCtx)
    BY Zenon, <1>1, TailAt
  <1>3. /\ NoneAt(sq, AcceptCtx) <=> NoneAt(sq', AcceptCtx)
        /\ OneAt(sq, AcceptCtx) => OneAt(sq', AcceptCtx)
        /\ Len(sq') =< Len(sq) + 1
    <2>1. CASE sq' = sq
      BY <1>1, <2>1
    <2>2. ASSUME NEW k \in IOKinds, NEW f \in Fds, NEW a \in Addrs,
                 sq' = GetSqe(sq, [kind |-> k, fd |-> f, ctx |-> a])
          PROVE  /\ NoneAt(sq, AcceptCtx) <=> NoneAt(sq', AcceptCtx)
                 /\ OneAt(sq, AcceptCtx) => OneAt(sq', AcceptCtx)
                 /\ Len(sq') =< Len(sq) + 1
      <3> DEFINE e == [kind |-> k, fd |-> f, ctx |-> a]
      <3>1. e \in Sqes /\ e.ctx # AcceptCtx
        BY Zenon, SqeTypes, ConstantsAssumption
      <3>2. sq' = sq \/ sq' = Append(sq, e)
        BY Zenon, <2>2 DEF GetSqe
      <3> HIDE DEF e
      <3>3. Len(sq') =< Len(sq) + 1
        BY <1>1, <3>1, <3>2
      <3>4. CASE sq' = Append(sq, e)
        BY Zenon, <1>1, <3>1, <3>3, <3>4, AppendAt
      <3> QED
        BY Zenon, <2>1, <3>2, <3>3, <3>4
    <2> QED
      BY Zenon, <2>1, <2>2
  <1>4. AcceptArmed'
    BY Zenon, <1>2, <1>3, ArmedFrame
  <1>5. batch \in Nat /\ batch' = batch - 1 /\ Len(sq) \in Nat /\ Len(sq') \in Nat
    BY <1>1, TypeFacts DEF ArmedInv, CqeSeen
  <1>6. AcceptRoom'
    BY <1>3, <1>5, InFlightAssumption DEF ArmedInv, AcceptRoom
  <1> QED
    BY Zenon, <1>4, <1>6 DEF ArmedInv, SqSubmitted, NotStarted

\* The handler of an accept completion re-arms it after preparing at most
\* InFlight other SQEs, and finds room.
LEMMA RearmArmed ==
    ASSUME ArmedInv, TypeInv', QueueDepth >= 2 * InFlight,
           pc \in {"cqe", "handshake"}, pc' = "cqe", batch > 0, CqeSeen,
           Head(cq).ctx = AcceptCtx, kernel' = kernel,
           NEW q \in Seq(Sqes), Len(q) =< Len(sq) + InFlight,
           NoneAt(sq, AcceptCtx) => NoneAt(q, AcceptCtx),
           sq' = RearmAccept(q)
    PROVE  ArmedInv'
  <1>1. sq \in Seq(Sqes) /\ cq \in Seq(Cqes) /\ cq # <<>> /\ cq' = Tail(cq)
    BY Zenon, CqeSeenType DEF ArmedInv, TypeInv, TypeOK, CqeSeen
  <1>2. kernel[AcceptOp] = 0 /\ NoneAt(sq, AcceptCtx) /\ OneAt(cq, AcceptCtx)
    BY Zenon, <1>1, TailAt DEF ArmedInv, AcceptArmed
  <1>3. NoneAt(cq', AcceptCtx)
    BY Zenon, <1>1, <1>2, TailAt
  <1>4. Len(q) < QueueDepth
    <2>1. Len(sq) + batch =< InFlight
      BY Zenon, <1>2 DEF ArmedInv, AcceptRoom
    <2>2. batch \in Nat /\ Len(sq) \in Nat /\ Len(q) \in Nat
      BY SMTT(30), <1>1, TypeFacts DEF ArmedInv
    <2> QED
      BY <2>1, <2>2, InFlightAssumption, QueueDepthAssumption
  <1>5. sq' = Append(q, AcceptSqe) /\ AcceptSqe \in Sqes /\ AcceptSqe.ctx = AcceptCtx
    BY Zenon, <1>4, GetSqeProperties, SqeTypes DEF RearmAccept, prep_accept, AcceptSqe
  <1>6. OneAt(sq', AcceptCtx) /\ ~NoneAt(sq', AcceptCtx)
    <2> HIDE DEF AcceptSqe
    <2> QED
      BY <1>2, <1>5, AppendAt
  <1> QED
    BY Zenon, <1>2, <1>3, <1>6
    DEF ArmedInv, AcceptArmed, AcceptRoom, SqSubmitted, NotStarted

LEMMA HandleArmed ==
    ASSUME ArmedInv, TypeInv', QueueDepth >= 2 * InFlight, Handle
    PROVE  ArmedInv'
  <1>0. TypeInv /\ sq \in Seq(Sqes) /\ Len(sq) \in Nat
    BY TypeFacts DEF ArmedInv
  <1>1. CASE HandleAcceptError
    BY <1>0, <1>1, RearmArmed, InFlightAssumption DEF HandleAcceptError, AtAccept
  <1>2. CASE HandleAccept
    BY Zenon, <1>2 DEF HandleAccept, AtAccept, ArmedInv, AcceptArmed, AcceptRoom,
                SqSubmitted, NotStarted, engineVars
  <1>3. CASE HandleSend
    <2>1. PICK v \in Context :
              /\ AtCompletion(v, "SEND")
              /\ CqeSeen
              /\ sq' \in {sq, prep_send(sq, v.fd, Head(cq).ctx)}
      BY Zenon, <1>3 DEF HandleSend
    <2>2. \/ sq' = sq
          \/ \E k \in IOKinds, f \in Fds, a \in Addrs :
                sq' = GetSqe(sq, [kind |-> k, fd |-> f, ctx |-> a])
      BY Zenon, <1>0, <2>1, CompletionType
      DEF prep_send, prep_send_zc, prep_send_standard, IOKinds
    <2> QED
      BY Zenon, <1>3, <2>1, <2>2, HandlerArmed DEF HandleSend, AtCompletion
  <1>4. CASE HandleRecvMore
    BY Zenon, <1>4, HandlerArmed DEF HandleRecvMore, AtCompletion
  <1>5. CASE HandleRecvNoBufs
    <2>1. PICK v \in Context :
              /\ AtCompletion(v, "RECV")
              /\ CqeSeen
              /\ sq' = prep_recv_multishot(sq, v.fd, Head(cq).ctx)
      BY Zenon, <1>5 DEF HandleRecvNoBufs
    <2>2. \E k \in IOKinds, f \in Fds, a \in Addrs :
              sq' = GetSqe(sq, [kind |-> k, fd |-> f, ctx |-> a])
      BY Zenon, <1>0, <2>1, CompletionType DEF prep_recv_multishot, IOKinds
    <2>3. /\ pc = "cqe" /\ pc' = "cqe" /\ batch > 0 /\ Head(cq).ctx # AcceptCtx
          /\ kernel' = kernel
      BY Zenon, <1>5, <2>1 DEF HandleRecvNoBufs, AtCompletion
    <2> QED
      BY Zenon, <2>1, <2>2, <2>3, HandlerArmed
  <1>6. CASE HandleRecvEnd
    BY Zenon, <1>6, HandlerArmed DEF HandleRecvEnd, AtCompletion
  <1>7. CASE HandleRecvAgain
    <2>1. PICK v \in Context :
              /\ AtCompletion(v, "RECV")
              /\ CqeSeen
              /\ sq' = prep_recv(sq, v.fd, Head(cq).ctx)
      BY Zenon, <1>7 DEF HandleRecvAgain
    <2>2. \E k \in IOKinds, f \in Fds, a \in Addrs :
              sq' = GetSqe(sq, [kind |-> k, fd |-> f, ctx |-> a])
      BY Zenon, <1>0, <2>1, CompletionType DEF prep_recv, IOKinds
    <2> QED
      BY Zenon, <1>7, <2>1, <2>2, HandlerArmed DEF HandleRecvAgain, AtCompletion
  <1>8. CASE HandleRecvClose
    BY Zenon, <1>8, HandlerArmed DEF HandleRecvClose, AtCompletion
  <1>9. CASE HandleUnknown
    BY Zenon, <1>9, HandlerArmed DEF HandleUnknown, AtCompletion
  <1> QED
    BY Zenon, <1>1, <1>2, <1>3, <1>4, <1>5, <1>6, <1>7, <1>8, <1>9 DEF Handle

LEMMA OpenSessionArmed ==
    ASSUME ArmedInv, TypeInv', QueueDepth >= 2 * InFlight, AtAccept("handshake"),
           NEW n \in 0..InFlight, NEW type, NEW kind \in IOKinds, NEW isReverse,
           OpenSession(n, type, kind, isReverse)
    PROVE  ArmedInv'
  <1> DEFINE fd == Head(cq).fd
  <1>1. /\ TypeInv /\ sq \in Seq(Sqes) /\ Len(sq) =< QueueDepth
        /\ CqeSeen /\ pc = "handshake" /\ batch > 0 /\ pc' = "cqe"
        /\ Head(cq).ctx = AcceptCtx /\ kernel' = kernel
    <2>1. TypeInv
      BY Zenon DEF ArmedInv
    <2>2. sq \in Seq(Sqes) /\ Len(sq) =< QueueDepth
      BY Zenon, <2>1 DEF TypeInv, TypeOK, SqBounded
    <2>3. pc = "handshake" /\ batch > 0 /\ Head(cq).ctx = AcceptCtx
      BY Zenon DEF AtAccept
    <2>4. CqeSeen /\ pc' = "cqe" /\ kernel' = kernel
      BY Zenon DEF OpenSession
    <2> QED
      BY Zenon, <2>1, <2>2, <2>3, <2>4
  <1>2. fd \in Fds
    BY SMTT(30), <1>1, CqeSeenType DEF TypeInv, AcceptCqes, InHandshake
  <1>3. PICK new \in Injection(1..n, Addrs \ live) :
              sq' = RearmAccept(PrepEach(sq,
                          [i \in 1..n |->
                              [kind |-> kind, fd |-> fd, ctx |-> new[i]]]))
    BY Zenon DEF OpenSession
  <1> DEFINE s == [i \in 1..n |-> [kind |-> kind, fd |-> fd, ctx |-> new[i]]]
             q == PrepEach(sq, s)
  <1>4. \A i \in 1..n : new[i] \in Addrs
    BY Zenon DEF Injection
  <1>5. s \in Seq(Sqes) /\ Len(s) = n /\ \A i \in DOMAIN s : s[i].ctx # AcceptCtx
    BY SMTT(30), <1>2, <1>4, SqeTypes, ConstantsAssumption, InFlightAssumption
  <1>6. sq' = RearmAccept(q)
    BY Zenon, <1>3
  <1>s. sq \in Seq(Sqes) /\ s \in Seq(Sqes) /\ Len(sq) =< QueueDepth
    BY Zenon, <1>1, <1>5
  <1> HIDE DEF s
  <1>7. /\ q \in Seq(Sqes) /\ Len(q) =< Len(sq) + Len(s)
        /\ \A i \in DOMAIN q :
              \/ i \in DOMAIN sq /\ q[i] = sq[i]
              \/ \E j \in DOMAIN s : q[i] = s[j]
    BY <1>s, PrepEachProperties
  <1> HIDE DEF q
  <1>8. NoneAt(sq, AcceptCtx) => NoneAt(q, AcceptCtx)
    BY Zenon, <1>5, <1>7 DEF NoneAt
  <1>9. Len(q) =< Len(sq) + InFlight
    <2>1. Len(sq) \in Nat /\ Len(q) \in Nat /\ n =< InFlight /\ n \in Nat
      BY <1>1, <1>7, InFlightAssumption
    <2> QED
      BY <1>5, <1>7, <2>1, InFlightAssumption
  <1> QED
    BY Zenon, <1>1, <1>6, <1>7, <1>8, <1>9, RearmArmed

LEMMA OpenArmed ==
    ASSUME ArmedInv, TypeInv', QueueDepth >= 2 * InFlight, Open
    PROVE  ArmedInv'
  <1>1. CASE HandshakeFailed
    <2>1. sq \in Seq(Sqes) /\ Len(sq) \in Nat
      BY TypeFacts DEF ArmedInv
    <2> QED
      BY <1>1, <2>1, RearmArmed, InFlightAssumption DEF HandshakeFailed, AtAccept
  <1>n. InFlight \in 0..InFlight /\ 1 \in 0..InFlight
    BY InFlightAssumption
  <1>k. SendKind \in IOKinds /\ "RECV" \in IOKinds /\ "RECV_MULTISHOT" \in IOKinds
    BY Zenon, SqeTypes DEF IOKinds
  <1>2. CASE OpenReverse
    <2>1. AtAccept("handshake") /\ OpenSession(InFlight, "SEND", SendKind, TRUE)
      BY Zenon, <1>2 DEF OpenReverse
    <2> QED
      BY Zenon, <1>n, <1>k, <2>1, OpenSessionArmed
  <1>3. CASE OpenMultishot
    <2>1. AtAccept("handshake") /\ OpenSession(1, "RECV", "RECV_MULTISHOT", FALSE)
      BY Zenon, <1>3 DEF OpenMultishot
    <2> QED
      BY Zenon, <1>n, <1>k, <2>1, OpenSessionArmed
  <1>4. CASE OpenSingleShot
    <2>1. AtAccept("handshake") /\ OpenSession(InFlight, "RECV", "RECV", FALSE)
      BY Zenon, <1>4 DEF OpenSingleShot
    <2> QED
      BY Zenon, <1>n, <1>k, <2>1, OpenSessionArmed
  <1> QED
    BY Zenon, <1>1, <1>2, <1>3, <1>4 DEF Open

\* A completion of an operation other than the accept.
LEMMA PostingArmed ==
    ASSUME ArmedInv, TypeInv', NEW e \in Cqes, Post(e), e.ctx # AcceptCtx,
           kernel'[AcceptOp] = kernel[AcceptOp], UNCHANGED <<pc, sq, batch>>
    PROVE  ArmedInv'
  <1>1. cq \in Seq(Cqes) /\ cq' = Append(cq, e)
    BY Zenon DEF ArmedInv, TypeInv, TypeOK, Post
  <1>2. /\ NoneAt(cq, AcceptCtx) => NoneAt(cq', AcceptCtx)
        /\ OneAt(cq, AcceptCtx) => OneAt(cq', AcceptCtx)
    BY Zenon, <1>1, AppendAt
  <1>3. AcceptArmed'
    BY Zenon, <1>2 DEF ArmedInv, AcceptArmed
  <1> QED
    BY Zenon, <1>2, <1>3 DEF ArmedInv, AcceptRoom, SqSubmitted, NotStarted

\* The completion of the accept.
LEMMA AcceptPostedArmed ==
    ASSUME ArmedInv, TypeInv', NEW e \in Cqes, Post(e), e.ctx = AcceptCtx,
           kernel[AcceptOp] > 0, Finish(AcceptOp), UNCHANGED <<pc, sq, batch>>
    PROVE  ArmedInv'
  <1>1. cq \in Seq(Cqes) /\ cq' = Append(cq, e)
    BY Zenon DEF ArmedInv, TypeInv, TypeOK, Post
  <1>2. kernel'[AcceptOp] = kernel[AcceptOp] - 1 /\ kernel[AcceptOp] \in Nat
    BY Zenon, AcceptOnly DEF ArmedInv, TypeInv, TypeOK, Finish
  <1>3. pc # "start"
    BY SMTT(30), <1>2 DEF ArmedInv, NotStarted
  <1>4. CASE pc = "done"
    <2>1. pc' = "done" /\ pc' \notin {"cqe", "handshake", "start", "loop", "reap", "exit"}
      BY Zenon, <1>4
    <2> QED
      BY Zenon, <2>1 DEF ArmedInv, AcceptArmed, AcceptRoom, SqSubmitted, NotStarted
  <1>5. CASE pc # "done"
    <2>0. AcceptArmed
      BY Zenon DEF ArmedInv
    <2>1. kernel[AcceptOp] = 1 /\ NoneAt(sq, AcceptCtx) /\ NoneAt(cq, AcceptCtx)
      BY <1>2, <1>3, <1>5, <2>0 DEF AcceptArmed
    <2>2. kernel'[AcceptOp] = 0 /\ OneAt(cq', AcceptCtx)
      BY <1>1, <1>2, <2>1, AppendAt
    <2> QED
      BY Zenon, <1>3, <2>1, <2>2
      DEF ArmedInv, AcceptArmed, AcceptRoom, SqSubmitted, NotStarted
  <1> QED
    BY Zenon, <1>4, <1>5

LEMMA KernelArmed ==
    ASSUME ArmedInv, TypeInv', Kernel
    PROVE  ArmedInv'
  <1>0. kernel \in [Ops -> Nat] /\ bufs \subseteq Bufs /\ backlog \subseteq Conns
    BY Zenon DEF ArmedInv, TypeInv, TypeOK
  <1>1. CASE KernelAccept
    <2>1. PICK c \in backlog, f \in Fds :
              /\ kernel[AcceptOp] > 0
              /\ Post([Cqe(AcceptCtx, c, "positive") EXCEPT !.fd = f])
              /\ Finish(AcceptOp)
      BY Zenon, <1>1 DEF KernelAccept
    <2> DEFINE e == [Cqe(AcceptCtx, c, "positive") EXCEPT !.fd = f]
    <2>2. e \in Cqes /\ e.ctx = AcceptCtx
      BY ZenonT(30), <1>0 DEF Cqe, Cqes, Results
    <2>3. Post(e)
      BY Zenon, <2>1
    <2> HIDE DEF e
    <2> QED
      BY Zenon, <1>1, <2>1, <2>2, <2>3, AcceptPostedArmed DEF KernelAccept
  <1>2. CASE KernelAcceptError
    <2> DEFINE e == Cqe(AcceptCtx, None, "error")
    <2>1. e \in Cqes /\ e.ctx = AcceptCtx
      BY Zenon DEF Cqe, Cqes, Results
    <2>2. Post(e)
      BY Zenon, <1>2 DEF KernelAcceptError
    <2> HIDE DEF e
    <2> QED
      BY Zenon, <1>2, <2>1, <2>2, AcceptPostedArmed DEF KernelAcceptError
  <1>3. CASE KernelComplete
    <2>1. PICK k \in {"SEND", "RECV", "RECV_MULTISHOT"}, c \in Conns, a \in Addrs,
               r \in Results :
              /\ Post(Cqe(a, c, r))
              /\ Finish([kind |-> k, conn |-> c, ctx |-> a])
      BY <1>3 DEF KernelComplete, Outcomes, Results
    <2>2. Cqe(a, c, r) \in Cqes /\ Cqe(a, c, r).ctx # AcceptCtx
      BY Zenon, CqeType, ConstantsAssumption DEF Cqe
    <2>3. kernel'[AcceptOp] = kernel[AcceptOp]
      BY Zenon, <1>0, <2>1, ConstantsAssumption DEF Finish, Ops, AcceptOp
    <2> QED
      BY Zenon, <1>3, <2>1, <2>2, <2>3, PostingArmed DEF KernelComplete
  <1>4. CASE KernelSendZc
    <2>1. PICK c \in Conns, a \in Addrs, r \in Results :
              /\ Post([Cqe(a, c, r) EXCEPT !.more = TRUE])
              /\ kernel' = [kernel EXCEPT
                              ![[kind |-> "SEND_ZC", conn |-> c, ctx |-> a]] = @ - 1,
                              ![[kind |-> "NOTIF", conn |-> c, ctx |-> a]] = @ + 1]
      BY Zenon, <1>4 DEF KernelSendZc, Outcomes, Results
    <2> DEFINE e == [Cqe(a, c, r) EXCEPT !.more = TRUE]
    <2>2. e \in Cqes /\ e.ctx # AcceptCtx
      BY Zenon, ConstantsAssumption DEF Cqe, Cqes
    <2>3. kernel'[AcceptOp] = kernel[AcceptOp]
      BY Zenon, <1>0, <2>1, ConstantsAssumption DEF Ops, AcceptOp
    <2>4. Post(e)
      BY Zenon, <2>1
    <2> HIDE DEF e
    <2> QED
      BY Zenon, <1>4, <2>2, <2>3, <2>4, PostingArmed DEF KernelSendZc
  <1>5. CASE KernelNotif
    <2>1. PICK c \in Conns, a \in Addrs :
              /\ Post([Cqe(a, c, "zero") EXCEPT !.notif = TRUE])
              /\ Finish([kind |-> "NOTIF", conn |-> c, ctx |-> a])
      BY Zenon, <1>5 DEF KernelNotif
    <2> DEFINE e == [Cqe(a, c, "zero") EXCEPT !.notif = TRUE]
    <2>2. e \in Cqes /\ e.ctx # AcceptCtx
      BY Zenon, ConstantsAssumption DEF Cqe, Cqes, Results
    <2>3. kernel'[AcceptOp] = kernel[AcceptOp]
      BY Zenon, <1>0, <2>1, ConstantsAssumption DEF Finish, Ops, AcceptOp
    <2>4. Post(e)
      BY Zenon, <2>1
    <2> HIDE DEF e
    <2> QED
      BY Zenon, <1>5, <2>2, <2>3, <2>4, PostingArmed DEF KernelNotif
  <1>6. CASE KernelRecvMore
    <2>1. PICK c \in Conns, a \in Addrs, b \in bufs :
              Post([Cqe(a, c, "positive") EXCEPT !.more = TRUE, !.buf = b])
      BY Zenon, <1>6 DEF KernelRecvMore
    <2> DEFINE e == [Cqe(a, c, "positive") EXCEPT !.more = TRUE, !.buf = b]
    <2>2. e \in Cqes /\ e.ctx # AcceptCtx
      BY Zenon, <1>0, ConstantsAssumption DEF Cqe, Cqes, Results
    <2>3. Post(e)
      BY Zenon, <2>1
    <2> HIDE DEF e
    <2> QED
      BY Zenon, <1>6, <2>2, <2>3, PostingArmed DEF KernelRecvMore
  <1> QED
    BY Zenon, <1>1, <1>2, <1>3, <1>4, <1>5, <1>6 DEF Kernel

LEMMA QuietArmed ==
    ASSUME ArmedInv, TypeInv', UNCHANGED <<pc, batch, sq, kernel, cq>>
    PROVE  ArmedInv'
  BY Zenon DEF ArmedInv, AcceptArmed, AcceptRoom, SqSubmitted, NotStarted

LEMMA ArmedStep ==
    ASSUME QueueDepth >= 2 * InFlight
    PROVE  ArmedInv /\ [Next]_vars => ArmedInv'
  <1> SUFFICES ASSUME ArmedInv, [Next]_vars PROVE ArmedInv'
    BY Zenon
  <1>1. TypeInv'
    BY Zenon, TypeStep DEF ArmedInv
  <1>2. CASE Loop
    BY Zenon, <1>1, <1>2, LoopArmed
  <1>3. CASE Handle
    BY Zenon, <1>1, <1>3, HandleArmed
  <1>4. CASE Open
    BY Zenon, <1>1, <1>4, OpenArmed
  <1>5. CASE Kernel
    BY Zenon, <1>1, <1>5, KernelArmed
  <1>6. CASE Environment
    BY Zenon, <1>1, <1>6, QuietArmed
    DEF Environment, PeerConnect, PeerHandshake, PeerClose, DeadlinePasses,
        StopSignal, engineVars
  <1>7. CASE UNCHANGED vars
    BY Zenon, <1>1, <1>7, QuietArmed DEF vars, engineVars
  <1> QED
    BY Zenon, <1>2, <1>3, <1>4, <1>5, <1>6, <1>7 DEF Next, Worker, Terminated

\* With a submission queue at least twice as deep as the pipeline, the server
\* always has exactly one accept outstanding, whatever its sessions do: the
\* unchecked prep_accept() at the end of the accept handler never fails.
THEOREM AcceptStaysArmed ==
    ASSUME QueueDepth >= 2 * InFlight
    PROVE  Spec => []AcceptArmed
  <1>1. ArmedInv => AcceptArmed
    BY Zenon DEF ArmedInv
  <1>2. ArmedInv /\ [Next]_vars => ArmedInv'
    BY Zenon, ArmedStep
  <1> QED
    BY <1>1, <1>2, ArmedInit, PTL DEF Spec

--------------------------------------------------------------------------------
(* Descriptors *)

\* A completion that carries a descriptor is the only one that does, comes from
\* the accept, and the descriptor is open on the connection it names.
ArrivalsSound ==
    pc # "done" =>
        \A i \in DOMAIN cq : cq[i].fd \in Fds =>
            /\ cq[i].ctx = AcceptCtx
            /\ cq[i].res = "positive"
            /\ fdTable[cq[i].fd] = cq[i].conn
            /\ cq[i].conn \in Conns
            /\ \A j \in DOMAIN cq : cq[j].fd = cq[i].fd => j = i

FdInv ==
    /\ TypeInv
    /\ FdsOwned
    /\ ArrivalsSound

\* The completion queue loses or gains an entry that carries no descriptor.
QueueFrame ==
    \/ cq' = cq
    \/ cq # <<>> /\ cq' = Tail(cq) /\ Head(cq).fd \notin Fds
    \/ \E e \in Cqes : e.fd \notin Fds /\ cq' = Append(cq, e)

LEMMA QueueFrameArrivals ==
    ASSUME FdInv, TypeInv', pc # "done", QueueFrame,
           \A f \in Fds : Arriving(f) => fdTable'[f] = fdTable[f]
    PROVE  /\ \A f \in Fds : Arriving(f)' <=> Arriving(f)
           /\ ArrivalsSound'
  <1>1. cq \in Seq(Cqes)
    BY Zenon DEF FdInv, TypeInv, TypeOK
  <1>2. CASE cq' = cq
    BY Zenon, <1>2 DEF FdInv, ArrivalsSound, Arriving
  <1>3. CASE cq # <<>> /\ cq' = Tail(cq) /\ Head(cq).fd \notin Fds
    <2>1. /\ DOMAIN cq = 1..Len(cq) /\ DOMAIN cq' = 1..(Len(cq) - 1)
          /\ Len(cq) \in Nat /\ Len(cq) > 0
          /\ \A i \in DOMAIN cq' : cq'[i] = cq[i + 1]
          /\ Head(cq) = cq[1]
      BY <1>1, <1>3
    <2>2. ASSUME NEW f \in Fds PROVE Arriving(f)' <=> Arriving(f)
      <3>1. Arriving(f)' => Arriving(f)
        BY <2>1 DEF Arriving
      <3>2. ASSUME NEW i \in DOMAIN cq, cq[i].fd = f
            PROVE  i - 1 \in DOMAIN cq' /\ cq'[i - 1].fd = f
        BY <1>3, <2>1, <3>2
      <3> QED
        BY Zenon, <3>1, <3>2 DEF Arriving
    <2>3. ArrivalsSound'
      BY <2>1 DEF FdInv, ArrivalsSound, Arriving
    <2> QED
      BY Zenon, <2>2, <2>3
  <1>4. ASSUME NEW e \in Cqes, e.fd \notin Fds, cq' = Append(cq, e)
        PROVE  /\ \A f \in Fds : Arriving(f)' <=> Arriving(f)
               /\ ArrivalsSound'
    <2>1. /\ DOMAIN cq = 1..Len(cq) /\ DOMAIN cq' = 1..(Len(cq) + 1)
          /\ Len(cq) \in Nat
          /\ \A i \in DOMAIN cq : cq'[i] = cq[i]
          /\ cq'[Len(cq) + 1] = e
      BY <1>1, <1>4
    <2>2. \A i \in DOMAIN cq' : cq'[i].fd \in Fds => i \in DOMAIN cq /\ cq'[i] = cq[i]
      BY <1>4, <2>1
    <2>3. \A f \in Fds : Arriving(f)' <=> Arriving(f)
      BY <2>1, <2>2 DEF Arriving
    <2>4. ArrivalsSound'
      BY <2>1, <2>2 DEF FdInv, ArrivalsSound, Arriving
    <2> QED
      BY Zenon, <2>3, <2>4
  <1> QED
    BY Zenon, <1>2, <1>3, <1>4 DEF QueueFrame

\* Sessions stay as they are, or some are closed.
LEMMA FdFrame ==
    ASSUME FdInv, TypeInv', pc # "done", QueueFrame,
           \/ UNCHANGED <<fdTable, sessions>>
           \/ \E S \in SUBSET Fds : /\ \A f \in S : sessions[f] # None
                                    /\ EraseSessions(S)
    PROVE  FdInv'
  <1>1. ASSUME UNCHANGED <<fdTable, sessions>> PROVE FdInv'
    BY Zenon, <1>1, QueueFrameArrivals DEF FdInv, FdsOwned
  <1>2. ASSUME NEW S \in SUBSET Fds, \A f \in S : sessions[f] # None, EraseSessions(S)
        PROVE  FdInv'
    <2>1. \A f \in Fds : f \in S => ~Arriving(f)
      BY Zenon, <1>2 DEF FdInv, FdsOwned
    <2>2. \A f \in Fds :
              IF f \in S THEN fdTable'[f] = None /\ sessions'[f] = None
              ELSE fdTable'[f] = fdTable[f] /\ sessions'[f] = sessions[f]
      BY Zenon, <1>2 DEF EraseSessions
    <2>3. /\ \A f \in Fds : Arriving(f)' <=> Arriving(f)
          /\ ArrivalsSound'
      BY Zenon, <2>1, <2>2, QueueFrameArrivals
    <2> QED
      BY Zenon, <2>1, <2>2, <2>3 DEF FdInv, FdsOwned
  <1> QED
    BY Zenon, <1>1, <1>2

LEMMA FdInit == Init => FdInv
  <1> SUFFICES ASSUME Init PROVE FdInv
    BY Zenon
  <1>1. /\ pc = "start" /\ cq = <<>>
        /\ fdTable = [f \in Fds |-> None] /\ sessions = [f \in Fds |-> None]
    BY Zenon DEF Init
  <1> QED
    BY <1>1, TypeInit DEF FdInv, FdsOwned, Arriving, ArrivalsSound

LEMMA LoopFd ==
    ASSUME FdInv, TypeInv', Loop
    PROVE  FdInv'
  <1>1. CASE SetupFail \/ Exit
    BY Zenon, <1>1 DEF SetupFail, Exit, FdInv, FdsOwned, ArrivalsSound
  <1>2. CASE Setup \/ LeaveLoop \/ ReapNothing \/ ReapSome \/ BatchEnd
             \/ SubmitDone \/ WaitDone
    BY Zenon, <1>2, FdFrame
    DEF Setup, LeaveLoop, ReapNothing, ReapSome, BatchEnd, SubmitDone, WaitDone,
        QueueFrame, engineVars, sessionVars
  <1>3. CASE Sweep
    <2>1. /\ Expired \in SUBSET Fds
          /\ \A f \in Expired : sessions[f] # None
          /\ EraseSessions(Expired) /\ pc # "done" /\ cq' = cq
      BY Zenon, <1>3 DEF Sweep, Expired, engineVars
    <2> HIDE DEF Expired
    <2> QED
      BY Zenon, <2>1, FdFrame DEF QueueFrame
  <1>4. CASE SubmitSqe
    <2>1. pc # "done" /\ UNCHANGED <<fdTable, sessions>>
      BY Zenon, <1>4 DEF SubmitSqe, sessionVars
    <2>2. QueueFrame
      <3>0. sq \in Seq(Sqes) /\ sq # <<>>
        BY Zenon, <1>4 DEF SubmitSqe, FdInv, TypeInv, TypeOK
      <3>1. Head(sq) \in Sqes
        BY <3>0
      <3> DEFINE x == Cqe(Head(sq).ctx, None, "error")
      <3>2. Head(sq).ctx \in Addrs \cup {AcceptCtx} /\ "error" \in Results
        BY <3>1 DEF Sqes, AcceptSqe, Results
      <3>3. x \in Cqes
        BY Zenon, <3>2, CqeType
      <3>4. x.fd \notin Fds
        BY Zenon, ConstantsAssumption DEF Cqe
      <3>5. cq' = cq \/ cq' = Append(cq, x)
        BY Zenon, <1>4 DEF SubmitSqe
      <3> HIDE DEF x
      <3> QED
        BY Zenon, <3>3, <3>4, <3>5 DEF QueueFrame
    <2> QED
      BY Zenon, <2>1, <2>2, FdFrame
  <1> QED
    BY Zenon, <1>1, <1>2, <1>3, <1>4 DEF Loop

LEMMA HandleFd ==
    ASSUME FdInv, TypeInv', Handle
    PROVE  FdInv'
  <1>1. pc = "cqe" /\ batch > 0
    BY Zenon DEF Handle, HandleAcceptError, HandleAccept, HandleSend, HandleRecvMore,
           HandleRecvNoBufs, HandleRecvEnd, HandleRecvAgain, HandleRecvClose,
           HandleUnknown, AtAccept, AtCompletion
  <1>2. cq \in Seq(Cqes) /\ cq # <<>> /\ Head(cq) = cq[1] /\ 1 \in DOMAIN cq
    BY <1>1, TypeFacts DEF FdInv
  <1>3. Head(cq).ctx # AcceptCtx \/ Head(cq).res # "positive" => Head(cq).fd \notin Fds
    BY Zenon, <1>1, <1>2 DEF FdInv, ArrivalsSound
  <1>4. CASE HandleAccept
    BY Zenon, <1>1, <1>4, FdFrame DEF HandleAccept, QueueFrame, engineVars, sessionVars
  <1>5. CASE HandleAcceptError
    BY Zenon, <1>1, <1>2, <1>3, <1>5, FdFrame
    DEF HandleAcceptError, CqeSeen, QueueFrame, sessionVars
  <1>6. CASE HandleSend \/ HandleRecvMore \/ HandleRecvNoBufs \/ HandleRecvAgain
             \/ HandleUnknown
    <2>1. Head(cq).ctx # AcceptCtx /\ CqeSeen /\ UNCHANGED <<fdTable, sessions>>
      BY Zenon, <1>6 DEF HandleSend, HandleRecvMore, HandleRecvNoBufs, HandleRecvAgain,
                  HandleUnknown, AtCompletion, sessionVars
    <2> QED
      BY Zenon, <1>1, <1>2, <1>3, <2>1, FdFrame DEF CqeSeen, QueueFrame
  <1>7. CASE HandleRecvEnd \/ HandleRecvClose
    <2>1. PICK v \in Context :
              Head(cq).ctx # AcceptCtx /\ CqeSeen /\ CloseIfPresent(v.fd)
      BY Zenon, <1>7 DEF HandleRecvEnd, HandleRecvClose, AtCompletion
    <2>2. \E S \in SUBSET Fds : /\ \A f \in S : sessions[f] # None
                                /\ EraseSessions(S)
      BY Zenon, <2>1 DEF CloseIfPresent
    <2> QED
      BY Zenon, <1>1, <1>2, <1>3, <2>1, <2>2, FdFrame DEF CqeSeen, QueueFrame
  <1> QED
    BY Zenon, <1>4, <1>5, <1>6, <1>7 DEF Handle

\* The accept completion at the head is consumed: its descriptor is closed, or
\* becomes that of a session.
LEMMA OpenFd ==
    ASSUME FdInv, TypeInv', Open
    PROVE  FdInv'
  <1> DEFINE fd == Head(cq).fd
             c == Head(cq).conn
  <1>1. pc = "handshake" /\ batch > 0 /\ pc' = "cqe" /\ cq' = Tail(cq)
    BY Zenon DEF Open, HandshakeFailed, OpenReverse, OpenMultishot, OpenSingleShot,
           OpenSession, AtAccept, CqeSeen
  <1>2. /\ DOMAIN cq = 1..Len(cq) /\ DOMAIN cq' = 1..(Len(cq) - 1)
        /\ Len(cq) \in Nat /\ Len(cq) > 0
        /\ \A i \in DOMAIN cq' : cq'[i] = cq[i + 1]
        /\ Head(cq) = cq[1]
    BY SMTT(30), <1>1, TypeFacts DEF FdInv
  <1>3. fd \in Fds /\ c \in Conns
    <2>1. AcceptCqes /\ InHandshake
      BY Zenon DEF FdInv, TypeInv
    <2> QED
      BY <1>1, <1>2, <2>1 DEF AcceptCqes, InHandshake
  <1>4. fdTable[fd] = c /\ \A j \in DOMAIN cq : cq[j].fd = fd => j = 1
    BY <1>1, <1>2, <1>3 DEF FdInv, ArrivalsSound
  <1>5. /\ \A f \in Fds : f # fd => fdTable'[f] = fdTable[f] /\ sessions'[f] = sessions[f]
        /\ fdTable'[fd] = sessions'[fd]
    <2>1. CASE HandshakeFailed
      <3>1. sessions[fd] = None
        BY <1>1, <1>2, <1>3 DEF FdInv, FdsOwned, Arriving
      <3>2. fdTable' = [fdTable EXCEPT ![fd] = None] /\ sessions' = sessions
        BY Zenon, <2>1 DEF HandshakeFailed
      <3> QED
        BY Zenon, <1>3, <3>1, <3>2 DEF FdInv, TypeInv, TypeOK
    <2>2. CASE OpenReverse \/ OpenMultishot \/ OpenSingleShot
      <3>1. sessions' = [sessions EXCEPT ![fd] = c] /\ fdTable' = fdTable
        BY Zenon, <2>2 DEF OpenReverse, OpenMultishot, OpenSingleShot, OpenSession
      <3> QED
        BY Zenon, <1>3, <1>4, <3>1 DEF FdInv, TypeInv, TypeOK
    <2> QED
      BY Zenon, <2>1, <2>2 DEF Open
  <1>6. \A f \in Fds : IF f = fd THEN ~Arriving(f)' ELSE Arriving(f)' <=> Arriving(f)
    <2>1. ASSUME NEW f \in Fds, f = fd PROVE ~Arriving(f)'
      BY <1>2, <1>4, <2>1 DEF Arriving
    <2>2. ASSUME NEW f \in Fds, f # fd PROVE Arriving(f)' <=> Arriving(f)
      <3>1. Arriving(f)' => Arriving(f)
        BY <1>2 DEF Arriving
      <3>2. ASSUME NEW i \in DOMAIN cq, cq[i].fd = f
            PROVE  i - 1 \in DOMAIN cq' /\ cq'[i - 1].fd = f
        BY <1>2, <2>2, <3>2
      <3> QED
        BY Zenon, <3>1, <3>2 DEF Arriving
    <2> QED
      BY Zenon, <2>1, <2>2
  <1>7. FdsOwned'
    BY Zenon, <1>1, <1>3, <1>5, <1>6 DEF FdInv, FdsOwned
  <1>8. ArrivalsSound'
    BY <1>1, <1>2, <1>4, <1>5 DEF FdInv, ArrivalsSound
  <1> QED
    BY Zenon, <1>7, <1>8 DEF FdInv

LEMMA KernelFd ==
    ASSUME FdInv, TypeInv', Kernel
    PROVE  FdInv'
  <1>0. CASE pc = "done"
    <2>1. pc' = "done"
      BY Zenon, <1>0 DEF Kernel, KernelAccept, KernelAcceptError, KernelComplete,
                  KernelSendZc, KernelNotif, KernelRecvMore
    <2> QED
      BY Zenon, <2>1 DEF FdInv, FdsOwned, ArrivalsSound
  <1>1. CASE pc # "done" /\ KernelAccept
    <2>1. PICK c \in backlog, f \in Fds :
              /\ fdTable[f] = None
              /\ fdTable' = [fdTable EXCEPT ![f] = c]
              /\ Post([Cqe(AcceptCtx, c, "positive") EXCEPT !.fd = f])
              /\ sessions' = sessions /\ pc' = pc
      BY Zenon, <1>1 DEF KernelAccept
    <2> DEFINE e == [Cqe(AcceptCtx, c, "positive") EXCEPT !.fd = f]
    <2>2. /\ e.fd = f /\ e.conn = c /\ e.ctx = AcceptCtx /\ e.res = "positive"
          /\ c \in Conns /\ e \in Cqes
      BY Zenon DEF Cqe, Cqes, Results, FdInv, TypeInv, TypeOK
    <2>3. cq' = Append(cq, e) /\ cq \in Seq(Cqes)
      BY Zenon, <2>1 DEF Post, FdInv, TypeInv, TypeOK
    <2> HIDE DEF e
    <2>4. /\ DOMAIN cq = 1..Len(cq) /\ DOMAIN cq' = 1..(Len(cq) + 1)
          /\ Len(cq) \in Nat
          /\ \A i \in DOMAIN cq : cq'[i] = cq[i]
          /\ cq'[Len(cq) + 1] = e
      BY <2>2, <2>3
    <2>5. ~Arriving(f) /\ sessions[f] = None
      BY Zenon, <1>1, <2>1 DEF FdInv, FdsOwned
    <2>6. Arriving(f)' /\ \A g \in Fds : g # f => (Arriving(g)' <=> Arriving(g))
      BY <2>2, <2>4 DEF Arriving
    <2>7. /\ fdTable'[f] = c /\ c # None
          /\ \A g \in Fds : g # f => fdTable'[g] = fdTable[g]
      BY Zenon, <2>1, <2>2, ConstantsAssumption DEF FdInv, TypeInv, TypeOK
    <2>8. FdsOwned'
      BY Zenon, <1>1, <2>1, <2>5, <2>6, <2>7 DEF FdInv, FdsOwned
    <2>9. ArrivalsSound'
      <3>1. \A i \in DOMAIN cq : cq[i].fd # f
        BY Zenon, <2>5 DEF Arriving
      <3> QED
        BY <1>1, <2>2, <2>4, <2>7, <3>1 DEF FdInv, ArrivalsSound
    <2> QED
      BY Zenon, <2>8, <2>9 DEF FdInv
  <1>2. CASE pc # "done" /\ (Kernel /\ ~KernelAccept)
    <2>1. UNCHANGED <<fdTable, sessions>>
      BY Zenon, <1>2 DEF Kernel, KernelAcceptError, KernelComplete, KernelSendZc,
                  KernelNotif, KernelRecvMore, sessionVars
    <2>2. \E e \in Cqes : e.fd \notin Fds /\ cq' = Append(cq, e)
      <3>0. bufs \subseteq Bufs
        BY Zenon DEF FdInv, TypeInv, TypeOK
      <3>1. CASE KernelAcceptError
        BY Zenon, <3>1, ConstantsAssumption
           DEF KernelAcceptError, Post, Cqe, Cqes, Results
      <3>2. CASE KernelComplete
        <4>1. PICK c \in Conns, a \in Addrs, r \in Results : Post(Cqe(a, c, r))
          BY <3>2 DEF KernelComplete, Outcomes, Results
        <4> QED
          BY Zenon, <4>1, CqeType, ConstantsAssumption DEF Post, Cqe
      <3>3. CASE KernelSendZc
        <4>1. PICK c \in Conns, a \in Addrs, r \in Results :
                  Post([Cqe(a, c, r) EXCEPT !.more = TRUE])
          BY Zenon, <3>3 DEF KernelSendZc, Outcomes, Results
        <4> QED
          BY Zenon, <4>1, ConstantsAssumption DEF Post, Cqe, Cqes
      <3>4. CASE KernelNotif
        BY Zenon, <3>4, ConstantsAssumption DEF KernelNotif, Post, Cqe, Cqes, Results
      <3>5. CASE KernelRecvMore
        BY Zenon, <3>0, <3>5, ConstantsAssumption
           DEF KernelRecvMore, Post, Cqe, Cqes, Results
      <3> QED
        BY Zenon, <1>2, <3>1, <3>2, <3>3, <3>4, <3>5 DEF Kernel
    <2> QED
      BY Zenon, <1>2, <2>1, <2>2, FdFrame DEF QueueFrame
  <1> QED
    BY Zenon, <1>0, <1>1, <1>2

LEMMA QuietFd ==
    ASSUME FdInv, TypeInv', UNCHANGED <<pc, cq, fdTable, sessions>>
    PROVE  FdInv'
  BY Zenon DEF FdInv, FdsOwned, Arriving, ArrivalsSound

LEMMA FdStep == FdInv /\ [Next]_vars => FdInv'
  <1> SUFFICES ASSUME FdInv, [Next]_vars PROVE FdInv'
    BY Zenon
  <1>1. TypeInv'
    BY Zenon, TypeStep DEF FdInv
  <1>2. CASE Loop
    BY Zenon, <1>1, <1>2, LoopFd
  <1>3. CASE Handle
    BY Zenon, <1>1, <1>3, HandleFd
  <1>4. CASE Open
    BY Zenon, <1>1, <1>4, OpenFd
  <1>5. CASE Kernel
    BY Zenon, <1>1, <1>5, KernelFd
  <1>6. CASE Environment
    BY Zenon, <1>1, <1>6, QuietFd
    DEF Environment, PeerConnect, PeerHandshake, PeerClose, DeadlinePasses,
        StopSignal, engineVars, sessionVars
  <1>7. CASE UNCHANGED vars
    BY Zenon, <1>1, <1>7, QuietFd DEF vars, engineVars, sessionVars
  <1> QED
    BY Zenon, <1>2, <1>3, <1>4, <1>5, <1>6, <1>7 DEF Next, Worker, Terminated

\* While the worker runs every open descriptor has exactly one owner, for any
\* queue depth, any mix of session kinds and any late completion: no descriptor
\* leaks, none is closed twice, and no session is replaced in the map.
THEOREM FdsAlwaysOwned == Spec => []FdsOwned
  <1>1. FdInv => FdsOwned
    BY Zenon DEF FdInv
  <1> QED
    BY <1>1, FdInit, FdStep, PTL DEF Spec

--------------------------------------------------------------------------------
(* Multishot receive and sending clients only: what refers to a context *)

\* No peer asks for the reverse direction.
OnlyForward == \A c \in Conns : hs[c] # "reverse" /\ ~reverse[c]

\* A connection waits to be accepted, or has one descriptor, or neither.
ConnsApart ==
    /\ \A c \in backlog : peer[c] # "idle"
    /\ \A f \in Fds : fdTable[f] # None =>
          /\ fdTable[f] \notin backlog /\ peer[fdTable[f]] # "idle"
          /\ \A g \in Fds : fdTable[g] = fdTable[f] => g = f

\* Each session has one context, and each context a session.
ContextsOwned ==
    /\ \A a \in live :
          /\ ctx[a].type = "RECV" /\ ctx[a].fd \in Fds /\ ctx[a].conn \in Conns
          /\ sessions[ctx[a].fd] = ctx[a].conn
          /\ \A b \in live : ctx[b].fd = ctx[a].fd => b = a
    /\ \A f \in Fds : sessions[f] # None => \E a \in live : ctx[a].fd = f

\* The receive of context a, as the kernel has it.
RxOp(a) == [kind |-> "RECV_MULTISHOT", conn |-> ctx[a].conn, ctx |-> a]

SqRefs ==
    \A i \in DOMAIN sq : sq[i].ctx # AcceptCtx =>
        /\ sq[i].ctx \in live
        /\ sq[i].kind = "RECV_MULTISHOT" /\ sq[i].fd = ctx[sq[i].ctx].fd

KernelRefs ==
    \A o \in Ops : kernel[o] > 0 /\ o # AcceptOp => o.ctx \in live /\ o = RxOp(o.ctx)

\* A completion with IORING_CQE_F_MORE carries a buffer, no other one does.
CqRef(e) ==
    IF e.ctx = AcceptCtx THEN e.buf = None
    ELSE /\ e.ctx \in live /\ e.conn = ctx[e.ctx].conn
         /\ IF e.more THEN e.res = "positive" /\ e.buf \in Bufs
            ELSE e.res \in {"nobufs", "zero", "error"} /\ e.buf = None

CqRefs == \A i \in DOMAIN cq : CqRef(cq[i])

\* At most one receive is under way for a context: prepared, in the kernel, or
\* ended; and its end comes after all that it reported before.
OneReceive(a) ==
    /\ \A i, j \in At(sq, a) : i = j
    /\ kernel[RxOp(a)] =< 1
    /\ kernel[RxOp(a)] > 0 => NoneAt(sq, a)
    /\ \A i \in At(cq, a) : ~cq[i].more =>
          /\ NoneAt(sq, a) /\ kernel[RxOp(a)] = 0
          /\ \A j \in At(cq, a) : j =< i

\* Before it starts and after it has returned the worker has nothing under way.
AtRest ==
    pc \in {"start", "done"} =>
        /\ live = {} /\ sq = <<>> /\ cq = <<>>
        /\ \A o \in Ops : kernel[o] = 0

PeerInv ==
    /\ OnlyForward
    /\ ConnsApart

RefInv ==
    /\ ContextsOwned
    /\ SqRefs
    /\ KernelRefs
    /\ CqRefs
    /\ \A a \in live : OneReceive(a)

ForwardInv ==
    /\ FdInv
    /\ PeerInv
    /\ RefInv
    /\ AtRest

\* The receive of a was not dropped for want of an SQE.
WatchedAt(a) == \/ ~NoneAt(sq, a)
                \/ kernel[RxOp(a)] > 0
                \/ \E i \in At(cq, a) : ~cq[i].more

Watched == \A a \in live : WatchedAt(a)

\* What is prepared in a batch, and one SQE for each completion still to come.
SqRoom == pc \in {"cqe", "handshake"} => Len(sq) + batch =< InFlight + 1

\* An SQE may be prepared, and an accept after it.
SqGrows(e) ==
    /\ \A i \in DOMAIN sq : i \in DOMAIN sq' /\ sq'[i] = sq[i]
    /\ \A i \in DOMAIN sq' : \/ i \in DOMAIN sq
                             \/ i = Len(sq) + 1 /\ sq'[i] = e
                             \/ sq'[i].ctx = AcceptCtx

\* A loop over one context prepares its SQE if there is room.
LEMMA PrepEachOne ==
    ASSUME NEW S, NEW q \in Seq(S), NEW e \in S, Len(q) =< QueueDepth,
           NEW s \in Seq(S), Len(s) = 1, s[1] = e
    PROVE  PrepEach(q, s) = GetSqe(q, e)
  <1>1. CASE Len(q) < QueueDepth
    <2>1. Lesser(Len(s), QueueDepth - Len(q)) = 1
      BY <1>1, QueueDepthAssumption DEF Lesser
    <2>2. SubSeq(s, 1, 1) = <<e>>
      <3>1. /\ SubSeq(s, 1, 1) \in Seq(S) /\ Len(SubSeq(s, 1, 1)) = 1
            /\ SubSeq(s, 1, 1)[1] = e
        OBVIOUS
      <3>2. <<e>> \in Seq(S) /\ Len(<<e>>) = 1 /\ <<e>>[1] = e
        OBVIOUS
      <3>3. \A i \in 1..1 : SubSeq(s, 1, 1)[i] = <<e>>[i]
        BY <3>1, <3>2
      <3> QED
        BY Zenon, <3>1, <3>2, <3>3, QueuesEqual
    <2>3. PrepEach(q, s) = q \o <<e>>
      BY Zenon, <2>1, <2>2 DEF PrepEach
    <2> QED
      BY <1>1, <2>3 DEF GetSqe
  <1>2. CASE ~(Len(q) < QueueDepth)
    <2>1. Lesser(Len(s), QueueDepth - Len(q)) = 0
      BY <1>2, QueueDepthAssumption DEF Lesser
    <2>2. SubSeq(s, 1, 0) = <<>>
      OBVIOUS
    <2>3. PrepEach(q, s) = q \o <<>>
      BY Zenon, <2>1, <2>2 DEF PrepEach
    <2> QED
      BY <1>2, <2>3 DEF GetSqe
  <1> QED
    BY Zenon, <1>1, <1>2

\* What the preparing calls do to the queue, entry by entry.
LEMMA GrowsOne ==
    ASSUME TypeInv, NEW e \in Sqes, sq' = GetSqe(sq, e)
    PROVE  /\ SqGrows(e)
           /\ Len(sq) < QueueDepth => /\ Len(sq) + 1 \in DOMAIN sq'
                                      /\ sq'[Len(sq) + 1] = e
           /\ Len(sq') =< Len(sq) + 1
  <1>1. sq \in Seq(Sqes)
    BY Zenon DEF TypeInv, TypeOK
  <1> QED
    BY <1>1 DEF GetSqe, SqGrows

\* The SQE of a new session, then the accept.
LEMMA GrowsTwo ==
    ASSUME TypeInv, NEW e \in Sqes, sq' = RearmAccept(GetSqe(sq, e))
    PROVE  /\ SqGrows(e)
           /\ Len(sq) < QueueDepth => /\ Len(sq) + 1 \in DOMAIN sq'
                                      /\ sq'[Len(sq) + 1] = e
           /\ Len(sq') =< Len(sq) + 2
  <1>1. sq \in Seq(Sqes) /\ AcceptSqe \in Sqes /\ AcceptSqe.ctx = AcceptCtx
    BY Zenon, SqeTypes DEF TypeInv, TypeOK, AcceptSqe
  <1>2. PICK q : q = GetSqe(sq, e)
    BY Zenon
  <1>3. q = sq \/ q = Append(sq, e)
    BY Zenon, <1>2 DEF GetSqe
  <1>4. q \in Seq(Sqes) /\ Len(sq) \in Nat /\ Len(q) \in Nat
    BY <1>1, <1>3
  <1>5. /\ Len(q) =< Len(sq) + 1 /\ Len(sq) =< Len(q)
        /\ \A i \in DOMAIN sq : i \in DOMAIN q /\ q[i] = sq[i]
        /\ \A i \in DOMAIN q : i \in DOMAIN sq \/ (i = Len(sq) + 1 /\ q[i] = e)
    <2>1. CASE q = sq
      BY <1>4, <2>1
    <2>2. CASE q = Append(sq, e)
      BY <1>1, <2>2
    <2> QED
      BY Zenon, <1>3, <2>1, <2>2
  <1>6. Len(sq) < QueueDepth => Len(sq) + 1 \in DOMAIN q /\ q[Len(sq) + 1] = e
    BY <1>1, <1>2 DEF GetSqe
  <1>7. sq' = q \/ sq' = Append(q, AcceptSqe)
    BY Zenon, <1>2 DEF RearmAccept, prep_accept, GetSqe, AcceptSqe
  <1>8. /\ Len(sq') =< Len(q) + 1
        /\ \A i \in DOMAIN q : i \in DOMAIN sq' /\ sq'[i] = q[i]
        /\ \A i \in DOMAIN sq' : i \in DOMAIN q \/ sq'[i] = AcceptSqe
    <2> HIDE DEF AcceptSqe
    <2> QED
      BY <1>1, <1>4, <1>7
  <1>9. SqGrows(e)
    BY Zenon, <1>1, <1>5, <1>8 DEF SqGrows
  <1>10. Len(sq') =< Len(sq) + 2
    <2>1. Len(sq') \in Nat
      <3> HIDE DEF AcceptSqe
      <3> QED
        BY <1>1, <1>4, <1>7
    <2> QED
      BY <1>4, <1>5, <1>8, <2>1
  <1> QED
    BY Zenon, <1>6, <1>8, <1>9, <1>10

\* The accept carries the context of no session.
LEMMA AcceptCtxOfSqe ==
    /\ AcceptSqe.kind = "ACCEPT" /\ AcceptSqe.ctx = AcceptCtx
    /\ AcceptOp.ctx = AcceptCtx
  BY Zenon DEF AcceptSqe, AcceptOp

\* Nothing held is no more than one, and what is not more than nothing is nothing.
LEMMA NoneHeld == ASSUME NEW n, n = 0 PROVE n =< 1 /\ ~(n > 0)
  OBVIOUS

LEMMA NotHeld == ASSUME NEW n \in Nat, ~(n > 0) PROVE n = 0
  OBVIOUS

LEMMA HeadIn == ASSUME NEW S, NEW q \in Seq(S), q # <<>> PROVE Head(q) \in S
  OBVIOUS

LEMMA TailIs ==
    ASSUME NEW S, NEW q \in Seq(S), q # <<>>, NEW p, p = Tail(q)
    PROVE  /\ \A i \in DOMAIN p : i + 1 \in DOMAIN q /\ p[i] = q[i + 1]
           /\ 1 \in DOMAIN q /\ Head(q) = q[1]
           /\ DOMAIN q \subseteq Nat /\ DOMAIN p \subseteq Nat
           /\ \A i \in DOMAIN p : i > 0
  OBVIOUS

\* A step that leaves the queues, the kernel and the contexts alone.
LEMMA RefQuiet ==
    ASSUME RefInv, UNCHANGED <<sq, kernel, cq, sessions, ctx, live>>
    PROVE  RefInv'
  <1>1. ContextsOwned' /\ SqRefs' /\ CqRefs'
    BY Zenon DEF RefInv, ContextsOwned, SqRefs, CqRefs, CqRef
  <1>2. \A a : RxOp(a)' = RxOp(a)
    BY Zenon DEF RxOp
  <1>3. KernelRefs'
    BY Zenon, <1>2 DEF RefInv, KernelRefs
  <1>4. \A a \in live' : OneReceive(a)'
    BY Zenon, <1>2 DEF RefInv, OneReceive
  <1> QED
    BY Zenon, <1>1, <1>3, <1>4 DEF RefInv

\* The receive of a live context is an operation, and not the accept.
LEMMA RxOps ==
    ASSUME TypeInv, ContextsOwned, NEW a \in live
    PROVE  /\ RxOp(a) \in Ops /\ RxOp(a) # AcceptOp /\ RxOp(a).ctx = a
           /\ a # AcceptCtx /\ a \in Addrs
  <1>1. a \in Addrs /\ ctx[a].conn \in Conns
    BY Zenon DEF TypeInv, TypeOK, ContextsOwned
  <1> QED
    BY Zenon, <1>1, ConstantsAssumption DEF RxOp, Ops, IOKinds, AcceptOp

\* A completion is marked seen, and no SQE is prepared for context b.
LEMMA SeenOther ==
    ASSUME TypeInv, pc \in {"cqe", "handshake"}, batch > 0, CqeSeen,
           NEW e, SqGrows(e), NEW b, OneReceive(b), b # AcceptCtx, e.ctx # b,
           kernel' = kernel, ctx'[b] = ctx[b]
    PROVE  OneReceive(b)'
  <1>1. /\ \A i \in DOMAIN cq' : i + 1 \in DOMAIN cq /\ cq'[i] = cq[i + 1]
        /\ DOMAIN cq \subseteq Nat /\ DOMAIN cq' \subseteq Nat
    BY Zenon, CqeSeenType
  <1>2. \A i \in DOMAIN sq' : \/ i \in DOMAIN sq /\ sq'[i] = sq[i]
                              \/ sq'[i] = e \/ sq'[i].ctx = AcceptCtx
    BY Zenon DEF SqGrows
  <1>3. \A i \in At(sq', b) : i \in At(sq, b)
    BY Zenon, <1>2 DEF At
  <1>4. NoneAt(sq, b) => NoneAt(sq', b)
    BY Zenon, <1>2 DEF NoneAt
  <1>5. \A i \in At(cq', b) : i + 1 \in At(cq, b) /\ cq'[i] = cq[i + 1]
    BY Zenon, <1>1 DEF At
  <1>6. ASSUME NEW i \in At(cq', b), ~cq'[i].more
        PROVE  /\ NoneAt(sq', b) /\ kernel[RxOp(b)] = 0
               /\ \A j \in At(cq', b) : j =< i
    <2>1. i + 1 \in At(cq, b) /\ ~cq[i + 1].more
      BY Zenon, <1>5, <1>6
    <2>2. NoneAt(sq, b) /\ kernel[RxOp(b)] = 0 /\ \A j \in At(cq, b) : j =< i + 1
      BY Zenon, <2>1 DEF OneReceive
    <2>3. ASSUME NEW j \in At(cq', b) PROVE j =< i
      <3>1. j + 1 =< i + 1 /\ j \in Nat /\ i \in Nat
        BY Zenon, <1>1, <1>5, <2>2 DEF At
      <3> QED
        BY <3>1
    <2> QED
      BY Zenon, <1>4, <2>2, <2>3
  <1>7. \A i, j \in At(sq', b) : i = j
    BY Zenon, <1>3 DEF OneReceive
  <1>8. kernel[RxOp(b)] =< 1 /\ (kernel[RxOp(b)] > 0 => NoneAt(sq', b))
    BY Zenon, <1>4 DEF OneReceive
  <1>9. RxOp(b)' = RxOp(b)
    BY Zenon DEF RxOp
  <1> QED
    BY Zenon, <1>6, <1>7, <1>8, <1>9 DEF OneReceive

\* A completion is marked seen that was not the end of a receive.
LEMMA RefSeen ==
    ASSUME TypeInv, RefInv, pc \in {"cqe", "handshake"}, batch > 0, CqeSeen,
           Head(cq).ctx = AcceptCtx \/ Head(cq).more, SqGrows(AcceptSqe),
           UNCHANGED <<kernel, sessions, ctx, live>>
    PROVE  RefInv'
  <1>1. /\ \A i \in DOMAIN cq' : i + 1 \in DOMAIN cq /\ cq'[i] = cq[i + 1]
        /\ DOMAIN cq \subseteq Nat /\ DOMAIN cq' \subseteq Nat
    BY Zenon, CqeSeenType
  <1>2. \A i \in DOMAIN sq' : \/ i \in DOMAIN sq /\ sq'[i] = sq[i]
                              \/ sq'[i].ctx = AcceptCtx
    BY Zenon, AcceptCtxOfSqe DEF SqGrows
  <1>3. \A a \in live : a # AcceptCtx
    BY Zenon, RxOps DEF RefInv
  <1>4. ContextsOwned'
    BY Zenon DEF RefInv, ContextsOwned
  <1>5. SqRefs'
    BY Zenon, <1>2 DEF RefInv, SqRefs
  <1>6. KernelRefs'
    BY Zenon DEF RefInv, KernelRefs, RxOp
  <1>7. CqRefs'
    <2>1. ASSUME NEW i \in DOMAIN cq', NEW x, x = cq'[i] PROVE CqRef(x)'
      <3>1. CqRef(x)
        BY Zenon, <1>1, <2>1 DEF RefInv, CqRefs
      <3> QED
        BY Zenon, <3>1 DEF CqRef
    <2> QED
      BY Zenon, <2>1 DEF CqRefs, CqRef
  <1>8. ASSUME NEW a \in live PROVE OneReceive(a)'
    <2>1. OneReceive(a) /\ a # AcceptCtx /\ AcceptSqe.ctx # a
      BY Zenon, <1>3, AcceptCtxOfSqe DEF RefInv
    <2> QED
      BY Zenon, <2>1, SeenOther
  <1> QED
    BY Zenon, <1>4, <1>5, <1>6, <1>7, <1>8 DEF RefInv

\* The head of the batch is the end of the receive of context a: nothing else
\* refers to a.
LEMMA EndIsLast ==
    ASSUME TypeInv, RefInv, pc \in {"cqe", "handshake"}, batch > 0, CqeSeen,
           NEW a, Head(cq).ctx = a, a # AcceptCtx, ~Head(cq).more
    PROVE  /\ a \in live /\ NoneAt(sq, a) /\ kernel[RxOp(a)] = 0 /\ NoneAt(cq', a)
           /\ Head(cq).conn = ctx[a].conn /\ Head(cq).buf = None
           /\ Head(cq).res \in {"nobufs", "zero", "error"}
  <1>1. /\ \A i \in DOMAIN cq' : i + 1 \in DOMAIN cq /\ cq'[i] = cq[i + 1]
        /\ DOMAIN cq \subseteq Nat /\ DOMAIN cq' \subseteq Nat
        /\ \A i \in DOMAIN cq' : i > 0
        /\ 1 \in DOMAIN cq /\ Head(cq) = cq[1]
    BY CqeSeenType, TypeFacts
  <1>2. CqRef(cq[1])
    BY Zenon, <1>1 DEF RefInv, CqRefs
  <1>3. a \in live
    BY Zenon, <1>1, <1>2 DEF CqRef
  <1>4. 1 \in At(cq, a) /\ ~cq[1].more /\ OneReceive(a)
    BY Zenon, <1>1, <1>3 DEF At, RefInv
  <1>5. NoneAt(sq, a) /\ kernel[RxOp(a)] = 0 /\ \A j \in At(cq, a) : j =< 1
    BY Zenon, <1>4 DEF OneReceive
  <1>6. ASSUME NEW i \in DOMAIN cq', cq'[i].ctx = a PROVE FALSE
    <2>1. i + 1 \in At(cq, a)
      BY Zenon, <1>1, <1>6 DEF At
    <2>2. i + 1 =< 1 /\ i \in Nat /\ i > 0
      BY Zenon, <1>1, <1>5, <2>1
    <2> QED
      BY <2>2
  <1> QED
    BY Zenon, <1>1, <1>2, <1>3, <1>5, <1>6 DEF NoneAt, CqRef

\* A receive that ended for want of buffers is prepared again.
LEMMA RefRearm ==
    ASSUME TypeInv, RefInv, pc \in {"cqe", "handshake"}, batch > 0, CqeSeen,
           NEW a, Head(cq).ctx = a, a # AcceptCtx, ~Head(cq).more,
           SqGrows([kind |-> "RECV_MULTISHOT", fd |-> ctx[a].fd, ctx |-> a]),
           UNCHANGED <<kernel, sessions, ctx, live>>
    PROVE  RefInv'
  <1> DEFINE e == [kind |-> "RECV_MULTISHOT", fd |-> ctx[a].fd, ctx |-> a]
  <1>1. /\ \A i \in DOMAIN cq' : i + 1 \in DOMAIN cq /\ cq'[i] = cq[i + 1]
        /\ DOMAIN cq \subseteq Nat /\ DOMAIN cq' \subseteq Nat
    BY Zenon, CqeSeenType
  <1>2. a \in live /\ NoneAt(sq, a) /\ kernel[RxOp(a)] = 0 /\ NoneAt(cq', a)
    BY Zenon, EndIsLast
  <1>3. \A i \in DOMAIN sq' : \/ i \in DOMAIN sq /\ sq'[i] = sq[i]
                              \/ i = Len(sq) + 1 /\ sq'[i] = e
                              \/ sq'[i].ctx = AcceptCtx
    BY Zenon DEF SqGrows
  <1>4. e.ctx = a /\ e.kind = "RECV_MULTISHOT" /\ e.fd = ctx[a].fd
    BY Zenon
  <1> HIDE DEF e
  <1>5. ContextsOwned'
    BY Zenon DEF RefInv, ContextsOwned
  <1>6. SqRefs'
    BY Zenon, <1>2, <1>3, <1>4 DEF RefInv, SqRefs
  <1>7. KernelRefs'
    BY Zenon DEF RefInv, KernelRefs, RxOp
  <1>8. CqRefs'
    <2>1. ASSUME NEW i \in DOMAIN cq', NEW x, x = cq'[i] PROVE CqRef(x)'
      <3>1. CqRef(x)
        BY Zenon, <1>1, <2>1 DEF RefInv, CqRefs
      <3> QED
        BY Zenon, <3>1 DEF CqRef
    <2> QED
      BY Zenon, <2>1 DEF CqRefs, CqRef
  <1>9. ASSUME NEW b \in live PROVE OneReceive(b)'
    <2>1. OneReceive(b) /\ b # AcceptCtx
      BY Zenon, RxOps DEF RefInv
    <2>2. RxOp(b)' = RxOp(b)
      BY Zenon DEF RxOp
    <2>3. CASE b = a
      <3>1. \A i, j \in At(sq', a) : i = j
        BY Zenon, <1>2, <1>3, <2>1, <2>3 DEF At, NoneAt
      <3>2. At(cq', a) = {}
        BY Zenon, <1>2 DEF At, NoneAt
      <3>3. kernel[RxOp(a)] =< 1 /\ ~(kernel[RxOp(a)] > 0)
        BY Zenon, <1>2, NoneHeld
      <3> QED
        BY Zenon, <1>2, <2>2, <2>3, <3>1, <3>2, <3>3 DEF OneReceive
    <2>4. CASE b # a
      BY Zenon, <1>4, <2>1, <2>4, SeenOther DEF e
    <2> QED
      BY Zenon, <2>3, <2>4
  <1> QED
    BY Zenon, <1>5, <1>6, <1>7, <1>8, <1>9 DEF RefInv

\* No two live contexts belong to the same connection.
LEMMA ConnOfContext ==
    ASSUME TypeInv, FdsOwned, ConnsApart, ContextsOwned, pc # "done",
           NEW a \in live, NEW b \in live, ctx[a].conn = ctx[b].conn
    PROVE  a = b
  <1>1. \A f \in Fds : sessions[f] # None => fdTable[f] = sessions[f]
    BY Zenon DEF FdsOwned
  <1>2. /\ ctx[a].fd \in Fds /\ sessions[ctx[a].fd] = ctx[a].conn
        /\ ctx[b].fd \in Fds /\ sessions[ctx[b].fd] = ctx[b].conn
        /\ ctx[a].conn # None
    BY Zenon, ConstantsAssumption DEF ContextsOwned
  <1>3. ctx[a].fd = ctx[b].fd
    BY <1>1, <1>2 DEF ConnsApart
  <1> QED
    BY Zenon, <1>3 DEF ContextsOwned

\* A receive that ended for any other cause takes its session and its context
\* with it, and nothing refers to that context any more.
LEMMA RefClose ==
    ASSUME TypeInv, RefInv, FdsOwned, ConnsApart, pc = "cqe", batch > 0, CqeSeen,
           NEW a, Head(cq).ctx = a, a # AcceptCtx, ~Head(cq).more,
           CloseIfPresent(ctx[a].fd), UNCHANGED <<sq, kernel>>
    PROVE  /\ RefInv' /\ ctx' = ctx /\ live' = live \ {a}
           /\ \A f \in Fds : sessions'[f] = IF f = ctx[a].fd THEN None ELSE sessions[f]
           /\ \A f \in Fds : fdTable'[f] = IF f = ctx[a].fd THEN None ELSE fdTable[f]
  <1>1. /\ \A i \in DOMAIN cq' : i + 1 \in DOMAIN cq /\ cq'[i] = cq[i + 1]
        /\ DOMAIN cq \subseteq Nat /\ DOMAIN cq' \subseteq Nat
    BY Zenon, CqeSeenType
  <1>2. a \in live /\ NoneAt(sq, a) /\ kernel[RxOp(a)] = 0 /\ NoneAt(cq', a)
    BY Zenon, EndIsLast
  <1>3. /\ ctx[a].fd \in Fds /\ ctx[a].conn \in Conns
        /\ sessions[ctx[a].fd] = ctx[a].conn /\ sessions[ctx[a].fd] # None
    <2>1. /\ ctx[a].fd \in Fds /\ ctx[a].conn \in Conns
          /\ sessions[ctx[a].fd] = ctx[a].conn
      BY Zenon, <1>2 DEF RefInv, ContextsOwned
    <2>2. None \notin Conns
      BY Zenon, ConstantsAssumption
    <2> QED
      BY Zenon, <2>1, <2>2
  <1>4. {f \in Fds : f = ctx[a].fd /\ sessions[f] # None} = {ctx[a].fd}
    BY Zenon, <1>3
  <1>5. EraseSessions({ctx[a].fd})
    BY Zenon, <1>4 DEF CloseIfPresent
  <1>6. /\ ctx' = ctx
        /\ \A f \in Fds : sessions'[f] = IF f = ctx[a].fd THEN None ELSE sessions[f]
        /\ \A f \in Fds : fdTable'[f] = IF f = ctx[a].fd THEN None ELSE fdTable[f]
        /\ \A b : b \in live' <=> b \in live /\ ctx[b].conn # ctx[a].conn
    BY Zenon, <1>3, <1>5 DEF EraseSessions
  <1>7. \A b : b \in live' <=> b \in live /\ b # a
    BY Zenon, <1>2, <1>6, ConnOfContext DEF RefInv
  <1>8. ContextsOwned'
    <2>1. ASSUME NEW b \in live'
          PROVE  /\ ctx'[b].type = "RECV" /\ ctx'[b].fd \in Fds /\ ctx'[b].conn \in Conns
                 /\ sessions'[ctx'[b].fd] = ctx'[b].conn
                 /\ \A d \in live' : ctx'[d].fd = ctx'[b].fd => d = b
      <3>1. b \in live /\ b # a
        BY Zenon, <1>7
      <3>2. ctx[b].fd # ctx[a].fd
        BY Zenon, <1>2, <3>1 DEF RefInv, ContextsOwned
      <3>3. /\ ctx[b].type = "RECV" /\ ctx[b].fd \in Fds /\ ctx[b].conn \in Conns
            /\ sessions[ctx[b].fd] = ctx[b].conn
            /\ \A d \in live : ctx[d].fd = ctx[b].fd => d = b
        BY Zenon, <3>1 DEF RefInv, ContextsOwned
      <3>4. sessions'[ctx[b].fd] = ctx[b].conn
        BY Zenon, <1>6, <3>2, <3>3
      <3> QED
        BY Zenon, <1>6, <1>7, <3>3, <3>4
    <2>2. ASSUME NEW f \in Fds, sessions'[f] # None
          PROVE  \E b \in live' : ctx'[b].fd = f
      <3>1. f # ctx[a].fd /\ sessions[f] # None
        BY Zenon, <1>6, <2>2
      <3>2. PICK b \in live : ctx[b].fd = f
        BY Zenon, <3>1 DEF RefInv, ContextsOwned
      <3> QED
        BY Zenon, <1>6, <1>7, <3>1, <3>2
    <2> QED
      BY Zenon, <2>1, <2>2 DEF ContextsOwned
  <1>9. SqRefs'
    BY Zenon, <1>2, <1>6, <1>7 DEF RefInv, SqRefs, NoneAt
  <1>10. KernelRefs'
    <2>1. \A o \in Ops : kernel[o] > 0 /\ o # AcceptOp => o.ctx \in live /\ o = RxOp(o.ctx)
      BY Zenon DEF RefInv, KernelRefs
    <2>2. ASSUME NEW o \in Ops, kernel[o] > 0, o # AcceptOp PROVE o.ctx # a
      <3>1. o.ctx = a => o = RxOp(a)
        BY Zenon, <2>1, <2>2
      <3>2. kernel[RxOp(a)] = 0
        BY Zenon, <1>2
      <3>3. o # RxOp(a)
        BY Zenon, <2>2, <3>2, NoneHeld
      <3> QED
        BY Zenon, <3>1, <3>3
    <2>3. \A b : RxOp(b)' = RxOp(b)
      BY Zenon, <1>6 DEF RxOp
    <2> QED
      BY Zenon, <1>7, <2>1, <2>2, <2>3 DEF KernelRefs
  <1>11. CqRefs'
    <2>1. ASSUME NEW i \in DOMAIN cq', NEW x, x = cq'[i] PROVE CqRef(x)'
      <3>1. i + 1 \in DOMAIN cq /\ x = cq[i + 1] /\ x.ctx # a
        BY Zenon, <1>1, <1>2, <2>1 DEF NoneAt
      <3>2. CqRef(x)
        BY Zenon, <3>1 DEF RefInv, CqRefs
      <3> QED
        BY Zenon, <1>6, <1>7, <3>1, <3>2 DEF CqRef
    <2> QED
      BY Zenon, <2>1 DEF CqRefs, CqRef
  <1>12. ASSUME NEW b \in live' PROVE OneReceive(b)'
    <2>1. SqGrows(AcceptSqe)
      BY Zenon DEF SqGrows
    <2>2. b \in live /\ OneReceive(b) /\ b # AcceptCtx
      BY Zenon, <1>7, RxOps DEF RefInv
    <2>3. AcceptSqe.ctx # b /\ ctx'[b] = ctx[b] /\ kernel' = kernel
      BY Zenon, <1>6, <2>2, AcceptCtxOfSqe
    <2> QED
      BY Zenon, <2>1, <2>2, <2>3, SeenOther
  <1>13. live' = live \ {a}
    BY Zenon, <1>7
  <1> QED
    BY Zenon, <1>6, <1>8, <1>9, <1>10, <1>11, <1>12, <1>13 DEF RefInv

\* A session is opened with one new context and one receive.
LEMMA RefOpen ==
    ASSUME TypeInv, RefInv, FdsOwned, pc = "handshake", batch > 0, CqeSeen,
           NEW f \in Fds, NEW c \in Conns, sessions[f] = None,
           NEW a \in Addrs \ live,
           SqGrows([kind |-> "RECV_MULTISHOT", fd |-> f, ctx |-> a]),
           Head(cq).ctx = AcceptCtx,
           live' = live \cup {a},
           ctx' = [b \in Addrs |-> IF b = a THEN [type |-> "RECV", fd |-> f, conn |-> c]
                                   ELSE ctx[b]],
           sessions' = [sessions EXCEPT ![f] = c], kernel' = kernel
    PROVE  RefInv'
  <1> DEFINE e == [kind |-> "RECV_MULTISHOT", fd |-> f, ctx |-> a]
  <1>1. /\ \A i \in DOMAIN cq' : i + 1 \in DOMAIN cq /\ cq'[i] = cq[i + 1]
        /\ DOMAIN cq \subseteq Nat /\ DOMAIN cq' \subseteq Nat
    BY Zenon, CqeSeenType
  <1>2. \A i \in DOMAIN sq' : \/ i \in DOMAIN sq /\ sq'[i] = sq[i]
                              \/ i = Len(sq) + 1 /\ sq'[i] = e
                              \/ sq'[i].ctx = AcceptCtx
    BY Zenon DEF SqGrows
  <1>3. e.ctx = a /\ e.kind = "RECV_MULTISHOT" /\ e.fd = f /\ a # AcceptCtx
    BY Zenon, ConstantsAssumption
  <1>4. /\ live \subseteq Addrs
        /\ ctx'[a].type = "RECV" /\ ctx'[a].fd = f /\ ctx'[a].conn = c
        /\ \A b \in live : ctx'[b] = ctx[b]
        /\ sessions'[f] = c /\ c # None
        /\ \A g \in Fds : g # f => sessions'[g] = sessions[g]
    BY Zenon, ConstantsAssumption DEF TypeInv, TypeOK
  <1>5. NoneAt(sq, a) /\ NoneAt(cq, a) /\ \A o \in Ops : o.ctx = a => kernel[o] = 0
    <2>1. NoneAt(sq, a)
      BY Zenon, <1>3 DEF RefInv, SqRefs, NoneAt
    <2>2. NoneAt(cq, a)
      BY Zenon, <1>3 DEF RefInv, CqRefs, CqRef, NoneAt
    <2>3. ASSUME NEW o \in Ops, o.ctx = a PROVE kernel[o] = 0
      <3>1. o # AcceptOp /\ kernel[o] \in Nat
        BY Zenon, <1>3, <2>3, TypeFacts, AcceptCtxOfSqe
      <3>2. ~(kernel[o] > 0)
        BY Zenon, <2>3, <3>1 DEF RefInv, KernelRefs
      <3> QED
        BY Zenon, <3>1, <3>2, NotHeld
    <2> QED
      BY Zenon, <2>1, <2>2, <2>3
  <1> HIDE DEF e
  <1>6. ContextsOwned'
    <2>1. \A b \in live : ctx[b].fd # f
      BY Zenon, ConstantsAssumption DEF RefInv, ContextsOwned
    <2>2. ASSUME NEW b \in live'
          PROVE  /\ ctx'[b].type = "RECV" /\ ctx'[b].fd \in Fds /\ ctx'[b].conn \in Conns
                 /\ sessions'[ctx'[b].fd] = ctx'[b].conn
                 /\ \A d \in live' : ctx'[d].fd = ctx'[b].fd => d = b
      <3>1. CASE b = a
        BY Zenon, <1>4, <2>1, <3>1
      <3>2. CASE b \in live
        <4>1. /\ ctx[b].type = "RECV" /\ ctx[b].fd \in Fds /\ ctx[b].conn \in Conns
              /\ sessions[ctx[b].fd] = ctx[b].conn
              /\ \A d \in live : ctx[d].fd = ctx[b].fd => d = b
          BY Zenon, <3>2 DEF RefInv, ContextsOwned
        <4>2. ctx'[b] = ctx[b] /\ ctx[b].fd # f
          BY Zenon, <1>4, <2>1, <3>2
        <4>3. sessions'[ctx'[b].fd] = ctx'[b].conn
          BY Zenon, <1>4, <4>1, <4>2
        <4>4. ASSUME NEW d \in live', ctx'[d].fd = ctx'[b].fd PROVE d = b
          <5>1. d = a \/ d \in live
            BY Zenon
          <5>2. d # a
            BY Zenon, <1>4, <4>2, <4>4
          <5> QED
            BY Zenon, <1>4, <4>1, <4>2, <4>4, <5>1, <5>2
        <4> QED
          BY Zenon, <4>1, <4>2, <4>3, <4>4
      <3> QED
        BY Zenon, <3>1, <3>2
    <2>3. ASSUME NEW g \in Fds, sessions'[g] # None
          PROVE  \E b \in live' : ctx'[b].fd = g
      <3>1. CASE g = f
        BY Zenon, <1>4, <3>1
      <3>2. CASE g # f
        <4>1. PICK b \in live : ctx[b].fd = g
          BY Zenon, <1>4, <2>3, <3>2 DEF RefInv, ContextsOwned
        <4> QED
          BY Zenon, <1>4, <4>1
      <3> QED
        BY Zenon, <3>1, <3>2
    <2> QED
      BY Zenon, <2>2, <2>3 DEF ContextsOwned
  <1>7. SqRefs'
    <2>1. ASSUME NEW i \in DOMAIN sq', NEW x, x = sq'[i], x.ctx # AcceptCtx
          PROVE  /\ x.ctx \in live'
                 /\ x.kind = "RECV_MULTISHOT" /\ x.fd = ctx'[x.ctx].fd
      <3>1. CASE i \in DOMAIN sq /\ sq'[i] = sq[i]
        <4>1. x.ctx \in live /\ x.kind = "RECV_MULTISHOT" /\ x.fd = ctx[x.ctx].fd
          BY Zenon, <2>1, <3>1 DEF RefInv, SqRefs
        <4> QED
          BY Zenon, <1>4, <4>1
      <3>2. CASE x = e
        BY Zenon, <1>3, <1>4, <3>2
      <3> QED
        BY Zenon, <1>2, <2>1, <3>1, <3>2
    <2> QED
      BY Zenon, <2>1 DEF SqRefs
  <1>8. KernelRefs'
    <2>1. \A o \in Ops : kernel[o] > 0 /\ o # AcceptOp => o.ctx \in live /\ o = RxOp(o.ctx)
      BY Zenon DEF RefInv, KernelRefs
    <2>2. \A b \in live : RxOp(b)' = RxOp(b)
      BY Zenon, <1>4 DEF RxOp
    <2> QED
      BY Zenon, <2>1, <2>2 DEF KernelRefs
  <1>9. CqRefs'
    <2>1. ASSUME NEW i \in DOMAIN cq', NEW x, x = cq'[i] PROVE CqRef(x)'
      <3>1. CqRef(x)
        BY Zenon, <1>1, <2>1 DEF RefInv, CqRefs
      <3> QED
        BY Zenon, <1>4, <3>1 DEF CqRef
    <2> QED
      BY Zenon, <2>1 DEF CqRefs, CqRef
  <1>10. ASSUME NEW b \in live' PROVE OneReceive(b)'
    <2>1. CASE b = a
      <3>1. \A i, j \in At(sq', a) : i = j
        BY Zenon, <1>2, <1>3, <1>5 DEF At, NoneAt
      <3>2. At(cq', a) = {}
        BY Zenon, <1>1, <1>5 DEF At, NoneAt
      <3>3. RxOp(a)' \in Ops /\ RxOp(a)'.ctx = a
        BY Zenon, <1>4 DEF RxOp, Ops, IOKinds
      <3>4. kernel'[RxOp(a)'] = 0
        BY Zenon, <1>5, <3>3
      <3>5. kernel'[RxOp(a)'] =< 1 /\ ~(kernel'[RxOp(a)'] > 0)
        BY Zenon, <3>4, NoneHeld
      <3>6. \A i \in At(cq', a) : FALSE
        BY Zenon, <3>2
      <3> QED
        BY Zenon, <2>1, <3>1, <3>5, <3>6 DEF OneReceive
    <2>2. CASE b \in live
      <3>1. OneReceive(b) /\ b # AcceptCtx /\ b # a
        BY Zenon, <2>2, RxOps DEF RefInv
      <3>2. SqGrows(e)
        BY Zenon DEF e
      <3> QED
        BY Zenon, <1>3, <1>4, <2>2, <3>1, <3>2, SeenOther
    <2> QED
      BY Zenon, <2>1, <2>2
  <1> QED
    BY Zenon, <1>6, <1>7, <1>8, <1>9, <1>10 DEF RefInv

\* The SQE at the head of the queue goes to the kernel.
LEMMA RefSubmit ==
    ASSUME TypeInv, RefInv, FdsOwned, SubmitSqe
    PROVE  RefInv'
  <1> DEFINE e == Head(sq)
             c == IF e = AcceptSqe THEN None ELSE fdTable[e.fd]
             o == [kind |-> e.kind, conn |-> c, ctx |-> e.ctx]
  <1>1. /\ sq \in Seq(Sqes) /\ sq # <<>> /\ sq' = Tail(sq) /\ e \in Sqes
        /\ kernel \in [Ops -> Nat] /\ pc # "done"
        /\ UNCHANGED <<sessions, ctx, live>>
    <2>1. sq \in Seq(Sqes) /\ sq # <<>> /\ sq' = Tail(sq)
      BY Zenon, TypeFacts DEF SubmitSqe
    <2>2. Head(sq) \in Sqes
      BY Zenon, <2>1, HeadIn
    <2> QED
      BY Zenon, <2>1, <2>2, TypeFacts DEF SubmitSqe, sessionVars
  <1>2. /\ \A i \in DOMAIN sq' : i + 1 \in DOMAIN sq /\ sq'[i] = sq[i + 1]
        /\ 1 \in DOMAIN sq /\ e = sq[1]
        /\ DOMAIN sq \subseteq Nat /\ DOMAIN sq' \subseteq Nat
        /\ \A i \in DOMAIN sq' : i > 0
    BY Zenon, <1>1, TailIs
  <1>3. PICK p \in Ops : /\ p.ctx = e.ctx
                         /\ kernel' = [kernel EXCEPT ![p] = @ + 1] /\ cq' = cq
                         /\ IF e.ctx = AcceptCtx THEN p = AcceptOp
                            ELSE e.ctx \in live /\ p = RxOp(e.ctx)
    <2>1. CASE e = AcceptSqe
      <3>1. o = AcceptOp /\ e.ctx = AcceptCtx
        <4>1. c = None
          BY Zenon, <2>1
        <4>2. e.kind = "ACCEPT" /\ e.ctx = AcceptCtx
          BY Zenon, <2>1, AcceptCtxOfSqe
        <4> QED
          BY <4>1, <4>2 DEF AcceptOp
      <3>2. kernel' = [kernel EXCEPT ![AcceptOp] = @ + 1] /\ cq' = cq
        BY Zenon, <3>1, AcceptOnly DEF SubmitSqe
      <3> QED
        BY Zenon, <3>1, <3>2, AcceptOnly DEF AcceptOp
    <2>2. CASE e # AcceptSqe
      <3>1. e.ctx # AcceptCtx
        BY Zenon, <1>1, <2>2, AcceptOnly
      <3>2. e.ctx \in live /\ e.kind = "RECV_MULTISHOT" /\ e.fd = ctx[e.ctx].fd
        BY Zenon, <1>2, <3>1 DEF RefInv, SqRefs
      <3>3. /\ ctx[e.ctx].fd \in Fds /\ ctx[e.ctx].conn \in Conns
            /\ sessions[ctx[e.ctx].fd] = ctx[e.ctx].conn
        BY Zenon, <3>2 DEF RefInv, ContextsOwned
      <3>4. fdTable[e.fd] = ctx[e.ctx].conn
        BY Zenon, <1>1, <3>2, <3>3, ConstantsAssumption DEF FdsOwned
      <3>5. o = RxOp(e.ctx)
        BY Zenon, <2>2, <3>2, <3>4 DEF RxOp
      <3>6. RxOp(e.ctx) \in Ops /\ RxOp(e.ctx).ctx = e.ctx
        BY Zenon, <3>2, RxOps DEF RefInv
      <3>7. kernel' = [kernel EXCEPT ![RxOp(e.ctx)] = @ + 1] /\ cq' = cq
        BY Zenon, <3>5, <3>6 DEF SubmitSqe
      <3> QED
        BY Zenon, <3>1, <3>2, <3>6, <3>7
    <2> QED
      BY Zenon, <2>1, <2>2
  <1> HIDE DEF e, o, c
  <1>4. ContextsOwned' /\ CqRefs'
    BY Zenon, <1>1, <1>3 DEF RefInv, ContextsOwned, CqRefs, CqRef
  <1>5. SqRefs'
    BY Zenon, <1>1, <1>2 DEF RefInv, SqRefs
  <1>6. \A b : RxOp(b)' = RxOp(b)
    BY Zenon, <1>1 DEF RxOp
  <1>7. /\ \A q \in Ops : kernel'[q] = IF q = p THEN kernel[q] + 1 ELSE kernel[q]
        /\ \A q \in Ops : kernel[q] \in Nat
    BY Zenon, <1>1, <1>3
  <1>8. KernelRefs'
    BY Zenon, <1>1, <1>3, <1>6, <1>7 DEF RefInv, KernelRefs
  <1>9. ASSUME NEW a \in live PROVE OneReceive(a)'
    <2>1. OneReceive(a) /\ a # AcceptCtx /\ RxOp(a) \in Ops /\ RxOp(a).ctx = a
      BY Zenon, RxOps DEF RefInv
    <2>2. \A i \in At(sq', a) : i + 1 \in At(sq, a)
      BY Zenon, <1>2 DEF At
    <2>3. NoneAt(sq, a) => NoneAt(sq', a)
      BY Zenon, <1>2 DEF NoneAt
    <2>4. \A i, j \in At(sq', a) : i = j
      <3> TAKE i, j \in At(sq', a)
      <3>1. i + 1 = j + 1
        BY Zenon, <2>1, <2>2 DEF OneReceive
      <3>2. i \in Nat /\ j \in Nat
        BY Zenon, <1>2 DEF At
      <3> QED
        BY <3>1, <3>2
    <2>5. At(cq', a) = At(cq, a)
      BY Zenon, <1>3
    <2>6. CASE e.ctx = a
      <3>1. p = RxOp(a) /\ 1 \in At(sq, a)
        BY Zenon, <1>2, <1>3, <2>1, <2>6 DEF At
      <3>2. ~NoneAt(sq, a)
        BY Zenon, <3>1 DEF NoneAt, At
      <3>3. kernel[RxOp(a)] = 0
        BY <1>7, <2>1, <3>2 DEF OneReceive
      <3>4. kernel'[RxOp(a)] = 1
        BY <1>7, <2>1, <3>1, <3>3
      <3>5. ASSUME NEW i \in DOMAIN sq', sq'[i].ctx = a PROVE FALSE
        <4>1. i + 1 \in At(sq, a) /\ i > 0 /\ i \in Nat
          BY Zenon, <1>2, <2>2, <3>5 DEF At
        <4>2. i + 1 = 1
          BY Zenon, <2>1, <3>1, <4>1 DEF OneReceive
        <4> QED
          BY <4>1, <4>2
      <3>6. \A i \in At(cq, a) : cq[i].more
        BY Zenon, <2>1, <3>2 DEF OneReceive
      <3> QED
        BY <1>3, <1>6, <2>4, <2>5, <3>4, <3>5, <3>6 DEF OneReceive, NoneAt
    <2>7. CASE e.ctx # a
      <3>1. kernel'[RxOp(a)] = kernel[RxOp(a)]
        BY Zenon, <1>3, <1>7, <2>1, <2>7
      <3> QED
        BY Zenon, <1>3, <1>6, <2>1, <2>3, <2>4, <2>5, <3>1 DEF OneReceive
    <2> QED
      BY Zenon, <2>6, <2>7
  <1> QED
    BY Zenon, <1>1, <1>4, <1>5, <1>8, <1>9 DEF RefInv

\* The kernel posts completion e, and holds operation p no longer if it is the end
\* of p.
LEMMA RefPost ==
    ASSUME TypeInv, RefInv, NEW e \in Cqes, Post(e), CqRef(e),
           NEW p \in Ops, kernel[p] > 0,
           IF e.ctx = AcceptCtx THEN p = AcceptOp ELSE p = RxOp(e.ctx),
           kernel' = IF e.ctx # AcceptCtx /\ e.more THEN kernel
                     ELSE [kernel EXCEPT ![p] = @ - 1],
           UNCHANGED <<sq, sessions, ctx, live>>
    PROVE  RefInv'
  <1>1. /\ DOMAIN cq = 1..Len(cq) /\ DOMAIN cq' = 1..(Len(cq) + 1) /\ Len(cq) \in Nat
        /\ \A i \in DOMAIN cq : cq'[i] = cq[i]
        /\ cq'[Len(cq) + 1] = e
    BY TypeFacts DEF Post
  <1>2. /\ \A q \in Ops : kernel[q] \in Nat
        /\ \A q \in Ops : q # p => kernel'[q] = kernel[q]
        /\ \A q \in Ops : kernel'[q] =< kernel[q] /\ kernel'[q] \in Int
        /\ e.ctx # AcceptCtx /\ e.more => kernel' = kernel
        /\ ~(e.ctx # AcceptCtx /\ e.more) => kernel'[p] = kernel[p] - 1
    BY TypeFacts
  <1>3. \A b : RxOp(b)' = RxOp(b)
    BY Zenon DEF RxOp
  <1>4. ContextsOwned'
    BY Zenon DEF RefInv, ContextsOwned
  <1>5. SqRefs'
    BY Zenon DEF RefInv, SqRefs
  <1>6. KernelRefs'
    <2>1. \A q \in Ops : kernel'[q] > 0 => kernel[q] > 0
      <3> TAKE q \in Ops
      <3>1. kernel'[q] =< kernel[q] /\ kernel[q] \in Nat /\ kernel'[q] \in Int
        BY <1>2
      <3> QED
        BY <3>1
    <2> QED
      BY Zenon, <1>3, <2>1 DEF RefInv, KernelRefs
  <1>7. CqRefs'
    <2>1. \A x : CqRef(x)' <=> CqRef(x)
      BY Zenon DEF CqRef
    <2>2. ASSUME NEW i \in DOMAIN cq' PROVE CqRef(cq'[i])
      <3>1. CASE i \in DOMAIN cq
        BY Zenon, <1>1, <3>1 DEF RefInv, CqRefs
      <3>2. CASE i = Len(cq) + 1
        BY Zenon, <1>1, <3>2
      <3> QED
        BY <1>1, <3>1, <3>2
    <2> QED
      BY Zenon, <2>2 DEF CqRefs, CqRef
  <1>8. ASSUME NEW a \in live PROVE OneReceive(a)'
    <2>1. OneReceive(a) /\ a # AcceptCtx /\ RxOp(a) \in Ops /\ RxOp(a) # AcceptOp
          /\ RxOp(a).ctx = a
      BY Zenon, RxOps DEF RefInv
    <2>2. kernel'[RxOp(a)] =< 1 /\ (kernel'[RxOp(a)] > 0 => kernel[RxOp(a)] > 0)
      <3>1. kernel'[RxOp(a)] =< kernel[RxOp(a)] /\ kernel[RxOp(a)] =< 1
            /\ kernel[RxOp(a)] \in Nat /\ kernel'[RxOp(a)] \in Int
        BY Zenon, <1>2, <2>1 DEF OneReceive
      <3> QED
        BY <3>1
    <2>3. CASE e.ctx # a
      <3>1. kernel'[RxOp(a)] = kernel[RxOp(a)]
        <4>1. RxOp(a) # p
          <5>1. CASE e.ctx = AcceptCtx
            BY Zenon, <2>1, <5>1
          <5>2. CASE e.ctx # AcceptCtx
            <6>1. p = RxOp(e.ctx)
              BY Zenon, <5>2
            <6>2. RxOp(e.ctx).ctx = e.ctx
              BY Zenon DEF RxOp
            <6> QED
              BY Zenon, <2>1, <2>3, <6>1, <6>2
          <5> QED
            BY Zenon, <5>1, <5>2
        <4> QED
          BY Zenon, <1>2, <2>1, <4>1
      <3>2. At(cq', a) = At(cq, a) /\ \A i \in At(cq, a) : cq'[i] = cq[i]
        <4>1. \A i : i \in DOMAIN cq' <=> i \in DOMAIN cq \/ i = Len(cq) + 1
          BY <1>1
        <4> QED
          BY Zenon, <1>1, <2>3, <4>1 DEF At
      <3> QED
        BY Zenon, <1>3, <2>1, <3>1, <3>2 DEF OneReceive
    <2>4. CASE e.ctx = a
      <3>1. p = RxOp(a) /\ kernel[p] = 1 /\ NoneAt(sq, a)
        <4>1. p = RxOp(a)
          BY Zenon, <2>1, <2>4
        <4>2. kernel[p] =< 1 /\ kernel[p] > 0 /\ kernel[p] \in Nat /\ NoneAt(sq, a)
          BY Zenon, <1>2, <2>1, <4>1 DEF OneReceive
        <4>3. kernel[p] = 1
          BY <4>2
        <4> QED
          BY Zenon, <4>1, <4>2, <4>3
      <3>2. \A i \in At(cq, a) : cq[i].more
        <4>1. kernel[p] # 0
          BY <3>1
        <4> QED
          BY Zenon, <2>1, <3>1, <4>1 DEF OneReceive
      <3>3. ASSUME NEW i \in At(cq', a), ~cq'[i].more
            PROVE  kernel'[p] = 0 /\ \A j \in At(cq', a) : j =< i
        <4>1. i = Len(cq) + 1
          BY <1>1, <3>2, <3>3 DEF At
        <4>2. kernel'[p] = 0
          BY <1>1, <1>2, <3>1, <3>3, <4>1
        <4> QED
          BY <1>1, <4>1, <4>2 DEF At
      <3> QED
        BY Zenon, <1>3, <2>1, <2>2, <3>1, <3>3 DEF OneReceive
    <2> QED
      BY Zenon, <2>3, <2>4
  <1> QED
    BY Zenon, <1>4, <1>5, <1>6, <1>7, <1>8 DEF RefInv

\* Descriptors stay as they are, or some are closed.
LEMMA PeerClosing ==
    ASSUME TypeInv, PeerInv, reverse' = reverse, UNCHANGED <<backlog, peer, hs>>,
           \A f \in Fds : fdTable'[f] \in {fdTable[f], None}
    PROVE  PeerInv'
  BY Zenon DEF PeerInv, OnlyForward, ConnsApart

\* No step turns a connection around, takes it from the backlog twice or gives
\* it a second descriptor.
LEMMA PeerStep ==
    ASSUME Directions \subseteq {"forward"}, FdInv, PeerInv, [Next]_vars
    PROVE  PeerInv'
  <1>0. TypeInv /\ fdTable \in [Fds -> Conns \cup {None}] /\ backlog \subseteq Conns
    BY Zenon DEF FdInv, TypeInv, TypeOK
  <1>1. CASE Loop
    <2>1. reverse' = reverse /\ UNCHANGED <<backlog, peer, hs>>
      BY Zenon, <1>1
         DEF Loop, SetupFail, Setup, LeaveLoop, Sweep, ReapNothing, ReapSome,
             BatchEnd, SubmitSqe, SubmitDone, WaitDone, Exit, EraseSessions,
             sessionVars, peerVars
    <2>2. fdTable' = fdTable \/ \E S : EraseSessions(S)
      BY Zenon, <1>1
         DEF Loop, SetupFail, Setup, LeaveLoop, Sweep, ReapNothing, ReapSome,
             BatchEnd, SubmitSqe, SubmitDone, WaitDone, Exit, sessionVars
    <2>3. \A f \in Fds : fdTable'[f] \in {fdTable[f], None}
      BY Zenon, <2>2 DEF EraseSessions
    <2> QED
      BY Zenon, <1>0, <2>1, <2>3, PeerClosing
  <1>2. CASE Handle
    <2>1. reverse' = reverse /\ UNCHANGED <<backlog, peer, hs>>
      BY Zenon, <1>2 DEF Handle, HandleAcceptError, HandleAccept, HandleSend,
             HandleRecvMore, HandleRecvNoBufs, HandleRecvEnd, HandleRecvAgain,
             HandleRecvClose, HandleUnknown, CloseIfPresent, EraseSessions,
             sessionVars, peerVars
    <2>2. fdTable' = fdTable \/ \E S : EraseSessions(S)
      BY Zenon, <1>2 DEF Handle, HandleAcceptError, HandleAccept, HandleSend,
             HandleRecvMore, HandleRecvNoBufs, HandleRecvEnd, HandleRecvAgain,
             HandleRecvClose, HandleUnknown, CloseIfPresent, sessionVars
    <2>3. \A f \in Fds : fdTable'[f] \in {fdTable[f], None}
      BY Zenon, <2>2 DEF EraseSessions
    <2> QED
      BY Zenon, <1>0, <2>1, <2>3, PeerClosing
  <1>3. CASE Open
    <2>1. CASE HandshakeFailed
      <3>1. /\ reverse' = reverse /\ UNCHANGED <<backlog, peer, hs>>
            /\ fdTable' = [fdTable EXCEPT ![Head(cq).fd] = None]
        BY Zenon, <2>1 DEF HandshakeFailed, peerVars
      <3>2. \A f \in Fds : fdTable'[f] \in {fdTable[f], None}
        BY Zenon, <1>0, <3>1
      <3> QED
        BY Zenon, <1>0, <3>1, <3>2, PeerClosing
    <2>2. CASE OpenReverse \/ OpenMultishot \/ OpenSingleShot
      <3>1. Head(cq).conn \in Conns
        <4>1. pc = "handshake"
          BY Zenon, <2>2 DEF AtAccept, OpenReverse, OpenMultishot, OpenSingleShot
        <4>2. batch > 0 /\ Head(cq).ctx = AcceptCtx /\ Head(cq).res = "positive"
          BY Zenon, <1>0, <4>1 DEF TypeInv, InHandshake
        <4>3. 1 \in DOMAIN cq /\ Head(cq) = cq[1]
          BY <1>0, <4>1, <4>2, TypeFacts
        <4> QED
          BY Zenon, <1>0, <4>2, <4>3 DEF TypeInv, AcceptCqes
      <3>2. ~OpenReverse
        BY Zenon, <3>1 DEF OpenReverse, PeerInv, OnlyForward
      <3>3. /\ UNCHANGED <<fdTable, backlog, peer, hs>>
            /\ reverse' = [reverse EXCEPT ![Head(cq).conn] = FALSE]
        BY Zenon, <2>2, <3>2 DEF OpenMultishot, OpenSingleShot, OpenSession, peerVars
      <3> QED
        BY Zenon, <1>0, <3>1, <3>3 DEF PeerInv, OnlyForward, ConnsApart, TypeInv, TypeOK
    <2> QED
      BY Zenon, <1>3, <2>1, <2>2 DEF Open
  <1>4. CASE KernelAccept
    <2>1. PICK c \in backlog, f \in Fds :
              /\ fdTable[f] = None
              /\ fdTable' = [fdTable EXCEPT ![f] = c]
              /\ backlog' = backlog \ {c}
              /\ UNCHANGED <<reverse, peer, hs>>
      BY Zenon, <1>4 DEF KernelAccept
    <2> QED
      BY Zenon, <1>0, <2>1 DEF PeerInv, OnlyForward, ConnsApart
  <1>5. CASE Kernel /\ ~KernelAccept
    <2>1. UNCHANGED <<fdTable, reverse, backlog, peer, hs>>
      BY Zenon, <1>5 DEF Kernel, KernelAcceptError, KernelComplete, KernelSendZc,
             KernelNotif, KernelRecvMore, sessionVars, peerVars
    <2> QED
      BY Zenon, <2>1 DEF PeerInv, OnlyForward, ConnsApart
  <1>6. CASE Environment
    <2>1. CASE PeerConnect
      <3>1. PICK c \in Conns : /\ peer[c] = "idle"
                               /\ peer' = [peer EXCEPT ![c] = "open"]
                               /\ backlog' = backlog \cup {c}
                               /\ UNCHANGED <<fdTable, reverse, hs>>
        BY Zenon, <2>1 DEF PeerConnect, sessionVars
      <3>2. /\ peer'[c] = "open" /\ \A d \in Conns : d # c => peer'[d] = peer[d]
            /\ backlog \subseteq Conns
            /\ \A f \in Fds : fdTable[f] # None => fdTable[f] \in Conns
        BY Zenon, <1>0, <3>1 DEF TypeInv, TypeOK
      <3>3. OnlyForward'
        BY Zenon, <1>0, <3>1 DEF PeerInv, OnlyForward
      <3>4. \A d \in backlog' : peer'[d] # "idle"
        BY Zenon, <1>0, <3>1, <3>2 DEF PeerInv, ConnsApart
      <3>5. ASSUME NEW f \in Fds, fdTable'[f] # None
            PROVE  /\ fdTable'[f] \notin backlog' /\ peer'[fdTable'[f]] # "idle"
                   /\ \A g \in Fds : fdTable'[g] = fdTable'[f] => g = f
        <4>1. /\ fdTable'[f] \in Conns /\ fdTable'[f] \notin backlog
              /\ peer[fdTable'[f]] # "idle"
              /\ \A g \in Fds : fdTable'[g] = fdTable'[f] => g = f
          BY Zenon, <1>0, <3>1, <3>2, <3>5 DEF PeerInv, ConnsApart
        <4> QED
          BY Zenon, <3>1, <3>2, <4>1
      <3> QED
        BY Zenon, <3>3, <3>4, <3>5 DEF PeerInv, ConnsApart
    <2>2. CASE PeerHandshake
      <3>1. PICK c \in Conns : /\ hs' = [hs EXCEPT ![c] = "forward"]
                               /\ UNCHANGED <<fdTable, reverse, backlog, peer>>
        BY Zenon, <2>2 DEF PeerHandshake, sessionVars
      <3> QED
        BY Zenon, <1>0, <3>1 DEF PeerInv, OnlyForward, ConnsApart, TypeInv, TypeOK
    <2>3. CASE PeerClose
      <3>1. PICK c \in Conns : /\ peer' = [peer EXCEPT ![c] = "closed"]
                               /\ UNCHANGED <<fdTable, reverse, backlog, hs>>
        BY Zenon, <2>3 DEF PeerClose, sessionVars
      <3> QED
        BY Zenon, <1>0, <3>1 DEF PeerInv, OnlyForward, ConnsApart, TypeInv, TypeOK
    <2>4. CASE DeadlinePasses \/ StopSignal
      BY Zenon, <2>4 DEF DeadlinePasses, StopSignal, PeerInv, OnlyForward, ConnsApart,
                  sessionVars, peerVars
    <2> QED
      BY Zenon, <1>6, <2>1, <2>2, <2>3, <2>4 DEF Environment
  <1>7. CASE UNCHANGED vars
    BY Zenon, <1>7 DEF PeerInv, OnlyForward, ConnsApart, vars, sessionVars, peerVars
  <1> QED
    BY Zenon, <1>1, <1>2, <1>3, <1>4, <1>5, <1>6, <1>7 DEF Next, Worker, Terminated

\* With multishot receive, a completion is read in a live context.
LEMMA ReadsLive ==
    ASSUME FdInv, RefInv, NEW v, NEW type, AtCompletion(v, type), CqeSeen
    PROVE  /\ Head(cq).ctx \in live /\ v = ctx[Head(cq).ctx] /\ type = "RECV"
           /\ pc = "cqe" /\ batch > 0 /\ Head(cq).ctx # AcceptCtx
           /\ CqRef(Head(cq)) /\ Head(cq) \in Cqes
  <1>1. pc = "cqe" /\ batch > 0 /\ Head(cq).ctx # AcceptCtx /\ TypeInv
    BY Zenon DEF AtCompletion, FdInv
  <1>2. Head(cq) \in Cqes /\ 1 \in DOMAIN cq /\ Head(cq) = cq[1]
    BY <1>1, CqeSeenType, TypeFacts
  <1>3. CqRef(Head(cq))
    BY Zenon, <1>2 DEF RefInv, CqRefs
  <1>4. Head(cq).ctx \in live
    BY Zenon, <1>1, <1>3 DEF CqRef
  <1>5. v = ctx[Head(cq).ctx] /\ v.type = type
    BY Zenon, <1>4 DEF AtCompletion, View
  <1>6. ctx[Head(cq).ctx].type = "RECV"
    BY Zenon, <1>4 DEF RefInv, ContextsOwned
  <1> QED
    BY Zenon, <1>1, <1>2, <1>3, <1>4, <1>5, <1>6

\* The handlers of a connection's completions that can run.
LEMMA HandlersThatRun ==
    ASSUME UseMultishot, FdInv, RefInv, Handle
    PROVE  HandleAcceptError \/ HandleAccept \/ HandleRecvMore \/ HandleRecvNoBufs
              \/ HandleRecvEnd
  <1>1. ~HandleSend
    BY ReadsLive DEF HandleSend
  <1>2. ~HandleUnknown
    BY ReadsLive DEF HandleUnknown
  <1>3. ~HandleRecvAgain /\ ~HandleRecvClose
    BY Zenon DEF HandleRecvAgain, HandleRecvClose
  <1> QED
    BY Zenon, <1>1, <1>2, <1>3 DEF Handle

\* A handled completion of a connection keeps what refers to the contexts.
LEMMA HandleRef ==
    ASSUME UseMultishot, FdInv, PeerInv, RefInv, Handle
    PROVE  RefInv'
  <1>0. TypeInv
    BY Zenon DEF FdInv
  <1>1. CASE HandleAcceptError
    <2>1. /\ pc = "cqe" /\ batch > 0 /\ CqeSeen /\ Head(cq).ctx = AcceptCtx
          /\ sq' = GetSqe(sq, AcceptSqe) /\ UNCHANGED <<kernel, sessions, ctx, live>>
      BY Zenon, <1>1
         DEF HandleAcceptError, AtAccept, RearmAccept, prep_accept, AcceptSqe,
                         sessionVars
    <2>2. SqGrows(AcceptSqe)
      BY Zenon, <1>0, <2>1, GrowsOne, SqeTypes
    <2> QED
      BY Zenon, <1>0, <2>1, <2>2, RefSeen
  <1>2. CASE HandleAccept
    BY Zenon, <1>2, RefQuiet DEF HandleAccept, engineVars, sessionVars
  <1>3. CASE HandleRecvMore
    <2>1. /\ pc = "cqe" /\ batch > 0 /\ CqeSeen /\ Head(cq).more
          /\ UNCHANGED <<sq, kernel, sessions, ctx, live>>
      BY Zenon, <1>3 DEF HandleRecvMore, AtCompletion, sessionVars
    <2>2. SqGrows(AcceptSqe)
      BY Zenon, <2>1 DEF SqGrows
    <2> QED
      BY Zenon, <1>0, <2>1, <2>2, RefSeen
  <1>4. CASE HandleRecvNoBufs
    <2>1. PICK v \in Context :
              /\ AtCompletion(v, "RECV") /\ CqeSeen /\ ~Head(cq).more
              /\ sq' = prep_recv_multishot(sq, v.fd, Head(cq).ctx)
              /\ UNCHANGED <<kernel, sessions, ctx, live>>
      BY Zenon, <1>4 DEF HandleRecvNoBufs, sessionVars
    <2>2. PICK a : a = Head(cq).ctx
      BY Zenon
    <2>3. a \in live /\ v = ctx[a] /\ pc = "cqe" /\ batch > 0 /\ a # AcceptCtx
      BY Zenon, <2>1, <2>2, ReadsLive
    <2>4. PICK e : e = [kind |-> "RECV_MULTISHOT", fd |-> ctx[a].fd, ctx |-> a]
      BY Zenon
    <2>5. sq' = GetSqe(sq, e)
      BY Zenon, <2>1, <2>2, <2>3, <2>4 DEF prep_recv_multishot
    <2>6. e \in Sqes
      BY Zenon, <1>0, <2>3, <2>4
         DEF RefInv, ContextsOwned, TypeInv, TypeOK, Sqes, IOKinds
    <2>7. SqGrows(e)
      BY Zenon, <1>0, <2>5, <2>6, GrowsOne
    <2> QED
      BY Zenon, <1>0, <2>1, <2>2, <2>3, <2>4, <2>7, RefRearm
  <1>5. CASE HandleRecvEnd
    <2>1. PICK v \in Context :
              /\ AtCompletion(v, "RECV") /\ CqeSeen /\ ~Head(cq).more
              /\ CloseIfPresent(v.fd) /\ UNCHANGED <<sq, kernel>>
      BY Zenon, <1>5 DEF HandleRecvEnd
    <2>2. PICK a : a = Head(cq).ctx
      BY Zenon
    <2>3. a \in live /\ v = ctx[a] /\ pc = "cqe" /\ batch > 0 /\ a # AcceptCtx
      BY Zenon, <2>1, <2>2, ReadsLive
    <2> QED
      BY Zenon, <1>0, <2>1, <2>2, <2>3, RefClose DEF FdInv, PeerInv
  <1> QED
    BY Zenon, <1>1, <1>2, <1>3, <1>4, <1>5, HandlersThatRun

\* The step that opens a session, in the terms of RefOpen.
LEMMA OpenedOne ==
    ASSUME FdInv, AtAccept("handshake"), OpenSession(1, "RECV", "RECV_MULTISHOT", FALSE)
    PROVE  \E a \in Addrs \ live :
              /\ live' = live \cup {a}
              /\ ctx' = [b \in Addrs |->
                            IF b = a
                            THEN [type |-> "RECV", fd |-> Head(cq).fd,
                                  conn |-> Head(cq).conn]
                            ELSE ctx[b]]
              /\ [kind |-> "RECV_MULTISHOT", fd |-> Head(cq).fd, ctx |-> a] \in Sqes
              /\ sq' = RearmAccept(GetSqe(sq,
                          [kind |-> "RECV_MULTISHOT", fd |-> Head(cq).fd, ctx |-> a]))
              /\ pc = "handshake" /\ batch > 0 /\ CqeSeen /\ Head(cq).ctx = AcceptCtx
              /\ Head(cq).fd \in Fds /\ Head(cq).conn \in Conns
              /\ sessions[Head(cq).fd] = None
              /\ sessions' = [sessions EXCEPT ![Head(cq).fd] = Head(cq).conn]
              /\ kernel' = kernel /\ pc' = "cqe"
  <1>0. TypeInv /\ sq \in Seq(Sqes) /\ Len(sq) =< QueueDepth
    BY Zenon DEF FdInv, TypeInv, TypeOK, SqBounded
  <1>1. /\ pc = "handshake" /\ batch > 0 /\ CqeSeen /\ Head(cq).ctx = AcceptCtx
        /\ sessions' = [sessions EXCEPT ![Head(cq).fd] = Head(cq).conn]
        /\ kernel' = kernel /\ pc' = "cqe"
    BY Zenon DEF AtAccept, OpenSession
  <1>2. PICK f, c : f = Head(cq).fd /\ c = Head(cq).conn
    BY Zenon
  <1>3. 1 \in DOMAIN cq /\ Head(cq) = cq[1]
    BY <1>0, <1>1, TypeFacts
  <1>4. f \in Fds /\ c \in Conns
    BY Zenon, <1>0, <1>1, <1>2, <1>3 DEF TypeInv, AcceptCqes, InHandshake
  <1>5. sessions[f] = None
    BY Zenon, <1>1, <1>2, <1>3, <1>4 DEF FdInv, FdsOwned, Arriving
  <1>6. PICK new \in Injection(1..1, Addrs \ live) :
              /\ ctx' = [a \in Addrs |->
                            IF a \in {new[i] : i \in 1..1}
                            THEN [type |-> "RECV", fd |-> f, conn |-> c]
                            ELSE ctx[a]]
              /\ live' = live \cup {new[i] : i \in 1..1}
              /\ sq' = RearmAccept(PrepEach(sq,
                          [i \in 1..1 |->
                              [kind |-> "RECV_MULTISHOT", fd |-> f, ctx |-> new[i]]]))
    BY Zenon, <1>2 DEF OpenSession
  <1>7. PICK a : a = new[1]
    BY Zenon
  <1>8. a \in Addrs \ live /\ {new[i] : i \in 1..1} = {a}
    BY <1>7 DEF Injection
  <1>9. PICK e : e = [kind |-> "RECV_MULTISHOT", fd |-> f, ctx |-> a]
    BY Zenon
  <1>10. e \in Sqes
    BY Zenon, <1>4, <1>8, <1>9 DEF Sqes, IOKinds
  <1>11. PICK s : s = [i \in 1..1 |-> [kind |-> "RECV_MULTISHOT", fd |-> f, ctx |-> new[i]]]
    BY Zenon
  <1>12. s = [i \in 1..1 |-> e]
    BY <1>7, <1>9, <1>11
  <1>13. s \in Seq(Sqes) /\ Len(s) = 1 /\ s[1] = e
    BY <1>10, <1>12
  <1>14. PrepEach(sq, s) = GetSqe(sq, e)
    BY Zenon, <1>0, <1>10, <1>13, PrepEachOne
  <1>15. sq' = RearmAccept(GetSqe(sq, e))
    BY Zenon, <1>6, <1>11, <1>14
  <1>16. ctx' = [b \in Addrs |->
                    IF b = a THEN [type |-> "RECV", fd |-> f, conn |-> c] ELSE ctx[b]]
    BY Zenon, <1>6, <1>8
  <1>17. live' = live \cup {a}
    BY Zenon, <1>6, <1>8
  <1> QED
    BY Zenon, <1>1, <1>2, <1>4, <1>5, <1>8, <1>9, <1>10, <1>15, <1>16, <1>17

\* So does the end of a handshake,
LEMMA OpenRef ==
    ASSUME UseMultishot, FdInv, PeerInv, RefInv, Open
    PROVE  RefInv'
  <1>0. TypeInv /\ FdsOwned
    BY Zenon DEF FdInv
  <1>1. CASE HandshakeFailed
    <2>1. /\ pc = "handshake" /\ batch > 0 /\ CqeSeen /\ Head(cq).ctx = AcceptCtx
          /\ sq' = GetSqe(sq, AcceptSqe) /\ UNCHANGED <<kernel, sessions, ctx, live>>
      BY Zenon, <1>1 DEF HandshakeFailed, AtAccept, RearmAccept, prep_accept, AcceptSqe
    <2>2. SqGrows(AcceptSqe)
      BY Zenon, <1>0, <2>1, GrowsOne, SqeTypes
    <2> QED
      BY Zenon, <1>0, <2>1, <2>2, RefSeen
  <1>2. CASE OpenReverse
    <2>1. /\ pc = "handshake" /\ hs[Head(cq).conn] = "reverse"
      BY Zenon, <1>2 DEF OpenReverse, AtAccept
    <2>2. batch > 0 /\ Head(cq).ctx = AcceptCtx /\ Head(cq).res = "positive"
      BY Zenon, <1>0, <2>1 DEF TypeInv, InHandshake
    <2>3. 1 \in DOMAIN cq /\ Head(cq) = cq[1]
      BY <1>0, <2>1, <2>2, TypeFacts
    <2>4. Head(cq).conn \in Conns
      BY Zenon, <1>0, <2>2, <2>3 DEF TypeInv, AcceptCqes
    <2> QED
      BY Zenon, <2>1, <2>4 DEF PeerInv, OnlyForward
  <1>3. CASE OpenMultishot
    <2>1. AtAccept("handshake") /\ OpenSession(1, "RECV", "RECV_MULTISHOT", FALSE)
      BY Zenon, <1>3 DEF OpenMultishot
    <2>2. PICK f, c : f = Head(cq).fd /\ c = Head(cq).conn
      BY Zenon
    <2>3. PICK a \in Addrs \ live :
              /\ live' = live \cup {a}
              /\ ctx' = [b \in Addrs |->
                            IF b = a THEN [type |-> "RECV", fd |-> f, conn |-> c]
                            ELSE ctx[b]]
              /\ [kind |-> "RECV_MULTISHOT", fd |-> f, ctx |-> a] \in Sqes
              /\ sq' = RearmAccept(GetSqe(sq,
                          [kind |-> "RECV_MULTISHOT", fd |-> f, ctx |-> a]))
              /\ pc = "handshake" /\ batch > 0 /\ CqeSeen /\ Head(cq).ctx = AcceptCtx
              /\ f \in Fds /\ c \in Conns /\ sessions[f] = None
              /\ sessions' = [sessions EXCEPT ![f] = c]
              /\ kernel' = kernel
      BY Zenon, <2>1, <2>2, OpenedOne
    <2>4. SqGrows([kind |-> "RECV_MULTISHOT", fd |-> f, ctx |-> a])
      BY Zenon, <1>0, <2>3, GrowsTwo
    <2> QED
      BY Zenon, <1>0, <2>3, <2>4, RefOpen
  <1>4. CASE OpenSingleShot
    BY Zenon, <1>4 DEF OpenSingleShot
  <1> QED
    BY Zenon, <1>1, <1>2, <1>3, <1>4 DEF Open

\* a step of the loop,
LEMMA LoopRef ==
    ASSUME FdInv, PeerInv, RefInv, Loop
    PROVE  RefInv'
  <1>0. TypeInv /\ FdsOwned
    BY Zenon DEF FdInv
  <1>1. CASE SetupFail \/ LeaveLoop \/ ReapNothing \/ ReapSome \/ BatchEnd
             \/ SubmitDone \/ WaitDone
    BY Zenon, <1>1, RefQuiet
    DEF SetupFail, LeaveLoop, ReapNothing, ReapSome, BatchEnd, SubmitDone, WaitDone,
        engineVars, sessionVars
  <1>2. CASE Setup
    <2>1. sq' = GetSqe(sq, AcceptSqe) /\ UNCHANGED <<kernel, cq, sessions, ctx, live>>
      BY Zenon, <1>2 DEF Setup, prep_accept, AcceptSqe, sessionVars
    <2>2. SqGrows(AcceptSqe)
      BY Zenon, <1>0, <2>1, GrowsOne, SqeTypes
    <2>3. \A i \in DOMAIN sq' : \/ i \in DOMAIN sq /\ sq'[i] = sq[i]
                                \/ sq'[i].ctx = AcceptCtx
      <3>1. AcceptSqe.ctx = AcceptCtx
        BY Zenon DEF AcceptSqe
      <3> QED
        BY Zenon, <2>2, <3>1 DEF SqGrows
    <2>4. ContextsOwned' /\ SqRefs' /\ KernelRefs' /\ CqRefs'
      BY <2>1, <2>3 DEF RefInv, ContextsOwned, SqRefs, KernelRefs, CqRefs, CqRef, RxOp
    <2>5. ASSUME NEW a \in live PROVE OneReceive(a)'
      <3>1. OneReceive(a) /\ a # AcceptCtx
        BY Zenon, <1>0, RxOps DEF RefInv
      <3>2. /\ \A i \in At(sq', a) : i \in At(sq, a)
            /\ NoneAt(sq, a) => NoneAt(sq', a)
        BY <2>3, <3>1 DEF At, NoneAt
      <3>3. RxOp(a)' = RxOp(a)
        BY Zenon, <2>1 DEF RxOp
      <3> QED
        BY Zenon, <2>1, <3>1, <3>2, <3>3 DEF OneReceive
    <2> QED
      BY Zenon, <2>1, <2>4, <2>5 DEF RefInv
  <1>3. CASE Sweep
    <2>1. Expired = {}
      BY Zenon, <1>0, ConstantsAssumption
         DEF Expired, PeerInv, OnlyForward, TypeInv, TypeOK
    <2>2. EraseSessions({}) /\ UNCHANGED <<sq, kernel, cq>>
      BY Zenon, <1>3, <2>1 DEF Sweep, engineVars
    <2>3. live' = live /\ ctx' = ctx
      BY Zenon, <2>2 DEF EraseSessions
    <2>4. sessions' = sessions
      BY Zenon, <1>0, <2>2 DEF EraseSessions, TypeInv, TypeOK
    <2> QED
      BY Zenon, <2>2, <2>3, <2>4, RefQuiet
  <1>4. CASE SubmitSqe
    BY Zenon, <1>0, <1>4, RefSubmit
  <1>5. CASE Exit
    <2>1. /\ EraseSessions({f \in Fds : sessions[f] # None})
          /\ sq' = <<>> /\ cq' = <<>> /\ kernel' = [o \in Ops |-> 0]
      BY Zenon, <1>5 DEF Exit
    <2>2. \A a \in live : \E f \in Fds : sessions[f] # None /\ ctx[a].conn = sessions[f]
      BY ConstantsAssumption DEF RefInv, ContextsOwned
    <2>3. live' = {} /\ \A f \in Fds : sessions'[f] = None
      BY Zenon, <2>1, <2>2 DEF EraseSessions
    <2>4. DOMAIN sq' = {} /\ DOMAIN cq' = {} /\ \A o \in Ops : ~(kernel'[o] > 0)
      BY <2>1
    <2>5. ContextsOwned' /\ SqRefs' /\ KernelRefs' /\ CqRefs'
      BY Zenon, <2>3, <2>4 DEF ContextsOwned, SqRefs, KernelRefs, CqRefs
    <2> QED
      BY Zenon, <2>3, <2>5 DEF RefInv
  <1> QED
    BY Zenon, <1>1, <1>2, <1>3, <1>4, <1>5 DEF Loop

\* and a completion that the kernel posts.
LEMMA KernelRef ==
    ASSUME FdInv, RefInv, Kernel
    PROVE  RefInv'
  <1>0. TypeInv /\ kernel \in [Ops -> Nat] /\ bufs \subseteq Bufs /\ backlog \subseteq Conns
    BY Zenon DEF FdInv, TypeInv, TypeOK
  <1>1. CASE KernelAccept
    <2>1. PICK c \in backlog, f \in Fds :
              /\ kernel[AcceptOp] > 0
              /\ Post([Cqe(AcceptCtx, c, "positive") EXCEPT !.fd = f])
              /\ Finish(AcceptOp)
              /\ UNCHANGED <<sq, sessions, ctx, live>>
      BY Zenon, <1>1 DEF KernelAccept
    <2>2. PICK e : e = [Cqe(AcceptCtx, c, "positive") EXCEPT !.fd = f]
      BY Zenon
    <2>3. e \in Cqes /\ e.ctx = AcceptCtx /\ e.buf = None
      BY Zenon, <1>0, <2>2 DEF Cqe, Cqes, Results
    <2>4. CqRef(e) /\ Post(e)
      BY Zenon, <2>1, <2>2, <2>3 DEF CqRef
    <2> QED
      BY Zenon, <1>0, <2>1, <2>3, <2>4, RefPost, AcceptOnly DEF Finish
  <1>2. CASE KernelAcceptError
    <2>1. PICK e : e = Cqe(AcceptCtx, None, "error")
      BY Zenon
    <2>2. e \in Cqes /\ e.ctx = AcceptCtx /\ e.buf = None
      BY Zenon, <2>1 DEF Cqe, Cqes, Results
    <2>3. CqRef(e) /\ Post(e) /\ kernel[AcceptOp] > 0 /\ Finish(AcceptOp)
          /\ UNCHANGED <<sq, sessions, ctx, live>>
      BY Zenon, <1>2, <2>1, <2>2 DEF CqRef, KernelAcceptError, sessionVars
    <2> QED
      BY Zenon, <1>0, <2>2, <2>3, RefPost, AcceptOnly DEF Finish
  <1>3. ASSUME NEW k \in IOKinds, NEW c \in Conns, NEW a \in Addrs,
               kernel[[kind |-> k, conn |-> c, ctx |-> a]] > 0
        PROVE  /\ k = "RECV_MULTISHOT" /\ a \in live /\ c = ctx[a].conn
               /\ [kind |-> k, conn |-> c, ctx |-> a] = RxOp(a)
               /\ RxOp(a) \in Ops /\ a # AcceptCtx
    <2>1. PICK o : o = [kind |-> k, conn |-> c, ctx |-> a]
      BY Zenon
    <2>2. o \in Ops /\ o # AcceptOp /\ o.ctx = a /\ o.kind = k /\ o.conn = c
      BY Zenon, <2>1, ConstantsAssumption DEF Ops, AcceptOp
    <2>3. a \in live /\ o = RxOp(a)
      BY Zenon, <1>3, <2>1, <2>2 DEF RefInv, KernelRefs
    <2> QED
      BY <1>0, <2>1, <2>2, <2>3, RxOps DEF RxOp, RefInv
  <1>4. CASE KernelComplete
    <2>1. PICK k \in {"SEND", "RECV", "RECV_MULTISHOT"}, c \in Conns, a \in Addrs :
              /\ kernel[[kind |-> k, conn |-> c, ctx |-> a]] > 0
              /\ \E r \in Outcomes(k, c) : Post(Cqe(a, c, r))
              /\ Finish([kind |-> k, conn |-> c, ctx |-> a])
              /\ UNCHANGED <<sq, sessions, ctx, live>>
      BY Zenon, <1>4 DEF KernelComplete, sessionVars
    <2>2. k = "RECV_MULTISHOT" /\ a \in live /\ c = ctx[a].conn /\ a # AcceptCtx
          /\ [kind |-> k, conn |-> c, ctx |-> a] = RxOp(a) /\ RxOp(a) \in Ops
      BY Zenon, <1>3, <2>1 DEF IOKinds
    <2>3. Outcomes("RECV_MULTISHOT", c) \subseteq {"nobufs", "zero", "error"}
      BY Zenon DEF Outcomes
    <2>4. PICK r \in {"nobufs", "zero", "error"} : Post(Cqe(a, c, r))
      BY Zenon, <2>1, <2>2, <2>3
    <2>5. PICK e : e = Cqe(a, c, r)
      BY Zenon
    <2>6. e \in Cqes /\ e.ctx = a /\ e.conn = c /\ e.res = r /\ ~e.more /\ e.buf = None
      BY Zenon, <2>5 DEF Cqe, Cqes, Results
    <2>7. CqRef(e)
      BY Zenon, <2>2, <2>6 DEF CqRef
    <2> QED
      BY Zenon, <1>0, <2>1, <2>2, <2>4, <2>5, <2>6, <2>7, RefPost DEF Finish
  <1>5. ~KernelSendZc /\ ~KernelNotif
    BY Zenon, <1>3 DEF KernelSendZc, KernelNotif, IOKinds
  <1>6. CASE KernelRecvMore
    <2>1. PICK c \in Conns, a \in Addrs, b \in bufs :
              /\ kernel[[kind |-> "RECV_MULTISHOT", conn |-> c, ctx |-> a]] > 0
              /\ Post([Cqe(a, c, "positive") EXCEPT !.more = TRUE, !.buf = b])
              /\ UNCHANGED <<sq, kernel, sessions, ctx, live>>
      BY Zenon, <1>6 DEF KernelRecvMore, sessionVars
    <2>2. a \in live /\ c = ctx[a].conn /\ a # AcceptCtx /\ RxOp(a) \in Ops
          /\ kernel[RxOp(a)] > 0
      BY Zenon, <1>3, <2>1 DEF IOKinds
    <2>3. PICK e : e = [Cqe(a, c, "positive") EXCEPT !.more = TRUE, !.buf = b]
      BY Zenon
    <2>4. e \in Cqes /\ e.ctx = a /\ e.conn = c /\ e.res = "positive" /\ e.more /\ e.buf = b
      BY Zenon, <1>0, <2>3 DEF Cqe, Cqes, Results
    <2>5. CqRef(e)
      BY Zenon, <1>0, <2>2, <2>4 DEF CqRef
    <2> QED
      BY Zenon, <1>0, <2>1, <2>2, <2>3, <2>4, <2>5, RefPost
  <1> QED
    BY Zenon, <1>1, <1>2, <1>4, <1>5, <1>6 DEF Kernel

\* Every step keeps what refers to the contexts.
LEMMA RefStep ==
    ASSUME UseMultishot, FdInv, PeerInv, RefInv, [Next]_vars
    PROVE  RefInv'
  <1>1. CASE Environment
    BY Zenon, <1>1, RefQuiet
    DEF Environment, PeerConnect, PeerHandshake, PeerClose, DeadlinePasses,
        StopSignal, engineVars, sessionVars
  <1>2. CASE UNCHANGED vars
    BY Zenon, <1>2, RefQuiet DEF vars, engineVars, sessionVars
  <1> QED
    BY Zenon, <1>1, <1>2, LoopRef, HandleRef, OpenRef, KernelRef
    DEF Next, Worker, Terminated

\* Every step keeps the worker at rest before it starts and after it returned.
LEMMA RestStep ==
    ASSUME FdInv, RefInv, AtRest, [Next]_vars
    PROVE  AtRest'
  <1>0. TypeInv /\ kernel \in [Ops -> Nat]
    BY Zenon DEF FdInv, TypeInv, TypeOK
  <1>1. CASE Loop /\ ~Exit
    BY Zenon, <1>1 DEF Loop, SetupFail, Setup, LeaveLoop, Sweep, ReapNothing, ReapSome,
           BatchEnd, SubmitSqe, SubmitDone, WaitDone, AtRest, engineVars, sessionVars
  <1>2. CASE Exit
    <2>1. \A a \in live : \E f \in Fds : sessions[f] # None /\ ctx[a].conn = sessions[f]
      BY ConstantsAssumption DEF RefInv, ContextsOwned
    <2>2. EraseSessions({f \in Fds : sessions[f] # None})
      BY Zenon, <1>2 DEF Exit
    <2>3. live' = {}
      BY Zenon, <2>1, <2>2 DEF EraseSessions
    <2> QED
      BY Zenon, <1>2, <2>3 DEF Exit, AtRest
  <1>3. CASE Handle
    <2>1. pc' \in {"cqe", "handshake"}
      BY Zenon, <1>3 DEF Handle, HandleAcceptError, HandleAccept, HandleSend,
             HandleRecvMore, HandleRecvNoBufs, HandleRecvEnd, HandleRecvAgain,
             HandleRecvClose, HandleUnknown, AtAccept, AtCompletion
    <2> QED
      BY Zenon, <2>1 DEF AtRest
  <1>4. CASE Open
    <2>1. pc' = "cqe"
      BY Zenon, <1>4 DEF Open, HandshakeFailed, OpenReverse, OpenMultishot,
             OpenSingleShot, OpenSession
    <2> QED
      BY Zenon, <2>1 DEF AtRest
  <1>5. CASE Kernel
    <2>1. pc' = pc /\ \E o \in Ops : kernel[o] > 0
      <3>1. CASE KernelAccept \/ KernelAcceptError
        BY Zenon, <3>1, AcceptOnly DEF KernelAccept, KernelAcceptError
      <3>2. CASE KernelComplete \/ KernelSendZc \/ KernelNotif \/ KernelRecvMore
        <4>1. \A k \in IOKinds, c \in Conns, a \in Addrs :
                  [kind |-> k, conn |-> c, ctx |-> a] \in Ops
          BY Zenon DEF Ops
        <4>2. {"SEND", "RECV", "RECV_MULTISHOT", "SEND_ZC", "NOTIF"} \subseteq IOKinds
          BY Zenon DEF IOKinds
        <4> QED
          BY Zenon, <3>2, <4>1, <4>2
          DEF KernelComplete, KernelSendZc, KernelNotif, KernelRecvMore
      <3> QED
        BY Zenon, <1>5, <3>1, <3>2 DEF Kernel
    <2> QED
      BY <1>0, <2>1 DEF AtRest
  <1>6. CASE Environment
    BY Zenon, <1>6
       DEF Environment, PeerConnect, PeerHandshake, PeerClose, DeadlinePasses,
                StopSignal, AtRest, engineVars, sessionVars
  <1>7. CASE UNCHANGED vars
    BY Zenon, <1>7 DEF vars, AtRest, engineVars, sessionVars
  <1> QED
    BY Zenon, <1>1, <1>2, <1>3, <1>4, <1>5, <1>6, <1>7 DEF Next, Worker, Terminated

\* The inductive invariant holds at the start,
LEMMA ForwardInit == Init => ForwardInv
  <1> SUFFICES ASSUME Init PROVE ForwardInv
    BY Zenon
  <1>1. FdInv
    BY Zenon, FdInit
  <1>2. PeerInv
    BY Zenon DEF Init, PeerInv, OnlyForward, ConnsApart
  <1>3. RefInv
    BY DEF Init, RefInv, ContextsOwned, SqRefs, KernelRefs, CqRefs
  <1>4. AtRest
    BY Zenon DEF Init, AtRest
  <1> QED
    BY Zenon, <1>1, <1>2, <1>3, <1>4 DEF ForwardInv

\* is kept by every step,
LEMMA ForwardStep ==
    ASSUME UseMultishot, Directions \subseteq {"forward"}
    PROVE  ForwardInv /\ [Next]_vars => ForwardInv'
  BY Zenon, FdStep, PeerStep, RefStep, RestStep DEF ForwardInv

\* and so holds always.
LEMMA ForwardAlways ==
    ASSUME UseMultishot, Directions \subseteq {"forward"}
    PROVE  Spec => []ForwardInv
  <1>1. ForwardInv /\ [Next]_vars => ForwardInv'
    BY Zenon, ForwardStep
  <1> QED
    BY <1>1, ForwardInit, PTL DEF Spec

\* With multishot receive and sending clients, the program's default, nothing
\* pending ever refers to a freed context: the cast of user_data back to an
\* IOContext always finds a session's own.
THEOREM ContextsNeverStale ==
    ASSUME UseMultishot, Directions \subseteq {"forward"}
    PROVE  Spec => []NoStaleContext
  <1>1. ForwardInv => NoStaleContext
    <2> SUFFICES ASSUME ForwardInv, NEW a \in Addrs \ live
                 PROVE  ~Prepared(a) /\ ~InKernel(a) /\ NoneAt(cq, a)
      BY Zenon DEF NoStaleContext
    <2>1. a # AcceptCtx
      BY Zenon, ConstantsAssumption
    <2>2. ~Prepared(a)
      BY Zenon, <2>1 DEF Prepared, ForwardInv, RefInv, SqRefs
    <2>3. ~InKernel(a)
      BY <2>1 DEF InKernel, ForwardInv, RefInv, KernelRefs, AcceptOp
    <2>4. NoneAt(cq, a)
      BY Zenon, <2>1 DEF NoneAt, ForwardInv, RefInv, CqRefs, CqRef
    <2> QED
      BY Zenon, <2>2, <2>3, <2>4
  <1> QED
    BY <1>1, ForwardAlways, PTL

\* With multishot receive and sending clients a session is closed by the end of
\* its own stream or by the worker's exit, and never by a completion that
\* another session's connection left behind.
THEOREM AlwaysClosedForCause ==
    ASSUME UseMultishot, Directions \subseteq {"forward"}
    PROVE  Spec => ClosedForCause
  <1> DEFINE Cause(f) ==
                 \/ pc = "exit"
                 \/ pc = "loop" /\ f \in Expired
                 \/ pc = "cqe" /\ Head(cq).conn = sessions[f]
                               /\ Head(cq).res \in {"zero", "error"}
  <1>1. ASSUME ForwardInv, [Next]_vars, NEW f \in Fds,
               sessions[f] # None, sessions'[f] # sessions[f]
        PROVE  Cause(f)
    <2>0. FdInv /\ TypeInv /\ RefInv /\ PeerInv /\ FdsOwned /\ ConnsApart
      BY Zenon, <1>1 DEF ForwardInv, FdInv, PeerInv
    <2>1. CASE Loop
      <3>1. CASE Sweep
        BY Zenon, <1>1, <3>1 DEF Sweep, EraseSessions
      <3>2. CASE Exit
        BY Zenon, <3>2 DEF Exit
      <3>3. CASE ~Sweep /\ ~Exit
        <4>1. sessions' = sessions
          BY Zenon, <2>1, <3>3
          DEF Loop, SetupFail, Setup, LeaveLoop, ReapNothing, ReapSome, BatchEnd,
              SubmitSqe, SubmitDone, WaitDone, sessionVars
        <4> QED
          BY Zenon, <1>1, <4>1
      <3> QED
        BY Zenon, <3>1, <3>2, <3>3
    <2>2. CASE Handle
      <3>1. CASE HandleRecvEnd
        <4>1. PICK v \in Context :
                  /\ AtCompletion(v, "RECV") /\ CqeSeen /\ ~Head(cq).more
                  /\ Head(cq).res # "nobufs"
                  /\ CloseIfPresent(v.fd) /\ UNCHANGED <<sq, kernel>>
          BY Zenon, <3>1 DEF HandleRecvEnd
        <4>2. PICK a : a = Head(cq).ctx
          BY Zenon
        <4>3. a \in live /\ v = ctx[a] /\ pc = "cqe" /\ batch > 0 /\ a # AcceptCtx
          BY Zenon, <2>0, <4>1, <4>2, ReadsLive
        <4>4. f = ctx[a].fd
          BY Zenon, <1>1, <2>0, <4>1, <4>2, <4>3, RefClose
        <4>5. Head(cq).conn = ctx[a].conn /\ Head(cq).res \in {"nobufs", "zero", "error"}
          BY Zenon, <2>0, <4>1, <4>2, <4>3, EndIsLast
        <4>6. sessions[f] = ctx[a].conn
          BY Zenon, <2>0, <4>3, <4>4 DEF RefInv, ContextsOwned
        <4> QED
          BY Zenon, <4>1, <4>3, <4>5, <4>6
      <3>2. CASE ~HandleRecvEnd
        <4>1. sessions' = sessions
          BY Zenon, <2>0, <2>2, <3>2, HandlersThatRun
          DEF HandleAcceptError, HandleAccept, HandleRecvMore, HandleRecvNoBufs,
              sessionVars
        <4> QED
          BY Zenon, <1>1, <4>1
      <3> QED
        BY Zenon, <3>1, <3>2
    <2>3. CASE Open
      <3>1. CASE HandshakeFailed
        BY Zenon, <1>1, <3>1 DEF HandshakeFailed
      <3>2. CASE ~HandshakeFailed
        <4>1. /\ sessions' = [sessions EXCEPT ![Head(cq).fd] = Head(cq).conn]
              /\ pc = "handshake" /\ batch > 0
          BY Zenon, <2>3, <3>2
          DEF Open, OpenReverse, OpenMultishot, OpenSingleShot, OpenSession, AtAccept
        <4>2. /\ 1 \in DOMAIN cq /\ Head(cq) = cq[1]
              /\ sessions \in [Fds -> Conns \cup {None}]
          BY <2>0, <4>1, TypeFacts
        <4>3. f = Head(cq).fd
          BY Zenon, <1>1, <4>1, <4>2
        <4>4. sessions[f] = None
          BY Zenon, <2>0, <4>1, <4>2, <4>3 DEF FdsOwned, Arriving
        <4> QED
          BY Zenon, <1>1, <4>4
      <3> QED
        BY Zenon, <3>1, <3>2
    <2>4. CASE Kernel \/ Environment \/ UNCHANGED vars
      <3>1. sessions' = sessions
        BY Zenon, <2>4
        DEF Kernel, KernelAccept, KernelAcceptError, KernelComplete, KernelSendZc,
            KernelNotif, KernelRecvMore, Environment, PeerConnect, PeerHandshake,
            PeerClose, DeadlinePasses, StopSignal, vars, sessionVars
      <3> QED
        BY Zenon, <1>1, <3>1
    <2> QED
      BY Zenon, <1>1, <2>1, <2>2, <2>3, <2>4 DEF Next, Worker, Terminated
  <1>2. ForwardInv /\ [Next]_vars =>
            [\A f \in Fds : sessions[f] # None /\ sessions'[f] # sessions[f] =>
                \/ pc = "exit"
                \/ pc = "loop" /\ f \in Expired
                \/ pc = "cqe" /\ Head(cq).conn = sessions[f]
                              /\ Head(cq).res \in {"zero", "error"}]_vars
    BY Zenon, <1>1
  <1> QED
    BY <1>2, ForwardAlways, PTL DEF Spec, ClosedForCause

--------------------------------------------------------------------------------
(* The provided buffers *)

\* Where a buffer is, entry by entry.
BufferPlaced(b) ==
    IF b \in bufs THEN \A i \in DOMAIN cq : cq[i].buf # b
    ELSE \E i \in DOMAIN cq : /\ cq[i].buf = b
                              /\ \A j \in DOMAIN cq : cq[j].buf = b => j = i

\* What the places of each buffer amount to.
LEMMA PlacedConserved ==
    /\ BuffersConserved <=> (pc # "done" => \A b \in Bufs : BufferPlaced(b))
    /\ BuffersConserved' <=> (pc' # "done" => \A b \in Bufs : BufferPlaced(b)')
  <1>1. ASSUME NEW b \in Bufs, NEW B, NEW q
        PROVE  LET holders == {i \in DOMAIN q : q[i].buf = b}
               IN  (IF b \in B THEN holders = {}
                    ELSE \E i \in holders : \A j \in holders : j = i)
                   <=> IF b \in B THEN \A i \in DOMAIN q : q[i].buf # b
                       ELSE \E i \in DOMAIN q : /\ q[i].buf = b
                                                /\ \A j \in DOMAIN q : q[j].buf = b => j = i
    BY Zenon
  <1>2. BuffersConserved <=> (pc # "done" => \A b \in Bufs : BufferPlaced(b))
    BY Zenon, <1>1 DEF BuffersConserved, BufferPlaced
  <1>3. BuffersConserved' <=> (pc' # "done" => \A b \in Bufs : BufferPlaced(b)')
    BY Zenon, <1>1 DEF BuffersConserved, BufferPlaced
  <1> QED
    BY Zenon, <1>2, <1>3

\* A completion is marked seen and the buffer it carries, if any, returned.
LEMMA BufferSeen ==
    ASSUME TypeInv, pc \in {"cqe", "handshake"}, batch > 0, CqeSeen,
           NEW b \in Bufs, BufferPlaced(b),
           bufs' = IF Head(cq).buf = None THEN bufs ELSE bufs \cup {Head(cq).buf}
    PROVE  BufferPlaced(b)'
  <1>1. /\ DOMAIN cq = 1..Len(cq) /\ DOMAIN cq' = 1..(Len(cq) - 1)
        /\ Len(cq) \in Nat /\ Len(cq) > 0
        /\ \A i \in DOMAIN cq' : cq'[i] = cq[i + 1]
        /\ Head(cq) = cq[1]
    BY CqeSeenType, TypeFacts
  <1>2. b # None
    BY Zenon, ConstantsAssumption
  <1>3. CASE b \in bufs
    BY <1>1, <1>2, <1>3 DEF BufferPlaced
  <1>4. CASE b \notin bufs
    <2>1. PICK i \in DOMAIN cq : /\ cq[i].buf = b
                                 /\ \A j \in DOMAIN cq : cq[j].buf = b => j = i
      BY Zenon, <1>4 DEF BufferPlaced
    <2>2. CASE i = 1
      <3>1. b \in bufs'
        BY Zenon, <1>1, <1>2, <2>1, <2>2
      <3>2. \A j \in DOMAIN cq' : cq'[j].buf # b
        BY <1>1, <2>1, <2>2
      <3> QED
        BY Zenon, <3>1, <3>2 DEF BufferPlaced
    <2>3. CASE i # 1
      <3>1. b \notin bufs'
        BY <1>1, <1>4, <2>1, <2>3
      <3>2. i - 1 \in DOMAIN cq' /\ cq'[i - 1].buf = b
        BY <1>1, <2>1, <2>3
      <3>3. \A j \in DOMAIN cq' : cq'[j].buf = b => j = i - 1
        BY <1>1, <2>1
      <3> QED
        BY Zenon, <3>1, <3>2, <3>3 DEF BufferPlaced
    <2> QED
      BY Zenon, <2>2, <2>3
  <1> QED
    BY Zenon, <1>3, <1>4

\* A completion is posted with a buffer that the kernel held, or with none.
LEMMA BufferPosted ==
    ASSUME TypeInv, NEW e \in Cqes, Post(e), NEW b \in Bufs, BufferPlaced(b),
           e.buf = None \/ e.buf \in bufs, bufs' = bufs \ {e.buf}
    PROVE  BufferPlaced(b)'
  <1>1. /\ DOMAIN cq = 1..Len(cq) /\ DOMAIN cq' = 1..(Len(cq) + 1)
        /\ Len(cq) \in Nat
        /\ \A i \in DOMAIN cq : cq'[i] = cq[i]
        /\ cq'[Len(cq) + 1] = e
    BY TypeFacts DEF Post
  <1>2. b # None
    BY Zenon, ConstantsAssumption
  <1>3. CASE b \in bufs /\ e.buf # b
    BY <1>1, <1>3 DEF BufferPlaced
  <1>4. CASE b \in bufs /\ e.buf = b
    <2>1. \A i \in DOMAIN cq' : cq'[i].buf = b => i = Len(cq) + 1
      BY <1>1, <1>4 DEF BufferPlaced
    <2> QED
      BY <1>1, <1>4, <2>1 DEF BufferPlaced
  <1>5. CASE b \notin bufs
    <2>1. e.buf # b
      BY Zenon, <1>2, <1>5
    <2>2. PICK i \in DOMAIN cq : /\ cq[i].buf = b
                                 /\ \A j \in DOMAIN cq : cq[j].buf = b => j = i
      BY Zenon, <1>5 DEF BufferPlaced
    <2>3. i \in DOMAIN cq' /\ cq'[i].buf = b
      BY <1>1, <2>2
    <2>4. \A j \in DOMAIN cq' : cq'[j].buf = b => j = i
      BY <1>1, <2>1, <2>2
    <2> QED
      BY Zenon, <1>5, <2>3, <2>4 DEF BufferPlaced
  <1> QED
    BY Zenon, <1>3, <1>4, <1>5

\* The kernel moves a buffer into a completion or leaves the buffers alone.
LEMMA BuffersKernel ==
    ASSUME ForwardInv, Kernel, NEW b \in Bufs, BufferPlaced(b)
    PROVE  BufferPlaced(b)'
  <1>0. TypeInv /\ bufs \subseteq Bufs /\ backlog \subseteq Conns /\ None \notin bufs
    BY Zenon, ConstantsAssumption DEF ForwardInv, FdInv, TypeInv, TypeOK
  <1>1. CASE KernelRecvMore
    <2>1. PICK c \in Conns, a \in Addrs, d \in bufs :
              /\ Post([Cqe(a, c, "positive") EXCEPT !.more = TRUE, !.buf = d])
              /\ bufs' = bufs \ {d}
      BY Zenon, <1>1 DEF KernelRecvMore
    <2>2. PICK e : e = [Cqe(a, c, "positive") EXCEPT !.more = TRUE, !.buf = d]
      BY Zenon
    <2>3. e \in Cqes /\ e.buf = d
      BY Zenon, <1>0, <2>2 DEF Cqe, Cqes, Results
    <2> QED
      BY Zenon, <1>0, <2>1, <2>2, <2>3, BufferPosted
  <1>2. CASE ~KernelRecvMore
    <2>1. bufs' = bufs
      BY Zenon, <1>2 DEF Kernel, KernelAccept, KernelAcceptError, KernelComplete,
                         KernelSendZc, KernelNotif
    <2>2. \E e \in Cqes : e.buf = None /\ Post(e)
      <3>1. CASE KernelAccept
        BY Zenon, <1>0, <3>1 DEF KernelAccept, Cqe, Cqes, Results
      <3>2. CASE KernelAcceptError
        BY Zenon, <3>2 DEF KernelAcceptError, Cqe, Cqes, Results
      <3>3. CASE KernelComplete
        <4>1. PICK c \in Conns, a \in Addrs, r \in Results : Post(Cqe(a, c, r))
          BY <3>3 DEF KernelComplete, Outcomes, Results
        <4> QED
          BY Zenon, <4>1, CqeType DEF Cqe
      <3>4. CASE KernelSendZc
        <4>1. PICK c \in Conns, a \in Addrs, r \in Results :
                  Post([Cqe(a, c, r) EXCEPT !.more = TRUE])
          BY Zenon, <3>4 DEF KernelSendZc, Outcomes, Results
        <4> QED
          BY Zenon, <4>1 DEF Cqe, Cqes
      <3>5. CASE KernelNotif
        BY Zenon, <3>5 DEF KernelNotif, Cqe, Cqes, Results
      <3> QED
        BY Zenon, <1>2, <3>1, <3>2, <3>3, <3>4, <3>5 DEF Kernel
    <2>3. PICK e \in Cqes : e.buf = None /\ Post(e)
      BY Zenon, <2>2
    <2> QED
      BY Zenon, <1>0, <2>1, <2>3, BufferPosted
  <1> QED
    BY Zenon, <1>1, <1>2

\* Every step keeps each buffer in exactly one place.
LEMMA BuffersStep ==
    ASSUME UseMultishot, ForwardInv, BuffersConserved, [Next]_vars
    PROVE  BuffersConserved'
  <1>0. FdInv /\ TypeInv /\ RefInv /\ None \notin Bufs
    BY Zenon, ConstantsAssumption DEF ForwardInv, FdInv
  <1>1. SUFFICES ASSUME pc # "done", pc' # "done", NEW b \in Bufs, BufferPlaced(b)
                 PROVE  BufferPlaced(b)'
    <2>1. pc' # "done" => pc # "done"
      BY Zenon DEF Next, Worker, Loop, Handle, Open, Kernel, Environment, Terminated,
             SetupFail, Setup, LeaveLoop, Sweep, ReapNothing, ReapSome, BatchEnd,
             SubmitSqe, SubmitDone, WaitDone, Exit, HandleAcceptError, HandleAccept,
             HandleSend, HandleRecvMore, HandleRecvNoBufs, HandleRecvEnd,
             HandleRecvAgain, HandleRecvClose, HandleUnknown, AtAccept, AtCompletion,
             HandshakeFailed, OpenReverse, OpenMultishot, OpenSingleShot,
             KernelAccept, KernelAcceptError, KernelComplete, KernelSendZc,
             KernelNotif, KernelRecvMore, PeerConnect, PeerHandshake, PeerClose,
             DeadlinePasses, StopSignal, vars
    <2>2. (pc # "done" => \A b \in Bufs : BufferPlaced(b))
          => (pc' # "done" => \A b \in Bufs : BufferPlaced(b)')
      BY Zenon, <1>1, <2>1
    <2>3. BuffersConserved' <=> (pc' # "done" => \A b \in Bufs : BufferPlaced(b)')
      BY Zenon, PlacedConserved
    <2> QED
      BY Zenon, <2>2, <2>3, PlacedConserved
  <1>2. ASSUME UNCHANGED <<cq, bufs>> PROVE BufferPlaced(b)'
    BY Zenon, <1>1, <1>2 DEF BufferPlaced
  <1>3. CASE Loop
    <2>1. CASE SubmitSqe
      <3>1. bufs' = bufs
        BY Zenon, <2>1 DEF SubmitSqe
      <3>2. CASE cq' = cq
        BY Zenon, <1>2, <3>1, <3>2
      <3>3. CASE cq' # cq
        <4>1. Head(sq).ctx \in Addrs \cup {AcceptCtx}
          BY <1>0, <2>1, TypeFacts DEF SubmitSqe, Sqes, AcceptSqe
        <4>2. PICK e : e = Cqe(Head(sq).ctx, None, "error")
          BY Zenon
        <4>3. e \in Cqes /\ e.buf = None
          BY Zenon, <4>1, <4>2 DEF Cqe, Cqes, Results
        <4>4. Post(e)
          BY Zenon, <2>1, <3>3, <4>2 DEF SubmitSqe, Post
        <4>5. bufs' = bufs \ {e.buf}
          BY Zenon, <1>0, <3>1, <4>3 DEF TypeInv, TypeOK
        <4> QED
          BY Zenon, <1>0, <1>1, <4>3, <4>4, <4>5, BufferPosted
      <3> QED
        BY Zenon, <3>2, <3>3
    <2>2. CASE ~SubmitSqe
      <3>1. UNCHANGED <<cq, bufs>>
        BY Zenon, <1>1, <1>3, <2>2 DEF Loop, SetupFail, Setup, LeaveLoop, Sweep,
               ReapNothing, ReapSome, BatchEnd, SubmitDone, WaitDone, Exit, engineVars
      <3> QED
        BY Zenon, <1>2, <3>1
    <2> QED
      BY Zenon, <2>1, <2>2
  <1>4. CASE Handle
    <2>1. CASE HandleAccept
      BY Zenon, <1>2, <2>1 DEF HandleAccept, engineVars
    <2>2. CASE HandleAcceptError
      <3>1. pc = "cqe" /\ batch > 0 /\ CqeSeen /\ Head(cq).ctx = AcceptCtx /\ bufs' = bufs
        BY Zenon, <2>2 DEF HandleAcceptError, AtAccept
      <3>2. 1 \in DOMAIN cq /\ Head(cq) = cq[1]
        BY <1>0, <3>1, TypeFacts
      <3>3. Head(cq).buf = None
        BY Zenon, <1>0, <3>1, <3>2 DEF RefInv, CqRefs, CqRef
      <3> QED
        BY Zenon, <1>0, <1>1, <3>1, <3>3, BufferSeen
    <2>3. CASE HandleRecvMore \/ HandleRecvNoBufs \/ HandleRecvEnd
      <3>1. PICK v \in Context :
                /\ AtCompletion(v, "RECV") /\ CqeSeen
                /\ \/ return_recv_buffer(Head(cq))
                   \/ bufs' = bufs /\ ~Head(cq).more
        BY Zenon, <2>3 DEF HandleRecvMore, HandleRecvNoBufs, HandleRecvEnd
      <3>2. CqRef(Head(cq)) /\ pc = "cqe" /\ batch > 0 /\ Head(cq).ctx # AcceptCtx
        BY Zenon, <1>0, <3>1, ReadsLive
      <3>3. bufs' = IF Head(cq).buf = None THEN bufs ELSE bufs \cup {Head(cq).buf}
        BY Zenon, <3>1, <3>2 DEF CqRef, return_recv_buffer
      <3> QED
        BY Zenon, <1>0, <1>1, <3>1, <3>2, <3>3, BufferSeen
    <2> QED
      BY Zenon, <1>0, <1>4, <2>1, <2>2, <2>3, HandlersThatRun
  <1>5. CASE Open
    <2>1. pc = "handshake" /\ batch > 0 /\ CqeSeen /\ Head(cq).ctx = AcceptCtx /\ bufs' = bufs
      BY Zenon, <1>5 DEF Open, HandshakeFailed, OpenReverse, OpenMultishot,
             OpenSingleShot, OpenSession, AtAccept
    <2>2. 1 \in DOMAIN cq /\ Head(cq) = cq[1]
      BY <1>0, <2>1, TypeFacts
    <2>3. Head(cq).buf = None
      BY Zenon, <1>0, <2>1, <2>2 DEF RefInv, CqRefs, CqRef
    <2> QED
      BY Zenon, <1>0, <1>1, <2>1, <2>3, BufferSeen
  <1>6. CASE Kernel
    BY Zenon, <1>1, <1>6, BuffersKernel
  <1>7. CASE Environment \/ UNCHANGED vars
    BY Zenon, <1>2, <1>7
       DEF Environment, PeerConnect, PeerHandshake, PeerClose, DeadlinePasses,
                      StopSignal, vars, engineVars
  <1> QED
    BY Zenon, <1>3, <1>4, <1>5, <1>6, <1>7 DEF Next, Worker, Terminated

\* With multishot receive and sending clients each provided buffer is with the
\* kernel or in exactly one completion, for every number of buffers and sessions.
THEOREM ServerBuffersConserved ==
    ASSUME UseMultishot, Directions \subseteq {"forward"}
    PROVE  Spec => []BuffersConserved
  <1>1. Init => BuffersConserved
    BY PlacedConserved DEF Init, BufferPlaced
  <1>2. ForwardInv /\ BuffersConserved /\ [Next]_vars => BuffersConserved'
    BY Zenon, BuffersStep
  <1> QED
    BY <1>1, <1>2, ForwardAlways, PTL DEF Spec

--------------------------------------------------------------------------------
(* Every session is watched, where the submission queue has room for its receive *)

WatchInv ==
    /\ ForwardInv
    /\ ArmedInv
    /\ Watched
    /\ SqRoom

\* A completion is marked seen that was not the end of the receive of a.
LEMMA WatchSeen ==
    ASSUME TypeInv, pc \in {"cqe", "handshake"}, batch > 0, CqeSeen,
           NEW e, SqGrows(e), NEW a, WatchedAt(a), Head(cq).ctx # a \/ Head(cq).more,
           kernel' = kernel, ctx'[a] = ctx[a]
    PROVE  WatchedAt(a)'
  <1>1. RxOp(a)' = RxOp(a)
    BY Zenon DEF RxOp
  <1>2. CASE ~NoneAt(sq, a)
    BY Zenon, <1>2 DEF WatchedAt, NoneAt, SqGrows
  <1>3. CASE kernel[RxOp(a)] > 0
    BY Zenon, <1>1, <1>3 DEF WatchedAt
  <1>4. ASSUME NEW i \in At(cq, a), ~cq[i].more PROVE WatchedAt(a)'
    <2>1. /\ DOMAIN cq = 1..Len(cq) /\ DOMAIN cq' = 1..(Len(cq) - 1)
          /\ Len(cq) \in Nat /\ Len(cq) > 0
          /\ \A j \in DOMAIN cq' : cq'[j] = cq[j + 1]
          /\ Head(cq) = cq[1]
      BY Zenon, CqeSeenType
    <2>2. i \in 1..Len(cq) /\ i # 1 /\ cq[i].ctx = a
      BY Zenon, <1>4, <2>1 DEF At
    <2>3. i - 1 \in DOMAIN cq' /\ cq'[i - 1] = cq[i]
      BY <2>1, <2>2
    <2>4. i - 1 \in At(cq', a) /\ ~cq'[i - 1].more
      BY Zenon, <1>4, <2>2, <2>3 DEF At
    <2> QED
      BY Zenon, <2>4 DEF WatchedAt
  <1> QED
    BY Zenon, <1>2, <1>3, <1>4 DEF WatchedAt

\* A step of the kernel, of a peer or of the loop that keeps the contexts.
LEMMA WatchKept ==
    ASSUME NEW a, WatchedAt(a), ctx' = ctx,
           ~NoneAt(sq, a) => ~NoneAt(sq', a) \/ kernel'[RxOp(a)] > 0,
           kernel[RxOp(a)] > 0 =>
               kernel'[RxOp(a)] > 0 \/ \E i \in At(cq', a) : ~cq'[i].more,
           \A i \in DOMAIN cq : i \in DOMAIN cq' /\ cq'[i] = cq[i]
    PROVE  WatchedAt(a)'
  <1>1. RxOp(a)' = RxOp(a)
    BY Zenon DEF RxOp
  <1>2. CASE ~NoneAt(sq, a)
    BY Zenon, <1>1, <1>2 DEF WatchedAt
  <1>3. CASE kernel[RxOp(a)] > 0
    BY Zenon, <1>1, <1>3 DEF WatchedAt
  <1>4. ASSUME NEW i \in At(cq, a), ~cq[i].more PROVE WatchedAt(a)'
    BY Zenon, <1>4 DEF WatchedAt, At
  <1> QED
    BY Zenon, <1>2, <1>3, <1>4 DEF WatchedAt

\* A batch prepares at most one SQE for each of its completions, and one more.
LEMMA RoomStep ==
    ASSUME UseMultishot, WatchInv, [Next]_vars
    PROVE  SqRoom'
  <1>0. /\ FdInv /\ RefInv /\ TypeInv /\ ArmedInv /\ SqRoom /\ PeerInv
        /\ batch \in Nat /\ Len(sq) \in Nat
    BY TypeFacts DEF WatchInv, ForwardInv, ArmedInv
  <1>1. CASE Loop
    <2>1. CASE ReapSome
      <3>1. sq = <<>> /\ sq' = sq
        BY Zenon, <1>0, <2>1 DEF ReapSome, ArmedInv, SqSubmitted, engineVars
      <3>2. Len(sq') = 0
        BY Zenon, <3>1
      <3>3. batch' \in Nat /\ batch' =< InFlight
        BY <1>0, <2>1, InFlightAssumption
        DEF ReapSome, reap_completions, Lesser, TypeInv, TypeOK
      <3>4. \A n, m : n = 0 /\ m \in Nat /\ m =< InFlight => n + m =< InFlight + 1
        BY InFlightAssumption
      <3>5. Len(sq') + batch' =< InFlight + 1
        BY Zenon, <3>2, <3>3, <3>4
      <3> QED
        BY Zenon, <3>5 DEF SqRoom
    <2>2. CASE ~ReapSome
      <3>1. pc' \notin {"cqe", "handshake"}
        BY Zenon, <1>1, <2>2 DEF Loop, SetupFail, Setup, LeaveLoop, Sweep, ReapNothing,
               BatchEnd, SubmitSqe, SubmitDone, WaitDone, Exit
      <3> QED
        BY Zenon, <3>1 DEF SqRoom
    <2> QED
      BY Zenon, <2>1, <2>2
  <1>2. CASE Handle
    <2>1. CASE HandleAccept
      BY Zenon, <1>0, <2>1 DEF HandleAccept, AtAccept, SqRoom, engineVars
    <2>2. CASE ~HandleAccept
      <3>1. pc = "cqe" /\ batch' = batch - 1
        BY Zenon, <1>2, <2>2 DEF Handle, HandleAcceptError, HandleSend, HandleRecvMore,
               HandleRecvNoBufs, HandleRecvEnd, HandleRecvAgain, HandleRecvClose,
               HandleUnknown, AtAccept, AtCompletion, CqeSeen
      <3>2. sq' = sq \/ \E e \in Sqes : sq' = GetSqe(sq, e)
        <4>1. CASE HandleAcceptError
          <5>1. sq' = GetSqe(sq, AcceptSqe)
            BY Zenon, <4>1 DEF HandleAcceptError, RearmAccept, prep_accept, AcceptSqe
          <5> QED
            BY Zenon, <5>1, SqeTypes
        <4>2. CASE HandleRecvNoBufs
          <5>1. PICK v \in Context :
                    /\ AtCompletion(v, "RECV") /\ CqeSeen
                    /\ sq' = prep_recv_multishot(sq, v.fd, Head(cq).ctx)
            BY Zenon, <4>2 DEF HandleRecvNoBufs
          <5>2. v.fd \in Fds /\ Head(cq).ctx \in Addrs
            BY Zenon, <1>0, <5>1, CompletionType
          <5>3. [kind |-> "RECV_MULTISHOT", fd |-> v.fd, ctx |-> Head(cq).ctx] \in Sqes
            BY Zenon, <5>2, SqeTypes DEF IOKinds
          <5> QED
            BY Zenon, <5>1, <5>3 DEF prep_recv_multishot
        <4>3. CASE HandleRecvMore \/ HandleRecvEnd
          BY Zenon, <4>3 DEF HandleRecvMore, HandleRecvEnd
        <4> QED
          BY Zenon, <1>0, <1>2, <2>2, <4>1, <4>2, <4>3, HandlersThatRun
      <3>3. Len(sq') =< Len(sq) + 1 /\ Len(sq') \in Nat
        BY <1>0, <3>2, GetSqeProperties, TypeFacts
      <3>4. Len(sq) + batch =< InFlight + 1
        BY Zenon, <1>0, <3>1 DEF SqRoom
      <3> QED
        BY <1>0, <3>1, <3>3, <3>4, InFlightAssumption DEF SqRoom
    <2> QED
      BY Zenon, <2>1, <2>2
  <1>3. CASE Open
    <2>1. /\ pc = "handshake" /\ batch > 0 /\ batch' = batch - 1
          /\ Head(cq).ctx = AcceptCtx
      BY Zenon, <1>3 DEF Open, HandshakeFailed, OpenReverse, OpenMultishot,
             OpenSingleShot, OpenSession, AtAccept, CqeSeen
    <2>2. cq \in Seq(Cqes) /\ cq # <<>>
      BY <1>0, <2>1, TypeFacts
    <2>3. NoneAt(sq, AcceptCtx)
      BY Zenon, <1>0, <2>1, <2>2, TailAt DEF ArmedInv, AcceptArmed
    <2>4. Len(sq) + batch =< InFlight
      BY Zenon, <1>0, <2>1, <2>3 DEF ArmedInv, AcceptRoom
    <2>5. Len(sq') =< Len(sq) + 2 /\ Len(sq') \in Nat
      <3>1. sq \in Seq(Sqes) /\ AcceptSqe \in Sqes
        BY Zenon, <1>0, SqeTypes DEF TypeInv, TypeOK
      <3>2. CASE HandshakeFailed
        <4>1. sq' = GetSqe(sq, AcceptSqe)
          BY Zenon, <3>2 DEF HandshakeFailed, RearmAccept, prep_accept, AcceptSqe
        <4>2. Len(sq') =< Len(sq) + 1 /\ sq' \in Seq(Sqes)
          BY Zenon, <3>1, <4>1, GetSqeProperties
        <4> QED
          BY <1>0, <4>2
      <3>3. CASE OpenReverse
        <4>1. Head(cq) = cq[1] /\ 1 \in DOMAIN cq
          BY <2>2
        <4>2. Head(cq).conn \in Conns
          BY Zenon, <1>0, <2>1, <4>1 DEF TypeInv, AcceptCqes, InHandshake
        <4> QED
          BY Zenon, <1>0, <3>3, <4>2 DEF OpenReverse, PeerInv, OnlyForward
      <3>4. CASE OpenMultishot
        <4>1. AtAccept("handshake") /\ OpenSession(1, "RECV", "RECV_MULTISHOT", FALSE)
          BY Zenon, <3>4 DEF OpenMultishot
        <4>2. PICK e \in Sqes : sq' = RearmAccept(GetSqe(sq, e))
          BY Zenon, <1>0, <4>1, OpenedOne
        <4>3. Len(sq') =< Len(sq) + 2
          BY Zenon, <1>0, <4>2, GrowsTwo
        <4>4. GetSqe(sq, e) \in Seq(Sqes)
          BY Zenon, <3>1, GetSqeProperties
        <4>5. sq' \in Seq(Sqes)
          BY Zenon, <3>1, <4>2, <4>4, GetSqeProperties
             DEF RearmAccept, prep_accept, AcceptSqe
        <4> QED
          BY <4>3, <4>5
      <3>5. ~OpenSingleShot
        BY Zenon DEF OpenSingleShot
      <3> QED
        BY Zenon, <1>3, <3>2, <3>3, <3>4, <3>5 DEF Open
    <2> QED
      BY <1>0, <2>1, <2>4, <2>5, InFlightAssumption DEF SqRoom
  <1>4. CASE Kernel \/ Environment \/ UNCHANGED vars
    <2>1. UNCHANGED <<pc, sq, batch>>
      BY Zenon, <1>4
      DEF Kernel, KernelAccept, KernelAcceptError, KernelComplete, KernelSendZc,
          KernelNotif, KernelRecvMore, Environment, PeerConnect, PeerHandshake,
          PeerClose, DeadlinePasses, StopSignal, vars, engineVars
    <2> QED
      BY Zenon, <1>0, <2>1 DEF SqRoom
  <1> QED
    BY Zenon, <1>1, <1>2, <1>3, <1>4 DEF Next, Worker, Terminated

\* A handled completion leaves every session its receive: the one that ended for
\* want of buffers is prepared again, since there is room, and any other end takes
\* the session with it.
LEMMA WatchHandle ==
    ASSUME UseMultishot, QueueDepth >= 2 * InFlight, WatchInv, Handle
    PROVE  Watched'
  <1>0. /\ FdInv /\ RefInv /\ PeerInv /\ TypeInv /\ SqRoom /\ FdsOwned /\ ConnsApart
        /\ batch \in Nat /\ Len(sq) \in Nat
        /\ \A a \in live : WatchedAt(a)
    BY TypeFacts DEF WatchInv, ForwardInv, FdInv, PeerInv, Watched
  <1>1. CASE HandleAcceptError
    <2>1. /\ pc = "cqe" /\ batch > 0 /\ CqeSeen /\ Head(cq).ctx = AcceptCtx
          /\ sq' = GetSqe(sq, AcceptSqe) /\ UNCHANGED <<kernel, ctx, live>>
      BY Zenon, <1>1
         DEF HandleAcceptError, AtAccept, RearmAccept, prep_accept, AcceptSqe,
                         sessionVars
    <2>2. SqGrows(AcceptSqe) /\ \A a \in live : a # AcceptCtx
      BY Zenon, <1>0, <2>1, GrowsOne, SqeTypes, RxOps DEF RefInv
    <2> QED
      BY Zenon, <1>0, <2>1, <2>2, WatchSeen DEF Watched
  <1>2. CASE HandleAccept
    BY Zenon, <1>0, <1>2
       DEF HandleAccept, engineVars, sessionVars, Watched, WatchedAt, RxOp,
                      NoneAt, At
  <1>3. CASE HandleRecvMore
    <2>1. /\ pc = "cqe" /\ batch > 0 /\ CqeSeen /\ Head(cq).more
          /\ UNCHANGED <<sq, kernel, ctx, live>>
      BY Zenon, <1>3 DEF HandleRecvMore, AtCompletion, sessionVars
    <2>2. SqGrows(AcceptSqe)
      BY Zenon, <2>1 DEF SqGrows
    <2> QED
      BY Zenon, <1>0, <2>1, <2>2, WatchSeen DEF Watched
  <1>4. CASE HandleRecvNoBufs
    <2>1. PICK v \in Context :
              /\ AtCompletion(v, "RECV") /\ CqeSeen
              /\ sq' = prep_recv_multishot(sq, v.fd, Head(cq).ctx)
              /\ UNCHANGED <<kernel, ctx, live>>
      BY Zenon, <1>4 DEF HandleRecvNoBufs, sessionVars
    <2>2. PICK a : a = Head(cq).ctx
      BY Zenon
    <2>3. a \in live /\ v = ctx[a] /\ pc = "cqe" /\ batch > 0 /\ a # AcceptCtx
      BY Zenon, <1>0, <2>1, <2>2, ReadsLive
    <2>4. PICK e : e = [kind |-> "RECV_MULTISHOT", fd |-> ctx[a].fd, ctx |-> a]
      BY Zenon
    <2>5. sq' = GetSqe(sq, e) /\ e.ctx = a
      BY Zenon, <2>1, <2>2, <2>3, <2>4 DEF prep_recv_multishot
    <2>6. e \in Sqes
      BY Zenon, <1>0, <2>3, <2>4
         DEF RefInv, ContextsOwned, TypeInv, TypeOK, Sqes, IOKinds
    <2>7. Len(sq) < QueueDepth
      <3>1. Len(sq) + batch =< InFlight + 1
        BY Zenon, <1>0, <2>3 DEF SqRoom
      <3> QED
        BY <1>0, <2>3, <3>1, InFlightAssumption, QueueDepthAssumption
    <2>8. /\ SqGrows(e)
          /\ Len(sq) + 1 \in DOMAIN sq' /\ sq'[Len(sq) + 1] = e
      BY Zenon, <1>0, <2>5, <2>6, <2>7, GrowsOne
    <2>9. WatchedAt(a)'
      BY Zenon, <2>5, <2>8 DEF WatchedAt, NoneAt
    <2>10. ASSUME NEW b \in live, b # a PROVE WatchedAt(b)'
      BY Zenon, <1>0, <2>1, <2>2, <2>3, <2>8, <2>10, WatchSeen
    <2> QED
      BY Zenon, <2>1, <2>9, <2>10 DEF Watched
  <1>5. CASE HandleRecvEnd
    <2>1. PICK v \in Context :
              /\ AtCompletion(v, "RECV") /\ CqeSeen /\ ~Head(cq).more
              /\ CloseIfPresent(v.fd) /\ UNCHANGED <<sq, kernel>>
      BY Zenon, <1>5 DEF HandleRecvEnd
    <2>2. PICK a : a = Head(cq).ctx
      BY Zenon
    <2>3. a \in live /\ v = ctx[a] /\ pc = "cqe" /\ batch > 0 /\ a # AcceptCtx
      BY Zenon, <1>0, <2>1, <2>2, ReadsLive
    <2>4. live' = live \ {a} /\ ctx' = ctx
      BY Zenon, <1>0, <2>1, <2>2, <2>3, RefClose
    <2>5. SqGrows(AcceptSqe)
      BY Zenon, <2>1 DEF SqGrows
    <2>6. ASSUME NEW b \in live' PROVE WatchedAt(b)'
      BY Zenon, <1>0, <2>1, <2>2, <2>3, <2>4, <2>5, WatchSeen
    <2> QED
      BY Zenon, <2>6 DEF Watched
  <1> QED
    BY Zenon, <1>0, <1>1, <1>2, <1>3, <1>4, <1>5, HandlersThatRun

\* A new session gets its receive, since there is room for it and the accept.
LEMMA WatchOpen ==
    ASSUME UseMultishot, QueueDepth >= 2 * InFlight, WatchInv, Open
    PROVE  Watched'
  <1>0. /\ FdInv /\ RefInv /\ PeerInv /\ TypeInv /\ ArmedInv
        /\ batch \in Nat /\ Len(sq) \in Nat
        /\ \A a \in live : WatchedAt(a)
        /\ \A a \in live : a # AcceptCtx
    BY RxOps, TypeFacts DEF WatchInv, ForwardInv, FdInv, Watched, RefInv
  <1>1. CASE HandshakeFailed
    <2>1. /\ pc = "handshake" /\ batch > 0 /\ CqeSeen /\ Head(cq).ctx = AcceptCtx
          /\ sq' = GetSqe(sq, AcceptSqe) /\ UNCHANGED <<kernel, ctx, live>>
      BY Zenon, <1>1 DEF HandshakeFailed, AtAccept, RearmAccept, prep_accept, AcceptSqe
    <2>2. SqGrows(AcceptSqe)
      BY Zenon, <1>0, <2>1, GrowsOne, SqeTypes
    <2> QED
      BY Zenon, <1>0, <2>1, <2>2, WatchSeen DEF Watched
  <1>2. CASE OpenReverse
    <2>1. /\ pc = "handshake" /\ hs[Head(cq).conn] = "reverse"
      BY Zenon, <1>2 DEF OpenReverse, AtAccept
    <2>2. batch > 0 /\ Head(cq).ctx = AcceptCtx /\ Head(cq).res = "positive"
      BY Zenon, <1>0, <2>1 DEF TypeInv, InHandshake
    <2>3. 1 \in DOMAIN cq /\ Head(cq) = cq[1]
      BY <1>0, <2>1, <2>2, TypeFacts
    <2>4. Head(cq).conn \in Conns
      BY Zenon, <1>0, <2>2, <2>3 DEF TypeInv, AcceptCqes
    <2> QED
      BY Zenon, <1>0, <2>1, <2>4 DEF PeerInv, OnlyForward
  <1>3. CASE OpenMultishot
    <2>1. AtAccept("handshake") /\ OpenSession(1, "RECV", "RECV_MULTISHOT", FALSE)
      BY Zenon, <1>3 DEF OpenMultishot
    <2>2. PICK f, c : f = Head(cq).fd /\ c = Head(cq).conn
      BY Zenon
    <2>3. PICK a \in Addrs \ live :
              /\ live' = live \cup {a}
              /\ ctx' = [b \in Addrs |->
                            IF b = a THEN [type |-> "RECV", fd |-> f, conn |-> c]
                            ELSE ctx[b]]
              /\ [kind |-> "RECV_MULTISHOT", fd |-> f, ctx |-> a] \in Sqes
              /\ sq' = RearmAccept(GetSqe(sq,
                          [kind |-> "RECV_MULTISHOT", fd |-> f, ctx |-> a]))
              /\ pc = "handshake" /\ batch > 0 /\ CqeSeen /\ Head(cq).ctx = AcceptCtx
              /\ kernel' = kernel
      BY Zenon, <1>0, <2>1, <2>2, OpenedOne
    <2>4. PICK e : e = [kind |-> "RECV_MULTISHOT", fd |-> f, ctx |-> a]
      BY Zenon
    <2>5. e \in Sqes /\ sq' = RearmAccept(GetSqe(sq, e)) /\ e.ctx = a
      BY Zenon, <2>3, <2>4
    <2>6. Len(sq) < QueueDepth
      <3>1. cq \in Seq(Cqes) /\ cq # <<>>
        BY <1>0, <2>3, TypeFacts
      <3>2. NoneAt(sq, AcceptCtx)
        BY Zenon, <1>0, <2>3, <3>1, TailAt DEF ArmedInv, AcceptArmed
      <3>3. Len(sq) + batch =< InFlight
        BY Zenon, <1>0, <2>3, <3>2 DEF ArmedInv, AcceptRoom
      <3>4. batch > 0 /\ batch \in Nat /\ sq \in Seq(Sqes)
        BY Zenon, <1>0, <2>3 DEF TypeInv, TypeOK
      <3>5. Len(sq) < InFlight
        BY <3>3, <3>4, InFlightAssumption
      <3> QED
        BY <3>4, <3>5, InFlightAssumption, QueueDepthAssumption
    <2>7. SqGrows(e) /\ Len(sq) + 1 \in DOMAIN sq' /\ sq'[Len(sq) + 1] = e
      BY Zenon, <1>0, <2>5, <2>6, GrowsTwo
    <2>8. WatchedAt(a)'
      BY Zenon, <2>5, <2>7 DEF WatchedAt, NoneAt
    <2>9. ASSUME NEW b \in live PROVE WatchedAt(b)'
      <3>1. ctx'[b] = ctx[b] /\ Head(cq).ctx # b
        BY Zenon, <1>0, <2>3 DEF TypeInv, TypeOK
      <3> QED
        BY Zenon, <1>0, <2>3, <2>7, <3>1, WatchSeen
    <2> QED
      BY Zenon, <2>3, <2>8, <2>9 DEF Watched
  <1>4. CASE OpenSingleShot
    BY Zenon, <1>4 DEF OpenSingleShot
  <1> QED
    BY Zenon, <1>1, <1>2, <1>3, <1>4 DEF Open

\* A step that leaves the queues, the kernel and the contexts alone.
LEMMA WatchQuiet ==
    ASSUME Watched, UNCHANGED <<sq, kernel, cq, ctx, live>>
    PROVE  Watched'
  BY Zenon DEF Watched, WatchedAt, RxOp, NoneAt, At

\* A receive that is submitted is in the kernel.
LEMMA WatchLoop ==
    ASSUME WatchInv, Loop
    PROVE  Watched'
  <1>0. /\ FdInv /\ RefInv /\ PeerInv /\ TypeInv /\ FdsOwned /\ Watched
        /\ \A a \in live : WatchedAt(a)
    BY Zenon DEF WatchInv, ForwardInv, FdInv, Watched
  <1>1. CASE SetupFail \/ LeaveLoop \/ ReapNothing \/ ReapSome \/ BatchEnd
             \/ SubmitDone \/ WaitDone
    BY Zenon, <1>0, <1>1, WatchQuiet
    DEF SetupFail, LeaveLoop, ReapNothing, ReapSome, BatchEnd, SubmitDone, WaitDone,
        engineVars, sessionVars
  <1>2. CASE Setup
    <2>1. live = {} /\ live' = live
      BY Zenon, <1>2 DEF Setup, sessionVars, WatchInv, ForwardInv, AtRest
    <2> QED
      BY Zenon, <2>1 DEF Watched
  <1>3. CASE Sweep
    <2>1. Expired = {}
      BY Zenon, <1>0, ConstantsAssumption
         DEF Expired, PeerInv, OnlyForward, TypeInv, TypeOK
    <2>2. EraseSessions({}) /\ UNCHANGED <<sq, kernel, cq>>
      BY Zenon, <1>3, <2>1 DEF Sweep, engineVars
    <2>3. live' = live /\ ctx' = ctx
      BY Zenon, <2>2 DEF EraseSessions
    <2> QED
      BY Zenon, <1>0, <2>2, <2>3, WatchQuiet
  <1>4. CASE SubmitSqe
    <2>1. UNCHANGED <<ctx, live>>
      BY Zenon, <1>4 DEF SubmitSqe, sessionVars
    <2>2. ASSUME NEW a \in live PROVE WatchedAt(a)'
      <3>1. RxOp(a) \in Ops /\ RxOp(a).ctx = a /\ a # AcceptCtx
        BY Zenon, <1>0, RxOps DEF RefInv
      <3>2. \A o \in Ops : kernel'[o] >= kernel[o] /\ kernel[o] \in Nat /\ kernel'[o] \in Nat
        <4>1. kernel \in [Ops -> Nat]
          BY Zenon, <1>0 DEF TypeInv, TypeOK
        <4>2. \/ kernel' = kernel
              \/ \E o \in Ops : kernel' = [kernel EXCEPT ![o] = @ + 1]
          BY Zenon, <1>4 DEF SubmitSqe
        <4> QED
          BY <4>1, <4>2
      <3>3. \A i \in DOMAIN cq : i \in DOMAIN cq' /\ cq'[i] = cq[i]
        <4>1. cq \in Seq(Cqes) /\ (cq' = cq \/ \E e : cq' = Append(cq, e))
          BY Zenon, <1>0, <1>4 DEF SubmitSqe, TypeInv, TypeOK
        <4>2. CASE cq' = cq
          BY Zenon, <4>2
        <4>3. ASSUME NEW e, cq' = Append(cq, e)
              PROVE  \A i \in DOMAIN cq : i \in DOMAIN cq' /\ cq'[i] = cq[i]
          BY <4>1, <4>3
        <4> QED
          BY Zenon, <4>1, <4>2, <4>3
      <3>4. kernel[RxOp(a)] > 0 => kernel'[RxOp(a)] > 0
        BY <3>1, <3>2
      <3>5. ASSUME ~NoneAt(sq, a) PROVE ~NoneAt(sq', a) \/ kernel'[RxOp(a)] > 0
        <4>1. PICK i \in DOMAIN sq : sq[i].ctx = a
          BY Zenon, <3>5 DEF NoneAt
        <4>2. /\ sq \in Seq(Sqes) /\ sq # <<>> /\ sq' = Tail(sq)
              /\ pc # "done"
          BY Zenon, <1>0, <1>4 DEF SubmitSqe, TypeInv, TypeOK
        <4>3. CASE i = 1
          <5>1. Head(sq) = sq[1] /\ Head(sq).ctx = a /\ 1 \in DOMAIN sq
            BY <4>1, <4>2, <4>3
          <5>2. Head(sq).kind = "RECV_MULTISHOT" /\ Head(sq).fd = ctx[a].fd
            BY Zenon, <1>0, <3>1, <5>1 DEF RefInv, SqRefs
          <5>3. /\ ctx[a].fd \in Fds /\ ctx[a].conn \in Conns
                /\ sessions[ctx[a].fd] = ctx[a].conn
            BY Zenon, <1>0 DEF RefInv, ContextsOwned
          <5>4. fdTable[Head(sq).fd] = ctx[a].conn
            BY Zenon, <1>0, <4>2, <5>2, <5>3, ConstantsAssumption DEF FdsOwned
          <5>5. Head(sq) # AcceptSqe
            BY <3>1, <5>1 DEF AcceptSqe
          <5>6. [kind |-> Head(sq).kind, conn |-> fdTable[Head(sq).fd],
                 ctx |-> Head(sq).ctx] = RxOp(a)
            BY Zenon, <5>1, <5>2, <5>4 DEF RxOp
          <5>7. kernel' = [kernel EXCEPT ![RxOp(a)] = @ + 1]
            BY Zenon, <1>4, <3>1, <5>5, <5>6 DEF SubmitSqe
          <5> QED
            BY <1>0, <3>1, <5>7, TypeFacts
        <4>4. CASE i # 1
          <5>1. i - 1 \in DOMAIN sq' /\ sq'[i - 1] = sq[i]
            BY <4>1, <4>2, <4>4
          <5> QED
            BY Zenon, <4>1, <5>1 DEF NoneAt
        <4> QED
          BY Zenon, <4>3, <4>4
      <3> QED
        BY Zenon, <1>0, <2>1, <3>3, <3>4, <3>5, WatchKept
    <2> QED
      BY Zenon, <2>1, <2>2 DEF Watched
  <1>5. CASE Exit
    <2>1. AtRest' /\ pc' = "done"
      BY Zenon, <1>0, <1>5, RestStep DEF Exit, WatchInv, ForwardInv, Next, Worker, Loop
    <2> QED
      BY Zenon, <2>1 DEF AtRest, Watched
  <1> QED
    BY Zenon, <1>1, <1>2, <1>3, <1>4, <1>5 DEF Loop

\* A receive that leaves the kernel leaves its end behind.
LEMMA WatchKernel ==
    ASSUME WatchInv, Kernel
    PROVE  Watched'
  <1>0. /\ TypeInv /\ RefInv /\ ContextsOwned
        /\ kernel \in [Ops -> Nat] /\ cq \in Seq(Cqes)
        /\ \A a \in live : WatchedAt(a)
    BY Zenon DEF WatchInv, ForwardInv, FdInv, Watched, TypeInv, TypeOK, RefInv
  <1>1. UNCHANGED <<sq, ctx, live>> /\ \E e : cq' = Append(cq, e)
    BY Zenon DEF Kernel, KernelAccept, KernelAcceptError, KernelComplete, KernelSendZc,
           KernelNotif, KernelRecvMore, Post, sessionVars
  <1>2. \A i \in DOMAIN cq : i \in DOMAIN cq' /\ cq'[i] = cq[i]
    BY <1>0, <1>1
  <1>3. ASSUME NEW a \in live, kernel[RxOp(a)] > 0
        PROVE  kernel'[RxOp(a)] > 0 \/ \E i \in At(cq', a) : ~cq'[i].more
    <2>1. /\ RxOp(a) \in Ops /\ RxOp(a) # AcceptOp /\ RxOp(a).ctx = a
          /\ RxOp(a).kind = "RECV_MULTISHOT"
      BY Zenon, <1>0, RxOps DEF RxOp
    <2>2. CASE KernelAccept \/ KernelAcceptError
      <3>1. kernel' = [kernel EXCEPT ![AcceptOp] = @ - 1]
        BY Zenon, <2>2 DEF KernelAccept, KernelAcceptError, Finish
      <3> QED
        BY Zenon, <1>0, <1>3, <2>1, <3>1
    <2>3. CASE KernelComplete
      <3>1. PICK k \in {"SEND", "RECV", "RECV_MULTISHOT"}, c \in Conns, d \in Addrs :
                /\ \E r \in Outcomes(k, c) : Post(Cqe(d, c, r))
                /\ Finish([kind |-> k, conn |-> c, ctx |-> d])
        BY Zenon, <2>3 DEF KernelComplete
      <3>2. PICK r : cq' = Append(cq, Cqe(d, c, r))
        BY Zenon, <3>1 DEF Post
      <3>3. PICK e : e = Cqe(d, c, r)
        BY Zenon
      <3>4. e.ctx = d /\ ~e.more
        BY Zenon, <3>3 DEF Cqe
      <3>5. Len(cq) + 1 \in DOMAIN cq' /\ cq'[Len(cq) + 1] = e
        BY <1>0, <3>2, <3>3
      <3>6. CASE d = a
        BY Zenon, <3>4, <3>5, <3>6 DEF At
      <3>7. CASE d # a
        <4>1. [kind |-> k, conn |-> c, ctx |-> d] # RxOp(a)
          BY Zenon, <3>7 DEF RxOp
        <4>2. kernel'[RxOp(a)] = kernel[RxOp(a)]
          BY Zenon, <1>0, <2>1, <3>1, <4>1 DEF Finish
        <4> QED
          BY Zenon, <1>3, <4>2
      <3> QED
        BY Zenon, <3>6, <3>7
    <2>4. CASE KernelSendZc
      <3>1. PICK c \in Conns, d \in Addrs :
                kernel' = [kernel EXCEPT
                              ![[kind |-> "SEND_ZC", conn |-> c, ctx |-> d]] = @ - 1,
                              ![[kind |-> "NOTIF", conn |-> c, ctx |-> d]] = @ + 1]
        BY Zenon, <2>4 DEF KernelSendZc
      <3>2. /\ [kind |-> "SEND_ZC", conn |-> c, ctx |-> d] # RxOp(a)
            /\ [kind |-> "NOTIF", conn |-> c, ctx |-> d] # RxOp(a)
        BY Zenon DEF RxOp
      <3> QED
        BY Zenon, <1>0, <1>3, <2>1, <3>1, <3>2
    <2>5. CASE KernelNotif
      <3>1. PICK c \in Conns, d \in Addrs :
                kernel' = [kernel EXCEPT ![[kind |-> "NOTIF", conn |-> c, ctx |-> d]] = @ - 1]
        BY Zenon, <2>5 DEF KernelNotif, Finish
      <3>2. [kind |-> "NOTIF", conn |-> c, ctx |-> d] # RxOp(a)
        BY Zenon DEF RxOp
      <3> QED
        BY Zenon, <1>0, <1>3, <2>1, <3>1, <3>2
    <2>6. CASE KernelRecvMore
      BY Zenon, <1>3, <2>6 DEF KernelRecvMore
    <2> QED
      BY Zenon, <2>2, <2>3, <2>4, <2>5, <2>6 DEF Kernel
  <1>4. ASSUME NEW a \in live PROVE WatchedAt(a)'
    BY Zenon, <1>0, <1>1, <1>2, <1>3, WatchKept
  <1> QED
    BY Zenon, <1>1, <1>4 DEF Watched

\* Every step keeps the inductive invariant.
LEMMA WatchStep ==
    ASSUME UseMultishot, Directions \subseteq {"forward"}, QueueDepth >= 2 * InFlight
    PROVE  WatchInv /\ [Next]_vars => WatchInv'
  <1> SUFFICES ASSUME WatchInv, [Next]_vars PROVE WatchInv'
    BY Zenon
  <1>1. ForwardInv' /\ ArmedInv' /\ SqRoom'
    BY Zenon, ForwardStep, ArmedStep, RoomStep DEF WatchInv
  <1>2. CASE Environment \/ UNCHANGED vars
    BY Zenon, <1>1, <1>2, WatchQuiet
    DEF WatchInv, Environment, PeerConnect, PeerHandshake, PeerClose, DeadlinePasses,
        StopSignal, vars, engineVars, sessionVars
  <1>3. CASE Loop \/ Handle \/ Open \/ Kernel
    BY Zenon, <1>1, <1>3, WatchLoop, WatchHandle, WatchOpen, WatchKernel DEF WatchInv
  <1> QED
    BY Zenon, <1>2, <1>3 DEF Next, Worker, Terminated

\* With multishot receive, sending clients and a submission queue at least twice
\* as deep as the pipeline, every session has a receive that will report its end:
\* neither the unchecked prep_recv_multishot() that arms it nor the one that
\* re-arms it after -ENOBUFS is ever dropped.
THEOREM SessionsAlwaysWatched ==
    ASSUME UseMultishot, Directions \subseteq {"forward"}, QueueDepth >= 2 * InFlight
    PROVE  Spec => []SessionsWatched
  <1>1. Init => WatchInv
    BY Zenon, ForwardInit, ArmedInit DEF Init, WatchInv, Watched, SqRoom
  <1>2. WatchInv /\ [Next]_vars => WatchInv'
    BY Zenon, WatchStep
  <1>3. WatchInv => SessionsWatched
    <2> SUFFICES ASSUME WatchInv, NEW f \in Fds, sessions[f] # None
                 PROVE  \E a \in ContextsOf(sessions[f]) :
                            Prepared(a) \/ InKernel(a) \/ Ended(a)
      BY Zenon DEF SessionsWatched
    <2>0. TypeInv /\ RefInv /\ ContextsOwned /\ Watched
      BY Zenon DEF WatchInv, ForwardInv, FdInv, RefInv
    <2>1. PICK a \in live : ctx[a].fd = f
      BY Zenon, <2>0 DEF ContextsOwned
    <2>2. ctx[a].conn = sessions[f] /\ RxOp(a) \in Ops /\ RxOp(a).ctx = a
      BY Zenon, <2>0, <2>1, RxOps DEF ContextsOwned
    <2>3. Prepared(a) \/ InKernel(a) \/ Ended(a)
      BY Zenon, <2>0, <2>2 DEF Watched, WatchedAt, Prepared, InKernel, Ended, NoneAt, At
    <2> QED
      BY Zenon, <2>1, <2>2, <2>3 DEF ContextsOf
  <1> QED
    BY <1>1, <1>2, <1>3, PTL DEF Spec
================================================================================
