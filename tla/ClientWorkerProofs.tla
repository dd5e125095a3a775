-------------------------- MODULE ClientWorkerProofs ---------------------------
(***************************************************************************)
(* ClientWorker, for every pipeline depth and queue depth: its contexts    *)
(* stay in rotation, and, with a queue at least as deep as the pipeline,   *)
(* each step of run_client(), of the kernel and of the stop signal is a    *)
(* step of the abstract Pipeline or leaves it unchanged.                   *)
(***************************************************************************)
EXTENDS ClientWorker, UringEngineProofs

(* Types and the rotation of the contexts *)

\* While a batch is handled its completions are still at the head of the queue.
BatchInCq == pc = "cqe" => batch =< Len(cq)

TypeInv == TypeOK /\ BatchInCq

\* What every handler finds at the head of the completion queue, and leaves.
LEMMA SeenType ==
    ASSUME TypeInv, AtCompletion, CqeSeen
    PROVE  /\ cq \in Seq(Cqes) /\ cq # <<>>
           /\ Head(cq) \in Cqes
           /\ cq' \in Seq(Cqes)
           /\ Len(cq') = Len(cq) - 1
           /\ batch' \in Nat /\ batch' = batch - 1
           /\ batch' =< Len(cq')
  <1>1. cq \in Seq(Cqes) /\ cq # <<>> /\ batch \in Nat /\ batch =< Len(cq) /\ batch > 0
    BY DEF TypeInv, TypeOK, BatchInCq, AtCompletion
  <1>2. cq' = Tail(cq) /\ batch' = batch - 1
    BY Zenon DEF CqeSeen
  <1> QED
    BY <1>1, <1>2

\* The SQE of a send is one, and preparing it keeps the type of the queue.
LEMMA PrepType ==
    ASSUME NEW q \in Seq(Sqes), NEW c \in Ctxs
    PROVE  /\ prep_send(q, c) \in Seq(Sqes)
           /\ prep_send(q, c) = GetSqe(q, [kind |-> SendKind, fd |-> Sock, ctx |-> c])
           /\ [kind |-> SendKind, fd |-> Sock, ctx |-> c] \in Sqes
  <1>1. [kind |-> SendKind, fd |-> Sock, ctx |-> c] \in Sqes
    BY Zenon, ClientAssumption DEF SendKind, Sqes
  <1>2. prep_send(q, c) = GetSqe(q, [kind |-> SendKind, fd |-> Sock, ctx |-> c])
    BY Zenon, ClientAssumption DEF prep_send, prep_send_zc, prep_send_standard, SendKind
  <1> QED
    BY Zenon, <1>1, <1>2, GetSqeProperties

\* The SQEs run_client() prepares first.
First == [c \in Ctxs |-> [kind |-> SendKind, fd |-> Sock, ctx |-> c]]

LEMMA FirstType == First \in Seq(Sqes) /\ Len(First) = InFlight
  <1>1. \A c \in Ctxs : First[c] \in Sqes
    BY Zenon, ClientAssumption DEF First, SendKind, Sqes
  <1>2. First \in [1..InFlight -> Sqes] /\ InFlight \in Nat
    BY Zenon, <1>1, ClientAssumption DEF First, Ctxs
  <1> QED
    BY <1>2

LEMMA TypeInit == Init => TypeInv
  <1> SUFFICES ASSUME Init PROVE TypeInv
    BY Zenon
  <1>1. sq \in Seq(Sqes) /\ cq \in Seq(Cqes)
    BY DEF Init
  <1>2. sending \in [Ctxs -> Nat] /\ notifs \in [Ctxs -> Nat]
    BY Zenon DEF Init
  <1> QED
    BY Zenon, <1>1, <1>2 DEF Init, TypeInv, TypeOK, BatchInCq

\* A completion the kernel posts keeps the type of the queue.
LEMMA PostType ==
    ASSUME TypeInv, NEW c \in Ctxs, NEW r \in Results, NEW n \in BOOLEAN,
           Post(c, r, n)
    PROVE  /\ [ctx |-> c, res |-> r, notif |-> n] \in Cqes
           /\ cq' \in Seq(Cqes)
           /\ Len(cq') = Len(cq) + 1
  <1>1. [ctx |-> c, res |-> r, notif |-> n] \in Cqes
    BY Zenon DEF Cqes
  <1> QED
    BY <1>1 DEF Post, TypeInv, TypeOK

LEMMA TypeStep == TypeInv /\ [Next]_vars => TypeInv'
  <1> SUFFICES ASSUME TypeInv, [Next]_vars PROVE TypeInv'
    BY Zenon
  <1> USE DEF TypeInv, TypeOK, BatchInCq
  <1>1. CASE ConnectFails
    BY Zenon, <1>1 DEF ConnectFails, engineVars
  <1>2. CASE Setup
    <2>1. sq' = PrepEach(sq, First)
      BY Zenon, <1>2 DEF Setup, First
    <2>2. CASE Len(sq) =< QueueDepth
      <3>1. sq' \in Seq(Sqes)
        BY Zenon, <2>1, <2>2, FirstType, PrepEachProperties
      <3> QED
        BY Zenon, <1>2, <3>1 DEF Setup
    <2>3. CASE Len(sq) > QueueDepth
      <3>1. Lesser(Len(First), QueueDepth - Len(sq)) < 0
        BY <2>3, FirstType, QueueDepthAssumption, ClientAssumption DEF Lesser
      <3> DEFINE n == Lesser(Len(First), QueueDepth - Len(sq))
      <3>2. n \in Int
        BY FirstType, QueueDepthAssumption, ClientAssumption DEF Lesser
      <3> HIDE DEF n
      <3>3. SubSeq(First, 1, n) = <<>>
        BY <3>1, <3>2, FirstType DEF n
      <3>4. sq' = sq \o <<>>
        BY Zenon, <2>1, <3>3 DEF PrepEach, n
      <3>5. sq' \in Seq(Sqes)
        BY <3>4
      <3> QED
        BY Zenon, <1>2, <3>5 DEF Setup
    <2> QED
      BY <2>2, <2>3, QueueDepthAssumption
  <1>3. CASE LeaveLoop
    BY Zenon, <1>3 DEF LeaveLoop, engineVars
  <1>4. CASE ReapNothing
    BY Zenon, <1>4 DEF ReapNothing, engineVars
  <1>5. CASE ReapSome
    BY <1>5, ClientAssumption DEF ReapSome, engineVars, reap_completions, Lesser
  <1>6. CASE BatchEnd
    BY Zenon, <1>6 DEF BatchEnd, engineVars
  <1>7. CASE SubmitSqe
    <2>1. Head(sq) \in Sqes /\ sq' \in Seq(Sqes)
      BY <1>7 DEF SubmitSqe
    <2>2. sending' \in [Ctxs -> Nat]
      BY SMTT(30), <1>7, <2>1 DEF SubmitSqe, Sqes
    <2> QED
      BY Zenon, <1>7, <2>1, <2>2 DEF SubmitSqe
  <1>8. CASE SubmitDone
    BY Zenon, <1>8 DEF SubmitDone, engineVars
  <1>9. CASE WaitDone
    BY Zenon, <1>9 DEF WaitDone, engineVars
  <1>10. CASE HandleNotif
    BY Zenon, <1>10, SeenType DEF HandleNotif
  <1>11. CASE HandleSent
    <2>1. AtCompletion /\ CqeSeen
      BY Zenon, <1>11 DEF HandleSent
    <2>2. Head(cq).ctx \in Ctxs
      BY Zenon, <2>1, SeenType DEF Cqes
    <2>3. sq' \in Seq(Sqes)
      BY Zenon, <1>11, <2>2, PrepType DEF HandleSent
    <2> QED
      BY Zenon, <1>11, <2>1, <2>3, SeenType DEF HandleSent
  <1>12. CASE HandleError
    <2>1. AtCompletion /\ CqeSeen
      BY Zenon, <1>12 DEF HandleError
    <2>2. Head(cq).ctx \in Ctxs
      BY Zenon, <2>1, SeenType DEF Cqes
    <2> QED
      BY Zenon, <1>12, <2>1, <2>2, SeenType DEF HandleError
  <1>13. CASE Exit
    <2>1. sq' \in Seq(Sqes) /\ cq' \in Seq(Cqes)
      BY <1>13 DEF Exit
    <2> QED
      BY Zenon, <1>13, <2>1 DEF Exit
  <1>14. CASE KernelSend
    <2>1. PICK c \in Ctxs, r \in {"positive", "again", "error"} :
              /\ sending[c] > 0
              /\ sending' = [sending EXCEPT ![c] = @ - 1]
              /\ Post(c, r, FALSE)
              /\ UNCHANGED <<pc, stop, batch, sq, notifs, failed>>
      BY Zenon, <1>14 DEF KernelSend
    <2>2. cq' \in Seq(Cqes) /\ Len(cq') = Len(cq) + 1
      BY Zenon, <2>1, PostType DEF Results
    <2> QED
      BY <2>1, <2>2
  <1>15. CASE KernelSendZc
    <2>1. PICK c \in Ctxs, r \in {"positive", "again", "error"} :
              /\ sending[c] > 0
              /\ sending' = [sending EXCEPT ![c] = @ - 1]
              /\ notifs' = [notifs EXCEPT ![c] = @ + 1]
              /\ Post(c, r, FALSE)
              /\ UNCHANGED <<pc, stop, batch, sq, failed>>
      BY Zenon, <1>15 DEF KernelSendZc
    <2>2. cq' \in Seq(Cqes) /\ Len(cq') = Len(cq) + 1
      BY Zenon, <2>1, PostType DEF Results
    <2> QED
      BY <2>1, <2>2
  <1>16. CASE KernelNotif
    <2>1. PICK c \in Ctxs :
              /\ notifs[c] > 0
              /\ notifs' = [notifs EXCEPT ![c] = @ - 1]
              /\ Post(c, "zero", TRUE)
              /\ UNCHANGED <<pc, stop, batch, sq, sending, failed>>
      BY Zenon, <1>16 DEF KernelNotif
    <2>2. cq' \in Seq(Cqes) /\ Len(cq') = Len(cq) + 1
      BY Zenon, <2>1, PostType DEF Results
    <2> QED
      BY <2>1, <2>2
  <1>17. CASE StopSignal
    BY Zenon, <1>17 DEF StopSignal, engineVars
  <1>18. CASE Terminated \/ UNCHANGED vars
    BY Zenon, <1>18 DEF Terminated, vars, engineVars
  <1> QED
    BY Zenon, <1>1, <1>2, <1>3, <1>4, <1>5, <1>6, <1>7, <1>8, <1>9, <1>10, <1>11, <1>12,
       <1>13, <1>14, <1>15, <1>16, <1>17, <1>18 DEF Next, Worker, Kernel

\* For every pipeline depth and queue depth the variables of run_client()'s
\* model stay in their domains.
THEOREM ClientTypeCorrect == Spec => []TypeOK
  <1>1. TypeInv => TypeOK
    BY Zenon DEF TypeInv
  <1> QED
    BY <1>1, TypeInit, TypeStep, PTL DEF Spec

--------------------------------------------------------------------------------
(* Every context stays in rotation *)

\* One reap hands over at most InFlight completions and each prepares at most
\* one send, so what is prepared and what is still to be handled fit together
\* in a queue of InFlight entries.
Room == pc = "cqe" => Len(sq) + batch =< InFlight

\* Every submit() leaves the submission queue empty.
Submitted == pc \in {"start", "loop", "exit"} => sq = <<>>

NotStarted ==
    pc = "start" =>
        /\ cq = <<>> /\ failed = {}
        /\ \A c \in Ctxs : sending[c] = 0 /\ notifs[c] = 0

\* What InRotation says of one context.
Turn(c) ==
    /\ c \in failed => Retired(c)
    /\ c \notin failed => UnderWay(c) \/ (stop /\ Retired(c))

\* A step keeps the send of context c where there is one, and starts none.
Same(c) == (Retired(c) => Retired(c)') /\ (UnderWay(c) => UnderWay(c)')

RotationInv == TypeInv /\ InRotation /\ Room /\ Submitted /\ NotStarted

SqOf(c) == {e \in Sqes : e.ctx = c}
CqOf(c) == {e \in Cqes : e.ctx = c /\ ~e.notif}

LEMMA RotationInit == Init => RotationInv
  <1> SUFFICES ASSUME Init PROVE RotationInv
    BY Zenon
  <1> QED
    BY Zenon, TypeInit DEF Init, RotationInv, InRotation, Room, Submitted, NotStarted

\* A step that moves nothing in or out of the queues keeps every send.
LEMMA QuietSame ==
    ASSUME UNCHANGED <<sq, sending, cq>>, NEW c \in Ctxs
    PROVE  Same(c)
  <1>1. SqAt(c)' = SqAt(c) /\ CqAt(c)' = CqAt(c)
    BY Zenon DEF SqAt, CqAt
  <1> QED
    BY Zenon, <1>1 DEF Same, UnderWay, Retired

\* A step that keeps every send keeps the rotation.
LEMMA SameRotation ==
    ASSUME InRotation, pc \notin {"start", "done"}, stop => stop', failed' = failed,
           \A c \in Ctxs : Same(c)
    PROVE  InRotation'
  <1>1. \A c \in Ctxs : Turn(c)
    BY Zenon DEF InRotation, Turn
  <1>2. \A c \in Ctxs : Turn(c)'
    BY Zenon, <1>1 DEF Turn, Same
  <1> QED
    BY Zenon, <1>2 DEF InRotation, Turn

LEMMA QuietRotation ==
    ASSUME InRotation, pc \notin {"start", "done"}, stop => stop',
           UNCHANGED <<sq, sending, cq, failed>>
    PROVE  InRotation'
  BY Zenon, QuietSame, SameRotation

\* The handlers see a completion of a send at the head of the queue: its context
\* has no other send.
LEMMA AtHead ==
    ASSUME RotationInv, AtCompletion, ~Head(cq).notif, cq # <<>>,
           NEW c \in Ctxs, Head(cq).ctx = c
    PROVE  /\ c \notin failed
           /\ SqAt(c) = {} /\ sending[c] = 0 /\ One(CqAt(c))
  <1>1. cq \in Seq(Cqes) /\ Head(cq) = cq[1] /\ 1 \in DOMAIN cq /\ cq[1] \in Cqes
    BY DEF RotationInv, TypeInv, TypeOK
  <1>2. 1 \in CqAt(c)
    BY Zenon, <1>1 DEF CqAt, Hits
  <1>3. Turn(c)
    BY Zenon DEF RotationInv, InRotation, Turn, AtCompletion
  <1> QED
    BY Zenon, <1>2, <1>3 DEF Turn, Retired, UnderWay

\* Marking a completion seen does not disturb the contexts it is not for.
LEMMA SeenOthers ==
    ASSUME RotationInv, AtCompletion, CqeSeen, NEW c \in Ctxs,
           Head(cq).notif \/ Head(cq).ctx # c
    PROVE  /\ CqAt(c) = {} => CqAt(c)' = {}
           /\ One(CqAt(c)) => One(CqAt(c)')
  <1>1. cq \in Seq(Cqes) /\ cq # <<>>
    BY Zenon, SeenType DEF RotationInv
  <1>2. Head(cq) \notin CqOf(c)
    BY Zenon DEF CqOf
  <1>3. CqAt(c) = Hits(cq, CqOf(c)) /\ CqAt(c)' = Hits(Tail(cq), CqOf(c))
    BY Zenon DEF CqAt, CqOf, CqeSeen
  <1> HIDE DEF CqOf
  <1> QED
    BY <1>1, <1>2, <1>3, TailHits

\* Marking the one completion of a context seen leaves none.
LEMMA SeenOwn ==
    ASSUME RotationInv, AtCompletion, CqeSeen, ~Head(cq).notif,
           NEW c \in Ctxs, Head(cq).ctx = c, One(CqAt(c))
    PROVE  CqAt(c)' = {}
  <1>1. cq \in Seq(Cqes) /\ cq # <<>> /\ Head(cq) \in Cqes
    BY Zenon, SeenType DEF RotationInv
  <1>2. Head(cq) \in CqOf(c)
    BY Zenon, <1>1 DEF CqOf
  <1>3. CqAt(c) = Hits(cq, CqOf(c)) /\ CqAt(c)' = Hits(Tail(cq), CqOf(c))
    BY Zenon DEF CqAt, CqOf, CqeSeen
  <1> HIDE DEF CqOf
  <1> QED
    BY Zenon, <1>1, <1>2, <1>3, TailHits

\* Posting the completion of a context's only send, and posting a notification.
LEMMA PostRotation ==
    ASSUME RotationInv, NEW c \in Ctxs, NEW r \in Results, NEW n \in BOOLEAN,
           Post(c, r, n), NEW d \in Ctxs
    PROVE  /\ n \/ d # c => CqAt(d)' = CqAt(d)
           /\ ~n /\ d = c /\ CqAt(d) = {} => One(CqAt(d)')
  <1> DEFINE e == [ctx |-> c, res |-> r, notif |-> n]
  <1>1. e \in Cqes /\ cq \in Seq(Cqes)
    BY Zenon, PostType DEF RotationInv, TypeInv, TypeOK
  <1>2. CqAt(d) = Hits(cq, CqOf(d)) /\ CqAt(d)' = Hits(Append(cq, e), CqOf(d))
    BY Zenon DEF CqAt, CqOf, Post
  <1>3. /\ n \/ d # c => e \notin CqOf(d)
        /\ ~n /\ d = c => e \in CqOf(d)
    BY Zenon, <1>1 DEF CqOf
  <1> HIDE DEF CqOf, e
  <1> QED
    BY Zenon, <1>1, <1>2, <1>3, AppendHits

\* Submitting the only SQE of a context hands its send to the kernel.
LEMMA SubmitSame ==
    ASSUME RotationInv, SubmitSqe, NEW d \in Ctxs PROVE Same(d)
  <1> DEFINE c == Head(sq).ctx
  <1>1. /\ sq \in Seq(Sqes) /\ sq # <<>> /\ sq' = Tail(sq)
        /\ Head(sq) \in Sqes /\ Head(sq) = sq[1] /\ 1 \in DOMAIN sq
    BY DEF SubmitSqe, RotationInv, TypeInv, TypeOK
  <1>2. c \in Ctxs
    BY Zenon, <1>1 DEF Sqes
  <1>3. sending' = [sending EXCEPT ![c] = @ + 1] /\ sending \in [Ctxs -> Nat]
    BY Zenon DEF SubmitSqe, RotationInv, TypeInv, TypeOK
  <1>4. Turn(d)
    BY Zenon DEF RotationInv, InRotation, Turn, SubmitSqe
  <1>5. cq' = cq
    BY Zenon DEF SubmitSqe
  <1> HIDE DEF c
  <1>6. SqAt(d) = Hits(sq, SqOf(d)) /\ SqAt(d)' = Hits(Tail(sq), SqOf(d))
    BY Zenon, <1>1 DEF SqAt, SqOf
  <1>7. CqAt(d)' = CqAt(d)
    BY Zenon, <1>5 DEF CqAt
  <1>8. CASE d = c
    <2>1. Head(sq) \in SqOf(d)
      BY Zenon, <1>1, <1>8 DEF SqOf, c
    <2>2. 1 \in SqAt(d)
      BY Zenon, <1>1, <1>6, <2>1 DEF Hits
    <2>3. d \notin failed /\ One(SqAt(d)) /\ sending[d] = 0 /\ CqAt(d) = {}
      BY Zenon, <1>4, <2>2 DEF Turn, UnderWay, Retired
    <2>4. SqAt(d)' = {}
      BY Zenon, <1>1, <1>6, <2>1, <2>3, TailHits
    <2>5. sending'[d] = 1
      BY <1>2, <1>3, <1>8, <2>3
    <2> QED
      BY Zenon, <1>7, <2>2, <2>4, <2>5 DEF Same, UnderWay, Retired
  <1>9. CASE d # c
    <2>1. Head(sq) \notin SqOf(d)
      BY Zenon, <1>9 DEF SqOf, c
    <2>2. /\ SqAt(d) = {} => SqAt(d)' = {}
          /\ One(SqAt(d)) => One(SqAt(d)')
      BY Zenon, <1>1, <1>6, <2>1, TailHits
    <2>3. sending'[d] = sending[d]
      BY Zenon, <1>2, <1>3, <1>9
    <2> QED
      BY Zenon, <1>7, <2>2, <2>3 DEF Same, UnderWay, Retired
  <1> QED
    BY Zenon, <1>8, <1>9

\* A context that is at the head neither of a queue nor of a step keeps its send.
LEMMA OthersSame ==
    ASSUME NEW d \in Ctxs, sending'[d] = sending[d], SqAt(d)' = SqAt(d),
           CqAt(d) = {} => CqAt(d)' = {}, One(CqAt(d)) => One(CqAt(d)')
    PROVE  Same(d)
  BY Zenon DEF Same, UnderWay, Retired

\* Where the handled completion is the only one whose context's turn changes, the
\* others keep theirs.
LEMMA HandledRotation ==
    ASSUME RotationInv, AtCompletion, stop' = stop, NEW c \in Ctxs,
           \A d \in Ctxs \ {c} : Same(d) /\ (d \in failed' <=> d \in failed), Turn(c)'
    PROVE  InRotation'
  <1>1. \A d \in Ctxs : Turn(d)
    BY Zenon DEF RotationInv, InRotation, Turn, AtCompletion
  <1>2. ASSUME NEW d \in Ctxs \ {c} PROVE Turn(d)'
    BY Zenon, <1>1 DEF Turn, Same
  <1>3. \A d \in Ctxs : Turn(d)'
    BY Zenon, <1>2
  <1> QED
    BY Zenon, <1>3 DEF InRotation, Turn

\* A completed send is prepared again, and the queue has room for it.
LEMMA SentTurns ==
    ASSUME QueueDepth >= InFlight, RotationInv, HandleSent, NEW c, c = Head(cq).ctx
    PROVE  /\ c \in Ctxs \ failed /\ UnderWay(c)
           /\ IF stop THEN Retired(c)' ELSE UnderWay(c)'
           /\ \A d \in Ctxs \ {c} : Same(d)
           /\ Len(sq') =< Len(sq) + 1
  <1> DEFINE e == [kind |-> SendKind, fd |-> Sock, ctx |-> c]
  <1>1. AtCompletion /\ CqeSeen /\ ~Head(cq).notif /\ pc' = pc
    BY Zenon DEF HandleSent
  <1>2. cq # <<>> /\ c \in Ctxs
    BY Zenon, <1>1, SeenType DEF RotationInv, Cqes
  <1>3. sq \in Seq(Sqes) /\ e \in Sqes /\ prep_send(sq, c) = GetSqe(sq, e)
    BY Zenon, <1>2, PrepType DEF RotationInv, TypeInv, TypeOK
  <1>4. Len(sq) < QueueDepth
    BY <1>1, <1>3, ClientAssumption, QueueDepthAssumption
    DEF RotationInv, Room, AtCompletion, TypeInv, TypeOK
  <1>5. sq' = IF stop THEN sq ELSE Append(sq, e)
    BY Zenon, <1>3, <1>4, GetSqeProperties DEF HandleSent
  <1>6. UNCHANGED <<stop, sending, failed>>
    BY Zenon DEF HandleSent
  <1>7. c \notin failed /\ SqAt(c) = {} /\ sending[c] = 0 /\ One(CqAt(c))
    BY Zenon, <1>1, <1>2, AtHead
  <1>8. \A d \in Ctxs : e \in SqOf(d) <=> d = c
    BY Zenon, <1>3 DEF SqOf
  <1> HIDE DEF e
  <1>9. ASSUME NEW d \in Ctxs
        PROVE  /\ d # c => SqAt(d)' = SqAt(d)
               /\ d = c => IF stop THEN SqAt(d)' = {} ELSE One(SqAt(d)')
    <2>1. /\ SqAt(d) = Hits(sq, SqOf(d))
          /\ SqAt(d)' = Hits(sq', SqOf(d))
      BY Zenon DEF SqAt, SqOf
    <2>2. /\ e \notin SqOf(d) => Hits(Append(sq, e), SqOf(d)) = Hits(sq, SqOf(d))
          /\ e \in SqOf(d) /\ Hits(sq, SqOf(d)) = {} =>
                One(Hits(Append(sq, e), SqOf(d)))
      BY Zenon, <1>3, AppendHits
    <2> QED
      BY Zenon, <1>5, <1>7, <1>8, <2>1, <2>2
  <1>10. UnderWay(c)
    BY Zenon, <1>7 DEF UnderWay
  <1>11. IF stop THEN Retired(c)' ELSE UnderWay(c)'
    <2>1. CqAt(c)' = {}
      BY Zenon, <1>1, <1>2, <1>7, SeenOwn
    <2>2. IF stop THEN SqAt(c)' = {} ELSE One(SqAt(c)')
      BY Zenon, <1>2, <1>9
    <2>3. sending'[c] = 0
      BY Zenon, <1>6, <1>7
    <2> QED
      BY Zenon, <2>1, <2>2, <2>3 DEF UnderWay, Retired
  <1>12. ASSUME NEW d \in Ctxs \ {c} PROVE Same(d)
    <2>1. /\ CqAt(d) = {} => CqAt(d)' = {}
          /\ One(CqAt(d)) => One(CqAt(d)')
      BY Zenon, <1>1, <1>12, SeenOthers
    <2>2. SqAt(d)' = SqAt(d) /\ sending'[d] = sending[d]
      BY Zenon, <1>6, <1>9, <1>12
    <2> QED
      BY Zenon, <1>12, <2>1, <2>2, OthersSame
  <1>13. Len(sq') =< Len(sq) + 1
    BY <1>3, <1>5
  <1> QED
    BY Zenon, <1>2, <1>7, <1>10, <1>11, <1>12, <1>13

LEMMA SentRotation ==
    ASSUME QueueDepth >= InFlight, RotationInv, HandleSent
    PROVE  InRotation' /\ Len(sq') =< Len(sq) + 1
  <1>1. PICK c : c = Head(cq).ctx
    BY Zenon
  <1>2. /\ c \in Ctxs \ failed
        /\ IF stop THEN Retired(c)' ELSE UnderWay(c)'
        /\ \A d \in Ctxs \ {c} : Same(d)
        /\ Len(sq') =< Len(sq) + 1
    BY Zenon, <1>1, SentTurns
  <1>3. AtCompletion /\ UNCHANGED <<stop, failed>>
    BY Zenon DEF HandleSent
  <1>4. Turn(c)'
    BY Zenon, <1>2, <1>3 DEF Turn
  <1> QED
    BY Zenon, <1>2, <1>3, <1>4, HandledRotation

\* A notification is for a send that was already dealt with.
LEMMA NotifSame ==
    ASSUME RotationInv, HandleNotif, NEW d \in Ctxs PROVE Same(d)
  <1>1. AtCompletion /\ CqeSeen /\ Head(cq).notif
    BY Zenon DEF HandleNotif
  <1>2. UNCHANGED <<sq, sending>>
    BY Zenon DEF HandleNotif
  <1>3. SqAt(d)' = SqAt(d)
    BY Zenon, <1>2 DEF SqAt
  <1>4. /\ CqAt(d) = {} => CqAt(d)' = {}
        /\ One(CqAt(d)) => One(CqAt(d)')
    BY Zenon, <1>1, SeenOthers
  <1> QED
    BY Zenon, <1>2, <1>3, <1>4, OthersSame

\* A failed send takes its context, and only that, out of rotation.
LEMMA ErrorTurns ==
    ASSUME RotationInv, HandleError, NEW c, c = Head(cq).ctx
    PROVE  /\ c \in Ctxs /\ UnderWay(c) /\ Retired(c)'
           /\ \A d \in Ctxs \ {c} : Same(d)
  <1>1. AtCompletion /\ CqeSeen /\ ~Head(cq).notif
    BY Zenon DEF HandleError
  <1>2. cq # <<>> /\ c \in Ctxs
    BY Zenon, <1>1, SeenType DEF RotationInv, Cqes
  <1>3. UNCHANGED <<sq, sending>>
    BY Zenon DEF HandleError
  <1>4. SqAt(c) = {} /\ sending[c] = 0 /\ One(CqAt(c))
    BY Zenon, <1>1, <1>2, AtHead
  <1>5. CqAt(c)' = {}
    BY Zenon, <1>1, <1>2, <1>4, SeenOwn
  <1>6. \A d \in Ctxs : SqAt(d)' = SqAt(d)
    BY Zenon, <1>3 DEF SqAt
  <1>7. UnderWay(c) /\ Retired(c)'
    BY Zenon, <1>2, <1>3, <1>4, <1>5, <1>6 DEF UnderWay, Retired
  <1>8. ASSUME NEW d \in Ctxs \ {c} PROVE Same(d)
    <2>1. /\ CqAt(d) = {} => CqAt(d)' = {}
          /\ One(CqAt(d)) => One(CqAt(d)')
      BY Zenon, <1>1, <1>8, SeenOthers
    <2> QED
      BY Zenon, <1>3, <1>6, <1>8, <2>1, OthersSame
  <1> QED
    BY Zenon, <1>2, <1>7, <1>8

LEMMA ErrorRotation ==
    ASSUME RotationInv, HandleError PROVE InRotation'
  <1>1. PICK c : c = Head(cq).ctx
    BY Zenon
  <1>2. c \in Ctxs /\ Retired(c)' /\ \A d \in Ctxs \ {c} : Same(d)
    BY Zenon, <1>1, ErrorTurns
  <1>3. AtCompletion /\ stop' = stop /\ failed' = failed \cup {c}
    BY Zenon, <1>1 DEF HandleError
  <1>4. Turn(c)'
    BY Zenon, <1>2, <1>3 DEF Turn
  <1> QED
    BY Zenon, <1>2, <1>3, <1>4, HandledRotation

\* The kernel completes the only send of a context.
LEMMA CompletionSame ==
    ASSUME RotationInv, NEW c \in Ctxs, NEW r \in Results, sending[c] > 0,
           sending' = [sending EXCEPT ![c] = @ - 1], Post(c, r, FALSE),
           pc \notin {"start", "done"}, sq' = sq, NEW d \in Ctxs
    PROVE  Same(d)
  <1>1. sending \in [Ctxs -> Nat]
    BY Zenon DEF RotationInv, TypeInv, TypeOK
  <1>2. Turn(d)
    BY Zenon DEF RotationInv, InRotation, Turn
  <1>3. SqAt(d)' = SqAt(d)
    BY Zenon DEF SqAt
  <1>4. /\ d # c => CqAt(d)' = CqAt(d)
        /\ d = c /\ CqAt(d) = {} => One(CqAt(d)')
    BY Zenon, PostRotation
  <1>5. CASE d = c
    <2>1. SqAt(d) = {} /\ sending[d] = 1 /\ CqAt(d) = {}
      BY <1>2, <1>5 DEF Turn, UnderWay, Retired
    <2>2. sending'[d] = 0
      BY <1>1, <1>5, <2>1
    <2> QED
      BY <1>3, <1>4, <1>5, <2>1, <2>2 DEF Same, UnderWay, Retired
  <1>6. CASE d # c
    <2>1. sending'[d] = sending[d]
      BY Zenon, <1>1, <1>6
    <2> QED
      BY Zenon, <1>3, <1>4, <1>6, <2>1, OthersSame
  <1> QED
    BY Zenon, <1>5, <1>6

\* A notification is not a completion of a send.
LEMMA PostNotifSame ==
    ASSUME RotationInv, NEW c \in Ctxs, Post(c, "zero", TRUE),
           UNCHANGED <<sq, sending>>, NEW d \in Ctxs
    PROVE  Same(d)
  <1>1. SqAt(d)' = SqAt(d)
    BY Zenon DEF SqAt
  <1>2. CqAt(d)' = CqAt(d)
    BY Zenon, PostRotation DEF Results
  <1> QED
    BY Zenon, <1>1, <1>2, OthersSame

\* The setup prepares one send for each context.
LEMMA SetupRotation ==
    ASSUME QueueDepth >= InFlight, RotationInv, Setup
    PROVE  /\ InRotation' /\ Len(sq') = InFlight
           /\ \A c \in Ctxs : UnderWay(c)'
  <1>1. sq' = First
    <2>1. sq = <<>> /\ sq' = PrepEach(sq, First)
      BY Zenon DEF RotationInv, Submitted, Setup, First
    <2>2. Len(First) =< QueueDepth
      BY Zenon, FirstType, ClientAssumption, QueueDepthAssumption
    <2> QED
      BY Zenon, <2>1, <2>2, FirstType, PrepEachAll
  <1>2. cq' = <<>> /\ failed' = {} /\ \A c \in Ctxs : sending'[c] = 0
    BY Zenon DEF RotationInv, NotStarted, Setup
  <1>3. ASSUME NEW d \in Ctxs PROVE Turn(d)' /\ UnderWay(d)'
    <2>1. DOMAIN First = Ctxs /\ \A i \in Ctxs : First[i] \in Sqes /\ First[i].ctx = i
      BY Zenon, ClientAssumption DEF First, SendKind, Sqes
    <2>2. SqAt(d)' = {d}
      BY Zenon, <1>1, <2>1 DEF SqAt, Hits
    <2>3. One({d})
      BY Zenon DEF One
    <2>4. CqAt(d)' = {}
      BY <1>2 DEF CqAt, Hits
    <2> QED
      BY Zenon, <1>2, <2>2, <2>3, <2>4 DEF Turn, UnderWay
  <1> QED
    BY Zenon, <1>1, <1>3, FirstType DEF InRotation, Turn

LEMMA RotationStep ==
    ASSUME QueueDepth >= InFlight
    PROVE  RotationInv /\ [Next]_vars => RotationInv'
  <1> SUFFICES ASSUME RotationInv, [Next]_vars PROVE RotationInv'
    BY Zenon
  <1>0. TypeInv' /\ TypeInv
    BY Zenon, TypeStep DEF RotationInv
  <1> DEFINE Rest == InRotation' /\ Room' /\ Submitted' /\ NotStarted'
  <1> SUFFICES Rest
    BY Zenon, <1>0 DEF RotationInv
  <1>1. CASE ConnectFails
    BY Zenon, <1>1 DEF ConnectFails, InRotation, Room, Submitted, NotStarted
  <1>2. CASE Setup
    BY Zenon, <1>2, SetupRotation DEF Setup, Room, Submitted, NotStarted
  <1>3. CASE LeaveLoop
    <2>1. InRotation'
      BY Zenon, <1>3, QuietRotation DEF LeaveLoop, engineVars, RotationInv
    <2> QED
      BY Zenon, <1>3, <2>1
         DEF LeaveLoop, engineVars, RotationInv, Room, Submitted, NotStarted
  <1>4. CASE ReapNothing
    <2>1. InRotation'
      BY Zenon, <1>4, QuietRotation DEF ReapNothing, engineVars, RotationInv
    <2> QED
      BY Zenon, <1>4, <2>1 DEF ReapNothing, engineVars, Room, Submitted, NotStarted
  <1>5. CASE ReapSome
    <2>1. InRotation'
      BY Zenon, <1>5, QuietRotation DEF ReapSome, engineVars, RotationInv
    <2>2. batch' \in Nat /\ batch' =< InFlight
      BY <1>0, <1>5, ClientAssumption
      DEF ReapSome, reap_completions, Lesser, TypeInv, TypeOK
    <2>3. Len(sq') + batch' =< InFlight
      <3>1. sq' = <<>>
        BY Zenon, <1>5 DEF ReapSome, engineVars, RotationInv, Submitted
      <3>2. Len(sq') \in Nat /\ Len(sq') = 0
        BY Zenon, <3>1
      <3>3. InFlight \in Nat
        BY Zenon, ClientAssumption
      <3>4. ASSUME NEW l \in Nat, NEW b \in Nat, NEW n \in Nat, l = 0, b =< n
            PROVE  l + b =< n
        BY <3>4
      <3> QED
        BY Zenon, <2>2, <3>2, <3>3, <3>4, Zenon
    <2> QED
      BY Zenon, <1>5, <2>1, <2>3 DEF ReapSome, Room, Submitted, NotStarted
  <1>6. CASE BatchEnd
    <2>1. InRotation'
      BY Zenon, <1>6, QuietRotation DEF BatchEnd, engineVars, RotationInv
    <2> QED
      BY Zenon, <1>6, <2>1 DEF BatchEnd, Room, Submitted, NotStarted
  <1>7. CASE SubmitSqe
    <2>1. InRotation'
      BY Zenon, <1>7, SubmitSame, SameRotation DEF SubmitSqe, RotationInv
    <2> QED
      BY Zenon, <1>7, <2>1 DEF SubmitSqe, Room, Submitted, NotStarted
  <1>8. CASE SubmitDone
    <2>1. InRotation'
      BY Zenon, <1>8, QuietRotation DEF SubmitDone, engineVars, RotationInv
    <2> QED
      BY Zenon, <1>8, <2>1 DEF SubmitDone, engineVars, Room, Submitted, NotStarted
  <1>9. CASE WaitDone
    <2>1. InRotation'
      BY Zenon, <1>9, QuietRotation DEF WaitDone, engineVars, RotationInv
    <2> QED
      BY Zenon, <1>9, <2>1 DEF WaitDone, engineVars, Room, Submitted, NotStarted
  <1>10. ASSUME AtCompletion, CqeSeen, pc' = pc, InRotation', Len(sq') =< Len(sq) + 1
         PROVE  Rest
    <2>1. Len(sq') + batch' =< Len(sq) + batch
      BY <1>0, <1>10 DEF CqeSeen, TypeInv, TypeOK
    <2>2. Len(sq) + batch =< InFlight /\ pc' = "cqe"
      BY Zenon, <1>10 DEF AtCompletion, RotationInv, Room
    <2>3. Len(sq') + batch' =< InFlight
      BY <1>0, <2>1, <2>2, ClientAssumption DEF TypeInv, TypeOK
    <2> QED
      BY Zenon, <1>10, <2>2, <2>3 DEF Room, Submitted, NotStarted
  <1>11. CASE HandleNotif
    <2>1. Len(sq') =< Len(sq) + 1
      BY <1>0, <1>11 DEF HandleNotif, TypeInv, TypeOK
    <2>2. InRotation'
      BY Zenon, <1>11, NotifSame, SameRotation
         DEF HandleNotif, AtCompletion, RotationInv
    <2> QED
      BY Zenon, <1>10, <1>11, <2>1, <2>2 DEF HandleNotif
  <1>12. CASE HandleSent
    <2>1. InRotation' /\ Len(sq') =< Len(sq) + 1
      BY Zenon, <1>12, SentRotation
    <2> QED
      BY Zenon, <1>10, <1>12, <2>1 DEF HandleSent
  <1>13. CASE HandleError
    <2>1. Len(sq') =< Len(sq) + 1
      BY <1>0, <1>13 DEF HandleError, TypeInv, TypeOK
    <2> QED
      BY Zenon, <1>10, <1>13, <2>1, ErrorRotation DEF HandleError
  <1>14. CASE Exit
    BY Zenon, <1>14 DEF Exit, InRotation, Room, Submitted, NotStarted
  <1>15. ASSUME InRotation', UNCHANGED <<pc, sq, batch>>, pc # "start" PROVE Rest
    BY Zenon, <1>15 DEF RotationInv, Room, Submitted, NotStarted
  <1>16. CASE KernelSend
    <2>1. PICK c \in Ctxs, r \in {"positive", "again", "error"} :
              /\ sending[c] > 0
              /\ sending' = [sending EXCEPT ![c] = @ - 1]
              /\ Post(c, r, FALSE)
              /\ UNCHANGED <<pc, stop, batch, sq, failed>>
      BY Zenon, <1>16 DEF KernelSend
    <2>2. pc # "start"
      BY <2>1 DEF RotationInv, NotStarted
    <2>3. InRotation'
      <3>1. CASE pc = "done"
        BY Zenon, <2>1, <3>1 DEF InRotation
      <3>2. CASE pc # "done"
        <4>1. \A d \in Ctxs : Same(d)
          BY Zenon, <2>1, <2>2, <3>2, CompletionSame DEF Results
        <4> QED
          BY Zenon, <2>1, <2>2, <3>2, <4>1, SameRotation DEF RotationInv
      <3> QED
        BY Zenon, <3>1, <3>2
    <2> QED
      BY Zenon, <1>15, <2>1, <2>2, <2>3
  <1>17. CASE KernelSendZc
    <2>1. PICK c \in Ctxs, r \in {"positive", "again", "error"} :
              /\ sending[c] > 0
              /\ sending' = [sending EXCEPT ![c] = @ - 1]
              /\ Post(c, r, FALSE)
              /\ UNCHANGED <<pc, stop, batch, sq, failed>>
      BY Zenon, <1>17 DEF KernelSendZc
    <2>2. pc # "start"
      BY <2>1 DEF RotationInv, NotStarted
    <2>3. InRotation'
      <3>1. CASE pc = "done"
        BY Zenon, <2>1, <3>1 DEF InRotation
      <3>2. CASE pc # "done"
        <4>1. \A d \in Ctxs : Same(d)
          BY Zenon, <2>1, <2>2, <3>2, CompletionSame DEF Results
        <4> QED
          BY Zenon, <2>1, <2>2, <3>2, <4>1, SameRotation DEF RotationInv
      <3> QED
        BY Zenon, <3>1, <3>2
    <2> QED
      BY Zenon, <1>15, <2>1, <2>2, <2>3
  <1>18. CASE KernelNotif
    <2>1. PICK c \in Ctxs :
              /\ notifs[c] > 0
              /\ Post(c, "zero", TRUE)
              /\ UNCHANGED <<pc, stop, batch, sq, sending, failed>>
      BY Zenon, <1>18 DEF KernelNotif
    <2>2. pc # "start"
      BY <2>1 DEF RotationInv, NotStarted
    <2>3. InRotation'
      <3>1. CASE pc = "done"
        BY Zenon, <2>1, <3>1 DEF InRotation
      <3>2. CASE pc # "done"
        BY Zenon, <2>1, <2>2, <3>2, PostNotifSame, SameRotation DEF RotationInv
      <3> QED
        BY Zenon, <3>1, <3>2
    <2> QED
      BY Zenon, <1>15, <2>1, <2>2, <2>3
  <1>19. CASE StopSignal
    <2>1. UNCHANGED <<pc, batch, sq, sending, notifs, cq, failed>> /\ stop'
      BY Zenon, <1>19 DEF StopSignal, engineVars
    <2>2. InRotation'
      <3>1. CASE pc \in {"start", "done"}
        BY Zenon, <2>1, <3>1 DEF InRotation
      <3>2. CASE pc \notin {"start", "done"}
        BY Zenon, <2>1, <3>2, QuietRotation DEF RotationInv
      <3> QED
        BY Zenon, <3>1, <3>2
    <2> QED
      BY Zenon, <2>1, <2>2 DEF RotationInv, Room, Submitted, NotStarted
  <1>20. CASE Terminated \/ UNCHANGED vars
    <2>1. UNCHANGED <<pc, stop, batch, sq, sending, notifs, cq, failed>>
      BY Zenon, <1>20 DEF Terminated, vars, engineVars
    <2>2. InRotation'
      <3>1. CASE pc \in {"start", "done"}
        BY Zenon, <2>1, <3>1 DEF InRotation
      <3>2. CASE pc \notin {"start", "done"}
        BY Zenon, <2>1, <3>2, QuietRotation DEF RotationInv
      <3> QED
        BY Zenon, <3>1, <3>2
    <2> QED
      BY Zenon, <2>1, <2>2 DEF RotationInv, Room, Submitted, NotStarted
  <1> QED
    BY Zenon, <1>1, <1>2, <1>3, <1>4, <1>5, <1>6, <1>7, <1>8, <1>9, <1>11, <1>12, <1>13,
       <1>14, <1>16, <1>17, <1>18, <1>19, <1>20 DEF Next, Worker, Kernel

\* If the submission queue has an entry for each send of the pipeline, no context
\* of run_client() ever falls out of rotation and no two sends share a buffer:
\* the prep_send_*() calls, whose result nobody looks at, always find room.
THEOREM PipelineStaysInRotation ==
    ASSUME QueueDepth >= InFlight PROVE Spec => []InRotation
  <1>1. RotationInv => InRotation
    BY Zenon DEF RotationInv
  <1>2. RotationInv /\ [Next]_vars => RotationInv'
    BY Zenon, RotationStep
  <1> QED
    BY <1>1, <1>2, RotationInit, PTL DEF Spec

--------------------------------------------------------------------------------
(* The safety part of ImplementsPipeline *)

\* Once run_client() has returned nothing is left of its ring.
Gone ==
    pc = "done" =>
        /\ sq = <<>> /\ cq = <<>>
        /\ \A c \in Ctxs : sending[c] = 0 /\ notifs[c] = 0

\* Only the stop signal gets the worker out of its loop.
ExitTold == pc = "exit" => stop

RefinementInv == RotationInv /\ Gone /\ ExitTold

\* What the mapping makes of the contexts.
Busy == [c \in Ctxs |-> IF UnderWay(c) THEN "busy" ELSE "retired"]

slot == IF pc = "start" THEN <<>> ELSE Busy

LEMMA RefinementInit == Init => RefinementInv
  BY Zenon, RotationInit DEF Init, RefinementInv, Gone, ExitTold

LEMMA RefinementStep ==
    ASSUME QueueDepth >= InFlight
    PROVE  RefinementInv /\ [Next]_vars => RefinementInv'
  <1> SUFFICES ASSUME RefinementInv, [Next]_vars PROVE RefinementInv'
    BY Zenon
  <1>1. RotationInv'
    BY Zenon, RotationStep DEF RefinementInv
  <1>2. Gone' /\ ExitTold'
    <2> USE DEF Gone, ExitTold
    <2>1. CASE ConnectFails
      BY Zenon, <2>1
         DEF ConnectFails, engineVars, RefinementInv, RotationInv, NotStarted, Submitted
    <2>2. CASE Exit
      BY Zenon, <2>2 DEF Exit
    <2>3. CASE LeaveLoop
      BY Zenon, <2>3 DEF LeaveLoop
    <2>4. CASE Setup \/ ReapNothing \/ ReapSome \/ BatchEnd \/ SubmitSqe \/ SubmitDone
               \/ WaitDone \/ HandleNotif \/ HandleSent \/ HandleError
      BY Zenon, <2>4 DEF Setup, ReapNothing, ReapSome, BatchEnd, SubmitSqe, SubmitDone,
                  WaitDone, HandleNotif, HandleSent, HandleError, AtCompletion
    <2>5. CASE KernelSend
      BY <2>5 DEF KernelSend, RefinementInv
    <2>6. CASE KernelSendZc
      BY <2>6 DEF KernelSendZc, RefinementInv
    <2>7. CASE KernelNotif
      BY <2>7 DEF KernelNotif, RefinementInv
    <2>8. CASE StopSignal \/ Terminated \/ UNCHANGED vars
      BY Zenon, <2>8 DEF StopSignal, Terminated, vars, engineVars, RefinementInv
    <2> QED
      BY Zenon, <2>1, <2>2, <2>3, <2>4, <2>5, <2>6, <2>7, <2>8 DEF Next, Worker, Kernel
  <1> QED
    BY Zenon, <1>1, <1>2 DEF RefinementInv

\* A context has a send under way or is retired, and not both.
LEMMA Apart ==
    ASSUME NEW c \in Ctxs PROVE Retired(c) => ~UnderWay(c)
  BY DEF Retired, UnderWay, One

\* A step that keeps every send leaves the abstract slots alone.
LEMMA SameSlots ==
    ASSUME InRotation, pc \notin {"start", "done"}, pc' # "start",
           \A c \in Ctxs : Same(c)
    PROVE  slot' = slot
  <1>1. \A c \in Ctxs : UnderWay(c) \/ Retired(c)
    BY Zenon DEF InRotation
  <1>2. \A c \in Ctxs : UnderWay(c)' <=> UnderWay(c)
    <2> SUFFICES ASSUME NEW c \in Ctxs PROVE UnderWay(c)' <=> UnderWay(c)
      BY Zenon
    <2>1. Retired(c)' => ~UnderWay(c)'
      BY DEF Retired, UnderWay, One
    <2> QED
      BY Zenon, <1>1, <2>1, Apart DEF Same
  <1> QED
    BY Zenon, <1>2 DEF slot, Busy

\* A step that retires context c alone takes its abstract slot from busy to
\* retired.
LEMMA OneLeaves ==
    ASSUME InRotation, pc \notin {"start", "done"}, pc' = pc,
           NEW c \in Ctxs, UnderWay(c), Retired(c)',
           \A d \in Ctxs \ {c} : Same(d)
    PROVE  Pipe!Leave(c) /\ c \in DOMAIN slot
  <1>1. \A d \in Ctxs : UnderWay(d) \/ Retired(d)
    BY Zenon DEF InRotation
  <1>2. \A d \in Ctxs : Retired(d)' => ~UnderWay(d)'
    BY DEF Retired, UnderWay, One
  <1>3. \A d \in Ctxs \ {c} : UnderWay(d)' <=> UnderWay(d)
    BY Zenon, <1>1, <1>2, Apart DEF Same
  <1>4. slot = Busy /\ slot' = Busy'
    BY Zenon DEF slot
  <1>5. Busy' = [Busy EXCEPT ![c] = "retired"] /\ Busy[c] = "busy"
    BY Zenon, <1>2, <1>3 DEF Busy
  <1>6. DOMAIN slot = Ctxs
    BY Zenon, <1>4 DEF Busy
  <1> QED
    BY Zenon, <1>4, <1>5, <1>6 DEF Pipe!Leave, slot, Busy

\* Every step is a step of the abstract pipeline or leaves it unchanged.
LEMMA StepImplements ==
    ASSUME QueueDepth >= InFlight, RefinementInv, RefinementInv', [Next]_vars
    PROVE  [Pipe!Next]_(Pipe!vars)
  <1> DEFINE Quiet == slot' = slot /\ UNCHANGED <<stop, failed>>
  <1>1. Quiet => UNCHANGED Pipe!vars
    BY Zenon DEF Pipe!vars, slot, Busy
  <1>2. RotationInv /\ InRotation
    BY Zenon DEF RefinementInv, RotationInv
  <1>3. ASSUME UNCHANGED <<sq, sending, cq>>, pc \notin {"start", "done"}, pc' # "start"
        PROVE  slot' = slot
    BY Zenon, <1>2, <1>3, QuietSame, SameSlots
  <1>4. CASE ConnectFails
    <2>1. \A c \in Ctxs : Retired(c)'
      BY <1>4 DEF ConnectFails, RefinementInv, Gone, Retired, SqAt, CqAt, Hits
    <2>2. \A c \in Ctxs : ~UnderWay(c)'
      BY <2>1 DEF Retired, UnderWay, One
    <2>3. slot = <<>> /\ slot' = [c \in Ctxs |-> "retired"]
      BY Zenon, <1>4, <2>2 DEF ConnectFails, slot, Busy
    <2>4. Pipe!Begin
      BY Zenon, <1>4, <2>3 DEF Pipe!Begin, ConnectFails, slot, Busy
    <2> QED
      BY Zenon, <2>4 DEF Pipe!Next
  <1>5. CASE Setup
    <2>1. \A c \in Ctxs : UnderWay(c)'
      BY Zenon, <1>2, <1>5, SetupRotation
    <2>2. slot = <<>> /\ slot' = [c \in Ctxs |-> "busy"]
      BY Zenon, <1>5, <2>1 DEF Setup, slot, Busy
    <2>3. Pipe!Begin
      BY Zenon, <1>5, <2>2 DEF Pipe!Begin, Setup, slot, Busy
    <2> QED
      BY Zenon, <2>3 DEF Pipe!Next
  <1>6. CASE LeaveLoop \/ ReapNothing \/ ReapSome \/ BatchEnd \/ SubmitDone \/ WaitDone
    <2>1. Quiet
      BY Zenon, <1>3, <1>6
         DEF LeaveLoop, ReapNothing, ReapSome, BatchEnd, SubmitDone, WaitDone,
                        engineVars
    <2> QED
      BY Zenon, <1>1, <2>1
  <1>7. CASE SubmitSqe
    <2>1. Quiet
      BY Zenon, <1>2, <1>7, SubmitSame, SameSlots DEF SubmitSqe
    <2> QED
      BY Zenon, <1>1, <2>1
  <1>8. CASE HandleNotif
    <2>1. Quiet
      BY Zenon, <1>2, <1>8, NotifSame, SameSlots DEF HandleNotif, AtCompletion
    <2> QED
      BY Zenon, <1>1, <2>1
  <1>9. CASE HandleSent
    <2>1. PICK c : c = Head(cq).ctx
      BY Zenon
    <2>2. /\ c \in Ctxs /\ UnderWay(c)
          /\ IF stop THEN Retired(c)' ELSE UnderWay(c)'
          /\ \A d \in Ctxs \ {c} : Same(d)
      BY Zenon, <1>2, <1>9, <2>1, SentTurns
    <2>3. pc = "cqe" /\ UNCHANGED <<pc, stop, failed>>
      BY Zenon, <1>9 DEF HandleSent, AtCompletion
    <2>4. CASE stop
      <3>1. Pipe!Leave(c) /\ c \in DOMAIN slot
        BY Zenon, <1>2, <2>2, <2>3, <2>4, OneLeaves
      <3>2. Pipe!Rest(c)
        BY Zenon, <2>3, <2>4, <3>1 DEF Pipe!Rest
      <3> QED
        BY Zenon, <3>1, <3>2 DEF Pipe!Next, Pipe!WindDown, slot, Busy
    <2>5. CASE ~stop
      <3>1. Same(c)
        BY Zenon, <2>2, <2>5, Apart DEF Same
      <3>2. \A d \in Ctxs : Same(d)
        BY Zenon, <2>2, <3>1
      <3>3. Quiet
        BY Zenon, <1>2, <2>3, <3>2, SameSlots
      <3> QED
        BY Zenon, <1>1, <3>3
    <2> QED
      BY Zenon, <2>4, <2>5
  <1>10. CASE HandleError
    <2>1. PICK c : c = Head(cq).ctx
      BY Zenon
    <2>2. /\ c \in Ctxs /\ UnderWay(c) /\ Retired(c)'
          /\ \A d \in Ctxs \ {c} : Same(d)
      BY Zenon, <1>2, <1>10, <2>1, ErrorTurns
    <2>3. pc = "cqe" /\ UNCHANGED <<pc, stop>> /\ failed' = failed \cup {c}
      BY Zenon, <1>10, <2>1 DEF HandleError, AtCompletion
    <2>4. Pipe!Leave(c) /\ c \in DOMAIN slot
      BY Zenon, <1>2, <2>2, <2>3, OneLeaves
    <2>5. Pipe!Fail(c)
      BY Zenon, <2>3, <2>4 DEF Pipe!Fail
    <2> QED
      BY Zenon, <2>4, <2>5 DEF Pipe!Next, Pipe!WindDown, slot, Busy
  <1>11. CASE Exit
    <2>1. stop /\ UNCHANGED <<stop, failed>>
      BY Zenon, <1>11 DEF Exit, RefinementInv, ExitTold
    <2>2. \A c \in Ctxs : Retired(c)'
      BY <1>11 DEF Exit, Retired, SqAt, CqAt, Hits
    <2>3. \A c \in Ctxs : ~UnderWay(c)'
      BY <2>2 DEF Retired, UnderWay, One
    <2>4. slot = Busy /\ slot' = [c \in Ctxs |-> "retired"]
      BY Zenon, <1>11, <2>3 DEF Exit, slot, Busy
    <2>5. CASE \E c \in Ctxs : UnderWay(c)
      <3>1. Pipe!End
        BY Zenon, <2>1, <2>4, <2>5 DEF Pipe!End, Pipe!MayEnd, slot, Busy
      <3> QED
        BY Zenon, <3>1 DEF Pipe!Next, Pipe!WindDown
    <2>6. CASE \A c \in Ctxs : ~UnderWay(c)
      <3>1. Quiet
        BY Zenon, <2>1, <2>4, <2>6 DEF Busy
      <3> QED
        BY Zenon, <1>1, <3>1
    <2> QED
      BY Zenon, <2>5, <2>6
  <1>12. ASSUME NEW c \in Ctxs, NEW r \in {"positive", "again", "error"}, sending[c] > 0,
                sending' = [sending EXCEPT ![c] = @ - 1], Post(c, r, FALSE),
                UNCHANGED <<pc, stop, sq, failed>>
         PROVE  [Pipe!Next]_(Pipe!vars)
    <2>1. pc \notin {"start", "done"}
      BY <1>12 DEF RefinementInv, RotationInv, NotStarted, Gone
    <2>2. \A d \in Ctxs : Same(d)
      BY Zenon, <1>2, <1>12, <2>1, CompletionSame DEF Results
    <2>3. Quiet
      BY Zenon, <1>2, <1>12, <2>1, <2>2, SameSlots
    <2> QED
      BY Zenon, <1>1, <2>3
  <1>13. CASE KernelSend
    BY Zenon, <1>12, <1>13 DEF KernelSend
  <1>14. CASE KernelSendZc
    BY Zenon, <1>12, <1>14 DEF KernelSendZc
  <1>15. CASE KernelNotif
    <2>1. PICK c \in Ctxs :
              /\ notifs[c] > 0
              /\ Post(c, "zero", TRUE)
              /\ UNCHANGED <<pc, stop, sq, sending, failed>>
      BY Zenon, <1>15 DEF KernelNotif
    <2>2. pc \notin {"start", "done"}
      BY <2>1 DEF RefinementInv, RotationInv, NotStarted, Gone
    <2>3. \A d \in Ctxs : Same(d)
      BY Zenon, <1>2, <2>1, PostNotifSame
    <2>4. Quiet
      BY Zenon, <1>2, <2>1, <2>2, <2>3, SameSlots
    <2> QED
      BY Zenon, <1>1, <2>4
  <1>16. CASE StopSignal
    <2>1. UNCHANGED <<pc, sq, sending, cq, failed>> /\ ~stop /\ stop'
      BY Zenon, <1>16 DEF StopSignal, engineVars
    <2>2. slot' = slot
      BY Zenon, <2>1 DEF slot, Busy, UnderWay, SqAt, CqAt
    <2>3. Pipe!Tell
      BY Zenon, <1>16, <2>1, <2>2 DEF Pipe!Tell, StopSignal, slot, Busy
    <2> QED
      BY Zenon, <2>3 DEF Pipe!Next
  <1>17. CASE Terminated \/ UNCHANGED vars
    <2>1. UNCHANGED <<pc, stop, sq, sending, cq, failed>>
      BY Zenon, <1>17 DEF Terminated, vars, engineVars
    <2>2. slot' = slot
      BY Zenon, <2>1 DEF slot, Busy, UnderWay, SqAt, CqAt
    <2> QED
      BY Zenon, <1>1, <2>1, <2>2
  <1> QED
    BY Zenon, <1>4, <1>5, <1>6, <1>7, <1>8, <1>9, <1>10, <1>11, <1>13, <1>14, <1>15,
       <1>16, <1>17
    DEF Next, Worker, Kernel

\* If the submission queue has an entry for each send of the pipeline, run_client()
\* with its ring, its batches and its zero-copy notifications implements the
\* abstract pipeline: a context leaves it only by a failed send, by the stop
\* signal or by the worker's return, and never comes back.
THEOREM ClientImplementsPipeline ==
    ASSUME QueueDepth >= InFlight PROVE Spec => Pipe!Spec
  <1>1. Init => Pipe!Init
    BY Zenon DEF Init, Pipe!Init
  <1>2. RefinementInv /\ [Next]_vars => RefinementInv'
    BY Zenon, RefinementStep
  <1>3. RefinementInv /\ RefinementInv' /\ [Next]_vars => [Pipe!Next]_(Pipe!vars)
    BY Zenon, StepImplements
  <1> QED
    BY <1>1, <1>2, <1>3, RefinementInit, PTL DEF Spec, Pipe!Spec
================================================================================
