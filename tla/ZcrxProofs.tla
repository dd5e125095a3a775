------------------------------ MODULE ZcrxProofs -------------------------------
(***************************************************************************)
(* ZcrxWorker, for every number of descriptors and buffers and every size  *)
(* of its queues that leaves room for the accept: the types of its         *)
(* variables, its operations, its descriptors, the buffers of its area.    *)
(***************************************************************************)
EXTENDS ZcrxWorker, FiniteSetTheorems, UringEngineProofs

(* Counting the entries of a queue *)

Count(q, M) == Cardinality(Hits(q, M))

LEMMA CountEmpty == ASSUME NEW M PROVE Count(<<>>, M) = 0
  <1>1. Hits(<<>>, M) = {}
    BY DEF Hits
  <1> QED
    BY Zenon, <1>1, FS_EmptySet DEF Count

LEMMA CountType ==
    ASSUME NEW S, NEW q \in Seq(S), NEW M
    PROVE  /\ IsFiniteSet(Hits(q, M))
           /\ Count(q, M) \in Nat
           /\ \A i \in DOMAIN q : q[i] \in M => Count(q, M) > 0
           /\ Count(q, M) =< 1 =>
                 \A i, j \in DOMAIN q : q[i] \in M /\ q[j] \in M => i = j
  <1>1. DOMAIN q = 1..Len(q) /\ Len(q) \in Nat
    OBVIOUS
  <1>2. IsFiniteSet(1..Len(q))
    BY <1>1, FS_Interval
  <1>3. IsFiniteSet(Hits(q, M))
    BY Zenon, <1>1, <1>2, FS_Subset DEF Hits
  <1>4. Count(q, M) \in Nat
    BY Zenon, <1>3, FS_CardinalityType DEF Count
  <1>5. ASSUME NEW i \in DOMAIN q, q[i] \in M PROVE Count(q, M) > 0
    BY <1>3, <1>4, <1>5, FS_EmptySet DEF Count, Hits
  <1>6. ASSUME Count(q, M) =< 1, NEW i \in DOMAIN q, NEW j \in DOMAIN q,
               q[i] \in M, q[j] \in M
        PROVE  i = j
    <2>1. Cardinality(Hits(q, M)) = 1
      BY <1>4, <1>5, <1>6 DEF Count
    <2>2. PICK x : Hits(q, M) = {x}
      BY Zenon, <1>3, <2>1, FS_Singleton
    <2> QED
      BY <1>6, <2>2 DEF Hits
  <1> QED
    BY Zenon, <1>3, <1>4, <1>5, <1>6

LEMMA CountAppend ==
    ASSUME NEW S, NEW q \in Seq(S), NEW e \in S, NEW M
    PROVE  Count(Append(q, e), M) = Count(q, M) + (IF e \in M THEN 1 ELSE 0)
  <1> DEFINE p == Append(q, e)
  <1>1. /\ DOMAIN q = 1..Len(q) /\ DOMAIN p = 1..(Len(q) + 1) /\ Len(q) \in Nat
        /\ \A i \in 1..Len(q) : p[i] = q[i]
        /\ p[Len(q) + 1] = e
    OBVIOUS
  <1> HIDE DEF p
  <1>2. IsFiniteSet(Hits(q, M)) /\ Count(q, M) \in Nat
    BY Zenon, CountType
  <1>3. CASE e \notin M
    <2>1. Hits(p, M) = Hits(q, M)
      BY <1>1, <1>3 DEF Hits
    <2> QED
      BY <1>2, <1>3, <2>1 DEF Count, p
  <1>4. CASE e \in M
    <2>1. Hits(p, M) = Hits(q, M) \cup {Len(q) + 1} /\ Len(q) + 1 \notin Hits(q, M)
      BY <1>1, <1>4 DEF Hits
    <2> QED
      BY Zenon, <1>2, <1>4, <2>1, FS_AddElement DEF Count, p
  <1> QED
    BY Zenon, <1>3, <1>4

LEMMA CountTail ==
    ASSUME NEW S, NEW q \in Seq(S), q # <<>>, NEW M
    PROVE  Count(q, M) = Count(Tail(q), M) + (IF Head(q) \in M THEN 1 ELSE 0)
  <1> DEFINE p == Tail(q)
             T == Hits(q, M) \ {1}
             shift == [i \in Hits(p, M) |-> i + 1]
  <1>1. /\ DOMAIN q = 1..Len(q) /\ DOMAIN p = 1..(Len(q) - 1)
        /\ Len(q) \in Nat /\ Len(q) > 0
        /\ \A i \in 1..(Len(q) - 1) : p[i] = q[i + 1]
        /\ Head(q) = q[1] /\ p \in Seq(S)
    OBVIOUS
  <1> HIDE DEF p
  <1>2. IsFiniteSet(Hits(q, M)) /\ IsFiniteSet(Hits(p, M))
    BY Zenon, <1>1, CountType
  <1>3. \A i \in Hits(p, M) : i \in Int /\ i + 1 \in T
    BY <1>1 DEF Hits
  <1>4. \A j \in T : j - 1 \in Hits(p, M) /\ j \in Int
    BY <1>1 DEF Hits
  <1>5. shift \in Bijection(Hits(p, M), T)
    <2>1. shift \in [Hits(p, M) -> T]
      BY Zenon, <1>3
    <2>2. \A i, j \in Hits(p, M) : shift[i] = shift[j] => i = j
      BY <1>3
    <2>3. \A j \in T : \E i \in Hits(p, M) : shift[i] = j
      <3> TAKE j \in T
      <3>1. j - 1 \in Hits(p, M) /\ shift[j - 1] = j
        BY <1>4
      <3> QED
        BY Zenon, <3>1
    <2> HIDE DEF shift, T
    <2> QED
      BY Zenon, <2>1, <2>2, <2>3 DEF Bijection, Injection, Surjection, IsInjective
  <1>6. Cardinality(T) = Cardinality(Hits(p, M))
    <2> HIDE DEF shift, T
    <2> QED
      BY Zenon, <1>2, <1>5, FS_Bijection DEF ExistsBijection
  <1>7. Cardinality(T) =
            IF 1 \in Hits(q, M) THEN Cardinality(Hits(q, M)) - 1
            ELSE Cardinality(Hits(q, M))
    BY Zenon, <1>2, FS_RemoveElement
  <1>8. 1 \in Hits(q, M) <=> Head(q) \in M
    BY <1>1 DEF Hits
  <1>9. Cardinality(Hits(q, M)) \in Nat
    BY Zenon, <1>2, FS_CardinalityType
  <1> HIDE DEF T
  <1> QED
    BY <1>6, <1>7, <1>8, <1>9 DEF Count, p

\* At most one SQE for each connection and for the accept, and not both kinds of
\* worker in one queue: the submission queue has room for them.
LEMMA QueueBound ==
    ASSUME NEW q \in Seq(Sqes),
           Count(q, {Accept}) =< 1,
           \A c \in Conns : Count(q, {Rx(c)}) =< 1,
           Count(q, {Accept}) = 0 \/ Count(q, {Rx(Sock)}) = 0
    PROVE  Len(q) =< QueueDepth
  <1> DEFINE by == [i \in 1..Len(q) |-> q[i].conn]
  <1>1. DOMAIN q = 1..Len(q) /\ Len(q) \in Nat /\ \A i \in 1..Len(q) : q[i] \in Sqes
    OBVIOUS
  <1>2. \A i \in 1..Len(q) :
            /\ q[i].conn \in Conns
            /\ q[i] = Accept \/ q[i] = Rx(q[i].conn)
            /\ q[i] = Accept => q[i].conn = Sock
    BY <1>1 DEF Sqes, Accept, Rx, Conns
  <1>3. ASSUME NEW i \in 1..Len(q), NEW j \in 1..Len(q), q[i].conn = q[j].conn
        PROVE  q[i] = q[j]
    <2>1. CASE q[i] = Accept /\ q[j] # Accept
      <3>1. Count(q, {Accept}) > 0 /\ Count(q, {Rx(Sock)}) > 0
        BY Zenon, <1>1, <1>2, <1>3, <2>1, CountType
      <3> QED
        BY <3>1
    <2>2. CASE q[i] # Accept /\ q[j] = Accept
      <3>1. Count(q, {Accept}) > 0 /\ Count(q, {Rx(Sock)}) > 0
        BY <1>1, <1>2, <1>3, <2>2, CountType
      <3> QED
        BY <3>1
    <2> QED
      BY Zenon, <1>2, <1>3, <2>1, <2>2
  <1>4. ASSUME NEW i \in 1..Len(q), NEW j \in 1..Len(q), q[i].conn = q[j].conn
        PROVE  i = j
    <2>1. q[i] = q[j]
      BY Zenon, <1>3, <1>4
    <2>2. Count(q, {q[i]}) =< 1
      BY Zenon, <1>2
    <2> QED
      BY Zenon, <1>1, <2>1, <2>2, CountType
  <1>5. by \in Injection(1..Len(q), Conns)
    <2>1. by \in [1..Len(q) -> Conns]
      BY Zenon, <1>2
    <2>2. \A i, j \in 1..Len(q) : by[i] = by[j] => i = j
      BY Zenon, <1>4
    <2> HIDE DEF by
    <2> QED
      BY Zenon, <2>1, <2>2 DEF Injection, IsInjective
  <1>6. IsFiniteSet(Conns) /\ Cardinality(Conns) = Cardinality(Fds) + 1
    BY Zenon, ZcrxAssumption, FS_AddElement DEF Conns
  <1>7. Cardinality(1..Len(q)) =< Cardinality(Conns)
    BY Zenon, <1>5, <1>6, FS_Injection
  <1>8. Cardinality(1..Len(q)) = Len(q)
    <2>1. Cardinality(1..Len(q)) = IF 1 > Len(q) THEN 0 ELSE Len(q) - 1 + 1
      BY <1>1, FS_Interval
    <2> QED
      BY <1>1, <2>1
  <1>9. Cardinality(Fds) \in Nat
    BY Zenon, ZcrxAssumption, FS_CardinalityType
  <1> QED
    BY <1>1, <1>6, <1>7, <1>8, <1>9, ZcrxAssumption, QueueDepthAssumption

--------------------------------------------------------------------------------
(* The completions still to be handled *)

LEMMA SuffixType ==
    ASSUME NEW S, NEW q \in Seq(S), NEW n \in 0..Len(q)
    PROVE  SubSeq(q, n + 1, Len(q)) \in Seq(S)
  OBVIOUS

LEMMA PendingType ==
    ASSUME TypeOK
    PROVE  Pending \in Seq(Cqes)
  <1>1. cq \in Seq(Cqes) /\ count \in 0..Len(cq)
    BY Zenon DEF TypeOK
  <1> QED
    BY <1>1 DEF Pending

\* A handler takes the first of them.
LEMMA PendingHandled ==
    ASSUME TypeOK, count < Len(cq), count' = count + 1, cq' = cq
    PROVE  /\ Pending # <<>> /\ Pending' = Tail(Pending)
           /\ Head(Pending) = cqe /\ cqe \in Cqes
  <1>1. cq \in Seq(Cqes) /\ count \in 0..Len(cq) /\ Len(cq) \in Nat
    BY DEF TypeOK
  <1> DEFINE p == SubSeq(cq, count + 1, Len(cq))
             r == SubSeq(cq, count + 2, Len(cq))
  <1>2. /\ p \in Seq(Cqes) /\ Len(p) = Len(cq) - count
        /\ \A i \in 1..(Len(cq) - count) : p[i] = cq[count + i]
    BY <1>1
  <1>3. /\ r \in Seq(Cqes) /\ Len(r) = Len(cq) - count - 1
        /\ \A i \in 1..(Len(cq) - count - 1) : r[i] = cq[count + 1 + i]
    BY <1>1
  <1>4. Pending = p /\ Pending' = r
    BY <1>1 DEF Pending
  <1> HIDE DEF p, r
  <1>5. p # <<>> /\ Head(p) = cq[count + 1]
    BY <1>1, <1>2
  <1>6. /\ Tail(p) \in Seq(Cqes) /\ Len(Tail(p)) = Len(cq) - count - 1
        /\ \A i \in 1..(Len(cq) - count - 1) : Tail(p)[i] = p[i + 1]
    BY <1>1, <1>2, <1>5
  <1>7. \A i \in 1..(Len(cq) - count - 1) : Tail(p)[i] = r[i]
    BY <1>1, <1>2, <1>3, <1>6
  <1>8. Tail(p) = r
    BY Zenon, <1>3, <1>6, <1>7, QueuesEqual
  <1> QED
    BY <1>1, <1>4, <1>5, <1>8 DEF cqe

\* What the kernel posts comes last.
LEMMA PendingPosted ==
    ASSUME TypeOK, NEW e \in Cqes, count' = count, cq' = Append(cq, e)
    PROVE  Pending' = Append(Pending, e)
  <1>1. cq \in Seq(Cqes) /\ count \in 0..Len(cq) /\ Len(cq) \in Nat
    BY DEF TypeOK
  <1> DEFINE p == SubSeq(cq, count + 1, Len(cq))
             r == SubSeq(cq', count + 1, Len(cq'))
  <1>2. /\ p \in Seq(Cqes) /\ Len(p) = Len(cq) - count
        /\ \A i \in 1..(Len(cq) - count) : p[i] = cq[count + i]
    BY <1>1
  <1>3. /\ cq' \in Seq(Cqes) /\ Len(cq') = Len(cq) + 1 /\ cq'[Len(cq) + 1] = e
        /\ \A i \in 1..Len(cq) : cq'[i] = cq[i]
    BY <1>1
  <1>4. /\ r \in Seq(Cqes) /\ Len(r) = Len(cq) + 1 - count
        /\ \A i \in 1..(Len(cq) + 1 - count) : r[i] = cq'[count + i]
    BY <1>1, <1>3
  <1>5. Pending = p /\ Pending' = r
    BY Zenon DEF Pending
  <1> DEFINE a == Append(p, e)
  <1> HIDE DEF p, r
  <1>6. /\ a \in Seq(Cqes) /\ Len(a) = Len(cq) + 1 - count
        /\ a[Len(cq) + 1 - count] = e
        /\ \A i \in 1..(Len(cq) - count) : a[i] = p[i]
    BY <1>1, <1>2
  <1> HIDE DEF a
  <1>7. \A i \in 1..(Len(cq) + 1 - count) : a[i] = r[i]
    <2> TAKE i \in 1..(Len(cq) + 1 - count)
    <2>0. i \in Int /\ r[i] = cq'[count + i]
      BY <1>1, <1>4
    <2>1. CASE i = Len(cq) + 1 - count
      <3>1. count + i = Len(cq) + 1
        BY <1>1, <2>0, <2>1
      <3> QED
        BY Zenon, <1>3, <1>6, <2>0, <2>1, <3>1
    <2>2. CASE i \in 1..(Len(cq) - count)
      <3>1. count + i \in 1..Len(cq)
        BY <1>1, <2>2
      <3> QED
        BY Zenon, <1>2, <1>3, <1>6, <2>0, <2>2, <3>1
    <2>3. i = Len(cq) + 1 - count \/ i \in 1..(Len(cq) - count)
      BY <1>1, <2>0
    <2> QED
      BY Zenon, <2>1, <2>2, <2>3
  <1>8. a = r
    BY Zenon, <1>4, <1>6, <1>7, QueuesEqual
  <1> QED
    BY Zenon, <1>5, <1>8 DEF a

\* The end of a batch takes none of them.
LEMMA PendingKept ==
    ASSUME TypeOK, count' = 0, cq' = SubSeq(cq, count + 1, Len(cq))
    PROVE  Pending' = Pending
  <1>1. cq \in Seq(Cqes) /\ count \in 0..Len(cq) /\ Len(cq) \in Nat
    BY DEF TypeOK
  <1>2. cq' \in Seq(Cqes)
    BY <1>1
  <1>3. SubSeq(cq', 1, Len(cq')) = cq'
    BY SMTT(30), <1>2
  <1>4. count' + 1 = 1
    OBVIOUS
  <1>5. Pending' = cq'
    BY Zenon, <1>3, <1>4 DEF Pending
  <1> QED
    BY Zenon, <1>5 DEF Pending

--------------------------------------------------------------------------------
(* Types *)

\* Outside a batch no completion of one has been handled.
BatchStart == pc \notin {"cqe", "crashed"} => count = 0

TypeInv == TypeOK /\ BatchStart

LEMMA TypeInit == Init => TypeInv
  <1> SUFFICES ASSUME Init PROVE TypeInv
    BY Zenon
  <1>1. sq \in Seq(Sqes) /\ cq \in Seq(Cqes) /\ count \in 0..Len(cq)
    BY DEF Init
  <1>2. armed \in [Conns -> Nat] /\ rqes \in [0..(RqEntries - 1) -> SUBSET Bufs]
    BY Zenon DEF Init
  <1>3. {rq_tail, khead} \subseteq 0..(Word - 1)
    BY ZcrxAssumption DEF Init
  <1>4. accepting \in Nat
    BY Zenon DEF Init
  <1> QED
    BY Zenon, <1>1, <1>2, <1>3, <1>4 DEF Init, TypeOK, TypeInv, BatchStart

\* Every completion handler moves on by one.
LEMMA CompletionType ==
    ASSUME TypeOK, NEW op, Completion(op)
    PROVE  /\ count < Len(cq) /\ count' = count + 1 /\ cq' = cq
           /\ count' \in 0..Len(cq')
           /\ cqe \in Cqes /\ cqe.op = op
           /\ pc = "cqe" /\ UNCHANGED <<role, stop, held, accepting, armed, pool, khead>>
  <1>1. cq \in Seq(Cqes) /\ count \in 0..Len(cq) /\ Len(cq) \in Nat
    BY DEF TypeOK
  <1>2. count < Len(cq) /\ count' = count + 1 /\ cq' = cq
    BY <1>1, ZcrxAssumption DEF Completion, Lesser
  <1>3. count' \in 0..Len(cq') /\ cqe \in Cqes
    BY <1>1, <1>2 DEF cqe
  <1> QED
    BY Zenon, <1>2, <1>3 DEF Completion, kernel

LEMMA SubmitType ==
    ASSUME TypeOK, NEW s \in Seq(Sqes), Submit(s)
    PROVE  sq' \in Seq(Sqes) /\ pc' \in {pc, "crashed"}
  BY DEF TypeOK, Submit

LEMMA PostType ==
    ASSUME TypeOK, NEW op \in {"ACCEPT", "RECV_ZC"}, NEW c \in Conns,
           NEW r \in {"positive", "nospc", "nomem", "error"}, NEW m \in BOOLEAN,
           NEW b \in SUBSET Bufs, Post(op, c, r, m, b)
    PROVE  /\ [op |-> op, conn |-> c, res |-> r, more |-> m, buf |-> b] \in Cqes
           /\ cq' \in Seq(Cqes)
           /\ count' = count /\ count' \in 0..Len(cq')
           /\ pc = "wait"
           /\ UNCHANGED <<role, pc, stop, peer_closed, held, conns, sq, khead, rqes,
                          rq_tail, lost>>
  <1> DEFINE e == [op |-> op, conn |-> c, res |-> r, more |-> m, buf |-> b]
  <1>1. e \in Cqes
    BY Zenon DEF Cqes
  <1>2. cq \in Seq(Cqes) /\ count \in 0..Len(cq) /\ cq' = Append(cq, e) /\ count' = count
    BY Zenon DEF TypeOK, Post
  <1> HIDE DEF e
  <1>3. cq' \in Seq(Cqes) /\ count' \in 0..Len(cq')
    BY <1>1, <1>2
  <1> QED
    BY Zenon, <1>1, <1>2, <1>3 DEF Post, refill, e

\* The SQEs the handlers prepare.
LEMMA SqeTypes ==
    /\ Accept \in Sqes
    /\ \A c \in Conns : Rx(c) \in Sqes /\ Rx(c) # Accept
    /\ \A c, d \in Conns : Rx(c) = Rx(d) => c = d
    /\ Rearmed \in Seq(Sqes)
  <1>1. Accept \in Sqes /\ \A c \in Conns : Rx(c) \in Sqes
    BY Zenon DEF Sqes
  <1>2. \A c \in Conns : Rx(c) # Accept
    BY Zenon DEF Rx, Accept
  <1>3. \A c, d \in Conns : Rx(c) = Rx(d) => c = d
    BY Zenon DEF Rx
  <1>4. Rearmed \in Seq(Sqes)
    BY <1>1 DEF Rearmed
  <1> QED
    BY Zenon, <1>1, <1>2, <1>3, <1>4

LEMMA TypeStep == TypeInv /\ [Next]_vars => TypeInv'
  <1> SUFFICES ASSUME TypeInv, [Next]_vars PROVE TypeInv'
    BY Zenon
  <1> USE DEF kernel, refill, TypeInv, BatchStart
  <1>1. CASE Start
    <2>1. held' \subseteq {"listen_fd", "ring", "ring_map", "area_map"}
      BY Zenon, <1>1
         DEF Start, zcrx_setup, Acquire, Fails, MmapAreaFails, Callers, TypeOK
    <2>2. pc \notin {"cqe", "crashed"}
      BY Zenon, <1>1 DEF Start, zcrx_setup, Acquire, Fails, MmapAreaFails
    <2> QED
      BY Zenon, <1>1, <2>1, <2>2 DEF Start, TypeOK
  <1>2. CASE Ready
    <2>1. armed' \in [Conns -> Nat] /\ accepting' \in Nat /\ conns' \subseteq Conns
      BY <1>2 DEF Ready, TypeOK, Conns
    <2> QED
      BY Zenon, <1>2, <2>1 DEF Ready, TypeOK
  <1>3. CASE LeaveLoop \/ WaitDone \/ StopSignal
    BY Zenon, <1>3 DEF LeaveLoop, WaitDone, StopSignal, TypeOK
  <1>4. CASE SubmitAndWait
    <2>1. \A M : Cardinality(Hits(sq, M)) \in Nat
      BY Zenon, CountType DEF TypeOK, Count
    <2>2. armed' \in [Conns -> Nat] /\ accepting' \in Nat /\ sq' \in Seq(Sqes)
      BY <1>4, <2>1 DEF SubmitAndWait, TypeOK
    <2> QED
      BY Zenon, <1>4, <2>2 DEF SubmitAndWait, TypeOK
  <1>5. CASE HandleAccept
    <2>1. Completion("ACCEPT")
      BY Zenon, <1>5 DEF HandleAccept
    <2>2. cqe.conn \in Conns
      BY Zenon, <2>1, CompletionType DEF Cqes
    <2>3. <<Rx(cqe.conn)>> \o Rearmed \in Seq(Sqes)
      BY <2>2, SqeTypes
    <2>4. sq' \in Seq(Sqes) /\ pc' \in {pc, "crashed"}
      BY Zenon, <1>5, <2>3, SubmitType DEF HandleAccept
    <2>5. conns' \subseteq Conns /\ UNCHANGED <<peer_closed, open, rqes, rq_tail, lost>>
      BY Zenon, <1>5, <2>2 DEF HandleAccept, TypeOK
    <2> QED
      BY Zenon, <2>1, <2>4, <2>5, CompletionType DEF TypeOK
  <1>6. CASE HandleAcceptError
    <2>1. Completion("ACCEPT") /\ UNCHANGED <<peer_closed, open, conns, rqes, rq_tail, lost>>
      BY Zenon, <1>6 DEF HandleAcceptError
    <2>2. sq' \in Seq(Sqes) /\ pc' \in {pc, "crashed"}
      BY Zenon, <1>6, SqeTypes, SubmitType DEF HandleAcceptError
    <2> QED
      BY Zenon, <2>1, <2>2, CompletionType DEF TypeOK
  <1>7. CASE HandleRecoverable
    <2>1. /\ Completion("RECV_ZC")
          /\ UNCHANGED <<peer_closed, open, conns, rqes, rq_tail, lost>>
      BY Zenon, <1>7 DEF HandleRecoverable
    <2>2. cqe.conn \in Conns
      BY Zenon, <2>1, CompletionType DEF Cqes
    <2>3. <<Rx(cqe.conn)>> \in Seq(Sqes)
      BY <2>2, SqeTypes
    <2>4. sq' \in Seq(Sqes) /\ pc' \in {pc, "crashed"}
      BY Zenon, <1>7, <2>3, SubmitType DEF HandleRecoverable
    <2> QED
      BY Zenon, <2>1, <2>4, CompletionType DEF TypeOK
  <1>8. CASE HandleRxEnd
    <2>1. Completion("RECV_ZC") /\ UNCHANGED <<pc, sq, rqes, rq_tail, lost>>
      BY Zenon, <1>8 DEF HandleRxEnd
    <2>2. open' \subseteq Fds /\ conns' \subseteq Conns /\ peer_closed' \in BOOLEAN
      BY Zenon, <1>8 DEF HandleRxEnd, TypeOK
    <2> QED
      BY Zenon, <2>1, <2>2, CompletionType DEF TypeOK
  <1>9. CASE HandleData
    <2>1. Completion("RECV_ZC") /\ UNCHANGED <<sq, peer_closed, open, conns>>
      BY Zenon, <1>9 DEF HandleData
    <2>2. cqe.buf \subseteq Bufs
      BY Zenon, <2>1, CompletionType DEF Cqes
    <2>3. lost' \subseteq Bufs
      BY Zenon, <1>9, <2>2 DEF HandleData, zcrx_return_buffer, TypeOK
    <2>4. rqes' \in [0..(RqEntries - 1) -> SUBSET Bufs]
      BY Zenon, <1>9, <2>2 DEF HandleData, zcrx_return_buffer, TypeOK
    <2>5. rq_tail' \in 0..(Word - 1)
      <3>1. rq_tail \in 0..(Word - 1)
        BY Zenon DEF TypeOK
      <3>2. (rq_tail + 1) % Word \in 0..(Word - 1)
        BY <3>1, ZcrxAssumption
      <3> QED
        BY Zenon, <1>9, <3>1, <3>2 DEF HandleData, zcrx_return_buffer
    <2> QED
      BY Zenon, <1>9, <2>1, <2>3, <2>4, <2>5, CompletionType DEF HandleData, TypeOK
  <1>10. CASE BatchEnd
    <2>1. cq' \in Seq(Cqes) /\ count' \in 0..Len(cq')
      BY <1>10 DEF BatchEnd, TypeOK
    <2> QED
      BY Zenon, <1>10, <2>1 DEF BatchEnd, TypeOK
  <1>11. CASE Exit
    <2>1. /\ sq' \in Seq(Sqes) /\ cq' \in Seq(Cqes) /\ count' \in 0..Len(cq')
          /\ armed' \in [Conns -> Nat] /\ accepting' \in Nat
          /\ open' \subseteq Fds /\ conns' \subseteq Conns
          /\ held' \subseteq {"listen_fd", "ring", "ring_map", "area_map"}
      BY <1>11 DEF Exit, TypeOK
    <2> QED
      BY Zenon, <1>11, <2>1 DEF Exit, TypeOK
  <1>12. CASE KernelAccept
    <2>1. accepting' \in Nat /\ UNCHANGED <<armed, pool>>
      BY <1>12 DEF KernelAccept, TypeOK
    <2>2. CASE \E f \in Fds \ open :
                  open' = open \cup {f} /\ Post("ACCEPT", f, "positive", FALSE, {})
      <3>1. PICK f \in Fds \ open :
                open' = open \cup {f} /\ Post("ACCEPT", f, "positive", FALSE, {})
        BY Zenon, <2>2
      <3>2. f \in Conns /\ open' \subseteq Fds /\ {} \in SUBSET Bufs
        BY Zenon, <3>1 DEF Conns, TypeOK
      <3> QED
        BY Zenon, <2>1, <3>1, <3>2, PostType DEF TypeOK
    <2>3. CASE Post("ACCEPT", Sock, "error", FALSE, {}) /\ UNCHANGED open
      <3>1. Sock \in Conns /\ {} \in SUBSET Bufs
        BY Zenon DEF Conns
      <3> QED
        BY Zenon, <2>1, <2>3, <3>1, PostType DEF TypeOK
    <2> QED
      BY Zenon, <1>12, <2>2, <2>3 DEF KernelAccept
  <1>13. CASE KernelRecv
    <2>1. PICK c \in Conns :
              /\ armed[c] > 0
              /\ \/ \E b \in pool :
                      /\ Len(cq) < CqEntries
                      /\ Post("RECV_ZC", c, "positive", TRUE, {b})
                      /\ pool' = pool \ {b}
                      /\ UNCHANGED armed
                 \/ \E r \in {"nospc", "nomem", "error"} :
                      /\ r = "nospc" => Len(cq) >= CqEntries
                      /\ Post("RECV_ZC", c, r, FALSE, {})
                      /\ armed' = [armed EXCEPT ![c] = @ - 1]
                      /\ UNCHANGED pool
              /\ UNCHANGED <<accepting, open>>
      BY Zenon, <1>13 DEF KernelRecv
    <2>2. ASSUME NEW b \in pool, Post("RECV_ZC", c, "positive", TRUE, {b}),
                 pool' = pool \ {b}, UNCHANGED armed
          PROVE  TypeInv'
      <3>1. {b} \in SUBSET Bufs /\ pool' \subseteq Bufs
        BY Zenon, <2>2 DEF TypeOK
      <3> QED
        BY ZenonT(30), <2>1, <2>2, <3>1, PostType DEF TypeOK
    <2>3. ASSUME NEW r \in {"nospc", "nomem", "error"}, Post("RECV_ZC", c, r, FALSE, {}),
                 armed' = [armed EXCEPT ![c] = @ - 1], UNCHANGED pool
          PROVE  TypeInv'
      <3>1. armed' \in [Conns -> Nat] /\ {} \in SUBSET Bufs
        BY <2>1, <2>3 DEF TypeOK
      <3>2. r \in {"positive", "nospc", "nomem", "error"}
        BY Zenon
      <3>3. /\ cq' \in Seq(Cqes) /\ count' = count /\ count' \in 0..Len(cq')
            /\ UNCHANGED <<role, pc, stop, peer_closed, held, conns, sq, khead, rqes,
                           rq_tail, lost>>
        BY Zenon, <2>3, <3>1, <3>2, PostType
      <3> QED
        BY Zenon, <2>1, <2>3, <3>1, <3>3 DEF TypeOK
    <2> QED
      BY Zenon, <2>1, <2>2, <2>3
  <1>14. CASE KernelRefill
    <2>1. /\ pool' \subseteq Bufs
          /\ rqes' \in [0..(RqEntries - 1) -> SUBSET Bufs]
          /\ khead' \in 0..(Word - 1)
      BY <1>14, ZcrxAssumption DEF KernelRefill, TypeOK
    <2> QED
      BY Zenon, <1>14, <2>1 DEF KernelRefill, TypeOK
  <1>15. CASE Terminated \/ UNCHANGED vars
    BY Zenon, <1>15 DEF Terminated, vars, TypeOK
  <1> QED
    BY SMTT(30), <1>1, <1>2, <1>3, <1>4, <1>5, <1>6, <1>7, <1>8, <1>9, <1>10, <1>11, <1>12,
       <1>13, <1>14, <1>15 DEF Next, Worker

\* For every value of the constants the variables of the zero-copy receive
\* workers' model stay in their domains.
THEOREM ZcrxTypeCorrect == Spec => []TypeOK
  <1>1. TypeInv => TypeOK
    BY Zenon DEF TypeInv
  <1> QED
    BY <1>1, TypeInit, TypeStep, PTL DEF Spec

--------------------------------------------------------------------------------
(* The operations and the descriptors *)

AcceptDone == {e \in Cqes : e.op = "ACCEPT"}

RxDone(c) == {e \in Cqes : e.op = "RECV_ZC" /\ e.conn = c /\ ~e.more}

Opened(f) == {e \in Cqes : e.op = "ACCEPT" /\ e.conn = f}

\* A server has at most one accept, one until the stop signal; a client none.
AcceptCount ==
    /\ Accepts =< (IF role = "server" THEN 1 ELSE 0)
    /\ role = "server" /\ ~stop => Accepts = 1

RxCount == \A c \in Conns : Receives(c) = IF c \in conns /\ ~peer_closed THEN 1 ELSE 0

Sides ==
    /\ role = "server" => Sock \notin conns /\ ~peer_closed
    /\ role = "client" => conns = {Sock}

\* Only an accept that succeeded carries a descriptor.
Arrivals ==
    \A i \in DOMAIN Pending : Pending[i].op = "ACCEPT" =>
        IF Pending[i].res = "positive" THEN Pending[i].conn \in Fds
        ELSE Pending[i].conn = Sock

\* An open descriptor that is no connection's is in exactly one completion.
Owned ==
    \A f \in Fds :
        /\ Count(Pending, Opened(f)) = IF f \in open /\ f \notin conns THEN 1 ELSE 0
        /\ f \in conns => f \in open

Ops == AcceptCount /\ RxCount /\ Sides /\ Arrivals /\ Owned

Starting == {"listen", "queue_init", "if_nametoindex", "mmap_ring", "mmap_area",
             "register_ifq", "ready"}

\* Nothing is under way before the loop.
Fresh ==
    pc \in Starting =>
        /\ sq = <<>> /\ cq = <<>> /\ accepting = 0
        /\ \A c \in Conns : armed[c] = 0
        /\ conns = {} /\ open = {} /\ ~peer_closed

\* What the worker may hold at each step of its set-up.
HeldSoFar ==
    /\ pc = "listen" => held = {}
    /\ pc = "queue_init" => held \subseteq {"listen_fd"}
    /\ pc \in {"if_nametoindex", "mmap_ring"} => held \subseteq Callers
    /\ pc = "mmap_area" => held \subseteq Callers \cup {"ring_map"}

ZcrxInv ==
    /\ TypeInv
    /\ SqeAvailable
    /\ InLoop => Ops
    /\ Fresh
    /\ HeldSoFar
    /\ ReturnsClean

LEMMA CountsDef ==
    /\ Accepts = Count(sq, {Accept}) + accepting + Count(Pending, AcceptDone)
    /\ \A c \in Conns :
          Receives(c) = Count(sq, {Rx(c)}) + armed[c] + Count(Pending, RxDone(c))
    /\ Accepts' = Count(sq', {Accept}) + accepting' + Count(Pending', AcceptDone)
    /\ \A c \in Conns :
          Receives(c)' = Count(sq', {Rx(c)}) + armed'[c] + Count(Pending', RxDone(c))
  BY Zenon DEF Accepts, Receives, Count, AcceptDone, RxDone

\* Counts of a well-typed state are natural numbers.
LEMMA CountsType ==
    ASSUME TypeOK
    PROVE  \A M : Count(sq, M) \in Nat /\ Count(Pending, M) \in Nat
  BY Zenon, PendingType, CountType DEF TypeOK

\* The submission queue of a state with these operations has not overflowed.
LEMMA RoomForOps ==
    ASSUME TypeOK', AcceptCount', RxCount', Sides'
    PROVE  Len(sq') =< QueueDepth
  <1>1. /\ sq' \in Seq(Sqes) /\ accepting' \in Nat /\ armed' \in [Conns -> Nat]
        /\ Pending' \in Seq(Cqes)
    <2>1. cq' \in Seq(Cqes) /\ count' \in 0..Len(cq')
      BY Zenon DEF TypeOK
    <2>2. Pending' \in Seq(Cqes)
      BY Zenon, <2>1, SuffixType DEF Pending
    <2> QED
      BY Zenon, <2>2 DEF TypeOK
  <1>2. \A M : Count(sq', M) \in Nat /\ Count(Pending', M) \in Nat
    BY Zenon, <1>1, CountType
  <1>3. Count(sq', {Accept}) =< (IF role' = "server" THEN 1 ELSE 0)
    BY <1>1, <1>2, CountsDef DEF AcceptCount
  <1>4. \A c \in Conns : Count(sq', {Rx(c)}) =<
            (IF c \in conns' /\ ~peer_closed' THEN 1 ELSE 0)
    <2> TAKE c \in Conns
    <2>1. Receives(c)' = Count(sq', {Rx(c)}) + armed'[c] + Count(Pending', RxDone(c))
      BY Zenon, CountsDef
    <2> QED
      BY <1>1, <1>2, <2>1 DEF RxCount
  <1>5. Count(sq', {Accept}) = 0 \/ Count(sq', {Rx(Sock)}) = 0
    <2>1. CASE role' = "server"
      BY <1>2, <1>4, <2>1 DEF Sides, Conns
    <2>2. CASE role' # "server"
      BY <1>2, <1>3, <2>2
    <2> QED
      BY Zenon, <2>1, <2>2
  <1>6. Count(sq', {Accept}) =< 1 /\ \A c \in Conns : Count(sq', {Rx(c)}) =< 1
    BY <1>2, <1>3, <1>4
  <1> QED
    BY Zenon, <1>1, <1>5, <1>6, QueueBound

\* A completion that is handled is one less of its sets, and of no other.
LEMMA HandledCount ==
    ASSUME TypeOK, NEW op, Completion(op)
    PROVE  /\ \A M : Count(Pending', M) = Count(Pending, M) - (IF cqe \in M THEN 1 ELSE 0)
           /\ \A M : cqe \in M => Count(Pending, M) > 0
           /\ \A i \in DOMAIN Pending' : \E j \in DOMAIN Pending : Pending'[i] = Pending[j]
           /\ \E j \in DOMAIN Pending : cqe = Pending[j]
  <1>1. /\ Pending # <<>> /\ Pending' = Tail(Pending)
        /\ Head(Pending) = cqe /\ cqe \in Cqes
    BY Zenon, CompletionType, PendingHandled
  <1> DEFINE p == Pending
  <1>2. p \in Seq(Cqes) /\ p # <<>> /\ Head(p) = cqe /\ Pending' = Tail(p)
    BY Zenon, <1>1, PendingType
  <1> HIDE DEF p
  <1>3. /\ DOMAIN p = 1..Len(p) /\ DOMAIN Tail(p) = 1..(Len(p) - 1)
        /\ Len(p) \in Nat /\ Len(p) > 0
        /\ \A i \in 1..(Len(p) - 1) : Tail(p)[i] = p[i + 1]
        /\ Head(p) = p[1] /\ Tail(p) \in Seq(Cqes)
    BY <1>2
  <1>4. \A M : Count(p, M) \in Nat /\ Count(Tail(p), M) \in Nat
    BY Zenon, <1>2, <1>3, CountType
  <1>5. \A M : Count(p, M) = Count(Tail(p), M) + (IF cqe \in M THEN 1 ELSE 0)
    BY Zenon, <1>2, CountTail
  <1>6. \A M : Count(Tail(p), M) = Count(p, M) - (IF cqe \in M THEN 1 ELSE 0)
    BY <1>4, <1>5
  <1>7. \A M : cqe \in M => Count(p, M) > 0
    BY <1>4, <1>5
  <1>8. \A i \in DOMAIN Tail(p) : \E j \in DOMAIN p : Tail(p)[i] = p[j]
    <2> TAKE i \in DOMAIN Tail(p)
    <2>1. i + 1 \in DOMAIN p /\ Tail(p)[i] = p[i + 1]
      BY <1>3
    <2> QED
      BY Zenon, <2>1
  <1>9. 1 \in DOMAIN p /\ cqe = p[1]
    BY <1>2, <1>3
  <1>10. \E j \in DOMAIN p : cqe = p[j]
    BY Zenon, <1>9
  <1> QED
    BY Zenon, <1>2, <1>6, <1>7, <1>8, <1>10 DEF p

\* A completion that is posted is one more of its sets, and of no other.
LEMMA PostedCount ==
    ASSUME TypeOK, NEW e \in Cqes, count' = count, cq' = Append(cq, e)
    PROVE  /\ \A M : Count(Pending', M) = Count(Pending, M) + (IF e \in M THEN 1 ELSE 0)
           /\ \A i \in DOMAIN Pending' :
                 Pending'[i] = e \/ \E j \in DOMAIN Pending : Pending'[i] = Pending[j]
  <1> DEFINE p == Pending
  <1>1. p \in Seq(Cqes) /\ Pending' = Append(p, e)
    BY Zenon, PendingType, PendingPosted
  <1> HIDE DEF p
  <1>2. \A M : Count(Append(p, e), M) = Count(p, M) + (IF e \in M THEN 1 ELSE 0)
    BY Zenon, <1>1, CountAppend
  <1>3. \A i \in DOMAIN Append(p, e) :
            Append(p, e)[i] = e \/ \E j \in DOMAIN p : Append(p, e)[i] = p[j]
    <2> TAKE i \in DOMAIN Append(p, e)
    <2>1. /\ DOMAIN p = 1..Len(p) /\ DOMAIN Append(p, e) = 1..(Len(p) + 1)
          /\ Len(p) \in Nat /\ Append(p, e)[Len(p) + 1] = e
          /\ \A j \in 1..Len(p) : Append(p, e)[j] = p[j]
      BY <1>1
    <2>2. i = Len(p) + 1 \/ i \in 1..Len(p)
      BY <2>1
    <2> QED
      BY Zenon, <2>1, <2>2
  <1> QED
    BY Zenon, <1>1, <1>2, <1>3 DEF p

\* SQEs that are put last.
LEMMA SubmitCount ==
    ASSUME TypeOK, NEW e \in Sqes, NEW g \in Sqes
    PROVE  \A M : /\ Count(sq \o <<>>, M) = Count(sq, M)
                  /\ Count(sq \o <<e>>, M) = Count(sq, M) + (IF e \in M THEN 1 ELSE 0)
                  /\ Count(sq \o (<<e>> \o <<g>>), M) =
                        Count(sq, M) + (IF e \in M THEN 1 ELSE 0) + (IF g \in M THEN 1 ELSE 0)
  <1>1. sq \in Seq(Sqes)
    BY Zenon DEF TypeOK
  <1> DEFINE q == sq
  <1> HIDE DEF q
  <1>2. q \in Seq(Sqes)
    BY Zenon, <1>1 DEF q
  <1>3. q \o <<>> = q /\ q \o <<e>> = Append(q, e) /\ Append(q, e) \in Seq(Sqes)
    BY <1>2
  <1>4. q \o (<<e>> \o <<g>>) = Append(Append(q, e), g)
    BY <1>2
  <1>5. \A M : Count(Append(q, e), M) = Count(q, M) + (IF e \in M THEN 1 ELSE 0)
    BY Zenon, <1>2, CountAppend
  <1>6. \A M : Count(Append(Append(q, e), g), M) =
                  Count(Append(q, e), M) + (IF g \in M THEN 1 ELSE 0)
    BY Zenon, <1>3, CountAppend
  <1> QED
    BY Zenon, <1>3, <1>4, <1>5, <1>6 DEF q

\* A handler that prepares SQEs finds room for them.
LEMMA HandledInv ==
    ASSUME ZcrxInv, TypeInv', NEW op, Completion(op), Ops',
           pc' = pc \/ \E s : Submit(s)
    PROVE  ZcrxInv'
  <1>1. pc = "cqe"
    BY Zenon DEF Completion
  <1>2. Len(sq') =< QueueDepth
    BY Zenon, RoomForOps DEF TypeInv, Ops
  <1>3. Len(sq') \in Nat
    BY DEF TypeInv, TypeOK
  <1>4. pc' = "cqe"
    BY <1>1, <1>2, <1>3, QueueDepthAssumption DEF Submit
  <1> QED
    BY Zenon, <1>4 DEF ZcrxInv, SqeAvailable, Fresh, Starting, HeldSoFar, ReturnsClean

\* The sets of completions are apart.
LEMMA Sets ==
    ASSUME NEW e \in Cqes
    PROVE  /\ e \in AcceptDone <=> e.op = "ACCEPT"
           /\ \A c : e \in RxDone(c) <=> e.op = "RECV_ZC" /\ e.conn = c /\ ~e.more
           /\ \A f : e \in Opened(f) <=> e.op = "ACCEPT" /\ e.conn = f
  BY Zenon DEF AcceptDone, RxDone, Opened

\* What every handler finds, and what its completion takes away.
LEMMA Handler ==
    ASSUME ZcrxInv, NEW op, Completion(op)
    PROVE  /\ cqe \in Cqes /\ cqe.op = op /\ UNCHANGED <<role, stop, accepting, armed>>
           /\ Ops /\ TypeOK /\ accepting \in Nat /\ armed \in [Conns -> Nat]
           /\ \A M : Count(sq, M) \in Nat /\ Count(Pending, M) \in Nat
           /\ \A M : Count(Pending', M) = Count(Pending, M) - (IF cqe \in M THEN 1 ELSE 0)
           /\ \A M : cqe \in M => Count(Pending, M) > 0
           /\ op = "ACCEPT" => IF cqe.res = "positive" THEN cqe.conn \in Fds
                               ELSE cqe.conn = Sock
           /\ cqe.conn \in Conns
           /\ Arrivals'
  <1>1. /\ pc = "cqe" /\ cqe \in Cqes /\ cqe.op = op
        /\ UNCHANGED <<role, stop, accepting, armed>>
    BY Zenon, CompletionType DEF ZcrxInv, TypeInv
  <1>2. Ops /\ TypeOK /\ accepting \in Nat /\ armed \in [Conns -> Nat]
    BY Zenon, <1>1 DEF ZcrxInv, InLoop, TypeInv, TypeOK
  <1>3. /\ \A M : Count(Pending', M) = Count(Pending, M) - (IF cqe \in M THEN 1 ELSE 0)
        /\ \A M : cqe \in M => Count(Pending, M) > 0
        /\ \A i \in DOMAIN Pending' : \E j \in DOMAIN Pending : Pending'[i] = Pending[j]
        /\ \E j \in DOMAIN Pending : cqe = Pending[j]
    BY Zenon, <1>2, HandledCount
  <1>4. op = "ACCEPT" => IF cqe.res = "positive" THEN cqe.conn \in Fds
                         ELSE cqe.conn = Sock
    BY Zenon, <1>1, <1>2, <1>3 DEF Ops, Arrivals
  <1>5. \A M : Count(sq, M) \in Nat /\ Count(Pending, M) \in Nat
    BY Zenon, <1>2, CountsType
  <1>6. Arrivals'
    BY <1>2, <1>3 DEF Ops, Arrivals
  <1>7. cqe.conn \in Conns
    BY Zenon, <1>1 DEF Cqes
  <1> QED
    BY Zenon, <1>1, <1>2, <1>3, <1>4, <1>5, <1>6, <1>7

LEMMA AcceptErrorStep ==
    ASSUME ZcrxInv, TypeInv', HandleAcceptError
    PROVE  ZcrxInv'
  <1>1. /\ Completion("ACCEPT") /\ cqe.res = "error" /\ Submit(Rearmed)
        /\ UNCHANGED <<peer_closed, open, conns>>
    BY Zenon DEF HandleAcceptError
  <1>2. cqe.conn = Sock /\ Ops /\ Arrivals'
    BY Zenon, <1>1, Handler
  <1>3. \A M : Count(sq', M) = Count(sq, M) + (IF ~stop /\ Accept \in M THEN 1 ELSE 0)
    <2>1. Accept \in Sqes /\ TypeOK /\ \A M : Count(sq, M) \in Nat
      BY Zenon, <1>1, Handler, SqeTypes
    <2>2. sq' = sq \o (IF stop THEN <<>> ELSE <<Accept>>)
      BY Zenon, <1>1 DEF Submit, Rearmed
    <2>3. CASE stop
      BY <2>1, <2>2, <2>3, SubmitCount
    <2>4. CASE ~stop
      BY Zenon, <2>1, <2>2, <2>4, SubmitCount
    <2> QED
      BY Zenon, <2>3, <2>4
  <1>4. AcceptCount'
    <2>1. /\ Count(sq', {Accept}) = Count(sq, {Accept}) + (IF ~stop THEN 1 ELSE 0)
          /\ Count(Pending', AcceptDone) = Count(Pending, AcceptDone) - 1
          /\ Count(Pending, AcceptDone) > 0
      BY Zenon, <1>1, <1>3, Handler, Sets
    <2>2. Accepts > 0 /\ Accepts' = Accepts - 1 + (IF ~stop THEN 1 ELSE 0) /\ Accepts \in Nat
      BY <1>1, <2>1, Handler, CountsDef
    <2> QED
      BY <1>1, <1>2, <2>2, Handler DEF Ops, AcceptCount
  <1>5. RxCount'
    <2>1. ASSUME NEW c \in Conns PROVE Receives(c)' = Receives(c)
      <3>1. Accept \notin {Rx(c)} /\ cqe \notin RxDone(c)
        BY Zenon, <1>1, Handler, Sets, SqeTypes
      <3>2. /\ Count(sq', {Rx(c)}) = Count(sq, {Rx(c)})
            /\ Count(Pending', RxDone(c)) = Count(Pending, RxDone(c))
        BY <1>1, <1>3, <3>1, Handler
      <3> QED
        BY Zenon, <1>1, <3>2, Handler, CountsDef
    <2> QED
      BY Zenon, <1>1, <1>2, <2>1 DEF Ops, RxCount
  <1>6. Owned'
    <2>1. ASSUME NEW f \in Fds PROVE Count(Pending', Opened(f)) = Count(Pending, Opened(f))
      BY <1>1, <1>2, Handler, Sets, ZcrxAssumption
    <2> QED
      BY Zenon, <1>1, <1>2, <2>1 DEF Ops, Owned
  <1>7. Sides'
    BY Zenon, <1>1, <1>2, Handler DEF Ops, Sides
  <1> QED
    BY Zenon, <1>1, <1>2, <1>4, <1>5, <1>6, <1>7, HandledInv DEF Ops

LEMMA AcceptStep ==
    ASSUME ZcrxInv, TypeInv', HandleAccept
    PROVE  ZcrxInv'
  <1> DEFINE f == cqe.conn
  <1>1. /\ Completion("ACCEPT") /\ cqe.res = "positive" /\ Submit(<<Rx(f)>> \o Rearmed)
        /\ conns' = conns \cup {f} /\ UNCHANGED <<peer_closed, open>>
    BY Zenon DEF HandleAccept
  <1>2. f \in Fds /\ f \in Conns /\ Ops /\ Arrivals'
    BY Zenon, <1>1, Handler
  <1> HIDE DEF f
  <1>3. \A M : Count(sq', M) = Count(sq, M) + (IF Rx(f) \in M THEN 1 ELSE 0)
                                 + (IF ~stop /\ Accept \in M THEN 1 ELSE 0)
    <2>1. Rx(f) \in Sqes /\ Accept \in Sqes /\ TypeOK /\ \A M : Count(sq, M) \in Nat
      BY Zenon, <1>1, <1>2, Handler, SqeTypes
    <2>2. CASE stop
      <3>1. sq' = sq \o <<Rx(f)>>
        BY <1>1, <2>2 DEF Submit, Rearmed
      <3> QED
        BY <2>1, <2>2, <3>1, SubmitCount
    <2>3. CASE ~stop
      <3>1. sq' = sq \o (<<Rx(f)>> \o <<Accept>>)
        BY Zenon, <1>1, <2>3 DEF Submit, Rearmed
      <3> QED
        BY <2>1, <2>3, <3>1, SubmitCount
    <2> QED
      BY Zenon, <2>2, <2>3
  <1>4. Accepts > 0 /\ Accepts' = Accepts - 1 + (IF ~stop THEN 1 ELSE 0) /\ Accepts \in Nat
    <2>1. Rx(f) \notin {Accept} /\ cqe \in AcceptDone
      BY Zenon, <1>1, <1>2, Handler, Sets, SqeTypes
    <2>2. /\ Count(sq', {Accept}) = Count(sq, {Accept}) + (IF ~stop THEN 1 ELSE 0)
          /\ Count(Pending', AcceptDone) = Count(Pending, AcceptDone) - 1
          /\ Count(Pending, AcceptDone) > 0
      BY <1>1, <1>3, <2>1, Handler
    <2> QED
      BY <1>1, <2>2, Handler, CountsDef
  <1>5. AcceptCount' /\ role = "server"
    BY <1>1, <1>2, <1>4, Handler DEF Ops, AcceptCount
  <1>6. Count(Pending, Opened(f)) > 0
    BY Zenon, <1>1, Handler, Sets DEF f
  <1>7. f \in open /\ f \notin conns /\ ~peer_closed
    BY <1>2, <1>5, <1>6 DEF Ops, Owned, Sides
  <1>8. RxCount'
    <2>1. ASSUME NEW c \in Conns
          PROVE  Receives(c)' = Receives(c) + (IF c = f THEN 1 ELSE 0) /\ Receives(c) \in Nat
      <3>1. /\ Accept \notin {Rx(c)} /\ cqe \notin RxDone(c)
            /\ Rx(f) \in {Rx(c)} <=> c = f
        BY Zenon, <1>1, <1>2, Handler, Sets, SqeTypes
      <3>2. /\ Count(sq', {Rx(c)}) = Count(sq, {Rx(c)}) + (IF c = f THEN 1 ELSE 0)
            /\ Count(Pending', RxDone(c)) = Count(Pending, RxDone(c))
        BY <1>1, <1>3, <3>1, Handler
      <3> QED
        BY <1>1, <3>2, Handler, CountsDef
    <2> QED
      BY <1>1, <1>2, <1>7, <2>1 DEF Ops, RxCount
  <1>9. Owned'
    <2>1. ASSUME NEW g \in Fds
          PROVE  Count(Pending', Opened(g)) =
                    Count(Pending, Opened(g)) - (IF g = f THEN 1 ELSE 0)
      BY Zenon, <1>1, Handler, Sets DEF f
    <2> QED
      BY <1>1, <1>2, <1>7, <2>1 DEF Ops, Owned
  <1>10. Sides'
    BY Zenon, <1>1, <1>2, <1>5, Handler, ZcrxAssumption DEF Ops, Sides
  <1> QED
    BY Zenon, <1>1, <1>2, <1>5, <1>8, <1>9, <1>10, HandledInv DEF Ops

\* The completion of a receive touches no accept.
LEMMA RxHandled ==
    ASSUME ZcrxInv, Completion("RECV_ZC"), Count(sq', {Accept}) = Count(sq, {Accept})
    PROVE  /\ AcceptCount'
           /\ \A f \in Fds : Count(Pending', Opened(f)) = Count(Pending, Opened(f))
  <1>1. cqe \notin AcceptDone /\ \A f \in Fds : cqe \notin Opened(f)
    BY Handler, Sets
  <1>2. Count(Pending', AcceptDone) = Count(Pending, AcceptDone)
    BY <1>1, Handler
  <1>3. Accepts' = Accepts
    BY Zenon, <1>2, Handler, CountsDef
  <1>4. AcceptCount'
    BY <1>3, Handler DEF Ops, AcceptCount
  <1> QED
    BY <1>1, <1>4, Handler

LEMMA RecoverableStep ==
    ASSUME ZcrxInv, TypeInv', HandleRecoverable
    PROVE  ZcrxInv'
  <1> DEFINE c == cqe.conn
  <1>1. /\ Completion("RECV_ZC") /\ ~cqe.more /\ Submit(<<Rx(c)>>)
        /\ UNCHANGED <<peer_closed, open, conns>>
    BY Zenon DEF HandleRecoverable
  <1>2. c \in Conns /\ Ops /\ Arrivals' /\ UNCHANGED role
    BY Zenon, <1>1, Handler
  <1>3. \A d \in Conns : cqe \in RxDone(d) <=> d = c
    BY Zenon, <1>1, Handler, Sets
  <1> HIDE DEF c
  <1>4. \A M : Count(sq', M) = Count(sq, M) + (IF Rx(c) \in M THEN 1 ELSE 0)
    <2>1. Rx(c) \in Sqes /\ TypeOK
      BY Zenon, <1>1, <1>2, Handler, SqeTypes
    <2> QED
      BY Zenon, <1>1, <2>1, SubmitCount DEF Submit
  <1>5. Count(sq', {Accept}) = Count(sq, {Accept})
    <2>1. Rx(c) \notin {Accept}
      BY Zenon, <1>2, SqeTypes
    <2> QED
      BY <1>1, <1>4, <2>1, Handler
  <1>6. RxCount'
    <2>1. ASSUME NEW d \in Conns PROVE Receives(d)' = Receives(d)
      <3>1. Rx(c) \in {Rx(d)} <=> d = c
        BY Zenon, <1>2, SqeTypes
      <3>2. /\ Count(sq', {Rx(d)}) = Count(sq, {Rx(d)}) + (IF d = c THEN 1 ELSE 0)
            /\ Count(Pending', RxDone(d)) =
                  Count(Pending, RxDone(d)) - (IF d = c THEN 1 ELSE 0)
        BY Zenon, <1>1, <1>3, <1>4, <3>1, Handler
      <3> QED
        BY <1>1, <3>2, Handler, CountsDef
    <2> QED
      BY Zenon, <1>1, <1>2, <2>1 DEF Ops, RxCount
  <1>7. AcceptCount' /\ Owned' /\ Sides'
    BY Zenon, <1>1, <1>2, <1>5, RxHandled DEF Ops, Owned, Sides
  <1> QED
    BY Zenon, <1>1, <1>2, <1>6, <1>7, HandledInv DEF Ops

LEMMA RxEndStep ==
    ASSUME ZcrxInv, TypeInv', HandleRxEnd
    PROVE  ZcrxInv'
  <1> DEFINE c == cqe.conn
  <1>1. /\ Completion("RECV_ZC") /\ ~cqe.more /\ UNCHANGED <<pc, sq>>
        /\ \/ /\ role = "server"
              /\ open' = open \ ({c} \cap conns)
              /\ conns' = conns \ {c}
              /\ UNCHANGED peer_closed
           \/ /\ role = "client"
              /\ peer_closed' = TRUE
              /\ UNCHANGED <<open, conns>>
    BY Zenon DEF HandleRxEnd
  <1>2. c \in Conns /\ Ops /\ Arrivals' /\ UNCHANGED role
    BY Zenon, <1>1, Handler
  <1>3. \A d \in Conns : cqe \in RxDone(d) <=> d = c
    BY Zenon, <1>1, Handler, Sets
  <1>4. Count(Pending, RxDone(c)) > 0
    BY Zenon, <1>1, <1>2, <1>3, Handler
  <1> HIDE DEF c
  <1>5. \A d \in Conns : Receives(d) \in Nat /\
            Receives(d)' = Receives(d) - (IF d = c THEN 1 ELSE 0)
    <2> TAKE d \in Conns
    <2>1. Count(Pending', RxDone(d)) = Count(Pending, RxDone(d)) - (IF d = c THEN 1 ELSE 0)
      BY Zenon, <1>1, <1>3, Handler
    <2>2. /\ Count(sq', {Rx(d)}) = Count(sq, {Rx(d)}) /\ armed'[d] = armed[d]
          /\ Count(sq, {Rx(d)}) \in Nat /\ armed[d] \in Nat
          /\ Count(Pending, RxDone(d)) \in Nat
      BY Zenon, <1>1, Handler
    <2> QED
      BY <2>1, <2>2, CountsDef
  <1>6. Receives(c) > 0
    <2>1. /\ Count(sq, {Rx(c)}) \in Nat /\ armed[c] \in Nat
          /\ Count(Pending, RxDone(c)) \in Nat
      BY Zenon, <1>1, <1>2, Handler
    <2> QED
      BY <1>2, <1>4, <2>1, CountsDef
  <1>7. c \in conns /\ ~peer_closed /\ Receives(c) = 1
    BY <1>2, <1>5, <1>6 DEF Ops, RxCount
  <1>8. RxCount'
    <2>1. CASE role = "server"
      BY <1>1, <1>2, <1>5, <1>7, <2>1 DEF Ops, RxCount
    <2>2. CASE role = "client"
      <3>1. conns = {c} /\ conns' = conns /\ peer_closed'
        BY Zenon, <1>1, <1>2, <1>7, <2>2 DEF Ops, Sides
      <3> QED
        BY <1>2, <1>5, <1>7, <3>1 DEF Ops, RxCount
    <2> QED
      BY Zenon, <1>1, <2>1, <2>2
  <1>9. AcceptCount' /\ \A f \in Fds : Count(Pending', Opened(f)) = Count(Pending, Opened(f))
    BY Zenon, <1>1, RxHandled
  <1>10. Owned'
    BY Zenon, <1>1, <1>2, <1>7, <1>9 DEF Ops, Owned
  <1>11. Sides'
    BY <1>1, <1>2 DEF Ops, Sides
  <1> QED
    BY Zenon, <1>1, <1>2, <1>8, <1>9, <1>10, <1>11, HandledInv DEF Ops

LEMMA DataStep ==
    ASSUME ZcrxInv, TypeInv', HandleData
    PROVE  ZcrxInv'
  <1>1. /\ Completion("RECV_ZC") /\ cqe.more
        /\ UNCHANGED <<pc, sq, peer_closed, open, conns>>
    BY Zenon DEF HandleData
  <1>2. Ops /\ Arrivals' /\ UNCHANGED role
    BY Zenon, <1>1, Handler
  <1>3. RxCount'
    <2>1. ASSUME NEW d \in Conns PROVE Receives(d)' = Receives(d)
      <3>1. cqe \notin RxDone(d)
        BY Zenon, <1>1, Handler, Sets
      <3>2. /\ Count(Pending', RxDone(d)) = Count(Pending, RxDone(d))
            /\ Count(sq', {Rx(d)}) = Count(sq, {Rx(d)}) /\ armed'[d] = armed[d]
        BY <1>1, <3>1, Handler
      <3> QED
        BY Zenon, <3>2, CountsDef
    <2> QED
      BY Zenon, <1>1, <1>2, <2>1 DEF Ops, RxCount
  <1>4. AcceptCount' /\ Owned' /\ Sides'
    BY Zenon, <1>1, <1>2, RxHandled DEF Ops, Owned, Sides
  <1> QED
    BY Zenon, <1>1, <1>2, <1>3, <1>4, HandledInv DEF Ops

\* What the kernel finds when it posts a completion.
LEMMA Posting ==
    ASSUME ZcrxInv, NEW e \in Cqes, pc = "wait", count' = count, cq' = Append(cq, e),
           e.op = "ACCEPT" => IF e.res = "positive" THEN e.conn \in Fds ELSE e.conn = Sock
    PROVE  /\ Ops /\ accepting \in Nat /\ armed \in [Conns -> Nat]
           /\ \A M : Count(sq, M) \in Nat /\ Count(Pending, M) \in Nat
           /\ \A M : Count(Pending', M) = Count(Pending, M) + (IF e \in M THEN 1 ELSE 0)
           /\ Arrivals'
  <1>1. Ops /\ TypeOK /\ accepting \in Nat /\ armed \in [Conns -> Nat]
    BY Zenon DEF ZcrxInv, InLoop, TypeInv, TypeOK
  <1>2. /\ \A M : Count(Pending', M) = Count(Pending, M) + (IF e \in M THEN 1 ELSE 0)
        /\ \A i \in DOMAIN Pending' :
              Pending'[i] = e \/ \E j \in DOMAIN Pending : Pending'[i] = Pending[j]
    BY Zenon, <1>1, PostedCount
  <1>3. Arrivals'
    BY Zenon, <1>1, <1>2 DEF Ops, Arrivals
  <1> QED
    BY Zenon, <1>1, <1>2, <1>3, CountsType

\* A step outside the handlers that keeps the operations.
LEMMA PostedInv ==
    ASSUME ZcrxInv, TypeInv', Ops', InLoop, InLoop'
    PROVE  ZcrxInv'
  BY Zenon DEF ZcrxInv, InLoop, SqeAvailable, Fresh, Starting, HeldSoFar, ReturnsClean

LEMMA KernelAcceptStep ==
    ASSUME ZcrxInv, TypeInv', KernelAccept
    PROVE  ZcrxInv'
  <1>1. PICK c \in Conns, r \in {"positive", "error"} :
            /\ IF r = "positive" THEN c \in Fds \ open ELSE c = Sock
            /\ open' = IF r = "positive" THEN open \cup {c} ELSE open
            /\ Post("ACCEPT", c, r, FALSE, {})
    BY Zenon DEF KernelAccept, Conns
  <1> DEFINE e == [op |-> "ACCEPT", conn |-> c, res |-> r, more |-> FALSE, buf |-> {}]
  <1>2. /\ e \in Cqes /\ e.op = "ACCEPT" /\ e.conn = c /\ e.res = r
        /\ cq' = Append(cq, e) /\ count' = count /\ pc = "wait"
        /\ UNCHANGED <<role, pc, stop, peer_closed, conns, sq>>
    BY Zenon, <1>1 DEF Cqes, Post
  <1>3. accepting > 0 /\ accepting' = accepting - 1 /\ armed' = armed
    BY Zenon DEF KernelAccept
  <1> HIDE DEF e
  <1>4. /\ Ops /\ accepting \in Nat /\ armed \in [Conns -> Nat]
        /\ \A M : Count(sq, M) \in Nat /\ Count(Pending, M) \in Nat
        /\ \A M : Count(Pending', M) = Count(Pending, M) + (IF e \in M THEN 1 ELSE 0)
        /\ Arrivals'
    BY Zenon, <1>1, <1>2, Posting
  <1>5. AcceptCount'
    <2>1. Count(Pending', AcceptDone) = Count(Pending, AcceptDone) + 1
      BY Zenon, <1>2, <1>4, Sets
    <2>2. Accepts' = Accepts
      BY <1>2, <1>3, <1>4, <2>1, CountsDef
    <2> QED
      BY Zenon, <1>2, <1>4, <2>2 DEF Ops, AcceptCount
  <1>6. RxCount'
    <2>1. ASSUME NEW d \in Conns PROVE Receives(d)' = Receives(d)
      <3>1. Count(Pending', RxDone(d)) = Count(Pending, RxDone(d))
        BY <1>2, <1>4, Sets
      <3> QED
        BY Zenon, <1>2, <1>3, <3>1, CountsDef
    <2> QED
      BY Zenon, <1>2, <1>4, <2>1 DEF Ops, RxCount
  <1>7. Owned'
    <2> SUFFICES ASSUME NEW f \in Fds
                 PROVE  /\ Count(Pending', Opened(f)) =
                              IF f \in open' /\ f \notin conns' THEN 1 ELSE 0
                        /\ f \in conns' => f \in open'
      BY Zenon DEF Owned
    <2>1. Count(Pending', Opened(f)) = Count(Pending, Opened(f)) + (IF f = c THEN 1 ELSE 0)
      BY Zenon, <1>2, <1>4, Sets
    <2>2. /\ Count(Pending, Opened(f)) = IF f \in open /\ f \notin conns THEN 1 ELSE 0
          /\ f \in conns => f \in open
      BY Zenon, <1>4 DEF Ops, Owned
    <2>3. f = c => r = "positive" /\ f \notin open
      BY Zenon, <1>1, ZcrxAssumption
    <2> QED
      BY <1>1, <1>2, <2>1, <2>2, <2>3
  <1>8. Sides'
    BY Zenon, <1>2, <1>4 DEF Ops, Sides
  <1> QED
    BY Zenon, <1>2, <1>4, <1>5, <1>6, <1>7, <1>8, PostedInv DEF Ops, InLoop

LEMMA KernelRecvStep ==
    ASSUME ZcrxInv, TypeInv', KernelRecv
    PROVE  ZcrxInv'
  <1>1. PICK c \in Conns, r \in {"positive", "nospc", "nomem", "error"}, m \in BOOLEAN,
             b \in SUBSET Bufs :
            /\ Post("RECV_ZC", c, r, m, b)
            /\ armed[c] > 0
            /\ armed' = IF m THEN armed ELSE [armed EXCEPT ![c] = @ - 1]
            /\ UNCHANGED <<accepting, open>>
    <2>1. PICK c \in Conns :
              /\ armed[c] > 0
              /\ \/ \E b \in pool : /\ Post("RECV_ZC", c, "positive", TRUE, {b})
                                    /\ armed' = armed
                 \/ \E r \in {"nospc", "nomem", "error"} :
                      /\ Post("RECV_ZC", c, r, FALSE, {})
                      /\ armed' = [armed EXCEPT ![c] = @ - 1]
              /\ UNCHANGED <<accepting, open>>
      BY Zenon DEF KernelRecv
    <2>2. CASE \E b \in pool : Post("RECV_ZC", c, "positive", TRUE, {b}) /\ armed' = armed
      <3>1. PICK b \in pool : Post("RECV_ZC", c, "positive", TRUE, {b}) /\ armed' = armed
        BY Zenon, <2>2
      <3>2. {b} \in SUBSET Bufs
        BY Zenon DEF ZcrxInv, TypeInv, TypeOK
      <3> QED
        BY Zenon, <2>1, <3>1, <3>2
    <2>3. CASE \E r \in {"nospc", "nomem", "error"} :
                  /\ Post("RECV_ZC", c, r, FALSE, {})
                  /\ armed' = [armed EXCEPT ![c] = @ - 1]
      <3>1. {} \in SUBSET Bufs
        BY Zenon
      <3> QED
        BY Zenon, <2>1, <2>3, <3>1
    <2> QED
      BY Zenon, <2>1, <2>2, <2>3
  <1> DEFINE e == [op |-> "RECV_ZC", conn |-> c, res |-> r, more |-> m, buf |-> b]
  <1>2. /\ e \in Cqes /\ e.op = "RECV_ZC" /\ e.conn = c /\ e.more = m
        /\ cq' = Append(cq, e) /\ count' = count /\ pc = "wait"
        /\ UNCHANGED <<role, pc, stop, peer_closed, conns, sq>>
    BY Zenon, <1>1 DEF Cqes, Post
  <1> HIDE DEF e
  <1>3. /\ Ops /\ accepting \in Nat /\ armed \in [Conns -> Nat]
        /\ \A M : Count(sq, M) \in Nat /\ Count(Pending, M) \in Nat
        /\ \A M : Count(Pending', M) = Count(Pending, M) + (IF e \in M THEN 1 ELSE 0)
        /\ Arrivals'
    BY Zenon, <1>2, Posting
  <1>4. /\ Count(Pending', AcceptDone) = Count(Pending, AcceptDone)
        /\ \A f \in Fds : Count(Pending', Opened(f)) = Count(Pending, Opened(f))
    <2>1. e \notin AcceptDone /\ \A f \in Fds : e \notin Opened(f)
      BY Zenon, <1>2, Sets
    <2> QED
      BY <1>3, <2>1
  <1>5. AcceptCount'
    <2>1. Accepts' = Accepts
      BY Zenon, <1>1, <1>2, <1>4, CountsDef
    <2> QED
      BY Zenon, <1>2, <1>3, <2>1 DEF Ops, AcceptCount
  <1>6. RxCount'
    <2>1. ASSUME NEW d \in Conns PROVE Receives(d)' = Receives(d)
      <3>1. Count(Pending', RxDone(d)) =
                Count(Pending, RxDone(d)) + (IF d = c /\ ~m THEN 1 ELSE 0)
        BY Zenon, <1>2, <1>3, Sets
      <3>2. armed'[d] = armed[d] - (IF d = c /\ ~m THEN 1 ELSE 0)
        BY <1>1, <1>3
      <3>3. /\ Count(sq, {Rx(d)}) \in Nat /\ armed[d] \in Nat
            /\ Count(Pending, RxDone(d)) \in Nat
        BY Zenon, <1>3
      <3>4. /\ Receives(d) = Count(sq, {Rx(d)}) + armed[d] + Count(Pending, RxDone(d))
            /\ Receives(d)' = Count(sq, {Rx(d)}) + armed'[d] + Count(Pending', RxDone(d))
        BY Zenon, <1>2, CountsDef
      <3> QED
        BY <3>1, <3>2, <3>3, <3>4
    <2> QED
      BY Zenon, <1>2, <1>3, <2>1 DEF Ops, RxCount
  <1>7. Owned' /\ Sides'
    BY Zenon, <1>1, <1>2, <1>3, <1>4 DEF Ops, Owned, Sides
  <1> QED
    BY Zenon, <1>2, <1>3, <1>5, <1>6, <1>7, PostedInv DEF Ops, InLoop

LEMMA OpsKept ==
    ASSUME Ops, UNCHANGED <<role, peer_closed, open, conns, sq, accepting, armed>>,
           Pending' = Pending, stop => stop'
    PROVE  Ops'
  <1>1. Accepts' = Accepts /\ \A c \in Conns : Receives(c)' = Receives(c)
    BY Zenon, CountsDef
  <1> QED
    BY Zenon, <1>1 DEF Ops, AcceptCount, RxCount, Sides, Arrivals, Owned

LEMMA SetupStep ==
    ASSUME ZcrxInv, TypeInv', Start \/ Ready
    PROVE  ZcrxInv'
  <1>1. CASE Start
    <2>1. pc \in Starting /\ pc' \in (Starting \ {"listen"}) \cup {"done"}
      BY Zenon, <1>1 DEF Start, zcrx_setup, Acquire, Fails, MmapAreaFails, Starting
    <2>2. UNCHANGED <<peer_closed, open, conns, sq, accepting, armed, cq>>
      BY Zenon, <1>1 DEF Start, kernel
    <2>3. Fresh' /\ SqeAvailable' /\ ~InLoop' /\ conns' = {}
      BY Zenon, <2>1, <2>2 DEF ZcrxInv, Fresh, Starting, SqeAvailable, InLoop
    <2>4. HeldSoFar' /\ (pc' = "done" => held' = {})
      BY Zenon, <1>1
         DEF Start, zcrx_setup, Acquire, Fails, MmapAreaFails, ZcrxInv, HeldSoFar,
                  Callers, TypeInv, TypeOK
    <2> QED
      BY Zenon, <2>3, <2>4 DEF ZcrxInv, ReturnsClean
  <1>2. CASE Ready
    <2>1. /\ pc = "ready" /\ pc' = "loop" /\ count = 0
          /\ UNCHANGED <<role, peer_closed, open, sq, cq, count>>
          /\ \/ role = "server" /\ accepting' = 1 /\ armed' = armed /\ conns' = conns
             \/ /\ role = "client" /\ armed' = [armed EXCEPT ![Sock] = 1]
                /\ conns' = {Sock} /\ accepting' = accepting
      BY Zenon, <1>2 DEF Ready, ZcrxInv, TypeInv, BatchStart
    <2>2. /\ sq = <<>> /\ cq = <<>> /\ accepting = 0 /\ conns = {} /\ open = {}
          /\ ~peer_closed /\ \A c \in Conns : armed[c] = 0
          /\ armed \in [Conns -> Nat]
      BY Zenon, <2>1 DEF ZcrxInv, Fresh, Starting, TypeInv, TypeOK
    <2>3. sq' = <<>> /\ Pending' = <<>>
      BY <2>1, <2>2 DEF Pending
    <2>4. \A M : Count(sq', M) = 0 /\ Count(Pending', M) = 0
      BY Zenon, <2>3, CountEmpty
    <2>5. AcceptCount'
      BY <2>1, <2>2, <2>4, CountsDef DEF AcceptCount
    <2>6. RxCount'
      <3>1. \A c \in Conns : armed'[c] = IF c \in conns' THEN 1 ELSE 0
        BY Zenon, <2>1, <2>2 DEF Conns
      <3>2. \A c \in Conns : Receives(c)' = 0 + armed'[c] + 0
        BY Zenon, <2>4, CountsDef
      <3> QED
        BY <2>1, <2>2, <3>1, <3>2 DEF RxCount
    <2>7. Sides' /\ Arrivals'
      BY <2>1, <2>2, <2>3 DEF Sides, Arrivals
    <2>8. Owned'
      BY Zenon, <2>1, <2>2, <2>4, ZcrxAssumption DEF Owned
    <2> QED
      BY Zenon, <2>1, <2>5, <2>6, <2>7, <2>8
      DEF ZcrxInv, Ops, SqeAvailable, Fresh, Starting, HeldSoFar, ReturnsClean
  <1> QED
    BY Zenon, <1>1, <1>2

LEMMA SubmitStep ==
    ASSUME ZcrxInv, TypeInv', SubmitAndWait
    PROVE  ZcrxInv'
  <1>1. /\ pc = "loop" /\ pc' = "wait" /\ sq' = <<>> /\ cq' = cq /\ count' = count
        /\ UNCHANGED <<role, stop, peer_closed, open, conns>>
        /\ accepting' = accepting + Count(sq, {Accept})
        /\ armed' = [c \in Conns |-> armed[c] + Count(sq, {Rx(c)})]
    BY Zenon DEF SubmitAndWait, Count
  <1>2. Ops /\ TypeOK /\ accepting \in Nat /\ armed \in [Conns -> Nat]
    BY Zenon, <1>1 DEF ZcrxInv, InLoop, TypeInv, TypeOK
  <1>3. Pending' = Pending
    BY Zenon, <1>1 DEF Pending
  <1>4. \A M : Count(sq', M) = 0 /\ Count(sq, M) \in Nat /\ Count(Pending, M) \in Nat
    BY Zenon, <1>1, <1>2, CountEmpty, CountsType
  <1>5. Accepts' = Accepts
    BY <1>1, <1>2, <1>3, <1>4, CountsDef
  <1>6. ASSUME NEW c \in Conns PROVE Receives(c)' = Receives(c)
    <2>1. /\ armed'[c] = armed[c] + Count(sq, {Rx(c)}) /\ armed[c] \in Nat
          /\ Count(sq, {Rx(c)}) \in Nat /\ Count(Pending, RxDone(c)) \in Nat
      BY Zenon, <1>1, <1>2, <1>4
    <2>2. /\ Receives(c) = Count(sq, {Rx(c)}) + armed[c] + Count(Pending, RxDone(c))
          /\ Receives(c)' = 0 + armed'[c] + Count(Pending, RxDone(c))
      BY Zenon, <1>3, <1>4, CountsDef
    <2> QED
      BY <2>1, <2>2
  <1>7. Ops'
    BY Zenon, <1>1, <1>2, <1>3, <1>5, <1>6
    DEF Ops, AcceptCount, RxCount, Sides, Arrivals, Owned
  <1> QED
    BY Zenon, <1>1, <1>7, PostedInv DEF InLoop

LEMMA ZcrxInit == Init => ZcrxInv
  <1> SUFFICES ASSUME Init PROVE ZcrxInv
    BY Zenon
  <1>1. pc \in {"listen", "queue_init"} /\ held = {}
    BY Zenon DEF Init
  <1>2. Fresh
    BY Zenon DEF Init, Fresh
  <1> QED
    BY Zenon, <1>1, <1>2, TypeInit
       DEF ZcrxInv, SqeAvailable, InLoop, HeldSoFar, ReturnsClean

LEMMA ZcrxStep == ZcrxInv /\ [Next]_vars => ZcrxInv'
  <1> SUFFICES ASSUME ZcrxInv, [Next]_vars PROVE ZcrxInv'
    BY Zenon
  <1>1. TypeInv'
    BY Zenon, TypeStep DEF ZcrxInv
  <1>2. CASE Start \/ Ready
    BY Zenon, <1>1, <1>2, SetupStep
  <1>3. CASE SubmitAndWait
    BY Zenon, <1>1, <1>3, SubmitStep
  <1>4. CASE LeaveLoop
    BY Zenon, <1>1, <1>4
    DEF LeaveLoop, ZcrxInv, SqeAvailable, InLoop, Fresh, Starting, HeldSoFar, ReturnsClean
  <1>5. CASE WaitDone
    <2>1. Pending' = Pending /\ UNCHANGED <<role, stop, peer_closed, open, conns, sq,
                                            accepting, armed>>
      BY Zenon, <1>5 DEF WaitDone, Pending, kernel
    <2>2. Ops'
      BY <1>5, <2>1, OpsKept DEF WaitDone, ZcrxInv, InLoop
    <2> QED
      BY Zenon, <1>1, <1>5, <2>2
      DEF WaitDone, ZcrxInv, SqeAvailable, Fresh, Starting, HeldSoFar, ReturnsClean
  <1>6. CASE BatchEnd
    <2>1. Pending' = Pending
      BY Zenon, <1>6, PendingKept DEF BatchEnd, ZcrxInv, TypeInv
    <2>2. Ops'
      BY Zenon, <1>6, <2>1, OpsKept DEF BatchEnd, kernel, ZcrxInv, InLoop
    <2> QED
      BY Zenon, <1>1, <1>6, <2>2, PostedInv DEF BatchEnd, InLoop
  <1>7. CASE Exit
    <2>1. held' = {}
      BY Zenon, <1>7 DEF Exit, ZcrxInv, TypeInv, TypeOK
    <2> QED
      BY Zenon, <1>1, <1>7, <2>1
      DEF Exit, ZcrxInv, SqeAvailable, InLoop, Fresh, Starting, HeldSoFar, ReturnsClean
  <1>8. CASE HandleAccept \/ HandleAcceptError \/ HandleRecoverable \/ HandleRxEnd \/ HandleData
    BY Zenon, <1>1, <1>8, AcceptStep, AcceptErrorStep, RecoverableStep, RxEndStep,
       DataStep
  <1>9. CASE KernelAccept \/ KernelRecv
    BY Zenon, <1>1, <1>9, KernelAcceptStep, KernelRecvStep
  <1>10. CASE KernelRefill \/ StopSignal \/ Terminated \/ UNCHANGED vars
    <2>1. /\ UNCHANGED <<role, pc, peer_closed, held, open, conns, sq, accepting, armed,
                         cq, count>>
          /\ stop => stop'
      BY <1>10 DEF KernelRefill, StopSignal, Terminated, vars, kernel
    <2>2. Pending' = Pending
      BY Zenon, <2>1 DEF Pending
    <2>3. InLoop' => Ops'
      BY Zenon, <2>1, <2>2, OpsKept DEF ZcrxInv, InLoop
    <2> QED
      BY Zenon, <1>1, <2>1, <2>3
         DEF ZcrxInv, SqeAvailable, Fresh, HeldSoFar, ReturnsClean
  <1> QED
    BY Zenon, <1>2, <1>3, <1>4, <1>5, <1>6, <1>7, <1>8, <1>9, <1>10 DEF Next, Worker

\* For every number of connections and every size of the completion queue, with
\* a submission queue deeper than the number of descriptors: the zero-copy
\* server keeps exactly one accept until the stop signal, and every connection
\* exactly one receive that never outlives it, also when a receive ends with
\* -ENOSPC or -ENOMEM.
THEOREM ZcrxOneOperationEach == Spec => []OneOperationEach
  <1>1. ZcrxInv => OneOperationEach
    BY Zenon DEF ZcrxInv, Ops, AcceptCount, RxCount, OneOperationEach
  <1> QED
    BY <1>1, ZcrxInit, ZcrxStep, PTL DEF Spec

\* With that many entries get_sqe() never returns null to zcrx_submit_accept() or
\* zcrx_submit_recv(), which would write through it.
THEOREM ZcrxSqeAvailable == Spec => []SqeAvailable
  <1>1. ZcrxInv => SqeAvailable
    BY Zenon DEF ZcrxInv
  <1> QED
    BY <1>1, ZcrxInit, ZcrxStep, PTL DEF Spec

\* Every accepted descriptor has one owner: a connection, or one completion that
\* is still to be handled.
THEOREM ZcrxFdsOwned == Spec => []FdsOwned
  <1>1. ZcrxInv => FdsOwned
    <2> SUFFICES ASSUME ZcrxInv, InLoop, NEW f \in Fds
                 PROVE  Cardinality({f} \cap conns) + Count(Pending, Opened(f)) =
                            Cardinality({f} \cap open)
      BY Zenon DEF FdsOwned, Count, Opened
    <2>1. \A S : Cardinality({f} \cap S) = IF f \in S THEN 1 ELSE 0
      <3> TAKE S
      <3>1. {f} \cap S = IF f \in S THEN {f} ELSE {}
        BY Zenon
      <3> QED
        BY Zenon, <3>1, FS_Singleton, FS_EmptySet
    <2>2. /\ Count(Pending, Opened(f)) = IF f \in open /\ f \notin conns THEN 1 ELSE 0
          /\ f \in conns => f \in open
      BY Zenon DEF ZcrxInv, Ops, Owned
    <2> QED
      BY <2>1, <2>2
  <1> QED
    BY <1>1, ZcrxInit, ZcrxStep, PTL DEF Spec

\* Whichever step of the set-up fails and however the loop ends, the worker
\* returns without a mapping, a ring, a listening socket or a connection.
THEOREM ZcrxReturnsClean == Spec => []ReturnsClean
  <1>1. ZcrxInv => ReturnsClean
    BY Zenon DEF ZcrxInv
  <1> QED
    BY <1>1, ZcrxInit, ZcrxStep, PTL DEF Spec

--------------------------------------------------------------------------------
(* The refill queue *)

\* Division as the integers have it.
LEMMA DivMod ==
    ASSUME NEW m \in Nat \ {0}, NEW a \in Nat
    PROVE  /\ a \div m \in Nat
           /\ a % m \in 0..(m - 1)
           /\ a = m * (a \div m) + (a % m)
  OBVIOUS

\* Two numbers that differ by less than m have different remainders.
LEMMA ModApart ==
    ASSUME NEW m \in Nat \ {0}, NEW a \in Nat, NEW b \in Nat, a < b, b < a + m
    PROVE  a % m # b % m
  <1> SUFFICES ASSUME a % m = b % m PROVE FALSE
    BY Zenon
  <1> DEFINE c == a \div m
             d == b \div m
             r == a % m
             mc == m * c
             md == m * d
  <1>1. c \in Nat /\ d \in Nat /\ r \in 0..(m - 1) /\ a = mc + r /\ b = md + r
    BY Zenon, DivMod
  <1> HIDE DEF c, d, r
  <1>2. mc \in Nat /\ md \in Nat
    BY <1>1
  <1>3. CASE d =< c
    <2>1. c - d \in Nat
      BY <1>1, <1>3
    <2> DEFINE x == m * (c - d)
    <2>2. x \in Nat /\ mc = md + x
      BY <1>1, <2>1
    <2> HIDE DEF x, mc, md
    <2> QED
      BY <1>1, <1>2, <2>2
  <1>4. CASE d > c
    <2>1. d - c - 1 \in Nat
      BY <1>1, <1>4
    <2> DEFINE x == m * (d - c - 1)
    <2>2. x \in Nat /\ md = mc + m + x
      BY <1>1, <2>1
    <2> HIDE DEF x, mc, md
    <2> QED
      BY <1>1, <1>2, <2>2
  <1> QED
    BY <1>1, <1>3, <1>4

\* Taking off a multiple of m keeps the remainder.
LEMMA ModMultiple ==
    ASSUME NEW m \in Nat \ {0}, NEW n \in Nat, NEW a \in Nat, n % m = 0, a >= n
    PROVE  (a - n) % m = a % m
  <1> DEFINE k == n \div m
             b == a - n
             c == a \div m
             r == a % m
             d == b \div m
             s == b % m
             mk == m * k
             mc == m * c
             md == m * d
  <1>1. k \in Nat /\ n = mk
    BY DivMod
  <1>2. c \in Nat /\ r \in 0..(m - 1) /\ a = mc + r
    BY Zenon, DivMod
  <1>b. b \in Nat
    OBVIOUS
  <1>e. a = b + n
    OBVIOUS
  <1> HIDE DEF b
  <1>3. d \in Nat /\ s \in 0..(m - 1) /\ b = md + s
    BY Zenon, <1>b, DivMod
  <1> HIDE DEF k, c, r, d, s
  <1> DEFINE e == d + k
             me == m * e
  <1>4. me = md + mk /\ e \in Nat /\ mc \in Nat /\ me \in Nat /\ md \in Nat /\ mk \in Nat
    BY <1>1, <1>2, <1>3
  <1>5. mc + r = me + s
    <2> HIDE DEF mc, md, mk, me
    <2> QED
      BY <1>1, <1>2, <1>3, <1>4, <1>e
  <1>6. CASE c < e
    <2>1. e - c - 1 \in Nat
      BY <1>2, <1>4, <1>6
    <2> DEFINE x == m * (e - c - 1)
    <2>2. x \in Nat /\ me = mc + m + x
      BY <1>2, <1>4, <2>1
    <2> HIDE DEF x, mc, me
    <2> QED
      BY <1>2, <1>3, <1>4, <1>5, <2>2
  <1>7. CASE c > e
    <2>1. c - e - 1 \in Nat
      BY <1>2, <1>4, <1>7
    <2> DEFINE x == m * (c - e - 1)
    <2>2. x \in Nat /\ mc = me + m + x
      BY <1>2, <1>4, <2>1
    <2> HIDE DEF x, mc, me
    <2> QED
      BY <1>2, <1>3, <1>4, <1>5, <2>2
  <1>8. CASE c = e
    <2>1. mc = me
      BY Zenon, <1>8
    <2> HIDE DEF mc, me
    <2> QED
      BY <1>2, <1>3, <1>4, <1>5, <2>1 DEF b, r, s
  <1>9. c < e \/ c > e \/ c = e
    BY <1>2, <1>4
  <1> QED
    BY Zenon, <1>6, <1>7, <1>8, <1>9

\* What the counters of the refill queue compute, as 32-bit numbers do.
LEMMA Wrap ==
    ASSUME NEW x \in Int
    PROVE  /\ x \in 0..(Word - 1) => x % Word = x
           /\ x \in Word..(2 * Word - 1) => x % Word = x - Word
           /\ x < 0 /\ x >= -Word => x % Word = x + Word
  <1>1. Word \in Nat \ {0}
    BY ZcrxAssumption
  <1> QED
    BY <1>1

\* The slots of n entries from counter k on.
Ring(k, n) == {(k + i) % RqEntries : i \in 0..(n - 1)}

\* Wrapping a counter does not move its slot.
LEMMA SlotOfCounter ==
    ASSUME NEW x \in 0..(2 * Word - 1)
    PROVE  (x % Word) % RqEntries = x % RqEntries
  <1>1. RqEntries \in Nat \ {0} /\ Word \in Nat /\ Word % RqEntries = 0 /\ x \in Nat
    BY ZcrxAssumption
  <1>2. CASE x < Word
    BY <1>1, <1>2, Wrap
  <1>3. CASE x >= Word
    <2>1. x % Word = x - Word
      BY <1>1, <1>3, Wrap
    <2>2. (x - Word) % RqEntries = x % RqEntries
      BY Zenon, <1>1, <1>3, ModMultiple
    <2> QED
      BY Zenon, <2>1, <2>2
  <1> QED
    BY <1>1, <1>2, <1>3

LEMMA RingSlots ==
    ASSUME NEW k \in Nat, NEW n \in Nat
    PROVE  Ring(k, n) \subseteq 0..(RqEntries - 1) /\ IsFiniteSet(Ring(k, n))
  <1>1. RqEntries \in Nat \ {0}
    BY Zenon, ZcrxAssumption
  <1>2. \A i \in 0..(n - 1) : k + i \in Nat
    OBVIOUS
  <1>3. Ring(k, n) \subseteq 0..(RqEntries - 1)
    BY Zenon, <1>1, <1>2, DivMod DEF Ring
  <1>4. IsFiniteSet(0..(RqEntries - 1))
    BY <1>1, FS_Interval
  <1> QED
    BY Zenon, <1>3, <1>4, FS_Subset

\* An entry more takes a slot of its own as long as the queue is not full.
LEMMA RingPush ==
    ASSUME NEW k \in Nat, NEW n \in 0..(RqEntries - 1)
    PROVE  /\ Ring(k, n + 1) = Ring(k, n) \cup {(k + n) % RqEntries}
           /\ (k + n) % RqEntries \notin Ring(k, n)
  <1>1. RqEntries \in Nat \ {0}
    BY Zenon, ZcrxAssumption
  <1>2. 0..((n + 1) - 1) = 0..(n - 1) \cup {n}
    BY <1>1
  <1>3. ASSUME NEW i \in 0..(n - 1) PROVE (k + i) % RqEntries # (k + n) % RqEntries
    <2>1. k + i \in Nat /\ k + n \in Nat /\ k + i < k + n /\ k + n < k + i + RqEntries
      BY <1>1
    <2> QED
      BY Zenon, <1>1, <2>1, ModApart
  <1>4. Ring(k, n + 1) = Ring(k, n) \cup {(k + n) % RqEntries}
    <2>1. \A x : x \in Ring(k, n + 1) <=> \E i \in 0..((n + 1) - 1) : x = (k + i) % RqEntries
      BY Zenon DEF Ring
    <2>2. \A x : x \in Ring(k, n) <=> \E i \in 0..(n - 1) : x = (k + i) % RqEntries
      BY Zenon DEF Ring
    <2>3. \A x : x \in Ring(k, n + 1) <=> x \in Ring(k, n) \cup {(k + n) % RqEntries}
      BY <1>2, <2>1, <2>2, Zenon
    <2> QED
      BY <2>3, Zenon
  <1> QED
    BY <1>3, <1>4, Zenon DEF Ring

\* Taking the oldest entry takes its slot and no other.
LEMMA RingPop ==
    ASSUME NEW k \in 0..(Word - 1), NEW n \in 1..RqEntries
    PROVE  /\ k % RqEntries \in Ring(k, n)
           /\ Ring((k + 1) % Word, n - 1) = Ring(k, n) \ {k % RqEntries}
  <1>1. /\ RqEntries \in Nat \ {0} /\ Word \in Nat /\ Word > RqEntries
        /\ k \in Nat /\ n \in Nat /\ n >= 1 /\ n =< RqEntries
    BY ZcrxAssumption
  <1>2. 0 \in 0..(n - 1) /\ (k + 0) % RqEntries = k % RqEntries
    BY <1>1
  <1>3. k % RqEntries \in Ring(k, n)
    BY Zenon, <1>2 DEF Ring
  <1> DEFINE j == (k + 1) % Word
  <1>4. j \in Nat /\ (j = k + 1 \/ (j = 0 /\ k + 1 = Word))
    BY <1>1, Wrap
  <1>5. ASSUME NEW i \in 0..(n - 2) PROVE (j + i) % RqEntries = (k + (i + 1)) % RqEntries
    <2>1. CASE j = k + 1
      <3>1. j + i = k + (i + 1)
        BY <1>1, <2>1
      <3> QED
        BY Zenon, <3>1
    <2>2. CASE j = 0 /\ k + 1 = Word
      <3>1. /\ k + (i + 1) \in 0..(2 * Word - 1)
            /\ k + (i + 1) \in Word..(2 * Word - 1)
            /\ (k + (i + 1)) - Word = j + i
        BY <1>1, <2>2
      <3>2. (k + (i + 1)) % Word = (k + (i + 1)) - Word
        <4> DEFINE y == k + (i + 1)
        <4>1. y \in Int /\ y \in Word..(2 * Word - 1)
          BY <3>1
        <4> HIDE DEF y
        <4>2. y % Word = y - Word
          BY Zenon, <4>1, Wrap
        <4> QED
          BY <4>2, Zenon DEF y
      <3>3. ((k + (i + 1)) % Word) % RqEntries = (k + (i + 1)) % RqEntries
        BY Zenon, <3>1, SlotOfCounter
      <3> QED
        BY Zenon, <3>1, <3>2, <3>3
    <2> QED
      BY Zenon, <1>4, <2>1, <2>2
  <1> HIDE DEF j
  <1>6. ASSUME NEW i \in 1..(n - 1) PROVE (k + i) % RqEntries # k % RqEntries
    <2>1. k + i \in Nat /\ k < k + i /\ k + i < k + RqEntries
      BY <1>1
    <2> QED
      BY Zenon, <1>1, <2>1, ModApart
  <1>7. ASSUME NEW x \in Ring(j, n - 1) PROVE x \in Ring(k, n) \ {k % RqEntries}
    <2>1. PICK i \in 0..(n - 1 - 1) : x = (j + i) % RqEntries
      BY Zenon DEF Ring
    <2>2. i \in 0..(n - 2) /\ i + 1 \in 1..(n - 1) /\ i + 1 \in 0..(n - 1)
      BY <1>1
    <2>3. x = (k + (i + 1)) % RqEntries
      BY Zenon, <1>5, <2>1, <2>2
    <2> QED
      BY <1>6, <2>2, <2>3, Zenon DEF Ring
  <1>8. ASSUME NEW x \in Ring(k, n), x # k % RqEntries PROVE x \in Ring(j, n - 1)
    <2>1. PICK i \in 0..(n - 1) : x = (k + i) % RqEntries
      BY Zenon DEF Ring
    <2>2. i # 0
      BY Zenon, <1>2, <1>8, <2>1
    <2>3. i - 1 \in 0..(n - 2) /\ i - 1 \in 0..(n - 1 - 1) /\ (i - 1) + 1 = i
      BY <1>1, <2>2
    <2>4. x = (j + (i - 1)) % RqEntries
      BY Zenon, <1>5, <2>1, <2>3
    <2> QED
      BY <2>3, <2>4, Zenon DEF Ring
  <1>9. Ring(j, n - 1) = Ring(k, n) \ {k % RqEntries}
    BY Zenon, <1>7, <1>8
  <1> QED
    BY Zenon, <1>3, <1>9 DEF j

\* n entries, no more than the queue has slots, are in n slots.
LEMMA RingSize ==
    ASSUME NEW k \in Nat, NEW n \in 0..RqEntries
    PROVE  \E f \in Injection(1..n, Ring(k, n)) : TRUE
  <1> DEFINE f == [i \in 1..n |-> (k + (i - 1)) % RqEntries]
  <1>1. RqEntries \in Nat \ {0}
    BY Zenon, ZcrxAssumption
  <1>2. f \in [1..n -> Ring(k, n)]
    <2> SUFFICES ASSUME NEW i \in 1..n PROVE (k + (i - 1)) % RqEntries \in Ring(k, n)
      BY Zenon
    <2>1. i - 1 \in 0..(n - 1)
      BY <1>1
    <2> QED
      BY <2>1, Zenon DEF Ring
  <1>3. ASSUME NEW i \in 1..n, NEW j \in 1..n, i < j PROVE f[i] # f[j]
    <2>1. /\ k + (i - 1) \in Nat /\ k + (j - 1) \in Nat /\ k + (i - 1) < k + (j - 1)
          /\ k + (j - 1) < k + (i - 1) + RqEntries
      BY <1>1, <1>3
    <2>2. (k + (i - 1)) % RqEntries # (k + (j - 1)) % RqEntries
      BY Zenon, <1>1, <2>1, ModApart
    <2> QED
      BY Zenon, <2>2
  <1> HIDE DEF f
  <1>4. \A i, j \in 1..n : f[i] = f[j] => i = j
    BY <1>1, <1>3
  <1>5. f \in Injection(1..n, Ring(k, n))
    BY Zenon, <1>2, <1>4 DEF Injection, IsInjective
  <1> QED
    BY Zenon, <1>5

--------------------------------------------------------------------------------
(* The buffers *)

Holding(b) == {e \in Cqes : b \in e.buf}

\* The slots of the refill queue that hold buffer b.
Slotted(b) == {i \in Queued : b \in rqes[i]}

\* In how many places buffer b is.
Once(b, S) == IF b \in S THEN 1 ELSE 0

InSlots(b) == Cardinality(Slotted(b))

InPending(b) == Count(Pending, Holding(b))

Places(b) == Once(b, pool) + Once(b, lost) + InSlots(b) + InPending(b)

\* Data comes with one buffer, every other completion with none.
Loaded ==
    \A i \in DOMAIN Pending :
        LET e == Pending[i]
        IN  IF e.op = "RECV_ZC" /\ e.more THEN \E b \in Bufs : e.buf = {b} ELSE e.buf = {}

Filled == \A i \in Queued : \E b \in Bufs : rqes[i] = {b}

Buffers ==
    /\ zcrx_rq_nr_queued =< RqEntries
    /\ Filled
    /\ Loaded
    /\ \A b \in Bufs : Places(b) = 1

BufferInv == (pc # "done" => Buffers) /\ NeverStarved

\* The counters and the slots of a well-typed state.
LEMMA QueuedIs ==
    ASSUME TypeOK, TypeOK'
    PROVE  /\ Queued = Ring(khead, zcrx_rq_nr_queued)
           /\ Queued' = Ring(khead', zcrx_rq_nr_queued')
           /\ zcrx_rq_nr_queued \in 0..(Word - 1) /\ zcrx_rq_nr_queued' \in 0..(Word - 1)
           /\ Queued \subseteq 0..(RqEntries - 1) /\ IsFiniteSet(Queued)
           /\ Queued' \subseteq 0..(RqEntries - 1) /\ IsFiniteSet(Queued')
  <1>1. /\ khead \in 0..(Word - 1) /\ khead' \in 0..(Word - 1)
        /\ rq_tail \in 0..(Word - 1) /\ rq_tail' \in 0..(Word - 1)
        /\ Word \in Nat \ {0}
    BY ZcrxAssumption DEF TypeOK
  <1>2. Queued = Ring(khead, zcrx_rq_nr_queued) /\ Queued' = Ring(khead', zcrx_rq_nr_queued')
    BY Zenon DEF Queued, Ring
  <1>3. ASSUME NEW x \in Int PROVE x % Word \in 0..(Word - 1)
    BY <1>1
  <1>4. zcrx_rq_nr_queued \in 0..(Word - 1) /\ zcrx_rq_nr_queued' \in 0..(Word - 1)
    <2>1. rq_tail - khead \in Int /\ rq_tail' - khead' \in Int
      BY <1>1
    <2> QED
      BY Zenon, <1>3, <2>1 DEF zcrx_rq_nr_queued
  <1>5. khead \in Nat /\ khead' \in Nat /\ zcrx_rq_nr_queued \in Nat /\ zcrx_rq_nr_queued' \in Nat
    BY <1>1, <1>4
  <1> QED
    BY <1>2, <1>4, <1>5, RingSlots, Zenon

\* The counts of a buffer's places are natural numbers.
LEMMA PlacesIs ==
    ASSUME TypeOK, TypeOK', NEW b
    PROVE  /\ IsFiniteSet(Slotted(b)) /\ IsFiniteSet(Slotted(b)')
           /\ InSlots(b) \in Nat /\ InSlots(b)' \in Nat /\ InPending(b) \in Nat
           /\ \A S : Once(b, S) \in 0..1
           /\ Places(b) = Once(b, pool) + Once(b, lost) + InSlots(b) + InPending(b)
           /\ Places(b)' = Once(b, pool') + Once(b, lost') + InSlots(b)' + InPending(b)'
  <1>1. IsFiniteSet(Slotted(b)) /\ IsFiniteSet(Slotted(b)')
    <2>1. Slotted(b) \subseteq Queued /\ Slotted(b)' \subseteq Queued'
      BY Zenon DEF Slotted
    <2> QED
      BY <2>1, QueuedIs, FS_Subset, Zenon
  <1>2. InSlots(b) \in Nat /\ InSlots(b)' \in Nat
    BY <1>1, FS_CardinalityType, Zenon DEF InSlots
  <1>3. InPending(b) \in Nat
    BY CountsType, Zenon DEF InPending
  <1>4. \A S : Once(b, S) \in 0..1
    BY SMT DEF Once
  <1>5. /\ Places(b) = Once(b, pool) + Once(b, lost) + InSlots(b) + InPending(b)
        /\ Places(b)' = Once(b, pool') + Once(b, lost') + InSlots(b)' + InPending(b)'
    BY Zenon DEF Places, Once
  <1> QED
    BY <1>1, <1>2, <1>3, <1>4, <1>5, Zenon

\* A step that leaves the area, the refill queue and the pending completions.
LEMMA BuffersKept ==
    ASSUME TypeOK, TypeOK', Buffers, UNCHANGED <<pool, lost, rqes, rq_tail, khead>>,
           \A b \in Bufs : Count(Pending', Holding(b)) = Count(Pending, Holding(b)),
           Loaded'
    PROVE  Buffers'
  <1>1. zcrx_rq_nr_queued' = zcrx_rq_nr_queued /\ Queued' = Queued
    BY Zenon DEF zcrx_rq_nr_queued, Queued
  <1>2. Filled'
    BY <1>1, Zenon DEF Buffers, Filled
  <1>3. ASSUME NEW b \in Bufs PROVE Places(b)' = 1
    <2>1. InSlots(b)' = InSlots(b)
      BY <1>1, Zenon DEF InSlots, Slotted
    <2>2. InPending(b)' = InPending(b)
      BY Zenon DEF InPending, Holding
    <2>3. Places(b) = 1
      BY Zenon DEF Buffers
    <2> QED
      BY <2>1, <2>2, <2>3, Zenon DEF Places, Once
  <1> QED
    BY Zenon, <1>1, <1>2, <1>3 DEF Buffers

\* Handling a completion without a buffer.
LEMMA HandledBuffers ==
    ASSUME TypeOK, TypeOK', Buffers, NEW op, Completion(op), cqe.buf = {},
           UNCHANGED <<lost, rqes, rq_tail>>
    PROVE  Buffers'
  <1>1. /\ \A M : Count(Pending', M) = Count(Pending, M) - (IF cqe \in M THEN 1 ELSE 0)
        /\ \A i \in DOMAIN Pending' : \E j \in DOMAIN Pending : Pending'[i] = Pending[j]
    BY Zenon, HandledCount
  <1>2. Loaded'
    BY <1>1 DEF Buffers, Loaded
  <1>3. ASSUME NEW b \in Bufs PROVE Count(Pending', Holding(b)) = Count(Pending, Holding(b))
    <2>1. cqe \notin Holding(b) /\ Count(Pending, Holding(b)) \in Nat
      BY Zenon, CountsType DEF Holding
    <2> QED
      BY <1>1, <2>1
  <1>4. UNCHANGED <<pool, khead>>
    BY Zenon DEF Completion, kernel
  <1> QED
    BY Zenon, <1>2, <1>3, <1>4, BuffersKept

\* What a completion carries when it is handled.
LEMMA HandledLoad ==
    ASSUME TypeOK, Buffers, NEW op, Completion(op)
    PROVE  IF op = "RECV_ZC" /\ cqe.more THEN \E b \in Bufs : cqe.buf = {b} ELSE cqe.buf = {}
  <1>1. PICK j \in DOMAIN Pending : cqe = Pending[j]
    BY Zenon, HandledCount
  <1>2. cqe.op = op
    BY Zenon DEF Completion
  <1> QED
    BY <1>1, <1>2, Zenon DEF Buffers, Loaded

\* The slot of the tail comes after the ones that are queued.
LEMMA TailSlot ==
    ASSUME TypeOK
    PROVE  rq_tail % RqEntries = (khead + zcrx_rq_nr_queued) % RqEntries
  <1>1. khead \in 0..(Word - 1) /\ rq_tail \in 0..(Word - 1) /\ Word \in Nat \ {0}
    BY ZcrxAssumption DEF TypeOK
  <1> DEFINE x == rq_tail - khead
             y == khead + zcrx_rq_nr_queued
  <1>2. x \in Int /\ zcrx_rq_nr_queued = x % Word
    BY <1>1 DEF zcrx_rq_nr_queued
  <1>3. CASE rq_tail >= khead
    <2>1. x \in 0..(Word - 1)
      BY <1>1, <1>3
    <2>2. x % Word = x
      BY Zenon, <1>2, <2>1, Wrap
    <2>3. y = rq_tail
      BY <1>1, <1>2, <2>2
    <2> QED
      BY Zenon, <2>3
  <1>4. CASE rq_tail < khead
    <2>1. x < 0 /\ x >= -Word
      BY <1>1, <1>4
    <2>2. x % Word = x + Word
      BY Zenon, <1>2, <2>1, Wrap
    <2>3. y = rq_tail + Word
      BY <1>1, <1>2, <2>2
    <2>4. y \in 0..(2 * Word - 1) /\ y \in Word..(2 * Word - 1) /\ y \in Int /\ y - Word = rq_tail
      BY <1>1, <2>3
    <2> HIDE DEF y
    <2>5. y % Word = rq_tail /\ (y % Word) % RqEntries = y % RqEntries
      BY Zenon, <2>4, Wrap, SlotOfCounter
    <2> QED
      BY Zenon, <2>5 DEF y
  <1> QED
    BY <1>1, <1>3, <1>4

\* The tail moves on by one: one more is queued, as long as the counters can
\* tell full from empty.
LEMMA QueuedOneMore ==
    ASSUME TypeOK, zcrx_rq_nr_queued < RqEntries, rq_tail' = (rq_tail + 1) % Word,
           khead' = khead
    PROVE  zcrx_rq_nr_queued' = zcrx_rq_nr_queued + 1
  <1>1. /\ khead \in 0..(Word - 1) /\ rq_tail \in 0..(Word - 1) /\ Word \in Nat \ {0}
        /\ RqEntries \in Nat /\ RqEntries < Word
    BY ZcrxAssumption DEF TypeOK
  <1> DEFINE x == rq_tail - khead
             y == rq_tail + 1
             z == rq_tail' - khead
  <1>2. x \in Int /\ zcrx_rq_nr_queued = x % Word /\ zcrx_rq_nr_queued' = z % Word
    BY <1>1 DEF zcrx_rq_nr_queued
  <1>3. x % Word = IF x >= 0 THEN x ELSE x + Word
    <2>1. x >= 0 => x \in 0..(Word - 1)
      BY <1>1
    <2>2. x < 0 => x >= -Word
      BY <1>1
    <2> HIDE DEF x
    <2> QED
      BY <1>2, <2>1, <2>2, Wrap
  <1>4. y % Word = IF y < Word THEN y ELSE 0
    <2>1. y \in Int /\ (y < Word => y \in 0..(Word - 1)) /\ (y >= Word => y = Word)
      BY <1>1
    <2>2. Word \in Word..(2 * Word - 1) /\ Word \in Int
      BY <1>1
    <2>3. Word % Word = Word - Word
      BY Zenon, <2>2, Wrap
    <2> HIDE DEF y
    <2> QED
      BY <1>1, <2>1, <2>3, Wrap
  <1>5. rq_tail' = IF rq_tail + 1 < Word THEN rq_tail + 1 ELSE 0
    BY Zenon, <1>4
  <1>6. z \in Int /\ z < Word /\ z >= -Word
    BY <1>1, <1>5
  <1>7. z % Word = IF z >= 0 THEN z ELSE z + Word
    <2> HIDE DEF z
    <2> QED
      BY <1>1, <1>6, Wrap
  <1> QED
    BY <1>1, <1>2, <1>3, <1>5, <1>6, <1>7

\* The head moves on by one: one less is queued.
LEMMA QueuedOneLess ==
    ASSUME TypeOK, khead # rq_tail, khead' = (khead + 1) % Word, rq_tail' = rq_tail
    PROVE  zcrx_rq_nr_queued > 0 /\ zcrx_rq_nr_queued' = zcrx_rq_nr_queued - 1
  <1>1. /\ khead \in 0..(Word - 1) /\ rq_tail \in 0..(Word - 1) /\ Word \in Nat \ {0}
    BY ZcrxAssumption DEF TypeOK
  <1> DEFINE x == rq_tail - khead
             y == khead + 1
             z == rq_tail - khead'
  <1>2. x \in Int /\ zcrx_rq_nr_queued = x % Word /\ zcrx_rq_nr_queued' = z % Word
    BY <1>1 DEF zcrx_rq_nr_queued
  <1>3. x % Word = IF x >= 0 THEN x ELSE x + Word
    <2>1. x >= 0 => x \in 0..(Word - 1)
      BY <1>1
    <2>2. x < 0 => x >= -Word
      BY <1>1
    <2> HIDE DEF x
    <2> QED
      BY <1>2, <2>1, <2>2, Wrap
  <1>4. y % Word = IF y < Word THEN y ELSE 0
    <2>1. y \in Int /\ (y < Word => y \in 0..(Word - 1)) /\ (y >= Word => y = Word)
      BY <1>1
    <2>2. Word \in Word..(2 * Word - 1) /\ Word \in Int
      BY <1>1
    <2>3. Word % Word = Word - Word
      BY Zenon, <2>2, Wrap
    <2> HIDE DEF y
    <2> QED
      BY <1>1, <2>1, <2>3, Wrap
  <1>5. khead' = IF khead + 1 < Word THEN khead + 1 ELSE 0
    BY Zenon, <1>4
  <1>6. z \in Int /\ z < Word /\ z >= -Word
    BY <1>1, <1>5
  <1>7. z % Word = IF z >= 0 THEN z ELSE z + Word
    <2> HIDE DEF z
    <2> QED
      BY <1>1, <1>6, Wrap
  <1> QED
    BY <1>1, <1>2, <1>3, <1>5, <1>6, <1>7

\* A buffer goes into the slot of the tail.
LEMMA PushBuffers ==
    ASSUME TypeOK, TypeOK', Buffers, NEW op, Completion(op), NEW b0 \in Bufs,
           cqe.buf = {b0}, ~RefillFull, zcrx_return_buffer(cqe.buf)
    PROVE  Buffers' /\ lost' = lost
  <1>1. /\ \A M : Count(Pending', M) = Count(Pending, M) - (IF cqe \in M THEN 1 ELSE 0)
        /\ \A i \in DOMAIN Pending' : \E j \in DOMAIN Pending : Pending'[i] = Pending[j]
        /\ UNCHANGED <<pool, khead>> /\ cqe \in Cqes
    BY Zenon, HandledCount, CompletionType
  <1>2. Loaded'
    BY <1>1 DEF Buffers, Loaded
  <1> DEFINE n == zcrx_rq_nr_queued
             t == rq_tail % RqEntries
  <1>3. PICK s : s = t
    BY Zenon
  <1>4. /\ rqes' = [rqes EXCEPT ![s] = {b0}] /\ rq_tail' = (rq_tail + 1) % Word
        /\ lost' = lost
    BY Zenon, <1>3 DEF zcrx_return_buffer
  <1>5. n \in 0..(RqEntries - 1) /\ n' = n + 1
    <2>1. n \in 0..(Word - 1) /\ n =< RqEntries /\ n # RqEntries
      BY Zenon, QueuedIs DEF Buffers, RefillFull
    <2>2. n \in 0..(RqEntries - 1) /\ n < RqEntries
      BY <2>1, ZcrxAssumption
    <2> QED
      BY Zenon, <1>1, <1>4, <2>2, QueuedOneMore
  <1>6. khead \in Nat
    BY DEF TypeOK
  <1>7. Queued' = Queued \cup {s} /\ s \notin Queued
    <2>1. s = (khead + n) % RqEntries
      BY Zenon, <1>3, TailSlot
    <2>2. Queued = Ring(khead, n) /\ Queued' = Ring(khead, n + 1)
      BY Zenon, <1>1, <1>5, QueuedIs
    <2> QED
      BY Zenon, <1>5, <1>6, <2>1, <2>2, RingPush
  <1>8. rqes'[s] = {b0} /\ \A i \in Queued : rqes'[i] = rqes[i]
    <2>1. s \in 0..(RqEntries - 1)
      BY Zenon, <1>7, QueuedIs
    <2> QED
      BY <1>4, <1>7, <2>1 DEF TypeOK
  <1>9. Filled'
    BY Zenon, <1>7, <1>8 DEF Buffers, Filled
  <1>10. ASSUME NEW b \in Bufs PROVE Places(b)' = 1
    <2>1. Places(b) = 1
      BY Zenon DEF Buffers
    <2>2. Once(b, pool') = Once(b, pool) /\ Once(b, lost') = Once(b, lost)
      BY <1>1, <1>4, Zenon DEF Once
    <2>3. CASE b = b0
      <3>1. Slotted(b)' = Slotted(b) \cup {s} /\ s \notin Slotted(b)
        BY <1>7, <1>8, <2>3, Zenon DEF Slotted
      <3>2. InSlots(b)' = InSlots(b) + 1
        BY <3>1, PlacesIs, FS_AddElement, Zenon DEF InSlots
      <3>3. cqe \in Holding(b)
        BY Zenon, <1>1, <2>3 DEF Holding
      <3>4. InPending(b)' = InPending(b) - 1
        BY Zenon, <1>1, <3>3 DEF InPending
      <3> QED
        BY <2>1, <2>2, <3>2, <3>4, PlacesIs
    <2>4. CASE b # b0
      <3>1. Slotted(b)' = Slotted(b)
        BY Zenon, <1>7, <1>8, <2>4 DEF Slotted
      <3>2. InSlots(b)' = InSlots(b)
        BY <3>1, Zenon DEF InSlots
      <3>3. cqe \notin Holding(b)
        BY Zenon, <2>4 DEF Holding
      <3>4. InPending(b)' = InPending(b) - 0
        BY Zenon, <1>1, <3>3 DEF InPending
      <3> QED
        BY <2>1, <2>2, <3>2, <3>4, PlacesIs
    <2> QED
      BY Zenon, <2>3, <2>4
  <1>11. n' =< RqEntries
    BY <1>5, ZcrxAssumption
  <1> QED
    BY Zenon, <1>2, <1>4, <1>9, <1>10, <1>11 DEF Buffers

\* A buffer is dropped: the queue is full, and what its slots hold stays in
\* circulation.
LEMMA DropBuffers ==
    ASSUME TypeOK, TypeOK', Buffers, NEW op, Completion(op), NEW b0 \in Bufs,
           cqe.buf = {b0}, RefillFull, zcrx_return_buffer(cqe.buf)
    PROVE  Buffers' /\ NeverStarved'
  <1>1. /\ \A M : Count(Pending', M) = Count(Pending, M) - (IF cqe \in M THEN 1 ELSE 0)
        /\ \A M : cqe \in M => Count(Pending, M) > 0
        /\ \A i \in DOMAIN Pending' : \E j \in DOMAIN Pending : Pending'[i] = Pending[j]
        /\ UNCHANGED <<pool, khead>> /\ cqe \in Cqes
    BY Zenon, HandledCount, CompletionType
  <1>2. Loaded'
    BY <1>1 DEF Buffers, Loaded
  <1>3. lost' = lost \cup {b0} /\ UNCHANGED <<rqes, rq_tail>>
    BY Zenon DEF zcrx_return_buffer, refill
  <1>4. zcrx_rq_nr_queued' = zcrx_rq_nr_queued /\ Queued' = Queued
    BY Zenon, <1>1, <1>3 DEF zcrx_rq_nr_queued, Queued
  <1>5. Filled'
    BY Zenon, <1>3, <1>4 DEF Buffers, Filled
  <1>6. cqe \in Holding(b0) /\ \A b \in Bufs : b # b0 => cqe \notin Holding(b)
    BY Zenon, <1>1 DEF Holding
  <1>7. Count(Pending, Holding(b0)) > 0
    BY Zenon, <1>1, <1>6
  <1>8. ASSUME NEW b \in Bufs PROVE Places(b)' = 1
    <2>1. Places(b) = 1
      BY Zenon DEF Buffers
    <2>2. InSlots(b)' = InSlots(b) /\ Once(b, pool') = Once(b, pool)
      BY <1>1, <1>3, <1>4, Zenon DEF InSlots, Slotted, Once
    <2>3. CASE b = b0
      <3>1. InPending(b)' = InPending(b) - 1 /\ InPending(b) > 0
        BY Zenon, <1>1, <1>6, <1>7, <2>3 DEF InPending
      <3>2. Once(b, lost) = 0
        BY <2>1, <3>1, PlacesIs
      <3>3. Once(b, lost') = 1
        BY <1>3, <2>3, Zenon DEF Once
      <3> QED
        BY <2>1, <2>2, <3>1, <3>2, <3>3, PlacesIs
    <2>4. CASE b # b0
      <3>1. InPending(b)' = InPending(b) - 0
        BY Zenon, <1>1, <1>6, <2>4 DEF InPending
      <3>2. Once(b, lost') = Once(b, lost)
        BY <1>3, <2>4, Zenon DEF Once
      <3> QED
        BY <2>1, <2>2, <3>1, <3>2, PlacesIs
    <2> QED
      BY Zenon, <2>3, <2>4
  <1>9. Buffers'
    BY Zenon, <1>2, <1>4, <1>5, <1>8 DEF Buffers
  <1> DEFINE keep == Bufs \ lost'
             own == [i \in Queued |-> CHOOSE b \in Bufs : rqes[i] = {b}]
  <1>10. \A i \in Queued : own[i] \in Bufs /\ rqes[i] = {own[i]}
    BY Zenon DEF Buffers, Filled
  <1> HIDE DEF own
  <1>11. ASSUME NEW i \in Queued
         PROVE  own[i] \in keep /\ \A j \in Queued : own[i] = own[j] => i = j
    <2> DEFINE b == own[i]
    <2>1. b \in Bufs /\ i \in Slotted(b)
      BY Zenon, <1>10 DEF Slotted
    <2>2. Places(b) = 1
      BY Zenon, <2>1 DEF Buffers
    <2> HIDE DEF b
    <2>3. IsFiniteSet(Slotted(b)) /\ InSlots(b) \in Nat
      BY Zenon, PlacesIs
    <2>4. InSlots(b) # 0
      BY <2>1, <2>3, FS_EmptySet, Zenon DEF InSlots
    <2>5. InSlots(b) = 1 /\ Once(b, lost) = 0 /\ InPending(b) = 0
      BY <2>2, <2>3, <2>4, PlacesIs
    <2>6. b # b0
      BY <1>7, <2>5 DEF InPending
    <2>7. PICK x : Slotted(b) = {x}
      BY <2>3, <2>5, FS_Singleton, Zenon DEF InSlots
    <2>8. b \notin lost
      BY <2>5 DEF Once
    <2>9. ASSUME NEW j \in Queued, own[j] = b PROVE j = i
      <3>1. j \in Slotted(b)
        BY Zenon, <1>10, <2>9 DEF Slotted
      <3> QED
        BY Zenon, <2>1, <2>7, <3>1
    <2> QED
      BY Zenon, <1>3, <2>1, <2>6, <2>8, <2>9 DEF b
  <1>12. IsFiniteSet(keep) /\ Cardinality(keep) \in Nat
    BY Zenon, ZcrxAssumption, FS_Difference, FS_CardinalityType
  <1>13. own \in [Queued -> keep]
    <2>1. own = [i \in Queued |-> own[i]]
      BY DEF own
    <2> HIDE DEF keep
    <2> QED
      BY Zenon, <1>11, <2>1
  <1>14. own \in Injection(Queued, keep)
    <2> HIDE DEF keep
    <2> QED
      BY Zenon, <1>11, <1>13 DEF Injection, IsInjective
  <1>15. Cardinality(Queued) =< Cardinality(keep)
    <2> HIDE DEF keep
    <2> QED
      BY Zenon, <1>12, <1>14, FS_Injection
  <1>16. Cardinality(Queued) >= RqEntries /\ Cardinality(Queued) \in Nat
    <2>1. RqEntries \in Nat \ {0} /\ RqEntries \in 0..RqEntries
      BY ZcrxAssumption
    <2>2. Queued = Ring(khead, RqEntries) /\ khead \in Nat /\ IsFiniteSet(Queued)
      BY QueuedIs DEF RefillFull, TypeOK
    <2>3. PICK f \in Injection(1..RqEntries, Queued) : TRUE
      BY Zenon, <2>1, <2>2, RingSize
    <2>4. Cardinality(1..RqEntries) =< Cardinality(Queued)
      BY Zenon, <2>2, <2>3, FS_Injection
    <2>5. Cardinality(1..RqEntries) = RqEntries
      <3>1. Cardinality(1..RqEntries) =
                IF 1 > RqEntries THEN 0 ELSE RqEntries - 1 + 1
        BY <2>1, FS_Interval
      <3> QED
        BY <2>1, <3>1
    <2>6. Cardinality(Queued) \in Nat
      BY Zenon, <2>2, FS_CardinalityType
    <2> QED
      BY Zenon, <2>1, <2>4, <2>5, <2>6
  <1>17. Cardinality(keep) >= Lesser(RqEntries, Cardinality(Bufs))
    <2>1. Cardinality(Bufs) \in Nat /\ RqEntries \in Nat
      BY Zenon, ZcrxAssumption, FS_CardinalityType
    <2> HIDE DEF keep
    <2> QED
      BY <1>12, <1>15, <1>16, <2>1 DEF Lesser
  <1>18. NeverStarved'
    BY Zenon, <1>17 DEF NeverStarved
  <1> QED
    BY Zenon, <1>9, <1>18

\* The kernel takes the oldest buffer.
LEMMA RefillBuffers ==
    ASSUME TypeOK, TypeOK', Buffers, KernelRefill
    PROVE  Buffers' /\ lost' = lost
  <1> DEFINE n == zcrx_rq_nr_queued
  <1>1. PICK s, k : s = khead % RqEntries /\ k = khead
    BY Zenon
  <1>2. /\ k # rq_tail /\ pool' = pool \cup rqes[s] /\ rqes' = [rqes EXCEPT ![s] = {}]
        /\ khead' = (k + 1) % Word /\ UNCHANGED <<cq, count, rq_tail, lost>>
    BY Zenon, <1>1 DEF KernelRefill
  <1>3. n \in 1..RqEntries /\ n' = n - 1
    <2>1. n > 0 /\ n' = n - 1
      BY Zenon, <1>1, <1>2, QueuedOneLess
    <2>2. n \in 0..(Word - 1) /\ n =< RqEntries
      BY Zenon, QueuedIs DEF Buffers
    <2> QED
      BY <2>1, <2>2, ZcrxAssumption
  <1>4. Queued' = Queued \ {s} /\ s \in Queued
    <2>1. Queued = Ring(k, n) /\ Queued' = Ring((k + 1) % Word, n - 1)
      BY Zenon, <1>1, <1>2, <1>3, QueuedIs
    <2>2. k \in 0..(Word - 1)
      BY Zenon, <1>1 DEF TypeOK
    <2> QED
      BY Zenon, <1>1, <1>3, <2>1, <2>2, RingPop
  <1>5. \A i \in Queued' : rqes'[i] = rqes[i]
    BY Zenon, <1>2, <1>4, QueuedIs DEF TypeOK
  <1>6. Pending' = Pending
    BY Zenon, <1>2 DEF Pending
  <1>7. Filled' /\ Loaded'
    BY Zenon, <1>4, <1>5, <1>6 DEF Buffers, Filled, Loaded
  <1>8. ASSUME NEW b \in Bufs PROVE Places(b)' = 1
    <2>1. Places(b) = 1
      BY Zenon DEF Buffers
    <2>2. InPending(b)' = InPending(b) /\ Once(b, lost') = Once(b, lost)
      BY <1>2, <1>6, Zenon DEF InPending, Holding, Once
    <2>3. CASE b \in rqes[s]
      <3>1. Slotted(b)' = Slotted(b) \ {s} /\ s \in Slotted(b)
        BY <1>4, <1>5, <2>3, Zenon DEF Slotted
      <3>2. InSlots(b)' = InSlots(b) - 1
        BY <3>1, PlacesIs, FS_RemoveElement, Zenon DEF InSlots
      <3>3. Once(b, pool) = 0
        BY <2>1, <3>2, PlacesIs
      <3>4. Once(b, pool') = 1
        BY <1>2, <2>3, Zenon DEF Once
      <3> QED
        BY <2>1, <2>2, <3>2, <3>3, <3>4, PlacesIs
    <2>4. CASE b \notin rqes[s]
      <3>1. Slotted(b)' = Slotted(b)
        BY <1>4, <1>5, <2>4, Zenon DEF Slotted
      <3>2. Once(b, pool') = Once(b, pool)
        BY <1>2, <2>4, Zenon DEF Once
      <3>3. InSlots(b)' = InSlots(b)
        BY <3>1, Zenon DEF InSlots
      <3> QED
        BY Zenon, <2>1, <2>2, <3>2, <3>3, PlacesIs
    <2> QED
      BY Zenon, <2>3, <2>4
  <1>9. n' =< RqEntries
    BY <1>3, ZcrxAssumption
  <1> QED
    BY Zenon, <1>2, <1>7, <1>8, <1>9 DEF Buffers

\* The kernel posts a completion: data takes its buffer from the area, anything
\* else carries none.
LEMMA PostBuffers ==
    ASSUME TypeOK, TypeOK', Buffers, NEW e \in Cqes, count' = count, cq' = Append(cq, e),
           IF e.op = "RECV_ZC" /\ e.more
           THEN \E b \in pool : e.buf = {b} /\ pool' = pool \ {b}
           ELSE e.buf = {} /\ pool' = pool,
           UNCHANGED <<lost, rqes, rq_tail, khead>>
    PROVE  Buffers'
  <1>1. /\ \A M : Count(Pending', M) = Count(Pending, M) + (IF e \in M THEN 1 ELSE 0)
        /\ \A i \in DOMAIN Pending' :
              Pending'[i] = e \/ \E j \in DOMAIN Pending : Pending'[i] = Pending[j]
    BY Zenon, PostedCount
  <1>2. IF e.op = "RECV_ZC" /\ e.more THEN \E b \in Bufs : e.buf = {b} ELSE e.buf = {}
    BY Zenon DEF TypeOK
  <1>3. Loaded'
    BY <1>1, <1>2 DEF Buffers, Loaded
  <1>4. zcrx_rq_nr_queued' = zcrx_rq_nr_queued /\ Queued' = Queued
    BY Zenon DEF zcrx_rq_nr_queued, Queued
  <1>5. Filled'
    BY <1>4, Zenon DEF Buffers, Filled
  <1>6. ASSUME NEW b \in Bufs PROVE Places(b)' = 1
    <2>1. Places(b) = 1
      BY Zenon DEF Buffers
    <2>2. InSlots(b)' = InSlots(b) /\ Once(b, lost') = Once(b, lost)
      BY <1>4, Zenon DEF InSlots, Slotted, Once
    <2>3. CASE b \in e.buf
      <3>1. e \in Holding(b) /\ b \in pool /\ b \notin pool'
        BY Zenon, <2>3 DEF Holding
      <3>2. InPending(b)' = InPending(b) + 1
        BY Zenon, <1>1, <3>1 DEF InPending
      <3>3. Once(b, pool) = 1 /\ Once(b, pool') = 0
        BY <3>1, Zenon DEF Once
      <3> QED
        BY <2>1, <2>2, <3>2, <3>3, PlacesIs
    <2>4. CASE b \notin e.buf
      <3>1. e \notin Holding(b) /\ (b \in pool' <=> b \in pool)
        BY Zenon, <2>4 DEF Holding
      <3>2. InPending(b)' = InPending(b) + 0
        BY Zenon, <1>1, <3>1 DEF InPending
      <3>3. Once(b, pool') = Once(b, pool)
        BY <3>1, Zenon DEF Once
      <3> QED
        BY <2>1, <2>2, <3>2, <3>3, PlacesIs
    <2> QED
      BY Zenon, <2>3, <2>4
  <1> QED
    BY Zenon, <1>3, <1>4, <1>5, <1>6 DEF Buffers

LEMMA BufferInit == Init => BufferInv
  <1> SUFFICES ASSUME Init PROVE BufferInv
    BY Zenon
  <1>1. zcrx_rq_nr_queued = 0
    <2>1. 0 \in Int /\ 0 \in 0..(Word - 1) /\ rq_tail - khead = 0
      BY ZcrxAssumption DEF Init
    <2> QED
      BY Zenon, <2>1, Wrap DEF zcrx_rq_nr_queued
  <1>2. Queued = {}
    BY <1>1 DEF Queued
  <1>3. Pending = <<>> /\ DOMAIN Pending = {}
    BY DEF Init, Pending
  <1>4. Filled /\ Loaded
    BY Zenon, <1>2, <1>3 DEF Filled, Loaded
  <1>5. ASSUME NEW b \in Bufs PROVE Places(b) = 1
    <2>1. Slotted(b) = {}
      BY Zenon, <1>2 DEF Slotted
    <2>2. Cardinality(Slotted(b)) = 0 /\ Count(Pending, Holding(b)) = 0
      BY Zenon, <1>3, <2>1, FS_EmptySet, CountEmpty
    <2> QED
      BY <2>2 DEF Places, Once, InSlots, InPending, Init
  <1>6. NeverStarved
    <2>1. Bufs \ lost = Bufs
      BY Zenon DEF Init
    <2>2. Cardinality(Bufs) \in Nat /\ RqEntries \in Nat
      BY Zenon, ZcrxAssumption, FS_CardinalityType
    <2> QED
      BY <2>1, <2>2 DEF NeverStarved, Lesser
  <1>7. 0 =< RqEntries
    BY ZcrxAssumption
  <1> QED
    BY Zenon, <1>1, <1>4, <1>5, <1>6, <1>7 DEF BufferInv, Buffers

LEMMA BufferStep ==
    ASSUME ZcrxInv, ZcrxInv', BufferInv, [Next]_vars
    PROVE  BufferInv'
  <1>1. TypeOK /\ TypeOK' /\ pc # "crashed"
    BY Zenon DEF ZcrxInv, TypeInv, SqeAvailable
  <1>2. lost' = lost => NeverStarved'
    BY Zenon DEF BufferInv, NeverStarved
  <1>3. ASSUME UNCHANGED <<pool, lost, rqes, rq_tail, khead>>, Pending' = Pending, pc # "done"
        PROVE  BufferInv'
    <2>1. Buffers
      BY Zenon, <1>3 DEF BufferInv
    <2>2. Loaded'
      BY Zenon, <1>3, <2>1 DEF Buffers, Loaded
    <2>3. Buffers'
      BY Zenon, <1>1, <1>3, <2>1, <2>2, BuffersKept
    <2> QED
      BY Zenon, <1>2, <1>3, <2>3 DEF BufferInv
  <1>4. CASE Start \/ Ready \/ LeaveLoop \/ SubmitAndWait \/ WaitDone
    <2>1. /\ UNCHANGED <<pool, lost, rqes, rq_tail, khead, cq, count>>
          /\ pc # "done"
      BY Zenon, <1>4
         DEF Start, zcrx_setup, Acquire, Fails, MmapAreaFails, Ready, LeaveLoop,
                  SubmitAndWait, WaitDone, kernel, refill
    <2>2. Pending' = Pending
      BY Zenon, <2>1 DEF Pending
    <2> QED
      BY Zenon, <1>3, <2>1, <2>2
  <1>5. CASE BatchEnd
    <2>1. Pending' = Pending
      BY Zenon, <1>1, <1>5, PendingKept DEF BatchEnd
    <2> QED
      BY Zenon, <1>3, <1>5, <2>1 DEF BatchEnd, kernel, refill
  <1>6. CASE Exit
    BY Zenon, <1>2, <1>6 DEF Exit, BufferInv
  <1>7. CASE HandleAccept \/ HandleAcceptError \/ HandleRecoverable \/ HandleRxEnd
    <2>1. PICK op : /\ Completion(op) /\ (op = "RECV_ZC" => ~cqe.more)
                    /\ UNCHANGED <<lost, rqes, rq_tail>>
      BY Zenon, <1>7
         DEF HandleAccept, HandleAcceptError, HandleRecoverable, HandleRxEnd, refill
    <2>2. Buffers
      BY Zenon, <2>1 DEF BufferInv, Completion
    <2>3. cqe.buf = {}
      BY Zenon, <1>1, <2>1, <2>2, HandledLoad
    <2>4. Buffers'
      BY Zenon, <1>1, <2>1, <2>2, <2>3, HandledBuffers
    <2> QED
      BY Zenon, <1>2, <2>1, <2>4 DEF BufferInv
  <1>8. CASE HandleData
    <2>1. Completion("RECV_ZC") /\ cqe.more /\ zcrx_return_buffer(cqe.buf)
      BY Zenon, <1>8 DEF HandleData
    <2>2. Buffers
      BY Zenon, <2>1 DEF BufferInv, Completion
    <2>3. PICK b \in Bufs : cqe.buf = {b}
      BY Zenon, <1>1, <2>1, <2>2, HandledLoad
    <2>4. CASE RefillFull
      BY Zenon, <1>1, <2>1, <2>2, <2>3, <2>4, DropBuffers DEF BufferInv
    <2>5. CASE ~RefillFull
      BY Zenon, <1>1, <1>2, <2>1, <2>2, <2>3, <2>5, PushBuffers DEF BufferInv
    <2> QED
      BY Zenon, <2>4, <2>5
  <1>9. CASE KernelAccept \/ KernelRecv
    <2>1. PICK op \in {"ACCEPT", "RECV_ZC"}, c \in Conns,
               r \in {"positive", "nospc", "nomem", "error"}, m \in BOOLEAN,
               b \in SUBSET Bufs :
              /\ Post(op, c, r, m, b)
              /\ IF op = "RECV_ZC" /\ m
                 THEN \E x \in pool : b = {x} /\ pool' = pool \ {x}
                 ELSE b = {} /\ pool' = pool
      <3>1. CASE KernelAccept
        <4>1. \/ \E f \in Fds : Post("ACCEPT", f, "positive", FALSE, {})
              \/ Post("ACCEPT", Sock, "error", FALSE, {})
          BY Zenon, <3>1 DEF KernelAccept
        <4>2. pool' = pool /\ Fds \subseteq Conns /\ Sock \in Conns
          BY Zenon, <3>1 DEF KernelAccept, Conns
        <4>3. {} \in SUBSET Bufs /\ "ACCEPT" # "RECV_ZC"
          BY Zenon
        <4>4. CASE \E f \in Fds : Post("ACCEPT", f, "positive", FALSE, {})
          BY Zenon, <4>2, <4>3, <4>4
        <4>5. CASE Post("ACCEPT", Sock, "error", FALSE, {})
          BY Zenon, <4>2, <4>3, <4>5
        <4> QED
          BY Zenon, <4>1, <4>4, <4>5
      <3>2. CASE KernelRecv
        <4>1. PICK c \in Conns :
                 \/ \E x \in pool : Post("RECV_ZC", c, "positive", TRUE, {x})
                                    /\ pool' = pool \ {x}
                 \/ \E r \in {"nospc", "nomem", "error"} :
                       Post("RECV_ZC", c, r, FALSE, {}) /\ pool' = pool
          BY <3>2, Zenon DEF KernelRecv
        <4>2. CASE \E x \in pool : Post("RECV_ZC", c, "positive", TRUE, {x})
                                   /\ pool' = pool \ {x}
          <5>1. PICK x \in pool : Post("RECV_ZC", c, "positive", TRUE, {x})
                                  /\ pool' = pool \ {x}
            BY Zenon, <4>2
          <5>2. {x} \in SUBSET Bufs
            BY Zenon, <1>1 DEF TypeOK
          <5>3. \E y \in pool : {x} = {y} /\ pool' = pool \ {y}
            BY Zenon, <5>1
          <5> QED
            BY <5>1, <5>2, <5>3, Zenon
        <4>3. CASE \E r \in {"nospc", "nomem", "error"} :
                       Post("RECV_ZC", c, r, FALSE, {}) /\ pool' = pool
          <5>1. PICK r \in {"nospc", "nomem", "error"} :
                   Post("RECV_ZC", c, r, FALSE, {}) /\ pool' = pool
            BY Zenon, <4>3
          <5>2. {} \in SUBSET Bufs /\ r \in {"positive", "nospc", "nomem", "error"}
            BY Zenon
          <5> QED
            BY Zenon, <5>1, <5>2
        <4> QED
          BY Zenon, <4>1, <4>2, <4>3
      <3> QED
        BY Zenon, <1>9, <3>1, <3>2
    <2> DEFINE e == [op |-> op, conn |-> c, res |-> r, more |-> m, buf |-> b]
    <2>2. /\ e \in Cqes /\ pc = "wait" /\ pc' = pc /\ count' = count /\ cq' = Append(cq, e)
          /\ UNCHANGED <<khead, rqes, rq_tail, lost>>
      BY <1>1, <2>1, PostType DEF Post
    <2>3. e.op = op /\ e.more = m /\ e.buf = b
      BY Zenon
    <2> HIDE DEF e
    <2>4. Buffers
      BY Zenon, <2>2 DEF BufferInv
    <2>5. Buffers'
      BY Zenon, <1>1, <2>1, <2>2, <2>3, <2>4, PostBuffers
    <2> QED
      BY Zenon, <1>2, <2>2, <2>5 DEF BufferInv
  <1>10. CASE KernelRefill
    <2>1. pc # "done" /\ pc' = pc
      BY Zenon, <1>10 DEF KernelRefill
    <2> QED
      BY Zenon, <1>1, <1>2, <1>10, <2>1, RefillBuffers DEF BufferInv
  <1>11. CASE StopSignal \/ Terminated \/ UNCHANGED vars
    <2>1. UNCHANGED <<pool, lost, rqes, rq_tail, khead, cq, count, pc>>
      BY Zenon, <1>11 DEF StopSignal, Terminated, vars, kernel, refill
    <2>2. Pending' = Pending
      BY Zenon, <2>1 DEF Pending
    <2>3. CASE pc = "done"
      BY Zenon, <1>2, <2>1, <2>3 DEF BufferInv
    <2> QED
      BY Zenon, <1>3, <2>1, <2>2, <2>3
  <1> QED
    BY Zenon, <1>4, <1>5, <1>6, <1>7, <1>8, <1>9, <1>10, <1>11 DEF Next, Worker

LEMMA BufferAlways == Spec => [](TypeOK /\ BufferInv)
  <1>1. ZcrxInv => TypeOK
    BY Zenon DEF ZcrxInv, TypeInv
  <1> QED
    BY <1>1, ZcrxInit, ZcrxStep, BufferInit, BufferStep, PTL DEF Spec

\* For every number of buffers and slots, and wherever the 32-bit counters of
\* the refill queue have got to: every buffer is with the kernel, in one slot of
\* the refill queue, in one completion or lost, and in one of them only.
\* zcrx_return_buffer() never overwrites a slot the kernel has not taken.
THEOREM ZcrxBuffersAccounted == Spec => []BuffersAccounted
  <1>1. TypeOK /\ BufferInv => BuffersAccounted
    <2> SUFFICES ASSUME TypeOK, BufferInv, InLoop, NEW b \in Bufs
                 PROVE  Cardinality({b} \cap pool) + Cardinality({b} \cap lost)
                            + Cardinality(Slotted(b)) + Count(Pending, Holding(b)) = 1
      BY Zenon DEF BuffersAccounted, Slotted, Count, Holding
    <2>1. \A S : Cardinality({b} \cap S) = IF b \in S THEN 1 ELSE 0
      <3> TAKE S
      <3>1. {b} \cap S = IF b \in S THEN {b} ELSE {}
        BY Zenon
      <3> QED
        BY Zenon, <3>1, FS_Singleton, FS_EmptySet
    <2>2. Places(b) = 1
      BY Zenon DEF BufferInv, Buffers, InLoop
    <2>3. /\ Cardinality({b} \cap pool) = IF b \in pool THEN 1 ELSE 0
          /\ Cardinality({b} \cap lost) = IF b \in lost THEN 1 ELSE 0
      BY <2>1, Zenon
    <2> QED
      BY Zenon, <2>2, <2>3 DEF Places, Once, InSlots, InPending
  <1> QED
    BY <1>1, BufferAlways, PTL

\* A buffer is dropped only while as many others as the refill queue has slots
\* are in it: the area never runs below that number, or below its own size if
\* that is smaller.
THEOREM ZcrxNeverStarved == Spec => []NeverStarved
  <1>1. BufferInv => NeverStarved
    BY Zenon DEF BufferInv
  <1> QED
    BY <1>1, BufferAlways, PTL
================================================================================
