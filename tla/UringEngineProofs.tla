--------------------------- MODULE UringEngineProofs ---------------------------
(***************************************************************************)
(* What the queue operators of UringEngine return, for every queue depth.  *)
(***************************************************************************)
EXTENDS UringEngine, TLAPS

\* Queues with the same entries are equal.
LEMMA QueuesEqual ==
    ASSUME NEW S, NEW p \in Seq(S), NEW q \in Seq(S),
           Len(p) = Len(q), \A i \in 1..Len(p) : p[i] = q[i]
    PROVE  p = q
  OBVIOUS

\* An SQE that is prepared is put last, and if there is no room nothing changes
\* (io_uring_get_sqe() returned null).
LEMMA GetSqeProperties ==
    ASSUME NEW S, NEW q \in Seq(S), NEW e \in S
    PROVE  /\ GetSqe(q, e) \in Seq(S)
           /\ Len(GetSqe(q, e)) =< Len(q) + 1
           /\ Len(q) =< QueueDepth => Len(GetSqe(q, e)) =< QueueDepth
           /\ Len(q) < QueueDepth => GetSqe(q, e) = Append(q, e)
  BY QueueDepthAssumption DEF GetSqe

\* The preparing loop adds at most all of its SQEs, each of them one of the
\* sequence it was given.
LEMMA PrepEachProperties ==
    ASSUME NEW S, NEW q \in Seq(S), NEW s \in Seq(S), Len(q) =< QueueDepth
    PROVE  /\ PrepEach(q, s) \in Seq(S)
           /\ Len(PrepEach(q, s)) =< Len(q) + Len(s)
           /\ Len(PrepEach(q, s)) =< QueueDepth
           /\ \A i \in DOMAIN PrepEach(q, s) :
                 \/ i \in DOMAIN q /\ PrepEach(q, s)[i] = q[i]
                 \/ \E j \in DOMAIN s : PrepEach(q, s)[i] = s[j]
           /\ \A i \in DOMAIN q : PrepEach(q, s)[i] = q[i]
  <1> DEFINE n == Lesser(Len(s), QueueDepth - Len(q))
             t == SubSeq(s, 1, n)
  <1>1. n \in 0..Len(s) /\ n =< QueueDepth - Len(q)
    BY QueueDepthAssumption DEF Lesser
  <1>2. t \in Seq(S) /\ Len(t) = n /\ \A i \in 1..n : t[i] = s[i]
    BY <1>1
  <1>3. PrepEach(q, s) = q \o t
    BY DEF PrepEach
  <1>4. /\ q \o t \in Seq(S)
        /\ Len(q \o t) = Len(q) + n
        /\ \A i \in 1..(Len(q) + n) :
              (q \o t)[i] = IF i =< Len(q) THEN q[i] ELSE t[i - Len(q)]
    BY <1>2
  <1> HIDE DEF n, t
  <1>5. \A i \in 1..(Len(q) + n) : i > Len(q) =>
            /\ i - Len(q) \in DOMAIN s
            /\ (q \o t)[i] = s[i - Len(q)]
    BY <1>1, <1>2, <1>4
  <1>6. DOMAIN q = 1..Len(q) /\ DOMAIN (q \o t) = 1..(Len(q) + n)
    BY <1>1, <1>4
  <1>7. \A i \in DOMAIN (q \o t) :
            \/ i \in DOMAIN q /\ (q \o t)[i] = q[i]
            \/ \E j \in DOMAIN s : (q \o t)[i] = s[j]
    <2> TAKE i \in DOMAIN (q \o t)
    <2>1. CASE i =< Len(q)
      BY <1>1, <1>4, <1>6, <2>1
    <2>2. CASE i > Len(q)
      <3>1. i - Len(q) \in DOMAIN s /\ (q \o t)[i] = s[i - Len(q)]
        BY Zenon, <1>5, <1>6, <2>2
      <3> QED
        BY <3>1
    <2> QED
      BY <1>1, <1>6, <2>1, <2>2
  <1>8. \A i \in DOMAIN q : (q \o t)[i] = q[i]
    BY <1>1, <1>4, <1>6
  <1>9. Len(q \o t) =< Len(q) + Len(s) /\ Len(q \o t) =< QueueDepth
    BY <1>1, <1>4, QueueDepthAssumption
  <1> QED
    BY <1>3, <1>4, <1>7, <1>8, <1>9

\* With room for all of them, the preparing loop prepares all of its SQEs.
LEMMA PrepEachAll ==
    ASSUME NEW S, NEW s \in Seq(S), Len(s) =< QueueDepth
    PROVE  PrepEach(<<>>, s) = s
  <1>1. Lesser(Len(s), QueueDepth - Len(<<>>)) = Len(s)
    BY QueueDepthAssumption DEF Lesser
  <1>2. SubSeq(s, 1, Len(s)) = s
    OBVIOUS
  <1>3. PrepEach(<<>>, s) = <<>> \o s
    BY <1>1, <1>2 DEF PrepEach
  <1> QED
    BY <1>3

--------------------------------------------------------------------------------
(* Queues: the entries of a queue that are in a set *)

\* An entry that is put last is one more entry of its set, and no other.
LEMMA AppendHits ==
    ASSUME NEW S, NEW q \in Seq(S), NEW e \in S, NEW M
    PROVE  /\ e \notin M => Hits(Append(q, e), M) = Hits(q, M)
           /\ e \in M /\ Hits(q, M) = {} => One(Hits(Append(q, e), M))
  <1> DEFINE p == Append(q, e)
  <1>1. /\ DOMAIN q = 1..Len(q) /\ DOMAIN p = 1..(Len(q) + 1) /\ Len(q) \in Nat
        /\ \A i \in 1..Len(q) : p[i] = q[i]
        /\ p[Len(q) + 1] = e
    OBVIOUS
  <1> HIDE DEF p
  <1>2. ASSUME e \notin M PROVE Hits(p, M) = Hits(q, M)
    BY <1>1, <1>2 DEF Hits
  <1>3. ASSUME e \in M, Hits(q, M) = {} PROVE Hits(p, M) = {Len(q) + 1}
    BY <1>1, <1>3 DEF Hits
  <1>4. ASSUME e \in M, Hits(q, M) = {} PROVE One(Hits(p, M))
    BY <1>3, <1>4 DEF One
  <1> QED
    BY <1>2, <1>4 DEF p

\* Taking the head away takes one entry of its set, and no other.
LEMMA TailHits ==
    ASSUME NEW S, NEW q \in Seq(S), q # <<>>, NEW M
    PROVE  /\ Hits(q, M) = {} => Hits(Tail(q), M) = {} /\ Head(q) \notin M
           /\ Head(q) \notin M /\ One(Hits(q, M)) => One(Hits(Tail(q), M))
           /\ Head(q) \in M /\ One(Hits(q, M)) => Hits(Tail(q), M) = {}
  <1> DEFINE p == Tail(q)
  <1>1. /\ DOMAIN q = 1..Len(q) /\ DOMAIN p = 1..(Len(q) - 1)
        /\ Len(q) \in Nat /\ Len(q) > 0
        /\ \A i \in 1..(Len(q) - 1) : p[i] = q[i + 1]
        /\ Head(q) = q[1]
    OBVIOUS
  <1> HIDE DEF p
  <1>2. Hits(q, M) = {} => Hits(p, M) = {} /\ Head(q) \notin M
    BY <1>1 DEF Hits
  <1>3. ASSUME Head(q) \notin M, One(Hits(q, M)) PROVE One(Hits(p, M))
    <2>1. PICK i \in DOMAIN q : q[i] \in M /\ \A j \in DOMAIN q : q[j] \in M => j = i
      BY <1>3 DEF One, Hits
    <2>2. i - 1 \in DOMAIN p /\ p[i - 1] \in M
      BY <1>1, <1>3, <2>1
    <2>3. \A j \in DOMAIN p : p[j] \in M => j = i - 1
      BY SMTT(30), <1>1, <2>1
    <2> QED
      BY <2>2, <2>3 DEF One, Hits
  <1>4. ASSUME Head(q) \in M, One(Hits(q, M)) PROVE Hits(p, M) = {}
    <2>1. \A j \in DOMAIN q : q[j] \in M => j = 1
      BY <1>1, <1>4 DEF One, Hits
    <2> QED
      BY <1>1, <2>1 DEF Hits
  <1> QED
    BY <1>2, <1>3, <1>4 DEF p
================================================================================
