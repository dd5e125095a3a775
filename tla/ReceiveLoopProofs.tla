--------------------------- MODULE ReceiveLoopProofs ---------------------------
(***************************************************************************)
(* The receive loop of ReceiveWorker, for every pipeline depth and queue   *)
(* depth: its steps keep the invariant and are steps of the abstract       *)
(* pipeline, if StartInv holds of the worker's way in and out.             *)
(* ReceiveProofs shows that it does and states the theorems.               *)
(***************************************************************************)
EXTENDS ReceiveWorker, WellFoundedInduction, UringEngineProofs

(* Induction over the naturals, for sets *)

\* A set of naturals that is not empty has a least element.
LEMMA Least ==
    ASSUME NEW T \in SUBSET Nat, T # {}
    PROVE  \E m \in T : \A k \in T : ~(k < m)
  <1> DEFINE R == OpToRel(<, Nat)
  <1>1. IsWellFoundedOn(R, Nat)
    BY Zenon, NatLessThanWellFounded
  <1>2. \A x, y \in Nat : <<x, y>> \in R <=> x < y
    BY Zenon DEF OpToRel
  <1> HIDE DEF R
  <1>3. PICK m \in T : \A k \in T : ~(<<k, m>> \in R)
    BY <1>1, WFMin, Zenon
  <1>4. \A k \in T : ~(k < m)
    BY <1>2, <1>3, Zenon
  <1> QED
    BY Zenon, <1>4

\* Induction over the naturals, for a set instead of a predicate.
LEMMA SetInduction ==
    ASSUME NEW S \in SUBSET Nat, 0 \in S, \A n \in S : n + 1 \in S
    PROVE  S = Nat
  <1> SUFFICES ASSUME Nat \ S # {} PROVE FALSE
    BY Zenon
  <1>1. PICK m \in Nat \ S : \A k \in Nat \ S : ~(k < m)
    BY Zenon, Least
  <1>2. m # 0 /\ m - 1 \in Nat
    OBVIOUS
  <1>3. m - 1 \in S
    BY <1>1, <1>2
  <1> QED
    BY <1>2, <1>3

Injective(g, k) == \A i, j \in 1..k : g[i] = g[j] => i = j

\* n things with a place each among m places are at most m.
LEMMA Pigeonhole ==
    ASSUME NEW n \in Nat, NEW m \in Nat, NEW f \in [1..n -> 1..m], Injective(f, n)
    PROVE  n =< m
  <1> DEFINE Fits(k) == \A l \in Nat : \A g \in [1..k -> 1..l] : Injective(g, k) => k =< l
             S == {k \in Nat : Fits(k)}
  <1>1. 0 \in S
    OBVIOUS
  <1>2. ASSUME NEW k \in S PROVE k + 1 \in S
    <2>a. k \in Nat
      BY Zenon
    <2>b. k + 1 \in Nat
      BY <2>a
    <2>0. k \in Nat /\ k + 1 \in Nat /\ Fits(k)
      BY <2>b, Zenon
    <2> SUFFICES ASSUME NEW l \in Nat, NEW g \in [1..(k + 1) -> 1..l], Injective(g, k + 1)
                 PROVE  k + 1 =< l
      BY <2>0, Zenon
    <2> DEFINE h == [i \in 1..k |-> IF g[i] = l THEN g[k + 1] ELSE g[i]]
    <2>1. \A i \in 1..(k + 1) : g[i] \in 1..l
      BY Zenon
    <2>2. \A i, j \in 1..(k + 1) : g[i] = g[j] => i = j
      BY Zenon DEF Injective
    <2>3. \A i \in 1..k : i \in 1..(k + 1) /\ i # k + 1
      BY <2>0
    <2>4. k + 1 \in 1..(k + 1)
      BY <2>0
    <2>5. l - 1 \in Nat
      BY <2>1, <2>4
    <2>6. \A i \in 1..k : h[i] \in 1..(l - 1)
      BY <2>1, <2>2, <2>3, <2>4
    <2>7. h \in [1..k -> 1..(l - 1)]
      BY Zenon, <2>6
    <2>8. \A i, j \in 1..k : h[i] = h[j] => i = j
      BY Zenon, <2>2, <2>3, <2>4
    <2> HIDE DEF h
    <2>9. k =< l - 1
      BY Zenon, <2>0, <2>5, <2>7, <2>8 DEF Injective
    <2> QED
      BY <2>0, <2>9
  <1> HIDE DEF Fits
  <1>3. S = Nat
    BY Zenon, <1>1, <1>2, SetInduction
  <1>4. Fits(n)
    BY Zenon, <1>3
  <1> QED
    BY Zenon, <1>4 DEF Fits

--------------------------------------------------------------------------------
(* Calls in an order *)

Calls == SocketStep \cup {"queue", "buf_ring", "buf_mem", "files", "pool", "buffers"}

\* The order in which every worker makes its calls.
SetupRank ==
    [x \in Calls |->
        CASE x = "socket" -> 1 [] x = "bind" -> 2 [] x = "listen" -> 3
          [] x = "resolve" -> 4 [] x = "connect" -> 5 [] x = "handshake" -> 6
          [] x = "queue" -> 7 [] x = "buf_ring" -> 8 [] x = "buf_mem" -> 9
          [] x = "files" -> 10 [] x = "pool" -> 11 [] x = "buffers" -> 12]

\* The order in which every worker gives back what it has; only the client of a
\* reverse connection closes its socket last.
ReleaseRank ==
    [x \in Calls |->
        CASE x = "socket" -> (IF role = "client_reverse" THEN 9 ELSE 1)
          [] x = "pool" -> 2 [] x = "buffers" -> 3 [] x = "files" -> 4
          [] x = "buf_ring" -> 5 [] x = "buf_mem" -> 6 [] x = "queue" -> 7
          [] OTHER -> 0]

Increasing(R, s) ==
    \A i, j \in DOMAIN s : i < j => R[s[i]] < R[s[j]]

\* s is the part of the calls A, in the order of R, that is still to be made.
Remaining(R, A, s) ==
    /\ s \in Seq(Calls)
    /\ Increasing(R, s)
    /\ Range(s) \subseteq A
    /\ \A x \in A \ Range(s), y \in Range(s) : R[x] < R[y]

\* Taking the first call off.
LEMMA NextCall ==
    ASSUME NEW R \in [Calls -> Int], NEW s \in Seq(Calls), Increasing(R, s), s # <<>>
    PROVE  /\ Head(s) \in Range(s) /\ Head(s) \in Calls
           /\ Tail(s) \in Seq(Calls) /\ Increasing(R, Tail(s))
           /\ Range(Tail(s)) = Range(s) \ {Head(s)}
           /\ \A y \in Range(s) \ {Head(s)} : R[Head(s)] < R[y]
  <1> DEFINE t == Tail(s)
             h == Head(s)
  <1>1. /\ Len(s) \in Nat /\ Len(s) > 0 /\ DOMAIN s = 1..Len(s)
        /\ \A i \in DOMAIN s : s[i] \in Calls
    OBVIOUS
  <1>2. /\ h = s[1] /\ t \in Seq(Calls) /\ DOMAIN t = 1..(Len(s) - 1)
        /\ \A i \in 1..(Len(s) - 1) : t[i] = s[i + 1]
    OBVIOUS
  <1> HIDE DEF t, h
  <1>3. \A i \in 2..Len(s) : R[h] < R[s[i]]
    <2>1. \A i \in 2..Len(s) : 1 \in DOMAIN s /\ i \in DOMAIN s /\ 1 < i
      BY <1>1
    <2> QED
      BY <1>2, <2>1, Zenon DEF Increasing
  <1>4. \A i \in 2..Len(s) : s[i] # h
    BY <1>1, <1>2, <1>3
  <1>5. Range(t) = Range(s) \ {h}
    <2>1. ASSUME NEW x \in Range(t) PROVE x \in Range(s) \ {h}
      <3>1. PICK i \in 1..(Len(s) - 1) : x = s[i + 1]
        BY Zenon, <1>2 DEF Range
      <3>2. i + 1 \in DOMAIN s /\ i + 1 \in 2..Len(s)
        BY <1>1
      <3> QED
        BY <1>4, <3>1, <3>2, Zenon DEF Range
    <2>2. ASSUME NEW x \in Range(s) \ {h} PROVE x \in Range(t)
      <3>1. PICK i \in DOMAIN s : x = s[i] /\ i # 1
        BY Zenon, <1>2 DEF Range
      <3>2. i - 1 \in DOMAIN t /\ t[i - 1] = s[i]
        <4>1. i - 1 \in 1..(Len(s) - 1) /\ (i - 1) + 1 = i
          BY <1>1, <3>1
        <4> QED
          BY <1>2, <4>1, Zenon
      <3> QED
        BY <3>1, <3>2, Zenon DEF Range
    <2> QED
      BY Zenon, <2>1, <2>2
  <1>6. Increasing(R, t)
    <2> SUFFICES ASSUME NEW i \in DOMAIN t, NEW j \in DOMAIN t, i < j
                 PROVE  R[t[i]] < R[t[j]]
      BY Zenon DEF Increasing
    <2>0. i \in 1..(Len(s) - 1) /\ j \in 1..(Len(s) - 1)
      BY <1>2, Zenon
    <2>1. t[i] = s[i + 1] /\ t[j] = s[j + 1]
      BY <1>2, <2>0, Zenon
    <2>2. i + 1 \in DOMAIN s /\ j + 1 \in DOMAIN s /\ i + 1 < j + 1
      BY <1>1, <2>0
    <2> QED
      BY <2>1, <2>2, Zenon DEF Increasing
  <1>7. \A y \in Range(s) \ {h} : R[h] < R[y]
    <2> TAKE y \in Range(s) \ {h}
    <2>1. PICK i \in DOMAIN s : y = s[i] /\ i # 1
      BY Zenon, <1>2 DEF Range
    <2>2. i \in 2..Len(s)
      BY <1>1, <2>1
    <2> QED
      BY Zenon, <1>3, <2>1, <2>2
  <1>8. h \in Range(s) /\ h \in Calls
    BY <1>1, <1>2 DEF Range
  <1> QED
    BY Zenon, <1>2, <1>5, <1>6, <1>7, <1>8 DEF t, h

\* The two orders are numberings of the calls.
LEMMA Ranks == SetupRank \in [Calls -> Int] /\ ReleaseRank \in [Calls -> Int]
  BY DEF SetupRank, ReleaseRank, Calls, SocketStep

--------------------------------------------------------------------------------
(* The invariant of a worker's way in and out *)

Port == {n \in Nat : n < 65536}

\* What parse_args() lets through.
Accepted(c) ==
    /\ c = [f \in Used |-> c[f]]
    /\ c.mode \in {"CLIENT", "SERVER"}
    /\ c.udp \in BOOLEAN /\ c.sqpoll \in BOOLEAN /\ c.fixed_buffers \in BOOLEAN
    /\ c.multishot_recv \in BOOLEAN /\ c.reverse \in BOOLEAN
    /\ c.use_zcrx \in BOOLEAN /\ c.zcrx_ifname \in BOOLEAN
    /\ c.port \in Port
    /\ c.udp => ~c.use_zcrx /\ ~c.reverse
    /\ c.mode = "SERVER" => ~c.reverse

\* The calls of the worker's plan.
Planned ==
    Range(SocketCalls(config, thread_id) \o EngineCalls(config))

EngineRoles == {"client", "client_reverse", "server_tcp", "server_udp"}

\* Which calls are in the plan.
PlanRoles ==
    /\ "socket" \in Planned
    /\ "queue" \in Planned <=> role \in EngineRoles
    /\ "files" \in Planned <=> role \in {"client", "server_udp"}
    /\ "pool" \in Planned <=> role \in EngineRoles \ {"server_tcp"}
    /\ "buffers" \in Planned => role = "client"
    /\ "buf_mem" \in Planned => role \in EngineRoles \ {"client"}
    /\ "buf_ring" \in Planned <=> "buf_mem" \in Planned

Resources == {"socket", "queue", "files", "buffers", "pool", "buf_ring", "buf_mem"}

Made == Planned \ Range(todo)

\* On the way in: the members of the engine say what is held, of the calls made.
InSetup ==
    /\ Remaining(SetupRank, Planned, todo)
    /\ PlanRoles
    /\ NeedsInterface(config) => config.zcrx_ifname
    /\ "socket" \in held <=> "socket" \in Made
    /\ "queue" \in held <=> "queue" \in Made
    /\ "files" \in held <=> engine.files
    /\ "buffers" \in held <=> engine.buffers
    /\ "pool" \in held <=> "pool" \in Made /\ ~engine.recv_buf_ring
    /\ "buf_ring" \in held <=> engine.recv_buf_ring
    /\ "buf_mem" \in held <=> engine.recv_buf_ring /\ "buf_mem" \in Made
    /\ engine.files => "files" \in Made
    /\ engine.buffers => "buffers" \in Made
    /\ engine.recv_buf_ring => "buf_ring" \in Made
    /\ "buf_ring" \in Made /\ "buf_mem" \notin Made => engine.recv_buf_ring
    /\ SqpollHonoured

\* In the loop: exactly what the role and the members of the engine say.
InLoop ==
    /\ todo = <<>>
    /\ "socket" \in held
    /\ "queue" \in held <=> role \in EngineRoles
    /\ "files" \in held <=> engine.files
    /\ "buffers" \in held <=> engine.buffers
    /\ "pool" \in held <=> role \in EngineRoles \ {"server_tcp"} /\ ~engine.recv_buf_ring
    /\ "buf_ring" \in held <=> engine.recv_buf_ring
    /\ "buf_mem" \in held <=> engine.recv_buf_ring
    /\ engine.files => role \in {"client", "server_udp"}
    /\ engine.buffers => role = "client"
    /\ engine.recv_buf_ring => role \in EngineRoles \ {"client"}

\* What run_server() over UDP does not give back.
Left == IF role = "server_udp" THEN {"pool"} ELSE {}

\* On the way out: what is held is what is still to be released.
InRelease ==
    /\ todo \in Seq(Calls)
    /\ Increasing(ReleaseRank, todo)
    /\ Range(todo) \subseteq held
    /\ held \subseteq Range(todo) \cup Left
    /\ Range(todo) \cap Left = {}
    /\ "pool" \in held => ~engine.recv_buf_ring
    /\ "buf_ring" \in held => "buf_mem" \in held
    /\ "buf_mem" \in held => engine.recv_buf_ring

Outside == {"main", "setup", "release", "done", "aborted", "exited"}

StartInv ==
    /\ args \in Seq(Options)
    /\ thread_id \in Threads
    /\ held \subseteq Resources
    /\ engine \in [sqpoll : BOOLEAN, files : BOOLEAN, buffers : BOOLEAN,
                   recv_buf_ring : BOOLEAN]
    /\ supported \subseteq SetupFlags /\ flags \subseteq SetupFlags
    /\ Accepted(config)
    /\ pc = "main" => held = {} /\ engine = NoEngine /\ todo = <<>>
    /\ pc = "setup" => InSetup
    /\ pc \notin Outside => InLoop
    /\ pc = "release" => InRelease
    /\ pc = "done" => held \subseteq Left
    /\ pc \in {"aborted", "exited"} => held = {}

\* What the function that a worker ends up in says of its configuration.
LEMMA Roles ==
    ASSUME NEW c, Accepted(c)
    PROVE  /\ Role(c) \in EngineRoles \cup {"client_zcrx", "server_zcrx"}
           /\ Role(c) = "client" => c.mode = "CLIENT" /\ ~c.reverse
           /\ Role(c) = "client_reverse" => c.mode = "CLIENT" /\ c.reverse /\ ~c.use_zcrx
           /\ Role(c) = "client_zcrx" => c.mode = "CLIENT" /\ c.reverse /\ c.use_zcrx
           /\ Role(c) = "server_zcrx" => c.mode = "SERVER" /\ c.use_zcrx
           /\ Role(c) = "server_udp" => c.mode = "SERVER" /\ ~c.use_zcrx /\ c.udp
           /\ Role(c) = "server_tcp" => c.mode = "SERVER" /\ ~c.use_zcrx /\ ~c.udp
  <1>1. /\ c.mode \in {"CLIENT", "SERVER"} /\ c.reverse \in BOOLEAN /\ c.udp \in BOOLEAN
        /\ c.use_zcrx \in BOOLEAN
    BY Zenon DEF Accepted
  <1>2. CASE c.mode = "CLIENT" /\ ~c.reverse
    BY Zenon, <1>2 DEF Role, EngineRoles
  <1>3. CASE c.mode = "CLIENT" /\ c.reverse /\ ~c.use_zcrx
    BY Zenon, <1>3 DEF Role, EngineRoles
  <1>4. CASE c.mode = "CLIENT" /\ c.reverse /\ c.use_zcrx
    BY Zenon, <1>4 DEF Role, EngineRoles
  <1>5. CASE c.mode = "SERVER" /\ c.use_zcrx
    BY Zenon, <1>5 DEF Role, EngineRoles
  <1>6. CASE c.mode = "SERVER" /\ ~c.use_zcrx /\ c.udp
    BY Zenon, <1>6 DEF Role, EngineRoles
  <1>7. CASE c.mode = "SERVER" /\ ~c.use_zcrx /\ ~c.udp
    BY Zenon, <1>7 DEF Role, EngineRoles
  <1> QED
    BY <1>1, <1>2, <1>3, <1>4, <1>5, <1>6, <1>7, Zenon

\* Entering the loop changes neither the worker's role nor its protocol.
LEMMA ReadyKind ==
    ASSUME StartInv, Ready
    PROVE  /\ role' = role /\ config'.mode = config.mode /\ config'.udp = config.udp
           /\ config' = [f \in Used |-> config'[f]]
           /\ config'.reverse = config.reverse /\ config'.use_zcrx = config.use_zcrx
           /\ config'.sqpoll = FALSE /\ config'.multishot_recv = FALSE
           /\ config'.fixed_buffers = FALSE /\ config'.zcrx_ifname = FALSE /\ config'.port = 0
  <1>1. /\ config' = [config EXCEPT !.port = 0, !.sqpoll = FALSE, !.multishot_recv = FALSE,
                                    !.fixed_buffers = FALSE, !.zcrx_ifname = FALSE]
        /\ Accepted(config)
    BY Zenon DEF Ready, StartInv
  <1>2. /\ config' = [f \in Used |-> config'[f]]
        /\ config'.mode = config.mode /\ config'.udp = config.udp
        /\ config'.reverse = config.reverse /\ config'.use_zcrx = config.use_zcrx
        /\ config'.sqpoll = FALSE /\ config'.multishot_recv = FALSE
        /\ config'.fixed_buffers = FALSE /\ config'.zcrx_ifname = FALSE /\ config'.port = 0
    BY <1>1, Zenon DEF Accepted, Used
  <1>3. role' = role
    BY Zenon, <1>2 DEF role, Role
  <1> QED
    BY Zenon, <1>2, <1>3

\* A release gives back what is held, the first of what is still to be released.
LEMMA ReleaseHead ==
    ASSUME StartInv, Release
    PROVE  /\ Head(todo) \in held /\ held' = held \ {Head(todo)}
           /\ Head(todo) \in Range(todo) /\ Tail(todo) \in Seq(Calls)
           /\ Increasing(ReleaseRank, Tail(todo))
           /\ Range(Tail(todo)) = Range(todo) \ {Head(todo)}
           /\ \A y \in Range(todo) \ {Head(todo)} :
                 y \in Calls /\ ReleaseRank[Head(todo)] < ReleaseRank[y]
  <1>1. /\ pc = "release" /\ todo # <<>> /\ held' = held \ {Head(todo)}
    BY Zenon DEF Release
  <1>2. InRelease
    BY Zenon, <1>1 DEF StartInv
  <1>3. /\ Head(todo) \in Range(todo) /\ Tail(todo) \in Seq(Calls)
        /\ Increasing(ReleaseRank, Tail(todo))
        /\ Range(Tail(todo)) = Range(todo) \ {Head(todo)}
        /\ \A y \in Range(todo) \ {Head(todo)} : ReleaseRank[Head(todo)] < ReleaseRank[y]
    BY Zenon, <1>1, <1>2, Ranks, NextCall DEF InRelease
  <1>4. Head(todo) \in held
    BY Zenon, <1>2, <1>3 DEF InRelease
  <1>5. \A y \in Range(todo) : y \in Calls
    BY <1>2 DEF InRelease, Range
  <1> QED
    BY Zenon, <1>1, <1>3, <1>4, <1>5
--------------------------------------------------------------------------------
\* While a batch is handled its completions are still at the head of the queue.
BatchInCq == pc = "cqe" => batch =< Len(cq)

TypeInv == TypeOK /\ StartInv /\ BatchInCq

--------------------------------------------------------------------------------
(* The invariant *)

Empty == sq = <<>> /\ cq = <<>> /\ armed = [c \in Ctxs |-> 0]

\* Outside its loop a worker has no receives, and what it received into is freed
\* after it was taken back.
IdleInv ==
    /\ Starting \/ ~Receiving \/ "queue" \notin held => Empty
    /\ Starting => /\ failed = {} /\ ~peer_closed
                   /\ ring = IF "buf_mem" \in held /\ Receiving THEN Bufs ELSE {}
    /\ "buf_ring" \notin held \/ ~Receiving => ring = {}
    /\ freed => /\ pc \in {"release", "done"}
                /\ "buf_ring" \notin held
                /\ Receiving /\ cfg.udp => cfg.multishot
    /\ corrupted => pc \in {"release", "done"} /\ ~cfg.udp /\ ~cfg.multishot

\* No context has two receives, and with multishot only the first has one.
TokenInv ==
    /\ \A c \in Ctxs : UnderWay(c) \/ Retired(c)
    /\ cfg.multishot => \A c \in Ctxs \ {1} : Retired(c)

\* What the completion of each kind of receive looks like: a multishot receive
\* carries on exactly if it carries data.
Shape(e) ==
    IF cfg.multishot
    THEN IF e.res = "positive" THEN e.more /\ \E b \in Bufs : e.buf = {b}
         ELSE ~e.more /\ e.buf = {} /\ e.res # "again"
    ELSE ~e.more /\ e.buf = {} /\ e.res # "nobufs"

\* Over TCP nothing comes after the end of the stream.
Ordered ==
    ~cfg.udp =>
        \A i \in DOMAIN cq :
            cq[i].res \in {"zero", "error"} =>
                /\ stream = "ended"
                /\ \A j \in DOMAIN cq : j > i => cq[j].res # "positive"

DataInv ==
    /\ \A i \in DOMAIN cq : Shape(cq[i])
    /\ BuffersConserved
    /\ Ordered
    /\ peer_closed => ~cfg.udp /\ EndsForCause

ReceiveInv == TypeInv /\ IdleInv /\ TokenInv /\ DataInv

\* One reap hands over at most InFlight completions and each prepares at most one
\* receive, so what is prepared and what is still to be handled fit together in a
\* queue of InFlight entries.
Room == pc = "cqe" => Len(sq) + batch =< InFlight

\* Every submit() leaves the submission queue empty.
Flushed == pc \in {"start", "loop", "exit", "release"} => sq = <<>>

\* Only the stop signal or the end of the connection gets a receiver out of its
\* loop.
Cause ==
    /\ Receiving /\ pc \in {"exit", "release"} => stop \/ peer_closed
    /\ peer_closed => Receiving /\ failed # {}

RotationInv == ReceiveInv /\ Room /\ Flushed /\ Cause

--------------------------------------------------------------------------------
(* Frames *)

InLoopStep ==
    \/ Elsewhere \/ Setup \/ Loop \/ BatchEnd \/ SubmitSqe \/ Submitted \/ HandleMore
    \/ HandleNoBufs \/ HandleMultishotEnd \/ HandleRecv \/ HandleRecvEnd

KernelStep == KernelData \/ KernelNoBufs \/ KernelRecv \/ KernelEnd

\* The steps, by what they leave alone.
LEMMA Kinds ==
    ASSUME [Next]_vars
    PROVE  \/ Start \/ Finishing \/ InLoopStep \/ KernelStep \/ PeerEnds \/ StopSignal
           \/ UNCHANGED vars
  BY Zenon DEF Next, Worker, InLoopStep, KernelStep, Terminated

\* A step that keeps the worker keeps what the receiver derives from it.
LEMMA SameWorker ==
    ASSUME UNCHANGED startVars
    PROVE  /\ cfg' = cfg /\ Slots' = Slots /\ (Receiving' <=> Receiving)
           /\ held' = held /\ engine' = engine /\ config' = config
  <1>1. config' = config /\ engine' = engine /\ held' = held
    BY Zenon DEF startVars
  <1>2. cfg' = cfg /\ role' = role
    BY Zenon, <1>1 DEF cfg, role
  <1> QED
    BY Zenon, <1>1, <1>2 DEF Slots, Receiving

\* What a step of the receive loop leaves alone.
LEMMA LoopFrame ==
    ASSUME InLoopStep
    PROVE  /\ pc \notin Outside /\ pc' \notin Outside /\ pc' # "start"
           /\ UNCHANGED <<startVars, stop, stream, freed, corrupted>>
           /\ pc' \in {"submit", "loop", "cqe", "submit_and_wait", "exit"}
  <1> USE DEF Goto, Outside, memory
  <1>1. CASE Elsewhere
    BY Zenon, <1>1 DEF Elsewhere
  <1>2. CASE Setup
    BY Zenon, <1>2 DEF Setup
  <1>3. CASE Loop
    BY Zenon, <1>3 DEF Loop
  <1>4. CASE BatchEnd
    BY Zenon, <1>4 DEF BatchEnd
  <1>5. CASE SubmitSqe
    BY Zenon, <1>5 DEF SubmitSqe
  <1>6. CASE Submitted
    BY Zenon, <1>6 DEF Submitted
  <1>7. CASE HandleMore
    BY Zenon, <1>7 DEF HandleMore, Completion
  <1>8. CASE HandleNoBufs
    BY Zenon, <1>8 DEF HandleNoBufs, Completion
  <1>9. CASE HandleMultishotEnd
    BY Zenon, <1>9 DEF HandleMultishotEnd, Completion
  <1>10. CASE HandleRecv
    BY Zenon, <1>10 DEF HandleRecv, Completion
  <1>11. CASE HandleRecvEnd
    BY Zenon, <1>11 DEF HandleRecvEnd, Completion
  <1> QED
    BY Zenon, <1>1, <1>2, <1>3, <1>4, <1>5, <1>6, <1>7, <1>8, <1>9, <1>10, <1>11
       DEF InLoopStep

\* What a completion of the kernel is.
LEMMA KernelFrame ==
    ASSUME KernelStep
    PROVE  /\ UNCHANGED <<pc, startVars, stop, peer_closed, batch, sq, stream, failed, freed>>
           /\ \E c \in Ctxs, r \in {"positive", "zero", "again", "nobufs", "error"},
                 more \in BOOLEAN, b \in SUBSET ring :
                 Post(c, r, more, b) /\ ring' = ring \ b
  <1>1. CASE KernelData
    <2>1. PICK b \in ring : /\ Post(1, "positive", Len(cq) < CqEntries, {b})
                            /\ ring' = ring \ {b}
      BY Zenon, <1>1 DEF KernelData
    <2>2. 1 \in Ctxs /\ (Len(cq) < CqEntries) \in BOOLEAN /\ {b} \in SUBSET ring
      BY ReceiveAssumption DEF Ctxs
    <2>3. UNCHANGED <<pc, startVars, stop, peer_closed, batch, sq, stream, failed, freed>>
      BY Zenon, <2>1 DEF Post
    <2> QED
      BY Zenon, <2>1, <2>2, <2>3
  <1>2. ASSUME NEW c \in Ctxs, NEW r \in {"positive", "zero", "again", "nobufs", "error"},
               Post(c, r, FALSE, {}), ring' = ring
        PROVE  /\ UNCHANGED <<pc, startVars, stop, peer_closed, batch, sq, stream, failed, freed>>
               /\ \E d \in Ctxs, s \in {"positive", "zero", "again", "nobufs", "error"},
                     more \in BOOLEAN, b \in SUBSET ring :
                     Post(d, s, more, b) /\ ring' = ring \ b
    <2>1. UNCHANGED <<pc, startVars, stop, peer_closed, batch, sq, stream, failed, freed>>
      BY Zenon, <1>2 DEF Post
    <2>2. ring' = ring \ {} /\ {} \in SUBSET ring /\ FALSE \in BOOLEAN
      BY Zenon, <1>2
    <2> QED
      BY Zenon, <1>2, <2>1, <2>2
  <1>3. CASE KernelNoBufs
    <2>1. 1 \in Ctxs /\ "nobufs" \in {"positive", "zero", "again", "nobufs", "error"}
      BY ReceiveAssumption DEF Ctxs
    <2>2. Post(1, "nobufs", FALSE, {}) /\ ring' = ring
      BY Zenon, <1>3 DEF KernelNoBufs
    <2> QED
      BY Zenon, <1>2, <2>1, <2>2
  <1>4. CASE KernelRecv
    <2>1. PICK c \in Ctxs, r \in {"positive", "again"} : Post(c, r, FALSE, {}) /\ ring' = ring
      BY Zenon, <1>4 DEF KernelRecv
    <2> QED
      BY Zenon, <1>2, <2>1
  <1>5. CASE KernelEnd
    <2>1. PICK c \in Ctxs, r \in {"zero", "error"} : Post(c, r, FALSE, {}) /\ ring' = ring
      BY Zenon, <1>5 DEF KernelEnd
    <2> QED
      BY Zenon, <1>2, <2>1
  <1> QED
    BY Zenon, <1>1, <1>3, <1>4, <1>5 DEF KernelStep

--------------------------------------------------------------------------------
(* Types *)

\* The assumptions on the constants, as the proofs use them.
LEMMA Constants ==
    /\ InFlight \in Nat /\ InFlight > 0 /\ BufCount \in Nat /\ BufCount > 0
    /\ 1 \in Ctxs /\ Ctxs = 1..InFlight /\ Bufs = 1..BufCount
  <1>1. InFlight \in Nat \ {0}
    BY Zenon, ReceiveAssumption
  <1>2. PICK e \in 0..InFlight : BufCount = 2^e /\ 2^e >= InFlight
    BY Zenon, ReceiveAssumption
  <1>3. BufCount \in Nat /\ BufCount > 0
    <2>1. e \in Nat
      BY <1>1
    <2>2. 2^e \in Int
      BY <2>1
    <2> QED
      BY <1>1, <1>2, <2>2
  <1> QED
    BY <1>1, <1>3 DEF Ctxs, Bufs

RecvSqe(c) == [kind |-> "RECV", fd |-> Sock, ctx |-> c]
MultishotSqe(c) == [kind |-> "RECV_MULTISHOT", fd |-> Sock, ctx |-> c]

\* What the preparing calls of a context return.
LEMMA SqeType ==
    ASSUME NEW c \in Ctxs, NEW q \in Seq(Sqes)
    PROVE  /\ RecvSqe(c) \in Sqes /\ MultishotSqe(c) \in Sqes
           /\ prep_recv(q, Sock, c) = GetSqe(q, RecvSqe(c))
           /\ prep_recv_multishot(q, Sock, c) = GetSqe(q, MultishotSqe(c))
           /\ prep_recv(q, Sock, c) \in Seq(Sqes)
           /\ prep_recv_multishot(q, Sock, c) \in Seq(Sqes)
  <1>1. RecvSqe(c) \in Sqes /\ MultishotSqe(c) \in Sqes
    BY Zenon DEF RecvSqe, MultishotSqe, Sqes
  <1>2. /\ prep_recv(q, Sock, c) = GetSqe(q, RecvSqe(c))
        /\ prep_recv_multishot(q, Sock, c) = GetSqe(q, MultishotSqe(c))
    BY Zenon DEF prep_recv, prep_recv_multishot, RecvSqe, MultishotSqe
  <1> QED
    BY Zenon, <1>1, <1>2, GetSqeProperties

\* The SQEs the worker prepares first, without multishot.
First == [c \in Ctxs |-> RecvSqe(c)]

\* The receives that run_client_reverse() and run_server() prepare first.
LEMMA FirstType == First \in Seq(Sqes) /\ Len(First) = InFlight
  <1>1. \A c \in Ctxs : First[c] \in Sqes
    BY Zenon DEF First, RecvSqe, Sqes
  <1>2. First \in [1..InFlight -> Sqes] /\ InFlight \in Nat
    BY Zenon, <1>1, Constants DEF First
  <1> QED
    BY <1>2

\* The parts of TypeOK that are not Startup's.
Types ==
    /\ pc \in {"main", "setup", "start", "submit", "loop", "cqe", "submit_and_wait",
               "exit", "release", "done", "aborted", "exited"}
    /\ stop \in BOOLEAN /\ peer_closed \in BOOLEAN /\ freed \in BOOLEAN
    /\ corrupted \in BOOLEAN
    /\ batch \in Nat
    /\ sq \in Seq(Sqes)
    /\ armed \in [Ctxs -> Nat]
    /\ cq \in Seq(Cqes)
    /\ ring \subseteq Bufs
    /\ stream \in {"open", "ended"}
    /\ failed \subseteq Ctxs

\* TypeInv in three parts, before and after a step.
LEMMA TypeInvIs ==
    /\ TypeInv <=> StartInv /\ Types /\ BatchInCq
    /\ TypeInv' <=> StartInv' /\ Types' /\ BatchInCq'
  <1>1. StartInv => StartTypeOK
    <2>1. StartInv => DOMAIN config = Used
      BY Zenon DEF StartInv, Accepted
    <2> QED
      BY Zenon, <2>1 DEF StartInv, StartTypeOK, Resources
  <1>2. StartInv' => StartTypeOK'
    <2>1. StartInv' => (DOMAIN config = Used)'
      BY Zenon DEF StartInv, Accepted
    <2> QED
      BY Zenon, <2>1 DEF StartInv, StartTypeOK, Resources
  <1> QED
    BY Zenon, <1>1, <1>2 DEF TypeInv, TypeOK, Types

\* What every handler finds at the head of the completion queue, and leaves.
LEMMA SeenType ==
    ASSUME TypeInv, NEW m \in BOOLEAN, Completion(m)
    PROVE  /\ cq \in Seq(Cqes) /\ cq # <<>>
           /\ Head(cq) \in Cqes /\ ctx \in Ctxs /\ Head(cq).buf \in SUBSET Bufs
           /\ Head(cq) = cq[1] /\ 1 \in DOMAIN cq
           /\ cq' \in Seq(Cqes) /\ cq' = Tail(cq)
           /\ Len(cq') = Len(cq) - 1
           /\ batch \in Nat /\ batch > 0 /\ batch' \in Nat /\ batch' = batch - 1
           /\ batch' =< Len(cq')
           /\ pc = "cqe" /\ pc' = "cqe" /\ UNCHANGED <<startVars, stop, stream, armed, memory>>
  <1>1. /\ cq \in Seq(Cqes) /\ cq # <<>> /\ batch \in Nat /\ batch =< Len(cq) /\ batch > 0
        /\ pc = "cqe"
    BY DEF TypeInv, TypeOK, BatchInCq, Completion
  <1>2. /\ cq' = Tail(cq) /\ batch' = batch - 1 /\ pc' = "cqe"
        /\ UNCHANGED <<startVars, stop, stream, armed, memory>>
    BY Zenon DEF Completion, Goto
  <1>3. Head(cq) \in Cqes /\ Head(cq) = cq[1] /\ 1 \in DOMAIN cq
    BY <1>1
  <1>4. ctx \in Ctxs /\ Head(cq).buf \in SUBSET Bufs
    BY Zenon, <1>3 DEF Cqes, ctx
  <1>5. cq' \in Seq(Cqes) /\ Len(cq') = Len(cq) - 1
    BY <1>1, <1>2
  <1>6. batch' \in Nat /\ batch' =< Len(cq')
    BY <1>1, <1>2, <1>5
  <1> QED
    BY Zenon, <1>1, <1>2, <1>3, <1>4, <1>5, <1>6

\* A completion the kernel posts keeps the types.
LEMMA PostType ==
    ASSUME TypeInv, NEW c \in Ctxs, NEW b \in SUBSET Bufs, NEW more \in BOOLEAN,
           NEW r \in {"positive", "zero", "again", "nobufs", "error"}, Post(c, r, more, b)
    PROVE  /\ [ctx |-> c, res |-> r, more |-> more, buf |-> b] \in Cqes
           /\ cq \in Seq(Cqes) /\ cq' \in Seq(Cqes)
           /\ cq' = Append(cq, [ctx |-> c, res |-> r, more |-> more, buf |-> b])
           /\ Len(cq') = Len(cq) + 1
           /\ armed \in [Ctxs -> Nat] /\ armed' \in [Ctxs -> Nat] /\ armed[c] > 0
           /\ \A d \in Ctxs : armed'[d] = IF d = c /\ ~more THEN armed[d] - 1 ELSE armed[d]
           /\ corrupted' \in BOOLEAN
  <1>1. [ctx |-> c, res |-> r, more |-> more, buf |-> b] \in Cqes
    BY Zenon DEF Cqes
  <1>2. cq \in Seq(Cqes) /\ armed \in [Ctxs -> Nat]
    BY Zenon DEF TypeInv, TypeOK
  <1>3. /\ cq' = Append(cq, [ctx |-> c, res |-> r, more |-> more, buf |-> b])
        /\ armed[c] > 0 /\ armed' = IF more THEN armed ELSE [armed EXCEPT ![c] = @ - 1]
        /\ corrupted' = (corrupted \/ (freed /\ r = "positive"))
    BY Zenon DEF Post
  <1>4. cq' \in Seq(Cqes) /\ Len(cq') = Len(cq) + 1
    BY <1>1, <1>2, <1>3
  <1>5. /\ armed' \in [Ctxs -> Nat]
        /\ \A d \in Ctxs : armed'[d] = IF d = c /\ ~more THEN armed[d] - 1 ELSE armed[d]
    <2>1. CASE more
      BY Zenon, <1>2, <1>3, <2>1
    <2>2. CASE ~more
      BY <1>2, <1>3, <2>2
    <2> QED
      BY Zenon, <2>1, <2>2
  <1> QED
    BY Zenon, <1>1, <1>2, <1>3, <1>4, <1>5

--------------------------------------------------------------------------------

\* What a step of the setup does to the receiver,
LEMMA StartFrame ==
    ASSUME Start
    PROVE  /\ pc \in {"main", "setup"}
           /\ pc' \in {"setup", "start", "done", "aborted", "exited"}
           /\ ring' = IF "buf_mem" \in held' /\ Receiving THEN Bufs ELSE {}
           /\ UNCHANGED <<stop, peer_closed, batch, sq, armed, cq, stream, failed, freed,
                          corrupted>>
  <1>1. pc \in {"main", "setup"} /\ pc' \in {"setup", "start", "done", "aborted", "exited"}
    <2>1. CASE Main
      BY Zenon, <2>1 DEF Main
    <2>2. CASE Ready
      BY Zenon, <2>2 DEF Ready
    <2>3. CASE SocketCall \/ SocketCallFails \/ ConstructEngine \/ ConstructThrows
      BY Zenon, <2>3
         DEF SocketCall, SocketCallFails, ConstructEngine, ConstructThrows, Calling
    <2>4. CASE Register \/ AllocatePool \/ SetupBufRing
      BY Zenon, <2>4 DEF Register, AllocatePool, SetupBufRing, Calling
    <2>5. CASE SetupBufMem
      BY Zenon, <2>5 DEF SetupBufMem, AllocateBufMem, Calling
    <2> QED
      BY Zenon, <2>1, <2>2, <2>3, <2>4, <2>5 DEF Start
  <1> QED
    BY Zenon, <1>1 DEF Start, memory

\* and a step on the way out.
LEMMA FinishFrame ==
    ASSUME Finishing
    PROVE  /\ pc \in {"exit", "release"} /\ pc' \in {"release", "done"}
           /\ config' = config /\ engine' = engine /\ held' \subseteq held
           /\ (Receiving' <=> Receiving) /\ cfg' = cfg /\ Slots' = Slots
           /\ freed' = (freed \/ (held \ held') \cap {"pool", "buf_mem"} # {})
           /\ ring' = IF "buf_ring" \in held \ held' THEN {} ELSE ring
           /\ IF "queue" \in held \ held'
              THEN sq' = <<>> /\ cq' = <<>> /\ armed' = [c \in Ctxs |-> 0]
              ELSE UNCHANGED <<sq, cq, armed>>
           /\ UNCHANGED <<stop, peer_closed, batch, stream, failed, corrupted>>
  <1>1. /\ pc \in {"exit", "release"} /\ pc' \in {"release", "done"}
        /\ config' = config /\ engine' = engine /\ held' \subseteq held
    <2>1. CASE Leave
      BY Zenon, <2>1 DEF Leave
    <2>2. CASE Release
      BY Zenon, <2>2 DEF Release
    <2>3. CASE Return
      BY Zenon, <2>3 DEF Return, startVars
    <2> QED
      BY Zenon, <2>1, <2>2, <2>3 DEF Finishing
  <1>2. cfg' = cfg /\ role' = role
    BY Zenon, <1>1 DEF cfg, role
  <1>3. (Receiving' <=> Receiving) /\ Slots' = Slots
    BY Zenon, <1>2 DEF Receiving, Slots
  <1> QED
    BY Zenon, <1>1, <1>2, <1>3 DEF Finishing

\* Every variable starts in its domain,
LEMMA TypeInit == Init /\ StartInv => TypeInv
  <1> SUFFICES ASSUME Init PROVE Types /\ BatchInCq
    BY Zenon, TypeInvIs
  <1>1. sq \in Seq(Sqes) /\ cq \in Seq(Cqes) /\ armed \in [Ctxs -> Nat] /\ pc = "main"
    BY DEF Init, StartInit
  <1> QED
    BY Zenon, <1>1 DEF Init, Types, BatchInCq

\* The first SQEs, and the queue after them.
LEMMA SetupQueue ==
    ASSUME IdleInv, Setup
    PROVE  /\ sq = <<>> /\ cq = <<>> /\ armed = [c \in Ctxs |-> 0]
           /\ cfg.multishot => sq' = <<MultishotSqe(1)>>
           /\ ~cfg.multishot => sq' = PrepEach(<<>>, First)
           /\ sq' \in Seq(Sqes)
           /\ cq' = <<>> /\ armed' = [c \in Ctxs |-> 0]
  <1>1. sq = <<>> /\ cq = <<>> /\ armed = [c \in Ctxs |-> 0]
    BY Zenon DEF IdleInv, Empty, Starting, Setup
  <1>2. cq' = <<>> /\ armed' = [c \in Ctxs |-> 0]
    BY Zenon, <1>1 DEF Setup
  <1>3. <<>> \in Seq(Sqes) /\ Len(<<>>) = 0 /\ 0 < QueueDepth /\ 1 \in Ctxs
    BY QueueDepthAssumption, Constants
  <1>4. CASE cfg.multishot
    <2>1. sq' = prep_recv_multishot(<<>>, Sock, 1)
      BY Zenon, <1>1, <1>4 DEF Setup
    <2>2. sq' = GetSqe(<<>>, MultishotSqe(1)) /\ MultishotSqe(1) \in Sqes
      BY Zenon, <1>3, <2>1, SqeType
    <2>3. sq' = Append(<<>>, MultishotSqe(1))
      BY Zenon, <1>3, <2>2, GetSqeProperties
    <2>4. ASSUME NEW e \in Sqes
          PROVE  Append(<<>>, e) = <<e>> /\ <<e>> \in Seq(Sqes)
      OBVIOUS
    <2>5. sq' = <<MultishotSqe(1)>> /\ sq' \in Seq(Sqes)
      BY Zenon, <2>2, <2>3, <2>4
    <2> QED
      BY Zenon, <1>1, <1>2, <1>4, <2>5
  <1>5. CASE ~cfg.multishot
    <2>1. sq' = PrepEach(<<>>, First)
      BY Zenon, <1>1, <1>5 DEF Setup, First, RecvSqe
    <2>2. Len(<<>>) =< QueueDepth
      BY QueueDepthAssumption
    <2>3. sq' \in Seq(Sqes)
      BY Zenon, <1>3, <2>1, <2>2, FirstType, PrepEachProperties
    <2> QED
      BY Zenon, <1>1, <1>2, <1>5, <2>1, <2>3
  <1> QED
    BY Zenon, <1>4, <1>5

\* What a handler does to the submission queue.
LEMMA HandleQueue ==
    ASSUME TypeInv, HandleMore \/ HandleNoBufs \/ HandleMultishotEnd \/ HandleRecv
                    \/ HandleRecvEnd
    PROVE  /\ \E m \in BOOLEAN : Completion(m)
           /\ \/ sq' = sq
              \/ sq' = GetSqe(sq, RecvSqe(ctx))
              \/ sq' = GetSqe(sq, MultishotSqe(ctx))
           /\ sq \in Seq(Sqes) /\ sq' \in Seq(Sqes)
           /\ ring' = ring \/ ring' = ring \cup Head(cq).buf
           /\ failed' = failed \/ failed' = failed \cup {ctx}
           /\ peer_closed' \in BOOLEAN
  <1>1. PICK m \in BOOLEAN : Completion(m)
    <2>1. CASE HandleMore \/ HandleNoBufs \/ HandleMultishotEnd
      <3>1. Completion(TRUE)
        BY Zenon, <2>1 DEF HandleMore, HandleNoBufs, HandleMultishotEnd
      <3> QED
        BY Zenon, <3>1
    <2>2. CASE HandleRecv \/ HandleRecvEnd
      <3>1. Completion(FALSE)
        BY Zenon, <2>2 DEF HandleRecv, HandleRecvEnd
      <3> QED
        BY Zenon, <3>1
    <2> QED
      BY Zenon, <2>1, <2>2
  <1>2. ctx \in Ctxs
    BY Zenon, <1>1, SeenType
  <1>3. sq \in Seq(Sqes)
    BY Zenon DEF TypeInv, TypeOK
  <1>4. peer_closed \in BOOLEAN
    BY Zenon DEF TypeInv, TypeOK
  <1>5. /\ prep_recv(sq, Sock, ctx) = GetSqe(sq, RecvSqe(ctx))
        /\ prep_recv_multishot(sq, Sock, ctx) = GetSqe(sq, MultishotSqe(ctx))
        /\ prep_recv(sq, Sock, ctx) \in Seq(Sqes)
        /\ prep_recv_multishot(sq, Sock, ctx) \in Seq(Sqes)
    BY Zenon, <1>2, <1>3, SqeType
  <1>6. cfg.udp \in BOOLEAN
    BY Zenon DEF TypeInv, StartInv, Accepted, cfg
  <1> HIDE DEF ctx
  <1>7. CASE HandleMore
    BY Zenon, <1>1, <1>3, <1>4, <1>7 DEF HandleMore, return_recv_buffer
  <1>8. CASE HandleNoBufs
    BY Zenon, <1>1, <1>3, <1>4, <1>5, <1>8 DEF HandleNoBufs
  <1>9. CASE HandleMultishotEnd
    <2>1. ring' = ring \cup Head(cq).buf
      BY Zenon, <1>9 DEF HandleMultishotEnd, return_recv_buffer
    <2>2. CASE cfg.udp
      <3>1. /\ sq' = IF stop THEN sq ELSE prep_recv_multishot(sq, Sock, ctx)
            /\ UNCHANGED <<peer_closed, failed>>
        BY Zenon, <1>9, <2>2 DEF HandleMultishotEnd
      <3> QED
        BY Zenon, <1>1, <1>3, <1>4, <1>5, <2>1, <3>1
    <2>3. CASE ~cfg.udp
      <3>1. peer_closed' = TRUE /\ failed' = failed \cup {ctx} /\ UNCHANGED sq
        BY Zenon, <1>9, <2>3 DEF HandleMultishotEnd
      <3> QED
        BY Zenon, <1>1, <1>3, <2>1, <3>1
    <2> QED
      BY Zenon, <2>2, <2>3
  <1>10. CASE HandleRecv
    <2>1. /\ sq' = IF stop /\ ~cfg.udp THEN sq ELSE prep_recv(sq, Sock, ctx)
          /\ UNCHANGED <<peer_closed, ring, failed>>
      BY Zenon, <1>10 DEF HandleRecv
    <2> QED
      BY Zenon, <1>1, <1>3, <1>4, <1>5, <2>1
  <1>11. CASE HandleRecvEnd
    <2>1. /\ peer_closed' = ~cfg.udp /\ failed' = failed \cup {ctx} /\ UNCHANGED <<sq, ring>>
      BY Zenon, <1>11 DEF HandleRecvEnd
    <2>2. peer_closed' \in BOOLEAN
      BY Zenon, <1>6, <2>1
    <2> QED
      BY Zenon, <1>1, <1>3, <2>1, <2>2
  <1> QED
    BY Zenon, <1>7, <1>8, <1>9, <1>10, <1>11

\* and stays in it.
LEMMA TypeStep ==
    ASSUME TypeInv, IdleInv, [Next]_vars, StartInv'
    PROVE  TypeInv'
  <1>t. StartInv /\ Types /\ BatchInCq
    BY Zenon, TypeInvIs
  <1> SUFFICES Types' /\ BatchInCq'
    BY Zenon, TypeInvIs
  <1>1. CASE Start
    <2>1. /\ pc' \in {"setup", "start", "done", "aborted", "exited"}
          /\ ring' \in {Bufs, {}}
          /\ UNCHANGED <<stop, peer_closed, batch, sq, armed, cq, stream, failed, freed,
                         corrupted>>
      BY Zenon, <1>1, StartFrame
    <2> QED
      BY Zenon, <1>t, <2>1 DEF Types, BatchInCq
  <1>2. CASE Finishing
    <2>1. sq' \in Seq(Sqes) /\ cq' \in Seq(Cqes) /\ armed' \in [Ctxs -> Nat]
      <3>1. CASE "queue" \in held \ held'
        <4>1. sq' = <<>> /\ cq' = <<>> /\ armed' = [c \in Ctxs |-> 0]
          BY Zenon, <1>2, <3>1, FinishFrame
        <4> QED
          BY <4>1
      <3>2. CASE "queue" \notin held \ held'
        <4>1. UNCHANGED <<sq, cq, armed>>
          BY Zenon, <1>2, <3>2, FinishFrame
        <4> QED
          BY Zenon, <1>t, <4>1 DEF Types
      <3> QED
        BY Zenon, <3>1, <3>2
    <2>2. ring' \subseteq Bufs
      BY Zenon, <1>t, <1>2, FinishFrame DEF Types
    <2>3. freed' \in BOOLEAN
      BY Zenon, <1>2, FinishFrame
    <2>4. /\ pc' \in {"release", "done"}
          /\ UNCHANGED <<stop, peer_closed, batch, stream, failed, corrupted>>
      BY Zenon, <1>2, FinishFrame
    <2> QED
      BY Zenon, <1>t, <2>1, <2>2, <2>3, <2>4 DEF Types, BatchInCq
  <1>3. CASE HandleMore \/ HandleNoBufs \/ HandleMultishotEnd \/ HandleRecv \/ HandleRecvEnd
    <2>1. PICK m \in BOOLEAN : Completion(m)
      BY Zenon, <1>3, HandleQueue
    <2>2. /\ ctx \in Ctxs /\ Head(cq).buf \in SUBSET Bufs /\ cq' \in Seq(Cqes)
          /\ batch' \in Nat /\ batch' =< Len(cq') /\ pc' = "cqe"
          /\ UNCHANGED <<stop, stream, armed, freed, corrupted>>
      BY Zenon, <2>1, SeenType DEF memory
    <2>3. sq' \in Seq(Sqes) /\ peer_closed' \in BOOLEAN
      BY Zenon, <1>3, HandleQueue
    <2>4. ring' = ring \/ ring' = ring \cup Head(cq).buf
      BY Zenon, <1>3, HandleQueue
    <2>5. failed' = failed \/ failed' = failed \cup {ctx}
      BY Zenon, <1>3, HandleQueue
    <2>6. ring' \subseteq Bufs /\ failed' \subseteq Ctxs
      BY Zenon, <1>t, <2>2, <2>4, <2>5 DEF Types
    <2> QED
      BY Zenon, <1>t, <2>2, <2>3, <2>6 DEF Types, BatchInCq
  <1>4. CASE Elsewhere \/ BatchEnd \/ Submitted
    <2>1. UNCHANGED <<stop, stream, peer_closed, batch, sq, armed, cq, ring, failed, freed,
                      corrupted>>
      BY Zenon, <1>4 DEF Elsewhere, BatchEnd, Submitted, Goto, engineVars, memory
    <2>2. pc' \in {"exit", "submit", "loop"}
      BY Zenon, <1>4 DEF Elsewhere, BatchEnd, Submitted, Goto
    <2> QED
      BY Zenon, <1>t, <2>1, <2>2 DEF Types, BatchInCq
  <1>5. CASE Setup
    <2>1. sq' \in Seq(Sqes)
      BY Zenon, <1>5, SetupQueue
    <2>2. /\ UNCHANGED <<stop, stream, peer_closed, batch, armed, cq, ring, failed, freed,
                         corrupted>>
          /\ pc' = "submit"
      BY Zenon, <1>5 DEF Setup, Goto, memory
    <2> QED
      BY Zenon, <1>t, <2>1, <2>2 DEF Types, BatchInCq
  <1>6. CASE Loop
    <2>1. UNCHANGED <<stop, stream, peer_closed, sq, armed, cq, ring, failed, freed, corrupted>>
      BY Zenon, <1>6 DEF Loop, Goto, engineVars, memory
    <2>2. Len(cq) \in Nat /\ InFlight \in Nat
      BY <1>t, Constants DEF Types
    <2>3. reap_completions(Len(cq), InFlight) \in Nat
      BY Zenon, <2>2 DEF reap_completions, Lesser
    <2>4. reap_completions(Len(cq), InFlight) =< Len(cq)
      BY <2>2 DEF reap_completions, Lesser
    <2>5. \/ pc' \in {"exit", "submit_and_wait"} /\ batch' = batch
          \/ pc' = "cqe" /\ batch' = reap_completions(Len(cq), InFlight)
      BY Zenon, <1>6 DEF Loop, Goto
    <2>6. pc' \in {"exit", "submit_and_wait", "cqe"} /\ batch' \in Nat
      BY Zenon, <1>t, <2>3, <2>5 DEF Types
    <2>7. BatchInCq'
      BY Zenon, <2>1, <2>4, <2>5 DEF BatchInCq
    <2> QED
      BY Zenon, <1>t, <2>1, <2>6, <2>7 DEF Types
  <1>7. CASE SubmitSqe
    <2>1. sq \in Seq(Sqes) /\ sq # <<>> /\ sq' = Tail(sq) /\ armed \in [Ctxs -> Nat]
      BY Zenon, <1>t, <1>7 DEF Types, SubmitSqe
    <2>2. Head(sq) \in Sqes /\ sq' \in Seq(Sqes)
      BY <2>1
    <2>3. Head(sq).ctx \in Ctxs
      BY Zenon, <2>2 DEF Sqes
    <2>4. armed' \in [Ctxs -> Nat]
      BY <1>7, <2>1, <2>3 DEF SubmitSqe
    <2>5. /\ UNCHANGED <<stop, stream, peer_closed, batch, cq, ring, failed, freed, corrupted>>
          /\ pc' = pc /\ pc \in {"submit", "submit_and_wait"}
      BY Zenon, <1>7 DEF SubmitSqe, Goto, memory
    <2> QED
      BY Zenon, <1>t, <2>2, <2>4, <2>5 DEF Types, BatchInCq
  <1>8. CASE KernelStep
    <2>1. PICK c \in Ctxs, r \in {"positive", "zero", "again", "nobufs", "error"},
               more \in BOOLEAN, b \in SUBSET ring :
               Post(c, r, more, b) /\ ring' = ring \ b
      BY Zenon, <1>8, KernelFrame
    <2>2. UNCHANGED <<pc, stop, peer_closed, batch, sq, stream, failed, freed>>
      BY Zenon, <1>8, KernelFrame
    <2>3. b \in SUBSET Bufs
      BY Zenon, <1>t DEF Types
    <2>4. cq' \in Seq(Cqes) /\ armed' \in [Ctxs -> Nat] /\ corrupted' \in BOOLEAN
          /\ Len(cq') = Len(cq) + 1
      BY Zenon, <2>1, <2>3, PostType
    <2>5. Len(cq) \in Nat /\ batch \in Nat
      BY <1>t DEF Types
    <2>6. BatchInCq'
      BY <1>t, <2>2, <2>4, <2>5 DEF BatchInCq
    <2> QED
      BY Zenon, <1>t, <2>1, <2>2, <2>4, <2>6 DEF Types
  <1>9. CASE PeerEnds \/ StopSignal \/ UNCHANGED vars
    BY Zenon, <1>t, <1>9
       DEF PeerEnds, StopSignal, vars, receiveVars, engineVars, memory, Types,
                      BatchInCq
  <1> QED
    BY Zenon, <1>1, <1>2, <1>3, <1>4, <1>5, <1>6, <1>7, <1>8, <1>9, Kinds DEF InLoopStep

--------------------------------------------------------------------------------
(* Outside the loop *)

\* What follows from StartInv about a worker that receives.
LEMMA ReceiverFacts ==
    ASSUME StartInv
    PROVE  /\ cfg.udp \in BOOLEAN /\ cfg.multishot \in BOOLEAN
           /\ cfg.udp = config.udp /\ cfg.multishot = engine.recv_buf_ring
           /\ Receiving /\ cfg.udp => role = "server_udp"
           /\ Receiving /\ ~cfg.udp => role = "client_reverse"
           /\ pc \notin Outside => /\ Receiving => "queue" \in held
                                   /\ "buf_ring" \in held <=> cfg.multishot
                                   /\ "buf_mem" \in held <=> cfg.multishot
  <1>1. /\ cfg.udp = config.udp /\ cfg.multishot = engine.recv_buf_ring
        /\ cfg.udp \in BOOLEAN /\ cfg.multishot \in BOOLEAN
    BY Zenon DEF StartInv, Accepted, cfg
  <1>2. Accepted(config)
    BY Zenon DEF StartInv
  <1>3. /\ Receiving /\ cfg.udp => role = "server_udp"
        /\ Receiving /\ ~cfg.udp => role = "client_reverse"
    BY Zenon, <1>1, <1>2, Roles DEF Receiving, role, Accepted
  <1> QED
    BY Zenon, <1>1, <1>3 DEF StartInv, InLoop, Receiving, EngineRoles

\* On the way in the worker's kind of receiver changes only in main().
LEMMA StartKind ==
    ASSUME StartInv, Start
    PROVE  \/ pc = "main" /\ held' = {}
           \/ /\ pc = "setup" /\ role' = role /\ (Receiving' <=> Receiving)
              /\ config'.udp = config.udp
  <1>1. CASE Main
    BY Zenon, <1>1 DEF Main, StartInv
  <1>2. CASE Ready
    BY Zenon, <1>2, ReadyKind DEF Ready, Receiving
  <1>3. CASE SocketCall \/ SocketCallFails \/ ConstructEngine \/ ConstructThrows
    BY Zenon, <1>3
       DEF SocketCall, SocketCallFails, ConstructEngine, ConstructThrows, Calling,
                Receiving, role
  <1>4. CASE Register \/ AllocatePool \/ SetupBufRing
    BY Zenon, <1>4 DEF Register, AllocatePool, SetupBufRing, Calling, Receiving, role
  <1>5. CASE SetupBufMem
    BY Zenon, <1>5 DEF SetupBufMem, AllocateBufMem, Calling, Receiving, role
  <1> QED
    BY Zenon, <1>1, <1>2, <1>3, <1>4, <1>5 DEF Start

\* What is freed on the way out is not written to any more, except by the
\* receives of a client without multishot.
LEMMA FreedOnTheWayOut ==
    ASSUME StartInv, Leave \/ Release \/ Return, (held \ held') \cap {"pool", "buf_mem"} # {}
    PROVE  "buf_ring" \notin held' /\ (Receiving /\ cfg.udp => cfg.multishot)
  <1>1. CASE Leave
    BY Zenon, <1>1 DEF Leave
  <1>2. CASE Return
    BY Zenon, <1>2 DEF Return, startVars
  <1>3. CASE Release
    <2>1. InRelease /\ pc = "release"
      BY Zenon, <1>3 DEF StartInv, Release
    <2>2. /\ Head(todo) \in held /\ held' = held \ {Head(todo)}
          /\ \A y \in Range(todo) \ {Head(todo)} :
                y \in Calls /\ ReleaseRank[Head(todo)] < ReleaseRank[y]
      BY Zenon, <1>3, ReleaseHead
    <2>3. Head(todo) \in {"pool", "buf_mem"}
      BY Zenon, <2>2
    <2>4. Head(todo) \in Range(todo)
      BY <1>3, <2>1 DEF Release, InRelease, Range
    <2>5. "pool" \in held => "buf_ring" \notin held
      BY Zenon, <2>1 DEF InRelease
    <2>6. CASE Head(todo) = "pool"
      <3>1. Left = {} /\ role # "server_udp"
        BY Zenon, <2>1, <2>4, <2>6 DEF InRelease, Left
      <3> QED
        BY Zenon, <2>2, <2>5, <2>6, <3>1, ReceiverFacts
    <2>7. CASE Head(todo) = "buf_mem"
      <3>1. cfg.multishot
        BY Zenon, <2>1, <2>2, <2>7, ReceiverFacts DEF InRelease
      <3>2. ~(ReleaseRank["buf_mem"] < ReleaseRank["buf_ring"])
        <4>1. "buf_mem" \in Calls /\ "buf_ring" \in Calls
          BY Zenon DEF Calls
        <4>2. ReleaseRank["buf_mem"] = 6 /\ ReleaseRank["buf_ring"] = 5
          BY <4>1, Zenon DEF ReleaseRank
        <4> QED
          BY <4>2
      <3>3. "buf_ring" \notin Range(todo)
        BY Zenon, <2>2, <2>7, <3>2
      <3>4. "buf_ring" \notin held
        BY Zenon, <2>1, <3>3 DEF InRelease, Left
      <3> QED
        BY Zenon, <2>2, <3>1, <3>4
    <2> QED
      BY Zenon, <2>3, <2>6, <2>7
  <1> QED
    BY Zenon, <1>1, <1>2, <1>3

\* Outside its loop a worker has no receives: at the start,
LEMMA IdleInit == Init => IdleInv
  <1> SUFFICES ASSUME Init PROVE IdleInv
    BY Zenon
  <1>1. held = {} /\ pc = "main"
    BY Zenon DEF Init, StartInit
  <1> QED
    BY Zenon, <1>1 DEF Init, IdleInv, Empty

\* and after every step.
LEMMA IdleStep ==
    ASSUME TypeInv, IdleInv, [Next]_vars, StartInv'
    PROVE  IdleInv'
  <1>0. StartInv /\ StartInv' /\ Types /\ BatchInCq
    BY Zenon, TypeInvIs
  <1>1. CASE Start
    <2>1. /\ pc \in {"main", "setup"}
          /\ pc' \in {"setup", "start", "done", "aborted", "exited"}
          /\ ring' = IF "buf_mem" \in held' /\ Receiving THEN Bufs ELSE {}
          /\ UNCHANGED <<peer_closed, sq, armed, cq, failed, freed, corrupted>>
      BY Zenon, <1>1, StartFrame
    <2>2. Empty' /\ failed' = {} /\ ~peer_closed' /\ ~freed' /\ ~corrupted'
      BY Zenon, <2>1 DEF IdleInv, Starting, Empty
    <2>3. \/ "buf_mem" \notin held'
          \/ Receiving' <=> Receiving
      BY Zenon, <1>0, <1>1, StartKind
    <2>4. ring' = IF "buf_mem" \in held' /\ Receiving' THEN Bufs ELSE {}
      BY Zenon, <2>1, <2>3
    <2>5. "buf_mem" \in held' => "buf_ring" \in held'
      <3>1. CASE pc' = "setup"
        BY Zenon, <1>0, <3>1 DEF StartInv, InSetup
      <3>2. CASE pc' = "start"
        BY Zenon, <1>0, <3>2 DEF StartInv, InLoop, Outside
      <3>3. CASE pc' \in {"done", "aborted", "exited"}
        BY Zenon, <1>0, <3>3 DEF StartInv, Left
      <3> QED
        BY Zenon, <2>1, <3>1, <3>2, <3>3
    <2> QED
      BY Zenon, <2>2, <2>4, <2>5 DEF IdleInv
  <1>2. CASE Finishing
    <2>1. /\ pc' \in {"release", "done"} /\ pc \in {"exit", "release"}
          /\ ~Starting' /\ ~Starting
      BY Zenon, <1>2, FinishFrame DEF Starting
    <2>2. held' \subseteq held /\ (Receiving' <=> Receiving) /\ cfg' = cfg
      BY Zenon, <1>2, FinishFrame
    <2>3. /\ freed' = (freed \/ (held \ held') \cap {"pool", "buf_mem"} # {})
          /\ ring' = IF "buf_ring" \in held \ held' THEN {} ELSE ring
          /\ corrupted' = corrupted
      BY Zenon, <1>2, FinishFrame
    <2>4. ~Receiving' \/ "queue" \notin held' => Empty'
      <3>1. CASE "queue" \in held \ held'
        BY Zenon, <1>2, <3>1, FinishFrame DEF Empty
      <3>2. CASE "queue" \notin held \ held'
        <4>1. UNCHANGED <<sq, cq, armed>>
          BY Zenon, <1>2, <3>2, FinishFrame
        <4> QED
          BY Zenon, <2>2, <3>2, <4>1 DEF IdleInv, Empty
      <3> QED
        BY Zenon, <3>1, <3>2
    <2>5. "buf_ring" \notin held' \/ ~Receiving' => ring' = {}
      BY Zenon, <2>2, <2>3 DEF IdleInv
    <2>6. freed' => "buf_ring" \notin held' /\ (Receiving' /\ cfg'.udp => cfg'.multishot)
      <3>1. Leave \/ Release \/ Return
        BY Zenon, <1>2 DEF Finishing
      <3>2. CASE (held \ held') \cap {"pool", "buf_mem"} # {}
        BY Zenon, <1>0, <2>2, <3>1, <3>2, FreedOnTheWayOut
      <3>3. CASE (held \ held') \cap {"pool", "buf_mem"} = {}
        BY Zenon, <2>2, <2>3, <3>3 DEF IdleInv
      <3> QED
        BY Zenon, <3>2, <3>3
    <2> QED
      BY Zenon, <2>1, <2>2, <2>3, <2>4, <2>5, <2>6 DEF IdleInv
  <1>3. CASE InLoopStep
    <2>1. /\ pc \notin Outside /\ UNCHANGED <<startVars, freed, corrupted>>
          /\ pc' \in {"submit", "loop", "cqe", "submit_and_wait", "exit"}
      BY Zenon, <1>3, LoopFrame
    <2>2. /\ cfg' = cfg /\ (Receiving' <=> Receiving) /\ held' = held
      BY Zenon, <2>1, SameWorker
    <2>3. ~freed' /\ ~corrupted' /\ ~Starting'
      BY Zenon, <2>1 DEF IdleInv, Outside, Starting
    <2>4. /\ Receiving => "queue" \in held
          /\ "buf_ring" \in held <=> cfg.multishot
      BY Zenon, <1>0, <2>1, ReceiverFacts
    <2>5. ASSUME ~Receiving PROVE Empty'
      <3>1. Empty
        BY Zenon, <2>5 DEF IdleInv
      <3>2. ~(HandleMore \/ HandleNoBufs \/ HandleMultishotEnd \/ HandleRecv \/ HandleRecvEnd)
        BY Zenon, <3>1, HandleQueue, SeenType DEF Empty
      <3>3. ~Setup /\ ~SubmitSqe
        BY Zenon, <2>5, <3>1 DEF Setup, SubmitSqe, Empty
      <3>4. Elsewhere \/ Loop \/ BatchEnd \/ Submitted
        BY Zenon, <1>3, <3>2, <3>3 DEF InLoopStep
      <3> QED
        BY Zenon, <3>1, <3>4 DEF Elsewhere, Loop, BatchEnd, Submitted, engineVars, Empty
    <2>6. ASSUME ~cfg.multishot \/ ~Receiving PROVE ring' = {}
      <3>1. ring = {}
        BY Zenon, <2>4, <2>6 DEF IdleInv
      <3>2. ~(HandleMore \/ HandleNoBufs \/ HandleMultishotEnd)
        <4>1. CASE ~Receiving
          <5>1. Empty
            BY Zenon, <4>1 DEF IdleInv
          <5> QED
            BY Zenon, <5>1, HandleQueue, SeenType DEF Empty
        <4>2. CASE ~cfg.multishot
          BY Zenon, <4>2 DEF HandleMore, HandleNoBufs, HandleMultishotEnd, Completion
        <4> QED
          BY Zenon, <2>6, <4>1, <4>2
      <3>3. \/ Elsewhere \/ Setup \/ Loop \/ BatchEnd \/ SubmitSqe \/ Submitted
            \/ HandleRecv \/ HandleRecvEnd
        BY Zenon, <1>3, <3>2 DEF InLoopStep
      <3>4. ring' = ring
        BY Zenon, <3>3
           DEF Elsewhere, Setup, Loop, BatchEnd, SubmitSqe, Submitted, HandleRecv,
                    HandleRecvEnd, engineVars
      <3> QED
        BY Zenon, <3>1, <3>4
    <2> QED
      BY Zenon, <2>2, <2>3, <2>4, <2>5, <2>6 DEF IdleInv
  <1>4. CASE KernelStep
    <2>1. PICK c \in Ctxs, r \in {"positive", "zero", "again", "nobufs", "error"},
               more \in BOOLEAN, b \in SUBSET ring :
               Post(c, r, more, b) /\ ring' = ring \ b
      BY Zenon, <1>4, KernelFrame
    <2>2. UNCHANGED <<pc, startVars, peer_closed, failed, freed>>
      BY Zenon, <1>4, KernelFrame
    <2>3. cfg' = cfg /\ (Receiving' <=> Receiving) /\ held' = held /\ (Starting' <=> Starting)
      BY Zenon, <2>2, SameWorker DEF Starting
    <2>4. ~Empty
      <3>1. armed[c] > 0
        BY Zenon, <2>1 DEF Post
      <3> QED
        BY <3>1 DEF Empty
    <2>5. ~Starting /\ Receiving /\ "queue" \in held
      BY Zenon, <2>4 DEF IdleInv
    <2>6. corrupted' => corrupted \/ (freed /\ ~cfg.multishot)
      <3>1. CASE KernelRecv
        BY Zenon, <3>1 DEF KernelRecv, Post
      <3>2. CASE KernelNoBufs
        BY Zenon, <3>2 DEF KernelNoBufs, Post
      <3>3. CASE KernelEnd
        BY Zenon, <3>3 DEF KernelEnd, Post
      <3>4. CASE KernelData
        <4>1. ring # {} /\ corrupted' = (corrupted \/ freed)
          BY Zenon, <3>4 DEF KernelData, Post
        <4> QED
          BY Zenon, <4>1 DEF IdleInv
      <3> QED
        BY Zenon, <1>4, <3>1, <3>2, <3>3, <3>4 DEF KernelStep
    <2>7. ring = {} => ring' = {}
      BY Zenon, <2>1
    <2>8. corrupted' => pc \in {"release", "done"} /\ ~cfg.udp /\ ~cfg.multishot
      BY Zenon, <2>5, <2>6 DEF IdleInv
    <2> QED
      BY Zenon, <2>2, <2>3, <2>5, <2>7, <2>8 DEF IdleInv
  <1>5. CASE PeerEnds \/ StopSignal \/ UNCHANGED vars
    <2>1. UNCHANGED <<startVars, pc, peer_closed, sq, cq, armed, ring, failed, freed, corrupted>>
      BY Zenon, <1>5 DEF PeerEnds, StopSignal, vars, receiveVars, engineVars, memory
    <2>2. /\ cfg' = cfg /\ (Receiving' <=> Receiving) /\ held' = held
          /\ (Starting' <=> Starting) /\ (Empty' <=> Empty)
      BY Zenon, <2>1, SameWorker DEF Starting, Empty
    <2> QED
      BY Zenon, <2>1, <2>2 DEF IdleInv
  <1> QED
    BY Zenon, <1>1, <1>2, <1>3, <1>4, <1>5, Kinds

--------------------------------------------------------------------------------
(* Where the receive of a context is *)

SqOf(c) == {e \in Sqes : e.ctx = c}
CqOf(c) == {e \in Cqes : e.ctx = c /\ ~e.more}

\* A step keeps the receive of context c where there is one, and starts none.
Same(c) == (Retired(c) => Retired(c)') /\ (UnderWay(c) => UnderWay(c)')

\* With nothing under way no context has a receive.
LEMMA EmptyRetired ==
    /\ Empty => \A c \in Ctxs : Retired(c)
    /\ Empty' => \A c \in Ctxs : Retired(c)'
  <1>1. ASSUME Empty, NEW c \in Ctxs PROVE Retired(c)
    BY <1>1 DEF Empty, Retired, SqAt, CqAt, Hits
  <1>2. ASSUME Empty', NEW c \in Ctxs PROVE Retired(c)'
    BY <1>2 DEF Empty, Retired, SqAt, CqAt, Hits
  <1> QED
    BY Zenon, <1>1, <1>2

\* A step that moves nothing in or out of the queues keeps every receive.
LEMMA QuietSame ==
    ASSUME UNCHANGED <<sq, armed, cq>>, NEW c \in Ctxs
    PROVE  Same(c)
  <1>1. SqAt(c)' = SqAt(c) /\ CqAt(c)' = CqAt(c)
    BY Zenon DEF SqAt, CqAt
  <1> QED
    BY Zenon, <1>1 DEF Same, UnderWay, Retired

\* A step that moves receives along leaves no context with two.
LEMMA SameToken ==
    ASSUME TokenInv, cfg'.multishot = cfg.multishot, \A c \in Ctxs : Same(c)
    PROVE  TokenInv'
  BY Zenon DEF TokenInv, Same

\* A context that a step does not touch.
LEMMA OthersSame ==
    ASSUME NEW d \in Ctxs, armed'[d] = armed[d], SqAt(d)' = SqAt(d),
           CqAt(d) = {} => CqAt(d)' = {}, One(CqAt(d)) => One(CqAt(d)')
    PROVE  Same(d)
  BY Zenon DEF Same, UnderWay, Retired

\* Submitting the only SQE of a context hands its receive to the kernel.
LEMMA SubmitSame ==
    ASSUME TypeInv, TokenInv, SubmitSqe, NEW d \in Ctxs PROVE Same(d)
  <1> DEFINE c == Head(sq).ctx
  <1>1. /\ sq \in Seq(Sqes) /\ sq # <<>> /\ sq' = Tail(sq)
        /\ Head(sq) \in Sqes /\ Head(sq) = sq[1] /\ 1 \in DOMAIN sq
    BY DEF SubmitSqe, TypeInv, TypeOK
  <1>2. c \in Ctxs
    BY Zenon, <1>1 DEF Sqes
  <1>3. /\ armed' = [armed EXCEPT ![c] = @ + 1] /\ armed \in [Ctxs -> Nat] /\ cq' = cq
        /\ UnderWay(d) \/ Retired(d)
    BY Zenon DEF SubmitSqe, TypeInv, TypeOK, TokenInv
  <1> HIDE DEF c
  <1>4. SqAt(d) = Hits(sq, SqOf(d)) /\ SqAt(d)' = Hits(Tail(sq), SqOf(d))
    BY Zenon, <1>1 DEF SqAt, SqOf
  <1>5. CqAt(d)' = CqAt(d)
    BY Zenon, <1>3 DEF CqAt
  <1>6. CASE d = c
    <2>1. Head(sq) \in SqOf(d)
      BY Zenon, <1>1, <1>6 DEF SqOf, c
    <2>2. 1 \in SqAt(d)
      BY Zenon, <1>1, <1>4, <2>1 DEF Hits
    <2>3. One(SqAt(d)) /\ armed[d] = 0 /\ CqAt(d) = {}
      BY Zenon, <1>3, <2>2 DEF UnderWay, Retired
    <2>4. SqAt(d)' = {}
      BY Zenon, <1>1, <1>4, <2>1, <2>3, TailHits
    <2>5. armed'[d] = 1
      BY <1>2, <1>3, <1>6, <2>3
    <2> QED
      BY Zenon, <1>5, <2>2, <2>3, <2>4, <2>5 DEF Same, UnderWay, Retired
  <1>7. CASE d # c
    <2>1. Head(sq) \notin SqOf(d)
      BY Zenon, <1>7 DEF SqOf, c
    <2>2. /\ SqAt(d) = {} => SqAt(d)' = {}
          /\ One(SqAt(d)) => One(SqAt(d)')
      BY Zenon, <1>1, <1>4, <2>1, TailHits
    <2>3. armed'[d] = armed[d]
      BY Zenon, <1>2, <1>3, <1>7
    <2> QED
      BY Zenon, <1>5, <2>2, <2>3 DEF Same, UnderWay, Retired
  <1> QED
    BY Zenon, <1>6, <1>7

\* A completion of the kernel ends the only receive of its context, or leaves it.
LEMMA PostSame ==
    ASSUME TypeInv, TokenInv, NEW c \in Ctxs, NEW b \in SUBSET Bufs, NEW more \in BOOLEAN,
           NEW r \in {"positive", "zero", "again", "nobufs", "error"}, Post(c, r, more, b),
           NEW d \in Ctxs
    PROVE  Same(d)
  <1> DEFINE e == [ctx |-> c, res |-> r, more |-> more, buf |-> b]
  <1>1. /\ e \in Cqes /\ cq \in Seq(Cqes) /\ cq' = Append(cq, e)
        /\ armed \in [Ctxs -> Nat] /\ armed[c] > 0
        /\ armed'[d] = IF d = c /\ ~more THEN armed[d] - 1 ELSE armed[d]
    BY Zenon, PostType
  <1>2. CqAt(d) = Hits(cq, CqOf(d)) /\ CqAt(d)' = Hits(Append(cq, e), CqOf(d))
    BY Zenon, <1>1 DEF CqAt, CqOf
  <1>3. /\ more \/ d # c => e \notin CqOf(d)
        /\ ~more /\ d = c => e \in CqOf(d)
    BY Zenon, <1>1 DEF CqOf
  <1>4. SqAt(d)' = SqAt(d)
    BY Zenon DEF SqAt, Post
  <1> HIDE DEF CqOf, e
  <1>5. CASE ~more /\ d = c
    <2>1. SqAt(d) = {} /\ armed[d] = 1 /\ CqAt(d) = {}
      BY <1>1, <1>5 DEF TokenInv, UnderWay, Retired
    <2>2. armed'[d] = 0
      BY <1>1, <1>5, <2>1
    <2>3. One(CqAt(d)')
      BY <1>1, <1>2, <1>3, <1>5, <2>1, AppendHits
    <2> QED
      BY <1>4, <2>1, <2>2, <2>3 DEF Same, UnderWay, Retired
  <1>6. CASE more \/ d # c
    <2>1. CqAt(d)' = CqAt(d)
      BY Zenon, <1>1, <1>2, <1>3, <1>6, AppendHits
    <2>2. armed'[d] = armed[d]
      BY Zenon, <1>1, <1>6
    <2> QED
      BY Zenon, <1>4, <2>1, <2>2, OthersSame
  <1> QED
    BY Zenon, <1>5, <1>6

\* A completion with F_MORE is not the end of its receive.
LEMMA MoreSame ==
    ASSUME TypeInv, HandleMore, NEW d \in Ctxs PROVE Same(d)
  <1>1. Completion(TRUE) /\ Head(cq).more /\ sq' = sq
    BY Zenon DEF HandleMore
  <1>2. cq \in Seq(Cqes) /\ cq # <<>> /\ cq' = Tail(cq) /\ armed' = armed
    BY Zenon, <1>1, SeenType
  <1>3. Head(cq) \notin CqOf(d)
    BY Zenon, <1>1 DEF CqOf
  <1>4. CqAt(d) = Hits(cq, CqOf(d)) /\ CqAt(d)' = Hits(Tail(cq), CqOf(d)) /\ SqAt(d)' = SqAt(d)
    BY Zenon, <1>1, <1>2 DEF CqAt, CqOf, SqAt
  <1> HIDE DEF CqOf
  <1>5. /\ CqAt(d) = {} => CqAt(d)' = {}
        /\ One(CqAt(d)) => One(CqAt(d)')
    BY <1>2, <1>3, <1>4, TailHits
  <1> QED
    BY Zenon, <1>2, <1>4, <1>5, OthersSame

\* The completion at hand is the end of the receive of its context, which is
\* prepared again or over.
LEMMA Handled ==
    ASSUME TypeInv, TokenInv, NEW m \in BOOLEAN, Completion(m), ~Head(cq).more,
           NEW c, c = ctx, NEW e \in Sqes, e.ctx = c, sq' = sq \/ sq' = GetSqe(sq, e)
    PROVE  /\ c \in Ctxs /\ UnderWay(c)
           /\ sq' = sq => Retired(c)'
           /\ sq' = Append(sq, e) => UnderWay(c)'
           /\ sq' = sq \/ sq' = Append(sq, e)
           /\ \A d \in Ctxs \ {c} : Same(d)
  <1>1. /\ cq \in Seq(Cqes) /\ cq # <<>> /\ cq' = Tail(cq) /\ armed' = armed
        /\ Head(cq) \in Cqes /\ c \in Ctxs /\ Head(cq) = cq[1] /\ 1 \in DOMAIN cq
    BY Zenon, SeenType
  <1>2. sq \in Seq(Sqes)
    BY Zenon DEF TypeInv, TypeOK
  <1>3. \A d \in Ctxs : /\ Head(cq) \in CqOf(d) <=> d = c
                        /\ e \in SqOf(d) <=> d = c
    BY Zenon, <1>1 DEF CqOf, SqOf, ctx
  <1>4. \A d \in Ctxs : /\ CqAt(d) = Hits(cq, CqOf(d)) /\ CqAt(d)' = Hits(Tail(cq), CqOf(d))
                        /\ SqAt(d) = Hits(sq, SqOf(d)) /\ SqAt(d)' = Hits(sq', SqOf(d))
    BY Zenon, <1>1 DEF CqAt, CqOf, SqAt, SqOf
  <1>5. sq' = sq \/ sq' = Append(sq, e)
    BY Zenon DEF GetSqe
  <1> HIDE DEF CqOf, SqOf
  <1>6. SqAt(c) = {} /\ armed[c] = 0 /\ One(CqAt(c))
    <2>1. 1 \in CqAt(c)
      BY <1>1, <1>3, <1>4 DEF Hits
    <2> QED
      BY Zenon, <1>1, <2>1 DEF TokenInv, UnderWay, Retired
  <1>7. CqAt(c)' = {} /\ armed'[c] = 0
    BY <1>1, <1>3, <1>4, <1>6, TailHits
  <1>8. sq' = sq => Retired(c)'
    BY Zenon, <1>1, <1>4, <1>6, <1>7 DEF Retired
  <1>9. sq' = Append(sq, e) => UnderWay(c)'
    <2>1. sq' = Append(sq, e) => One(SqAt(c)')
      BY <1>1, <1>2, <1>3, <1>4, <1>6, AppendHits
    <2> QED
      BY Zenon, <1>7, <2>1 DEF UnderWay
  <1>10. ASSUME NEW d \in Ctxs \ {c} PROVE Same(d)
    <2>1. Head(cq) \notin CqOf(d) /\ e \notin SqOf(d)
      BY Zenon, <1>3
    <2>2. /\ CqAt(d) = {} => CqAt(d)' = {}
          /\ One(CqAt(d)) => One(CqAt(d)')
      BY <1>1, <1>4, <2>1, TailHits
    <2>3. SqAt(d)' = SqAt(d)
      <3>1. Hits(Append(sq, e), SqOf(d)) = Hits(sq, SqOf(d))
        BY Zenon, <1>2, <2>1, AppendHits
      <3> QED
        BY Zenon, <1>4, <1>5, <3>1
    <2> QED
      BY Zenon, <1>1, <2>2, <2>3, OthersSame
  <1> QED
    BY Zenon, <1>1, <1>5, <1>6, <1>8, <1>9, <1>10 DEF UnderWay

\* Without F_MORE, a handler of the completion at hand is one of these.
Ending == HandleNoBufs \/ HandleMultishotEnd \/ HandleRecv \/ HandleRecvEnd

\* The first SQEs are for different contexts.
LEMMA SetupTokens ==
    ASSUME IdleInv, Setup
    PROVE  /\ \A c \in Ctxs : UnderWay(c)' \/ Retired(c)'
           /\ cfg.multishot => UnderWay(1)' /\ \A c \in Ctxs \ {1} : Retired(c)'
           /\ ~cfg.multishot /\ QueueDepth >= InFlight =>
                  sq' = First /\ \A c \in Ctxs : UnderWay(c)'
  <1>1. cq' = <<>> /\ armed' = [c \in Ctxs |-> 0] /\ sq' \in Seq(Sqes)
    BY Zenon, SetupQueue
  <1>2. \A c \in Ctxs : CqAt(c)' = {} /\ armed'[c] = 0
    BY <1>1 DEF CqAt, Hits
  <1>3. CASE cfg.multishot
    <2>1. sq' = <<MultishotSqe(1)>> /\ 1 \in Ctxs
      BY Zenon, <1>3, SetupQueue, Constants
    <2>2. DOMAIN sq' = {1} /\ sq'[1] = MultishotSqe(1)
      BY <2>1
    <2>3. \A c \in Ctxs : MultishotSqe(1) \in SqOf(c) <=> c = 1
      BY Zenon, <2>1 DEF SqOf, MultishotSqe, Sqes
    <2>4. \A c \in Ctxs : SqAt(c)' = {i \in DOMAIN sq' : sq'[i] \in SqOf(c)}
      BY Zenon DEF SqAt, SqOf, Hits
    <2>5. SqAt(1)' = {1} /\ \A c \in Ctxs \ {1} : SqAt(c)' = {}
      BY <2>1, <2>2, <2>3, <2>4
    <2>6. One(SqAt(1)')
      BY Zenon, <2>5 DEF One
    <2> QED
      BY Zenon, <1>2, <1>3, <2>1, <2>5, <2>6 DEF UnderWay, Retired
  <1>4. CASE ~cfg.multishot
    <2> DEFINE n == Lesser(InFlight, QueueDepth)
    <2>1. n \in 0..InFlight /\ (QueueDepth >= InFlight => n = InFlight)
      BY Constants, QueueDepthAssumption DEF Lesser
    <2>2. sq' = <<>> \o SubSeq(First, 1, n)
      <3>1. Len(<<>>) = 0 /\ Len(First) = InFlight /\ QueueDepth - 0 = QueueDepth
        BY FirstType, QueueDepthAssumption
      <3> QED
        BY Zenon, <1>4, <3>1, SetupQueue DEF PrepEach
    <2> HIDE DEF n
    <2>3. sq' = SubSeq(First, 1, n)
      BY <2>1, <2>2, FirstType
    <2>4. DOMAIN sq' = 1..n /\ \A i \in 1..n : sq'[i] = First[i]
      BY <2>1, <2>3, FirstType
    <2>5. \A i \in 1..n : i \in Ctxs /\ sq'[i] = RecvSqe(i)
      <3>1. \A i \in 1..n : i \in Ctxs
        BY <2>1, Constants
      <3> QED
        BY <2>4, <3>1, Zenon DEF First
    <2>6. ASSUME NEW c \in Ctxs PROVE SqAt(c)' = {i \in 1..n : i = c}
      <3>1. \A i \in 1..n : sq'[i] \in SqOf(c) <=> i = c
        <4>1. \A i \in Ctxs : RecvSqe(i) \in Sqes /\ RecvSqe(i).ctx = i
          BY Zenon DEF RecvSqe, Sqes
        <4> QED
          BY <2>5, <4>1, Zenon DEF SqOf
      <3>2. SqAt(c)' = {i \in DOMAIN sq' : sq'[i] \in SqOf(c)}
        BY Zenon DEF SqAt, SqOf, Hits
      <3> QED
        BY Zenon, <2>4, <3>1, <3>2
    <2>7. ASSUME NEW c \in Ctxs PROVE IF c \in 1..n THEN One(SqAt(c)') ELSE SqAt(c)' = {}
      <3>1. CASE c \in 1..n
        <4>1. SqAt(c)' = {c}
          BY Zenon, <2>6, <3>1
        <4> QED
          BY Zenon, <3>1, <4>1 DEF One
      <3>2. CASE c \notin 1..n
        BY Zenon, <2>6, <3>2
      <3> QED
        BY Zenon, <3>1, <3>2
    <2>8. QueueDepth >= InFlight => sq' = First /\ 1..n = Ctxs
      BY <2>1, <2>3, FirstType, Constants
    <2> QED
      BY Zenon, <1>2, <1>4, <2>7, <2>8 DEF UnderWay, Retired
  <1> QED
    BY Zenon, <1>3, <1>4

\* What an ending does.
LEMMA EndingTokens ==
    ASSUME TypeInv, TokenInv, \A i \in DOMAIN cq : Shape(cq[i]), Ending, NEW c, c = ctx
    PROVE  /\ c \in Ctxs /\ UnderWay(c) /\ (cfg.multishot => c = 1)
           /\ ~Head(cq).more
           /\ sq' = sq => Retired(c)'
           /\ sq' # sq => UnderWay(c)' /\ Len(sq') = Len(sq) + 1
           /\ \A d \in Ctxs \ {c} : Same(d)
           /\ UNCHANGED <<startVars, stop, stream>>
  <1>1. PICK m \in BOOLEAN : Completion(m)
    BY Zenon, HandleQueue DEF Ending
  <1>2. /\ c \in Ctxs /\ Head(cq) = cq[1] /\ 1 \in DOMAIN cq
        /\ UNCHANGED <<startVars, stop, stream>>
    BY Zenon, <1>1, SeenType
  <1>3. ~Head(cq).more
    <2>1. CASE HandleNoBufs \/ HandleMultishotEnd
      BY Zenon, <2>1 DEF HandleNoBufs, HandleMultishotEnd
    <2>2. CASE HandleRecv \/ HandleRecvEnd
      <3>1. cfg.multishot = FALSE
        BY Zenon, <2>2 DEF HandleRecv, HandleRecvEnd, Completion
      <3> QED
        BY Zenon, <1>2, <3>1 DEF Shape
    <2> QED
      BY Zenon, <2>1, <2>2 DEF Ending
  <1>4. sq \in Seq(Sqes)
    BY Zenon DEF TypeInv, TypeOK
  <1>5. PICK e \in Sqes : e.ctx = c /\ (sq' = sq \/ sq' = GetSqe(sq, e))
    <2>1. /\ RecvSqe(c) \in Sqes /\ RecvSqe(c).ctx = c
          /\ MultishotSqe(c) \in Sqes /\ MultishotSqe(c).ctx = c
      BY Zenon, <1>2, <1>4, SqeType DEF RecvSqe, MultishotSqe
    <2>2. \/ sq' = sq
          \/ sq' = GetSqe(sq, RecvSqe(c))
          \/ sq' = GetSqe(sq, MultishotSqe(c))
      BY Zenon, HandleQueue DEF Ending
    <2> QED
      BY Zenon, <2>1, <2>2
  <1>6. /\ UnderWay(c)
        /\ sq' = sq => Retired(c)'
        /\ sq' = Append(sq, e) => UnderWay(c)'
        /\ sq' = sq \/ sq' = Append(sq, e)
        /\ \A d \in Ctxs \ {c} : Same(d)
    BY Zenon, <1>1, <1>3, <1>5, Handled
  <1>7. cfg.multishot => c = 1
    <2>1. ~(UnderWay(c) /\ Retired(c))
      BY DEF UnderWay, Retired, One
    <2> QED
      BY Zenon, <1>2, <1>6, <2>1 DEF TokenInv
  <1>8. Len(Append(sq, e)) = Len(sq) + 1
    BY <1>4
  <1> QED
    BY Zenon, <1>2, <1>3, <1>6, <1>7, <1>8

\* No context has two receives at the start,
LEMMA TokenInit == Init => TokenInv
  <1>1. Init => Empty
    BY Zenon DEF Init, Empty
  <1> QED
    BY Zenon, <1>1, EmptyRetired DEF TokenInv

\* or after any step.
LEMMA TokenStep ==
    ASSUME TypeInv, IdleInv, TokenInv, \A i \in DOMAIN cq : Shape(cq[i]), [Next]_vars
    PROVE  TokenInv'
  <1>1. CASE Start
    <2>1. Empty'
      BY Zenon, <1>1, StartFrame DEF IdleInv, Empty, Starting
    <2> QED
      BY Zenon, <2>1, EmptyRetired DEF TokenInv
  <1>2. CASE Finishing
    <2>1. CASE "queue" \in held \ held'
      <3>1. Empty'
        BY Zenon, <1>2, <2>1, FinishFrame DEF Empty
      <3> QED
        BY Zenon, <3>1, EmptyRetired DEF TokenInv
    <2>2. CASE "queue" \notin held \ held'
      <3>1. UNCHANGED <<sq, cq, armed>> /\ cfg' = cfg
        BY Zenon, <1>2, <2>2, FinishFrame
      <3> QED
        BY Zenon, <3>1, QuietSame, SameToken
    <2> QED
      BY Zenon, <2>1, <2>2
  <1>3. CASE InLoopStep
    <2>1. UNCHANGED startVars
      BY Zenon, <1>3, LoopFrame
    <2>2. cfg' = cfg
      BY Zenon, <2>1, SameWorker
    <2>3. CASE Elsewhere \/ Loop \/ BatchEnd \/ Submitted
      <3>1. UNCHANGED <<sq, cq, armed>>
        BY Zenon, <2>3 DEF Elsewhere, Loop, BatchEnd, Submitted, engineVars
      <3> QED
        BY Zenon, <2>2, <3>1, QuietSame, SameToken
    <2>4. CASE Setup
      BY Zenon, <2>2, <2>4, SetupTokens DEF TokenInv
    <2>5. CASE SubmitSqe
      BY Zenon, <2>2, <2>5, SubmitSame, SameToken
    <2>6. CASE HandleMore
      BY Zenon, <2>2, <2>6, MoreSame, SameToken
    <2>7. CASE Ending
      <3>c. PICK c : c = ctx
        BY Zenon
      <3>1. /\ c \in Ctxs /\ (cfg.multishot => c = 1)
            /\ UnderWay(c)' \/ Retired(c)'
            /\ \A d \in Ctxs \ {c} : Same(d)
        BY Zenon, <2>7, <3>c, EndingTokens
      <3> QED
        BY Zenon, <2>2, <3>1 DEF TokenInv, Same
    <2> QED
      BY Zenon, <1>3, <2>3, <2>4, <2>5, <2>6, <2>7 DEF InLoopStep, Ending
  <1>4. CASE KernelStep
    <2>1. PICK c \in Ctxs, r \in {"positive", "zero", "again", "nobufs", "error"},
               more \in BOOLEAN, b \in SUBSET ring :
               Post(c, r, more, b) /\ ring' = ring \ b
      BY Zenon, <1>4, KernelFrame
    <2>2. b \in SUBSET Bufs
      BY Zenon DEF TypeInv, TypeOK
    <2>3. \A d \in Ctxs : Same(d)
      BY Zenon, <2>1, <2>2, PostSame
    <2>4. cfg' = cfg
      BY Zenon, <1>4, KernelFrame, SameWorker
    <2> QED
      BY Zenon, <2>3, <2>4, SameToken
  <1>5. CASE PeerEnds \/ StopSignal \/ UNCHANGED vars
    <2>1. UNCHANGED <<startVars, sq, cq, armed>>
      BY Zenon, <1>5 DEF PeerEnds, StopSignal, vars, receiveVars, engineVars
    <2>2. cfg' = cfg
      BY Zenon, <2>1, SameWorker
    <2> QED
      BY Zenon, <2>1, <2>2, QuietSame, SameToken
  <1> QED
    BY Zenon, <1>1, <1>2, <1>3, <1>4, <1>5, Kinds

--------------------------------------------------------------------------------
(* Data, its buffers and the end of the stream *)

Holding(b) == {e \in Cqes : b \in e.buf}

\* What BuffersConserved says of one buffer.
Conserved(b) == IF b \in ring THEN Hits(cq, Holding(b)) = {} ELSE One(Hits(cq, Holding(b)))

Provided == Receiving /\ {"buf_ring", "buf_mem"} \subseteq held

\* BuffersConserved, buffer by buffer.
LEMMA ConservedIs ==
    /\ BuffersConserved <=> (Provided => \A b \in Bufs : Conserved(b))
    /\ BuffersConserved' <=> (Provided' => \A b \in Bufs : Conserved(b)')
  BY Zenon DEF BuffersConserved, Provided, Conserved, Holding

\* On its way out the engine takes the ring of buffers back before its queue.
LEMMA QueueLast ==
    ASSUME StartInv, Leave \/ Release \/ Return, "queue" \in held \ held'
    PROVE  "buf_ring" \notin held
  <1>1. Release
    BY Zenon DEF Leave, Return, startVars
  <1>2. InRelease /\ pc = "release"
    BY Zenon, <1>1 DEF StartInv, Release
  <1>3. /\ held' = held \ {Head(todo)}
        /\ \A y \in Range(todo) \ {Head(todo)} : ReleaseRank[Head(todo)] < ReleaseRank[y]
    BY Zenon, <1>1, ReleaseHead
  <1>4. Head(todo) = "queue"
    BY Zenon, <1>3
  <1>5. ~(ReleaseRank["queue"] < ReleaseRank["buf_ring"])
    <2>1. "queue" \in Calls /\ "buf_ring" \in Calls
      BY Zenon DEF Calls
    <2>2. ReleaseRank["queue"] = 7 /\ ReleaseRank["buf_ring"] = 5
      BY <2>1, Zenon DEF ReleaseRank
    <2> QED
      BY <2>2
  <1>6. "buf_ring" \notin Range(todo)
    BY Zenon, <1>3, <1>4, <1>5
  <1> QED
    BY Zenon, <1>2, <1>6 DEF InRelease, Left

\* Once the loop began, a ring of provided buffers has its memory, and the worker
\* receives into it.
LEMMA RingProvided ==
    ASSUME StartInv, IdleInv, ~Empty, ring # {}
    PROVE  Provided /\ cfg.multishot
  <1>1. Receiving /\ "buf_ring" \in held /\ ~Starting
    BY Zenon DEF IdleInv
  <1>2. "buf_mem" \in held /\ engine.recv_buf_ring
    <2>1. CASE pc \notin Outside
      BY Zenon, <1>1, <2>1 DEF StartInv, InLoop
    <2>2. CASE pc = "release"
      BY Zenon, <1>1, <2>2 DEF StartInv, InRelease
    <2>3. CASE pc \in {"done", "aborted", "exited"}
      BY Zenon, <1>1, <2>3 DEF StartInv, Left
    <2> QED
      BY Zenon, <1>1, <2>1, <2>2, <2>3 DEF Outside, Starting
  <1> QED
    BY Zenon, <1>1, <1>2, ReceiverFacts DEF Provided

\* While the multishot receive is armed and a buffer is free, the completion queue
\* has room for one more: every completion in it holds a buffer of its own.
LEMMA RoomForData ==
    ASSUME TypeInv, IdleInv, TokenInv, DataInv, armed[1] > 0, ring # {}
    PROVE  Len(cq) < CqEntries /\ Provided /\ cfg.multishot
  <1>0. StartInv /\ Types
    BY Zenon, TypeInvIs
  <1>1. ~Empty
    BY Constants DEF Empty
  <1>2. Provided /\ cfg.multishot
    BY Zenon, <1>0, <1>1, RingProvided
  <1>3. \A b \in Bufs : Conserved(b)
    BY Zenon, <1>2, ConservedIs DEF DataInv
  <1>4. cq \in Seq(Cqes) /\ DOMAIN cq = 1..Len(cq) /\ Len(cq) \in Nat /\ ring \subseteq Bufs
    BY <1>0 DEF Types
  <1>5. \A c \in Ctxs : CqAt(c) = {}
    <2>1. CqAt(1) = {}
      BY Constants DEF TokenInv, UnderWay, Retired
    <2> QED
      BY Zenon, <1>2, <2>1 DEF TokenInv, Retired
  <1>6. ASSUME NEW i \in DOMAIN cq PROVE \E b \in Bufs : cq[i].buf = {b}
    <2>0. cq[i] \in Cqes
      BY <1>4, <1>6
    <2>1. cq[i] \in Cqes /\ cq[i].ctx \in Ctxs
      BY Zenon, <2>0 DEF Cqes
    <2>2. cq[i].more
      BY Zenon, <1>5, <2>1 DEF CqAt, Hits
    <2> QED
      BY Zenon, <1>2, <2>2 DEF DataInv, Shape
  <1>7. PICK f : f = [i \in DOMAIN cq |-> CHOOSE b \in Bufs : cq[i].buf = {b}]
    BY Zenon
  <1>8. \A i \in DOMAIN cq : f[i] \in Bufs /\ cq[i].buf = {f[i]}
    BY Zenon, <1>6, <1>7
  <1>9. \A i \in DOMAIN cq : i \in Hits(cq, Holding(f[i]))
    BY <1>4, <1>8 DEF Hits, Holding
  <1>10. \A i \in DOMAIN cq : f[i] \notin ring /\ One(Hits(cq, Holding(f[i])))
    BY Zenon, <1>3, <1>8, <1>9 DEF Conserved
  <1>11. \A i, j \in DOMAIN cq : f[i] = f[j] => i = j
    BY Zenon, <1>9, <1>10 DEF One
  <1>12. PICK b \in ring : TRUE
    BY Zenon
  <1>13. PICK g : g = [i \in 1..(Len(cq) + 1) |-> IF i = Len(cq) + 1 THEN b ELSE f[i]]
    BY Zenon
  <1>14. \A i \in 1..(Len(cq) + 1) :
            IF i = Len(cq) + 1 THEN g[i] = b ELSE i \in DOMAIN cq /\ g[i] = f[i] /\ f[i] # b
    BY <1>4, <1>10, <1>12, <1>13
  <1>15. g \in [1..(Len(cq) + 1) -> 1..BufCount]
    BY Zenon, <1>4, <1>8, <1>12, <1>13, <1>14 DEF Bufs
  <1>16. Injective(g, Len(cq) + 1)
    BY Zenon, <1>11, <1>14 DEF Injective
  <1>17. Len(cq) + 1 \in Nat /\ BufCount \in Nat
    BY <1>4, Constants
  <1>18. Len(cq) + 1 =< BufCount
    BY Zenon, <1>15, <1>16, <1>17, Pigeonhole
  <1>19. CqEntries \in Nat /\ CqEntries >= BufCount
    BY Zenon, ReceiveAssumption
  <1> QED
    BY <1>2, <1>4, <1>18, <1>19, Constants

\* Where nothing that DataInv looks at changes.
LEMMA DataQuiet ==
    ASSUME DataInv, UNCHANGED <<startVars, cq, ring, stream, peer_closed>>
    PROVE  DataInv'
  <1>1. cfg' = cfg /\ (Receiving' <=> Receiving) /\ held' = held
    BY Zenon, SameWorker
  <1>2. BuffersConserved'
    <2>1. Provided' <=> Provided
      BY Zenon, <1>1 DEF Provided
    <2>2. \A b \in Bufs : Conserved(b)' <=> Conserved(b)
      BY Zenon DEF Conserved
    <2> QED
      BY Zenon, <2>1, <2>2, ConservedIs DEF DataInv
  <1>3. \A i \in DOMAIN cq : Shape(cq[i])'
    BY Zenon, <1>1 DEF DataInv, Shape
  <1> QED
    BY <1>1, <1>2, <1>3 DEF DataInv, Shape, Ordered, EndsForCause

\* With an empty completion queue only the ring matters.
LEMMA DataEmpty ==
    ASSUME cq' = <<>>, ~peer_closed' \/ (~cfg'.udp /\ stream' = "ended"),
           Provided' => ring' = Bufs
    PROVE  DataInv'
  <1>1. DOMAIN cq' = {}
    OBVIOUS
  <1>2. ASSUME Provided', NEW b \in Bufs PROVE Conserved(b)'
    BY Zenon, <1>1, <1>2 DEF Conserved, Hits
  <1>3. BuffersConserved'
    BY Zenon, <1>2, ConservedIs
  <1> QED
    BY Zenon, <1>1, <1>3 DEF DataInv, Ordered, EndsForCause

\* A completion of the kernel: its shape and its buffer, and over TCP its place
\* in the stream.
LEMMA DataPost ==
    ASSUME TypeInv, DataInv, UNCHANGED <<startVars, stream, peer_closed>>,
           NEW e \in Cqes, cq' = Append(cq, e), Shape(e),
           e.buf \subseteq ring, ring' = ring \ e.buf,
           e.res = "positive" /\ ~cfg.udp => stream = "open",
           e.res \in {"zero", "error"} /\ ~cfg.udp => stream = "ended"
    PROVE  DataInv'
  <1>1. cfg' = cfg /\ (Receiving' <=> Receiving) /\ held' = held
    BY Zenon, SameWorker
  <1>2. /\ cq \in Seq(Cqes) /\ Len(cq) \in Nat /\ DOMAIN cq = 1..Len(cq)
    BY DEF TypeInv, TypeOK
  <1>3. /\ DOMAIN cq' = 1..(Len(cq) + 1)
        /\ \A i \in DOMAIN cq : cq'[i] = cq[i] /\ i \in DOMAIN cq' /\ i < Len(cq) + 1
        /\ cq'[Len(cq) + 1] = e
        /\ \A i \in DOMAIN cq' : i \in DOMAIN cq \/ i = Len(cq) + 1
    BY <1>2
  <1>4. \A i \in DOMAIN cq' : Shape(cq'[i])
    BY Zenon, <1>3 DEF DataInv
  <1>5. \A i \in DOMAIN cq' : Shape(cq[i])'
    BY Zenon, <1>1, <1>4 DEF Shape
  <1>6. BuffersConserved'
    <2>1. Provided' <=> Provided
      BY Zenon, <1>1 DEF Provided
    <2>2. ASSUME Provided, NEW b \in Bufs PROVE Conserved(b)'
      <3>1. Conserved(b)
        BY Zenon, <2>2, ConservedIs DEF DataInv
      <3>2. /\ e \notin Holding(b) => Hits(cq', Holding(b)) = Hits(cq, Holding(b))
            /\ e \in Holding(b) /\ Hits(cq, Holding(b)) = {} => One(Hits(cq', Holding(b)))
        BY Zenon, <1>2, AppendHits
      <3>3. e \in Holding(b) <=> b \in e.buf
        BY Zenon DEF Holding
      <3>4. Conserved(b)' <=> IF b \in ring' THEN Hits(cq', Holding(b)) = {}
                              ELSE One(Hits(cq', Holding(b)))
        BY Zenon DEF Conserved, Holding
      <3>5. CASE b \in e.buf
        BY Zenon, <3>1, <3>2, <3>3, <3>4, <3>5 DEF Conserved
      <3>6. CASE b \notin e.buf
        BY Zenon, <3>1, <3>2, <3>3, <3>4, <3>6 DEF Conserved
      <3> QED
        BY Zenon, <3>5, <3>6
    <2> QED
      BY Zenon, <2>1, <2>2, ConservedIs
  <1>7. Ordered'
    <2> SUFFICES ASSUME ~cfg.udp, NEW i \in DOMAIN cq', cq'[i].res \in {"zero", "error"}
                 PROVE  /\ stream = "ended"
                        /\ \A j \in DOMAIN cq' : j > i => cq'[j].res # "positive"
      BY Zenon, <1>1 DEF Ordered
    <2>1. CASE i \in DOMAIN cq
      <3>1. stream = "ended" /\ \A j \in DOMAIN cq : j > i => cq[j].res # "positive"
        BY Zenon, <1>3, <2>1 DEF DataInv, Ordered
      <3>2. e.res # "positive"
        BY Zenon, <3>1
      <3> QED
        BY Zenon, <1>3, <3>1, <3>2
    <2>2. CASE i = Len(cq) + 1
      <3>1. stream = "ended"
        BY Zenon, <1>3, <2>2
      <3> QED
        BY <1>2, <1>3, <2>2, <3>1
    <2> QED
      BY Zenon, <1>3, <2>1, <2>2
  <1>8. peer_closed' => ~cfg'.udp /\ EndsForCause'
    <2> SUFFICES ASSUME peer_closed
                 PROVE  ~cfg.udp /\ stream = "ended" /\ \A i \in DOMAIN cq' : cq'[i].res # "positive"
      BY Zenon, <1>1 DEF EndsForCause
    <2>1. ~cfg.udp /\ stream = "ended" /\ \A i \in DOMAIN cq : cq[i].res # "positive"
      BY Zenon DEF DataInv, EndsForCause
    <2>2. e.res # "positive"
      BY Zenon, <2>1
    <2> QED
      BY Zenon, <1>3, <2>1, <2>2
  <1> QED
    BY Zenon, <1>5, <1>6, <1>7, <1>8 DEF DataInv

\* The completion at hand goes, and its buffer comes back.
LEMMA DataSeen ==
    ASSUME TypeInv, DataInv, UNCHANGED <<startVars, stream>>, cq # <<>>, cq' = Tail(cq),
           ring' = ring \cup Head(cq).buf,
           peer_closed' => peer_closed \/ (~cfg.udp /\ Head(cq).res \in {"zero", "error"})
    PROVE  DataInv'
  <1>1. cfg' = cfg /\ (Receiving' <=> Receiving) /\ held' = held
    BY Zenon, SameWorker
  <1>2. cq \in Seq(Cqes) /\ Len(cq) \in Nat /\ DOMAIN cq = 1..Len(cq)
    BY DEF TypeInv, TypeOK
  <1>3. /\ Head(cq) = cq[1] /\ 1 \in DOMAIN cq /\ Head(cq) \in Cqes
        /\ \A i \in DOMAIN cq' : /\ i + 1 \in DOMAIN cq /\ cq'[i] = cq[i + 1] /\ i + 1 > 1
                                 /\ \A j \in DOMAIN cq' : j > i => j + 1 > i + 1
    BY <1>2
  <1>4. \A i \in DOMAIN cq' : Shape(cq'[i])
    BY Zenon, <1>3 DEF DataInv
  <1>5. \A i \in DOMAIN cq' : Shape(cq[i])'
    BY Zenon, <1>1, <1>4 DEF Shape
  <1>6. BuffersConserved'
    <2>1. Provided' <=> Provided
      BY Zenon, <1>1 DEF Provided
    <2>2. ASSUME Provided, NEW b \in Bufs PROVE Conserved(b)'
      <3>1. Conserved(b)
        BY Zenon, <2>2, ConservedIs DEF DataInv
      <3>2. /\ Hits(cq, Holding(b)) = {} =>
                   Hits(cq', Holding(b)) = {} /\ Head(cq) \notin Holding(b)
            /\ Head(cq) \notin Holding(b) /\ One(Hits(cq, Holding(b))) =>
                   One(Hits(cq', Holding(b)))
            /\ Head(cq) \in Holding(b) /\ One(Hits(cq, Holding(b))) =>
                   Hits(cq', Holding(b)) = {}
        BY Zenon, <1>2, TailHits
      <3>3. Head(cq) \in Holding(b) <=> b \in Head(cq).buf
        BY Zenon, <1>3 DEF Holding
      <3>4. Conserved(b)' <=> IF b \in ring' THEN Hits(cq', Holding(b)) = {}
                              ELSE One(Hits(cq', Holding(b)))
        BY Zenon DEF Conserved, Holding
      <3>5. CASE b \in Head(cq).buf
        BY Zenon, <3>1, <3>2, <3>3, <3>4, <3>5 DEF Conserved
      <3>6. CASE b \notin Head(cq).buf
        BY Zenon, <3>1, <3>2, <3>3, <3>4, <3>6 DEF Conserved
      <3> QED
        BY Zenon, <3>5, <3>6
    <2> QED
      BY Zenon, <2>1, <2>2, ConservedIs
  <1>7. Ordered'
    <2> SUFFICES ASSUME ~cfg.udp, NEW i \in DOMAIN cq', cq'[i].res \in {"zero", "error"}
                 PROVE  /\ stream = "ended"
                        /\ \A j \in DOMAIN cq' : j > i => cq'[j].res # "positive"
      BY Zenon, <1>1 DEF Ordered
    <2>1. /\ stream = "ended"
          /\ \A j \in DOMAIN cq : j > i + 1 => cq[j].res # "positive"
      BY Zenon, <1>3 DEF DataInv, Ordered
    <2> QED
      BY Zenon, <1>3, <2>1
  <1>8. peer_closed' => ~cfg'.udp /\ EndsForCause'
    <2> SUFFICES ASSUME peer_closed'
                 PROVE  ~cfg.udp /\ stream = "ended" /\ \A i \in DOMAIN cq' : cq'[i].res # "positive"
      BY Zenon, <1>1 DEF EndsForCause
    <2>1. CASE peer_closed
      BY Zenon, <1>3, <2>1 DEF DataInv, EndsForCause
    <2>2. CASE ~cfg.udp /\ Head(cq).res \in {"zero", "error"}
      <3>1. stream = "ended" /\ \A j \in DOMAIN cq : j > 1 => cq[j].res # "positive"
        BY Zenon, <1>3, <2>2 DEF DataInv, Ordered
      <3> QED
        BY Zenon, <1>3, <2>2, <3>1
    <2> QED
      BY Zenon, <2>1, <2>2
  <1> QED
    BY Zenon, <1>5, <1>6, <1>7, <1>8 DEF DataInv

\* The completions and the buffers are as DataInv says at the start,
LEMMA DataInit == Init => DataInv
  BY DEF Init, StartInit, DataInv, BuffersConserved, Ordered

\* and after every step.
LEMMA DataStep ==
    ASSUME TypeInv, IdleInv, TokenInv, DataInv, [Next]_vars, StartInv'
    PROVE  DataInv'
  <1>0. StartInv /\ StartInv' /\ Types /\ IdleInv'
    BY Zenon, TypeInvIs, IdleStep
  <1>1. CASE Start
    <2>1. /\ pc \in {"main", "setup"}
          /\ pc' \in {"setup", "start", "done", "aborted", "exited"}
          /\ UNCHANGED <<peer_closed, cq>>
      BY Zenon, <1>1, StartFrame
    <2>2. cq' = <<>> /\ ~peer_closed'
      BY Zenon, <2>1 DEF IdleInv, Starting, Empty
    <2>3. Provided' => ring' = Bufs
      <3>1. CASE pc' \in {"setup", "start"}
        BY Zenon, <1>0, <3>1 DEF IdleInv, Starting, Provided
      <3>2. CASE pc' \in {"done", "aborted", "exited"}
        BY Zenon, <1>0, <3>2 DEF StartInv, Left, Provided
      <3> QED
        BY Zenon, <2>1, <3>1, <3>2
    <2> QED
      BY Zenon, <2>2, <2>3, DataEmpty
  <1>2. CASE Finishing
    <2>1. /\ cfg' = cfg /\ held' \subseteq held /\ (Receiving' <=> Receiving)
          /\ ring' = IF "buf_ring" \in held \ held' THEN {} ELSE ring
          /\ UNCHANGED <<stream, peer_closed>>
      BY Zenon, <1>2, FinishFrame
    <2>2. CASE "queue" \in held \ held'
      <3>1. cq' = <<>>
        BY Zenon, <1>2, <2>2, FinishFrame
      <3>2. ~Provided'
        BY Zenon, <1>0, <1>2, <2>1, <2>2, QueueLast DEF Finishing, Provided
      <3>3. ~peer_closed' \/ (~cfg'.udp /\ stream' = "ended")
        BY Zenon, <2>1 DEF DataInv, EndsForCause
      <3> QED
        BY Zenon, <3>1, <3>2, <3>3, DataEmpty
    <2>3. CASE "queue" \notin held \ held'
      <3>1. cq' = cq
        BY Zenon, <1>2, <2>3, FinishFrame
      <3>2. BuffersConserved'
        <4>1. Provided' => Provided /\ ring' = ring
          BY Zenon, <2>1 DEF Provided
        <4>2. ring' = ring => \A b \in Bufs : Conserved(b)' <=> Conserved(b)
          BY Zenon, <3>1 DEF Conserved
        <4> QED
          BY Zenon, <4>1, <4>2, ConservedIs DEF DataInv
      <3> QED
        BY <2>1, <3>1, <3>2 DEF DataInv, Shape, Ordered, EndsForCause
    <2> QED
      BY Zenon, <2>2, <2>3
  <1>3. CASE \/ Elsewhere \/ Setup \/ Loop \/ BatchEnd \/ SubmitSqe \/ Submitted
             \/ StopSignal \/ UNCHANGED vars
    <2>1. UNCHANGED <<startVars, cq, ring, stream, peer_closed>>
      BY Zenon, <1>3
         DEF Elsewhere, Setup, Loop, BatchEnd, SubmitSqe, Submitted, StopSignal, vars,
                  Goto, receiveVars, engineVars
    <2> QED
      BY Zenon, <2>1, DataQuiet
  <1>4. CASE PeerEnds
    <2>1. UNCHANGED <<startVars, cq, ring, peer_closed>> /\ stream' = "ended"
      BY Zenon, <1>4 DEF PeerEnds, engineVars
    <2>2. cfg' = cfg /\ (Receiving' <=> Receiving) /\ held' = held
      BY Zenon, <2>1, SameWorker
    <2>3. BuffersConserved'
      <3>1. Provided' <=> Provided
        BY Zenon, <2>2 DEF Provided
      <3>2. \A b \in Bufs : Conserved(b)' <=> Conserved(b)
        BY Zenon, <2>1 DEF Conserved
      <3> QED
        BY Zenon, <3>1, <3>2, ConservedIs DEF DataInv
    <2> QED
      BY <2>1, <2>2, <2>3 DEF DataInv, Shape, Ordered, EndsForCause
  <1>5. CASE HandleMore \/ Ending
    <2>1. PICK m \in BOOLEAN : Completion(m)
      BY Zenon, <1>5, HandleQueue DEF Ending
    <2>2. /\ cq # <<>> /\ cq' = Tail(cq) /\ UNCHANGED <<startVars, stream>>
          /\ Head(cq) \in Cqes /\ Head(cq) = cq[1] /\ 1 \in DOMAIN cq
      BY Zenon, <2>1, SeenType
    <2>3. Shape(Head(cq))
      BY Zenon, <2>2 DEF DataInv
    <2>4. Head(cq).res \in {"positive", "zero", "again", "nobufs", "error"}
      BY Zenon, <2>2 DEF Cqes
    <2>5. cfg.udp \in BOOLEAN
      BY Zenon, <1>0, ReceiverFacts
    <2>6. /\ ring' = ring \cup Head(cq).buf
          /\ peer_closed' => peer_closed \/ (~cfg.udp /\ Head(cq).res \in {"zero", "error"})
      <3>1. CASE HandleMore
        BY Zenon, <3>1 DEF HandleMore, return_recv_buffer
      <3>2. CASE HandleNoBufs
        <4>1. cfg.multishot /\ res = "nobufs" /\ ring' = ring /\ peer_closed' = peer_closed
          BY Zenon, <3>2 DEF HandleNoBufs, Completion
        <4>2. Head(cq).buf = {}
          BY Zenon, <2>3, <4>1 DEF Shape, res
        <4> QED
          BY Zenon, <4>1, <4>2
      <3>3. CASE HandleMultishotEnd
        <4>1. /\ cfg.multishot /\ ~Head(cq).more /\ res # "nobufs"
              /\ ring' = ring \cup Head(cq).buf /\ (cfg.udp => peer_closed' = peer_closed)
          BY Zenon, <3>3 DEF HandleMultishotEnd, Completion, return_recv_buffer
        <4>2. Head(cq).res \in {"zero", "error"}
          BY Zenon, <2>3, <2>4, <4>1 DEF Shape, res
        <4> QED
          BY <2>5, <4>1, <4>2
      <3>4. CASE HandleRecv
        <4>1. ~cfg.multishot /\ ring' = ring /\ peer_closed' = peer_closed
          BY Zenon, <3>4 DEF HandleRecv, Completion
        <4>2. Head(cq).buf = {}
          BY Zenon, <2>3, <4>1 DEF Shape
        <4> QED
          BY Zenon, <4>1, <4>2
      <3>5. CASE HandleRecvEnd
        <4>1. /\ ~cfg.multishot /\ ring' = ring /\ peer_closed' = ~cfg.udp
              /\ res \in {"zero", "error"}
          BY Zenon, <3>5 DEF HandleRecvEnd, Completion
        <4>2. Head(cq).buf = {}
          BY Zenon, <2>3, <4>1 DEF Shape
        <4> QED
          BY Zenon, <4>1, <4>2 DEF res
      <3> QED
        BY Zenon, <1>5, <3>1, <3>2, <3>3, <3>4, <3>5 DEF Ending
    <2> QED
      BY Zenon, <2>2, <2>6, DataSeen
  <1>6. CASE KernelStep
    <2>1. UNCHANGED <<startVars, stream, peer_closed>>
      BY Zenon, <1>6, KernelFrame
    <2>2. ring \subseteq Bufs
      BY Zenon, <1>0 DEF Types
    <2>3. CASE KernelData
      <3>1. PICK b \in ring : /\ stream = "open" /\ ring' = ring \ {b}
                              /\ Post(1, "positive", Len(cq) < CqEntries, {b})
        BY Zenon, <2>3 DEF KernelData
      <3>2. Len(cq) < CqEntries /\ cfg.multishot
        BY Zenon, <3>1, RoomForData DEF Post
      <3>3. /\ Post(1, "positive", TRUE, {b}) /\ 1 \in Ctxs /\ {b} \in SUBSET Bufs
            /\ TRUE \in BOOLEAN
        BY Zenon, <2>2, <3>1, <3>2, Constants
      <3> DEFINE e == [ctx |-> 1, res |-> "positive", more |-> TRUE, buf |-> {b}]
      <3>4. e \in Cqes /\ cq' = Append(cq, e)
        BY Zenon, <3>3, PostType
      <3>5. e.res = "positive" /\ e.more /\ e.buf = {b} /\ b \in Bufs
        BY Zenon, <2>2
      <3> HIDE DEF e
      <3>6. Shape(e)
        BY Zenon, <3>2, <3>5 DEF Shape
      <3>7. e.buf \subseteq ring /\ ring' = ring \ e.buf
        BY Zenon, <3>1, <3>5
      <3> QED
        BY Zenon, <2>1, <3>1, <3>4, <3>5, <3>6, <3>7, DataPost
    <2>4. ASSUME NEW c \in Ctxs, NEW r \in {"positive", "zero", "again", "nobufs", "error"},
                 Post(c, r, FALSE, {}), ring' = ring,
                 cfg.multishot => r \notin {"positive", "again"},
                 ~cfg.multishot => r # "nobufs",
                 r = "positive" /\ ~cfg.udp => stream = "open",
                 r \in {"zero", "error"} /\ ~cfg.udp => stream = "ended"
          PROVE  DataInv'
      <3> DEFINE e == [ctx |-> c, res |-> r, more |-> FALSE, buf |-> {}]
      <3>1. e \in Cqes /\ cq' = Append(cq, e)
        BY Zenon, <2>4, PostType
      <3>2. e.res = r /\ ~e.more /\ e.buf = {}
        BY Zenon
      <3> HIDE DEF e
      <3>3. Shape(e)
        BY Zenon, <2>4, <3>2 DEF Shape
      <3>4. e.buf \subseteq ring /\ ring' = ring \ e.buf
        BY Zenon, <2>4, <3>2
      <3> QED
        BY Zenon, <2>1, <2>4, <3>1, <3>2, <3>3, <3>4, DataPost
    <2>5. CASE KernelNoBufs
      BY Zenon, <2>4, <2>5, Constants DEF KernelNoBufs
    <2>6. CASE KernelRecv
      <3>1. PICK c \in Ctxs, r \in {"positive", "again"} :
                ~cfg.multishot /\ stream = "open" /\ Post(c, r, FALSE, {}) /\ ring' = ring
        BY Zenon, <2>6 DEF KernelRecv
      <3> QED
        BY Zenon, <2>4, <3>1
    <2>7. CASE KernelEnd
      <3>1. PICK c \in Ctxs, r \in {"zero", "error"} :
                (cfg.udp \/ stream = "ended") /\ Post(c, r, FALSE, {}) /\ ring' = ring
        BY Zenon, <2>7 DEF KernelEnd
      <3> QED
        BY Zenon, <2>4, <3>1
    <2> QED
      BY Zenon, <1>6, <2>3, <2>5, <2>6, <2>7 DEF KernelStep
  <1> QED
    BY Zenon, <1>1, <1>2, <1>3, <1>4, <1>5, <1>6, Kinds DEF InLoopStep, Ending

--------------------------------------------------------------------------------
(* The worker implements the abstract pipeline *)

\* The invariant of the refinement holds at the start,
LEMMA RotationInit == Init /\ ReceiveInv => RotationInv
  <1> SUFFICES ASSUME Init, ReceiveInv PROVE RotationInv
    BY Zenon
  <1>1. pc = "main" /\ peer_closed = FALSE
    BY Zenon DEF Init, StartInit
  <1> QED
    BY Zenon, <1>1 DEF RotationInv, Room, Flushed, Cause

\* and is kept by every step.
LEMMA RotationStep == RotationInv /\ [Next]_vars /\ ReceiveInv' => RotationInv'
  <1> SUFFICES ASSUME RotationInv, [Next]_vars PROVE Room' /\ Flushed' /\ Cause'
    BY Zenon DEF RotationInv
  <1>0. TypeInv /\ IdleInv /\ Types /\ StartInv /\ Room /\ Flushed /\ Cause
    BY Zenon, TypeInvIs DEF RotationInv, ReceiveInv
  <1>1. CASE Start
    <2>1. /\ pc \in {"main", "setup"}
          /\ pc' \in {"setup", "start", "done", "aborted", "exited"}
          /\ UNCHANGED <<peer_closed, sq>>
      BY Zenon, <1>1, StartFrame
    <2>2. sq' = <<>> /\ ~peer_closed'
      BY Zenon, <1>0, <2>1 DEF IdleInv, Starting, Empty
    <2> QED
      BY Zenon, <2>1, <2>2 DEF Room, Flushed, Cause
  <1>2. CASE Finishing
    <2>1. /\ pc \in {"exit", "release"} /\ pc' \in {"release", "done"}
          /\ (Receiving' <=> Receiving) /\ (sq' = sq \/ sq' = <<>>)
          /\ UNCHANGED <<stop, peer_closed, failed>>
      BY Zenon, <1>2, FinishFrame
    <2> QED
      BY Zenon, <1>0, <2>1 DEF Room, Flushed, Cause
  <1>3. CASE InLoopStep
    <2>1. (Receiving' <=> Receiving) /\ stop' = stop
      BY Zenon, <1>3, LoopFrame, SameWorker
    <2>2. CASE Elsewhere
      <3>1. pc = "start" /\ pc' = "exit" /\ ~Receiving /\ UNCHANGED <<sq, peer_closed, failed>>
        BY Zenon, <2>2 DEF Elsewhere, Goto, engineVars
      <3> QED
        BY Zenon, <1>0, <2>1, <3>1 DEF Room, Flushed, Cause
    <2>3. CASE Setup \/ BatchEnd \/ SubmitSqe
      <3>1. pc' \in {"submit", "submit_and_wait"} /\ UNCHANGED <<peer_closed, failed>>
        BY Zenon, <2>3 DEF Setup, BatchEnd, SubmitSqe, Goto
      <3> QED
        BY Zenon, <1>0, <2>1, <3>1 DEF Room, Flushed, Cause
    <2>4. CASE Submitted
      <3>1. pc' = "loop" /\ sq = <<>> /\ UNCHANGED <<sq, peer_closed, failed>>
        BY Zenon, <2>4 DEF Submitted, Goto, engineVars
      <3> QED
        BY Zenon, <1>0, <2>1, <3>1 DEF Room, Flushed, Cause
    <2>5. CASE Loop
      <3>1. /\ pc = "loop" /\ UNCHANGED <<sq, peer_closed, failed>>
            /\ pc' = "exit" => stop \/ peer_closed
            /\ pc' \in {"exit", "submit_and_wait", "cqe"}
            /\ pc' = "cqe" => batch' = reap_completions(Len(cq), InFlight)
        BY Zenon, <2>5 DEF Loop, Goto, engineVars, Running
      <3>2. sq' = <<>>
        BY Zenon, <1>0, <3>1 DEF Flushed
      <3>3. pc' = "cqe" => Len(sq') + batch' =< InFlight
        <4>1. Len(cq) \in Nat /\ InFlight \in Nat
          BY <1>0, Constants DEF Types
        <4>2. /\ reap_completions(Len(cq), InFlight) \in Nat
              /\ reap_completions(Len(cq), InFlight) =< InFlight
          BY <4>1 DEF reap_completions, Lesser
        <4>3. Len(sq') = 0
          BY Zenon, <3>2
        <4> QED
          BY <3>1, <4>1, <4>2, <4>3
      <3> QED
        BY Zenon, <1>0, <2>1, <3>1, <3>2, <3>3 DEF Room, Flushed, Cause
    <2>6. CASE HandleMore \/ Ending
      <3>1. PICK m \in BOOLEAN : Completion(m)
        BY Zenon, <1>0, <2>6, HandleQueue DEF Ending
      <3>2. /\ batch \in Nat /\ batch > 0 /\ batch' = batch - 1 /\ pc = "cqe" /\ pc' = "cqe"
            /\ cq # <<>>
        BY Zenon, <1>0, <3>1, SeenType
      <3>3. Len(sq') =< Len(sq) + 1 /\ sq \in Seq(Sqes) /\ sq' \in Seq(Sqes)
        <4>1. /\ sq \in Seq(Sqes) /\ sq' \in Seq(Sqes)
              /\ \/ sq' = sq
                 \/ sq' = GetSqe(sq, RecvSqe(ctx))
                 \/ sq' = GetSqe(sq, MultishotSqe(ctx))
          BY Zenon, <1>0, <2>6, HandleQueue DEF Ending
        <4>2. RecvSqe(ctx) \in Sqes /\ MultishotSqe(ctx) \in Sqes
          BY Zenon, <1>0, <3>1, <4>1, SeenType, SqeType
        <4>3. /\ Len(GetSqe(sq, RecvSqe(ctx))) =< Len(sq) + 1
              /\ Len(GetSqe(sq, MultishotSqe(ctx))) =< Len(sq) + 1
          BY Zenon, <4>1, <4>2, GetSqeProperties
        <4>4. Len(sq) \in Nat
          BY <4>1
        <4> QED
          BY <4>1, <4>3, <4>4
      <3>4. Len(sq') + batch' =< InFlight
        <4>1. Len(sq) + batch =< InFlight /\ Len(sq) \in Nat /\ Len(sq') \in Nat
          BY <1>0, <3>2, <3>3 DEF Room
        <4> QED
          BY <3>2, <3>3, <4>1, Constants
      <3>5. Receiving
        BY Zenon, <1>0, <3>2 DEF IdleInv, Empty
      <3>6. peer_closed' => failed' # {}
        <4>1. CASE HandleMore \/ HandleNoBufs \/ HandleRecv
          BY Zenon, <1>0, <4>1 DEF HandleMore, HandleNoBufs, HandleRecv, Cause
        <4>2. CASE HandleMultishotEnd
          BY Zenon, <1>0, <4>2 DEF HandleMultishotEnd, Cause
        <4>3. CASE HandleRecvEnd
          BY Zenon, <4>3 DEF HandleRecvEnd
        <4> QED
          BY Zenon, <2>6, <4>1, <4>2, <4>3 DEF Ending
      <3> QED
        BY Zenon, <2>1, <3>2, <3>4, <3>5, <3>6 DEF Room, Flushed, Cause
    <2> QED
      BY Zenon, <1>3, <2>2, <2>3, <2>4, <2>5, <2>6 DEF InLoopStep, Ending
  <1>4. CASE KernelStep \/ PeerEnds \/ StopSignal \/ UNCHANGED vars
    <2>1. /\ UNCHANGED <<pc, startVars, sq, batch, peer_closed, failed>>
          /\ stop => stop'
      <3>1. CASE KernelStep
        BY <3>1, KernelFrame
      <3>2. CASE PeerEnds \/ StopSignal \/ UNCHANGED vars
        BY <3>2 DEF PeerEnds, StopSignal, vars, receiveVars, engineVars
      <3> QED
        BY Zenon, <1>4, <3>1, <3>2
    <2>2. Receiving' <=> Receiving
      BY Zenon, <2>1, SameWorker
    <2> QED
      BY Zenon, <1>0, <2>1, <2>2 DEF Room, Flushed, Cause
  <1> QED
    BY Zenon, <1>1, <1>2, <1>3, <1>4, Kinds

Busy == [c \in Slots |-> IF UnderWay(c) THEN "busy" ELSE "retired"]

\* The refinement mapping in terms of the receives under way.
LEMMA SlotIs ==
    /\ TokenInv => slot = IF Starting \/ ~Receiving THEN <<>> ELSE Busy
    /\ TokenInv' => slot' = IF Starting' \/ ~Receiving' THEN <<>> ELSE Busy'
  <1>1. Slots \subseteq Ctxs /\ Slots' \subseteq Ctxs
    BY Zenon, Constants DEF Slots
  <1>2. ASSUME TokenInv, ~(Starting \/ ~Receiving) PROVE slot = Busy
    <2>1. \A c \in Slots : (UnderWay(c) /\ ~Retired(c)) \/ (Retired(c) /\ ~UnderWay(c))
      BY <1>1, <1>2 DEF TokenInv, Retired, UnderWay, One
    <2>2. \A c \in Slots : (CASE Retired(c) -> "retired"
                              [] UnderWay(c) -> "busy"
                              [] OTHER -> "crowded")
                           = IF UnderWay(c) THEN "busy" ELSE "retired"
      BY Zenon, <2>1
    <2> QED
      BY Zenon, <1>2, <2>2 DEF slot, Busy
  <1>3. ASSUME TokenInv', ~(Starting' \/ ~Receiving') PROVE slot' = Busy'
    <2>1. \A c \in Slots' : (UnderWay(c)' /\ ~Retired(c)') \/ (Retired(c)' /\ ~UnderWay(c)')
      BY <1>1, <1>3 DEF TokenInv, Retired, UnderWay, One
    <2>2. \A c \in Slots' : (CASE Retired(c)' -> "retired"
                               [] UnderWay(c)' -> "busy"
                               [] OTHER -> "crowded")
                            = IF UnderWay(c)' THEN "busy" ELSE "retired"
      BY Zenon, <2>1
    <2> QED
      BY Zenon, <1>3, <2>2 DEF slot, Busy
  <1>4. Starting \/ ~Receiving => slot = <<>>
    BY Zenon DEF slot
  <1>5. Starting' \/ ~Receiving' => slot' = <<>>
    BY Zenon DEF slot
  <1> QED
    BY Zenon, <1>2, <1>3, <1>4, <1>5

\* A step that keeps every receive leaves the abstract slots alone.
LEMMA SameBusy ==
    ASSUME TokenInv, TokenInv', Slots' = Slots, \A c \in Ctxs : Same(c)
    PROVE  Busy' = Busy
  <1>1. Slots \subseteq Ctxs
    BY Zenon, Constants DEF Slots
  <1>2. \A c \in Ctxs : ~(UnderWay(c) /\ Retired(c)) /\ ~(UnderWay(c)' /\ Retired(c)')
    BY DEF UnderWay, Retired, One
  <1>3. \A c \in Slots : UnderWay(c)' <=> UnderWay(c)
    BY Zenon, <1>1, <1>2 DEF TokenInv, Same
  <1> QED
    BY Zenon, <1>3 DEF Busy

\* A step that retires context c alone takes its slot from busy to retired.
LEMMA OneLeaves ==
    ASSUME TokenInv, TokenInv', Slots' = Slots, NEW c \in Slots, UnderWay(c), Retired(c)',
           \A d \in Ctxs \ {c} : Same(d), slot = Busy, slot' = Busy'
    PROVE  Pipe!Leave(c) /\ c \in DOMAIN slot
  <1>1. Slots \subseteq Ctxs
    BY Zenon, Constants DEF Slots
  <1>2. \A d \in Ctxs : ~(UnderWay(d) /\ Retired(d)) /\ ~(UnderWay(d)' /\ Retired(d)')
    BY DEF UnderWay, Retired, One
  <1>3. \A d \in Slots \ {c} : UnderWay(d)' <=> UnderWay(d)
    BY Zenon, <1>1, <1>2 DEF TokenInv, Same
  <1>4. Busy' = [Busy EXCEPT ![c] = "retired"] /\ Busy[c] = "busy" /\ DOMAIN Busy = Slots
    BY Zenon, <1>1, <1>2, <1>3 DEF Busy
  <1> QED
    BY Zenon, <1>4 DEF Pipe!Leave

\* Every step is a step of the abstract pipeline or leaves it unchanged.
LEMMA StepImplements ==
    ASSUME QueueDepth >= InFlight, RotationInv, RotationInv', [Next]_vars
    PROVE  [Pipe!Next]_(Pipe!vars)
  <1>0. /\ TypeInv /\ IdleInv /\ TokenInv /\ TokenInv' /\ Types /\ Types' /\ StartInv
        /\ \A i \in DOMAIN cq : Shape(cq[i])
        /\ Room /\ Cause /\ DataInv
    BY Zenon, TypeInvIs DEF RotationInv, ReceiveInv, DataInv
  <1>1. /\ slot = IF Starting \/ ~Receiving THEN <<>> ELSE Busy
        /\ slot' = IF Starting' \/ ~Receiving' THEN <<>> ELSE Busy'
    BY Zenon, <1>0, SlotIs
  <1>2. slot' = slot /\ (fragile' <=> fragile) /\ UNCHANGED <<stop, failed>> =>
            UNCHANGED Pipe!vars
    <2>1. fragile \in BOOLEAN /\ fragile' \in BOOLEAN
      BY Zenon DEF fragile
    <2> QED
      BY Zenon, <2>1 DEF Pipe!vars
  <1>3. Slots \subseteq Ctxs /\ Slots' \subseteq Ctxs
    BY Zenon, Constants DEF Slots
  <1>4. CASE Start
    <2>1. /\ pc \in {"main", "setup"} /\ Starting
          /\ UNCHANGED <<stop, failed, sq, cq, armed>>
      BY Zenon, <1>4, StartFrame DEF Starting
    <2>2. slot = <<>> /\ ~fragile
      BY Zenon, <1>1, <2>1 DEF fragile
    <2>3. CASE Starting' \/ ~Receiving'
      <3>1. slot' = <<>> /\ ~fragile'
        BY Zenon, <1>1, <2>3 DEF fragile
      <3> QED
        BY Zenon, <1>2, <2>1, <2>2, <3>1
    <2>4. CASE ~(Starting' \/ ~Receiving')
      <3>1. Empty'
        BY Zenon, <1>0, <2>1 DEF IdleInv, Empty
      <3>2. \A c \in Ctxs : ~UnderWay(c)'
        BY <3>1, EmptyRetired DEF UnderWay, Retired, One
      <3>3. slot' = [c \in Slots' |-> "retired"]
        BY Zenon, <1>1, <1>3, <2>4, <3>2 DEF Busy
      <3>4. fragile' \in BOOLEAN
        BY Zenon DEF fragile
      <3>5. Pipe!Begin
        BY Zenon, <1>3, <2>1, <2>2, <3>3, <3>4 DEF Pipe!Begin
      <3> QED
        BY Zenon, <3>5 DEF Pipe!Next
    <2> QED
      BY Zenon, <2>3, <2>4
  <1>5. CASE Elsewhere
    <2>1. /\ pc = "start" /\ ~Receiving /\ UNCHANGED <<startVars, stop, failed>>
      BY Zenon, <1>5 DEF Elsewhere, Goto
    <2>2. ~Receiving'
      BY Zenon, <2>1, SameWorker
    <2> QED
      BY Zenon, <1>1, <1>2, <2>1, <2>2 DEF fragile
  <1>6. CASE Setup
    <2>1. /\ pc = "start" /\ pc' = "submit" /\ Receiving /\ UNCHANGED <<startVars, stop, failed>>
      BY Zenon, <1>6 DEF Setup, Goto
    <2>2. Receiving' /\ cfg' = cfg /\ Slots' = Slots
      BY Zenon, <2>1, SameWorker
    <2>3. \A c \in Slots : UnderWay(c)'
      BY Zenon, <1>0, <1>6, SetupTokens DEF Slots
    <2>4. slot = <<>> /\ slot' = [c \in Slots |-> "busy"]
      BY Zenon, <1>1, <2>1, <2>2, <2>3 DEF Busy, Starting
    <2>5. fragile' \in BOOLEAN
      BY Zenon DEF fragile
    <2>6. Pipe!Begin
      BY Zenon, <1>3, <2>1, <2>4, <2>5 DEF Pipe!Begin
    <2> QED
      BY Zenon, <2>6 DEF Pipe!Next
  <1>7. ASSUME UNCHANGED <<startVars, stop, failed>>, Starting' <=> Starting,
               \A c \in Ctxs : Same(c)
        PROVE  [Pipe!Next]_(Pipe!vars)
    <2>1. cfg' = cfg /\ Slots' = Slots /\ (Receiving' <=> Receiving)
      BY Zenon, <1>7, SameWorker
    <2>2. Busy' = Busy
      BY Zenon, <1>0, <1>7, <2>1, SameBusy
    <2>3. slot' = slot /\ (fragile' <=> fragile)
      BY Zenon, <1>1, <1>7, <2>1, <2>2 DEF fragile
    <2> QED
      BY Zenon, <1>2, <1>7, <2>3
  <1>8. CASE Loop \/ BatchEnd \/ Submitted
    <2>1. /\ UNCHANGED <<startVars, stop, failed, sq, cq, armed>>
          /\ pc \in {"loop", "cqe", "submit", "submit_and_wait"}
          /\ pc' \in {"exit", "loop", "cqe", "submit", "submit_and_wait"}
      BY Zenon, <1>8 DEF Loop, BatchEnd, Submitted, Goto, engineVars
    <2> QED
      BY Zenon, <1>7, <2>1, QuietSame DEF Starting
  <1>9. CASE SubmitSqe
    <2>1. /\ UNCHANGED <<startVars, stop, failed, pc>>
      BY Zenon, <1>9 DEF SubmitSqe, Goto
    <2> QED
      BY Zenon, <1>0, <1>7, <1>9, <2>1, SubmitSame DEF Starting
  <1>10. CASE HandleMore
    <2>1. UNCHANGED <<startVars, stop, failed, pc>>
      BY Zenon, <1>10 DEF HandleMore, Completion, Goto
    <2> QED
      BY Zenon, <1>0, <1>7, <1>10, <2>1, MoreSame DEF Starting
  <1>11. CASE Ending
    <2>c. PICK c : c = ctx
      BY Zenon
    <2>1. /\ c \in Ctxs /\ UnderWay(c) /\ (cfg.multishot => c = 1)
          /\ sq' = sq => Retired(c)'
          /\ sq' # sq => UnderWay(c)'
          /\ \A d \in Ctxs \ {c} : Same(d)
          /\ UNCHANGED <<startVars, stop, stream>>
      BY Zenon, <1>0, <1>11, <2>c, EndingTokens
    <2>2. PICK m \in BOOLEAN : Completion(m)
      BY Zenon, <1>0, <1>11, HandleQueue DEF Ending
    <2>3. /\ pc = "cqe" /\ pc' = "cqe" /\ cq # <<>> /\ batch \in Nat /\ batch > 0
      BY Zenon, <1>0, <2>2, SeenType
    <2>4. Receiving /\ ~Starting /\ ~Starting'
      BY Zenon, <1>0, <2>3 DEF IdleInv, Empty, Starting
    <2>5. cfg' = cfg /\ Slots' = Slots /\ Receiving'
      BY Zenon, <2>1, <2>4, SameWorker
    <2>6. c \in Slots
      BY Zenon, <2>1 DEF Slots
    <2>7. slot = Busy /\ slot' = Busy' /\ (fragile' <=> fragile) /\ fragile' = fragile
      <3>1. fragile \in BOOLEAN /\ fragile' \in BOOLEAN
        BY Zenon DEF fragile
      <3> QED
        BY Zenon, <1>1, <2>4, <2>5, <3>1 DEF fragile
    <2>8. ASSUME sq' = sq PROVE Pipe!Leave(c) /\ c \in DOMAIN slot
      BY Zenon, <1>0, <2>1, <2>5, <2>6, <2>7, <2>8, OneLeaves
    <2>9. ASSUME sq' = sq, stop, failed' = failed PROVE [Pipe!Next]_(Pipe!vars)
      <3>1. Pipe!Rest(c)
        BY Zenon, <2>1, <2>7, <2>8, <2>9 DEF Pipe!Rest
      <3> QED
        BY Zenon, <2>8, <2>9, <3>1 DEF Pipe!Next, Pipe!WindDown
    <2>10. ASSUME sq' = sq, failed' = failed \cup {c} PROVE [Pipe!Next]_(Pipe!vars)
      <3>1. Pipe!Fail(c)
        BY Zenon, <2>1, <2>7, <2>8, <2>10 DEF Pipe!Fail
      <3> QED
        BY Zenon, <2>8, <2>10, <3>1 DEF Pipe!Next, Pipe!WindDown
    <2>11. ASSUME sq' # sq, failed' = failed PROVE [Pipe!Next]_(Pipe!vars)
      <3>1. UnderWay(c)' /\ ~Retired(c)
        BY <2>1, <2>11 DEF UnderWay, Retired, One
      <3>2. \A d \in Ctxs : Same(d)
        BY Zenon, <2>1, <3>1 DEF Same
      <3> QED
        BY Zenon, <1>7, <2>1, <2>4, <2>11, <3>2
    <2>12. sq \in Seq(Sqes) /\ Len(sq) < QueueDepth
      <3>1. sq \in Seq(Sqes) /\ Len(sq) \in Nat
        BY <1>0 DEF Types
      <3>2. Len(sq) + batch =< InFlight
        BY Zenon, <1>0, <2>3 DEF Room
      <3> QED
        BY <2>3, <3>1, <3>2, Constants, QueueDepthAssumption
    <2>13. /\ prep_recv(sq, Sock, c) # sq
           /\ prep_recv_multishot(sq, Sock, c) # sq
      <3>1. ASSUME NEW e PROVE GetSqe(sq, e) # sq
        <4>1. GetSqe(sq, e) = Append(sq, e)
          BY Zenon, <2>12 DEF GetSqe
        <4>2. Len(Append(sq, e)) = Len(sq) + 1 /\ Len(sq) \in Nat
          BY <2>12
        <4> QED
          BY <4>1, <4>2
      <3> QED
        BY Zenon, <3>1 DEF prep_recv, prep_recv_multishot
    <2>14. CASE HandleNoBufs
      <3>1. sq' = prep_recv_multishot(sq, Sock, c) /\ failed' = failed
        BY Zenon, <2>c, <2>14 DEF HandleNoBufs
      <3> QED
        BY Zenon, <2>11, <2>13, <3>1
    <2>15. CASE HandleMultishotEnd
      <3>1. \/ /\ sq' = IF stop THEN sq ELSE prep_recv_multishot(sq, Sock, c)
               /\ failed' = failed
            \/ sq' = sq /\ failed' = failed \cup {c}
        BY Zenon, <2>c, <2>15 DEF HandleMultishotEnd
      <3> QED
        BY Zenon, <2>9, <2>10, <2>11, <2>13, <3>1
    <2>16. CASE HandleRecv
      <3>1. /\ sq' = IF stop /\ ~cfg.udp THEN sq ELSE prep_recv(sq, Sock, c)
            /\ failed' = failed
        BY Zenon, <2>c, <2>16 DEF HandleRecv
      <3> QED
        BY Zenon, <2>9, <2>11, <2>13, <3>1
    <2>17. CASE HandleRecvEnd
      <3>1. sq' = sq /\ failed' = failed \cup {c}
        BY Zenon, <2>c, <2>17 DEF HandleRecvEnd
      <3> QED
        BY Zenon, <2>10, <3>1
    <2> QED
      BY Zenon, <1>11, <2>14, <2>15, <2>16, <2>17 DEF Ending
  <1>12. CASE Finishing
    <2>1. /\ pc \in {"exit", "release"} /\ pc' \in {"release", "done"}
          /\ cfg' = cfg /\ Slots' = Slots /\ (Receiving' <=> Receiving)
          /\ UNCHANGED <<stop, peer_closed, failed>>
      BY Zenon, <1>12, FinishFrame
    <2>2. ~Starting /\ ~Starting'
      BY Zenon, <2>1 DEF Starting
    <2>3. (fragile' <=> fragile) /\ fragile \in BOOLEAN /\ fragile' \in BOOLEAN
      BY Zenon, <2>1, <2>2 DEF fragile
    <2>4. CASE ~Receiving
      BY Zenon, <1>1, <1>2, <2>1, <2>3, <2>4
    <2>5. CASE Receiving /\ "queue" \notin held \ held'
      <3>1. UNCHANGED <<sq, cq, armed>>
        BY Zenon, <1>12, <2>5, FinishFrame
      <3>2. Busy' = Busy
        BY Zenon, <1>0, <2>1, <3>1, QuietSame, SameBusy
      <3> QED
        BY Zenon, <1>1, <1>2, <2>1, <2>2, <2>3, <2>5, <3>2
    <2>6. CASE Receiving /\ "queue" \in held \ held'
      <3>1. Empty'
        BY Zenon, <1>12, <2>6, FinishFrame DEF Empty
      <3>2. \A c \in Ctxs : ~UnderWay(c)'
        BY <3>1, EmptyRetired DEF UnderWay, Retired, One
      <3>3. slot = Busy /\ slot' = [c \in Slots |-> "retired"] /\ DOMAIN Busy = Slots
        BY Zenon, <1>1, <1>3, <2>1, <2>2, <2>6, <3>2 DEF Busy
      <3>4. stop \/ (fragile /\ failed # {})
        BY Zenon, <1>0, <2>1, <2>2, <2>6 DEF Cause, DataInv, fragile
      <3>5. CASE \E c \in Slots : UnderWay(c)
        <4>1. \E c \in DOMAIN slot : slot[c] = "busy"
          BY Zenon, <3>3, <3>5 DEF Busy
        <4>2. Pipe!End
          BY Zenon, <2>1, <2>3, <3>3, <3>4, <4>1 DEF Pipe!End, Pipe!MayEnd
        <4> QED
          BY Zenon, <4>2 DEF Pipe!Next, Pipe!WindDown
      <3>6. CASE \A c \in Slots : ~UnderWay(c)
        <4>1. Busy = [c \in Slots |-> "retired"]
          BY Zenon, <3>6 DEF Busy
        <4> QED
          BY Zenon, <1>2, <2>1, <2>3, <3>3, <4>1
      <3> QED
        BY Zenon, <3>5, <3>6
    <2> QED
      BY Zenon, <2>4, <2>5, <2>6
  <1>13. CASE KernelStep
    <2>1. PICK c \in Ctxs, r \in {"positive", "zero", "again", "nobufs", "error"},
               more \in BOOLEAN, b \in SUBSET ring :
               Post(c, r, more, b) /\ ring' = ring \ b
      BY Zenon, <1>13, KernelFrame
    <2>2. b \in SUBSET Bufs
      BY Zenon, <1>0 DEF Types
    <2>3. \A d \in Ctxs : Same(d)
      BY Zenon, <1>0, <2>1, <2>2, PostSame
    <2>4. UNCHANGED <<startVars, stop, failed, pc>>
      BY Zenon, <1>13, KernelFrame
    <2> QED
      BY Zenon, <1>7, <2>3, <2>4 DEF Starting
  <1>14. CASE PeerEnds \/ UNCHANGED vars
    <2>1. UNCHANGED <<startVars, stop, failed, pc, sq, cq, armed>>
      BY Zenon, <1>14 DEF PeerEnds, vars, receiveVars, engineVars
    <2> QED
      BY Zenon, <1>7, <2>1, QuietSame DEF Starting
  <1>15. CASE StopSignal
    <2>1. UNCHANGED <<startVars, failed, pc, sq, cq, armed>> /\ ~stop /\ stop' = TRUE
      BY Zenon, <1>15 DEF StopSignal, engineVars
    <2>2. /\ cfg' = cfg /\ Slots' = Slots /\ (Receiving' <=> Receiving)
          /\ (Starting' <=> Starting)
      BY Zenon, <2>1, SameWorker DEF Starting
    <2>3. Busy' = Busy
      BY Zenon, <1>0, <2>1, <2>2, QuietSame, SameBusy
    <2>4. slot' = slot /\ fragile' = fragile
      <3>1. fragile \in BOOLEAN /\ fragile' \in BOOLEAN /\ (fragile' <=> fragile)
        BY Zenon, <2>2 DEF fragile
      <3> QED
        BY Zenon, <1>1, <2>2, <2>3, <3>1
    <2>5. Pipe!Tell
      BY Zenon, <2>1, <2>4 DEF Pipe!Tell
    <2> QED
      BY Zenon, <2>5 DEF Pipe!Next
  <1> QED
    BY Zenon, <1>4, <1>5, <1>6, <1>8, <1>9, <1>10, <1>11, <1>12, <1>13, <1>14, <1>15,
       Kinds
    DEF InLoopStep, Ending

================================================================================
