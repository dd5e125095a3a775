----------------------------- MODULE ReceiveProofs -----------------------------
(***************************************************************************)
(* ReceiveWorker, for every command line, pipeline depth and queue depth:  *)
(* the invariant of a worker's way in and out and what it says, and, with  *)
(* the receive loop of ReceiveLoopProofs, the theorems.  An induction over *)
(* the options follows the loop of parse_args(), and an order of the calls *)
(* the setup and the release.                                              *)
(***************************************************************************)
EXTENDS ReceiveLoopProofs

(* The options *)

Fields ==
    {"mode", "udp", "port", "duration_sec", "threads", "buf_size", "queue_depth",
    "zero_copy", "sqpoll", "fixed_buffers", "multishot_recv", "multi_process",
    "reverse", "use_zcrx", "zcrx_ifname", "zcrx_base_queue", "interval_sec",
    "cpu_affinity", "len_user_set", "exit"}

IsConfig(p) == p = [f \in Fields |-> p[f]]

\* What one turn of the loop over the options does to each field.
Turn(p, o, q) ==
    /\ IsConfig(q)
    /\ q.mode = IF o.opt = "-s" THEN "SERVER" ELSE IF o.opt = "-c" THEN "CLIENT" ELSE p.mode
    /\ q.udp = IF o.opt = "-u" THEN TRUE ELSE p.udp
    /\ q.port = IF o.opt = "-p" THEN uint16_t(o.arg[1]) ELSE p.port
    /\ q.duration_sec = IF o.opt = "-t" THEN max(1, o.arg[1]) ELSE p.duration_sec
    /\ q.threads = IF o.opt = "-P" THEN max(1, o.arg[1]) ELSE p.threads
    /\ q.buf_size = IF o.opt = "-l" THEN max(64, o.arg[1]) ELSE p.buf_size
    /\ q.queue_depth = IF o.opt = "-q" THEN max(16, o.arg[1]) ELSE p.queue_depth
    /\ q.zero_copy = IF o.opt = "-Z" THEN TRUE ELSE p.zero_copy
    /\ q.sqpoll = IF o.opt = "-S" THEN TRUE ELSE p.sqpoll
    /\ q.fixed_buffers = IF o.opt = "-F" THEN FALSE ELSE p.fixed_buffers
    /\ q.multishot_recv = IF o.opt = "--no-multishot-recv" THEN FALSE ELSE p.multishot_recv
    /\ q.multi_process = IF o.opt = "-M" THEN TRUE ELSE p.multi_process
    /\ q.reverse = IF o.opt = "-R" THEN TRUE ELSE p.reverse
    /\ q.use_zcrx = IF o.opt = "-Y" THEN TRUE ELSE p.use_zcrx
    /\ q.zcrx_ifname = IF o.opt = "--zcrx-if" THEN (o.arg # <<>>) ELSE p.zcrx_ifname
    /\ q.zcrx_base_queue = IF o.opt = "--zcrx-queue" THEN o.arg[1] ELSE p.zcrx_base_queue
    /\ q.interval_sec = IF o.opt = "-i" THEN max(1, o.arg[1]) ELSE p.interval_sec
    /\ q.cpu_affinity = IF o.opt = "-A" THEN p.cpu_affinity \o o.arg ELSE p.cpu_affinity
    /\ q.len_user_set = IF o.opt = "-l" THEN TRUE ELSE p.len_user_set
    /\ q.exit = IF o.opt = "-h" THEN "0" ELSE IF o.opt = "?" THEN "1" ELSE p.exit

\* One turn of the option loop, field by field.
LEMMA ApplyTurn ==
    ASSUME NEW p, IsConfig(p), p.exit = "none", NEW o \in Options
    PROVE  Turn(p, o, Apply(p, o))
  <1>q. PICK q : q = Apply(p, o)
    BY Zenon
  <1> SUFFICES Turn(p, o, q)
    BY Zenon, <1>q
  <1>1. o.opt \in
            {"-s", "-c", "-p", "-u", "-R", "-Z", "-Y", "--zcrx-if", "--zcrx-queue",
            "--no-multishot-recv", "-S", "-P", "-M", "-l", "-q", "-F", "-A", "-t", "-i",
            "-h", "?"}
    BY Zenon DEF Options, Flags, Numeric
  <1>2. CASE o.opt = "-s"
    <2>1. q = [p EXCEPT !.mode = "SERVER"]
      BY Zenon, <1>q, <1>2 DEF Apply, Effect
    <2>2. /\ IsConfig(q) /\ q.mode = "SERVER"
          /\ \A f \in Fields \ {"mode"} : q[f] = p[f]
      BY <2>1, Zenon DEF IsConfig, Fields
    <2> QED
      BY <1>2, <2>2, Zenon DEF Turn, Fields
  <1>3. CASE o.opt = "-c"
    <2>1. q = [p EXCEPT !.mode = "CLIENT"]
      BY Zenon, <1>q, <1>3 DEF Apply, Effect
    <2>2. /\ IsConfig(q) /\ q.mode = "CLIENT"
          /\ \A f \in Fields \ {"mode"} : q[f] = p[f]
      BY <2>1, Zenon DEF IsConfig, Fields
    <2> QED
      BY <1>3, <2>2, Zenon DEF Turn, Fields
  <1>4. CASE o.opt = "-p"
    <2>1. q = [p EXCEPT !.port = uint16_t(o.arg[1])]
      BY Zenon, <1>q, <1>4 DEF Apply, Effect
    <2>2. /\ IsConfig(q) /\ q.port = uint16_t(o.arg[1])
          /\ \A f \in Fields \ {"port"} : q[f] = p[f]
      BY <2>1, Zenon DEF IsConfig, Fields
    <2> QED
      BY <1>4, <2>2, Zenon DEF Turn, Fields
  <1>5. CASE o.opt = "-u"
    <2>1. q = [p EXCEPT !.udp = TRUE]
      BY Zenon, <1>q, <1>5 DEF Apply, Effect
    <2>2. /\ IsConfig(q) /\ q.udp = TRUE
          /\ \A f \in Fields \ {"udp"} : q[f] = p[f]
      BY <2>1, Zenon DEF IsConfig, Fields
    <2> QED
      BY <1>5, <2>2, Zenon DEF Turn, Fields
  <1>6. CASE o.opt = "-R"
    <2>1. q = [p EXCEPT !.reverse = TRUE]
      BY Zenon, <1>q, <1>6 DEF Apply, Effect
    <2>2. /\ IsConfig(q) /\ q.reverse = TRUE
          /\ \A f \in Fields \ {"reverse"} : q[f] = p[f]
      BY <2>1, Zenon DEF IsConfig, Fields
    <2> QED
      BY <1>6, <2>2, Zenon DEF Turn, Fields
  <1>7. CASE o.opt = "-Z"
    <2>1. q = [p EXCEPT !.zero_copy = TRUE]
      BY Zenon, <1>q, <1>7 DEF Apply, Effect
    <2>2. /\ IsConfig(q) /\ q.zero_copy = TRUE
          /\ \A f \in Fields \ {"zero_copy"} : q[f] = p[f]
      BY <2>1, Zenon DEF IsConfig, Fields
    <2> QED
      BY <1>7, <2>2, Zenon DEF Turn, Fields
  <1>8. CASE o.opt = "-Y"
    <2>1. q = [p EXCEPT !.use_zcrx = TRUE]
      BY Zenon, <1>q, <1>8 DEF Apply, Effect
    <2>2. /\ IsConfig(q) /\ q.use_zcrx = TRUE
          /\ \A f \in Fields \ {"use_zcrx"} : q[f] = p[f]
      BY <2>1, Zenon DEF IsConfig, Fields
    <2> QED
      BY <1>8, <2>2, Zenon DEF Turn, Fields
  <1>9. CASE o.opt = "--zcrx-if"
    <2>1. q = [p EXCEPT !.zcrx_ifname = (o.arg # <<>>)]
      BY Zenon, <1>q, <1>9 DEF Apply, Effect
    <2>2. /\ IsConfig(q) /\ q.zcrx_ifname = (o.arg # <<>>)
          /\ \A f \in Fields \ {"zcrx_ifname"} : q[f] = p[f]
      BY <2>1, Zenon DEF IsConfig, Fields
    <2> QED
      BY <1>9, <2>2, Zenon DEF Turn, Fields
  <1>10. CASE o.opt = "--zcrx-queue"
    <2>1. q = [p EXCEPT !.zcrx_base_queue = o.arg[1]]
      BY Zenon, <1>q, <1>10 DEF Apply, Effect
    <2>2. /\ IsConfig(q) /\ q.zcrx_base_queue = o.arg[1]
          /\ \A f \in Fields \ {"zcrx_base_queue"} : q[f] = p[f]
      BY <2>1, Zenon DEF IsConfig, Fields
    <2> QED
      BY <1>10, <2>2, Zenon DEF Turn, Fields
  <1>11. CASE o.opt = "--no-multishot-recv"
    <2>1. q = [p EXCEPT !.multishot_recv = FALSE]
      BY Zenon, <1>q, <1>11 DEF Apply, Effect
    <2>2. /\ IsConfig(q) /\ q.multishot_recv = FALSE
          /\ \A f \in Fields \ {"multishot_recv"} : q[f] = p[f]
      BY <2>1, Zenon DEF IsConfig, Fields
    <2> QED
      BY <1>11, <2>2, Zenon DEF Turn, Fields
  <1>12. CASE o.opt = "-S"
    <2>1. q = [p EXCEPT !.sqpoll = TRUE]
      BY Zenon, <1>q, <1>12 DEF Apply, Effect
    <2>2. /\ IsConfig(q) /\ q.sqpoll = TRUE
          /\ \A f \in Fields \ {"sqpoll"} : q[f] = p[f]
      BY <2>1, Zenon DEF IsConfig, Fields
    <2> QED
      BY <1>12, <2>2, Zenon DEF Turn, Fields
  <1>13. CASE o.opt = "-P"
    <2>1. q = [p EXCEPT !.threads = max(1, o.arg[1])]
      BY Zenon, <1>q, <1>13 DEF Apply, Effect
    <2>2. /\ IsConfig(q) /\ q.threads = max(1, o.arg[1])
          /\ \A f \in Fields \ {"threads"} : q[f] = p[f]
      BY <2>1, Zenon DEF IsConfig, Fields
    <2> QED
      BY <1>13, <2>2, Zenon DEF Turn, Fields
  <1>14. CASE o.opt = "-M"
    <2>1. q = [p EXCEPT !.multi_process = TRUE]
      BY Zenon, <1>q, <1>14 DEF Apply, Effect
    <2>2. /\ IsConfig(q) /\ q.multi_process = TRUE
          /\ \A f \in Fields \ {"multi_process"} : q[f] = p[f]
      BY <2>1, Zenon DEF IsConfig, Fields
    <2> QED
      BY <1>14, <2>2, Zenon DEF Turn, Fields
  <1>15. CASE o.opt = "-l"
    <2>1. q = [p EXCEPT !.buf_size = max(64, o.arg[1]), !.len_user_set = TRUE]
      BY Zenon, <1>q, <1>15 DEF Apply, Effect
    <2>2. /\ IsConfig(q) /\ q.buf_size = max(64, o.arg[1]) /\ q.len_user_set = TRUE
          /\ \A f \in Fields \ {"buf_size", "len_user_set"} : q[f] = p[f]
      BY <2>1, Zenon DEF IsConfig, Fields
    <2> QED
      BY <1>15, <2>2, Zenon DEF Turn, Fields
  <1>16. CASE o.opt = "-q"
    <2>1. q = [p EXCEPT !.queue_depth = max(16, o.arg[1])]
      BY Zenon, <1>q, <1>16 DEF Apply, Effect
    <2>2. /\ IsConfig(q) /\ q.queue_depth = max(16, o.arg[1])
          /\ \A f \in Fields \ {"queue_depth"} : q[f] = p[f]
      BY <2>1, Zenon DEF IsConfig, Fields
    <2> QED
      BY <1>16, <2>2, Zenon DEF Turn, Fields
  <1>17. CASE o.opt = "-F"
    <2>1. q = [p EXCEPT !.fixed_buffers = FALSE]
      BY Zenon, <1>q, <1>17 DEF Apply, Effect
    <2>2. /\ IsConfig(q) /\ q.fixed_buffers = FALSE
          /\ \A f \in Fields \ {"fixed_buffers"} : q[f] = p[f]
      BY <2>1, Zenon DEF IsConfig, Fields
    <2> QED
      BY <1>17, <2>2, Zenon DEF Turn, Fields
  <1>18. CASE o.opt = "-A"
    <2>1. q = [p EXCEPT !.cpu_affinity = p.cpu_affinity \o o.arg]
      BY Zenon, <1>q, <1>18 DEF Apply, Effect
    <2>2. /\ IsConfig(q) /\ q.cpu_affinity = p.cpu_affinity \o o.arg
          /\ \A f \in Fields \ {"cpu_affinity"} : q[f] = p[f]
      BY <2>1, Zenon DEF IsConfig, Fields
    <2> QED
      BY <1>18, <2>2, Zenon DEF Turn, Fields
  <1>19. CASE o.opt = "-t"
    <2>1. q = [p EXCEPT !.duration_sec = max(1, o.arg[1])]
      BY Zenon, <1>q, <1>19 DEF Apply, Effect
    <2>2. /\ IsConfig(q) /\ q.duration_sec = max(1, o.arg[1])
          /\ \A f \in Fields \ {"duration_sec"} : q[f] = p[f]
      BY <2>1, Zenon DEF IsConfig, Fields
    <2> QED
      BY <1>19, <2>2, Zenon DEF Turn, Fields
  <1>20. CASE o.opt = "-i"
    <2>1. q = [p EXCEPT !.interval_sec = max(1, o.arg[1])]
      BY Zenon, <1>q, <1>20 DEF Apply, Effect
    <2>2. /\ IsConfig(q) /\ q.interval_sec = max(1, o.arg[1])
          /\ \A f \in Fields \ {"interval_sec"} : q[f] = p[f]
      BY <2>1, Zenon DEF IsConfig, Fields
    <2> QED
      BY <1>20, <2>2, Zenon DEF Turn, Fields
  <1>21. CASE o.opt = "-h"
    <2>1. q = [p EXCEPT !.exit = "0"]
      BY Zenon, <1>q, <1>21 DEF Apply, Effect
    <2>2. /\ IsConfig(q) /\ q.exit = "0"
          /\ \A f \in Fields \ {"exit"} : q[f] = p[f]
      BY <2>1, Zenon DEF IsConfig, Fields
    <2> QED
      BY <1>21, <2>2, Zenon DEF Turn, Fields
  <1>22. CASE o.opt = "?"
    <2>1. q = [p EXCEPT !.exit = "1"]
      BY Zenon, <1>q, <1>22 DEF Apply, Effect
    <2>2. /\ IsConfig(q) /\ q.exit = "1"
          /\ \A f \in Fields \ {"exit"} : q[f] = p[f]
      BY <2>1, Zenon DEF IsConfig, Fields
    <2> QED
      BY <1>22, <2>2, Zenon DEF Turn, Fields
  <1> QED
    BY Zenon,
       <1>1, <1>2, <1>3, <1>4, <1>5, <1>6, <1>7, <1>8, <1>9, <1>10, <1>11, <1>12, <1>13,
       <1>14, <1>15, <1>16, <1>17, <1>18, <1>19, <1>20, <1>21, <1>22

\* r is the function of the Configs after each of the first n options.
IsReads(r, options, n) ==
    /\ r = [k \in 0..n |-> r[k]]
    /\ r[0] = Defaults
    /\ \A k \in 1..n : r[k] = Apply(r[k - 1], options[k])

\* The loop over the options is a recursive function: it exists.
LEMMA ReadsProperties ==
    ASSUME NEW options \in Seq(Options)
    PROVE  IsReads(Reads(options), options, Len(options))
  <1> DEFINE N == Len(options)
             S == {n \in Nat : \E r : IsReads(r, options, n)}
  <1>0. N \in Nat
    OBVIOUS
  <1>1. 0 \in S
    <2>1. IsReads([k \in 0..0 |-> Defaults], options, 0)
      BY DEF IsReads
    <2> QED
      BY Zenon, <2>1
  <1>2. ASSUME NEW n \in S PROVE n + 1 \in S
    <2>0. n \in Nat
      BY Zenon
    <2>1. PICK r : IsReads(r, options, n)
      BY <2>0, Zenon
    <2> DEFINE h == [k \in 0..(n + 1) |-> IF k =< n THEN r[k]
                                          ELSE Apply(r[n], options[n + 1])]
    <2> HIDE DEF S
    <2>2. h = [k \in 0..(n + 1) |-> h[k]]
      BY Zenon
    <2>3. h[0] = Defaults
      BY <2>0, <2>1 DEF IsReads
    <2>4. ASSUME NEW k \in 1..(n + 1) PROVE h[k] = Apply(h[k - 1], options[k])
      <3>1. /\ k \in 0..(n + 1) /\ k - 1 \in 0..(n + 1) /\ k - 1 =< n
            /\ (k = n + 1 /\ ~(k =< n) /\ k - 1 = n) \/ (k \in 1..n /\ k =< n)
        BY <2>0
      <3>2. /\ h[k - 1] = r[k - 1]
            /\ h[k] = IF k =< n THEN r[k] ELSE Apply(r[n], options[n + 1])
        BY Zenon, <3>1
      <3> HIDE DEF h
      <3> QED
        BY <2>1, <3>1, <3>2, Zenon DEF IsReads
    <2> HIDE DEF h
    <2>5. IsReads(h, options, n + 1)
      BY <2>2, <2>3, <2>4, Zenon DEF IsReads
    <2> QED
      BY <2>0, <2>5 DEF S
  <1>3. S = Nat
    <2> HIDE DEF S
    <2>1. S \in SUBSET Nat
      BY Zenon DEF S
    <2> QED
      BY Zenon, <1>1, <1>2, <2>1, SetInduction
  <1>4. PICK r : IsReads(r, options, N)
    BY <1>0, <1>3, Zenon
  <1> DEFINE Rec(p) == [k \in 0..N |-> IF k = 0 THEN Defaults
                                       ELSE Apply(p[k - 1], options[k])]
  <1> HIDE DEF S
  <1>5. r = Rec(r)
    <2>1. ASSUME NEW k \in 0..N
          PROVE  r[k] = IF k = 0 THEN Defaults ELSE Apply(r[k - 1], options[k])
      <3>1. k = 0 \/ (k # 0 /\ k \in 1..N)
        BY <1>0
      <3> QED
        BY <1>4, <3>1, Zenon DEF IsReads
    <2>2. r = [k \in 0..N |-> r[k]]
      BY <1>4, Zenon DEF IsReads
    <2> QED
      BY <2>1, <2>2, Zenon
  <1>6. Reads(options) = CHOOSE p : p = Rec(p)
    BY Zenon DEF Reads
  <1>7. Reads(options) = Rec(Reads(options))
    <2> HIDE DEF Rec
    <2> QED
      BY <1>5, <1>6, Zenon
  <1> DEFINE p == Reads(options)
  <1>8. p = Rec(p)
    BY Zenon, <1>7
  <1> HIDE DEF p
  <1>9. ASSUME NEW k \in 0..N
        PROVE  p[k] = IF k = 0 THEN Defaults ELSE Apply(p[k - 1], options[k])
    <2>1. p[k] = Rec(p)[k]
      <3> HIDE DEF Rec
      <3> QED
        BY <1>8, Zenon
    <2> QED
      BY <2>1, Zenon
  <1>10. p[0] = Defaults /\ \A k \in 1..N : p[k] = Apply(p[k - 1], options[k])
    <2>1. 0 \in 0..N /\ \A k \in 1..N : k \in 0..N /\ k # 0
      BY <1>0
    <2> QED
      BY <1>9, <2>1, Zenon
  <1>11. p = [k \in 0..N |-> p[k]]
    <2>1. \A q : Rec(q) = [k \in 0..N |-> Rec(q)[k]]
      BY Zenon
    <2> HIDE DEF Rec
    <2> QED
      BY <1>8, <2>1, Zenon
  <1> QED
    BY <1>10, <1>11, Zenon DEF IsReads, p

\* An option has the number it needs.
LEMMA OptionArgs ==
    ASSUME NEW o \in Options
    PROVE  o.opt \in Numeric => o.arg[1] \in Int
  <1> SUFFICES ASSUME o.opt \in Numeric PROVE o.arg[1] \in Int
    BY Zenon
  <1>1. o.arg \in {<<n>> : n \in Numbers}
    BY Zenon DEF Options, Flags, Numeric
  <1>2. PICK n \in Numbers : o.arg = <<n>>
    BY Zenon, <1>1
  <1> QED
    BY <1>2, ConfigAssumption

\* A number cut to 16 bits is a port.
LEMMA PortType == \A i \in Int : uint16_t(i) \in Port
  BY DEF uint16_t, Port

\* What the set-up reads has its type after every option.
ConfigOK(p) ==
    /\ IsConfig(p)
    /\ p.mode \in {"CLIENT", "SERVER"}
    /\ p.udp \in BOOLEAN /\ p.sqpoll \in BOOLEAN /\ p.fixed_buffers \in BOOLEAN
    /\ p.multishot_recv \in BOOLEAN /\ p.reverse \in BOOLEAN
    /\ p.use_zcrx \in BOOLEAN /\ p.zcrx_ifname \in BOOLEAN
    /\ p.port \in Port

\* A turn keeps every field in its range.
LEMMA ApplyTyped ==
    ASSUME NEW q, ConfigOK(q), NEW o \in Options
    PROVE  ConfigOK(Apply(q, o))
  <1>1. CASE q.exit # "none"
    BY Zenon, <1>1 DEF Apply
  <1>2. CASE q.exit = "none"
    <2> DEFINE r == Apply(q, o)
    <2>1. IsConfig(q)
      BY Zenon DEF ConfigOK
    <2>2. Turn(q, o, r)
      BY Zenon, <1>2, <2>1, ApplyTurn
    <2> HIDE DEF r
    <2>3. o.opt = "-p" => uint16_t(o.arg[1]) \in Port
      BY Zenon, OptionArgs, PortType DEF Numeric
    <2>4. (o.arg # <<>>) \in BOOLEAN
      BY Zenon
    <2>5. ConfigOK(r)
      BY <2>2, <2>3, <2>4, Zenon DEF ConfigOK, Turn
    <2> QED
      BY Zenon, <2>5 DEF r
  <1> QED
    BY Zenon, <1>1, <1>2

\* So the Config after the last option has its fields in their ranges.
LEMMA ReadsTyped ==
    ASSUME NEW options \in Seq(Options)
    PROVE  ConfigOK(Reads(options)[Len(options)])
  <1> DEFINE N == Len(options)
             p == Reads(options)
             S == {n \in Nat : n =< N => ConfigOK(p[n])}
  <1>0. N \in Nat
    OBVIOUS
  <1>p. IsReads(p, options, N)
    BY Zenon, ReadsProperties
  <1> HIDE DEF p
  <1>1. 0 \in S
    <2>1. IsConfig(Defaults)
      BY SMT DEF Defaults, IsConfig, Fields
    <2>2. ConfigOK(Defaults)
      BY <2>1, SMT DEF Defaults, ConfigOK, Port
    <2>3. p[0] = Defaults
      BY Zenon, <1>p DEF IsReads
    <2> QED
      BY Zenon, <2>2, <2>3
  <1>2. ASSUME NEW n \in S PROVE n + 1 \in S
    <2> SUFFICES ASSUME n + 1 =< N PROVE ConfigOK(p[n + 1])
      OBVIOUS
    <2>0. n \in Nat /\ n =< N /\ n + 1 \in 1..N /\ (n + 1) - 1 = n
      BY <1>0
    <2>1. ConfigOK(p[n]) /\ options[n + 1] \in Options
      BY <2>0
    <2>2. p[n + 1] = Apply(p[n], options[n + 1])
      BY <1>p, <2>0, Zenon DEF IsReads
    <2> DEFINE q == p[n]
               o == options[n + 1]
    <2>3. ConfigOK(q) /\ o \in Options
      BY Zenon, <2>1
    <2> HIDE DEF S, q, o
    <2>4. ConfigOK(Apply(q, o))
      BY Zenon, <2>3, ApplyTyped
    <2> QED
      BY <2>2, <2>4, Zenon DEF q, o
  <1>3. S = Nat
    <2> HIDE DEF S
    <2>1. S \in SUBSET Nat
      BY Zenon DEF S
    <2> QED
      BY Zenon, <1>1, <1>2, <2>1, SetInduction
  <1> QED
    BY <1>0, <1>3 DEF p

--------------------------------------------------------------------------------
(* The command line as a whole *)

\* What no turn from m on changes is at the end what it was after m.
LEMMA Stays ==
    ASSUME NEW v, NEW m \in Nat, NEW N \in Nat, m =< N,
           \A k \in (m + 1)..N : v[k] = v[k - 1]
    PROVE  v[N] = v[m]
  <1> DEFINE S == {n \in Nat : m + n =< N => v[m + n] = v[m]}
  <1>1. 0 \in S
    OBVIOUS
  <1>2. ASSUME NEW n \in S PROVE n + 1 \in S
    <2> SUFFICES ASSUME m + (n + 1) =< N PROVE v[m + (n + 1)] = v[m]
      OBVIOUS
    <2>1. n \in Nat /\ m + n =< N /\ m + (n + 1) \in (m + 1)..N /\ (m + (n + 1)) - 1 = m + n
      OBVIOUS
    <2>2. v[m + n] = v[m]
      BY Zenon, <2>1
    <2> QED
      BY <2>1, <2>2, Zenon
  <1>3. S = Nat
    <2> HIDE DEF S
    <2>1. S \in SUBSET Nat
      BY Zenon DEF S
    <2> QED
      BY Zenon, <1>1, <1>2, <2>1, SetInduction
  <1>4. N - m \in Nat /\ m + (N - m) = N
    OBVIOUS
  <1>5. m + (N - m) =< N => v[m + (N - m)] = v[m]
    BY <1>3, <1>4, Zenon
  <1> QED
    BY <1>4, <1>5

\* Places on a command line have a last one and a first one.
LEMMA Greatest ==
    ASSUME NEW N \in Nat, NEW W \in SUBSET (1..N), W # {}
    PROVE  \E m \in W : \A j \in W : j =< m
  <1> DEFINE T == {N - i : i \in W}
  <1>1. T \in SUBSET Nat /\ T # {}
    <2>1. \A i \in W : i \in 1..N /\ N - i \in Nat
      OBVIOUS
    <2> QED
      BY <2>1, Zenon
  <1>2. PICK t \in T : \A k \in T : ~(k < t)
    <2> HIDE DEF T
    <2> QED
      BY Zenon, <1>1, Least
  <1>3. PICK m \in W : t = N - m
    BY Zenon, <1>2
  <1>4. ASSUME NEW j \in W PROVE j =< m
    <2>1. ~(N - j < N - m)
      BY Zenon, <1>2, <1>3
    <2> QED
      BY <2>1
  <1> QED
    BY Zenon, <1>4

\* Only the options os set the value v, the one at k to w[k].
SetBy(options, os, v, w) ==
    \A k \in 1..Len(options) : v[k] = IF options[k].opt \in os THEN w[k] ELSE v[k - 1]

\* The last option of os is at m.
LastAt(options, os, m) ==
    m \in 1..Len(options) /\ options[m].opt \in os /\ LastOf(options, os) = options[m]

\* Then the last of them counts.
LEMMA LastCounts ==
    ASSUME NEW options \in Seq(Options), NEW os, NEW v, NEW w, SetBy(options, os, v, w)
    PROVE  /\ ~Given(options, os) => v[Len(options)] = v[0]
           /\ Given(options, os) =>
                  \E m : LastAt(options, os, m) /\ v[Len(options)] = w[m]
  <1>n. PICK N : N = Len(options)
    BY Zenon
  <1>W. PICK W : W = Where(options, os)
    BY Zenon
  <1>1. N \in Nat /\ W \in SUBSET (1..N)
    BY <1>n, <1>W DEF Where
  <1>2. \A k \in 1..N : k \in W <=> options[k].opt \in os
    BY <1>n, <1>W DEF Where
  <1>3. \A k \in 1..N : v[k] = IF k \in W THEN w[k] ELSE v[k - 1]
    BY <1>n, <1>2, Zenon DEF SetBy
  <1>4. CASE W = {}
    <2>1. \A k \in (0 + 1)..N : v[k] = v[k - 1]
      BY <1>3, <1>4
    <2>2. v[N] = v[0]
      BY <1>1, <2>1, Stays
    <2> QED
      BY <1>n, <1>W, <1>4, <2>2, Zenon DEF Given
  <1>5. CASE W # {}
    <2>m. PICK m : m = CHOOSE i \in W : \A j \in W : j =< i
      BY Zenon
    <2>1. \E i \in W : \A j \in W : j =< i
      BY Zenon, <1>1, <1>5, Greatest
    <2>2. m \in W /\ \A j \in W : j =< m
      BY <2>m, <2>1, Zenon
    <2>3. LastOf(options, os) = options[m]
      BY <1>W, <2>m, Zenon DEF LastOf
    <2>4. m \in 1..N
      BY <1>1, <2>2, Zenon
    <2>5. m \in Nat /\ m =< N
      BY <1>1, <2>4
    <2>6. ASSUME NEW k \in (m + 1)..N PROVE v[k] = v[k - 1]
      <3>1. k \in 1..N /\ ~(k =< m)
        BY <1>1, <2>5
      <3> QED
        BY Zenon, <1>3, <2>2, <3>1
    <2>7. v[N] = v[m]
      BY Zenon, <1>1, <2>5, <2>6, Stays
    <2> QED
      BY <1>n, <1>W, <1>2, <1>3, <1>5, <2>2, <2>3, <2>4, <2>7, Zenon DEF Given, LastAt
  <1> QED
    BY Zenon, <1>4, <1>5

\* Without -h and without an error of getopt_long() every option has its turn.
LEMMA AllTurns ==
    ASSUME NEW options \in Seq(Options), NEW M \in 0..Len(options),
           \A k \in 1..M : options[k].opt \notin {"-h", "?"}
    PROVE  /\ \A k \in 0..M : Reads(options)[k].exit = "none" /\ IsConfig(Reads(options)[k])
           /\ \A k \in 1..M : Turn(Reads(options)[k - 1], options[k], Reads(options)[k])
  <1> DEFINE N == Len(options)
             r == Reads(options)
             S == {n \in Nat : n =< M => r[n].exit = "none" /\ IsConfig(r[n])}
  <1>0. N \in Nat /\ M \in Nat /\ M =< N
    OBVIOUS
  <1>p. IsReads(r, options, N)
    BY Zenon, ReadsProperties
  <1> HIDE DEF r
  <1>1. 0 \in S
    <2>1. IsConfig(Defaults) /\ Defaults.exit = "none"
      BY SMT DEF Defaults, IsConfig, Fields
    <2>2. r[0] = Defaults
      BY Zenon, <1>p DEF IsReads
    <2> QED
      BY <2>1, <2>2, Zenon
  <1>2. ASSUME NEW n \in Nat, n + 1 =< M, r[n].exit = "none", IsConfig(r[n])
        PROVE  /\ Turn(r[n], options[n + 1], r[n + 1])
               /\ r[n + 1].exit = "none" /\ IsConfig(r[n + 1])
    <2>0. n + 1 \in 1..N /\ n + 1 \in 1..M /\ (n + 1) - 1 = n
      BY <1>0, <1>2
    <2>1. r[n + 1] = Apply(r[n], options[n + 1])
      BY <1>p, <2>0, Zenon DEF IsReads
    <2>2. options[n + 1] \in Options /\ options[n + 1].opt \notin {"-h", "?"}
      BY <2>0
    <2> DEFINE q == r[n]
               o == options[n + 1]
    <2>3. q.exit = "none" /\ IsConfig(q) /\ o \in Options
      BY Zenon, <1>2, <2>2
    <2>4. Turn(q, o, Apply(q, o))
      <3> HIDE DEF q, o
      <3> QED
        BY Zenon, <2>3, ApplyTurn
    <2>5. Turn(r[n], options[n + 1], r[n + 1])
      BY <2>1, <2>4, Zenon
    <2> QED
      BY <1>2, <2>2, <2>5, Zenon DEF Turn
  <1>3. ASSUME NEW n \in S PROVE n + 1 \in S
    <2> SUFFICES ASSUME n + 1 =< M PROVE r[n + 1].exit = "none" /\ IsConfig(r[n + 1])
      OBVIOUS
    <2>1. n \in Nat /\ n =< M
      BY <1>0
    <2> QED
      BY Zenon, <1>2, <2>1
  <1>4. S = Nat
    <2> HIDE DEF S
    <2>1. S \in SUBSET Nat
      BY Zenon DEF S
    <2> QED
      BY Zenon, <1>1, <1>3, <2>1, SetInduction
  <1>5. \A k \in 0..M : r[k].exit = "none" /\ IsConfig(r[k])
    BY <1>0, <1>4
  <1>6. ASSUME NEW k \in 1..M PROVE Turn(r[k - 1], options[k], r[k])
    <2>1. k - 1 \in Nat /\ k - 1 \in 0..M /\ (k - 1) + 1 = k /\ k =< M
      BY <1>0
    <2>2. Turn(r[k - 1], options[(k - 1) + 1], r[(k - 1) + 1])
      BY Zenon, <1>2, <1>5, <2>1
    <2> QED
      BY <2>1, <2>2, Zenon
  <1> QED
    BY Zenon, <1>5, <1>6 DEF r

\* The number an option gives, when it is given and when it is not.
LEMMA NumberGiven ==
    ASSUME NEW options \in Seq(Options), NEW o \in Numeric, NEW d \in Int
    PROVE  /\ ~Given(options, {o}) => Number(options, o, d) = d
           /\ \A m : Given(options, {o}) /\ LastAt(options, {o}, m) =>
                  /\ options[m].arg[1] \in Int
                  /\ Number(options, o, d) = options[m].arg[1]
  <1>1. ~Given(options, {o}) => Number(options, o, d) = d
    BY Zenon DEF Number
  <1>2. ASSUME NEW m, Given(options, {o}), LastAt(options, {o}, m)
        PROVE  options[m].arg[1] \in Int /\ Number(options, o, d) = options[m].arg[1]
    <2>1. m \in 1..Len(options) /\ options[m].opt = o
      BY <1>2, Zenon DEF LastAt
    <2>2. options[m] \in Options
      BY <2>1
    <2>3. Number(options, o, d) = options[m].arg[1]
      BY <1>2, Zenon DEF LastAt, Number
    <2> QED
      BY <2>1, <2>2, <2>3, OptionArgs, Zenon
  <1> QED
    BY <1>1, <1>2, Zenon

\* r holds the Configs of a loop in which every option has its turn.
Turns(r, options) ==
    /\ r[0] = Defaults
    /\ \A k \in 1..Len(options) : Turn(r[k - 1], options[k], r[k])

\* The fields that an option only switches.
LEMMA FlagsRead ==
    ASSUME NEW options \in Seq(Options), NEW r, Turns(r, options), NEW p, p = r[Len(options)]
    PROVE  /\ p.udp = Given(options, {"-u"})
           /\ p.zero_copy = Given(options, {"-Z"})
           /\ p.sqpoll = Given(options, {"-S"})
           /\ p.fixed_buffers = ~Given(options, {"-F"})
           /\ p.multishot_recv = ~Given(options, {"--no-multishot-recv"})
           /\ p.multi_process = Given(options, {"-M"})
           /\ p.reverse = Given(options, {"-R"})
           /\ p.use_zcrx = Given(options, {"-Y"})
           /\ p.len_user_set = Given(options, {"-l"})
  <1>1. p.udp = Given(options, {"-u"})
    <2>o. PICK os : os = {"-u"}
      BY Zenon
    <2>v. PICK v : v = [k \in 0..Len(options) |-> r[k].udp]
      BY Zenon
    <2>w. PICK w : w = [k \in 1..Len(options) |-> TRUE]
      BY Zenon
    <2>1. \A k \in 1..Len(options) : w[k] = TRUE
      BY Zenon, <2>w
    <2>2. v[0] = FALSE /\ v[Len(options)] = p.udp
      BY <2>v DEF Turns, Defaults
    <2>3. SetBy(options, os, v, w)
      <3>1. ASSUME NEW k \in 1..Len(options)
            PROVE  v[k] = IF options[k].opt \in os THEN w[k] ELSE v[k - 1]
        <4>1. v[k] = r[k].udp /\ v[k - 1] = r[k - 1].udp
          BY <2>v
        <4>2. r[k].udp = IF options[k].opt = "-u" THEN TRUE ELSE r[k - 1].udp
          BY Zenon DEF Turns, Turn
        <4> QED
          BY Zenon, <2>o, <2>1, <4>1, <4>2
      <3> QED
        BY Zenon, <3>1 DEF SetBy
    <2>4. /\ ~Given(options, os) => v[Len(options)] = v[0]
          /\ Given(options, os) => \E m : LastAt(options, os, m) /\ v[Len(options)] = w[m]
      BY <2>3, LastCounts, SMT
    <2> QED
      BY <2>o, <2>1, <2>2, <2>4, Zenon DEF Given, LastAt
  <1>2. p.zero_copy = Given(options, {"-Z"})
    <2>o. PICK os : os = {"-Z"}
      BY Zenon
    <2>v. PICK v : v = [k \in 0..Len(options) |-> r[k].zero_copy]
      BY Zenon
    <2>w. PICK w : w = [k \in 1..Len(options) |-> TRUE]
      BY Zenon
    <2>1. \A k \in 1..Len(options) : w[k] = TRUE
      BY Zenon, <2>w
    <2>2. v[0] = FALSE /\ v[Len(options)] = p.zero_copy
      BY <2>v DEF Turns, Defaults
    <2>3. SetBy(options, os, v, w)
      <3>1. ASSUME NEW k \in 1..Len(options)
            PROVE  v[k] = IF options[k].opt \in os THEN w[k] ELSE v[k - 1]
        <4>1. v[k] = r[k].zero_copy /\ v[k - 1] = r[k - 1].zero_copy
          BY <2>v
        <4>2. r[k].zero_copy = IF options[k].opt = "-Z" THEN TRUE ELSE r[k - 1].zero_copy
          BY Zenon DEF Turns, Turn
        <4> QED
          BY Zenon, <2>o, <2>1, <4>1, <4>2
      <3> QED
        BY Zenon, <3>1 DEF SetBy
    <2>4. /\ ~Given(options, os) => v[Len(options)] = v[0]
          /\ Given(options, os) => \E m : LastAt(options, os, m) /\ v[Len(options)] = w[m]
      BY <2>3, LastCounts, SMT
    <2> QED
      BY <2>o, <2>1, <2>2, <2>4, Zenon DEF Given, LastAt
  <1>3. p.sqpoll = Given(options, {"-S"})
    <2>o. PICK os : os = {"-S"}
      BY Zenon
    <2>v. PICK v : v = [k \in 0..Len(options) |-> r[k].sqpoll]
      BY Zenon
    <2>w. PICK w : w = [k \in 1..Len(options) |-> TRUE]
      BY Zenon
    <2>1. \A k \in 1..Len(options) : w[k] = TRUE
      BY Zenon, <2>w
    <2>2. v[0] = FALSE /\ v[Len(options)] = p.sqpoll
      BY <2>v DEF Turns, Defaults
    <2>3. SetBy(options, os, v, w)
      <3>1. ASSUME NEW k \in 1..Len(options)
            PROVE  v[k] = IF options[k].opt \in os THEN w[k] ELSE v[k - 1]
        <4>1. v[k] = r[k].sqpoll /\ v[k - 1] = r[k - 1].sqpoll
          BY <2>v
        <4>2. r[k].sqpoll = IF options[k].opt = "-S" THEN TRUE ELSE r[k - 1].sqpoll
          BY Zenon DEF Turns, Turn
        <4> QED
          BY Zenon, <2>o, <2>1, <4>1, <4>2
      <3> QED
        BY Zenon, <3>1 DEF SetBy
    <2>4. /\ ~Given(options, os) => v[Len(options)] = v[0]
          /\ Given(options, os) => \E m : LastAt(options, os, m) /\ v[Len(options)] = w[m]
      BY <2>3, LastCounts, SMT
    <2> QED
      BY <2>o, <2>1, <2>2, <2>4, Zenon DEF Given, LastAt
  <1>4. p.fixed_buffers = ~Given(options, {"-F"})
    <2>o. PICK os : os = {"-F"}
      BY Zenon
    <2>v. PICK v : v = [k \in 0..Len(options) |-> r[k].fixed_buffers]
      BY Zenon
    <2>w. PICK w : w = [k \in 1..Len(options) |-> FALSE]
      BY Zenon
    <2>1. \A k \in 1..Len(options) : w[k] = FALSE
      BY Zenon, <2>w
    <2>2. v[0] = TRUE /\ v[Len(options)] = p.fixed_buffers
      BY <2>v DEF Turns, Defaults
    <2>3. SetBy(options, os, v, w)
      <3>1. ASSUME NEW k \in 1..Len(options)
            PROVE  v[k] = IF options[k].opt \in os THEN w[k] ELSE v[k - 1]
        <4>1. v[k] = r[k].fixed_buffers /\ v[k - 1] = r[k - 1].fixed_buffers
          BY <2>v
        <4>2. r[k].fixed_buffers = IF options[k].opt = "-F" THEN FALSE
                                   ELSE r[k - 1].fixed_buffers
          BY Zenon DEF Turns, Turn
        <4> QED
          BY Zenon, <2>o, <2>1, <4>1, <4>2
      <3> QED
        BY Zenon, <3>1 DEF SetBy
    <2>4. /\ ~Given(options, os) => v[Len(options)] = v[0]
          /\ Given(options, os) => \E m : LastAt(options, os, m) /\ v[Len(options)] = w[m]
      BY <2>3, LastCounts, SMT
    <2> QED
      BY <2>o, <2>1, <2>2, <2>4, Zenon DEF Given, LastAt
  <1>5. p.multishot_recv = ~Given(options, {"--no-multishot-recv"})
    <2>o. PICK os : os = {"--no-multishot-recv"}
      BY Zenon
    <2>v. PICK v : v = [k \in 0..Len(options) |-> r[k].multishot_recv]
      BY Zenon
    <2>w. PICK w : w = [k \in 1..Len(options) |-> FALSE]
      BY Zenon
    <2>1. \A k \in 1..Len(options) : w[k] = FALSE
      BY Zenon, <2>w
    <2>2. v[0] = TRUE /\ v[Len(options)] = p.multishot_recv
      BY <2>v DEF Turns, Defaults
    <2>3. SetBy(options, os, v, w)
      <3>1. ASSUME NEW k \in 1..Len(options)
            PROVE  v[k] = IF options[k].opt \in os THEN w[k] ELSE v[k - 1]
        <4>1. v[k] = r[k].multishot_recv /\ v[k - 1] = r[k - 1].multishot_recv
          BY <2>v
        <4>2. r[k].multishot_recv = IF options[k].opt = "--no-multishot-recv" THEN FALSE
                                    ELSE r[k - 1].multishot_recv
          BY Zenon DEF Turns, Turn
        <4> QED
          BY Zenon, <2>o, <2>1, <4>1, <4>2
      <3> QED
        BY Zenon, <3>1 DEF SetBy
    <2>4. /\ ~Given(options, os) => v[Len(options)] = v[0]
          /\ Given(options, os) => \E m : LastAt(options, os, m) /\ v[Len(options)] = w[m]
      BY <2>3, LastCounts, SMT
    <2> QED
      BY <2>o, <2>1, <2>2, <2>4, Zenon DEF Given, LastAt
  <1>6. p.multi_process = Given(options, {"-M"})
    <2>o. PICK os : os = {"-M"}
      BY Zenon
    <2>v. PICK v : v = [k \in 0..Len(options) |-> r[k].multi_process]
      BY Zenon
    <2>w. PICK w : w = [k \in 1..Len(options) |-> TRUE]
      BY Zenon
    <2>1. \A k \in 1..Len(options) : w[k] = TRUE
      BY Zenon, <2>w
    <2>2. v[0] = FALSE /\ v[Len(options)] = p.multi_process
      BY <2>v DEF Turns, Defaults
    <2>3. SetBy(options, os, v, w)
      <3>1. ASSUME NEW k \in 1..Len(options)
            PROVE  v[k] = IF options[k].opt \in os THEN w[k] ELSE v[k - 1]
        <4>1. v[k] = r[k].multi_process /\ v[k - 1] = r[k - 1].multi_process
          BY <2>v
        <4>2. r[k].multi_process = IF options[k].opt = "-M" THEN TRUE
                                   ELSE r[k - 1].multi_process
          BY Zenon DEF Turns, Turn
        <4> QED
          BY Zenon, <2>o, <2>1, <4>1, <4>2
      <3> QED
        BY Zenon, <3>1 DEF SetBy
    <2>4. /\ ~Given(options, os) => v[Len(options)] = v[0]
          /\ Given(options, os) => \E m : LastAt(options, os, m) /\ v[Len(options)] = w[m]
      BY <2>3, LastCounts, SMT
    <2> QED
      BY <2>o, <2>1, <2>2, <2>4, Zenon DEF Given, LastAt
  <1>7. p.reverse = Given(options, {"-R"})
    <2>o. PICK os : os = {"-R"}
      BY Zenon
    <2>v. PICK v : v = [k \in 0..Len(options) |-> r[k].reverse]
      BY Zenon
    <2>w. PICK w : w = [k \in 1..Len(options) |-> TRUE]
      BY Zenon
    <2>1. \A k \in 1..Len(options) : w[k] = TRUE
      BY Zenon, <2>w
    <2>2. v[0] = FALSE /\ v[Len(options)] = p.reverse
      BY <2>v DEF Turns, Defaults
    <2>3. SetBy(options, os, v, w)
      <3>1. ASSUME NEW k \in 1..Len(options)
            PROVE  v[k] = IF options[k].opt \in os THEN w[k] ELSE v[k - 1]
        <4>1. v[k] = r[k].reverse /\ v[k - 1] = r[k - 1].reverse
          BY <2>v
        <4>2. r[k].reverse = IF options[k].opt = "-R" THEN TRUE ELSE r[k - 1].reverse
          BY Zenon DEF Turns, Turn
        <4> QED
          BY Zenon, <2>o, <2>1, <4>1, <4>2
      <3> QED
        BY Zenon, <3>1 DEF SetBy
    <2>4. /\ ~Given(options, os) => v[Len(options)] = v[0]
          /\ Given(options, os) => \E m : LastAt(options, os, m) /\ v[Len(options)] = w[m]
      BY <2>3, LastCounts, SMT
    <2> QED
      BY <2>o, <2>1, <2>2, <2>4, Zenon DEF Given, LastAt
  <1>8. p.use_zcrx = Given(options, {"-Y"})
    <2>o. PICK os : os = {"-Y"}
      BY Zenon
    <2>v. PICK v : v = [k \in 0..Len(options) |-> r[k].use_zcrx]
      BY Zenon
    <2>w. PICK w : w = [k \in 1..Len(options) |-> TRUE]
      BY Zenon
    <2>1. \A k \in 1..Len(options) : w[k] = TRUE
      BY Zenon, <2>w
    <2>2. v[0] = FALSE /\ v[Len(options)] = p.use_zcrx
      BY <2>v DEF Turns, Defaults
    <2>3. SetBy(options, os, v, w)
      <3>1. ASSUME NEW k \in 1..Len(options)
            PROVE  v[k] = IF options[k].opt \in os THEN w[k] ELSE v[k - 1]
        <4>1. v[k] = r[k].use_zcrx /\ v[k - 1] = r[k - 1].use_zcrx
          BY <2>v
        <4>2. r[k].use_zcrx = IF options[k].opt = "-Y" THEN TRUE ELSE r[k - 1].use_zcrx
          BY Zenon DEF Turns, Turn
        <4> QED
          BY Zenon, <2>o, <2>1, <4>1, <4>2
      <3> QED
        BY Zenon, <3>1 DEF SetBy
    <2>4. /\ ~Given(options, os) => v[Len(options)] = v[0]
          /\ Given(options, os) => \E m : LastAt(options, os, m) /\ v[Len(options)] = w[m]
      BY <2>3, LastCounts, SMT
    <2> QED
      BY <2>o, <2>1, <2>2, <2>4, Zenon DEF Given, LastAt
  <1>9. p.len_user_set = Given(options, {"-l"})
    <2>o. PICK os : os = {"-l"}
      BY Zenon
    <2>v. PICK v : v = [k \in 0..Len(options) |-> r[k].len_user_set]
      BY Zenon
    <2>w. PICK w : w = [k \in 1..Len(options) |-> TRUE]
      BY Zenon
    <2>1. \A k \in 1..Len(options) : w[k] = TRUE
      BY Zenon, <2>w
    <2>2. v[0] = FALSE /\ v[Len(options)] = p.len_user_set
      BY <2>v DEF Turns, Defaults
    <2>3. SetBy(options, os, v, w)
      <3>1. ASSUME NEW k \in 1..Len(options)
            PROVE  v[k] = IF options[k].opt \in os THEN w[k] ELSE v[k - 1]
        <4>1. v[k] = r[k].len_user_set /\ v[k - 1] = r[k - 1].len_user_set
          BY <2>v
        <4>2. r[k].len_user_set = IF options[k].opt = "-l" THEN TRUE ELSE r[k - 1].len_user_set
          BY Zenon DEF Turns, Turn
        <4> QED
          BY Zenon, <2>o, <2>1, <4>1, <4>2
      <3> QED
        BY Zenon, <3>1 DEF SetBy
    <2>4. /\ ~Given(options, os) => v[Len(options)] = v[0]
          /\ Given(options, os) => \E m : LastAt(options, os, m) /\ v[Len(options)] = w[m]
      BY <2>3, LastCounts, SMT
    <2> QED
      BY <2>o, <2>1, <2>2, <2>4, Zenon DEF Given, LastAt
  <1> QED
    BY Zenon, <1>1, <1>2, <1>3, <1>4, <1>5, <1>6, <1>7, <1>8, <1>9

\* The fields that an option sets from its number.
LEMMA NumbersRead ==
    ASSUME NEW options \in Seq(Options), NEW r, Turns(r, options), NEW p, p = r[Len(options)]
    PROVE  /\ p.port = uint16_t(Number(options, "-p", 5201))
           /\ p.duration_sec = max(1, Number(options, "-t", 10))
           /\ p.threads = max(1, Number(options, "-P", 1))
           /\ p.buf_size = max(64, Number(options, "-l", 131072))
           /\ Number(options, "-l", 131072) \in Int
           /\ p.queue_depth = max(16, Number(options, "-q", 256))
           /\ p.zcrx_base_queue = Number(options, "--zcrx-queue", 0)
           /\ p.interval_sec = max(1, Number(options, "-i", 1))
  <1>1. p.port = uint16_t(Number(options, "-p", 5201))
    <2>o. PICK os : os = {"-p"}
      BY Zenon
    <2>v. PICK v : v = [k \in 0..Len(options) |-> r[k].port]
      BY Zenon
    <2>w. PICK w : w = [k \in 1..Len(options) |-> uint16_t(options[k].arg[1])]
      BY Zenon
    <2>1. \A k \in 1..Len(options) : w[k] = uint16_t(options[k].arg[1])
      BY <2>w
    <2>2. v[0] = uint16_t(5201)
      BY <2>v DEF Turns, Defaults, uint16_t
    <2>3. SetBy(options, os, v, w)
      <3>1. ASSUME NEW k \in 1..Len(options)
            PROVE  v[k] = IF options[k].opt \in os THEN w[k] ELSE v[k - 1]
        <4>1. v[k] = r[k].port /\ v[k - 1] = r[k - 1].port
          BY <2>v
        <4>2. r[k].port = IF options[k].opt = "-p" THEN uint16_t(options[k].arg[1])
                         ELSE r[k - 1].port
          BY Zenon DEF Turns, Turn
        <4> QED
          BY <2>o, <2>1, <4>1, <4>2, Zenon
      <3> QED
        BY <3>1 DEF SetBy
    <2>4. /\ ~Given(options, os) => v[Len(options)] = v[0]
          /\ Given(options, os) => \E m : LastAt(options, os, m) /\ v[Len(options)] = w[m]
      BY <2>3, LastCounts, SMT
    <2>d. PICK d : d = 5201
      OBVIOUS
    <2>u. PICK u : u = Number(options, "-p", d)
      OBVIOUS
    <2>5. /\ ~Given(options, os) => u = d
          /\ \A m : Given(options, os) /\ LastAt(options, os, m) =>
                 options[m].arg[1] \in Int /\ u = options[m].arg[1]
      <3>1. "-p" \in Numeric /\ d \in Int
        BY <2>d DEF Numeric
      <3> QED
        BY <2>o, <2>u, <3>1, NumberGiven, Zenon
    <2>6. d \in Int /\ v[0] = uint16_t(d) /\ v[Len(options)] = p.port
      BY <2>v, <2>2, <2>d
    <2>7. u \in Int /\ p.port = uint16_t(u)
      BY <2>1, <2>4, <2>5, <2>6, Zenon DEF LastAt
    <2> QED
      BY <2>d, <2>u, <2>7
  <1>2. p.duration_sec = max(1, Number(options, "-t", 10))
    <2>o. PICK os : os = {"-t"}
      BY Zenon
    <2>v. PICK v : v = [k \in 0..Len(options) |-> r[k].duration_sec]
      BY Zenon
    <2>w. PICK w : w = [k \in 1..Len(options) |-> max(1, options[k].arg[1])]
      BY Zenon
    <2>1. \A k \in 1..Len(options) : w[k] = max(1, options[k].arg[1])
      BY <2>w
    <2>2. v[0] = max(1, 10)
      BY <2>v DEF Turns, Defaults, max
    <2>3. SetBy(options, os, v, w)
      <3>1. ASSUME NEW k \in 1..Len(options)
            PROVE  v[k] = IF options[k].opt \in os THEN w[k] ELSE v[k - 1]
        <4>1. v[k] = r[k].duration_sec /\ v[k - 1] = r[k - 1].duration_sec
          BY <2>v
        <4>2. r[k].duration_sec = IF options[k].opt = "-t" THEN max(1, options[k].arg[1])
                         ELSE r[k - 1].duration_sec
          BY Zenon DEF Turns, Turn
        <4> QED
          BY <2>o, <2>1, <4>1, <4>2, Zenon
      <3> QED
        BY <3>1 DEF SetBy
    <2>4. /\ ~Given(options, os) => v[Len(options)] = v[0]
          /\ Given(options, os) => \E m : LastAt(options, os, m) /\ v[Len(options)] = w[m]
      BY <2>3, LastCounts, SMT
    <2>d. PICK d : d = 10
      OBVIOUS
    <2>u. PICK u : u = Number(options, "-t", d)
      OBVIOUS
    <2>5. /\ ~Given(options, os) => u = d
          /\ \A m : Given(options, os) /\ LastAt(options, os, m) =>
                 options[m].arg[1] \in Int /\ u = options[m].arg[1]
      <3>1. "-t" \in Numeric /\ d \in Int
        BY <2>d DEF Numeric
      <3> QED
        BY <2>o, <2>u, <3>1, NumberGiven, Zenon
    <2>6. d \in Int /\ v[0] = max(1, d) /\ v[Len(options)] = p.duration_sec
      BY <2>v, <2>2, <2>d
    <2>7. u \in Int /\ p.duration_sec = max(1, u)
      BY <2>1, <2>4, <2>5, <2>6, Zenon DEF LastAt
    <2> QED
      BY <2>d, <2>u, <2>7
  <1>3. p.threads = max(1, Number(options, "-P", 1))
    <2>o. PICK os : os = {"-P"}
      BY Zenon
    <2>v. PICK v : v = [k \in 0..Len(options) |-> r[k].threads]
      BY Zenon
    <2>w. PICK w : w = [k \in 1..Len(options) |-> max(1, options[k].arg[1])]
      BY Zenon
    <2>1. \A k \in 1..Len(options) : w[k] = max(1, options[k].arg[1])
      BY <2>w
    <2>2. v[0] = max(1, 1)
      BY <2>v DEF Turns, Defaults, max
    <2>3. SetBy(options, os, v, w)
      <3>1. ASSUME NEW k \in 1..Len(options)
            PROVE  v[k] = IF options[k].opt \in os THEN w[k] ELSE v[k - 1]
        <4>1. v[k] = r[k].threads /\ v[k - 1] = r[k - 1].threads
          BY <2>v
        <4>2. r[k].threads = IF options[k].opt = "-P" THEN max(1, options[k].arg[1])
                         ELSE r[k - 1].threads
          BY Zenon DEF Turns, Turn
        <4> QED
          BY <2>o, <2>1, <4>1, <4>2, Zenon
      <3> QED
        BY <3>1 DEF SetBy
    <2>4. /\ ~Given(options, os) => v[Len(options)] = v[0]
          /\ Given(options, os) => \E m : LastAt(options, os, m) /\ v[Len(options)] = w[m]
      BY <2>3, LastCounts, SMT
    <2>d. PICK d : d = 1
      OBVIOUS
    <2>u. PICK u : u = Number(options, "-P", d)
      OBVIOUS
    <2>5. /\ ~Given(options, os) => u = d
          /\ \A m : Given(options, os) /\ LastAt(options, os, m) =>
                 options[m].arg[1] \in Int /\ u = options[m].arg[1]
      <3>1. "-P" \in Numeric /\ d \in Int
        BY <2>d DEF Numeric
      <3> QED
        BY <2>o, <2>u, <3>1, NumberGiven, Zenon
    <2>6. d \in Int /\ v[0] = max(1, d) /\ v[Len(options)] = p.threads
      BY <2>v, <2>2, <2>d
    <2>7. u \in Int /\ p.threads = max(1, u)
      BY <2>1, <2>4, <2>5, <2>6, Zenon DEF LastAt
    <2> QED
      BY <2>d, <2>u, <2>7
  <1>4. /\ p.buf_size = max(64, Number(options, "-l", 131072))
        /\ Number(options, "-l", 131072) \in Int
    <2>o. PICK os : os = {"-l"}
      BY Zenon
    <2>v. PICK v : v = [k \in 0..Len(options) |-> r[k].buf_size]
      BY Zenon
    <2>w. PICK w : w = [k \in 1..Len(options) |-> max(64, options[k].arg[1])]
      BY Zenon
    <2>1. \A k \in 1..Len(options) : w[k] = max(64, options[k].arg[1])
      BY <2>w
    <2>2. v[0] = max(64, 131072)
      BY <2>v DEF Turns, Defaults, max
    <2>3. SetBy(options, os, v, w)
      <3>1. ASSUME NEW k \in 1..Len(options)
            PROVE  v[k] = IF options[k].opt \in os THEN w[k] ELSE v[k - 1]
        <4>1. v[k] = r[k].buf_size /\ v[k - 1] = r[k - 1].buf_size
          BY <2>v
        <4>2. r[k].buf_size = IF options[k].opt = "-l" THEN max(64, options[k].arg[1])
                         ELSE r[k - 1].buf_size
          BY Zenon DEF Turns, Turn
        <4> QED
          BY <2>o, <2>1, <4>1, <4>2, Zenon
      <3> QED
        BY <3>1 DEF SetBy
    <2>4. /\ ~Given(options, os) => v[Len(options)] = v[0]
          /\ Given(options, os) => \E m : LastAt(options, os, m) /\ v[Len(options)] = w[m]
      BY <2>3, LastCounts, SMT
    <2>d. PICK d : d = 131072
      OBVIOUS
    <2>u. PICK u : u = Number(options, "-l", d)
      OBVIOUS
    <2>5. /\ ~Given(options, os) => u = d
          /\ \A m : Given(options, os) /\ LastAt(options, os, m) =>
                 options[m].arg[1] \in Int /\ u = options[m].arg[1]
      <3>1. "-l" \in Numeric /\ d \in Int
        BY <2>d DEF Numeric
      <3> QED
        BY <2>o, <2>u, <3>1, NumberGiven, Zenon
    <2>6. d \in Int /\ v[0] = max(64, d) /\ v[Len(options)] = p.buf_size
      BY <2>v, <2>2, <2>d
    <2>7. u \in Int /\ p.buf_size = max(64, u)
      BY <2>1, <2>4, <2>5, <2>6, Zenon DEF LastAt
    <2> QED
      BY <2>d, <2>u, <2>7
  <1>5. p.queue_depth = max(16, Number(options, "-q", 256))
    <2>o. PICK os : os = {"-q"}
      BY Zenon
    <2>v. PICK v : v = [k \in 0..Len(options) |-> r[k].queue_depth]
      BY Zenon
    <2>w. PICK w : w = [k \in 1..Len(options) |-> max(16, options[k].arg[1])]
      BY Zenon
    <2>1. \A k \in 1..Len(options) : w[k] = max(16, options[k].arg[1])
      BY <2>w
    <2>2. v[0] = max(16, 256)
      BY <2>v DEF Turns, Defaults, max
    <2>3. SetBy(options, os, v, w)
      <3>1. ASSUME NEW k \in 1..Len(options)
            PROVE  v[k] = IF options[k].opt \in os THEN w[k] ELSE v[k - 1]
        <4>1. v[k] = r[k].queue_depth /\ v[k - 1] = r[k - 1].queue_depth
          BY <2>v
        <4>2. r[k].queue_depth = IF options[k].opt = "-q" THEN max(16, options[k].arg[1])
                         ELSE r[k - 1].queue_depth
          BY Zenon DEF Turns, Turn
        <4> QED
          BY <2>o, <2>1, <4>1, <4>2, Zenon
      <3> QED
        BY <3>1 DEF SetBy
    <2>4. /\ ~Given(options, os) => v[Len(options)] = v[0]
          /\ Given(options, os) => \E m : LastAt(options, os, m) /\ v[Len(options)] = w[m]
      BY <2>3, LastCounts, SMT
    <2>d. PICK d : d = 256
      OBVIOUS
    <2>u. PICK u : u = Number(options, "-q", d)
      OBVIOUS
    <2>5. /\ ~Given(options, os) => u = d
          /\ \A m : Given(options, os) /\ LastAt(options, os, m) =>
                 options[m].arg[1] \in Int /\ u = options[m].arg[1]
      <3>1. "-q" \in Numeric /\ d \in Int
        BY <2>d DEF Numeric
      <3> QED
        BY <2>o, <2>u, <3>1, NumberGiven, Zenon
    <2>6. d \in Int /\ v[0] = max(16, d) /\ v[Len(options)] = p.queue_depth
      BY <2>v, <2>2, <2>d
    <2>7. u \in Int /\ p.queue_depth = max(16, u)
      BY <2>1, <2>4, <2>5, <2>6, Zenon DEF LastAt
    <2> QED
      BY <2>d, <2>u, <2>7
  <1>6. p.zcrx_base_queue = Number(options, "--zcrx-queue", 0)
    <2>o. PICK os : os = {"--zcrx-queue"}
      BY Zenon
    <2>v. PICK v : v = [k \in 0..Len(options) |-> r[k].zcrx_base_queue]
      BY Zenon
    <2>w. PICK w : w = [k \in 1..Len(options) |-> options[k].arg[1]]
      BY Zenon
    <2>1. \A k \in 1..Len(options) : w[k] = options[k].arg[1]
      BY <2>w
    <2>2. v[0] = 0
      BY <2>v DEF Turns, Defaults
    <2>3. SetBy(options, os, v, w)
      <3>1. ASSUME NEW k \in 1..Len(options)
            PROVE  v[k] = IF options[k].opt \in os THEN w[k] ELSE v[k - 1]
        <4>1. v[k] = r[k].zcrx_base_queue /\ v[k - 1] = r[k - 1].zcrx_base_queue
          BY <2>v
        <4>2. r[k].zcrx_base_queue = IF options[k].opt = "--zcrx-queue" THEN options[k].arg[1]
                         ELSE r[k - 1].zcrx_base_queue
          BY Zenon DEF Turns, Turn
        <4> QED
          BY <2>o, <2>1, <4>1, <4>2, Zenon
      <3> QED
        BY <3>1 DEF SetBy
    <2>4. /\ ~Given(options, os) => v[Len(options)] = v[0]
          /\ Given(options, os) => \E m : LastAt(options, os, m) /\ v[Len(options)] = w[m]
      BY <2>3, LastCounts, SMT
    <2>d. PICK d : d = 0
      OBVIOUS
    <2>u. PICK u : u = Number(options, "--zcrx-queue", d)
      OBVIOUS
    <2>5. /\ ~Given(options, os) => u = d
          /\ \A m : Given(options, os) /\ LastAt(options, os, m) =>
                 options[m].arg[1] \in Int /\ u = options[m].arg[1]
      <3>1. "--zcrx-queue" \in Numeric /\ d \in Int
        BY <2>d DEF Numeric
      <3> QED
        BY <2>o, <2>u, <3>1, NumberGiven, Zenon
    <2>6. d \in Int /\ v[0] = d /\ v[Len(options)] = p.zcrx_base_queue
      BY <2>v, <2>2, <2>d
    <2>7. u \in Int /\ p.zcrx_base_queue = u
      BY <2>1, <2>4, <2>5, <2>6, Zenon DEF LastAt
    <2> QED
      BY <2>d, <2>u, <2>7
  <1>7. p.interval_sec = max(1, Number(options, "-i", 1))
    <2>o. PICK os : os = {"-i"}
      BY Zenon
    <2>v. PICK v : v = [k \in 0..Len(options) |-> r[k].interval_sec]
      BY Zenon
    <2>w. PICK w : w = [k \in 1..Len(options) |-> max(1, options[k].arg[1])]
      BY Zenon
    <2>1. \A k \in 1..Len(options) : w[k] = max(1, options[k].arg[1])
      BY <2>w
    <2>2. v[0] = max(1, 1)
      BY <2>v DEF Turns, Defaults, max
    <2>3. SetBy(options, os, v, w)
      <3>1. ASSUME NEW k \in 1..Len(options)
            PROVE  v[k] = IF options[k].opt \in os THEN w[k] ELSE v[k - 1]
        <4>1. v[k] = r[k].interval_sec /\ v[k - 1] = r[k - 1].interval_sec
          BY <2>v
        <4>2. r[k].interval_sec = IF options[k].opt = "-i" THEN max(1, options[k].arg[1])
                         ELSE r[k - 1].interval_sec
          BY Zenon DEF Turns, Turn
        <4> QED
          BY <2>o, <2>1, <4>1, <4>2, Zenon
      <3> QED
        BY <3>1 DEF SetBy
    <2>4. /\ ~Given(options, os) => v[Len(options)] = v[0]
          /\ Given(options, os) => \E m : LastAt(options, os, m) /\ v[Len(options)] = w[m]
      BY <2>3, LastCounts, SMT
    <2>d. PICK d : d = 1
      OBVIOUS
    <2>u. PICK u : u = Number(options, "-i", d)
      OBVIOUS
    <2>5. /\ ~Given(options, os) => u = d
          /\ \A m : Given(options, os) /\ LastAt(options, os, m) =>
                 options[m].arg[1] \in Int /\ u = options[m].arg[1]
      <3>1. "-i" \in Numeric /\ d \in Int
        BY <2>d DEF Numeric
      <3> QED
        BY <2>o, <2>u, <3>1, NumberGiven, Zenon
    <2>6. d \in Int /\ v[0] = max(1, d) /\ v[Len(options)] = p.interval_sec
      BY <2>v, <2>2, <2>d
    <2>7. u \in Int /\ p.interval_sec = max(1, u)
      BY <2>1, <2>4, <2>5, <2>6, Zenon DEF LastAt
    <2> QED
      BY <2>d, <2>u, <2>7
  <1> QED
    BY <1>1, <1>2, <1>3, <1>4, <1>5, <1>6, <1>7

\* Of -s and -c the last one counts, and so does the last interface name.
LEMMA ModeRead ==
    ASSUME NEW options \in Seq(Options), NEW r, Turns(r, options), NEW p, p = r[Len(options)]
    PROVE  /\ p.mode = IF Server(options) THEN "SERVER" ELSE "CLIENT"
           /\ p.zcrx_ifname = Named(options)
  <1>1. p.mode = IF Server(options) THEN "SERVER" ELSE "CLIENT"
    <2>o. PICK os : os = {"-s", "-c"}
      BY Zenon
    <2>v. PICK v : v = [k \in 0..Len(options) |-> r[k].mode]
      BY Zenon
    <2>w. PICK w : w = [k \in 1..Len(options) |->
                            IF options[k].opt = "-s" THEN "SERVER" ELSE "CLIENT"]
      BY Zenon
    <2>1. \A k \in 1..Len(options) :
              w[k] = IF options[k].opt = "-s" THEN "SERVER" ELSE "CLIENT"
      BY Zenon, <2>w
    <2>2. v[0] = "CLIENT" /\ v[Len(options)] = p.mode
      BY <2>v DEF Turns, Defaults
    <2>3. SetBy(options, os, v, w)
      <3>1. ASSUME NEW k \in 1..Len(options)
            PROVE  v[k] = IF options[k].opt \in os THEN w[k] ELSE v[k - 1]
        <4>1. v[k] = r[k].mode /\ v[k - 1] = r[k - 1].mode
          BY <2>v
        <4>2. r[k].mode = IF options[k].opt = "-s" THEN "SERVER"
                          ELSE IF options[k].opt = "-c" THEN "CLIENT" ELSE r[k - 1].mode
          BY Zenon DEF Turns, Turn
        <4> QED
          BY Zenon, <2>o, <2>1, <4>1, <4>2
      <3> QED
        BY Zenon, <3>1 DEF SetBy
    <2>4. /\ ~Given(options, os) => v[Len(options)] = v[0]
          /\ Given(options, os) => \E m : LastAt(options, os, m) /\ v[Len(options)] = w[m]
      BY <2>3, LastCounts, SMT
    <2>5. Server(options) <=> Given(options, os) /\ LastOf(options, os).opt = "-s"
      BY <2>o, Zenon DEF Server
    <2> QED
      BY <2>1, <2>2, <2>4, <2>5, Zenon DEF LastAt
  <1>2. p.zcrx_ifname = Named(options)
    <2>o. PICK os : os = {"--zcrx-if"}
      BY Zenon
    <2>v. PICK v : v = [k \in 0..Len(options) |-> r[k].zcrx_ifname]
      BY Zenon
    <2>w. PICK w : w = [k \in 1..Len(options) |-> options[k].arg # <<>>]
      BY Zenon
    <2>1. \A k \in 1..Len(options) : w[k] = (options[k].arg # <<>>)
      BY <2>w, Zenon
    <2>2. v[0] = FALSE /\ v[Len(options)] = p.zcrx_ifname
      BY <2>v DEF Turns, Defaults
    <2>3. SetBy(options, os, v, w)
      <3>1. ASSUME NEW k \in 1..Len(options)
            PROVE  v[k] = IF options[k].opt \in os THEN w[k] ELSE v[k - 1]
        <4>1. v[k] = r[k].zcrx_ifname /\ v[k - 1] = r[k - 1].zcrx_ifname
          BY <2>v
        <4>2. r[k].zcrx_ifname = IF options[k].opt = "--zcrx-if" THEN (options[k].arg # <<>>)
                                 ELSE r[k - 1].zcrx_ifname
          BY Zenon DEF Turns, Turn
        <4> QED
          BY <2>o, <2>1, <4>1, <4>2, Zenon
      <3> QED
        BY Zenon, <3>1 DEF SetBy
    <2>4. /\ ~Given(options, os) => v[Len(options)] = v[0]
          /\ Given(options, os) => \E m : LastAt(options, os, m) /\ v[Len(options)] = w[m]
      BY <2>3, LastCounts, SMT
    <2>5. Named(options) = (Given(options, os) /\ LastOf(options, os).arg # <<>>)
      BY <2>o, Zenon DEF Named
    <2> QED
      BY <2>1, <2>2, <2>4, <2>5, Zenon DEF LastAt
  <1> QED
    BY Zenon, <1>1, <1>2

\* The lists of cores are joined in their order.
LEMMA CoresRead ==
    ASSUME NEW options \in Seq(Options), NEW r, Turns(r, options)
    PROVE  r[Len(options)].cpu_affinity = Cores(options)
  <1>n. PICK N : N = Len(options) /\ N \in Nat
    OBVIOUS
  <1> DEFINE Next1(c, i) == IF options[i].opt = "-A" THEN c \o options[i].arg ELSE c
             Rec(c) == [i \in 0..N |-> IF i = 0 THEN <<>> ELSE Next1(c[i - 1], i)]
  <1>h. PICK h : h = [k \in 0..N |-> r[k].cpu_affinity]
    BY Zenon
  <1>1. /\ h[0] = <<>> /\ h[N] = r[N].cpu_affinity
        /\ \A k \in 1..N : h[k] = Next1(h[k - 1], k)
    <2>1. h[0] = <<>> /\ h[N] = r[N].cpu_affinity
      BY <1>n, <1>h DEF Turns, Defaults
    <2>2. ASSUME NEW k \in 1..N PROVE h[k] = Next1(h[k - 1], k)
      <3>1. h[k] = r[k].cpu_affinity /\ h[k - 1] = r[k - 1].cpu_affinity
        BY <1>n, <1>h
      <3>2. r[k].cpu_affinity = IF options[k].opt = "-A"
                                THEN r[k - 1].cpu_affinity \o options[k].arg
                                ELSE r[k - 1].cpu_affinity
        BY Zenon, <1>n DEF Turns, Turn
      <3> QED
        BY <3>1, <3>2, Zenon
    <2> QED
      BY <2>1, <2>2
  <1>2. h = Rec(h)
    <2>1. ASSUME NEW i \in 0..N PROVE h[i] = IF i = 0 THEN <<>> ELSE Next1(h[i - 1], i)
      <3>1. i = 0 \/ (i # 0 /\ i \in 1..N)
        BY <1>n
      <3> HIDE DEF Next1
      <3> QED
        BY <1>1, <3>1, Zenon
    <2>2. h = [k \in 0..N |-> h[k]]
      BY <1>h
    <2> HIDE DEF Next1
    <2> QED
      BY <2>1, <2>2, Zenon
  <1>c. PICK c : c = CHOOSE b : b = Rec(b)
    BY Zenon
  <1>3. Cores(options) = c[N]
    BY <1>n, <1>c DEF Cores
  <1>4. c = Rec(c)
    <2> HIDE DEF Rec
    <2> QED
      BY <1>2, <1>c, Zenon
  <1>5. \A i \in 0..N : c[i] = IF i = 0 THEN <<>> ELSE Next1(c[i - 1], i)
    <2> HIDE DEF Next1
    <2>1. ASSUME NEW i \in 0..N PROVE c[i] = IF i = 0 THEN <<>> ELSE Next1(c[i - 1], i)
      <3>1. c[i] = Rec(c)[i]
        <4> HIDE DEF Rec
        <4> QED
          BY <1>4, Zenon
      <3> QED
        BY <3>1, Zenon
    <2> QED
      BY <2>1
  <1> HIDE DEF Next1, Rec
  <1> DEFINE S == {n \in Nat : n =< N => c[n] = h[n]}
  <1>6. 0 \in S
    <2>1. 0 \in 0..N
      BY <1>n
    <2> QED
      BY <1>1, <1>5, <2>1
  <1>7. ASSUME NEW n \in S PROVE n + 1 \in S
    <2> SUFFICES ASSUME n + 1 =< N PROVE c[n + 1] = h[n + 1]
      OBVIOUS
    <2>1. /\ n \in Nat /\ n =< N /\ n + 1 \in 0..N /\ n + 1 \in 1..N
          /\ n + 1 # 0 /\ (n + 1) - 1 = n
      BY <1>n
    <2>2. c[n] = h[n]
      BY <2>1
    <2> QED
      BY <1>1, <1>5, <2>1, <2>2, Zenon
  <1>8. S = Nat
    <2> HIDE DEF S
    <2>1. S \in SUBSET Nat
      BY DEF S
    <2> QED
      BY <1>6, <1>7, <2>1, SetInduction
  <1>9. c[N] = h[N]
    BY <1>n, <1>8
  <1> QED
    BY <1>n, <1>1, <1>3, <1>9, Zenon

\* What the loop has read, in the words of Meaning.
AsMeant(p, options) ==
    /\ IsConfig(p)
    /\ p.exit = "none"
    /\ p.mode = IF Server(options) THEN "SERVER" ELSE "CLIENT"
    /\ p.udp = Given(options, {"-u"})
    /\ p.port = uint16_t(Number(options, "-p", 5201))
    /\ p.duration_sec = max(1, Number(options, "-t", 10))
    /\ p.threads = max(1, Number(options, "-P", 1))
    /\ p.buf_size = max(64, Number(options, "-l", 131072))
    /\ Number(options, "-l", 131072) \in Int
    /\ p.queue_depth = max(16, Number(options, "-q", 256))
    /\ p.zero_copy = Given(options, {"-Z"})
    /\ p.sqpoll = Given(options, {"-S"})
    /\ p.fixed_buffers = ~Given(options, {"-F"})
    /\ p.multishot_recv = ~Given(options, {"--no-multishot-recv"})
    /\ p.multi_process = Given(options, {"-M"})
    /\ p.reverse = Given(options, {"-R"})
    /\ p.use_zcrx = Given(options, {"-Y"})
    /\ p.zcrx_ifname = Named(options)
    /\ p.zcrx_base_queue = Number(options, "--zcrx-queue", 0)
    /\ p.interval_sec = max(1, Number(options, "-i", 1))
    /\ p.cpu_affinity = Cores(options)
    /\ p.len_user_set = Given(options, {"-l"})

\* A loop that every option takes part in has read what the line means.
LEMMA LoopReads ==
    ASSUME NEW options \in Seq(Options), ~Given(options, {"-h", "?"})
    PROVE  AsMeant(Reads(options)[Len(options)], options)
  <1>r. PICK r : r = Reads(options)
    BY Zenon
  <1>p. PICK p : p = r[Len(options)]
    BY Zenon
  <1>1. Len(options) \in 0..Len(options)
    OBVIOUS
  <1>2. \A k \in 1..Len(options) : options[k].opt \notin {"-h", "?"}
    BY DEF Given, Where
  <1>3. /\ \A k \in 0..Len(options) : r[k].exit = "none" /\ IsConfig(r[k])
        /\ \A k \in 1..Len(options) : Turn(r[k - 1], options[k], r[k])
    BY Zenon, <1>r, <1>1, <1>2, AllTurns
  <1>4. r[0] = Defaults
    BY Zenon, <1>r, ReadsProperties DEF IsReads
  <1>5. Turns(r, options)
    BY <1>3, <1>4, Zenon DEF Turns
  <1>6. p.exit = "none" /\ IsConfig(p)
    BY <1>p, <1>1, <1>3, Zenon
  <1>7. p.cpu_affinity = Cores(options)
    BY <1>p, <1>5, CoresRead, Zenon
  <1>8. AsMeant(p, options)
    BY <1>p, <1>5, <1>6, <1>7, FlagsRead, NumbersRead, ModeRead DEF AsMeant
  <1> QED
    BY <1>r, <1>p, <1>8, Zenon

\* -h, or the first error of getopt_long(), ends the program with its status.
LEMMA LoopExits ==
    ASSUME NEW options \in Seq(Options), Given(options, {"-h", "?"})
    PROVE  Reads(options)[Len(options)].exit =
               IF FirstOf(options, {"-h", "?"}).opt = "-h" THEN "0" ELSE "1"
  <1>n. PICK N : N = Len(options) /\ N \in Nat
    OBVIOUS
  <1>r. PICK r : r = Reads(options)
    BY Zenon
  <1>W. PICK W : W = Where(options, {"-h", "?"})
    BY Zenon
  <1>p. /\ r[0] = Defaults
        /\ \A k \in 1..N : r[k] = Apply(r[k - 1], options[k])
    BY <1>n, <1>r, ReadsProperties, Zenon DEF IsReads
  <1>1. /\ W \in SUBSET Nat /\ W \subseteq 1..N /\ W # {}
        /\ \A k \in 1..N : k \in W <=> options[k].opt \in {"-h", "?"}
    BY <1>n, <1>W DEF Where, Given
  <1>m. PICK m : m = CHOOSE i \in W : \A j \in W : i =< j
    BY Zenon
  <1>2. m \in W /\ \A j \in W : m =< j
    <2>1. PICK i \in W : \A j \in W : ~(j < i)
      BY Zenon, <1>1, Least
    <2>2. \A j \in W : i =< j
      <3>1. i \in Nat /\ \A j \in W : j \in Nat
        BY <1>1, Zenon
      <3> QED
        BY <2>1, <3>1
    <2> QED
      BY <1>m, <2>2, Zenon
  <1>3. FirstOf(options, {"-h", "?"}) = options[m]
    BY <1>W, <1>m, Zenon DEF FirstOf
  <1>4. m \in 1..N /\ m - 1 \in 0..N /\ options[m].opt \in {"-h", "?"}
    <2>1. m \in 1..N
      BY <1>1, <1>2, Zenon
    <2> QED
      BY <1>n, <1>1, <1>2, <2>1
  <1>5. r[m - 1].exit = "none" /\ IsConfig(r[m - 1])
    <2>M. PICK M : M = m - 1
      BY Zenon
    <2>1. M \in 0..Len(options) /\ M \in 0..M
      BY <1>n, <1>4, <2>M
    <2>2. \A k \in 1..M : options[k].opt \notin {"-h", "?"}
      <3>1. \A k \in 1..M : k \in 1..N /\ ~(m =< k)
        BY <1>n, <1>4, <2>M
      <3> QED
        BY <1>1, <1>2, <3>1, Zenon
    <2>3. \A k \in 0..M : r[k].exit = "none" /\ IsConfig(r[k])
      BY Zenon, <1>r, <2>1, <2>2, AllTurns
    <2> QED
      BY <2>M, <2>1, <2>3, Zenon
  <1>6. r[m].exit = IF options[m].opt = "-h" THEN "0" ELSE "1"
    <2>q. PICK q, o, t : q = r[m - 1] /\ o = options[m] /\ t = r[m]
      BY Zenon
    <2>1. o \in Options /\ t = Apply(q, o) /\ q.exit = "none" /\ IsConfig(q)
      BY <1>n, <1>p, <1>4, <1>5, <2>q
    <2>2. Turn(q, o, t)
      BY Zenon, <2>1, ApplyTurn
    <2>3. t.exit = IF o.opt = "-h" THEN "0" ELSE IF o.opt = "?" THEN "1" ELSE q.exit
      BY Zenon, <2>2 DEF Turn
    <2> QED
      BY Zenon, <1>4, <2>q, <2>3
  <1> DEFINE S == {n \in Nat : m + n =< N => r[m + n] = r[m]}
  <1>7. 0 \in S
    BY <1>4
  <1>8. ASSUME NEW n \in S PROVE n + 1 \in S
    <2> SUFFICES ASSUME m + (n + 1) =< N PROVE r[m + (n + 1)] = r[m]
      OBVIOUS
    <2>1. /\ n \in Nat /\ m + n =< N /\ m + (n + 1) \in 1..N
          /\ (m + (n + 1)) - 1 = m + n
      BY <1>n, <1>4
    <2>2. r[m + n] = r[m]
      BY Zenon, <2>1
    <2>3. r[m + (n + 1)] = Apply(r[m + n], options[m + (n + 1)])
      BY <1>p, <2>1, Zenon
    <2>4. r[m].exit # "none"
      BY Zenon, <1>6
    <2> QED
      BY <2>2, <2>3, <2>4, Zenon DEF Apply
  <1>9. S = Nat
    <2> HIDE DEF S
    <2>1. S \in SUBSET Nat
      BY Zenon DEF S
    <2> QED
      BY Zenon, <1>7, <1>8, <2>1, SetInduction
  <1>10. r[N] = r[m]
    <2>1. N - m \in Nat /\ m + (N - m) = N /\ N =< N
      BY <1>n, <1>4
    <2> QED
      BY Zenon, <1>9, <2>1
  <1> QED
    BY <1>n, <1>r, <1>3, <1>6, <1>10, Zenon

\* What the checks after the loop do to each field.
LEMMA FinishFields ==
    ASSUME NEW p, IsConfig(p), NEW c, c = Finish(p)
    PROVE  /\ IsConfig(c)
           /\ c.buf_size = IF p.udp /\ ~p.len_user_set THEN 40 * udp_gso_size ELSE p.buf_size
           /\ c.exit = IF \/ NeedsInterface(p) /\ ~p.zcrx_ifname
                          \/ p.udp /\ (p.use_zcrx \/ p.reverse) THEN "1" ELSE p.exit
           /\ c.reverse = (p.reverse /\ p.mode # "SERVER")
           /\ \A f \in Fields \ {"buf_size", "exit", "reverse"} : c[f] = p[f]
  <1>1. PICK size, exit, reverse :
            /\ size = IF p.udp /\ ~p.len_user_set THEN 40 * udp_gso_size ELSE p.buf_size
            /\ exit = IF \/ NeedsInterface(p) /\ ~p.zcrx_ifname
                         \/ p.udp /\ (p.use_zcrx \/ p.reverse) THEN "1" ELSE p.exit
            /\ reverse = (p.reverse /\ p.mode # "SERVER")
    BY Zenon
  <1>2. c = [p EXCEPT !.buf_size = size, !.exit = exit, !.reverse = reverse]
    BY <1>1, Zenon DEF Finish
  <1>3. /\ IsConfig(c) /\ c.buf_size = size /\ c.exit = exit /\ c.reverse = reverse
        /\ \A f \in Fields \ {"buf_size", "exit", "reverse"} : c[f] = p[f]
    BY <1>2, Zenon DEF IsConfig, Fields
  <1> QED
    BY <1>1, <1>3, Zenon

\* The length of the buffers: -l, or the default of the protocol.
LEMMA BufferLength ==
    ASSUME NEW options, NEW n, n = Number(options, "-l", 131072), n \in Int
    PROVE  /\ Given(options, {"-l"}) \/ ~Given(options, {"-u"}) =>
                  max(64, Number(options, "-l", IF Given(options, {"-u"}) THEN 58880
                                                ELSE 131072)) = max(64, n)
           /\ ~Given(options, {"-l"}) /\ Given(options, {"-u"}) =>
                  max(64, Number(options, "-l", IF Given(options, {"-u"}) THEN 58880
                                                ELSE 131072)) = 40 * udp_gso_size
  <1>1. CASE Given(options, {"-l"})
    BY <1>1 DEF Number
  <1>2. CASE ~Given(options, {"-l"}) /\ ~Given(options, {"-u"})
    BY <1>2 DEF Number
  <1>3. CASE ~Given(options, {"-l"}) /\ Given(options, {"-u"})
    BY <1>3 DEF Number, max, udp_gso_size
  <1> QED
    BY <1>1, <1>2, <1>3

\* parse_args() gives what the whole command line means.
LEMMA ParseMeans ==
    ASSUME NEW options \in Seq(Options)
    PROVE  /\ parse_args(options).exit = Meaning(options).exit
           /\ parse_args(options).exit = "none" => parse_args(options) = Meaning(options)
  <1>c. PICK c : c = parse_args(options)
    OBVIOUS
  <1>m. PICK m : m = Meaning(options)
    OBVIOUS
  <1>p. PICK p : p = Reads(options)[Len(options)]
    OBVIOUS
  <1>1. c = IF p.exit = "none" THEN Finish(p) ELSE p
    BY <1>c, <1>p, Zenon DEF parse_args
  <1>2. m.exit = ExitStatus(options)
    BY <1>m DEF Meaning
  <1>3. CASE Given(options, {"-h", "?"})
    <2>1. p.exit = IF FirstOf(options, {"-h", "?"}).opt = "-h" THEN "0" ELSE "1"
      BY <1>p, <1>3, LoopExits, Zenon
    <2>2. ExitStatus(options) = IF FirstOf(options, {"-h", "?"}).opt = "-h" THEN "0" ELSE "1"
      BY <1>3, Zenon DEF ExitStatus
    <2>3. p.exit # "none"
      BY <2>1
    <2> QED
      BY <1>c, <1>m, <1>1, <1>2, <2>1, <2>2, <2>3, Zenon
  <1>4. CASE ~Given(options, {"-h", "?"})
    <2>1. AsMeant(p, options)
      BY <1>p, <1>4, LoopReads, Zenon
    <2>2. IsConfig(p) /\ p.exit = "none" /\ c = Finish(p)
      BY <1>1, <2>1 DEF AsMeant
    <2>3. /\ p.udp = Given(options, {"-u"}) /\ p.use_zcrx = Given(options, {"-Y"})
          /\ p.reverse = Given(options, {"-R"}) /\ p.len_user_set = Given(options, {"-l"})
          /\ p.zcrx_ifname = Named(options)
          /\ p.mode = IF Server(options) THEN "SERVER" ELSE "CLIENT"
      BY <2>1 DEF AsMeant
    <2>4. /\ IsConfig(c)
          /\ c.buf_size = IF p.udp /\ ~p.len_user_set THEN 40 * udp_gso_size ELSE p.buf_size
          /\ c.exit = IF \/ NeedsInterface(p) /\ ~p.zcrx_ifname
                         \/ p.udp /\ (p.use_zcrx \/ p.reverse) THEN "1" ELSE p.exit
          /\ c.reverse = (p.reverse /\ p.mode # "SERVER")
          /\ \A f \in Fields \ {"buf_size", "exit", "reverse"} : c[f] = p[f]
      BY <2>2, FinishFields, Zenon
    <2>5. (p.mode = "SERVER") <=> Server(options)
      BY <2>3
    <2>6. NeedsInterface(p) <=>
              Given(options, {"-Y"}) /\ (Server(options) \/ Given(options, {"-R"}))
      BY <2>3, <2>5, Zenon DEF NeedsInterface
    <2>7. ExitStatus(options) =
              IF \/ Given(options, {"-u"}) /\ (Given(options, {"-Y"}) \/ Given(options, {"-R"}))
                 \/ Given(options, {"-Y"}) /\ ~Named(options)
                        /\ (Server(options) \/ Given(options, {"-R"}))
              THEN "1" ELSE "none"
      BY <1>4, Zenon DEF ExitStatus
    <2>8. c.exit = m.exit
      BY <1>2, <2>2, <2>3, <2>4, <2>6, <2>7, Zenon
    <2>9. c.reverse = (Given(options, {"-R"}) /\ ~Server(options))
      BY <2>3, <2>4, <2>5, Zenon
    <2>10. m.buf_size = c.buf_size
      <3>1. PICK n : n = Number(options, "-l", 131072) /\ n \in Int /\ p.buf_size = max(64, n)
        BY <2>1 DEF AsMeant
      <3>2. m.buf_size = max(64, Number(options, "-l", IF Given(options, {"-u"}) THEN 58880
                                                       ELSE 131072))
        BY <1>m DEF Meaning
      <3>3. CASE Given(options, {"-l"}) \/ ~Given(options, {"-u"})
        <4>1. m.buf_size = max(64, n)
          BY <3>1, <3>2, <3>3, BufferLength, SMT
        <4>2. c.buf_size = p.buf_size
          BY <2>3, <2>4, <3>3, Zenon
        <4> QED
          BY <3>1, <4>1, <4>2
      <3>4. CASE ~Given(options, {"-l"}) /\ Given(options, {"-u"})
        <4>1. m.buf_size = 40 * udp_gso_size
          BY <3>1, <3>2, <3>4, BufferLength, SMT
        <4>2. c.buf_size = 40 * udp_gso_size
          BY <2>3, <2>4, <3>4, Zenon
        <4> QED
          BY <4>1, <4>2
      <3> QED
        BY <3>3, <3>4
    <2>11. ASSUME NEW f \in Fields PROVE c[f] = m[f]
      <3>1. CASE f \in {"buf_size", "exit", "reverse"}
        <4>1. m.reverse = (Given(options, {"-R"}) /\ ~Server(options))
          BY <1>m DEF Meaning
        <4> QED
          BY <2>8, <2>9, <2>10, <3>1, <4>1, Zenon
      <3>2. CASE f \notin {"buf_size", "exit", "reverse"}
        <4>1. c[f] = p[f]
          BY <2>4, <3>2, Zenon
        <4>2. p[f] = m[f]
          <5>1. CASE f \in {"port", "duration_sec", "threads"}
            BY <1>m, <2>1, <5>1 DEF AsMeant, Meaning, uint16_t
          <5>2. CASE f \in {"queue_depth", "zcrx_base_queue", "interval_sec"}
            BY <1>m, <2>1, <5>2 DEF AsMeant, Meaning, uint16_t
          <5>3. CASE f \in {"mode", "udp", "zero_copy"}
            BY <1>m, <2>1, <5>3 DEF AsMeant, Meaning
          <5>4. CASE f \in {"sqpoll", "fixed_buffers", "multishot_recv"}
            BY <1>m, <2>1, <5>4 DEF AsMeant, Meaning
          <5>5. CASE f \in {"multi_process", "use_zcrx", "zcrx_ifname"}
            BY <1>m, <2>1, <5>5 DEF AsMeant, Meaning
          <5>6. CASE f \in {"cpu_affinity", "len_user_set"}
            BY <1>m, <2>1, <5>6 DEF AsMeant, Meaning
          <5>7. f \in {"port", "duration_sec", "threads", "queue_depth",
                       "zcrx_base_queue", "interval_sec", "mode", "udp", "zero_copy",
                       "sqpoll", "fixed_buffers", "multishot_recv", "multi_process",
                       "use_zcrx", "zcrx_ifname", "cpu_affinity", "len_user_set"}
            BY Zenon, <3>2 DEF Fields
          <5> QED
            BY Zenon, <5>1, <5>2, <5>3, <5>4, <5>5, <5>6, <5>7
        <4> QED
          BY <4>1, <4>2
      <3> QED
        BY <3>1, <3>2
    <2>12. IsConfig(m)
      BY <1>m DEF Meaning, IsConfig, Fields
    <2>13. c = m
      BY <2>4, <2>11, <2>12, Zenon DEF IsConfig
    <2> QED
      BY <1>c, <1>m, <2>8, <2>13, Zenon
  <1> QED
    BY <1>3, <1>4

--------------------------------------------------------------------------------
(* Calls in an order: what the way in and the way out need *)

\* s makes exactly the calls A, in the order of R.
Makes(R, A, s) == s \in Seq(Calls) /\ Increasing(R, s) /\ Range(s) = A

\* The sequences of one call and of none.
LEMMA MakesOne ==
    ASSUME NEW R, NEW x \in Calls
    PROVE  Makes(R, {x}, <<x>>) /\ Makes(R, {}, <<>>)
  BY DEF Makes, Increasing, Range

\* A call that is made only under a condition.
LEMMA MakesIf ==
    ASSUME NEW R, NEW A, NEW s, Makes(R, A, s), NEW b \in BOOLEAN
    PROVE  Makes(R, IF b THEN A ELSE {}, If(b, s))
  BY DEF If, Makes, Increasing, Range

\* Calls made one after the other.
LEMMA MakesConcat ==
    ASSUME NEW R \in [Calls -> Int], NEW A, NEW B, NEW s, NEW t,
           Makes(R, A, s), Makes(R, B, t), \A x \in A, y \in B : R[x] < R[y]
    PROVE  Makes(R, A \cup B, s \o t)
  <1> DEFINE u == s \o t
  <1>1. s \in Seq(Calls) /\ t \in Seq(Calls) /\ Range(s) = A /\ Range(t) = B
    BY Zenon DEF Makes
  <1>2. /\ u \in Seq(Calls) /\ Len(u) = Len(s) + Len(t)
        /\ \A i \in 1..(Len(s) + Len(t)) : u[i] = IF i <= Len(s) THEN s[i] ELSE t[i - Len(s)]
    BY <1>1
  <1>3. /\ Len(s) \in Nat /\ Len(t) \in Nat /\ DOMAIN s = 1..Len(s) /\ DOMAIN t = 1..Len(t)
        /\ DOMAIN u = 1..(Len(s) + Len(t))
    BY <1>1, <1>2
  <1> HIDE DEF u
  <1>4. /\ \A i \in DOMAIN s : i \in DOMAIN u /\ u[i] = s[i]
        /\ \A i \in DOMAIN t : Len(s) + i \in DOMAIN u /\ u[Len(s) + i] = t[i]
    <2>1. \A i \in DOMAIN s : i \in DOMAIN u /\ u[i] = s[i]
      BY <1>2, <1>3
    <2>2. ASSUME NEW i \in DOMAIN t PROVE Len(s) + i \in DOMAIN u /\ u[Len(s) + i] = t[i]
      <3>1. /\ Len(s) + i \in 1..(Len(s) + Len(t)) /\ ~(Len(s) + i <= Len(s))
            /\ (Len(s) + i) - Len(s) = i
        BY <1>3
      <3>2. u[Len(s) + i] = t[(Len(s) + i) - Len(s)]
        BY <1>2, <3>1, Zenon
      <3> QED
        BY <1>3, <3>1, <3>2, Zenon
    <2> QED
      BY Zenon, <2>1, <2>2
  <1>5. \A k \in DOMAIN u : \/ k \in DOMAIN s /\ k <= Len(s) /\ u[k] = s[k]
                            \/ /\ k > Len(s) /\ k - Len(s) \in DOMAIN t
                               /\ u[k] = t[k - Len(s)]
    <2> TAKE k \in DOMAIN u
    <2>1. k \in 1..(Len(s) + Len(t))
      BY Zenon, <1>3
    <2>2. CASE k <= Len(s)
      BY <1>2, <1>3, <2>1, <2>2
    <2>3. CASE ~(k <= Len(s))
      <3>1. k > Len(s) /\ k - Len(s) \in DOMAIN t
        BY <1>3, <2>1, <2>3
      <3>2. u[k] = t[k - Len(s)]
        BY <1>2, <2>1, <2>3, Zenon
      <3> QED
        BY Zenon, <3>1, <3>2
    <2> QED
      BY Zenon, <2>2, <2>3
  <1>6. Range(u) = A \cup B
    <2>1. ASSUME NEW x \in Range(u) PROVE x \in A \cup B
      <3>1. PICK k \in DOMAIN u : x = u[k]
        BY Zenon DEF Range
      <3> QED
        BY <1>1, <1>5, <3>1, Zenon DEF Range
    <2>2. ASSUME NEW x \in A PROVE x \in Range(u)
      BY <1>1, <1>4, Zenon DEF Range
    <2>3. ASSUME NEW x \in B PROVE x \in Range(u)
      BY <1>1, <1>4, Zenon DEF Range
    <2> QED
      BY Zenon, <2>1, <2>2, <2>3
  <1>7. Increasing(R, u)
    <2> SUFFICES ASSUME NEW i \in DOMAIN u, NEW j \in DOMAIN u, i < j
                 PROVE  R[u[i]] < R[u[j]]
      BY Zenon DEF Increasing
    <2>1. i \in Int /\ j \in Int
      BY <1>3
    <2>2. CASE j <= Len(s)
      <3>1. i \in DOMAIN s /\ j \in DOMAIN s /\ u[i] = s[i] /\ u[j] = s[j]
        BY <1>3, <1>4, <2>1, <2>2
      <3> QED
        BY Zenon, <3>1 DEF Makes, Increasing
    <2>3. CASE i > Len(s)
      <3>1. /\ i - Len(s) \in DOMAIN t /\ u[i] = t[i - Len(s)]
            /\ j - Len(s) \in DOMAIN t /\ u[j] = t[j - Len(s)]
            /\ i - Len(s) < j - Len(s)
        BY <1>3, <1>5, <2>1, <2>3
      <3> QED
        BY <3>1, Zenon DEF Makes, Increasing
    <2>4. CASE i <= Len(s) /\ j > Len(s)
      <3>1. /\ i \in DOMAIN s /\ u[i] = s[i]
            /\ j - Len(s) \in DOMAIN t /\ u[j] = t[j - Len(s)]
        BY <1>3, <1>5, <2>1, <2>4
      <3>2. u[i] \in A /\ u[j] \in B
        BY <1>1, <3>1, Zenon DEF Range
      <3> QED
        BY Zenon, <3>2
    <2> QED
      BY <1>3, <2>1, <2>2, <2>3, <2>4
  <1> QED
    BY Zenon, <1>2, <1>6, <1>7 DEF Makes, u

\* A sequence without calls is empty.
LEMMA NoCalls ==
    ASSUME NEW s \in Seq(Calls)
    PROVE  s = <<>> <=> Range(s) = {}
  <1>1. CASE s = <<>>
    BY <1>1 DEF Range
  <1>2. CASE s # <<>>
    <2>1. 1 \in DOMAIN s
      BY <1>2
    <2>2. s[1] \in Range(s)
      BY <2>1, Zenon DEF Range
    <2> QED
      BY <1>2, <2>2, Zenon
  <1> QED
    BY Zenon, <1>1, <1>2

\* Making the first call leaves the others, which come after it.
LEMMA RemainingCalls ==
    ASSUME NEW R \in [Calls -> Int], NEW A \in SUBSET Calls, NEW s,
           Remaining(R, A, s), s # <<>>
    PROVE  /\ Remaining(R, A, Tail(s))
           /\ Head(s) \in Range(s)
           /\ Range(Tail(s)) = Range(s) \ {Head(s)}
           /\ \A y \in Range(s) \ {Head(s)} : R[Head(s)] < R[y]
           /\ \A x \in A \ Range(s) : R[x] < R[Head(s)]
  <1>1. /\ s \in Seq(Calls) /\ Increasing(R, s) /\ Range(s) \subseteq A
        /\ \A x \in A \ Range(s), y \in Range(s) : R[x] < R[y]
    BY Zenon DEF Remaining
  <1>2. /\ Head(s) \in Range(s) /\ Head(s) \in Calls
        /\ Tail(s) \in Seq(Calls) /\ Increasing(R, Tail(s))
        /\ Range(Tail(s)) = Range(s) \ {Head(s)}
        /\ \A y \in Range(s) \ {Head(s)} : R[Head(s)] < R[y]
    BY Zenon, <1>1, NextCall
  <1>3. \A x \in A \ Range(Tail(s)), y \in Range(Tail(s)) : R[x] < R[y]
    BY <1>1, <1>2, Zenon
  <1>4. Range(Tail(s)) \subseteq A
    BY Zenon, <1>1, <1>2
  <1> QED
    BY Zenon, <1>1, <1>2, <1>3, <1>4 DEF Remaining

\* The sequences of two calls,
LEMMA MakesTwo ==
    ASSUME NEW R \in [Calls -> Int], NEW x \in Calls, NEW y \in Calls, R[x] < R[y]
    PROVE  Makes(R, {x, y}, <<x, y>>)
  <1>1. <<x, y>> \in Seq(Calls) /\ Range(<<x, y>>) = {x, y}
    BY DEF Range
  <1>2. Increasing(R, <<x, y>>)
    BY DEF Increasing
  <1> QED
    BY Zenon, <1>1, <1>2 DEF Makes

\* and of three.
LEMMA MakesThree ==
    ASSUME NEW R \in [Calls -> Int], NEW x \in Calls, NEW y \in Calls, NEW z \in Calls,
           R[x] < R[y], R[y] < R[z]
    PROVE  Makes(R, {x, y, z}, <<x, y, z>>)
  <1>1. <<x, y, z>> \in Seq(Calls) /\ Range(<<x, y, z>>) = {x, y, z}
    BY DEF Range
  <1>2. Increasing(R, <<x, y, z>>)
    BY DEF Increasing
  <1> QED
    BY Zenon, <1>1, <1>2 DEF Makes

\* The order of the setup calls, number by number,
LEMMA SetupOrder ==
    /\ SetupRank["socket"] = 1 /\ SetupRank["bind"] = 2 /\ SetupRank["listen"] = 3
    /\ SetupRank["resolve"] = 4 /\ SetupRank["connect"] = 5 /\ SetupRank["handshake"] = 6
    /\ SetupRank["queue"] = 7 /\ SetupRank["buf_ring"] = 8 /\ SetupRank["buf_mem"] = 9
    /\ SetupRank["files"] = 10 /\ SetupRank["pool"] = 11 /\ SetupRank["buffers"] = 12
  BY Zenon DEF SetupRank, Calls, SocketStep

\* and the order of the releases.
LEMMA ReleaseOrder ==
    /\ ReleaseRank["pool"] = 2 /\ ReleaseRank["buffers"] = 3 /\ ReleaseRank["files"] = 4
    /\ ReleaseRank["buf_ring"] = 5 /\ ReleaseRank["buf_mem"] = 6
    /\ ReleaseRank["queue"] = 7
    /\ role = "client_reverse" => ReleaseRank["socket"] = 9
    /\ role # "client_reverse" => ReleaseRank["socket"] = 1
  BY Zenon DEF ReleaseRank, Calls, SocketStep

--------------------------------------------------------------------------------
(* The plan of a worker *)

\* The socket's calls, and the engine's.
Only(b, A) == IF b THEN A ELSE {}

SocketSet(c, i) ==
    IF c.mode = "SERVER" THEN {"socket", "bind"} \cup Only(~c.udp, {"listen"})
    ELSE {"socket"} \cup Only(local_bind_port(c, i) # 0, {"bind"})
             \cup {"resolve", "connect"} \cup Only(~c.udp, {"handshake"})

EngineSet(c) ==
    CASE Role(c) = "client" -> {"queue", "files", "pool"} \cup Only(c.fixed_buffers, {"buffers"})
      [] Role(c) = "client_reverse" ->
             {"queue"} \cup Only(c.multishot_recv, {"buf_ring", "buf_mem"}) \cup {"pool"}
      [] Role(c) \in {"server_tcp", "server_udp"} ->
             {"queue"} \cup Only(c.multishot_recv, {"buf_ring", "buf_mem"})
                 \cup Only(c.udp, {"files", "pool"})
      [] OTHER -> {}

\* The calls for the sockets are made in the order of the setup,
LEMMA SocketPlan ==
    ASSUME NEW c, NEW i, Accepted(c)
    PROVE  Makes(SetupRank, SocketSet(c, i), SocketCalls(c, i))
  <1> DEFINE R == SetupRank
             M(A, s) == Makes(R, A, s)
  <1>0. /\ R \in [Calls -> Int] /\ c.udp \in BOOLEAN /\ (~c.udp) \in BOOLEAN
        /\ {"socket", "bind", "listen", "resolve", "connect", "handshake"} \subseteq Calls
    BY Zenon, Ranks DEF Accepted, Calls, SocketStep
  <1>1. /\ R["socket"] < R["bind"] /\ R["bind"] < R["listen"] /\ R["socket"] < R["listen"]
        /\ R["bind"] < R["resolve"] /\ R["bind"] < R["connect"]
        /\ R["socket"] < R["resolve"] /\ R["socket"] < R["connect"]
        /\ R["resolve"] < R["connect"] /\ R["connect"] < R["handshake"]
        /\ R["resolve"] < R["handshake"] /\ R["bind"] < R["handshake"]
        /\ R["socket"] < R["handshake"]
    BY SetupOrder
  <1> HIDE DEF R
  <1>2. CASE c.mode = "SERVER"
    <2>1. M({"socket", "bind"}, <<"socket", "bind">>)
      BY Zenon, <1>0, <1>1, MakesTwo
    <2>2. M(Only(~c.udp, {"listen"}), If(~c.udp, <<"listen">>))
      BY Zenon, <1>0, MakesOne, MakesIf DEF Only
    <2>3. \A x \in {"socket", "bind"}, y \in Only(~c.udp, {"listen"}) : R[x] < R[y]
      BY Zenon, <1>1 DEF Only
    <2>4. M(SocketSet(c, i), <<"socket", "bind">> \o If(~c.udp, <<"listen">>))
      BY Zenon, <1>0, <1>2, <2>1, <2>2, <2>3, MakesConcat DEF SocketSet
    <2> QED
      BY Zenon, <1>2, <2>4 DEF R, SocketCalls, create_listen_socket
  <1>3. CASE c.mode # "SERVER"
    <2> DEFINE b == local_bind_port(c, i) # 0
    <2>0. b \in BOOLEAN
      BY Zenon
    <2> HIDE DEF b
    <2>1. M({"socket"}, <<"socket">>)
      BY Zenon, <1>0, MakesOne
    <2>2. M(Only(b, {"bind"}), If(b, <<"bind">>))
      BY Zenon, <1>0, <2>0, MakesOne, MakesIf DEF Only
    <2>3. \A x \in {"socket"}, y \in Only(b, {"bind"}) : R[x] < R[y]
      BY Zenon, <1>1 DEF Only
    <2>4. M({"socket"} \cup Only(b, {"bind"}), <<"socket">> \o If(b, <<"bind">>))
      BY Zenon, <1>0, <2>1, <2>2, <2>3, MakesConcat
    <2>5. M({"resolve", "connect"}, <<"resolve", "connect">>)
      BY Zenon, <1>0, <1>1, MakesTwo
    <2>6. \A x \in {"socket"} \cup Only(b, {"bind"}), y \in {"resolve", "connect"} :
             R[x] < R[y]
      BY Zenon, <1>1 DEF Only
    <2>7. M({"socket"} \cup Only(b, {"bind"}) \cup {"resolve", "connect"},
            <<"socket">> \o If(b, <<"bind">>) \o <<"resolve", "connect">>)
      BY Zenon, <1>0, <2>4, <2>5, <2>6, MakesConcat
    <2>8. M(Only(~c.udp, {"handshake"}), If(~c.udp, <<"handshake">>))
      BY Zenon, <1>0, MakesOne, MakesIf DEF Only
    <2>9. \A x \in {"socket"} \cup Only(b, {"bind"}) \cup {"resolve", "connect"},
             y \in Only(~c.udp, {"handshake"}) : R[x] < R[y]
      BY Zenon, <1>1 DEF Only
    <2>10. M({"socket"} \cup Only(b, {"bind"}) \cup {"resolve", "connect"}
                 \cup Only(~c.udp, {"handshake"}),
             <<"socket">> \o If(b, <<"bind">>) \o <<"resolve", "connect">>
                 \o If(~c.udp, <<"handshake">>))
      BY Zenon, <1>0, <2>7, <2>8, <2>9, MakesConcat
    <2> QED
      BY Zenon, <1>3, <2>10 DEF R, b, SocketCalls, create_client_socket, SocketSet
  <1> QED
    BY Zenon, <1>2, <1>3

\* and so are the calls for the engine.
LEMMA EnginePlan ==
    ASSUME NEW c, Accepted(c)
    PROVE  Makes(SetupRank, EngineSet(c), EngineCalls(c))
  <1> DEFINE R == SetupRank
             M(A, s) == Makes(R, A, s)
             shots == Only(c.multishot_recv, {"buf_ring", "buf_mem"})
             ringed == <<"queue">> \o If(c.multishot_recv, <<"buf_ring", "buf_mem">>)
  <1>0. /\ R \in [Calls -> Int]
        /\ c.udp \in BOOLEAN /\ c.multishot_recv \in BOOLEAN /\ c.fixed_buffers \in BOOLEAN
        /\ {"queue", "buf_ring", "buf_mem", "files", "pool", "buffers"} \subseteq Calls
    BY Zenon, Ranks DEF Accepted, Calls
  <1>1. /\ R["queue"] < R["buf_ring"] /\ R["queue"] < R["buf_mem"]
        /\ R["queue"] < R["files"] /\ R["queue"] < R["pool"] /\ R["queue"] < R["buffers"]
        /\ R["buf_ring"] < R["buf_mem"] /\ R["buf_ring"] < R["files"]
        /\ R["buf_ring"] < R["pool"] /\ R["buf_mem"] < R["files"]
        /\ R["buf_mem"] < R["pool"] /\ R["files"] < R["pool"]
        /\ R["files"] < R["buffers"] /\ R["pool"] < R["buffers"]
    BY SetupOrder
  <1> HIDE DEF R
  <1>2. M({"queue"} \cup shots, ringed)
    <2>1. M({"queue"}, <<"queue">>)
      BY Zenon, <1>0, MakesOne
    <2>2. M({"buf_ring", "buf_mem"}, <<"buf_ring", "buf_mem">>)
      BY Zenon, <1>0, <1>1, MakesTwo
    <2>3. M(shots, If(c.multishot_recv, <<"buf_ring", "buf_mem">>))
      BY Zenon, <1>0, <2>2, MakesIf DEF Only
    <2>4. \A x \in {"queue"}, y \in shots : R[x] < R[y]
      BY Zenon, <1>1 DEF Only
    <2> QED
      BY Zenon, <1>0, <2>1, <2>3, <2>4, MakesConcat
  <1>3. CASE Role(c) = "client"
    <2>1. M({"queue", "files", "pool"}, <<"queue", "files", "pool">>)
      BY Zenon, <1>0, <1>1, MakesThree
    <2>2. M(Only(c.fixed_buffers, {"buffers"}), If(c.fixed_buffers, <<"buffers">>))
      BY Zenon, <1>0, MakesOne, MakesIf DEF Only
    <2>3. \A x \in {"queue", "files", "pool"}, y \in Only(c.fixed_buffers, {"buffers"}) :
             R[x] < R[y]
      BY Zenon, <1>1 DEF Only
    <2>4. M({"queue", "files", "pool"} \cup Only(c.fixed_buffers, {"buffers"}),
            <<"queue", "files", "pool">> \o If(c.fixed_buffers, <<"buffers">>))
      BY Zenon, <1>0, <2>1, <2>2, <2>3, MakesConcat
    <2> QED
      BY Zenon, <1>3, <2>4 DEF R, EngineSet, EngineCalls, ClientCalls
  <1>4. CASE Role(c) = "client_reverse"
    <2>1. M({"pool"}, <<"pool">>)
      BY Zenon, <1>0, MakesOne
    <2>2. \A x \in {"queue"} \cup shots, y \in {"pool"} : R[x] < R[y]
      BY Zenon, <1>1 DEF Only
    <2>3. M({"queue"} \cup shots \cup {"pool"}, ringed \o <<"pool">>)
      BY Zenon, <1>0, <1>2, <2>1, <2>2, MakesConcat
    <2> QED
      BY Zenon, <1>4, <2>3 DEF R, EngineSet, EngineCalls, ReverseCalls
  <1>5. CASE Role(c) \in {"server_tcp", "server_udp"}
    <2>1. M({"files", "pool"}, <<"files", "pool">>)
      BY Zenon, <1>0, <1>1, MakesTwo
    <2>2. M(Only(c.udp, {"files", "pool"}), If(c.udp, <<"files", "pool">>))
      BY Zenon, <1>0, <2>1, MakesIf DEF Only
    <2>3. \A x \in {"queue"} \cup shots, y \in Only(c.udp, {"files", "pool"}) : R[x] < R[y]
      BY Zenon, <1>1 DEF Only
    <2>4. M({"queue"} \cup shots \cup Only(c.udp, {"files", "pool"}),
            ringed \o If(c.udp, <<"files", "pool">>))
      BY Zenon, <1>0, <1>2, <2>2, <2>3, MakesConcat
    <2> QED
      BY Zenon, <1>5, <2>4 DEF R, EngineSet, EngineCalls, ServerCalls
  <1>6. CASE Role(c) \in {"client_zcrx", "server_zcrx"}
    <2>1. EngineSet(c) = {} /\ EngineCalls(c) = <<>>
      BY Zenon, <1>6 DEF EngineSet, EngineCalls
    <2>2. M({}, <<>>)
      BY Zenon, <1>0, MakesOne
    <2> QED
      BY Zenon, <2>1, <2>2 DEF R
  <1> QED
    BY Zenon, <1>3, <1>4, <1>5, <1>6, Roles DEF EngineRoles

\* The plan as a set, and its order.
LEMMA Plan ==
    ASSUME NEW c, NEW i, Accepted(c)
    PROVE  /\ Makes(SetupRank, SocketSet(c, i) \cup EngineSet(c),
                    SocketCalls(c, i) \o EngineCalls(c))
           /\ SocketSet(c, i) \subseteq SocketStep /\ "socket" \in SocketSet(c, i)
           /\ EngineSet(c) \subseteq Calls \ SocketStep
           /\ "queue" \in EngineSet(c) <=> Role(c) \in EngineRoles
           /\ "files" \in EngineSet(c) <=> Role(c) \in {"client", "server_udp"}
           /\ "pool" \in EngineSet(c) <=> Role(c) \in EngineRoles \ {"server_tcp"}
           /\ "buffers" \in EngineSet(c) => Role(c) = "client"
           /\ "buf_mem" \in EngineSet(c) => Role(c) \in EngineRoles \ {"client"}
           /\ "buf_ring" \in EngineSet(c) <=> "buf_mem" \in EngineSet(c)
  <1>1. SocketSet(c, i) \subseteq SocketStep /\ "socket" \in SocketSet(c, i)
    BY Zenon DEF SocketSet, SocketStep, Only
  <1>2. /\ EngineSet(c) \subseteq {"queue", "buf_ring", "buf_mem", "files", "pool", "buffers"}
        /\ "queue" \in EngineSet(c) <=> Role(c) \in EngineRoles
        /\ "files" \in EngineSet(c) <=> Role(c) \in {"client", "server_udp"}
        /\ "pool" \in EngineSet(c) <=> Role(c) \in EngineRoles \ {"server_tcp"}
        /\ "buffers" \in EngineSet(c) => Role(c) = "client"
        /\ "buf_mem" \in EngineSet(c) => Role(c) \in EngineRoles \ {"client"}
        /\ "buf_ring" \in EngineSet(c) <=> "buf_mem" \in EngineSet(c)
    <2>1. CASE Role(c) = "client"
      BY Zenon, <2>1 DEF EngineSet, EngineRoles, Only
    <2>2. CASE Role(c) = "client_reverse"
      BY Zenon, <2>2 DEF EngineSet, EngineRoles, Only
    <2>3. CASE Role(c) = "server_tcp"
      <3>1. ~c.udp
        BY Zenon, <2>3, Roles
      <3> QED
        BY Zenon, <2>3, <3>1 DEF EngineSet, EngineRoles, Only
    <2>4. CASE Role(c) = "server_udp"
      <3>1. c.udp
        BY Zenon, <2>4, Roles
      <3> QED
        BY Zenon, <2>4, <3>1 DEF EngineSet, EngineRoles, Only
    <2>5. CASE Role(c) \in {"client_zcrx", "server_zcrx"}
      BY Zenon, <2>5 DEF EngineSet, EngineRoles, Only
    <2> QED
      BY Zenon, <2>1, <2>2, <2>3, <2>4, <2>5, Roles DEF EngineRoles
  <1>3. EngineSet(c) \subseteq Calls \ SocketStep
    BY Zenon, <1>2 DEF Calls, SocketStep
  <1>4. \A x \in SocketSet(c, i), y \in EngineSet(c) : SetupRank[x] < SetupRank[y]
    <2>1. \A x \in SocketStep : SetupRank[x] \in Int /\ SetupRank[x] < 7
      BY SetupOrder DEF SocketStep
    <2>2. \A y \in {"queue", "buf_ring", "buf_mem", "files", "pool", "buffers"} :
             SetupRank[y] \in Int /\ SetupRank[y] >= 7
      BY SetupOrder
    <2>3. TAKE x \in SocketSet(c, i), y \in EngineSet(c)
    <2>4. SetupRank[x] \in Int /\ SetupRank[x] < 7 /\ SetupRank[y] \in Int /\ SetupRank[y] >= 7
      BY Zenon, <1>1, <1>2, <2>1, <2>2
    <2> QED
      BY <2>4
  <1>5. Makes(SetupRank, SocketSet(c, i) \cup EngineSet(c),
              SocketCalls(c, i) \o EngineCalls(c))
    BY Zenon, <1>4, SocketPlan, EnginePlan, MakesConcat, Ranks
  <1> QED
    BY Zenon, <1>1, <1>2, <1>3, <1>5

--------------------------------------------------------------------------------
(* What parse_args() lets through *)

\* parse_args() accepts only configurations that the workers can run.
LEMMA ParseOutcome ==
    ASSUME NEW options \in Seq(Options), NEW c, c = parse_args(options), c.exit = "none"
    PROVE  /\ Accepted([f \in Used |-> c[f]])
           /\ NeedsInterface(c) => c.zcrx_ifname
  <1>p. PICK p : p = Reads(options)[Len(options)]
    BY Zenon
  <1>1. ConfigOK(p)
    BY Zenon, <1>p, ReadsTyped
  <1>2. c = IF p.exit = "none" THEN Finish(p) ELSE p
    BY Zenon, <1>p DEF parse_args
  <1>3. p.exit = "none" /\ c = Finish(p)
    BY <1>2, Zenon
  <1>4. /\ c.exit = IF \/ NeedsInterface(p) /\ ~p.zcrx_ifname
                       \/ p.udp /\ (p.use_zcrx \/ p.reverse) THEN "1" ELSE p.exit
        /\ c.reverse = (p.reverse /\ p.mode # "SERVER")
        /\ \A f \in Used \ {"reverse"} : c[f] = p[f]
    <2>1. IsConfig(p)
      BY Zenon, <1>1 DEF ConfigOK
    <2> DEFINE size == IF p.udp /\ ~p.len_user_set THEN 40 * udp_gso_size ELSE p.buf_size
               status == IF \/ NeedsInterface(p) /\ ~p.zcrx_ifname
                            \/ p.udp /\ (p.use_zcrx \/ p.reverse) THEN "1" ELSE p.exit
               back == p.reverse /\ p.mode # "SERVER"
    <2>2. c = [p EXCEPT !.buf_size = size, !.exit = status, !.reverse = back]
      BY Zenon, <1>3 DEF Finish
    <2> HIDE DEF size, status, back
    <2>3. /\ c.exit = status /\ c.reverse = back
          /\ \A f \in Fields \ {"exit", "reverse", "buf_size"} : c[f] = p[f]
      BY <2>1, <2>2, Zenon DEF IsConfig, Fields
    <2>4. Used \ {"reverse"} \subseteq Fields \ {"exit", "reverse", "buf_size"}
      BY Zenon DEF Used, Fields
    <2> QED
      BY <2>3, <2>4, Zenon DEF status, back
  <1>5. /\ ~(NeedsInterface(p) /\ ~p.zcrx_ifname)
        /\ ~(p.udp /\ (p.use_zcrx \/ p.reverse))
    BY <1>4, Zenon
  <1>6. /\ c.mode = p.mode /\ c.udp = p.udp /\ c.port = p.port /\ c.sqpoll = p.sqpoll
        /\ c.fixed_buffers = p.fixed_buffers /\ c.multishot_recv = p.multishot_recv
        /\ c.use_zcrx = p.use_zcrx /\ c.zcrx_ifname = p.zcrx_ifname
    BY <1>4, Zenon DEF Used
  <1>7. /\ c.mode \in {"CLIENT", "SERVER"}
        /\ c.udp \in BOOLEAN /\ c.sqpoll \in BOOLEAN /\ c.fixed_buffers \in BOOLEAN
        /\ c.multishot_recv \in BOOLEAN /\ c.reverse \in BOOLEAN
        /\ c.use_zcrx \in BOOLEAN /\ c.zcrx_ifname \in BOOLEAN
        /\ c.port \in Port
        /\ c.udp => ~c.use_zcrx /\ ~c.reverse
        /\ c.mode = "SERVER" => ~c.reverse
    BY <1>1, <1>4, <1>5, <1>6, Zenon DEF ConfigOK
  <1>8. NeedsInterface(c) => c.zcrx_ifname
    BY <1>4, <1>5, <1>6, Zenon DEF NeedsInterface
  <1> DEFINE d == [f \in Used |-> c[f]]
  <1>9. /\ d = [f \in Used |-> d[f]]
        /\ d.mode = c.mode /\ d.udp = c.udp /\ d.port = c.port /\ d.sqpoll = c.sqpoll
        /\ d.fixed_buffers = c.fixed_buffers /\ d.multishot_recv = c.multishot_recv
        /\ d.use_zcrx = c.use_zcrx /\ d.zcrx_ifname = c.zcrx_ifname
        /\ d.reverse = c.reverse
    BY Zenon DEF Used
  <1> HIDE DEF d
  <1>10. Accepted(d)
    BY <1>7, <1>9, Zenon DEF Accepted
  <1> QED
    BY Zenon, <1>8, <1>10 DEF d

--------------------------------------------------------------------------------
(* The way in *)

Fixed == UNCHANGED <<config, thread_id>>

\* A step that keeps the configuration keeps what follows from it.
LEMMA FixedPlan ==
    ASSUME Fixed
    PROVE  /\ Planned' = Planned /\ role' = role /\ ReleaseRank' = ReleaseRank
           /\ Accepted(config)' = Accepted(config) /\ Left' = Left
           /\ PlanRoles' = PlanRoles /\ NeedsInterface(config)' = NeedsInterface(config)
  <1>1. config' = config /\ thread_id' = thread_id
    BY Zenon DEF Fixed
  <1>2. Planned' = Planned /\ role' = role /\ Accepted(config)' = Accepted(config)
    BY Zenon, <1>1 DEF Planned, role
  <1> QED
    BY Zenon, <1>1, <1>2 DEF ReleaseRank, Left, PlanRoles

\* Only calls are planned.
LEMMA PlannedCalls ==
    ASSUME Accepted(config)
    PROVE  Planned \in SUBSET Calls
  <1>1. Makes(SetupRank, SocketSet(config, thread_id) \cup EngineSet(config),
              SocketCalls(config, thread_id) \o EngineCalls(config))
    BY Zenon, Plan
  <1>2. Planned = SocketSet(config, thread_id) \cup EngineSet(config)
    BY Zenon, <1>1 DEF Makes, Planned
  <1>3. /\ SocketSet(config, thread_id) \subseteq SocketStep
        /\ EngineSet(config) \subseteq Calls
    BY Zenon, Plan
  <1> QED
    BY Zenon, <1>2, <1>3 DEF Calls

\* The call at hand: those made come before it, those left after it.
LEMMA Taken ==
    ASSUME StartInv, pc = "setup", todo # <<>>, Fixed, todo' = Tail(todo)
    PROVE  /\ Head(todo) \in Planned /\ Head(todo) \in Range(todo)
           /\ Head(todo) \in Calls /\ Head(todo) \notin Made
           /\ Made' = Made \cup {Head(todo)}
           /\ \A x \in Made : x \in Calls /\ SetupRank[x] < SetupRank[Head(todo)]
           /\ Remaining(SetupRank, Planned, todo)'
           /\ PlanRoles' /\ (NeedsInterface(config) => config.zcrx_ifname)'
           /\ InSetup
  <1>1. InSetup /\ Accepted(config)
    BY Zenon DEF StartInv
  <1>2. Remaining(SetupRank, Planned, todo) /\ PlanRoles
    BY Zenon, <1>1 DEF InSetup
  <1>3. Planned \in SUBSET Calls
    BY Zenon, <1>1, PlannedCalls
  <1>4. /\ Remaining(SetupRank, Planned, Tail(todo))
        /\ Head(todo) \in Range(todo)
        /\ Range(Tail(todo)) = Range(todo) \ {Head(todo)}
        /\ \A x \in Planned \ Range(todo) : SetupRank[x] < SetupRank[Head(todo)]
    BY Zenon, <1>2, <1>3, Ranks, RemainingCalls
  <1>5. Range(todo) \subseteq Planned
    BY Zenon, <1>2 DEF Remaining
  <1>6. /\ Planned' = Planned /\ PlanRoles' /\ SetupRank' = SetupRank
        /\ (NeedsInterface(config) => config.zcrx_ifname)'
    BY Zenon, <1>1, <1>2, FixedPlan DEF Fixed, InSetup, SetupRank
  <1>7. Made' = Made \cup {Head(todo)}
    BY Zenon, <1>4, <1>5, <1>6 DEF Made
  <1>8. Remaining(SetupRank, Planned, todo)'
    BY Zenon, <1>4, <1>6 DEF Remaining, Increasing
  <1>9. /\ Head(todo) \in Planned /\ Head(todo) \in Calls /\ Head(todo) \notin Made
        /\ \A x \in Made : x \in Calls /\ SetupRank[x] < SetupRank[Head(todo)]
    BY Zenon, <1>3, <1>4, <1>5 DEF Made
  <1> QED
    BY Zenon, <1>1, <1>4, <1>6, <1>7, <1>8, <1>9

EngineType == [sqpoll : BOOLEAN, files : BOOLEAN, buffers : BOOLEAN, recv_buf_ring : BOOLEAN]

\* On the way in, InSetup is what is to be shown.
LEMMA StaysInSetup ==
    ASSUME StartInv, pc = "setup", pc' = "setup", UNCHANGED <<args, config, thread_id>>,
           held' \subseteq Resources, engine' \in EngineType,
           supported' \subseteq SetupFlags, flags' \subseteq SetupFlags, InSetup'
    PROVE  StartInv'
  <1>1. Accepted(config)'
    BY Zenon, FixedPlan DEF Fixed, StartInv
  <1>2. pc' \in Outside /\ pc' # "main" /\ pc' # "release" /\ pc' # "done"
        /\ pc' \notin {"aborted", "exited"}
    BY Zenon DEF Outside
  <1>3. args' \in Seq(Options) /\ thread_id' \in Threads
    BY Zenon DEF StartInv
  <1>4. Outside' = Outside /\ Resources' = Resources /\ SetupFlags' = SetupFlags
        /\ Options' = Options
    BY Zenon DEF Outside, Resources, SetupFlags
  <1> QED
    BY Zenon, <1>1, <1>2, <1>3, <1>4 DEF StartInv, EngineType

\* One lemma for each step of a worker on its way in and out: a call for a socket
\* that succeeds,
LEMMA SocketCallStep ==
    ASSUME StartInv, SocketCall
    PROVE  StartInv'
  <1>0. /\ pc = "setup" /\ pc' = "setup" /\ todo # <<>> /\ todo' = Tail(todo) /\ Fixed
        /\ UNCHANGED <<args, config, thread_id, engine, supported, flags>>
        /\ Head(todo) \in SocketStep
        /\ held' = held \cup ({Head(todo)} \cap {"socket"})
    BY Zenon DEF SocketCall, Calling, Fixed
  <1>1. /\ Made' = Made \cup {Head(todo)} /\ InSetup
        /\ Remaining(SetupRank, Planned, todo)' /\ PlanRoles'
        /\ (NeedsInterface(config) => config.zcrx_ifname)'
    BY Zenon, <1>0, Taken
  <1>2. \A x \in Calls \ SocketStep : /\ x \in Made' <=> x \in Made
                                      /\ x \in held' <=> x \in held
    BY Zenon, <1>0, <1>1 DEF SocketStep
  <1>3. {"queue", "files", "buffers", "pool", "buf_ring", "buf_mem"} \subseteq Calls \ SocketStep
    BY Zenon DEF Calls, SocketStep
  <1>4. "socket" \in held' <=> "socket" \in Made'
    BY Zenon, <1>0, <1>1 DEF InSetup
  <1>5. SqpollHonoured'
    BY <1>0, <1>1, <1>2, <1>3, Zenon DEF InSetup, SqpollHonoured
  <1>6. InSetup'
    BY <1>0, <1>1, <1>2, <1>3, <1>4, <1>5, Zenon DEF InSetup
  <1>7. /\ held' \subseteq Resources /\ engine' \in EngineType
        /\ supported' \subseteq SetupFlags /\ flags' \subseteq SetupFlags
    BY Zenon, <1>0 DEF StartInv, Resources, EngineType
  <1> QED
    BY Zenon, <1>0, <1>6, <1>7, StaysInSetup

\* or fails,
LEMMA SocketCallFailsStep ==
    ASSUME StartInv, SocketCallFails
    PROVE  StartInv'
  <1>0. /\ pc = "setup" /\ pc' = "done" /\ todo # <<>> /\ Fixed
        /\ UNCHANGED <<args, config, thread_id, engine, supported, flags>>
        /\ Head(todo) \in SocketStep
        /\ held' = held \ {"socket"}
    BY Zenon DEF SocketCallFails, Calling, Fixed
  <1>1. InSetup /\ Accepted(config) /\ held \subseteq Resources
    BY Zenon, <1>0 DEF StartInv
  <1>2. \A x \in Made : x \in Calls /\ SetupRank[x] < SetupRank[Head(todo)]
    <2>1. Planned \in SUBSET Calls
      BY Zenon, <1>1, PlannedCalls
    <2> QED
      BY Zenon, <1>0, <1>1, <2>1, Ranks, RemainingCalls DEF InSetup, Made
  <1>3. \A x \in {"queue", "files", "buffers", "pool", "buf_ring", "buf_mem"} : x \notin Made
    <2>1. \A x \in SocketStep : SetupRank[x] \in Int /\ SetupRank[x] < 7
      BY SetupOrder DEF SocketStep
    <2>2. \A x \in {"queue", "files", "buffers", "pool", "buf_ring", "buf_mem"} :
             SetupRank[x] \in Int /\ SetupRank[x] >= 7
      BY SetupOrder
    <2> QED
      BY <1>0, <1>2, <2>1, <2>2
  <1>4. held' = {}
    BY Zenon, <1>0, <1>1, <1>3 DEF InSetup, Resources
  <1>5. Accepted(config)' /\ pc' \in Outside
    BY Zenon, <1>0, <1>1, FixedPlan DEF Outside
  <1> QED
    BY Zenon, <1>0, <1>4, <1>5 DEF StartInv

\* the constructor of the engine,
LEMMA ConstructEngineStep ==
    ASSUME StartInv, ConstructEngine
    PROVE  StartInv'
  <1>0. /\ pc = "setup" /\ pc' = "setup" /\ todo # <<>> /\ todo' = Tail(todo) /\ Fixed
        /\ UNCHANGED <<args, config, thread_id>>
        /\ Head(todo) = "queue"
        /\ held' = held \cup {"queue"} /\ supported' \subseteq SetupFlags
        /\ IF Takes(supported', Wanted(config.sqpoll))
           THEN /\ flags' = Wanted(config.sqpoll)
                /\ engine' = [NoEngine EXCEPT !.sqpoll = config.sqpoll]
           ELSE flags' = {} /\ engine' = NoEngine
    BY Zenon DEF ConstructEngine, Calling, Fixed
  <1>1. /\ Made' = Made \cup {"queue"} /\ InSetup
        /\ Remaining(SetupRank, Planned, todo)' /\ PlanRoles'
        /\ (NeedsInterface(config) => config.zcrx_ifname)'
        /\ \A x \in Made : SetupRank[x] < SetupRank["queue"]
    BY Zenon, <1>0, Taken
  <1>2. \A x \in {"files", "buffers", "pool", "buf_ring", "buf_mem"} :
           x \notin Made /\ x \notin Made'
    BY <1>1, SetupOrder
  <1>3. /\ engine' \in EngineType /\ ~engine'.files /\ ~engine'.buffers
        /\ ~engine'.recv_buf_ring
        /\ engine'.sqpoll = (config.sqpoll /\ Takes(supported', Wanted(config.sqpoll)))
    <2>1. config.sqpoll \in BOOLEAN
      BY Zenon DEF StartInv, Accepted
    <2>2. CASE Takes(supported', Wanted(config.sqpoll))
      <3>1. engine' = [NoEngine EXCEPT !.sqpoll = config.sqpoll]
        BY Zenon, <1>0, <2>2
      <3> QED
        BY Zenon, <2>1, <2>2, <3>1 DEF NoEngine, EngineType
    <2>3. CASE ~Takes(supported', Wanted(config.sqpoll))
      <3>1. engine' = NoEngine
        BY Zenon, <1>0, <2>3
      <3> QED
        BY Zenon, <2>1, <2>3, <3>1 DEF NoEngine, EngineType
    <2> QED
      BY Zenon, <2>2, <2>3
  <1>4. SqpollHonoured' /\ flags' \subseteq SetupFlags
    <2>1. config.sqpoll \in BOOLEAN
      BY Zenon DEF StartInv, Accepted
    <2>2. CASE config.sqpoll
      <3>1. Wanted(config.sqpoll) = {"SINGLE_ISSUER", "SQPOLL"}
        BY Zenon, <2>2 DEF Wanted
      <3> QED
        BY Zenon, <1>0, <1>3, <2>2, <3>1 DEF SqpollHonoured, Takes, SetupFlags
    <2>3. CASE ~config.sqpoll
      <3>1. Wanted(config.sqpoll) = {"SINGLE_ISSUER", "COOP_TASKRUN"}
        BY Zenon, <2>3 DEF Wanted
      <3> QED
        BY Zenon, <1>0, <1>3, <2>3, <3>1 DEF SqpollHonoured, Takes, SetupFlags
    <2> QED
      BY Zenon, <2>2, <2>3
  <1>5. /\ \A x \in {"socket", "files", "buffers", "pool", "buf_ring", "buf_mem"} :
              x \in held' <=> x \in held
        /\ "queue" \in held' /\ "queue" \in Made' /\ ("socket" \in Made' <=> "socket" \in Made)
    BY Zenon, <1>0, <1>1
  <1>6. InSetup'
    BY <1>1, <1>2, <1>3, <1>4, <1>5, Zenon DEF InSetup
  <1>7. held' \subseteq Resources
    BY Zenon, <1>0 DEF StartInv, Resources
  <1> QED
    BY Zenon, <1>0, <1>3, <1>4, <1>6, <1>7, StaysInSetup

\* a registration,
LEMMA RegisterStep ==
    ASSUME StartInv, Register
    PROVE  StartInv'
  <1>0. /\ pc = "setup" /\ pc' = "setup" /\ todo # <<>> /\ todo' = Tail(todo) /\ Fixed
        /\ UNCHANGED <<args, config, thread_id, supported, flags>>
        /\ Head(todo) \in {"files", "buffers"}
    BY Zenon DEF Register, Calling, Fixed
  <1>h. PICK ok \in BOOLEAN : /\ held' = IF ok THEN held \cup {Head(todo)} ELSE held
                              /\ engine' = [engine EXCEPT ![Head(todo)] = ok]
    BY Zenon DEF Register
  <1>1. /\ Made' = Made \cup {Head(todo)} /\ InSetup /\ Head(todo) \notin Made
        /\ Remaining(SetupRank, Planned, todo)' /\ PlanRoles'
        /\ (NeedsInterface(config) => config.zcrx_ifname)'
    BY Zenon, <1>0, Taken
  <1>2. engine \in EngineType /\ held \subseteq Resources
    BY Zenon DEF StartInv, EngineType
  <1>3. /\ engine' \in EngineType /\ engine'.sqpoll = engine.sqpoll
        /\ engine'.recv_buf_ring = engine.recv_buf_ring
        /\ engine'.files = IF Head(todo) = "files" THEN ok ELSE engine.files
        /\ engine'.buffers = IF Head(todo) = "buffers" THEN ok ELSE engine.buffers
    BY Zenon, <1>0, <1>h, <1>2 DEF EngineType
  <1>4. /\ \A x \in {"socket", "queue", "pool", "buf_ring", "buf_mem"} :
              (x \in held' <=> x \in held) /\ (x \in Made' <=> x \in Made)
        /\ Head(todo) \notin held /\ (Head(todo) \in held' <=> ok) /\ Head(todo) \in Made'
        /\ \A x \in {"files", "buffers"} \ {Head(todo)} :
              (x \in held' <=> x \in held) /\ (x \in Made' <=> x \in Made)
    BY Zenon, <1>0, <1>h, <1>1 DEF InSetup
  <1>5. SqpollHonoured'
    BY <1>0, <1>1, <1>3, <1>4, Zenon DEF InSetup, SqpollHonoured
  <1>6. InSetup'
    <2>1. CASE Head(todo) = "files"
      BY Zenon, <1>1, <1>3, <1>4, <1>5, <2>1 DEF InSetup
    <2>2. CASE Head(todo) = "buffers"
      BY Zenon, <1>1, <1>3, <1>4, <1>5, <2>2 DEF InSetup
    <2> QED
      BY Zenon, <1>0, <2>1, <2>2
  <1>7. /\ held' \subseteq Resources
        /\ supported' \subseteq SetupFlags /\ flags' \subseteq SetupFlags
    BY Zenon, <1>0, <1>h, <1>2 DEF StartInv, Resources
  <1> QED
    BY Zenon, <1>0, <1>3, <1>6, <1>7, StaysInSetup

\* the buffer pool,
LEMMA AllocatePoolStep ==
    ASSUME StartInv, AllocatePool
    PROVE  StartInv'
  <1>0. /\ pc = "setup" /\ pc' = "setup" /\ todo # <<>> /\ todo' = Tail(todo) /\ Fixed
        /\ UNCHANGED <<args, config, thread_id, engine, supported, flags>>
        /\ Head(todo) = "pool"
        /\ held' = IF engine.recv_buf_ring THEN held ELSE held \cup {"pool"}
    BY Zenon DEF AllocatePool, Calling, Fixed
  <1>1. /\ Made' = Made \cup {"pool"} /\ InSetup /\ "pool" \notin Made
        /\ Remaining(SetupRank, Planned, todo)' /\ PlanRoles'
        /\ (NeedsInterface(config) => config.zcrx_ifname)'
    BY Zenon, <1>0, Taken
  <1>2. \A x \in {"socket", "queue", "files", "buffers", "buf_ring", "buf_mem"} :
           (x \in held' <=> x \in held) /\ (x \in Made' <=> x \in Made)
    BY Zenon, <1>0, <1>1
  <1>3. "pool" \in held' <=> "pool" \in Made' /\ ~engine.recv_buf_ring
    BY Zenon, <1>0, <1>1 DEF InSetup
  <1>4. SqpollHonoured'
    BY <1>0, <1>1, <1>2, Zenon DEF InSetup, SqpollHonoured
  <1>5. InSetup'
    BY <1>0, <1>1, <1>2, <1>3, <1>4, Zenon DEF InSetup
  <1>6. /\ held' \subseteq Resources /\ engine' \in EngineType
        /\ supported' \subseteq SetupFlags /\ flags' \subseteq SetupFlags
    BY Zenon, <1>0 DEF StartInv, Resources, EngineType
  <1> QED
    BY Zenon, <1>0, <1>5, <1>6, StaysInSetup

\* Without a ring, setup_multishot_recv() makes none of its calls left, which is
\* the one for the memory.
LEMMA SkipsMemory ==
    ASSUME StartInv, pc = "setup", todo # <<>>, Head(todo) = "buf_ring", Fixed,
           todo' = Tail(Tail(todo))
    PROVE  /\ Made' = Made \cup {"buf_ring", "buf_mem"}
           /\ Remaining(SetupRank, Planned, todo)'
           /\ PlanRoles' /\ (NeedsInterface(config) => config.zcrx_ifname)'
  <1>1. InSetup /\ Accepted(config) /\ PlanRoles /\ Remaining(SetupRank, Planned, todo)
    BY Zenon DEF StartInv, InSetup
  <1>2. Planned \in SUBSET Calls
    BY Zenon, <1>1, PlannedCalls
  <1> DEFINE t == Tail(todo)
  <1>3. /\ Remaining(SetupRank, Planned, t)
        /\ "buf_ring" \in Range(todo)
        /\ Range(t) = Range(todo) \ {"buf_ring"}
        /\ \A y \in Range(todo) \ {"buf_ring"} : SetupRank["buf_ring"] < SetupRank[y]
        /\ \A x \in Planned \ Range(todo) : SetupRank[x] < SetupRank["buf_ring"]
    BY Zenon, <1>1, <1>2, Ranks, RemainingCalls
  <1>4. Range(todo) \subseteq Planned /\ "buf_mem" \in Planned
    BY Zenon, <1>1, <1>3 DEF Remaining, PlanRoles
  <1>5. "buf_mem" \in Range(t)
    BY <1>3, <1>4, SetupOrder
  <1>6. t # <<>>
    BY <1>5 DEF Range
  <1> HIDE DEF t
  <1>7. /\ Remaining(SetupRank, Planned, Tail(t))
        /\ Head(t) \in Range(t)
        /\ Range(Tail(t)) = Range(t) \ {Head(t)}
        /\ \A y \in Range(t) \ {Head(t)} : SetupRank[Head(t)] < SetupRank[y]
    BY Zenon, <1>2, <1>3, <1>6, Ranks, RemainingCalls
  <1>8. Head(t) = "buf_mem"
    <2> SUFFICES ASSUME Head(t) # "buf_mem" PROVE FALSE
      BY Zenon
    <2>1. SetupRank[Head(t)] < 9 /\ SetupRank[Head(t)] > 8 /\ Head(t) \in Calls
      BY Zenon, <1>2, <1>3, <1>4, <1>5, <1>7, SetupOrder
    <2>2. SetupRank[Head(t)] \in Int
      BY Zenon, <2>1, Ranks
    <2> QED
      BY <2>1, <2>2
  <1>9. Planned' = Planned /\ PlanRoles' /\ (NeedsInterface(config) => config.zcrx_ifname)'
    BY Zenon, <1>1, FixedPlan DEF Fixed, InSetup
  <1>10. todo' = Tail(t)
    BY Zenon DEF t
  <1>11. Made' = Made \cup {"buf_ring", "buf_mem"}
    BY Zenon, <1>3, <1>4, <1>7, <1>8, <1>9, <1>10 DEF Made
  <1>12. Remaining(SetupRank, Planned, todo)'
    BY Zenon, <1>7, <1>9, <1>10 DEF Remaining, Increasing
  <1> QED
    BY Zenon, <1>9, <1>11, <1>12

\* the ring of provided buffers,
LEMMA SetupBufRingStep ==
    ASSUME StartInv, SetupBufRing
    PROVE  StartInv'
  <1>0. /\ pc = "setup" /\ pc' = "setup" /\ todo # <<>> /\ Fixed
        /\ UNCHANGED <<args, config, thread_id, supported, flags>>
        /\ Head(todo) = "buf_ring"
    BY Zenon DEF SetupBufRing, Calling, Fixed
  <1>h. PICK ok \in BOOLEAN : /\ held' = IF ok THEN held \cup {"buf_ring"} ELSE held
                              /\ engine' = [engine EXCEPT !.recv_buf_ring = ok]
                              /\ todo' = IF ok THEN Tail(todo) ELSE Tail(Tail(todo))
    BY Zenon DEF SetupBufRing
  <1>1. engine \in EngineType /\ held \subseteq Resources /\ InSetup /\ Accepted(config)
    BY Zenon, <1>0 DEF StartInv, EngineType
  <1>2. \A x \in Made : SetupRank[x] < SetupRank["buf_ring"]
    <2>1. Planned \in SUBSET Calls
      BY Zenon, <1>1, PlannedCalls
    <2> QED
      BY Zenon, <1>0, <1>1, <2>1, Ranks, RemainingCalls DEF InSetup, Made
  <1>3. \A x \in {"buf_ring", "files", "buffers", "pool", "buf_mem"} :
           x \notin Made /\ x \notin held
    <2>1. \A x \in {"buf_ring", "files", "buffers", "pool", "buf_mem"} : x \notin Made
      BY <1>2, SetupOrder
    <2> QED
      BY Zenon, <1>1, <2>1 DEF InSetup
  <1>4. /\ engine' \in EngineType /\ engine'.sqpoll = engine.sqpoll
        /\ engine'.files = engine.files /\ engine'.buffers = engine.buffers
        /\ engine'.recv_buf_ring = ok
    BY Zenon, <1>h, <1>1 DEF EngineType
  <1>5. /\ Made' = Made \cup {"buf_ring"} \cup (IF ok THEN {} ELSE {"buf_mem"})
        /\ Remaining(SetupRank, Planned, todo)' /\ PlanRoles'
        /\ (NeedsInterface(config) => config.zcrx_ifname)'
    <2>1. CASE ok
      <3>1. todo' = Tail(todo)
        BY Zenon, <1>h, <2>1
      <3>2. /\ Made' = Made \cup {Head(todo)}
            /\ Remaining(SetupRank, Planned, todo)' /\ PlanRoles'
            /\ (NeedsInterface(config) => config.zcrx_ifname)'
        BY Zenon, <1>0, <3>1, Taken
      <3> QED
        BY Zenon, <1>0, <2>1, <3>2
    <2>2. CASE ~ok
      <3>1. todo' = Tail(Tail(todo))
        BY Zenon, <1>h, <2>2
      <3>2. /\ Made' = Made \cup {"buf_ring", "buf_mem"}
            /\ Remaining(SetupRank, Planned, todo)' /\ PlanRoles'
            /\ (NeedsInterface(config) => config.zcrx_ifname)'
        BY Zenon, <1>0, <3>1, SkipsMemory
      <3> QED
        BY Zenon, <2>2, <3>2
    <2> QED
      BY Zenon, <2>1, <2>2
  <1>6. /\ \A x \in {"socket", "queue", "files", "buffers", "pool"} :
              (x \in held' <=> x \in held) /\ (x \in Made' <=> x \in Made)
        /\ "buf_ring" \in held' <=> ok
        /\ "buf_mem" \notin held' /\ "buf_ring" \in Made' /\ ("buf_mem" \in Made' <=> ~ok)
    BY Zenon, <1>h, <1>3, <1>5
  <1>7. SqpollHonoured'
    BY <1>0, <1>1, <1>4, <1>6, Zenon DEF InSetup, SqpollHonoured
  <1>8. InSetup'
    BY <1>1, <1>3, <1>4, <1>5, <1>6, <1>7, Zenon DEF InSetup
  <1>9. /\ held' \subseteq Resources
        /\ supported' \subseteq SetupFlags /\ flags' \subseteq SetupFlags
    BY Zenon, <1>0, <1>h, <1>1 DEF StartInv, Resources
  <1> QED
    BY Zenon, <1>0, <1>4, <1>8, <1>9, StaysInSetup

\* its memory,
LEMMA SetupBufMemStep ==
    ASSUME StartInv, SetupBufMem
    PROVE  StartInv'
  <1>0. /\ pc = "setup" /\ pc' = "setup" /\ todo # <<>> /\ todo' = Tail(todo) /\ Fixed
        /\ UNCHANGED <<args, config, thread_id, supported, flags>>
        /\ Head(todo) = "buf_mem"
    BY Zenon DEF SetupBufMem, AllocateBufMem, Calling, Fixed
  <1>h. PICK ok \in BOOLEAN :
           /\ held' = IF ok THEN held \cup {"buf_mem"} ELSE held \ {"buf_ring"}
           /\ engine' = [engine EXCEPT !.recv_buf_ring = ok]
    BY Zenon DEF SetupBufMem, AllocateBufMem
  <1>1. engine \in EngineType /\ held \subseteq Resources /\ InSetup /\ PlanRoles
    BY Zenon, <1>0 DEF StartInv, EngineType, InSetup
  <1>2. /\ Made' = Made \cup {"buf_mem"} /\ "buf_mem" \notin Made /\ "buf_mem" \in Planned
        /\ Remaining(SetupRank, Planned, todo)' /\ PlanRoles'
        /\ (NeedsInterface(config) => config.zcrx_ifname)'
        /\ \A x \in Made : SetupRank[x] < SetupRank["buf_mem"]
    BY Zenon, <1>0, Taken
  <1>3. "buf_ring" \in Made
    <2>1. "buf_ring" \in Planned
      BY Zenon, <1>1, <1>2 DEF PlanRoles
    <2> SUFFICES ASSUME "buf_ring" \in Range(todo) PROVE FALSE
      BY Zenon, <2>1 DEF Made
    <2>2. Planned \in SUBSET Calls
      BY Zenon, PlannedCalls DEF StartInv
    <2>3. SetupRank["buf_mem"] < SetupRank["buf_ring"]
      BY Zenon, <1>0, <1>1, <2>2, Ranks, RemainingCalls DEF InSetup
    <2> QED
      BY <2>3, SetupOrder
  <1>4. /\ engine.recv_buf_ring /\ "buf_ring" \in held
        /\ \A x \in {"files", "buffers", "pool"} : x \notin Made /\ x \notin held
    <2>1. \A x \in {"files", "buffers", "pool"} : x \notin Made
      BY <1>2, SetupOrder
    <2> QED
      BY Zenon, <1>1, <1>2, <1>3, <2>1 DEF InSetup
  <1>5. /\ engine' \in EngineType /\ engine'.sqpoll = engine.sqpoll
        /\ engine'.files = engine.files /\ engine'.buffers = engine.buffers
        /\ engine'.recv_buf_ring = ok
    BY Zenon, <1>h, <1>1 DEF EngineType
  <1>6. /\ \A x \in {"socket", "queue", "files", "buffers", "pool"} :
              (x \in held' <=> x \in held) /\ (x \in Made' <=> x \in Made)
        /\ "buf_ring" \in held' <=> ok
        /\ "buf_mem" \in held' <=> ok
        /\ "buf_mem" \in Made' /\ "buf_ring" \in Made'
    <2>1. "buf_mem" \notin held
      BY Zenon, <1>1, <1>2 DEF InSetup
    <2> QED
      BY Zenon, <1>h, <1>2, <1>3, <1>4, <2>1
  <1>7. SqpollHonoured'
    BY <1>0, <1>1, <1>5, <1>6, Zenon DEF InSetup, SqpollHonoured
  <1>8. InSetup'
    BY <1>1, <1>2, <1>4, <1>5, <1>6, <1>7, Zenon DEF InSetup
  <1>9. /\ held' \subseteq Resources
        /\ supported' \subseteq SetupFlags /\ flags' \subseteq SetupFlags
    BY Zenon, <1>0, <1>h, <1>1 DEF StartInv, Resources
  <1> QED
    BY Zenon, <1>0, <1>5, <1>8, <1>9, StaysInSetup

\* a constructor that throws,
LEMMA ConstructThrowsStep ==
    ASSUME StartInv, ConstructThrows
    PROVE  StartInv'
  <1>1. /\ pc' = "aborted" /\ held' = {} /\ Fixed
        /\ UNCHANGED <<args, config, thread_id, engine, supported, flags>>
    BY Zenon DEF ConstructThrows, Fixed
  <1>2. Accepted(config)' /\ pc' \in Outside
    BY Zenon, <1>1, FixedPlan DEF StartInv, Outside
  <1> QED
    BY Zenon, <1>1, <1>2 DEF StartInv

\* The configuration the thread keeps has the same plan.
LEMMA SamePlan ==
    ASSUME NEW c, NEW i, NEW d, d = [f \in Used |-> c[f]]
    PROVE  /\ SocketCalls(d, i) = SocketCalls(c, i) /\ EngineCalls(d) = EngineCalls(c)
           /\ NeedsInterface(d) = NeedsInterface(c) /\ d.zcrx_ifname = c.zcrx_ifname
  <1>1. /\ d.mode = c.mode /\ d.udp = c.udp /\ d.port = c.port /\ d.reverse = c.reverse
        /\ d.fixed_buffers = c.fixed_buffers /\ d.multishot_recv = c.multishot_recv
        /\ d.use_zcrx = c.use_zcrx /\ d.zcrx_ifname = c.zcrx_ifname
    BY Zenon DEF Used
  <1>2. local_bind_port(d, i) = local_bind_port(c, i) /\ Role(d) = Role(c)
    <2>1. local_bind_port(d, i) = local_bind_port(c, i)
      <3>1. CASE c.use_zcrx /\ c.reverse
        <4> DEFINE port(n) == uint16_t(n + uint16_t(i))
        <4>1. local_bind_port(d, i) = port(d.port) /\ local_bind_port(c, i) = port(c.port)
          BY <1>1, <3>1, Zenon DEF local_bind_port
        <4> HIDE DEF port
        <4> QED
          BY <1>1, <4>1, Zenon
      <3>2. CASE ~(c.use_zcrx /\ c.reverse)
        BY <1>1, <3>2, Zenon DEF local_bind_port
      <3> QED
        BY Zenon, <3>1, <3>2
    <2>2. Role(d) = Role(c)
      BY <1>1, Zenon DEF Role
    <2> QED
      BY Zenon, <2>1, <2>2
  <1>3. SocketCalls(d, i) = SocketCalls(c, i)
    BY <1>1, <1>2 DEF SocketCalls
  <1>4. EngineCalls(d) = EngineCalls(c)
    BY Zenon, <1>1, <1>2 DEF EngineCalls, ClientCalls, ReverseCalls, ServerCalls
  <1>5. NeedsInterface(d) = NeedsInterface(c)
    BY Zenon, <1>1 DEF NeedsInterface
  <1> QED
    BY Zenon, <1>1, <1>3, <1>4, <1>5

\* main(), which reads the command line and starts the worker,
LEMMA MainStep ==
    ASSUME StartInv, Main
    PROVE  StartInv'
  <1>c. PICK c : /\ c = parse_args(args)
                 /\ \/ /\ c.exit # "none"
                       /\ pc' = "exited"
                       /\ UNCHANGED <<config, thread_id, todo>>
                    \/ /\ c.exit = "none"
                       /\ \E i \in Threads :
                             /\ i < c.threads
                             /\ thread_id' = i
                             /\ config' = [f \in Used |-> c[f]]
                             /\ todo' = SocketCalls(c, i) \o EngineCalls(c)
                       /\ pc' = "setup"
    BY Zenon DEF Main
  <1>0. /\ pc = "main" /\ args' = <<>> /\ UNCHANGED <<held, engine, supported, flags>>
    BY Zenon DEF Main
  <1>1. /\ args \in Seq(Options) /\ thread_id \in Threads /\ held = {} /\ engine = NoEngine
        /\ Accepted(config) /\ args' \in Seq(Options) /\ held' = {} /\ engine' = NoEngine
        /\ supported' \subseteq SetupFlags /\ flags' \subseteq SetupFlags
    BY <1>0 DEF StartInv
  <1>2. engine' \in EngineType /\ held' \subseteq Resources
    BY Zenon, <1>1 DEF NoEngine, EngineType
  <1>3. CASE pc' = "exited" /\ UNCHANGED <<config, thread_id, todo>>
    <2>1. Accepted(config)' /\ thread_id' \in Threads /\ pc' \in Outside
      BY Zenon, <1>1, <1>3, FixedPlan DEF Fixed, Outside
    <2> QED
      BY Zenon, <1>1, <1>2, <1>3, <2>1 DEF StartInv, EngineType
  <1>4. CASE c.exit = "none" /\ pc' = "setup"
    <2>1. PICK i \in Threads : /\ thread_id' = i /\ config' = [f \in Used |-> c[f]]
                               /\ todo' = SocketCalls(c, i) \o EngineCalls(c)
      BY Zenon, <1>c, <1>4
    <2>2. Accepted(config') /\ (NeedsInterface(c) => c.zcrx_ifname)
      BY Zenon, <1>c, <1>1, <1>4, <2>1, ParseOutcome
    <2>3. /\ SocketCalls(config', i) = SocketCalls(c, i) /\ EngineCalls(config') = EngineCalls(c)
          /\ NeedsInterface(config') => config'.zcrx_ifname
      BY Zenon, <2>1, <2>2, SamePlan
    <2> DEFINE A == SocketSet(config', i)
               B == EngineSet(config')
    <2>4. /\ Makes(SetupRank, A \cup B, todo')
          /\ A \subseteq SocketStep /\ "socket" \in A /\ B \subseteq Calls \ SocketStep
          /\ "queue" \in B <=> Role(config') \in EngineRoles
          /\ "files" \in B <=> Role(config') \in {"client", "server_udp"}
          /\ "pool" \in B <=> Role(config') \in EngineRoles \ {"server_tcp"}
          /\ "buffers" \in B => Role(config') = "client"
          /\ "buf_mem" \in B => Role(config') \in EngineRoles \ {"client"}
          /\ "buf_ring" \in B <=> "buf_mem" \in B
      BY Zenon, <2>1, <2>2, <2>3, Plan
    <2> HIDE DEF A, B
    <2>5. /\ todo' \in Seq(Calls) /\ Increasing(SetupRank, todo') /\ Range(todo') = A \cup B
      BY Zenon, <2>4 DEF Makes
    <2>6. Planned' = Range(todo') /\ role' = Role(config')
      BY Zenon, <2>1, <2>3 DEF Planned, role
    <2>7. Remaining(SetupRank, Planned, todo)'
      BY Zenon, <2>5, <2>6 DEF Remaining, Increasing
    <2>8. \A x \in {"queue", "files", "pool", "buffers", "buf_mem", "buf_ring"} :
             x \in Planned' <=> x \in B
      BY Zenon, <2>4, <2>5, <2>6 DEF SocketStep
    <2>9. PlanRoles'
      BY Zenon, <2>4, <2>5, <2>6, <2>8 DEF PlanRoles
    <2>10. Made' = {}
      BY Zenon, <2>6 DEF Made
    <2>11. ~engine'.files /\ ~engine'.buffers /\ ~engine'.recv_buf_ring
      BY Zenon, <1>1 DEF NoEngine
    <2>12. SqpollHonoured'
      BY Zenon, <1>1 DEF SqpollHonoured
    <2>13. InSetup'
      BY <1>1, <2>3, <2>7, <2>9, <2>10, <2>11, <2>12, Zenon DEF InSetup
    <2>14. pc' \in Outside
      BY Zenon, <1>4 DEF Outside
    <2> QED
      BY Zenon, <1>1, <1>2, <1>4, <2>1, <2>2, <2>13, <2>14 DEF StartInv, EngineType
  <1> QED
    BY Zenon, <1>c, <1>3, <1>4

\* the end of the setup,
LEMMA ReadyStep ==
    ASSUME StartInv, Ready
    PROVE  StartInv'
  <1>0. /\ pc = "setup" /\ todo = <<>> /\ pc' = "start"
        /\ UNCHANGED <<args, thread_id, todo, held>>
        /\ engine' = [engine EXCEPT !.sqpoll = FALSE]
        /\ supported' = {} /\ flags' = {}
    BY Zenon DEF Ready
  <1>1. /\ engine \in EngineType /\ held \subseteq Resources
        /\ InSetup /\ Accepted(config) /\ PlanRoles
    BY Zenon, <1>0 DEF StartInv, EngineType, InSetup
  <1>2. /\ engine' \in EngineType /\ engine'.files = engine.files
        /\ engine'.buffers = engine.buffers /\ engine'.recv_buf_ring = engine.recv_buf_ring
    BY Zenon, <1>0, <1>1 DEF EngineType
  <1>3. /\ config' = [f \in Used |-> config'[f]]
        /\ config'.mode = config.mode /\ config'.udp = config.udp
        /\ config'.reverse = config.reverse /\ config'.use_zcrx = config.use_zcrx
        /\ config'.sqpoll = FALSE /\ config'.multishot_recv = FALSE
        /\ config'.fixed_buffers = FALSE /\ config'.zcrx_ifname = FALSE /\ config'.port = 0
    BY Zenon, ReadyKind
  <1>4. Accepted(config)'
    <2>1. 0 \in Port
      BY DEF Port
    <2> QED
      BY <1>1, <1>3, <2>1, Zenon DEF Accepted
  <1>5. role' = role
    BY Zenon, ReadyKind
  <1>6. Made = Planned
    BY <1>0 DEF Made, Range
  <1>7. InLoop'
    BY Zenon, <1>0, <1>1, <1>2, <1>5, <1>6 DEF InLoop, InSetup, PlanRoles
  <1>8. pc' \notin {"main", "setup", "release", "done", "aborted", "exited"}
    BY Zenon, <1>0
  <1> QED
    BY Zenon, <1>0, <1>1, <1>2, <1>3, <1>4, <1>5, <1>7, <1>8 DEF StartInv, EngineType

--------------------------------------------------------------------------------
(* The loop, and the way out *)

\* A step of the loop.
LEMMA LoopStep ==
    ASSUME StartInv, pc \notin Outside, pc' \notin Outside, UNCHANGED startVars
    PROVE  StartInv'
  <1>1. /\ config' = config /\ thread_id' = thread_id /\ todo' = todo /\ held' = held
        /\ engine' = engine /\ args' = args /\ supported' = supported /\ flags' = flags
    BY Zenon DEF startVars
  <1>2. role' = role /\ Accepted(config)'
    BY Zenon, <1>1, FixedPlan DEF Fixed, StartInv
  <1>3. InLoop'
    BY Zenon, <1>1, <1>2 DEF StartInv, InLoop
  <1>4. pc' \notin {"main", "setup", "release", "done", "aborted", "exited"}
    BY Zenon DEF Outside
  <1> QED
    BY Zenon, <1>1, <1>2, <1>3, <1>4 DEF StartInv

\* and a step that changes none of it.
LEMMA StutterStep ==
    ASSUME StartInv, UNCHANGED <<pc, startVars>>
    PROVE  StartInv'
  <1>1. /\ config' = config /\ thread_id' = thread_id /\ todo' = todo /\ held' = held /\ pc' = pc
        /\ engine' = engine /\ args' = args /\ supported' = supported /\ flags' = flags
    BY Zenon DEF startVars
  <1>2. /\ role' = role /\ Accepted(config)' /\ Planned' = Planned /\ Left' = Left
        /\ ReleaseRank' = ReleaseRank /\ PlanRoles' = PlanRoles
        /\ NeedsInterface(config)' = NeedsInterface(config)
    BY Zenon, <1>1, FixedPlan DEF Fixed, StartInv
  <1>3. InLoop' = InLoop
    BY Zenon, <1>1, <1>2 DEF InLoop
  <1>4. InRelease' = InRelease
    BY Zenon, <1>1, <1>2 DEF InRelease, Increasing
  <1>5. SqpollHonoured' = SqpollHonoured /\ Made' = Made
    BY Zenon, <1>1, <1>2 DEF SqpollHonoured, Made
  <1>6. Remaining(SetupRank, Planned, todo)' = Remaining(SetupRank, Planned, todo)
    BY Zenon, <1>1, <1>2 DEF Remaining, Increasing
  <1>7. InSetup' = InSetup
    BY Zenon, <1>1, <1>2, <1>5, <1>6 DEF InSetup
  <1> QED
    BY Zenon, <1>1, <1>2, <1>3, <1>4, <1>7 DEF StartInv

DestructorSet ==
    Only(engine.buffers, {"buffers"}) \cup Only(engine.files, {"files"})
        \cup Only(engine.recv_buf_ring, {"buf_ring", "buf_mem"}) \cup {"queue"}

ReleaseSet ==
    CASE role = "client" -> {"socket", "pool"} \cup DestructorSet
      [] role = "client_reverse" ->
             Only(~engine.recv_buf_ring, {"pool"}) \cup DestructorSet \cup {"socket"}
      [] role \in {"server_tcp", "server_udp"} -> {"socket"} \cup DestructorSet
      [] OTHER -> {"socket"}

\* ~UringEngine() and the function before it release in the order of ReleaseRank.
LEMMA ReleasePlan ==
    ASSUME engine \in EngineType, Accepted(config)
    PROVE  Makes(ReleaseRank, ReleaseSet, Releases)
  <1> DEFINE R == ReleaseRank
             M(A, s) == Makes(R, A, s)
             e == engine
             D == DestructorSet
             rb == {"buf_ring", "buf_mem"}
  <1>0. /\ R \in [Calls -> Int]
        /\ e.buffers \in BOOLEAN /\ e.files \in BOOLEAN /\ e.recv_buf_ring \in BOOLEAN
        /\ (~e.recv_buf_ring) \in BOOLEAN
        /\ {"socket", "queue", "buf_ring", "buf_mem", "files", "pool", "buffers"} \subseteq Calls
    BY Zenon, Ranks DEF EngineType, Calls, SocketStep
  <1>1. /\ R["pool"] < R["buffers"] /\ R["pool"] < R["files"] /\ R["pool"] < R["buf_ring"]
        /\ R["pool"] < R["buf_mem"] /\ R["pool"] < R["queue"]
        /\ R["buffers"] < R["files"] /\ R["buffers"] < R["buf_ring"]
        /\ R["buffers"] < R["buf_mem"] /\ R["buffers"] < R["queue"]
        /\ R["files"] < R["buf_ring"] /\ R["files"] < R["buf_mem"] /\ R["files"] < R["queue"]
        /\ R["buf_ring"] < R["buf_mem"] /\ R["buf_ring"] < R["queue"]
        /\ R["buf_mem"] < R["queue"]
    BY ReleaseOrder
  <1>2. /\ role = "client_reverse" =>
              \A x \in {"pool", "buffers", "files", "buf_ring", "buf_mem", "queue"} :
                 R[x] < R["socket"]
        /\ role # "client_reverse" =>
              \A x \in {"pool", "buffers", "files", "buf_ring", "buf_mem", "queue"} :
                 R["socket"] < R[x]
    BY ReleaseOrder
  <1> HIDE DEF R
  <1>3. M(D, Destructor)
    <2>1. /\ M(Only(e.buffers, {"buffers"}), If(e.buffers, <<"buffers">>))
          /\ M(Only(e.files, {"files"}), If(e.files, <<"files">>))
          /\ M({"queue"}, <<"queue">>)
      BY Zenon, <1>0, MakesOne, MakesIf DEF Only
    <2>2. M(rb, <<"buf_ring", "buf_mem">>)
      BY Zenon, <1>0, <1>1, MakesTwo
    <2>3. M(Only(e.recv_buf_ring, rb), If(e.recv_buf_ring, <<"buf_ring", "buf_mem">>))
      BY Zenon, <1>0, <2>2, MakesIf DEF Only
    <2>4. M(Only(e.buffers, {"buffers"}) \cup Only(e.files, {"files"}),
            If(e.buffers, <<"buffers">>) \o If(e.files, <<"files">>))
      <3>1. \A x \in Only(e.buffers, {"buffers"}), y \in Only(e.files, {"files"}) : R[x] < R[y]
        BY Zenon, <1>1 DEF Only
      <3> QED
        BY Zenon, <1>0, <2>1, <3>1, MakesConcat
    <2>5. M(Only(e.buffers, {"buffers"}) \cup Only(e.files, {"files"})
                \cup Only(e.recv_buf_ring, rb),
            If(e.buffers, <<"buffers">>) \o If(e.files, <<"files">>)
                \o If(e.recv_buf_ring, <<"buf_ring", "buf_mem">>))
      <3>1. \A x \in Only(e.buffers, {"buffers"}) \cup Only(e.files, {"files"}),
               y \in Only(e.recv_buf_ring, rb) : R[x] < R[y]
        BY Zenon, <1>1 DEF Only
      <3> QED
        BY Zenon, <1>0, <2>3, <2>4, <3>1, MakesConcat
    <2>6. \A x \in Only(e.buffers, {"buffers"}) \cup Only(e.files, {"files"})
                       \cup Only(e.recv_buf_ring, rb),
             y \in {"queue"} : R[x] < R[y]
      BY Zenon, <1>1 DEF Only
    <2>7. M(Only(e.buffers, {"buffers"}) \cup Only(e.files, {"files"})
                \cup Only(e.recv_buf_ring, rb) \cup {"queue"},
            If(e.buffers, <<"buffers">>) \o If(e.files, <<"files">>)
                \o If(e.recv_buf_ring, <<"buf_ring", "buf_mem">>) \o <<"queue">>)
      BY Zenon, <1>0, <2>1, <2>5, <2>6, MakesConcat
    <2> QED
      BY Zenon, <2>7 DEF DestructorSet, Destructor
  <1>4. D \subseteq {"buffers", "files", "buf_ring", "buf_mem", "queue"}
    BY Zenon DEF DestructorSet, Only
  <1>5. CASE role = "client"
    <2>1. M({"socket", "pool"}, <<"socket", "pool">>)
      BY Zenon, <1>0, <1>2, <1>5, MakesTwo
    <2>2. \A x \in {"socket", "pool"}, y \in D : R[x] < R[y]
      BY Zenon, <1>1, <1>2, <1>4, <1>5
    <2>3. M({"socket", "pool"} \cup D, <<"socket", "pool">> \o Destructor)
      BY Zenon, <1>0, <1>3, <2>1, <2>2, MakesConcat
    <2> QED
      BY Zenon, <1>5, <2>3 DEF R, ReleaseSet, Releases
  <1>6. CASE role = "client_reverse"
    <2> DEFINE P == Only(~e.recv_buf_ring, {"pool"})
               p == If(~e.recv_buf_ring, <<"pool">>)
    <2>1. M(P, p) /\ M({"socket"}, <<"socket">>)
      BY Zenon, <1>0, MakesOne, MakesIf DEF Only
    <2>2. \A x \in P, y \in D : R[x] < R[y]
      BY Zenon, <1>1, <1>4 DEF Only
    <2>3. M(P \cup D, p \o Destructor)
      BY Zenon, <1>0, <1>3, <2>1, <2>2, MakesConcat
    <2>4. \A x \in P \cup D, y \in {"socket"} : R[x] < R[y]
      BY Zenon, <1>2, <1>4, <1>6 DEF Only
    <2>5. M(P \cup D \cup {"socket"}, p \o Destructor \o <<"socket">>)
      BY Zenon, <1>0, <2>1, <2>3, <2>4, MakesConcat
    <2> QED
      BY Zenon, <1>6, <2>5 DEF R, ReleaseSet, Releases
  <1>7. CASE role \in {"server_tcp", "server_udp"}
    <2>1. M({"socket"}, <<"socket">>)
      BY Zenon, <1>0, MakesOne
    <2>2. \A x \in {"socket"}, y \in D : R[x] < R[y]
      BY Zenon, <1>2, <1>4, <1>7
    <2>3. M({"socket"} \cup D, <<"socket">> \o Destructor)
      BY Zenon, <1>0, <1>3, <2>1, <2>2, MakesConcat
    <2> QED
      BY Zenon, <1>7, <2>3 DEF R, ReleaseSet, Releases
  <1>8. CASE role \in {"client_zcrx", "server_zcrx"}
    <2>1. ReleaseSet = {"socket"} /\ Releases = <<"socket">>
      BY Zenon, <1>8 DEF ReleaseSet, Releases
    <2> QED
      BY Zenon, <1>0, <2>1, MakesOne DEF R
  <1>9. role \in EngineRoles \cup {"client_zcrx", "server_zcrx"}
    BY Zenon, Roles DEF role
  <1> QED
    BY Zenon, <1>5, <1>6, <1>7, <1>8, <1>9 DEF EngineRoles

\* On the way out: the loop is left,
LEMMA LeaveStep ==
    ASSUME StartInv, Leave
    PROVE  StartInv'
  <1>0. /\ pc = "exit" /\ pc' = "release" /\ todo' = Releases
        /\ UNCHANGED <<args, config, thread_id, held, engine, supported, flags>>
    BY Zenon DEF Leave
  <1>1. InLoop /\ engine \in EngineType /\ Accepted(config) /\ held \subseteq Resources
    BY Zenon, <1>0 DEF StartInv, EngineType, Outside
  <1>2. Makes(ReleaseRank, ReleaseSet, Releases)
    BY Zenon, <1>1, ReleasePlan
  <1>3. /\ todo' \in Seq(Calls) /\ Increasing(ReleaseRank, todo') /\ Range(todo') = ReleaseSet
    BY Zenon, <1>0, <1>2 DEF Makes
  <1>4. /\ ReleaseSet \subseteq held /\ held \subseteq ReleaseSet \cup Left
        /\ ReleaseSet \cap Left = {}
    <2>1. role \in EngineRoles \cup {"client_zcrx", "server_zcrx"}
      BY Zenon, <1>1, Roles DEF role
    <2>2. CASE role = "client"
      BY Zenon, <1>1, <2>2
         DEF InLoop, ReleaseSet, DestructorSet, Only, Left, Resources, EngineRoles
    <2>3. CASE role = "client_reverse"
      BY Zenon, <1>1, <2>3
         DEF InLoop, ReleaseSet, DestructorSet, Only, Left, Resources, EngineRoles
    <2>4. CASE role = "server_tcp"
      BY Zenon, <1>1, <2>4
         DEF InLoop, ReleaseSet, DestructorSet, Only, Left, Resources, EngineRoles
    <2>5. CASE role = "server_udp"
      BY Zenon, <1>1, <2>5
         DEF InLoop, ReleaseSet, DestructorSet, Only, Left, Resources, EngineRoles
    <2>6. CASE role \in {"client_zcrx", "server_zcrx"}
      BY Zenon, <1>1, <2>6 DEF InLoop, ReleaseSet, Left, Resources, EngineRoles
    <2> QED
      BY Zenon, <2>1, <2>2, <2>3, <2>4, <2>5, <2>6 DEF EngineRoles
  <1>5. /\ ReleaseRank' = ReleaseRank /\ Left' = Left /\ Accepted(config)'
    BY Zenon, <1>0, <1>1, FixedPlan DEF Fixed
  <1>6. /\ "pool" \in held => ~engine.recv_buf_ring
        /\ "buf_ring" \in held => "buf_mem" \in held
        /\ "buf_mem" \in held => engine.recv_buf_ring
    BY Zenon, <1>1 DEF InLoop
  <1>7. InRelease'
    BY Zenon, <1>0, <1>3, <1>4, <1>5, <1>6 DEF InRelease, Increasing
  <1>8. pc' \in Outside
    BY Zenon, <1>0 DEF Outside
  <1> QED
    BY Zenon, <1>0, <1>5, <1>7, <1>8 DEF StartInv

\* a resource that is held is released before all that are still to come,
LEMMA ReleaseStep ==
    ASSUME StartInv, Release
    PROVE  StartInv'
  <1>0. /\ pc = "release" /\ pc' = "release" /\ todo # <<>> /\ todo' = Tail(todo)
        /\ held' = held \ {Head(todo)}
        /\ UNCHANGED <<args, config, thread_id, engine, supported, flags>>
    BY Zenon DEF Release
  <1>1. InRelease /\ held \subseteq Resources
    BY Zenon, <1>0 DEF StartInv
  <1>2. /\ Head(todo) \in Range(todo) /\ Tail(todo) \in Seq(Calls)
        /\ Increasing(ReleaseRank, Tail(todo))
        /\ Range(Tail(todo)) = Range(todo) \ {Head(todo)}
        /\ \A y \in Range(todo) \ {Head(todo)} : ReleaseRank[Head(todo)] < ReleaseRank[y]
    BY Zenon, ReleaseHead
  <1>3. /\ ReleaseRank' = ReleaseRank /\ Left' = Left /\ Accepted(config)'
    BY Zenon, <1>0, FixedPlan DEF Fixed, StartInv
  <1>4. InRelease'
    <2>1. "buf_ring" \in held' => "buf_mem" \in held'
      <3> SUFFICES ASSUME "buf_ring" \in held', Head(todo) = "buf_mem" PROVE FALSE
        BY Zenon, <1>0, <1>1 DEF InRelease
      <3>1. "buf_ring" \in Range(todo) \ {Head(todo)}
        BY Zenon, <1>0, <1>1 DEF InRelease, Left
      <3>2. ReleaseRank["buf_mem"] < ReleaseRank["buf_ring"]
        BY Zenon, <1>2, <3>1
      <3> QED
        BY <3>2, ReleaseOrder
    <2>2. Range(todo') = Range(todo) \ {Head(todo)} /\ todo' \in Seq(Calls)
      BY Zenon, <1>0, <1>2
    <2>3. /\ Range(todo') \subseteq held' /\ held' \subseteq Range(todo') \cup Left
          /\ Range(todo') \cap Left = {}
      BY Zenon, <1>0, <1>1, <2>2 DEF InRelease
    <2>4. /\ "pool" \in held' => ~engine.recv_buf_ring
          /\ "buf_mem" \in held' => engine.recv_buf_ring
      BY Zenon, <1>0, <1>1 DEF InRelease
    <2> QED
      BY Zenon, <1>0, <1>2, <1>3, <2>1, <2>2, <2>3, <2>4 DEF InRelease, Increasing
  <1>5. pc' \in Outside /\ held' \subseteq Resources
    BY Zenon, <1>0, <1>1 DEF Outside
  <1> QED
    BY Zenon, <1>0, <1>3, <1>4, <1>5 DEF StartInv

\* and the worker returns.
LEMMA ReturnStep ==
    ASSUME StartInv, Return
    PROVE  StartInv'
  <1>0. /\ pc = "release" /\ pc' = "done" /\ todo = <<>>
        /\ UNCHANGED <<args, config, thread_id, held, engine, supported, flags>>
    BY Zenon DEF Return, startVars
  <1>1. held \subseteq Left
    BY <1>0 DEF StartInv, InRelease, Range
  <1>2. Left' = Left /\ Accepted(config)' /\ pc' \in Outside
    BY Zenon, <1>0, FixedPlan DEF Fixed, StartInv, Outside
  <1> QED
    BY Zenon, <1>0, <1>1, <1>2 DEF StartInv

\* The invariant holds at the start.
LEMMA StartInitInv ==
    ASSUME StartInit
    PROVE  StartInv
  <1>1. args \in Seq(Options)
    <2>1. PICK m \in 0..MaxOptions : args \in [1..m -> Options]
      BY Zenon DEF StartInit, CommandLines
    <2>2. m \in Nat
      BY <2>1, ConfigAssumption
    <2> QED
      BY <2>1, <2>2
  <1>2. thread_id \in Threads
    BY StartupAssumption DEF StartInit
  <1>3. Accepted(config)
    <2> DEFINE d == [f \in Used |-> Defaults[f]]
    <2>1. /\ d = [f \in Used |-> d[f]]
          /\ d.mode = Defaults.mode /\ d.udp = Defaults.udp /\ d.port = Defaults.port
          /\ d.sqpoll = Defaults.sqpoll /\ d.zcrx_ifname = Defaults.zcrx_ifname
          /\ d.fixed_buffers = Defaults.fixed_buffers
          /\ d.multishot_recv = Defaults.multishot_recv
          /\ d.use_zcrx = Defaults.use_zcrx /\ d.reverse = Defaults.reverse
      BY Zenon DEF Used
    <2>2. /\ Defaults.mode = "CLIENT" /\ Defaults.udp = FALSE /\ Defaults.port \in Port
          /\ Defaults.sqpoll = FALSE /\ Defaults.zcrx_ifname = FALSE
          /\ Defaults.fixed_buffers = TRUE /\ Defaults.multishot_recv = TRUE
          /\ Defaults.use_zcrx = FALSE /\ Defaults.reverse = FALSE
      BY SMT DEF Defaults, Port
    <2>3. config = d
      BY Zenon DEF StartInit
    <2> HIDE DEF d
    <2>4. Accepted(d)
      BY <2>1, <2>2, Zenon DEF Accepted
    <2> QED
      BY Zenon, <2>3, <2>4
  <1>4. engine \in EngineType
    BY Zenon DEF StartInit, NoEngine, EngineType
  <1>5. pc = "main" /\ pc \in Outside
    BY Zenon DEF StartInit, Outside
  <1> QED
    BY Zenon, <1>1, <1>2, <1>3, <1>4, <1>5 DEF StartInit, StartInv, EngineType

SetupStep ==
    \/ Main \/ SocketCall \/ SocketCallFails \/ ConstructEngine \/ ConstructThrows
    \/ Register \/ AllocatePool \/ SetupBufRing \/ SetupBufMem \/ Ready

\* Every step of a worker on its way in and out keeps the invariant.
LEMMA StartStep ==
    ASSUME StartInv, SetupStep \/ Leave \/ Release \/ Return
    PROVE  StartInv'
  BY Zenon, MainStep, SocketCallStep, SocketCallFailsStep, ConstructEngineStep,
     ConstructThrowsStep, RegisterStep, AllocatePoolStep, SetupBufRingStep,
     SetupBufMemStep, ReadyStep, LeaveStep, ReleaseStep, ReturnStep DEF SetupStep

--------------------------------------------------------------------------------
(* What the invariant says *)

\* No two workers of a process get the same port, whatever the sum wraps to.
LEMMA PortsApart ==
    ASSUME NEW p \in Port, NEW i \in Port, NEW j \in Port
    PROVE  /\ uint16_t(i) = i
           /\ i # j => uint16_t(p + i) # uint16_t(p + j)
           /\ uint16_t(p + i) = 0 => p \in {0, 65536 - i}
  BY SMT DEF Port, uint16_t

\* The ports of a zero-copy receiver steer its traffic to it.
LEMMA PortsAlwaysSteer ==
    ASSUME StartInv, pc = "setup"
    PROVE  PortsSteer
  <1> SUFFICES ASSUME config.use_zcrx PROVE PortsSteer
    BY SMT DEF PortsSteer
  <1> DEFINE p == config.port
  <1>1. /\ p \in Port /\ Accepted(config) /\ thread_id \in Threads
        /\ config.use_zcrx = TRUE /\ config.reverse \in BOOLEAN
    BY DEF StartInv, Accepted
  <1>2. \A i \in Threads : i \in Port /\ uint16_t(i) = i
    BY StartupAssumption, PortsApart, <1>1 DEF Port
  <1>3. role \in {"client", "client_zcrx", "server_zcrx"}
    <2>1. role \in EngineRoles \cup {"client_zcrx", "server_zcrx"}
      BY <1>1, Roles DEF role
    <2>2. role \notin {"client_reverse", "server_udp", "server_tcp"}
      BY <1>1, Roles DEF role
    <2> QED
      BY <2>1, <2>2 DEF EngineRoles
  <1>4. ASSUME NEW i \in Threads PROVE steering_port(i) = uint16_t(p + i)
    <2>1. CASE role = "client"
      <3>1. ~config.reverse
        BY <1>1, <2>1, Roles DEF role
      <3> QED
        BY <1>1, <1>2, <2>1, <3>1, Zenon DEF connect_port, steering_port
    <2>2. CASE role = "client_zcrx"
      <3>1. config.reverse
        BY <1>1, <2>2, Roles DEF role
      <3> QED
        BY <1>1, <1>2, <2>2, <3>1, Zenon DEF local_bind_port, steering_port
    <2>3. CASE role = "server_zcrx"
      BY <1>1, <1>2, <2>3, Zenon DEF listen_port, steering_port
    <2> QED
      BY <1>3, <2>1, <2>2, <2>3
  <1>5. \A i \in Threads \ {thread_id} : steering_port(i) # steering_port(thread_id)
    <2> HIDE DEF p
    <2> QED
      BY <1>1, <1>2, <1>4, PortsApart
  <1>6. ~config.reverse => connect_port(config, thread_id) = listen_port(config, thread_id)
    BY <1>1, Zenon DEF connect_port, listen_port
  <1>7. steering_port(thread_id) = 0 => p \in {0, 65536 - thread_id}
    <2> HIDE DEF p
    <2> QED
      BY <1>1, <1>2, <1>4, PortsApart
  <1> QED
    BY <1>5, <1>6, <1>7, SMT DEF PortsSteer

\* What the invariant says of the configuration,
LEMMA StartRunnable ==
    ASSUME StartInv
    PROVE  RoleRunnable
  <1> SUFFICES ASSUME pc = "setup" PROVE RoleRunnable
    BY Zenon DEF RoleRunnable
  <1>1. InSetup /\ Accepted(config) /\ (NeedsInterface(config) => config.zcrx_ifname)
    BY Zenon DEF StartInv, InSetup
  <1>2. role \in {"client_zcrx", "server_zcrx"} => NeedsInterface(config)
    BY Zenon, <1>1, Roles DEF role, NeedsInterface
  <1>3. config.use_zcrx \/ config.reverse => ~config.udp
    BY Zenon, <1>1 DEF Accepted
  <1>4. PortsSteer
    BY Zenon, PortsAlwaysSteer
  <1> QED
    BY Zenon, <1>1, <1>2, <1>3, <1>4 DEF RoleRunnable

\* of the flags of the ring,
LEMMA StartSqpoll ==
    ASSUME StartInv
    PROVE  SqpollHonoured
  BY Zenon DEF StartInv, InSetup, SqpollHonoured

\* A sequence in the order of a numbering has no call twice.
LEMMA EachOnce ==
    ASSUME NEW R \in [Calls -> Int], NEW s \in Seq(Calls), Increasing(R, s)
    PROVE  IsInjective(s)
  <1>1. Len(s) \in Nat /\ DOMAIN s = 1..Len(s) /\ \A i \in DOMAIN s : s[i] \in Calls
    OBVIOUS
  <1> QED
    BY <1>1 DEF Increasing, IsInjective

\* of the releases,
LEMMA StartReleases ==
    ASSUME StartInv
    PROVE  ReleasedOnce
  <1>1. ASSUME pc = "release"
        PROVE  Range(todo) \subseteq held /\ IsInjective(todo)
    <2>1. InRelease
      BY Zenon, <1>1 DEF StartInv
    <2> QED
      BY Zenon, <2>1, EachOnce, Ranks DEF InRelease
  <1>2. ASSUME pc = "done"
        PROVE  held = IF role = "server_udp" THEN held \cap {"pool"} ELSE {}
    BY Zenon, <1>2 DEF StartInv, Left
  <1> QED
    BY Zenon, <1>1, <1>2 DEF ReleasedOnce

\* parse_args() gives what the command line means, whatever the command line.
LEMMA StartParses ==
    ASSUME StartInv
    PROVE  ParseExact
  <1>1. args \in Seq(Options)
    BY Zenon DEF StartInv
  <1>2. /\ parse_args(args).exit = Meaning(args).exit
        /\ parse_args(args).exit = "none" => parse_args(args) = Meaning(args)
    BY <1>1, ParseMeans, Zenon
  <1> QED
    BY <1>2, Zenon DEF ParseExact


--------------------------------------------------------------------------------
(* The worker as a whole *)

\* Every step keeps the invariant of the way in and out.
LEMMA StartInvStep ==
    ASSUME StartInv, [Next]_vars
    PROVE  StartInv'
  <1>1. CASE Start
    BY Zenon, <1>1, StartStep DEF Start, SetupStep
  <1>2. CASE Finishing
    BY Zenon, <1>2, StartStep DEF Finishing
  <1>3. CASE InLoopStep
    BY Zenon, <1>3, LoopFrame, LoopStep
  <1>4. CASE KernelStep
    BY Zenon, <1>4, KernelFrame, StutterStep
  <1>5. CASE PeerEnds \/ StopSignal \/ UNCHANGED vars
    BY Zenon, <1>5, StutterStep DEF PeerEnds, StopSignal, vars
  <1> QED
    BY Zenon, <1>1, <1>2, <1>3, <1>4, <1>5, Kinds

\* The inductive invariant holds at the start,
LEMMA ReceiveInit == Init => ReceiveInv
  BY Zenon, StartInitInv, TypeInit, IdleInit, TokenInit, DataInit DEF ReceiveInv, Init

\* is kept by every step,
LEMMA ReceiveStep == ReceiveInv /\ [Next]_vars => ReceiveInv'
  <1> SUFFICES ASSUME ReceiveInv, [Next]_vars PROVE ReceiveInv'
    BY Zenon
  <1>1. TypeInv /\ IdleInv /\ TokenInv /\ DataInv /\ \A i \in DOMAIN cq : Shape(cq[i])
    BY Zenon DEF ReceiveInv, DataInv
  <1>2. StartInv'
    BY Zenon, <1>1, StartInvStep DEF TypeInv
  <1>3. TypeInv' /\ IdleInv'
    BY Zenon, <1>1, <1>2, TypeStep, IdleStep
  <1>4. TokenInv' /\ DataInv'
    BY Zenon, <1>1, <1>2, TokenStep, DataStep
  <1> QED
    BY Zenon, <1>3, <1>4 DEF ReceiveInv

\* and so holds always.
LEMMA ReceiveAlways == Spec => []ReceiveInv
  BY ReceiveInit, ReceiveStep, PTL DEF Spec

\* For every command line, thread, pipeline depth and queue depth the variables
\* of a receiving worker stay in their domains.
THEOREM ReceiveTypeCorrect == Spec => []TypeOK
  <1>1. ReceiveInv => TypeOK
    BY Zenon DEF ReceiveInv, TypeInv
  <1> QED
    BY <1>1, ReceiveAlways, PTL

\* However long the worker receives, every provided buffer is in the ring or in
\* exactly one completion, so return_recv_buffer() gives each back once.
THEOREM BuffersAlwaysConserved == Spec => []BuffersConserved
  <1>1. ReceiveInv => BuffersConserved
    BY Zenon DEF ReceiveInv, DataInv
  <1> QED
    BY <1>1, ReceiveAlways, PTL

\* run_client_reverse_recv() sets peer_closed only at the end of the stream and
\* with all data counted: the completion queue has room for every provided
\* buffer, so the kernel never ends the multishot receive with data.
THEOREM AlwaysEndsForCause == Spec => []EndsForCause
  <1>1. ReceiveInv => EndsForCause
    BY Zenon DEF ReceiveInv, DataInv, EndsForCause
  <1> QED
    BY <1>1, ReceiveAlways, PTL

\* Only the receives of a client without multishot, which are pending as it frees
\* its buffers, write to freed memory: the other workers free what they receive
\* into after it was taken back, or not at all.
THEOREM FreedStaysUnwritten == Spec => []FreedUnwritten
  <1>1. ReceiveInv => FreedUnwritten
    BY Zenon DEF ReceiveInv, IdleInv, FreedUnwritten
  <1> QED
    BY <1>1, ReceiveAlways, PTL

\* For every command line, of any length and in any order of the options:
\* parse_args() gives what a reading of the whole line gives.
THEOREM ParseAlwaysExact == Spec => []ParseExact
  <1>1. ReceiveInv => ParseExact
    BY Zenon, StartParses DEF ReceiveInv, TypeInv
  <1> QED
    BY <1>1, ReceiveAlways, PTL

\* For every command line parse_args() accepts and every thread: the worker can
\* run what it gets to, and its ports steer its traffic to it.
THEOREM RoleAlwaysRunnable == Spec => []RoleRunnable
  <1>1. ReceiveInv => RoleRunnable
    BY Zenon, StartRunnable DEF ReceiveInv, TypeInv
  <1> QED
    BY <1>1, ReceiveAlways, PTL

\* -S is honoured on every kernel that knows its flags, and sqpoll_ says so.
THEOREM SqpollAlwaysHonoured == Spec => []SqpollHonoured
  <1>1. ReceiveInv => SqpollHonoured
    BY Zenon, StartSqpoll DEF ReceiveInv, TypeInv
  <1> QED
    BY <1>1, ReceiveAlways, PTL

\* Whichever calls failed on the way in, the worker releases what it holds, each
\* once and nothing else.
THEOREM AlwaysReleasedOnce == Spec => []ReleasedOnce
  <1>1. ReceiveInv => ReleasedOnce
    BY Zenon, StartReleases DEF ReceiveInv, TypeInv
  <1> QED
    BY <1>1, ReceiveAlways, PTL

\* If the submission queue has an entry for each receive of the pipeline, the two
\* workers that receive on one socket implement the abstract pipeline: a context
\* leaves it only at the end of its receive, by the stop signal or by the
\* worker's return, and never comes back.  The multishot receive of a UDP server
\* is one such context.
THEOREM ReceiveImplementsPipeline ==
    ASSUME QueueDepth >= InFlight PROVE Spec => Pipe!Spec
  <1>1. Init => Pipe!Init
    <2> SUFFICES ASSUME Init PROVE Pipe!Init
      BY Zenon
    <2>1. Starting
      BY Zenon DEF Init, StartInit, Starting
    <2>2. slot = <<>> /\ fragile = FALSE
      BY Zenon, <2>1 DEF slot, fragile
    <2> QED
      BY Zenon, <2>2 DEF Init, Pipe!Init
  <1>2. RotationInv /\ RotationInv' /\ [Next]_vars => [Pipe!Next]_(Pipe!vars)
    BY Zenon, StepImplements
  <1>3. RotationInv => ReceiveInv
    BY Zenon DEF RotationInv
  <1> QED
    BY <1>1, <1>2, <1>3, ReceiveInit, ReceiveStep, RotationInit, RotationStep, PTL
       DEF Spec, Pipe!Spec
================================================================================
