--------------------------------- MODULE Config ---------------------------------
(***************************************************************************)
(* Config::parse_args() (include/config.hpp) as a function of the command  *)
(* line, the ports Worker::run_client() and run_server_zcrx() derive from  *)
(* the result, and the worker that Worker::start() then runs.              *)
(*                                                                         *)
(* A command line is a sequence of options as getopt_long() returns them,  *)
(* in their short form; arg holds the numbers of the argument, as atoi()   *)
(* reads them (for -A one for each field), and is <<>> without one.  "?"   *)
(* is anything getopt_long() rejects.  The text of a host or interface     *)
(* name is left out: only an empty interface name is told apart.           *)
(***************************************************************************)
EXTENDS Integers, Sequences, Functions

CONSTANTS
    Numbers,        \* bound: the numbers given to an option
    MaxOptions      \* bound: options on a command line

ASSUME ConfigAssumption == Numbers \subseteq Int /\ MaxOptions \in Nat

Flags == {"-s", "-c", "-u", "-R", "-Z", "-Y", "--no-multishot-recv", "-S", "-M", "-F",
          "-h", "?"}

Numeric == {"-p", "-P", "-l", "-q", "-t", "-i", "--zcrx-queue"}

\* --zcrx-if with an empty name and with another.
Options ==
    [opt : Flags, arg : {<<>>}] \cup [opt : {"--zcrx-if"}, arg : {<<>>, <<0>>}]
        \cup [opt : Numeric, arg : {<<n>> : n \in Numbers}]
        \cup [opt : {"-A"}, arg : {<<n, n>> : n \in Numbers}]

CommandLines == UNION {[1..n -> Options] : n \in 0..MaxOptions}

udp_gso_size == 1472

\* A Config, with len_user_set and the exit status of a std::exit().
Defaults ==
    [mode |-> "CLIENT", udp |-> FALSE, port |-> 5201, duration_sec |-> 10, threads |-> 1,
     buf_size |-> 131072, queue_depth |-> 256, zero_copy |-> FALSE, sqpoll |-> FALSE,
     fixed_buffers |-> TRUE, multishot_recv |-> TRUE, multi_process |-> FALSE,
     reverse |-> FALSE, use_zcrx |-> FALSE, zcrx_ifname |-> FALSE, zcrx_base_queue |-> 0,
     interval_sec |-> 1, cpu_affinity |-> <<>>, len_user_set |-> FALSE, exit |-> "none"]

uint16_t(n) == n % 65536

max(m, n) == IF m < n THEN n ELSE m

\* What one option makes of the Config.
Effect(p, opt, arg) ==
    CASE opt = "-s" -> [p EXCEPT !.mode = "SERVER"]
      [] opt = "-c" -> [p EXCEPT !.mode = "CLIENT"]
      [] opt = "-p" -> [p EXCEPT !.port = uint16_t(arg[1])]
      [] opt = "-u" -> [p EXCEPT !.udp = TRUE]
      [] opt = "-R" -> [p EXCEPT !.reverse = TRUE]
      [] opt = "-Z" -> [p EXCEPT !.zero_copy = TRUE]
      [] opt = "-Y" -> [p EXCEPT !.use_zcrx = TRUE]
      [] opt = "--zcrx-if" -> [p EXCEPT !.zcrx_ifname = arg # <<>>]
      [] opt = "--zcrx-queue" -> [p EXCEPT !.zcrx_base_queue = arg[1]]
      [] opt = "--no-multishot-recv" -> [p EXCEPT !.multishot_recv = FALSE]
      [] opt = "-S" -> [p EXCEPT !.sqpoll = TRUE]
      [] opt = "-P" -> [p EXCEPT !.threads = max(1, arg[1])]
      [] opt = "-M" -> [p EXCEPT !.multi_process = TRUE]
      [] opt = "-l" -> [p EXCEPT !.buf_size = max(64, arg[1]), !.len_user_set = TRUE]
      [] opt = "-q" -> [p EXCEPT !.queue_depth = max(16, arg[1])]
      [] opt = "-F" -> [p EXCEPT !.fixed_buffers = FALSE]
      [] opt = "-A" -> [p EXCEPT !.cpu_affinity = @ \o arg]
      [] opt = "-t" -> [p EXCEPT !.duration_sec = max(1, arg[1])]
      [] opt = "-i" -> [p EXCEPT !.interval_sec = max(1, arg[1])]
      [] opt = "-h" -> [p EXCEPT !.exit = "0"]
      [] opt = "?" -> [p EXCEPT !.exit = "1"]

\* One turn of the loop over the options, which std::exit() ends.
Apply(p, o) == IF p.exit = "none" THEN Effect(p, o.opt, o.arg) ELSE p

\* The Config after each turn.
Reads(args) ==
    LET p[i \in 0..Len(args)] == IF i = 0 THEN Defaults ELSE Apply(p[i - 1], args[i])
    IN  p

\* Whether this side registers an interface queue.
NeedsInterface(p) == p.use_zcrx /\ (p.mode = "SERVER" \/ p.reverse)

\* Mutant: the default UDP buffer replaces the length the user gave.
FinishIgnoringLen(p) ==
    [p EXCEPT !.buf_size = IF p.udp THEN 40 * udp_gso_size ELSE @,
              !.exit = IF \/ NeedsInterface(p) /\ ~p.zcrx_ifname
                          \/ p.udp /\ (p.use_zcrx \/ p.reverse) THEN "1" ELSE @,
              !.reverse = @ /\ p.mode # "SERVER"]

\* After the loop: the default length over UDP, the three errors, and -R, which
\* a server drops only once it has passed them.
Finish(p) ==
    [p EXCEPT !.buf_size = IF p.udp /\ ~p.len_user_set THEN 40 * udp_gso_size ELSE @,
              !.exit = IF \/ NeedsInterface(p) /\ ~p.zcrx_ifname
                          \/ p.udp /\ (p.use_zcrx \/ p.reverse) THEN "1" ELSE @,
              !.reverse = @ /\ p.mode # "SERVER"]

parse_args(args) ==
    LET p == Reads(args)[Len(args)]
    IN  IF p.exit = "none" THEN Finish(p) ELSE p

--------------------------------------------------------------------------------
(* What the workers make of a configuration *)

\* Mutant: the client does not follow the ports of a zero-copy server.
connect_portShared(c, thread_id) == c.port

connect_port(c, thread_id) ==
    uint16_t(c.port + (IF c.use_zcrx /\ ~c.reverse THEN uint16_t(thread_id) ELSE 0))

\* 0 is no port: create_client_socket() then does not bind.
local_bind_port(c, thread_id) ==
    IF c.use_zcrx /\ c.reverse THEN uint16_t(c.port + uint16_t(thread_id)) ELSE 0

listen_port(c, thread_id) ==
    IF c.use_zcrx THEN uint16_t(c.port + uint16_t(thread_id)) ELSE c.port

\* Mutant: -Y is enough for a client to receive by zero copy.
RoleByZcrx(c) ==
    CASE c.mode = "CLIENT" /\ c.use_zcrx -> "client_zcrx"
      [] c.mode = "CLIENT" /\ ~c.use_zcrx -> IF c.reverse THEN "client_reverse" ELSE "client"
      [] OTHER -> "server_zcrx"

\* The function the thread ends up in: start(), and the branches at the start
\* of run_client() and run_server().
Role(c) ==
    CASE c.mode = "CLIENT" /\ ~c.reverse -> "client"
      [] c.mode = "CLIENT" /\ c.reverse /\ ~c.use_zcrx -> "client_reverse"
      [] c.mode = "CLIENT" /\ c.reverse /\ c.use_zcrx -> "client_zcrx"
      [] c.mode = "SERVER" /\ c.use_zcrx -> "server_zcrx"
      [] c.mode = "SERVER" /\ ~c.use_zcrx /\ c.udp -> "server_udp"
      [] c.mode = "SERVER" /\ ~c.use_zcrx /\ ~c.udp -> "server_tcp"

--------------------------------------------------------------------------------
(* The command line read as a whole, for the property ParseExact *)

Where(args, os) == {i \in DOMAIN args : args[i].opt \in os}

Given(args, os) == Where(args, os) # {}

LastOf(args, os) == args[CHOOSE i \in Where(args, os) : \A j \in Where(args, os) : j =< i]

FirstOf(args, os) == args[CHOOSE i \in Where(args, os) : \A j \in Where(args, os) : i =< j]

Number(args, o, default) == IF Given(args, {o}) THEN LastOf(args, {o}).arg[1] ELSE default

Server(args) == Given(args, {"-s", "-c"}) /\ LastOf(args, {"-s", "-c"}).opt = "-s"

Named(args) == Given(args, {"--zcrx-if"}) /\ LastOf(args, {"--zcrx-if"}).arg # <<>>

Cores(args) ==
    LET c[i \in 0..Len(args)] ==
            IF i = 0 THEN <<>>
            ELSE IF args[i].opt = "-A" THEN c[i - 1] \o args[i].arg ELSE c[i - 1]
    IN  c[Len(args)]

ExitStatus(args) ==
    IF Given(args, {"-h", "?"})
    THEN IF FirstOf(args, {"-h", "?"}).opt = "-h" THEN "0" ELSE "1"
    ELSE IF \/ Given(args, {"-u"}) /\ (Given(args, {"-Y"}) \/ Given(args, {"-R"}))
            \/ Given(args, {"-Y"}) /\ ~Named(args) /\ (Server(args) \/ Given(args, {"-R"}))
    THEN "1" ELSE "none"

Meaning(args) ==
    [mode |-> IF Server(args) THEN "SERVER" ELSE "CLIENT", udp |-> Given(args, {"-u"}),
     port |-> Number(args, "-p", 5201) % 65536,
     duration_sec |-> max(1, Number(args, "-t", 10)),
     threads |-> max(1, Number(args, "-P", 1)),
     buf_size |-> max(64, Number(args, "-l", IF Given(args, {"-u"}) THEN 58880 ELSE 131072)),
     queue_depth |-> max(16, Number(args, "-q", 256)),
     zero_copy |-> Given(args, {"-Z"}), sqpoll |-> Given(args, {"-S"}),
     fixed_buffers |-> ~Given(args, {"-F"}),
     multishot_recv |-> ~Given(args, {"--no-multishot-recv"}),
     multi_process |-> Given(args, {"-M"}),
     reverse |-> Given(args, {"-R"}) /\ ~Server(args), use_zcrx |-> Given(args, {"-Y"}),
     zcrx_ifname |-> Named(args), zcrx_base_queue |-> Number(args, "--zcrx-queue", 0),
     interval_sec |-> max(1, Number(args, "-i", 1)),
     cpu_affinity |-> Cores(args), len_user_set |-> Given(args, {"-l"}),
     exit |-> ExitStatus(args)]
================================================================================
