--------------------------------- MODULE Startup ---------------------------------
(***************************************************************************)
(* How a worker comes to its loop and what it gives back after it: the     *)
(* command line, the socket (create_listen_socket, create_client_socket    *)
(* and the sending of the handshake), the UringEngine with its constructor,*)
(* registrations and provided buffers, and the way back with               *)
(* ~UringEngine().  The loops are in the workers' own modules, and so is   *)
(* all the zero-copy receivers set up after their socket.                  *)
(*                                                                         *)
(* Calls that may fail are taken one by one from todo.  held is what the   *)
(* thread and the kernel really hold, engine what the UringEngine believes.*)
(***************************************************************************)
EXTENDS Config

CONSTANT Threads    \* bound: thread ids considered

ASSUME StartupAssumption == 0 \in Threads /\ \A i \in Threads : i \in Nat /\ i < 65536

VARIABLES
    args,       \* the command line, until it is parsed
    config,
    thread_id,
    pc,
    todo,       \* calls still to be made
    held,       \* resources acquired and not released
    engine,     \* members of UringEngine
    supported,  \* set-up flags the kernel knows
    flags       \* set-up flags of the ring

startVars == <<args, config, thread_id, todo, held, engine, supported, flags>>

role == Role(config)

SetupFlags == {"SQPOLL", "SINGLE_ISSUER", "COOP_TASKRUN"}

\* What the set-up and the end of a worker read of its configuration.
Used == {"mode", "udp", "port", "sqpoll", "fixed_buffers", "multishot_recv", "reverse",
         "use_zcrx", "zcrx_ifname"}

NoEngine == [sqpoll |-> FALSE, files |-> FALSE, buffers |-> FALSE, recv_buf_ring |-> FALSE]

StartInit ==
    /\ args \in CommandLines
    /\ config = [f \in Used |-> Defaults[f]]
    /\ thread_id = 0
    /\ pc = "main"
    /\ todo = <<>>
    /\ held = {}
    /\ engine = NoEngine
    /\ supported = {}
    /\ flags = {}

--------------------------------------------------------------------------------
(* The plan of a worker *)

If(b, s) == IF b THEN s ELSE <<>>

create_listen_socket(udp) == <<"socket", "bind">> \o If(~udp, <<"listen">>)

create_client_socket(local_port) ==
    <<"socket">> \o If(local_port # 0, <<"bind">>) \o <<"resolve", "connect">>

SocketCalls(c, i) ==
    IF c.mode = "SERVER" THEN create_listen_socket(c.udp)
    ELSE create_client_socket(local_bind_port(c, i)) \o If(~c.udp, <<"handshake">>)

ClientCalls(c) == <<"queue", "files", "pool">> \o If(c.fixed_buffers, <<"buffers">>)

ReverseCalls(c) ==
    <<"queue">> \o If(c.multishot_recv, <<"buf_ring", "buf_mem">>) \o <<"pool">>

ServerCalls(c) ==
    <<"queue">> \o If(c.multishot_recv, <<"buf_ring", "buf_mem">>)
        \o If(c.udp, <<"files", "pool">>)

EngineCalls(c) ==
    CASE Role(c) = "client" -> ClientCalls(c)
      [] Role(c) = "client_reverse" -> ReverseCalls(c)
      [] Role(c) \in {"server_tcp", "server_udp"} -> ServerCalls(c)
      [] OTHER -> <<>>

\* main(): the options are parsed, and each worker starts.
Main ==
    /\ pc = "main"
    /\ \E c \in {parse_args(args)} :
          \/ /\ c.exit # "none"
             /\ pc' = "exited"
             /\ UNCHANGED <<config, thread_id, todo>>
          \/ /\ c.exit = "none"
             /\ \E i \in Threads :
                   /\ i < c.threads
                   /\ thread_id' = i
                   /\ config' = [f \in Used |-> c[f]]
                   /\ todo' = SocketCalls(c, i) \o EngineCalls(c)
             /\ pc' = "setup"
    /\ args' = <<>>
    /\ UNCHANGED <<held, engine, supported, flags>>

Calling(calls) == pc = "setup" /\ todo # <<>> /\ Head(todo) \in calls

SocketStep == {"socket", "bind", "listen", "resolve", "connect", "handshake"}

SocketCall ==
    /\ Calling(SocketStep)
    /\ held' = held \cup ({Head(todo)} \cap {"socket"})
    /\ todo' = Tail(todo)
    /\ UNCHANGED <<args, config, thread_id, pc, engine, supported, flags>>

\* Mutant: the socket stays open after a failed call.
SocketCallFailsLeaking ==
    /\ Calling(SocketStep)
    /\ pc' = "done"
    /\ todo' = <<>>
    /\ UNCHANGED <<args, config, thread_id, held, engine, supported, flags>>

\* Each early return closes the socket first.
SocketCallFails ==
    /\ Calling(SocketStep)
    /\ held' = held \ {"socket"}
    /\ pc' = "done"
    /\ todo' = <<>>
    /\ UNCHANGED <<args, config, thread_id, engine, supported, flags>>

--------------------------------------------------------------------------------
(* UringEngine: the constructor, the registrations, the provided buffers *)

\* Mutant: the flags as they were before IORING_SETUP_COOP_TASKRUN was found to
\* exclude IORING_SETUP_SQPOLL.
WantedBothFlags(sqpoll) ==
    {"SINGLE_ISSUER", "COOP_TASKRUN"} \cup (IF sqpoll THEN {"SQPOLL"} ELSE {})

Wanted(sqpoll) == {"SINGLE_ISSUER", IF sqpoll THEN "SQPOLL" ELSE "COOP_TASKRUN"}

\* The kernel takes flags it knows, but not the two together (external).
Takes(known, wanted) ==
    wanted \subseteq known /\ ~({"SQPOLL", "COOP_TASKRUN"} \subseteq wanted)

\* The constructor: the wanted flags, or a plain ring if the kernel refuses them.
ConstructEngine ==
    /\ Calling({"queue"})
    /\ supported' \in SUBSET SetupFlags
    /\ LET wanted == Wanted(config.sqpoll)
       IN  IF Takes(supported', wanted)
           THEN flags' = wanted /\ engine' = [NoEngine EXCEPT !.sqpoll = config.sqpoll]
           ELSE flags' = {} /\ engine' = NoEngine
    /\ held' = held \cup {"queue"}
    /\ todo' = Tail(todo)
    /\ UNCHANGED <<args, config, thread_id, pc>>

\* No ring at all: the exception leaves the thread and ends the process.
ConstructThrows ==
    /\ Calling({"queue"})
    /\ pc' = "aborted"
    /\ todo' = <<>>
    /\ held' = {}
    /\ UNCHANGED <<args, config, thread_id, engine, supported, flags>>

\* register_files() and register_buffers(): the answer is kept, and without the
\* registration the worker goes on.
Register ==
    /\ Calling({"files", "buffers"})
    /\ \E ok \in BOOLEAN :
          /\ held' = IF ok THEN held \cup {Head(todo)} ELSE held
          /\ engine' = [engine EXCEPT ![Head(todo)] = ok]
    /\ todo' = Tail(todo)
    /\ UNCHANGED <<args, config, thread_id, pc, supported, flags>>

\* The buffers a pipeline allocates, unless it receives into provided ones.
AllocatePool ==
    /\ Calling({"pool"})
    /\ held' = IF engine.recv_buf_ring THEN held ELSE held \cup {"pool"}
    /\ todo' = Tail(todo)
    /\ UNCHANGED <<args, config, thread_id, pc, engine, supported, flags>>

\* The first half of setup_multishot_recv(); a failure ends it.
SetupBufRing ==
    /\ Calling({"buf_ring"})
    /\ \E ok \in BOOLEAN :
          /\ held' = IF ok THEN held \cup {"buf_ring"} ELSE held
          /\ engine' = [engine EXCEPT !.recv_buf_ring = ok]
          /\ todo' = IF ok THEN Tail(todo) ELSE Tail(Tail(todo))
    /\ UNCHANGED <<args, config, thread_id, pc, supported, flags>>

\* Mutant: recv_buf_ring_ is not reset when the pool cannot be allocated.
AllocateBufMemKeepingPointer(ok) ==
    /\ Calling({"buf_mem"})
    /\ held' = IF ok THEN held \cup {"buf_mem"} ELSE held \ {"buf_ring"}
    /\ UNCHANGED engine

\* Its second half: the memory, without which the ring is freed again.
AllocateBufMem(ok) ==
    /\ Calling({"buf_mem"})
    /\ held' = IF ok THEN held \cup {"buf_mem"} ELSE held \ {"buf_ring"}
    /\ engine' = [engine EXCEPT !.recv_buf_ring = ok]

SetupBufMem ==
    /\ \E ok \in BOOLEAN : AllocateBufMem(ok)
    /\ todo' = Tail(todo)
    /\ UNCHANGED <<args, config, thread_id, pc, supported, flags>>

\* All is set up.  What only the set-up reads is forgotten.
Ready ==
    /\ pc = "setup"
    /\ todo = <<>>
    /\ pc' = "start"
    /\ config' = [config EXCEPT !.port = 0, !.sqpoll = FALSE, !.multishot_recv = FALSE,
                                !.fixed_buffers = FALSE, !.zcrx_ifname = FALSE]
    /\ engine' = [engine EXCEPT !.sqpoll = FALSE]
    /\ supported' = {}
    /\ flags' = {}
    /\ UNCHANGED <<args, thread_id, todo, held>>

--------------------------------------------------------------------------------
(* After the loop *)

\* Mutant: the memory of the provided buffers is freed before their ring.
DestructorFreeingFirst ==
    If(engine.buffers, <<"buffers">>) \o If(engine.files, <<"files">>)
        \o If(engine.recv_buf_ring, <<"buf_mem", "buf_ring">>) \o <<"queue">>

\* ~UringEngine(), as its members say.
Destructor ==
    If(engine.buffers, <<"buffers">>) \o If(engine.files, <<"files">>)
        \o If(engine.recv_buf_ring, <<"buf_ring", "buf_mem">>) \o <<"queue">>

\* What the function releases as it returns, in order.  run_server() over UDP
\* leaves its buffer_pool_.
Releases ==
    CASE role = "client" -> <<"socket", "pool">> \o Destructor
      [] role = "client_reverse" ->
             If(~engine.recv_buf_ring, <<"pool">>) \o Destructor \o <<"socket">>
      [] role \in {"server_tcp", "server_udp"} -> <<"socket">> \o Destructor
      [] OTHER -> <<"socket">>

\* The loop is over.
Leave ==
    /\ pc = "exit"
    /\ pc' = "release"
    /\ todo' = Releases
    /\ UNCHANGED <<args, config, thread_id, held, engine, supported, flags>>

Release ==
    /\ pc = "release"
    /\ todo # <<>>
    /\ held' = held \ {Head(todo)}
    /\ todo' = Tail(todo)
    /\ UNCHANGED <<args, config, thread_id, pc, engine, supported, flags>>

Return ==
    /\ pc = "release"
    /\ todo = <<>>
    /\ pc' = "done"
    /\ UNCHANGED startVars

Ended == pc \in {"done", "aborted", "exited"}

--------------------------------------------------------------------------------
(* Properties *)

\* Every variable stays in its domain.
StartTypeOK ==
    /\ args \in Seq(Options)
    /\ DOMAIN config = Used
    /\ thread_id \in Threads
    /\ held \subseteq {"socket", "queue", "files", "buffers", "pool", "buf_ring", "buf_mem"}
    /\ engine \in [sqpoll : BOOLEAN, files : BOOLEAN, buffers : BOOLEAN,
                   recv_buf_ring : BOOLEAN]
    /\ {supported, flags} \subseteq SUBSET SetupFlags

\* parse_args() gives what a reading of the whole command line gives, in
\* whatever order the options come: of options that set the same field the last
\* one counts, numbers are raised to their least value and a port is cut to 16
\* bits, -l is kept over UDP also when it comes before -u, the lists of several
\* -A are joined, and a combination that cannot run is refused.
ParseExact ==
    pc = "main" =>
        LET p == parse_args(args)
            m == Meaning(args)
        IN  p.exit = m.exit /\ (p.exit = "none" => p = m)

\* The port that steers the traffic of worker i to the queue of a zero-copy
\* receiver.
steering_port(i) ==
    CASE role = "server_zcrx" -> listen_port(config, i)
      [] role = "client_zcrx" -> local_bind_port(config, i)
      [] role = "client" -> connect_port(config, i)

\* It is the worker's own among the workers of the process, the client's and the
\* server's worker of the same number meet on it, and it is a port unless the
\* sum wraps to 0.
PortsSteer ==
    config.use_zcrx =>
        /\ \A i \in Threads \ {thread_id} : steering_port(i) # steering_port(thread_id)
        /\ ~config.reverse => connect_port(config, thread_id) = listen_port(config, thread_id)
        /\ steering_port(thread_id) = 0 => config.port \in {0, 65536 - thread_id}

\* A worker can run what it gets to: one that registers an interface queue was
\* given the interface, one in reverse or zero-copy receive mode runs over TCP,
\* so the checks of parse_args() match the branches by which a thread gets to
\* its function; and its ports steer its traffic to it (PortsSteer).
RoleRunnable ==
    pc = "setup" =>
        /\ role \in {"client_zcrx", "server_zcrx"} => config.zcrx_ifname
        /\ config.use_zcrx \/ config.reverse => ~config.udp
        /\ PortsSteer

\* -S is honoured on every kernel that knows the flags it needs, and the engine
\* never believes in a kernel thread that is not there.
SqpollHonoured ==
    pc = "setup" /\ "queue" \in held =>
        /\ engine.sqpoll <=> "SQPOLL" \in flags
        /\ config.sqpoll /\ {"SQPOLL", "SINGLE_ISSUER"} \subseteq supported => engine.sqpoll

\* Whichever call failed on the way in, everything on the way out is released
\* once and was held, because the members of the engine say what it holds; and a
\* worker that returned holds nothing, but for the buffer_pool_ of a UDP server
\* without multishot receives, which run_server() does not free.
ReleasedOnce ==
    /\ pc = "release" =>
           /\ Range(todo) \subseteq held
           /\ IsInjective(todo)
    /\ pc = "done" => held = IF role = "server_udp" THEN held \cap {"pool"} ELSE {}
================================================================================
