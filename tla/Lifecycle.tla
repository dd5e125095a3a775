------------------------------- MODULE Lifecycle -------------------------------
(***************************************************************************)
(* main() (src/main.cpp) with StatsCollector (src/stats.cpp): the workers  *)
(* it starts, as threads or (-M) as forked processes, the reporter thread, *)
(* the stop signal, the joins and the summary.                             *)
(*                                                                         *)
(* A worker only adds to its counters here and ends some time after the    *)
(* stop signal of its process is set, or earlier by itself: that is what   *)
(* ClientWorker and ServerWorker promise as Stops.  g_stop_signal is one   *)
(* flag per process, and a forked process starts with a copy.  The         *)
(* counters are shared by all the processes.  Bytes and packets stand for  *)
(* all four counters; one add_bytes() adds one of each.                    *)
(***************************************************************************)
EXTENDS Integers

CONSTANTS
    N,              \* cfg.threads
    Word,           \* uint64_t arithmetic is modulo this
    MaxAdds,        \* bound: add_bytes() calls of a worker
    MaxReports      \* bound: interval lines

ASSUME LifecycleAssumption ==
    /\ N \in Nat \ {0}
    /\ Word \in Nat \ {0}
    /\ MaxAdds \in Nat
    /\ MaxReports \in Nat

Workers == 1..N

Main == 0

Procs == {Main} \cup Workers

VARIABLES
    cfg,        \* what of the configuration matters here
    mpc,        \* main()'s thread
    next,       \* the worker its loop is at
    stop,       \* g_stop_signal of each process
    child,      \* the main thread of each forked process
    wpc,        \* the worker threads
    counters,   \* shared_stats_
    running,    \* running_
    rpc,        \* the reporter thread
    load,       \* the next counter a summing loop reads
    total,      \* total_bytes and total_packets of that loop
    prev,       \* prev_bytes and prev_packets
    reported,   \* the sum of the intervals printed
    reports,    \* how many were printed
    summaries   \* the summaries printed

statsVars == <<running, rpc, load, total, prev, reported, reports>>
vars == <<cfg, mpc, next, stop, child, wpc, counters, statsVars, summaries>>

Pair(b, p) == [bytes |-> b, packets |-> p]

Zero == Pair(0, 0)

\* -M with more than one worker; the client or the server.
Configs == [multi_process : IF N > 1 THEN BOOLEAN ELSE {FALSE}, client : BOOLEAN]

\* The process whose g_stop_signal a worker reads.
ProcOf(w) == IF cfg.multi_process THEN w ELSE Main

Init ==
    /\ cfg \in Configs
    /\ mpc = IF cfg.multi_process THEN "fork" ELSE "start_reporting"
    /\ next = 1
    /\ stop = [p \in Procs |-> FALSE]
    /\ child = [w \in Workers |-> "none"]
    /\ wpc = [w \in Workers |-> "none"]
    /\ counters = [w \in Workers |-> Zero]
    /\ running = FALSE
    /\ rpc = "none"
    /\ load = 1
    /\ total = Zero
    /\ prev = Zero
    /\ reported = Zero
    /\ reports = 0
    /\ summaries = <<>>

--------------------------------------------------------------------------------
(* main() *)

\* Mutant: the loop runs once too often.
RoundOnceMore(here, after) ==
    /\ mpc = here
    /\ mpc' = IF next > N THEN after ELSE here
    /\ next' = IF next > N THEN 1 ELSE next + 1

\* One round of a loop over the workers at pc here, and the pc after the last.
Round(here, after) ==
    /\ mpc = here
    /\ mpc' = IF next = N THEN after ELSE here
    /\ next' = IF next = N THEN 1 ELSE next + 1

\* Mutant: a forked process starts with a stop signal of its own.
ForkFresh ==
    /\ Round("fork", "start_reporting")
    /\ child' = [child EXCEPT ![next] = "run"]
    /\ wpc' = [wpc EXCEPT ![next] = "run"]
    /\ stop' = [stop EXCEPT ![next] = FALSE]
    /\ UNCHANGED <<cfg, counters, statsVars, summaries>>

\* fork(), and in the child the start of its worker.
Fork ==
    /\ Round("fork", "start_reporting")
    /\ child' = [child EXCEPT ![next] = "run"]
    /\ wpc' = [wpc EXCEPT ![next] = "run"]
    /\ stop' = [stop EXCEPT ![next] = stop[Main]]
    /\ UNCHANGED <<cfg, counters, statsVars, summaries>>

\* fork() fails: the worker does not exist.
ForkFails ==
    /\ Round("fork", "start_reporting")
    /\ UNCHANGED <<cfg, stop, child, wpc, counters, statsVars, summaries>>

StartReporting ==
    /\ mpc = "start_reporting"
    /\ running' = TRUE
    /\ rpc' = "test"
    /\ mpc' = IF cfg.multi_process THEN "run" ELSE "start"
    /\ UNCHANGED <<cfg, next, stop, child, wpc, counters, load, total, prev, reported,
                   reports, summaries>>

\* Worker::start()
Start ==
    /\ Round("start", "run")
    /\ wpc' = [wpc EXCEPT ![next] = "run"]
    /\ UNCHANGED <<cfg, stop, child, counters, statsVars, summaries>>

AfterRun == IF cfg.multi_process THEN "waitpid" ELSE "join"

\* Mutant: the server's loop does not test the stop signal.
RunUntilStopUntested ==
    /\ mpc = "run"
    /\ IF cfg.client THEN stop' = [stop EXCEPT ![Main] = TRUE] /\ mpc' = AfterRun
       ELSE UNCHANGED <<stop, mpc>>
    /\ UNCHANGED <<cfg, next, child, wpc, counters, statsVars, summaries>>

\* run_until_stop() sees the stop signal, or sets it when the time is up.
RunUntilStop ==
    /\ mpc = "run"
    /\ stop[Main] \/ cfg.client
    /\ stop' = [stop EXCEPT ![Main] = TRUE]
    /\ mpc' = AfterRun
    /\ UNCHANGED <<cfg, next, child, wpc, counters, statsVars, summaries>>

\* Mutant: the threads are not waited for.
JoinNobody ==
    /\ Round("join", "stop_reporting")
    /\ UNCHANGED <<cfg, stop, child, wpc, counters, statsVars, summaries>>

\* Worker::join()
Join ==
    /\ Round("join", "stop_reporting")
    /\ wpc[next] = "done"
    /\ UNCHANGED <<cfg, stop, child, wpc, counters, statsVars, summaries>>

\* Mutant: only the processes that have ended are collected (WNOHANG).
WaitpidNoHang ==
    /\ Round("waitpid", "stop_reporting")
    /\ UNCHANGED <<cfg, stop, child, wpc, counters, statsVars, summaries>>

\* waitpid(), for the processes that were forked.
Waitpid ==
    /\ Round("waitpid", "stop_reporting")
    /\ child[next] \in {"none", "exited"}
    /\ UNCHANGED <<cfg, stop, child, wpc, counters, statsVars, summaries>>

\* Mutant: the reporter is told to stop and not joined.
StopReportingDetached ==
    /\ mpc = "stop_reporting"
    /\ running' = FALSE
    /\ load' = 1
    /\ total' = Zero
    /\ mpc' = "summary"
    /\ UNCHANGED <<cfg, next, stop, child, wpc, counters, rpc, prev, reported, reports,
                   summaries>>

\* stop_reporting() tells the reporter to stop, and then joins it.
StopReporting ==
    /\ mpc = "stop_reporting"
    /\ running' = FALSE
    /\ mpc' = "join_reporter"
    /\ UNCHANGED <<cfg, next, stop, child, wpc, counters, rpc, load, total, prev, reported,
                   reports, summaries>>

JoinReporter ==
    /\ mpc = "join_reporter"
    /\ rpc = "done"
    /\ load' = 1
    /\ total' = Zero
    /\ mpc' = "summary"
    /\ UNCHANGED <<cfg, next, stop, child, wpc, counters, running, rpc, prev, reported,
                   reports, summaries>>

\* The loads of a summing loop, in order: bytes and packets of each worker.
Loads == 2 * N

\* One atomic load of a summing loop.
LoadOne ==
    LET c == counters[(load + 1) \div 2]
    IN  /\ load =< Loads
        /\ load' = load + 1
        /\ total' = IF load % 2 = 1
                    THEN [total EXCEPT !.bytes = (@ + c.bytes) % Word]
                    ELSE [total EXCEPT !.packets = (@ + c.packets) % Word]

SummaryLoad ==
    /\ mpc = "summary"
    /\ LoadOne
    /\ UNCHANGED <<cfg, mpc, next, stop, child, wpc, counters, running, rpc, prev, reported,
                   reports, summaries>>

\* print_summary(), after its loop; main() returns.
SummaryPrint ==
    /\ mpc = "summary"
    /\ load > Loads
    /\ summaries' = <<total>>
    /\ mpc' = "done"
    /\ UNCHANGED <<cfg, next, stop, child, wpc, counters, statsVars>>

--------------------------------------------------------------------------------
(* The forked processes *)

\* Mutant: a forked client waits for a signal instead of its deadline.
ChildRunUntilSignal(w) ==
    /\ child[w] = "run"
    /\ stop[w]
    /\ child' = [child EXCEPT ![w] = "join"]
    /\ UNCHANGED <<cfg, mpc, next, stop, wpc, counters, statsVars, summaries>>

ChildRunUntilStop(w) ==
    /\ child[w] = "run"
    /\ stop[w] \/ cfg.client
    /\ stop' = [stop EXCEPT ![w] = TRUE]
    /\ child' = [child EXCEPT ![w] = "join"]
    /\ UNCHANGED <<cfg, mpc, next, wpc, counters, statsVars, summaries>>

\* worker.join(), and std::exit(0) without a summary.
ChildExit(w) ==
    /\ child[w] = "join"
    /\ wpc[w] = "done"
    /\ child' = [child EXCEPT ![w] = "exited"]
    /\ UNCHANGED <<cfg, mpc, next, stop, wpc, counters, statsVars, summaries>>

\* An uncaught exception in its worker, or SIGKILL, ends the process.
ChildDies(w) ==
    /\ child[w] \in {"run", "join"}
    /\ child' = [child EXCEPT ![w] = "exited"]
    /\ wpc' = [wpc EXCEPT ![w] = "done"]
    /\ UNCHANGED <<cfg, mpc, next, stop, counters, statsVars, summaries>>

--------------------------------------------------------------------------------
(* The worker threads *)

\* add_bytes() is two atomic additions.
AddBytes(w) ==
    /\ wpc[w] = "run"
    /\ counters[w].bytes < MaxAdds
    /\ counters' = [counters EXCEPT ![w].bytes = (@ + 1) % Word]
    /\ wpc' = [wpc EXCEPT ![w] = "add"]
    /\ UNCHANGED <<cfg, mpc, next, stop, child, statsVars, summaries>>

AddPackets(w) ==
    /\ wpc[w] = "add"
    /\ counters' = [counters EXCEPT ![w].packets = (@ + 1) % Word]
    /\ wpc' = [wpc EXCEPT ![w] = "run"]
    /\ UNCHANGED <<cfg, mpc, next, stop, child, statsVars, summaries>>

\* The worker sees the stop signal.
WorkerStops(w) ==
    /\ wpc[w] = "run"
    /\ stop[ProcOf(w)]
    /\ wpc' = [wpc EXCEPT ![w] = "done"]
    /\ UNCHANGED <<cfg, mpc, next, stop, child, counters, statsVars, summaries>>

\* It cannot connect, or its connection ends.
WorkerEnds(w) ==
    /\ wpc[w] = "run"
    /\ wpc' = [wpc EXCEPT ![w] = "done"]
    /\ UNCHANGED <<cfg, mpc, next, stop, child, counters, statsVars, summaries>>

--------------------------------------------------------------------------------
(* reporter_loop() *)

\* The loop's condition, at the start and after a report.
ReporterTest ==
    /\ rpc = "test"
    /\ rpc' = IF running THEN "sleep" ELSE "done"
    /\ UNCHANGED <<cfg, mpc, next, stop, child, wpc, counters, running, load, total, prev,
                   reported, reports, summaries>>

\* The sleep ends, and the summing loop starts.
ReporterWakes ==
    /\ rpc = "sleep"
    /\ running
    /\ reports < MaxReports
    /\ load' = 1
    /\ total' = Zero
    /\ rpc' = "sum"
    /\ UNCHANGED <<cfg, mpc, next, stop, child, wpc, counters, running, prev, reported,
                   reports, summaries>>

\* The sleep ends after stop_reporting() cleared running_.
ReporterEnds ==
    /\ rpc = "sleep"
    /\ ~running
    /\ rpc' = "done"
    /\ UNCHANGED <<cfg, mpc, next, stop, child, wpc, counters, running, load, total, prev,
                   reported, reports, summaries>>

ReporterLoad ==
    /\ rpc = "sum"
    /\ LoadOne
    /\ UNCHANGED <<cfg, mpc, next, stop, child, wpc, counters, running, rpc, prev, reported,
                   reports, summaries>>

Interval(field) == (total[field] - prev[field]) % Word

\* Mutant: prev_packets is not updated.
ReporterPrintKeepingPackets ==
    /\ rpc = "sum"
    /\ load > Loads
    /\ reported' = Pair(reported.bytes + Interval("bytes"),
                        reported.packets + Interval("packets"))
    /\ reports' = reports + 1
    /\ prev' = Pair(total.bytes, prev.packets)
    /\ rpc' = "test"
    /\ UNCHANGED <<cfg, mpc, next, stop, child, wpc, counters, running, load, total,
                   summaries>>

\* The line of the interval is printed.
ReporterPrint ==
    /\ rpc = "sum"
    /\ load > Loads
    /\ reported' = Pair(reported.bytes + Interval("bytes"),
                        reported.packets + Interval("packets"))
    /\ reports' = reports + 1
    /\ prev' = total
    /\ rpc' = "test"
    /\ UNCHANGED <<cfg, mpc, next, stop, child, wpc, counters, running, load, total,
                   summaries>>

--------------------------------------------------------------------------------
(* Signals (external): each process gets its own *)

Alive == {Main} \cup {w \in Workers : child[w] \in {"run", "join"}}

Signal(p) ==
    /\ p \in Alive
    /\ ~stop[p]
    /\ stop' = [stop EXCEPT ![p] = TRUE]
    /\ UNCHANGED <<cfg, mpc, next, child, wpc, counters, statsVars, summaries>>

Returned ==
    /\ mpc = "done"
    /\ UNCHANGED vars

--------------------------------------------------------------------------------

MainThread ==
    \/ Fork \/ ForkFails \/ StartReporting \/ Start \/ RunUntilStop \/ Join
    \/ Waitpid \/ StopReporting \/ JoinReporter \/ SummaryLoad \/ SummaryPrint

Child(w) == ChildRunUntilStop(w) \/ ChildExit(w)

Reporter ==
    \/ ReporterTest \/ ReporterWakes \/ ReporterEnds \/ ReporterLoad
    \/ ReporterPrint

Next ==
    \/ MainThread
    \/ Reporter
    \/ \E w \in Workers :
          \/ Child(w) \/ ChildDies(w)
          \/ AddBytes(w) \/ AddPackets(w) \/ WorkerStops(w) \/ WorkerEnds(w)
    \/ \E p \in Procs : Signal(p)
    \/ Returned

Spec == Init /\ [][Next]_vars

\* Every thread is scheduled, the deadline of a client passes, and a worker that
\* is told to stop does.
FairSpec ==
    /\ Spec
    /\ WF_vars(MainThread)
    /\ WF_vars(Reporter)
    /\ \A w \in Workers :
          /\ WF_vars(Child(w))
          /\ WF_vars(AddPackets(w))
          /\ SF_vars(WorkerStops(w))

--------------------------------------------------------------------------------
(* Properties *)

Pairs == [bytes : 0..(Word - 1), packets : 0..(Word - 1)]

\* Every variable stays in its domain.
TypeOK ==
    /\ cfg \in Configs
    /\ mpc \in {"fork", "start_reporting", "start", "run", "join", "waitpid",
                "stop_reporting", "join_reporter", "summary", "done"}
    /\ next \in Workers
    /\ stop \in [Procs -> BOOLEAN]
    /\ child \in [Workers -> {"none", "run", "join", "exited"}]
    /\ wpc \in [Workers -> {"none", "run", "add", "done"}]
    /\ counters \in [Workers -> Pairs]
    /\ running \in BOOLEAN
    /\ rpc \in {"none", "test", "sleep", "sum", "done"}
    /\ load \in 1..(Loads + 1)
    /\ total \in Pairs
    /\ prev \in Pairs
    /\ reported \in [bytes : Nat, packets : Nat]
    /\ reports \in 0..MaxReports
    /\ \A i \in DOMAIN summaries : summaries[i] \in Pairs

\* The sums of the first k values of g, for every k.
Sums(g) ==
    LET s[k \in 0..N] == IF k = 0 THEN 0 ELSE s[k - 1] + g[k]
    IN  s

Values(field) == [w \in Workers |-> counters[w][field]]

SumOf(field) == Sums(Values(field))[N]

\* The intervals add up to the running total of the last one, and never to more
\* than was transferred, in variables that stay in their domains: although the
\* counters move while reporter_loop() sums them, no interval counts a transfer
\* twice, and none is negative and wraps.
IntervalsAddUp ==
    /\ TypeOK
    /\ reported = prev
    /\ prev.bytes =< SumOf("bytes") /\ prev.packets =< SumOf("packets")

\* The summary is exact and final: it is the sum of the counters, and nothing
\* changes them once print_summary() reads them, because main() waited for every
\* worker, of this process or of another; and the reporter is gone by then.
SummaryFinal ==
    /\ \A i \in DOMAIN summaries :
          summaries[i] = Pair(SumOf("bytes"), SumOf("packets"))
    /\ mpc \in {"summary", "done"} => rpc = "done"

AllTold == \A p \in Alive : stop[p]

\* A client returns; a server returns once each of its processes got a signal,
\* also when the signals come while main() is still forking.
Returns == cfg.client \/ AllTold ~> mpc = "done"
================================================================================
