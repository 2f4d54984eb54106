------------------------------- MODULE Daemon -------------------------------
(***************************************************************************)
(* The parent process of the stand-alone server: standalone_server_loop(), *)
(* fork(), the accounting of finished children in sig_child(), and gc_pid, *)
(* by which it keeps to one garbage collection at a time                   *)
(* (Daemon/Implementation/HTDaemon.c).                                     *)
(*                                                                         *)
(* sig_child() runs in two places: the loop calls it after every fork(),   *)
(* and set_signals() installs it as the handler of SIGCLD.  The handler    *)
(* runs to its end before the loop goes on, but it may start between any   *)
(* two steps of the loop, those of the loop's own sig_child() included.    *)
(* A frame is the state of one call.                                       *)
(***************************************************************************)
EXTENDS Integers, FiniteSets

CONSTANTS
    Pid,          \* process ids; an id is free again once it was waited for
    NoPid,        \* 0, or no process
    cache_max_k,  \* of cc: cache usage at which a gc is due
    AfterGc,      \* cache usage a gc reports
    MaxArrivals,  \* bound: number of connections that arrive
    MaxDays       \* bound: number of times the daily gc time comes

ASSUME DaemonAssumption ==
    /\ NoPid \notin Pid
    /\ cache_max_k \in Nat
    /\ AfterGc \in Nat
    /\ MaxArrivals \in Nat
    /\ MaxDays \in Nat

VARIABLES
    loop_pc,      \* where the loop is
    gc_pid,       \* the process id of the running gc, as the parent believes
    do_gc,        \* the child being forked will do gc upon exit
    pid,          \* what fork() returned
    HTCacheUsage, \* how full the cache is, in kilobytes
    child,        \* child[z]: what the process with id z is
    exit_status,  \* exit_status[z]: that of a child, in kilobytes
    sigcld,       \* SIGCLD is pending
    frame,        \* frame[f]: the state of sig_child() in the loop, the handler
    queue,        \* connections waiting to be accepted
    arrivals,     \* bounded counter of connections
    days          \* bounded counter of daily gc times

process == <<child, exit_status, sigcld>>
bounds == <<queue, arrivals, days>>
loop == <<loop_pc, do_gc, pid>>
daemonVars == <<loop, gc_pid, HTCacheUsage, process, frame, bounds>>

Context == {"main", "handler"}

\* A child serves a request ("serve"), does so and a gc upon exit ("serveGc"),
\* or was forked for the daily gc ("gc"); then it waits to be waited for.
Collecting == {"gc", "serveGc", "zombieGc"}
Zombie == {"zombie", "zombieGc"}
Running == {"serve", "serveGc", "gc"}

\* The state of one call of sig_child().
Frame == [at : {"off", "wait", "check", "load", "store"},
          z : Pid \cup {NoPid}, old : Nat]

DaemonTypeOK ==
    /\ loop_pc \in {"top", "select", "accept", "fork", "parent", "store_gc", "reap"}
    /\ gc_pid \in Pid \cup {NoPid}
    /\ do_gc \in BOOLEAN
    /\ pid \in Pid \cup {NoPid}
    /\ HTCacheUsage \in Nat
    /\ child \in [Pid -> {"none"} \cup Running \cup Zombie]
    /\ exit_status \in [Pid -> {0, 1}]
    /\ sigcld \in BOOLEAN
    /\ frame \in [Context -> Frame]
    /\ queue \in Nat /\ arrivals \in Nat /\ days \in Nat

Idle == [at |-> "off", z |-> NoPid, old |-> 0]

\* The loop is entered after read_gc_results() recovered the last usage.
DaemonInit ==
    /\ loop_pc = "top"
    /\ gc_pid = NoPid
    /\ do_gc = FALSE
    /\ pid = NoPid
    /\ HTCacheUsage \in 0..cache_max_k
    /\ child = [z \in Pid |-> "none"]
    /\ exit_status = [z \in Pid |-> 0]
    /\ sigcld = FALSE
    /\ frame = [f \in Context |-> Idle]
    /\ queue = 0 /\ arrivals = 0 /\ days = 0

\* The loop runs: no signal handler has interrupted it.
LoopRuns == frame["handler"].at = "off"

-----------------------------------------------------------------------------
(* standalone_server_loop                                                  *)

\* get_next_timeout() is negative while a gc runs: then accept() at once, and
\* without a timeout; otherwise select() until the next daily gc.
Top ==
    /\ LoopRuns /\ loop_pc = "top"
    /\ loop_pc' = IF gc_pid # NoPid THEN "accept" ELSE "select"
    /\ UNCHANGED <<do_gc, pid, gc_pid, HTCacheUsage, process, frame, bounds>>

\* select() says that there is a connection.
SelectReady ==
    /\ LoopRuns /\ loop_pc = "select" /\ queue > 0
    /\ loop_pc' = "accept"
    /\ UNCHANGED <<do_gc, pid, gc_pid, HTCacheUsage, process, frame, bounds>>

\* fork() returned an unused process id, or failed.
ForkInto(what) ==
    \/ \E z \in Pid :
          /\ child[z] = "none"
          /\ child' = [child EXCEPT ![z] = what]
          /\ pid' = z
    \/ pid' = NoPid /\ UNCHANGED child

\* select() timed out: fork the daily gc.
SelectTimeout ==
    /\ LoopRuns /\ loop_pc = "select" /\ days < MaxDays
    /\ days' = days + 1
    /\ ForkInto("gc")
    /\ loop_pc' = "store_gc"
    /\ UNCHANGED <<do_gc, gc_pid, HTCacheUsage, exit_status, sigcld, frame, queue, arrivals>>

\* gc_pid = fork(): the assignment.
StoreGc ==
    /\ LoopRuns /\ loop_pc = "store_gc"
    /\ gc_pid' = pid
    /\ loop_pc' = "top"
    /\ UNCHANGED <<do_gc, pid, HTCacheUsage, process, frame, bounds>>

\* Mutant: whether a gc is running is not asked.
AcceptConnection_NoPidCheck ==
    /\ LoopRuns /\ loop_pc = "accept" /\ queue > 0
    /\ queue' = queue - 1
    /\ do_gc' = (HTCacheUsage >= cache_max_k)
    /\ loop_pc' = "fork"
    /\ UNCHANGED <<pid, gc_pid, HTCacheUsage, process, frame, arrivals, days>>

\* accept() returns a connection; time_to_do_gc() is asked unless a gc runs.
\* (That it may also be the time of the daily gc is left out: the window is
\* one second.)
AcceptConnection ==
    /\ LoopRuns /\ loop_pc = "accept" /\ queue > 0
    /\ queue' = queue - 1
    /\ do_gc' = (gc_pid = NoPid /\ HTCacheUsage >= cache_max_k)
    /\ loop_pc' = "fork"
    /\ UNCHANGED <<pid, gc_pid, HTCacheUsage, process, frame, arrivals, days>>

ForkChild ==
    /\ LoopRuns /\ loop_pc = "fork"
    /\ ForkInto(IF do_gc THEN "serveGc" ELSE "serve")
    /\ loop_pc' = "parent"
    /\ UNCHANGED <<do_gc, gc_pid, HTCacheUsage, exit_status, sigcld, frame, bounds>>

\* The parent after fork(): note the id of a child that will do gc, then call
\* sig_child().
AfterFork ==
    /\ LoopRuns /\ loop_pc = "parent"
    /\ gc_pid' = IF do_gc /\ pid # NoPid THEN pid ELSE gc_pid
    /\ do_gc' = FALSE
    /\ frame' = [frame EXCEPT !["main"].at = "wait"]
    /\ loop_pc' = "reap"
    /\ UNCHANGED <<pid, HTCacheUsage, process, bounds>>

-----------------------------------------------------------------------------
(* sig_child, in the loop or in the handler                                *)

Runs(f) == f = "main" => LoopRuns

Return(f) ==
    /\ frame' = [frame EXCEPT ![f] = Idle]
    /\ loop_pc' = IF f = "main" THEN "top" ELSE loop_pc

\* Mutant: if for while: one child is waited for per call.
NextChild_One(f) == Return(f)

\* Back to the waitpid() of the while loop.
NextChild(f) ==
    /\ frame' = [frame EXCEPT ![f].at = "wait"]
    /\ UNCHANGED loop_pc

\* waitpid(-1, &status, WNOHANG)
Waitpid(f) ==
    /\ Runs(f) /\ frame[f].at = "wait"
    /\ \/ \E z \in Pid :
             /\ child[z] \in Zombie
             /\ child' = [child EXCEPT ![z] = "none"]
             /\ frame' = [frame EXCEPT ![f].at = "check", ![f].z = z]
             /\ UNCHANGED loop_pc
       \/ /\ \A z \in Pid : child[z] \notin Zombie
          /\ Return(f)
          /\ UNCHANGED child
    /\ UNCHANGED <<do_gc, pid, gc_pid, HTCacheUsage, exit_status, sigcld, bounds>>

\* The gc has completed: read_gc_results() replaces the usage.
CheckGc(f) ==
    /\ Runs(f) /\ frame[f].at = "check"
    /\ gc_pid' = IF frame[f].z = gc_pid THEN NoPid ELSE gc_pid
    /\ HTCacheUsage' = IF frame[f].z = gc_pid THEN AfterGc ELSE HTCacheUsage
    /\ frame' = [frame EXCEPT ![f].at = "load"]
    /\ UNCHANGED <<loop, process, bounds>>

\* HTCacheUsage += child_usage is a load and a store.
LoadUsage(f) ==
    /\ Runs(f) /\ frame[f].at = "load"
    /\ frame' = [frame EXCEPT ![f].at = "store", ![f].old = HTCacheUsage]
    /\ UNCHANGED <<loop, gc_pid, HTCacheUsage, process, bounds>>

StoreUsage(f) ==
    /\ Runs(f) /\ frame[f].at = "store"
    /\ HTCacheUsage' = frame[f].old + exit_status[frame[f].z]
    /\ NextChild(f)
    /\ UNCHANGED <<do_gc, pid, gc_pid, process, bounds>>

\* SIGCLD is delivered.  A blocked select() or accept() fails with EINTR, and
\* the loop starts over.
DeliverSigcld ==
    /\ LoopRuns /\ sigcld
    /\ sigcld' = FALSE
    /\ frame' = [frame EXCEPT !["handler"].at = "wait"]
    /\ loop_pc' = IF loop_pc = "select" \/ (loop_pc = "accept" /\ queue = 0) THEN "top"
                   ELSE loop_pc
    /\ UNCHANGED <<do_gc, pid, gc_pid, HTCacheUsage, child, exit_status, bounds>>

-----------------------------------------------------------------------------
(* The children, the clients                                               *)

\* A child exits, its status telling how much it has cached.
Exit(z) ==
    /\ child[z] \in Running
    /\ child' = [child EXCEPT ![z] = IF @ = "serve" THEN "zombie" ELSE "zombieGc"]
    /\ \E k \in IF child[z] = "gc" THEN {0} ELSE {0, 1} :
          exit_status' = [exit_status EXCEPT ![z] = k]
    /\ sigcld' = TRUE
    /\ UNCHANGED <<loop, gc_pid, HTCacheUsage, frame, bounds>>

Connect ==
    /\ arrivals < MaxArrivals
    /\ arrivals' = arrivals + 1
    /\ queue' = queue + 1
    /\ UNCHANGED <<loop, gc_pid, HTCacheUsage, process, frame, days>>

SigChild(f) == Waitpid(f) \/ CheckGc(f) \/ LoadUsage(f) \/ StoreUsage(f)

Loop ==
    \/ Top \/ SelectReady \/ StoreGc \/ AcceptConnection \/ ForkChild \/ AfterFork
    \/ SigChild("main")

DaemonNext ==
    \/ Loop
    \/ SelectTimeout
    \/ SigChild("handler")
    \/ DeliverSigcld
    \/ \E z \in Pid : Exit(z)
    \/ Connect

DaemonSpec == DaemonInit /\ [][DaemonNext]_daemonVars

\* The kernel runs the parent and delivers its signals.
DaemonFairSpec ==
    /\ DaemonSpec
    /\ WF_daemonVars(Loop)
    /\ WF_daemonVars(SigChild("handler"))
    /\ WF_daemonVars(DeliverSigcld)

-----------------------------------------------------------------------------
(* Properties                                                              *)

\* At most one child is collecting garbage or will do so upon exit.
SingleGc ==
    \A y, z \in Pid : child[y] \in Collecting /\ child[z] \in Collecting => y = z

\* Signals are not queued: several children may exit and leave one SIGCLD, and
\* yet every child that has exited is waited for, connections or not.
ZombiesReaped ==
    \A z \in Pid : child[z] \in Zombie ~> child[z] \notin Zombie

\* The comment at accept: "Have do select because we might need to turn timeout
\* on this time (if gc just returned)": the parent is blocked in accept(), deaf
\* to the time of the daily gc, only while a gc is running.
DeafOnlyDuringGc ==
    loop_pc = "accept" /\ queue = 0 /\ LoopRuns /\ ~sigcld
        => \E z \in Pid : child[z] \in Collecting

=============================================================================
