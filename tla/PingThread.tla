----------------------------- MODULE PingThread -----------------------------
(***************************************************************************)
(* The ping plugin, src/plugins/ping/ping.c: the thread ping_thread that    *)
(* sends ICMP echo requests and counts the answers per host under          *)
(* ping_lock, the read callback ping_read that takes and resets the        *)
(* counters (and restarts the thread once it reported an error through     *)
(* ping_thread_error), start_thread / stop_thread, ping_init and           *)
(* ping_shutdown.                                                          *)
(*                                                                         *)
(* Each action is one stretch of code that holds ping_lock at most once,   *)
(* or touches only data of its own thread; ping_send and the set-up of the *)
(* ping object are local to the thread.  Failures of the environment       *)
(* (ping_construct, ping_host_add, gettimeofday, the re-add of a resolve)  *)
(* are choices that spend one of MaxFaults; a lost or failed echo is not   *)
(* a fault.  Failure of plugin_thread_create is a choice at ping_init and, *)
(* when RestartCreateMayFail, in the restart done by ping_read.            *)
(***************************************************************************)
EXTENDS Integers, Sequences, FiniteSets

CONSTANTS
  HostList,              \* hostlist_head, in list order ("Host" options)
  MaxMissed,             \* ping_max_missed ("MaxMissed"), >= 0 here
  MaxCount,              \* bound on pkg_sent between two reads
  MaxFaults,             \* bound on environment failures
  RestartCreateMayFail,  \* plugin_thread_create may fail in ping_read
  UIntMod                \* 2^32, the range of uint32_t

Hosts == {HostList[i] : i \in 1..Len(HostList)}

ASSUME /\ HostList # << >> /\ Cardinality(Hosts) = Len(HostList)
       /\ MaxMissed \in Nat /\ MaxCount \in Nat \ {0} /\ MaxFaults \in Nat
       /\ RestartCreateMayFail \in BOOLEAN /\ UIntMod > MaxCount

VARIABLES
  phase,   \* "config", "running", "unloaded" (init failed), "stopping", "down", "leaked"
  loop,    \* ping_thread_loop
  err,     \* ping_thread_error
  tpc,     \* the ping thread: "none", "start", "send", "wait", "exited"
  inObj,   \* hosts in the thread's ping object
  sent,    \* pkg_sent per host
  recv,    \* pkg_recv per host
  missed,  \* pkg_missed per host
  rpc,     \* ping_read: "idle", "hosts", "join"
  todo,    \* the rest of hostlist_head ping_read has still to visit
  snap,    \* the last drop rate reported: pkg_sent and pkg_sent - pkg_recv
  faults   \* environment failures so far

vars == <<phase, loop, err, tpc, inObj, sent, recv, missed, rpc, todo, snap, faults>>

TPCs == {"none", "start", "send", "wait", "exited"}

\* uint32_t arithmetic
Wrap32(x) == x % UIntMod

\* a step that meets an environment failure spends one of MaxFaults
Spend(fail) == IF fail THEN faults < MaxFaults /\ faults' = faults + 1
               ELSE UNCHANGED faults

\* the thread returns: ping_destroy; ping_thread_error set when e = 1
ThreadExit(e) == /\ tpc' = "exited" /\ inObj' = {}
                 /\ err' = IF e = 1 THEN 1 ELSE err

Init ==
  /\ phase = "config"
  /\ loop = 0 /\ err = 0
  /\ tpc = "none" /\ inObj = {}
  /\ sent = [h \in Hosts |-> 0] /\ recv = [h \in Hosts |-> 0]
  /\ missed = [h \in Hosts |-> 0]
  /\ rpc = "idle" /\ todo = << >>
  /\ snap = [sent |-> 0, num |-> 0]
  /\ faults = 0

-----------------------------------------------------------------------------
(* start_thread under ping_lock: nothing if a thread is flagged running;
   otherwise set the flags and create the thread, clearing the loop flag
   again if plugin_thread_create fails (ok = FALSE). *)
start_thread(ok) ==
  IF loop # 0 THEN UNCHANGED <<loop, err, tpc>>
  ELSE /\ err' = 0
       /\ loop' = IF ok THEN 1 ELSE 0
       /\ tpc' = IF ok THEN "start" ELSE tpc

(* ping_init: a host is configured (HostList # << >>), so it starts the thread;
   its failure fails the init, and plugin_init_all unregisters the read
   callback. *)
ping_init(ok) ==
  /\ phase = "config"
  /\ start_thread(ok)
  /\ phase' = IF ok THEN "running" ELSE "unloaded"
  /\ UNCHANGED <<inObj, sent, recv, missed, rpc, todo, snap, faults>>

\* (mutant) a ping object without hosts ends the thread silently
ThreadStart_noerr(f, added) ==
  /\ tpc = "start"
  /\ f = "construct" => added = Hosts
  /\ Spend(f # "none" \/ added # Hosts)
  /\ \/ /\ f = "construct"
        /\ ThreadExit(1)
     \/ /\ f # "construct" /\ added = {}
        /\ ThreadExit(0)
     \/ /\ f # "construct" /\ added # {}
        /\ IF loop > 0 /\ f = "none"
           THEN tpc' = "send" /\ inObj' = added /\ UNCHANGED err
           ELSE ThreadExit(IF loop > 0 THEN 1 ELSE 0)
  /\ UNCHANGED <<phase, loop, sent, recv, missed, rpc, todo, snap>>

(* ping_thread up to its first unlock: ping_construct may fail (f =
   "construct"); the hosts whose ping_host_add succeeds are `added'; none
   added gives up with the error flag; then, under ping_lock, the loop
   test and gettimeofday (f = "gettime"). *)
ThreadStart(f, added) ==
  /\ tpc = "start"
  /\ f = "construct" => added = Hosts
  /\ Spend(f # "none" \/ added # Hosts)
  /\ \/ /\ f = "construct" \/ added = {}
        /\ ThreadExit(1)
     \/ /\ f # "construct" /\ added # {}
        /\ IF loop > 0 /\ f = "none"
           THEN tpc' = "send" /\ inObj' = added /\ UNCHANGED err
           ELSE ThreadExit(IF loop > 0 THEN 1 ELSE 0)
  /\ UNCHANGED <<phase, loop, sent, recv, missed, rpc, todo, snap>>

\* (mutant) a resolve leaves pkg_missed as it was
ping_dispatch_all_noreset(ans, lost) ==
  LET m1(h) == IF h \in ans THEN 0 ELSE missed[h] + 1
  IN /\ lost \subseteq {h \in inObj : m1(h) >= MaxMissed}
     /\ sent' = [h \in Hosts |-> IF h \in inObj THEN sent[h] + 1 ELSE sent[h]]
     /\ recv' = [h \in Hosts |-> IF h \in ans THEN recv[h] + 1 ELSE recv[h]]
     /\ missed' = [h \in Hosts |-> IF h \in inObj THEN m1(h) ELSE missed[h]]
     /\ inObj' = inObj \ lost

(* ping_dispatch_all, under ping_lock: every host of the ping object got
   one more echo, answered (ans) or not; an answer clears pkg_missed;
   MaxMissed misses in a row trigger a resolve, removing and re-adding the
   host, and a host whose re-add fails (lost) leaves the ping object. *)
ping_dispatch_all(ans, lost) ==
  LET m1(h) == IF h \in ans THEN 0 ELSE missed[h] + 1
  IN /\ lost \subseteq {h \in inObj : m1(h) >= MaxMissed}
     /\ sent' = [h \in Hosts |-> IF h \in inObj THEN sent[h] + 1 ELSE sent[h]]
     /\ recv' = [h \in Hosts |-> IF h \in ans THEN recv[h] + 1 ELSE recv[h]]
     /\ missed' = [h \in Hosts |-> IF h \notin inObj THEN missed[h]
                                   ELSE IF m1(h) >= MaxMissed THEN 0 ELSE m1(h)]
     /\ inObj' = inObj \ lost

(* One pass of the loop body after the unlock: ping_send (ok when it
   succeeds), then under ping_lock: leave if the loop flag was cleared,
   ping_dispatch_all after a successful send, gettimeofday, and the start
   of pthread_cond_timedwait, which releases the lock. *)
ThreadSend(ok, ans, lost, f) ==
  /\ tpc = "send"
  /\ ans \subseteq inObj
  /\ ok => \A h \in inObj : sent[h] < MaxCount
  /\ Spend(lost # {} \/ f = "gettime")
  /\ \/ /\ loop <= 0 /\ lost = {} /\ f = "none"
        /\ ThreadExit(0)
        /\ UNCHANGED <<sent, recv, missed>>
     \/ /\ loop > 0
        /\ IF ok THEN ping_dispatch_all(ans, lost)
           ELSE lost = {} /\ UNCHANGED <<sent, recv, missed, inObj>>
        /\ IF f = "gettime" THEN ThreadExit(1)
           ELSE tpc' = "wait" /\ UNCHANGED err
  /\ UNCHANGED <<phase, loop, rpc, todo, snap>>

(* The return from pthread_cond_timedwait, by timeout or by the broadcast
   of stop_thread, with ping_lock held: leave if the loop flag was cleared;
   otherwise the while test passes and gettimeofday comes before the next
   unlock. *)
ThreadWake(f) ==
  /\ tpc = "wait"
  /\ Spend(f = "gettime")
  /\ \/ /\ loop <= 0 /\ f = "none"
        /\ ThreadExit(0)
     \/ /\ loop > 0 /\ f = "gettime"
        /\ ThreadExit(1)
     \/ /\ loop > 0 /\ f = "none"
        /\ tpc' = "send"
        /\ UNCHANGED <<inObj, err>>
  /\ UNCHANGED <<phase, loop, sent, recv, missed, rpc, todo, snap>>

-----------------------------------------------------------------------------
(* ping_read, called by a read thread while the plugin is loaded: the test
   of ping_thread_error (read without ping_lock) and, on an error, the first
   half of stop_thread: clear the loop flag under ping_lock, broadcast, and
   go on to pthread_join.  stop_thread returns -1 without a join when the
   flag is already clear.  Without an error it goes over hostlist_head. *)
ping_read_begin ==
  /\ phase = "running" /\ rpc = "idle"
  /\ IF err # 0
     THEN IF loop = 0 THEN rpc' = "restart" /\ UNCHANGED loop
          ELSE loop' = 0 /\ rpc' = "join"
     ELSE rpc' = "hosts" /\ UNCHANGED loop
  /\ todo' = IF err # 0 THEN todo ELSE HostList
  /\ UNCHANGED <<phase, err, tpc, inObj, sent, recv, missed, snap, faults>>

(* The restart of ping_read after pthread_join has returned: stop_thread
   clears ping_thread_error; pkg_sent and pkg_recv of every host are reset
   (pkg_missed is not), and start_thread runs with the loop flag clear. *)
ReadRestart_norecvreset(ok) ==
  /\ rpc \in {"join", "restart"}
  /\ rpc = "join" => tpc = "exited"
  /\ sent' = [h \in Hosts |-> 0]
  /\ start_thread(ok)
  /\ rpc' = "idle"
  /\ UNCHANGED <<phase, inObj, recv, missed, todo, snap, faults>>

ReadRestart(ok) ==
  /\ rpc \in {"join", "restart"}
  /\ rpc = "join" => tpc = "exited"
  /\ sent' = [h \in Hosts |-> 0] /\ recv' = [h \in Hosts |-> 0]
  /\ start_thread(ok)
  /\ rpc' = "idle"
  /\ UNCHANGED <<phase, inObj, missed, todo, snap, faults>>

(* One host of the loop in ping_read: take pkg_sent and pkg_recv and reset
   them under ping_lock; a host with nothing sent is skipped; otherwise the
   drop rate (pkg_sent - pkg_recv) / pkg_sent is computed in uint32_t and
   reported.  After the last host the metric families are dispatched. *)
ping_read_host ==
  LET h == Head(todo)
  IN /\ rpc = "hosts"
     /\ sent' = [sent EXCEPT ![h] = 0]
     /\ recv' = [recv EXCEPT ![h] = 0]
     /\ snap' = IF sent[h] = 0 THEN snap
                ELSE [sent |-> sent[h], num |-> Wrap32(sent[h] - recv[h])]
     /\ todo' = Tail(todo)
     /\ rpc' = IF Tail(todo) = << >> THEN "idle" ELSE "hosts"
     /\ UNCHANGED <<phase, loop, err, tpc, inObj, missed, faults>>

-----------------------------------------------------------------------------
\* (mutant) the test of stop_thread copied from start_thread
ping_shutdown_inverted ==
  /\ phase \in {"running", "unloaded"} /\ rpc = "idle"
  /\ IF loop # 0 THEN phase' = "leaked" /\ UNCHANGED loop
     ELSE loop' = 0 /\ phase' = "stopping"
  /\ UNCHANGED <<err, tpc, inObj, sent, recv, missed, rpc, todo, snap, faults>>

(* ping_shutdown, called by plugin_shutdown_all after the read threads
   have stopped, and also when ping_init failed: stop_thread returns -1
   when no thread is flagged running, and ping_shutdown then returns -1
   without freeing hostlist_head; otherwise the loop flag is cleared and
   broadcast, and stop_thread goes on to pthread_join. *)
ping_shutdown ==
  /\ phase \in {"running", "unloaded"} /\ rpc = "idle"
  /\ IF loop = 0 THEN phase' = "leaked" /\ UNCHANGED loop
     ELSE loop' = 0 /\ phase' = "stopping"
  /\ UNCHANGED <<err, tpc, inObj, sent, recv, missed, rpc, todo, snap, faults>>

(* The rest of stop_thread in ping_shutdown once pthread_join has
   returned: clear ping_thread_error, then free the host list. *)
ShutdownJoin ==
  /\ phase = "stopping" /\ tpc = "exited"
  /\ err' = 0 /\ phase' = "down"
  /\ UNCHANGED <<loop, tpc, inObj, sent, recv, missed, rpc, todo, snap, faults>>

\* the daemon has shut the plugin down
Done == phase \in {"down", "leaked"} /\ UNCHANGED vars

-----------------------------------------------------------------------------
StartFaults == {"none", "construct", "gettime"}
TimeFaults == {"none", "gettime"}
RestartCreate == IF RestartCreateMayFail THEN BOOLEAN ELSE {TRUE}

Thread ==
  \/ \E f \in StartFaults, added \in SUBSET Hosts : ThreadStart(f, added)
  \/ \E ok \in BOOLEAN, ans, lost \in SUBSET Hosts, f \in TimeFaults :
        ThreadSend(ok, ans, lost, f)
  \/ \E f \in TimeFaults : ThreadWake(f)

Reader ==
  \/ ping_read_begin
  \/ ping_read_host
  \/ \E ok \in RestartCreate : ReadRestart(ok)

Next ==
  \/ \E ok \in BOOLEAN : ping_init(ok)
  \/ Thread
  \/ Reader
  \/ ping_shutdown
  \/ ShutdownJoin
  \/ Done

(* The ping thread and the read thread calling ping_read are scheduled
   fairly, and pthread_join returns once the thread has; when the daemon
   initialises or shuts the plugin down is not constrained. *)
Spec == Init /\ [][Next]_vars
        /\ WF_vars(Thread) /\ WF_vars(Reader) /\ WF_vars(ShutdownJoin)

-----------------------------------------------------------------------------
TypeOK ==
  /\ phase \in {"config", "running", "unloaded", "stopping", "down", "leaked"}
  /\ loop \in {0, 1} /\ err \in {0, 1}
  /\ tpc \in TPCs /\ inObj \subseteq Hosts
  /\ sent \in [Hosts -> 0..MaxCount] /\ recv \in [Hosts -> 0..MaxCount]
  /\ missed \in [Hosts -> 0..MaxMissed]
  /\ rpc \in {"idle", "hosts", "join", "restart"}
  /\ todo \in Seq(Hosts) /\ Len(todo) <= Len(HostList)
  /\ snap \in [sent : 0..MaxCount, num : 0..UIntMod - 1]
  /\ faults \in 0..MaxFaults

(* The drop rate ping_read reports lies in [0, 1]: the uint32_t difference
   pkg_sent - pkg_recv it takes never wraps past pkg_sent.  This needs the
   thread's increments, ping_read's per-host reset and the restart's reset
   of both counters to keep pkg_recv <= pkg_sent across every interleaving
   of ping_dispatch_all, ping_read and a restart after a thread error. *)
DropRateValid == snap.sent # 0 => snap.num <= snap.sent

\* the thread is in its ping loop with the loop flag set
Pinging == loop = 1 /\ tpc \in {"send", "wait"}

(* While the plugin is loaded the ping thread, whenever it is not in its
   loop, gets back into it: a thread that gave up (ping_construct,
   ping_host_add or gettimeofday failed) sets ping_thread_error, and
   ping_read stops and restarts it. *)
PingerRecovers == (phase = "running" /\ ~Pinging) ~> (Pinging \/ phase # "running")

(* Once ping_shutdown has cleared the loop flag the thread leaves its loop,
   from whichever of its stages it was in, and the shutdown completes. *)
ShutdownStopsThread == phase = "stopping" ~> (phase = "down" /\ tpc = "exited")

=============================================================================
