--------------------------- MODULE WritePipeline ---------------------------
(***************************************************************************)
(* The write queue of src/daemon/plugin.c and the dispatch path around   *)
(* it: plugin_dispatch_metric_family (load shedding with                  *)
(* check_drop_value, then enqueue_metric_family / write_queue_enqueue),   *)
(* the write threads (start_write_threads, plugin_write_thread,          *)
(* plugin_write_dequeue), the                                              *)
(* work each of them does per item (plugin_dispatch_metric_internal: pre- *)
(* cache chain, uc_update, post-cache chain or fc_default_action, which   *)
(* writes to every write callback), and stop_write_threads.               *)
(*                                                                         *)
(* An item is one metric family copy; `fate' follows it from the         *)
(* dispatching thread to its end.                                          *)
(***************************************************************************)
EXTENDS Integers, Sequences, FiniteSets, Shedding

CONSTANTS
  Writers,            \* the write threads start_write_threads is asked for
  Producers,          \* threads calling plugin_dispatch_metric_family
  Items,              \* pool of metric family copies
  WriteQueueLimitHigh, \* WriteQueueLimitHigh as configured
  WriteQueueLimitLow,  \* WriteQueueLimitLow as configured, or Unset
  PreCacheChain,      \* whether a pre-cache chain is configured
  RecordStatistics,   \* record_statistics (CollectInternalStats)
  RawHighs,           \* values WriteQueueLimitHigh may be configured to
  RawLows,            \* values WriteQueueLimitLow may be configured to
  None

ASSUME /\ Writers # {} /\ Producers # {}
       /\ PreCacheChain \in BOOLEAN /\ RecordStatistics \in BOOLEAN

VARIABLES
  phase,      \* "init", "running", "stopping" (write_loop cleared), "down" (stopped)
  allocated,  \* write_threads != NULL: the calloc of start_write_threads succeeded
  started,    \* the write threads pthread_create started
  write_loop,
  queue,      \* write_queue_head .. write_queue_tail
  wql,        \* write_queue_length
  wpc,        \* program counter of each write thread
  witem,      \* the item a write thread dequeued
  ppc,        \* program counter of each producer
  pitem,      \* the copy a producer is about to enqueue
  fate,       \* fate[i]
  dropped     \* stats_values_dropped

vars == <<phase, allocated, started, write_loop, queue, wql, wpc, witem, ppc, pitem, fate, dropped>>

Fates == {"unused", "copied", "queued", "taken", "stopped", "written",
          "discarded", "dropped", "failed"}

\* write_limit_high and write_limit_low as plugin_init_all leaves them
WriteLimits == NormLimits(WriteQueueLimitHigh, WriteQueueLimitLow)

\* Outcomes of check_drop_value (Shedding) for a queue length, over the
\* draws of cdrand_d()
DropOutcomes(len) == {check_drop_value(len, WriteLimits, k) : k \in 0 .. Grid - 1}

\* pthread_cond_signal: one thread waiting on write_cond, if any, wakes.
SignalOne(pc) ==
  IF \E w \in Writers : pc[w] = "wait"
  THEN {[pc EXCEPT ![w] = "dequeue"] : w \in {x \in Writers : pc[x] = "wait"}}
  ELSE {pc}

BroadcastAll(pc) == [w \in Writers |-> IF pc[w] = "wait" THEN "dequeue" ELSE pc[w]]

Init ==
  /\ phase = "init"
  /\ allocated = FALSE /\ started = {}
  /\ write_loop = TRUE
  /\ queue = <<>>
  /\ wql = 0
  /\ wpc = [w \in Writers |-> "loop"]
  /\ witem = [w \in Writers |-> None]
  /\ ppc = [p \in Producers |-> "idle"]
  /\ pitem = [p \in Producers |-> None]
  /\ fate = [i \in Items |-> "unused"]
  /\ dropped = 0

-----------------------------------------------------------------------------
(* start_write_threads, from plugin_init_all before any read thread runs:
   when the calloc of write_threads fails it returns with none started;
   else pthread_create starts threads until one fails, and
   write_threads_num counts those started.  The threads are alike, so any
   set of them stands for the first k.  plugin_init_all ignores both
   failures. *)
start_write_threads ==
  /\ phase = "init"
  /\ phase' = "running"
  /\ \/ allocated' = FALSE /\ started' = {}
     \/ allocated' = TRUE /\ started' \in SUBSET Writers
  /\ UNCHANGED <<write_loop, queue, wql, wpc, witem, ppc, pitem, fate, dropped>>

(* plugin_dispatch_metric_family up to the enqueue: check_drop_value reads
   write_queue_length under write_lock; a drop counts in
   stats_values_dropped when record_statistics is set, otherwise enqueue_metric_family makes the copy
   (metric_family_clone and the calloc of the queue node, either of which
   may fail: the caller gets the error and the sample is gone). *)
DispatchCheck(p, i) ==
  /\ phase = "running"   \* producers are read threads, joined first
  /\ ppc[p] = "idle"
  /\ fate[i] = "unused"
  /\ \E drop \in DropOutcomes(wql) :
       IF drop
       THEN /\ fate' = [fate EXCEPT ![i] = "dropped"]
            /\ dropped' = IF RecordStatistics THEN dropped + 1 ELSE dropped
            /\ UNCHANGED <<ppc, pitem>>
       ELSE \/ /\ fate' = [fate EXCEPT ![i] = "copied"]
               /\ ppc' = [ppc EXCEPT ![p] = "enqueue"]
               /\ pitem' = [pitem EXCEPT ![p] = i]
               /\ UNCHANGED dropped
            \/ /\ fate' = [fate EXCEPT ![i] = "failed"]
               /\ UNCHANGED <<ppc, pitem, dropped>>
  /\ UNCHANGED <<phase, allocated, started, write_loop, queue, wql, wpc, witem>>

\* (mutant) pthread_cond_signal left out
write_queue_enqueue_nosignal(p) ==
  LET i == pitem[p]
  IN /\ ppc[p] = "enqueue"
     /\ queue' = Append(queue, i)
     /\ wql' = IF queue = << >> THEN 1 ELSE wql + 1
     /\ fate' = [fate EXCEPT ![i] = "queued"]
     /\ ppc' = [ppc EXCEPT ![p] = "idle"]
     /\ pitem' = [pitem EXCEPT ![p] = None]
     /\ UNCHANGED <<phase, allocated, started, write_loop, wpc, witem, dropped>>

(* write_queue_enqueue: under write_lock, an empty queue (write_queue_tail
   NULL) takes the node as head and tail and sets write_queue_length to the
   node count, 1; otherwise the node is linked after the tail and the length
   grows by 1.  Then one waiting thread is signalled. *)
write_queue_enqueue(p) ==
  LET i == pitem[p]
  IN /\ ppc[p] = "enqueue"
     /\ queue' = Append(queue, i)
     /\ wql' = IF queue = << >> THEN 1 ELSE wql + 1
     /\ wpc' \in SignalOne(wpc)
     /\ fate' = [fate EXCEPT ![i] = "queued"]
     /\ ppc' = [ppc EXCEPT ![p] = "idle"]
     /\ pitem' = [pitem EXCEPT ![p] = None]
     /\ UNCHANGED <<phase, allocated, started, write_loop, witem, dropped>>

-----------------------------------------------------------------------------
(* plugin_write_thread *)

\* (mutant) the loop tests a flag that is never cleared
WriteLoopTest_forever(w) ==
  /\ wpc[w] = "loop"
  /\ wpc' = [wpc EXCEPT ![w] = "dequeue"]
  /\ UNCHANGED <<phase, allocated, started, write_loop, queue, wql, witem, ppc, pitem, fate, dropped>>

\* while (write_loop), read without write_lock
WriteLoopTest(w) ==
  /\ wpc[w] = "loop"
  /\ wpc' = [wpc EXCEPT ![w] = IF write_loop THEN "dequeue" ELSE "exited"]
  /\ UNCHANGED <<phase, allocated, started, write_loop, queue, wql, witem, ppc, pitem, fate, dropped>>

\* (mutant) write_queue_length decremented before the NULL check
plugin_write_dequeue_decfirst(w) ==
  /\ wpc[w] = "dequeue"
  /\ \/ /\ write_loop /\ queue = <<>>
        /\ wpc' = [wpc EXCEPT ![w] = "wait"]
        /\ UNCHANGED <<queue, wql, witem, fate>>
     \/ /\ ~write_loop /\ queue = <<>>
        /\ wql' = wql - 1
        /\ wpc' = [wpc EXCEPT ![w] = "loop"]
        /\ UNCHANGED <<queue, witem, fate>>
     \/ /\ queue # <<>>
        /\ queue' = Tail(queue)
        /\ wql' = wql - 1
        /\ witem' = [witem EXCEPT ![w] = Head(queue)]
        /\ fate' = [fate EXCEPT ![Head(queue)] = "taken"]
        /\ wpc' = [wpc EXCEPT ![w] = "process"]
  /\ UNCHANGED <<phase, allocated, started, write_loop, ppc, pitem, dropped>>

\* plugin_write_dequeue, one pass of its critical section: wait while the
\* loop runs and the queue is empty, return NULL when stopping and empty,
\* otherwise take the head
plugin_write_dequeue(w) ==
  /\ wpc[w] = "dequeue"
  /\ \/ /\ write_loop /\ queue = <<>>
        /\ wpc' = [wpc EXCEPT ![w] = "wait"]
        /\ UNCHANGED <<queue, wql, witem, fate>>
     \/ /\ ~write_loop /\ queue = <<>>
        /\ wpc' = [wpc EXCEPT ![w] = "loop"]
        /\ UNCHANGED <<queue, wql, witem, fate>>
     \/ /\ queue # <<>>
        /\ queue' = Tail(queue)
        /\ wql' = wql - 1
        /\ witem' = [witem EXCEPT ![w] = Head(queue)]
        /\ fate' = [fate EXCEPT ![Head(queue)] = "taken"]
        /\ wpc' = [wpc EXCEPT ![w] = "process"]
  /\ UNCHANGED <<phase, allocated, started, write_loop, ppc, pitem, dropped>>

\* plugin_dispatch_metric_internal then metric_family_free: a pre-cache
\* chain may answer FC_TARGET_STOP (no cache update, no write); otherwise
\* uc_update and the post-cache chain or fc_default_action write it
plugin_dispatch_metric_internal(w) ==
  LET i == witem[w]
  IN /\ wpc[w] = "process"
     /\ \E stop \in IF PreCacheChain THEN BOOLEAN ELSE {FALSE} :
          fate' = [fate EXCEPT ![i] = IF stop THEN "stopped" ELSE "written"]
     /\ witem' = [witem EXCEPT ![w] = None]
     /\ wpc' = [wpc EXCEPT ![w] = "loop"]
     /\ UNCHANGED <<phase, allocated, started, write_loop, queue, wql, ppc, pitem, dropped>>

-----------------------------------------------------------------------------
(* stop_write_threads *)

(* clear write_loop and broadcast write_cond under write_lock; with
   write_threads NULL, stop_write_threads returns at once and the queue is
   neither joined nor freed *)
StopWriteThreads ==
  /\ phase = "running"
  /\ \A p \in Producers : ppc[p] = "idle"
  /\ IF allocated
     THEN /\ phase' = "stopping"
          /\ write_loop' = FALSE
          /\ wpc' = BroadcastAll(wpc)
     ELSE /\ phase' = "down"
          /\ UNCHANGED <<write_loop, wpc>>
  /\ UNCHANGED <<allocated, started, queue, wql, witem, ppc, pitem, fate, dropped>>

\* after joining every write thread: free what is left in the queue and
\* log how many metrics were lost
DrainQueue ==
  /\ phase = "stopping"
  /\ \A w \in started : wpc[w] = "exited"
  /\ phase' = "down"
  /\ queue' = <<>>
  /\ wql' = 0
  /\ fate' = [i \in Items |-> IF i \in {queue[k] : k \in DOMAIN queue}
                              THEN "discarded" ELSE fate[i]]
  /\ UNCHANGED <<allocated, started, write_loop, wpc, witem, ppc, pitem, dropped>>

\* the process exits after plugin_shutdown_all
Terminated ==
  /\ phase = "down"
  /\ \A p \in Producers : ppc[p] = "idle"
  /\ UNCHANGED vars

Writer(w) == w \in started /\ (WriteLoopTest(w) \/ plugin_write_dequeue(w) \/ plugin_dispatch_metric_internal(w))

Next ==
  \/ start_write_threads
  \/ \E w \in Writers : Writer(w)
  \/ \E p \in Producers, i \in Items : DispatchCheck(p, i)
  \/ \E p \in Producers : write_queue_enqueue(p)
  \/ StopWriteThreads
  \/ DrainQueue
  \/ Terminated

\* The OS keeps scheduling runnable threads; a producer that has made its
\* copy finishes the enqueue; nothing forces more dispatches or a shutdown.
Fairness ==
  /\ \A w \in Writers : WF_vars(Writer(w))
  /\ \A p \in Producers : WF_vars(write_queue_enqueue(p))
  /\ WF_vars(DrainQueue)

Spec == Init /\ [][Next]_vars /\ Fairness


-----------------------------------------------------------------------------
(* Properties *)

Range(s) == {s[k] : k \in DOMAIN s}

TypeOK ==
  /\ phase \in {"init", "running", "stopping", "down"}
  /\ allocated \in BOOLEAN /\ started \subseteq Writers
  /\ write_loop \in BOOLEAN
  /\ queue \in Seq(Items)
  /\ wql \in 0..Cardinality(Items)
  /\ wpc \in [Writers -> {"loop", "dequeue", "wait", "process", "exited"}]
  /\ witem \in [Writers -> Items \cup {None}]
  /\ ppc \in [Producers -> {"idle", "enqueue"}]
  /\ pitem \in [Producers -> Items \cup {None}]
  /\ fate \in [Items -> Fates]
  /\ dropped \in 0..Cardinality(Items)

\* check_drop_value samples write_queue_length and releases write_lock
\* before the copy is enqueued, so the queue may pass the high-water mark,
\* but by less than one item per dispatching thread.
QueueOvershoot ==
  WriteLimits.high > 0 => wql < WriteLimits.high + Cardinality(Producers)

\* When start_write_threads started a write thread, every item that
\* reached the queue is eventually taken by a write thread and run through
\* plugin_dispatch_metric_internal, or counted among the items freed by
\* stop_write_threads.
ItemsHandled ==
  \A i \in Items :
    fate[i] = "queued" ~> (fate[i] \in {"written", "stopped", "discarded"} \/ started = {})

\* Once stop_write_threads clears write_loop, every write thread leaves
\* plugin_write_thread, so the pthread_join calls return.
WritersTerminate ==
  ~write_loop ~> \A w \in started : wpc[w] = "exited"

\* every configuration plugin_init_all may read
Configs == RawHighs \X (RawLows \cup {Unset})

\* p as seen by the shedding code, 0 when shedding is disabled
P(len, lim) ==
  IF lim.high = 0 THEN [num |-> 0, den |-> 1]
  ELSE get_drop_probability(len, lim)

LeqP(a, b) == a.num * b.den <= b.num * a.den

\* At every queue length the pipeline reaches, and whatever the
\* configuration, plugin_init_all leaves limits for which
\* get_drop_probability is a probability that is 0 below the low-water
\* mark, 1 at or above the high-water mark, and never lower at a shorter
\* queue (spec 4.4).
ProbabilityWellDefined ==
  \A cfg \in Configs :
    LET lim == NormLimits(cfg[1], cfg[2])
    IN /\ lim \in [high : Nat, low : Nat]
       /\ lim.low <= lim.high
       /\ LeqP([num |-> 0, den |-> 1], P(wql, lim))
       /\ LeqP(P(wql, lim), [num |-> 1, den |-> 1])
       /\ lim.high > 0 /\ wql >= lim.high => P(wql, lim).num = P(wql, lim).den
       /\ wql < lim.low => P(wql, lim).num = 0
       /\ \A x \in 0 .. wql : LeqP(P(x, lim), P(wql, lim))
====
