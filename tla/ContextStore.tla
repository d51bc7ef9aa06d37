---------------------------- MODULE ContextStore ----------------------------
(***************************************************************************)
(* The execution context of src/daemon/plugin.c (spec 4.1): the            *)
(* thread-specific plugin_ctx_t behind plugin_get_ctx / plugin_set_ctx,    *)
(* created lazily by plugin_ctx_create, whose malloc may fail, and every    *)
(* place that captures a context or installs one around a callback:        *)
(*   - plugin_init_all runs the init callback of plugin Owner under its    *)
(*     cf_ctx; the callback registers a read function (simple or complex,  *)
(*     capturing rf_ctx) and may start a thread with plugin_thread_create; *)
(*   - a read thread installs rf_ctx around the read callback, which       *)
(*     dispatches a metric family (enqueue_metric_family stamps it with    *)
(*     plugin_get_interval and captures the context in the queue item) and *)
(*     may start the thread;                                               *)
(*   - the started thread installs the captured context first          *)
(*     (plugin_thread_start) and dispatches too;                           *)
(*   - a write thread installs each item's context (plugin_write_dequeue)  *)
(*     and plugin_write runs every write callback under it, with the name  *)
(*     replaced by the writer's.                                           *)
(* The context is thread-local, so each thread's steps between two         *)
(* interactions with another thread (the queue, the creation of a thread)  *)
(* are one action.  A callback's view of its context is what               *)
(* plugin_get_interval / plugin_get_ctx return inside it; readObs and      *)
(* writeObs record these views.  A vector f of booleans                    *)
(* says which of a step's calls of plugin_ctx_create fail.                 *)
(***************************************************************************)
EXTENDS Integers, Sequences, FiniteSets

CONSTANTS
  Owner,            \* the plugin whose init and read callbacks run
  ListWrite,        \* the write callbacks of list_write, in list order
  NoName,           \* the name of ctx_init
  Intervals,        \* positive intervals
  RegInterval,      \* the interval argument of plugin_register_complex_read
  DefaultInterval,  \* cf_get_default_interval()
  Null,             \* pthread_getspecific returned NULL
  MaxReads,         \* bound on read callback invocations
  MaxFails          \* bound on failed plugin_ctx_create calls

Names == {Owner} \cup {ListWrite[i] : i \in 1..Len(ListWrite)}

ASSUME /\ ListWrite # << >> /\ Owner \notin {ListWrite[i] : i \in 1..Len(ListWrite)}
       /\ DefaultInterval \in Intervals /\ RegInterval \in {0} \cup Intervals
       /\ MaxReads \in Nat /\ MaxFails \in Nat

Threads == {"main", "read", "write", "plugin"}

Ctx == [name : Names \cup {NoName}, interval : {0} \cup Intervals]

\* the callback lists besides list_init, list_read and list_write
Kinds == {"flush", "missing", "shutdown", "log", "notification"}

VARIABLES
  tls,      \* tls[t]: the thread's plugin_ctx_t, or Null
  pc,       \* pc[t]: where each thread is
  saved,    \* saved[t]: old_ctx, the value plugin_set_ctx returned
  cfCtx,    \* cf_ctx of Owner's init callback
  rf,       \* the read function registered: [ctx, interval], rf_ctx and rf_interval
  tCtx,     \* plugin_thread_t.ctx of the started thread
  queue,    \* write_queue: a sequence of [stamp, ctx]
  item,     \* the item the write thread is writing
  widx,     \* the write callback plugin_write is at
  reads,    \* read callback invocations so far
  failed,   \* threads in which plugin_ctx_create failed
  fails,    \* failed plugin_ctx_create calls so far
  readObs,  \* contexts the read callback saw
  writeObs, \* [who, ctx, item]: contexts write callbacks saw, per item
  reg,      \* reg[k]: cf_ctx of Owner's callback of kind k, Null when not registered
  cbObs     \* [kind, ctx]: contexts the flush, missing, shutdown, log and notification callbacks saw

vars == <<tls, pc, saved, cfCtx, rf, tCtx, queue, item, widx, reads, failed, fails,
          readObs, writeObs, reg, cbObs>>

\* ctx_init, the zero context
CtxInit == [name |-> NoName, interval |-> 0]

(* plugin_ctx_create: malloc a context set to ctx_init and store it with
   pthread_setspecific; on failure (fail) nothing is stored. *)
plugin_ctx_create(fail) == IF fail THEN Null ELSE CtxInit

(* plugin_get_ctx on a thread whose storage is cur: the stored context, or
   a new one; ctx_init when the creation fails.  [tls, ret]: the storage
   afterwards and the value returned. *)
plugin_get_ctx(cur, fail) ==
  IF cur # Null THEN [tls |-> cur, ret |-> cur]
  ELSE [tls |-> plugin_ctx_create(fail), ret |-> CtxInit]

(* plugin_set_ctx(c): store c and return the old context; when there is no
   storage and it cannot be created, c is dropped and ctx_init returned. *)
plugin_set_ctx(cur, c, fail) ==
  IF cur # Null THEN [tls |-> c, ret |-> cur]
  ELSE [tls |-> IF fail THEN Null ELSE c, ret |-> CtxInit]

\* plugin_get_interval on a context: its interval, or the default one
plugin_get_interval(c) == IF c.interval > 0 THEN c.interval ELSE DefaultInterval

\* 1 when a call on storage cur meets a failing plugin_ctx_create
Eff(cur, b) == IF cur = Null /\ b THEN 1 ELSE 0

(* the n failed context creations and a failed callocs of a step of
   thread t, within MaxFails *)
FailedAlloc(t, n, a) == /\ fails + n + a <= MaxFails
                        /\ fails' = fails + n + a
                        /\ failed' = IF n > 0 THEN failed \cup {t} ELSE failed

Failed(t, n) == FailedAlloc(t, n, 0)

\* the vectors of n call outcomes with at most MaxFails failures
FailVecs(n) == {[i \in 1 .. n |-> i \in S] : S \in {T \in SUBSET (1 .. n) : Cardinality(T) <= MaxFails}}

-----------------------------------------------------------------------------
Init ==
  /\ tls = [t \in Threads |-> Null]
  /\ pc = [t \in Threads |-> IF t = "main" THEN "init" ELSE "none"]
  /\ saved = [t \in Threads |-> CtxInit]
  /\ cfCtx \in [name : {Owner}, interval : {0} \cup Intervals]
  /\ rf = [kind |-> "none", ctx |-> CtxInit, interval |-> 0]
  /\ tCtx = CtxInit
  /\ queue = << >> /\ item = [stamp |-> 0, ctx |-> CtxInit] /\ widx = 1
  /\ reads = 0 /\ failed = {} /\ fails = 0
  /\ readObs = {} /\ writeObs = {}
  /\ reg = [k \in Kinds |-> Null] /\ cbObs = {}

-----------------------------------------------------------------------------
(* The registration made by the init callback on storage cur: with kind
   "simple", plugin_register_read takes rf_ctx from plugin_get_ctx and
   rf_interval from plugin_get_interval; with "complex",
   plugin_register_complex_read takes the interval argument, or
   plugin_get_interval when it is 0, and then rf_ctx.  Both overwrite the
   interval of rf_ctx with rf_interval.  [rf, tls, n]: the read function,
   the storage afterwards and the failed creations. *)
RegisterRead_nointerval(kind, cur, f1, f2) ==
  LET asks == kind = "simple" \/ RegInterval = 0
      g1 == IF asks THEN plugin_get_ctx(cur, f1) ELSE [tls |-> cur, ret |-> CtxInit]
      g2 == plugin_get_ctx(g1.tls, f2)
      ctx == IF kind = "simple" THEN g1.ret ELSE g2.ret
      ival == IF asks THEN plugin_get_interval(IF kind = "simple" THEN g2.ret ELSE g1.ret)
              ELSE RegInterval
  IN [rf |-> [kind |-> kind, ctx |-> ctx, interval |-> ival],
      tls |-> g2.tls,
      n |-> (IF asks THEN Eff(cur, f1) ELSE 0) + Eff(g1.tls, f2)]

RegisterRead(kind, cur, f1, f2) ==
  LET asks == kind = "simple" \/ RegInterval = 0
      g1 == IF asks THEN plugin_get_ctx(cur, f1) ELSE [tls |-> cur, ret |-> CtxInit]
      g2 == plugin_get_ctx(g1.tls, f2)
      ctx == IF kind = "simple" THEN g1.ret ELSE g2.ret
      ival == IF asks THEN plugin_get_interval(IF kind = "simple" THEN g2.ret ELSE g1.ret)
              ELSE RegInterval
  IN [rf |-> [kind |-> kind, ctx |-> [ctx EXCEPT !.interval = ival], interval |-> ival],
      tls |-> g2.tls,
      n |-> (IF asks THEN Eff(cur, f1) ELSE 0) + Eff(g1.tls, f2)]

(* create_register_callback on storage cur: when calloc succeeds (ok), the
   callback_func_t captures plugin_get_ctx in cf_ctx; when it fails,
   nothing is registered.  [cf, tls, n]. *)
create_register_callback(cur, ok, f1) ==
  LET g == IF ok THEN plugin_get_ctx(cur, f1) ELSE [tls |-> cur, ret |-> CtxInit]
  IN [cf |-> IF ok THEN g.ret ELSE Null, tls |-> g.tls, n |-> IF ok THEN Eff(cur, f1) ELSE 0]

(* plugin_register_flush (it reads plugin_get_ctx first; the context's
   flush_interval is 0, so it registers no flush-interval read function),
   then plugin_register_missing, plugin_register_shutdown,
   plugin_register_log and plugin_register_notification, each a
   create_register_callback whose calloc succeeds when ok[k].  f[1..6]:
   the context creations.  [reg, tls, n]. *)
RegisterCallbacks(cur, ok, f) ==
  LET g  == plugin_get_ctx(cur, f[1])
      c1 == create_register_callback(g.tls, ok["flush"], f[2])
      c2 == create_register_callback(c1.tls, ok["missing"], f[3])
      c3 == create_register_callback(c2.tls, ok["shutdown"], f[4])
      c4 == create_register_callback(c3.tls, ok["log"], f[5])
      c5 == create_register_callback(c4.tls, ok["notification"], f[6])
  IN [reg |-> [flush |-> c1.cf, missing |-> c2.cf, shutdown |-> c3.cf,
               log |-> c4.cf, notification |-> c5.cf],
      tls |-> c5.tls, n |-> Eff(cur, f[1]) + c1.n + c2.n + c3.n + c4.n + c5.n]

(* plugin_init_all's loop over list_init, for Owner's init callback:
   old_ctx = plugin_set_ctx(cf->cf_ctx), the callback, and
   plugin_set_ctx(old_ctx).  The callback registers its read function,
   its other callbacks (ok: their calloc succeeds) and,
   when mk, starts a thread with plugin_thread_create, which captures
   plugin_get_ctx.  Then plugin_init_all starts the read and write
   threads. *)
plugin_init_all(kind, mk, ok, f) ==
  LET s1 == plugin_set_ctx(tls["main"], cfCtx, f[1])
      r0 == RegisterRead(kind, s1.tls, f[2], f[3])
      fs == RegisterCallbacks(r0.tls, ok, [i \in 1 .. 6 |-> f[5 + i]])
      r  == [r0 EXCEPT !.tls = fs.tls, !.n = @ + fs.n]
      g3 == IF mk THEN plugin_get_ctx(r.tls, f[4]) ELSE [tls |-> r.tls, ret |-> CtxInit]
      s2 == plugin_set_ctx(g3.tls, s1.ret, f[5])
  IN /\ pc["main"] = "init"
     /\ FailedAlloc("main", Eff(tls["main"], f[1]) + r.n
                       + (IF mk THEN Eff(r.tls, f[4]) ELSE 0) + Eff(g3.tls, f[5]),
                    Cardinality({k \in Kinds : ~ok[k]}))
     /\ rf' = r.rf
     /\ reg' = fs.reg
     /\ tls' = [tls EXCEPT !["main"] = s2.tls]
     /\ saved' = [saved EXCEPT !["main"] = s1.ret]
     /\ tCtx' = IF mk THEN g3.ret ELSE tCtx
     /\ pc' = [pc EXCEPT !["main"] = "done", !["read"] = "loop", !["write"] = "loop",
                         !["plugin"] = IF mk THEN "start" ELSE "none"]
     /\ UNCHANGED <<cfCtx, queue, item, widx, reads, readObs, writeObs, cbObs>>

(* One callback of a list that switches context: old_ctx =
   plugin_set_ctx(cf->cf_ctx), the callback, which sees plugin_get_ctx(),
   and plugin_set_ctx(old_ctx); nothing when cf was not registered.
   [tls, view, n]. *)
RunCallback_norestore(cur, cf, f1, f2, f3) ==
  LET s1 == plugin_set_ctx(cur, cf, f1)
      g  == plugin_get_ctx(s1.tls, f2)
  IN IF cf = Null THEN [tls |-> cur, view |-> {}, n |-> 0]
     ELSE [tls |-> g.tls, view |-> {g.ret}, n |-> Eff(cur, f1) + Eff(s1.tls, f2)]

RunCallback(cur, cf, f1, f2, f3) ==
  LET s1 == plugin_set_ctx(cur, cf, f1)
      g  == plugin_get_ctx(s1.tls, f2)
      s2 == plugin_set_ctx(g.tls, s1.ret, f3)
  IN IF cf = Null THEN [tls |-> cur, view |-> {}, n |-> 0]
     ELSE [tls |-> s2.tls, view |-> {g.ret},
           n |-> Eff(cur, f1) + Eff(s1.tls, f2) + Eff(g.tls, f3)]

(* One callback of list_log or list_notification: plugin_log and
   plugin_dispatch_notification do not switch the context, so the callback
   sees the caller's plugin_get_ctx(); nothing when cf was not registered
   (plugin_log then prints to stderr, plugin_dispatch_notification returns
   -1).  [tls, view, n]. *)
KeepCtxCallback_switch(cur, cf, f1) == RunCallback(cur, cf, f1, FALSE, FALSE)

KeepCtxCallback(cur, cf, f1) ==
  LET g == plugin_get_ctx(cur, f1)
  IN IF cf = Null THEN [tls |-> cur, view |-> {}, n |-> 0]
     ELSE [tls |-> g.tls, view |-> {g.ret}, n |-> Eff(cur, f1)]

(* plugin_dispatch_notification: the same loop without a context switch;
   the copy notification_clone makes for the callbacks is data (and never
   freed, line 2367), and a callback's non-zero status is only logged *)
plugin_dispatch_notification(cur, cf, f1) == KeepCtxCallback(cur, cf, f1)

(* enqueue_metric_family on storage cur: the metrics are stamped with
   plugin_get_interval, then the queue item captures plugin_get_ctx.
   [item, tls, view, n]; view is the context the stamp was taken from. *)
Enqueue(cur, f1, f2) ==
  LET g1 == plugin_get_ctx(cur, f1)
      g2 == plugin_get_ctx(g1.tls, f2)
  IN [item |-> [stamp |-> plugin_get_interval(g1.ret), ctx |-> g2.ret],
      tls |-> g2.tls, view |-> g1.ret, n |-> Eff(cur, f1) + Eff(g1.tls, f2)]

(* plugin_read_thread calling Owner's read function: old_ctx =
   plugin_set_ctx(rf->rf_ctx), the callback, plugin_set_ctx(old_ctx).  The
   callback dispatches one metric family (enqueue_metric_family), may log
   an error with plugin_log or dispatch a notification (ev; a message at
   LOG_DEBUG returns at once and is "none"), and, when mk and no thread
   has been started, starts one with plugin_thread_create. *)
plugin_read_thread(mk, ev, f) ==
  LET s1 == plugin_set_ctx(tls["read"], rf.ctx, f[1])
      e0 == Enqueue(s1.tls, f[2], f[3])
      lg == CASE ev = "none" -> [tls |-> e0.tls, view |-> {}, n |-> 0]
              [] ev = "log" -> KeepCtxCallback(e0.tls, reg["log"], f[6])
              [] ev = "notification" -> plugin_dispatch_notification(e0.tls, reg["notification"], f[6])
      e  == [e0 EXCEPT !.tls = lg.tls, !.n = @ + lg.n]
      g3 == IF mk THEN plugin_get_ctx(e.tls, f[4]) ELSE [tls |-> e.tls, ret |-> CtxInit]
      s2 == plugin_set_ctx(g3.tls, s1.ret, f[5])
  IN /\ pc["read"] = "loop" /\ reads < MaxReads
     /\ mk => pc["plugin"] = "none"
     /\ Failed("read", Eff(tls["read"], f[1]) + e.n
                       + (IF mk THEN Eff(e.tls, f[4]) ELSE 0) + Eff(g3.tls, f[5]))
     /\ tls' = [tls EXCEPT !["read"] = s2.tls]
     /\ saved' = [saved EXCEPT !["read"] = s1.ret]
     /\ queue' = Append(queue, e.item)
     /\ readObs' = readObs \cup {e.view}
     /\ cbObs' = cbObs \cup {[kind |-> ev, ctx |-> c] : c \in lg.view}
     /\ reads' = reads + 1
     /\ tCtx' = IF mk THEN g3.ret ELSE tCtx
     /\ pc' = IF mk THEN [pc EXCEPT !["plugin"] = "start"] ELSE pc
     /\ UNCHANGED <<cfCtx, rf, item, widx, writeObs, reg>>

(* plugin_write_dequeue: take the head of write_queue and install its
   context with (void)plugin_set_ctx(q->ctx), never restored. *)
plugin_write_dequeue(f) ==
  LET s == plugin_set_ctx(tls["write"], Head(queue).ctx, f[1])
  IN /\ pc["write"] = "loop" /\ queue # << >>
     /\ Failed("write", Eff(tls["write"], f[1]))
     /\ item' = Head(queue)
     /\ queue' = Tail(queue)
     /\ tls' = [tls EXCEPT !["write"] = s.tls]
     /\ widx' = 1
     /\ pc' = [pc EXCEPT !["write"] = "write"]
     /\ UNCHANGED <<saved, cfCtx, rf, tCtx, reads, readObs, writeObs, reg, cbObs>>

(* One turn of plugin_write's loop over list_write (plugin == NULL):
   old_ctx = plugin_get_ctx(), ctx = old_ctx with the writer's name,
   plugin_set_ctx(ctx), the callback, which sees plugin_get_ctx(), and
   plugin_set_ctx(old_ctx). *)
ListWriteCtx_noname(old, w) == old

ListWriteCtx(old, w) == [old EXCEPT !.name = w]

\* le = le->next: the next write callback, or the end of list_write
NextWriter_offbyone(i) == IF i <= Len(ListWrite) THEN i + 1 ELSE 0

NextWriter(i) == IF i < Len(ListWrite) THEN i + 1 ELSE 0

plugin_write(f) ==
  LET w  == ListWrite[widx]
      g1 == plugin_get_ctx(tls["write"], f[1])
      s1 == plugin_set_ctx(g1.tls, ListWriteCtx(g1.ret, w), f[2])
      g2 == plugin_get_ctx(s1.tls, f[3])
      s2 == plugin_set_ctx(g2.tls, g1.ret, f[4])
  IN /\ pc["write"] = "write"
     /\ Failed("write", Eff(tls["write"], f[1]) + Eff(g1.tls, f[2])
                        + Eff(s1.tls, f[3]) + Eff(g2.tls, f[4]))
     /\ tls' = [tls EXCEPT !["write"] = s2.tls]
     /\ writeObs' = writeObs \cup {[who |-> w, ctx |-> g2.ret, item |-> item]}
     /\ widx' = IF NextWriter(widx) = 0 THEN 1 ELSE NextWriter(widx)
     /\ pc' = IF NextWriter(widx) = 0 THEN [pc EXCEPT !["write"] = "loop"] ELSE pc
     /\ UNCHANGED <<saved, cfCtx, rf, tCtx, queue, item, reads, readObs, reg, cbObs>>

(* plugin_thread_start: install the context plugin_thread_create captured,
   then run the start routine. *)
plugin_thread_start(f) ==
  LET s == plugin_set_ctx(tls["plugin"], tCtx, f[1])
  IN /\ pc["plugin"] = "start"
     /\ Failed("plugin", Eff(tls["plugin"], f[1]))
     /\ tls' = [tls EXCEPT !["plugin"] = s.tls]
     /\ pc' = [pc EXCEPT !["plugin"] = "run"]
     /\ UNCHANGED <<saved, cfCtx, rf, tCtx, queue, item, widx, reads,
                    readObs, writeObs, reg, cbObs>>

\* the start routine of the thread dispatches one metric family
ThreadDispatch(f) ==
  LET e == Enqueue(tls["plugin"], f[1], f[2])
  IN /\ pc["plugin"] = "run"
     /\ Failed("plugin", e.n)
     /\ tls' = [tls EXCEPT !["plugin"] = e.tls]
     /\ queue' = Append(queue, e.item)
     /\ pc' = [pc EXCEPT !["plugin"] = "done"]
     /\ UNCHANGED <<saved, cfCtx, rf, tCtx, item, widx, reads, readObs, writeObs, reg, cbObs>>

(* plugin_shutdown_all on the main thread once the read threads have made
   their reads, the write thread waits on an empty queue and the started
   thread has ended (stop_read_threads, stop_write_threads): plugin_flush
   with plugin NULL runs every flush callback, then the loop over
   list_shutdown runs every shutdown callback, each under its cf_ctx. *)
plugin_shutdown_all(f) ==
  LET fl == RunCallback(tls["main"], reg["flush"], f[1], f[2], f[3])
      sh == RunCallback(fl.tls, reg["shutdown"], f[4], f[5], f[6])
  IN /\ pc["main"] = "done" /\ reads = MaxReads
     /\ pc["write"] = "loop" /\ queue = << >>
     /\ pc["plugin"] \in {"none", "done"}
     /\ Failed("main", fl.n + sh.n)
     /\ tls' = [tls EXCEPT !["main"] = sh.tls]
     /\ cbObs' = cbObs \cup {[kind |-> "flush", ctx |-> c] : c \in fl.view}
                    \cup {[kind |-> "shutdown", ctx |-> c] : c \in sh.view}
     /\ pc' = [pc EXCEPT !["main"] = "down"]
     /\ UNCHANGED <<saved, cfCtx, rf, tCtx, queue, item, widx, reads, readObs, writeObs,
                    reg>>

(* The main loop between init and shutdown (plugin_read_all): its
   uc_check_timeout calls plugin_dispatch_missing for an expired metric,
   which runs the missing callback under its cf_ctx (the loop stops at the
   first callback returning non-zero; Owner's is the only one). *)
plugin_dispatch_missing(f) ==
  LET ms == RunCallback(tls["main"], reg["missing"], f[1], f[2], f[3])
  IN /\ pc["main"] = "done"
     /\ Failed("main", ms.n)
     /\ tls' = [tls EXCEPT !["main"] = ms.tls]
     /\ cbObs' = cbObs \cup {[kind |-> "missing", ctx |-> c] : c \in ms.view}
     /\ UNCHANGED <<pc, saved, cfCtx, rf, tCtx, queue, item, widx, reads, readObs, writeObs,
                    reg>>

\* the daemon has shut down
Done == pc["main"] = "down" /\ UNCHANGED vars

Fails == [1..5 -> BOOLEAN]

Next ==
  \/ \E kind \in {"simple", "complex"}, mk \in BOOLEAN, ok \in [Kinds -> BOOLEAN],
       f \in FailVecs(11) : plugin_init_all(kind, mk, ok, f)
  \/ \E mk \in BOOLEAN, ev \in {"none", "log", "notification"}, f \in FailVecs(6) :
       plugin_read_thread(mk, ev, f)
  \/ \E f \in Fails : plugin_write_dequeue(f) \/ plugin_write(f)
  \/ \E f \in Fails : plugin_thread_start(f) \/ ThreadDispatch(f)
  \/ \E f \in FailVecs(3) : plugin_dispatch_missing(f)
  \/ \E f \in FailVecs(6) : plugin_shutdown_all(f)
  \/ Done

Spec == Init /\ [][Next]_vars

-----------------------------------------------------------------------------
TypeOK ==
  /\ tls \in [Threads -> Ctx \cup {Null}]
  /\ saved \in [Threads -> Ctx] /\ tCtx \in Ctx
  /\ rf \in [kind : {"none", "simple", "complex"}, ctx : Ctx, interval : {0} \cup Intervals]
  /\ queue \in Seq([stamp : Intervals, ctx : Ctx])
  /\ widx \in 1..Len(ListWrite) /\ reads \in 0..MaxReads
  /\ fails \in 0..MaxFails /\ failed \subseteq Threads
  /\ readObs \subseteq Ctx
  /\ reg \in [Kinds -> Ctx \cup {Null}]
  /\ cbObs \subseteq [kind : Kinds, ctx : Ctx]

\* the interval the read function was registered with
ReadInterval ==
  IF rf.kind = "complex" /\ RegInterval # 0 THEN RegInterval ELSE plugin_get_interval(cfCtx)

(* The interval a read callback sees through plugin_get_interval is the
   read function's: the interval argument of plugin_register_complex_read
   when it is not 0, else the interval of the plugin's configuration
   block, else the default; and the name it sees is its plugin's.  The
   code keeps this by capturing the registering thread's context in
   rf_ctx, overwriting its interval, and installing it in the read
   thread.  Only a failed plugin_ctx_create, in the read thread or during
   init, makes the callback fall back to ctx_init. *)
ReadCallbackContext ==
  ({"main", "read"} \cap failed = {}) =>
    \A c \in readObs : c.name = Owner /\ plugin_get_interval(c) = ReadInterval

(* A log or notification callback called from a read callback sees the
   reading plugin's name and the read function's interval, not those of
   the plugin that registered the callback: plugin_log and
   plugin_dispatch_notification leave the caller's context in place. *)
CallerContextKept ==
  ({"main", "read"} \cap failed = {}) =>
    \A v \in cbObs : v.kind \in {"log", "notification"} =>
      v.ctx.name = Owner /\ plugin_get_interval(v.ctx) = ReadInterval

(* A write callback runs under its own name (plugin_write replaces the
   name) and with the interval the metrics of its item were stamped with
   by enqueue_metric_family in another thread, because the item carries
   the dispatching thread's context to the write thread. *)
WriteCallbackContext ==
  "write" \notin failed =>
    \A v \in writeObs :
      v.ctx.name = v.who /\ plugin_get_interval(v.ctx) = v.item.stamp

(* The flush, missing and shutdown callbacks the main thread runs see the
   context of their plugin's configuration block, which the init callback
   ran under when it registered them (create_register_callback captures
   it), and the main thread gets its own context back after every callback
   round: after plugin_init_all, plugin_read_all and plugin_shutdown_all it
   holds ctx_init again. *)
RegisteredCallbackContext ==
  "main" \notin failed =>
    /\ \A v \in cbObs : v.kind \in {"flush", "missing", "shutdown"} => v.ctx = cfCtx
    /\ pc["main"] \in {"done", "down"} => tls["main"] = CtxInit

====
