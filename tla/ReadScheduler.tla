--------------------------- MODULE ReadScheduler ---------------------------
(***************************************************************************)
(* The read scheduler of src/daemon/plugin.c: the min-heap `read_heap' of  *)
(* read functions ordered by `rf_next_read', the lookup list `read_list',  *)
(* the pool of read threads running `plugin_read_thread', registration     *)
(* (`plugin_insert_read'), lazy removal (`plugin_unregister_read',         *)
(* `plugin_unregister_read_group'), thread start/stop and the teardown of  *)
(* the heap in `plugin_shutdown_all'.                                      *)
(*                                                                         *)
(* A `read_func_t' is an object of the pool Objs; `mem' records whether   *)
(* it was ever allocated, is live, was freed, or was freed twice.          *)
(* Time is kept relative: `rf[o].next' is rf_next_read - now, so a clock  *)
(* tick lowers every due time by one.  While the threads run, the clock    *)
(* stops once a task is MaxLag overdue (the model covers schedules in      *)
(* which the threads keep up within MaxLag); once read_loop is cleared no  *)
(* task runs again and due times are only kept down to -MaxLag.           *)
(***************************************************************************)
EXTENDS Integers, FiniteSets

CONSTANTS
  Workers,          \* the read threads start_read_threads is asked for
  Names,            \* rf_name values plugins register
  Groups,           \* rf_group values of complex reads
  NoGroup,          \* the empty group "" of simple reads
  Objs,             \* pool of read_func_t allocations
  Intervals,        \* rf_interval values a registration may carry
  MaxReadInterval,  \* max_read_interval
  MaxLag,           \* bound on how far in the past a due time is tracked
  None              \* no object

ASSUME /\ Workers # {} /\ Objs # {}
       /\ Intervals \subseteq Nat \ {0}
       /\ MaxReadInterval \in Nat \ {0}
       /\ MaxLag \in Nat
       /\ None \notin Objs

VARIABLES
  phase,       \* "init" before start_read_threads, "running", "down" after teardown
  read_loop,   \* the global flag read_loop
  allocated,   \* read_threads != NULL: the calloc of start_read_threads succeeded
  started,     \* the read threads pthread_create started
  read_list,   \* objects linked in read_list
  read_heap,   \* objects in read_heap
  rf,          \* rf[o]: the fields of read_func_t o
  mem,         \* mem[o] \in {"unused", "live", "freed", "corrupt"}
  pc,          \* program counter of each read thread
  held,        \* the read_func_t a thread has taken off the heap
  ran          \* history: the object whose callback ran in the last step

vars == <<phase, read_loop, allocated, started, read_list, read_heap, rf, mem, pc, held, ran>>

RfTypes == {"simple", "complex", "remove"}
Due == -MaxLag .. MaxReadInterval
RfRec == [name : Names, group : Groups \cup {NoGroup}, type : RfTypes,
          interval : Intervals, eff : Nat, next : Due]
\* "check_remove" and "check_run" hold the thread's local copy rf_type of
\* rf->rf_type: whether it read RF_REMOVE.
PCs == {"loop", "getroot", "wait_empty", "sleep", "check_remove", "check_run",
        "running", "exited"}

MinOf(a, b) == IF a < b THEN a ELSE b
MaxOf(a, b) == IF a > b THEN a ELSE b

\* Releasing an object: a second release of the same object is recorded.
Free(m, S) == [o \in DOMAIN m |-> IF o \in S
                                  THEN IF m[o] = "live" THEN "freed" ELSE "corrupt"
                                  ELSE m[o]]

Live == {o \in Objs : mem[o] = "live"}
HeldObjs == {held[w] : w \in {x \in Workers : held[x] # None}}
ListedNames == {rf[o].name : o \in read_list}

\* Threads blocked in pthread_cond_wait(&read_cond) return to the top of
\* the loop on a broadcast; threads in the timed wait re-check their
\* predicate, which a broadcast does not change.
WakeAll == [w \in Workers |-> IF pc[w] = "wait_empty" THEN "loop" ELSE pc[w]]

-----------------------------------------------------------------------------
Init ==
  /\ phase = "init"
  /\ read_loop = TRUE
  /\ allocated = FALSE /\ started = {}
  /\ read_list = {}
  /\ read_heap = {}
  /\ rf = [o \in Objs |-> [name |-> CHOOSE n \in Names : TRUE, group |-> NoGroup,
                           type |-> "simple", interval |-> CHOOSE i \in Intervals : TRUE,
                           eff |-> 0, next |-> 0]]
  /\ mem = [o \in Objs |-> "unused"]
  /\ pc = [w \in Workers |-> "loop"]
  /\ held = [w \in Workers |-> None]
  /\ ran = None

\* Mutant: plugin_insert_read without the broadcast on read_cond.
plugin_insert_read_nobroadcast(o, n, g, t, i) ==
  /\ phase # "down"
  /\ mem[o] = "unused"
  /\ n \notin ListedNames
  /\ mem' = [mem EXCEPT ![o] = "live"]
  /\ rf' = [rf EXCEPT ![o] = [name |-> n, group |-> g, type |-> t,
                              interval |-> i, eff |-> i, next |-> 0]]
  /\ read_list' = read_list \cup {o}
  /\ read_heap' = read_heap \cup {o}
  /\ UNCHANGED <<phase, read_loop, allocated, started, pc, held>>

(* plugin_register_read / plugin_register_complex_read with plugin_insert_read:
   a fresh read_func_t due now, linked in read_list and read_heap, and a
   broadcast on read_cond.  A name already in read_list is refused (EINVAL)
   and the new object released at once, which changes nothing observable. *)
plugin_insert_read(o, n, g, t, i) ==
  /\ phase # "down"
  /\ mem[o] = "unused"
  /\ n \notin ListedNames
  /\ mem' = [mem EXCEPT ![o] = "live"]
  /\ rf' = [rf EXCEPT ![o] = [name |-> n, group |-> g, type |-> t,
                              interval |-> i, eff |-> i, next |-> 0]]
  /\ read_list' = read_list \cup {o}
  /\ read_heap' = read_heap \cup {o}
  /\ pc' = WakeAll
  /\ UNCHANGED <<phase, read_loop, allocated, started, held>>

Register(o, n, i) == plugin_insert_read(o, n, NoGroup, "simple", i)
RegisterComplex(o, n, g, i) == plugin_insert_read(o, n, g, "complex", i)

(* plugin_unregister_read: unlink from read_list and mark RF_REMOVE under
   read_lock; the object stays in the heap or with the thread holding it. *)
plugin_unregister_read(n) ==
  /\ \E o \in read_list :
       /\ rf[o].name = n
       /\ read_list' = read_list \ {o}
       /\ rf' = [rf EXCEPT ![o].type = "remove"]
  /\ UNCHANGED <<phase, read_loop, allocated, started, read_heap, mem, pc, held>>

(* plugin_unregister_read_group: every object of the group, in one critical
   section; -ENOENT and no change when none matches. *)
plugin_unregister_read_group(g) ==
  LET S == {o \in read_list : rf[o].group = g}
  IN /\ S # {}
     /\ read_list' = read_list \ S
     /\ rf' = [o \in Objs |-> IF o \in S THEN [rf[o] EXCEPT !.type = "remove"]
                                         ELSE rf[o]]
     /\ UNCHANGED <<phase, read_loop, allocated, started, read_heap, mem, pc, held>>

(* plugin_init_all starts the read threads only when read_heap exists,
   i.e. once something was registered.  When the calloc of read_threads
   fails none is started; else pthread_create starts threads until one
   fails (the threads are alike, so any set of them stands for the first
   k).  plugin_init_all ignores both failures. *)
start_read_threads ==
  /\ phase = "init"
  /\ \E o \in Objs : mem[o] # "unused"
  /\ phase' = "running"
  /\ \/ allocated' = FALSE /\ started' = {}
     \/ allocated' = TRUE /\ started' \in SUBSET Workers
  /\ UNCHANGED <<read_loop, read_list, read_heap, rf, mem, pc, held>>

(* plugin_read_all_once, the one-shot mode of a daemon whose ReadThreads
   is -1 (plugin_init_all then starts no read threads): one pass of its
   loop pops the root of read_heap, calls the callback whatever rf_type
   says, and frees the object.  read_list is left holding the freed
   objects; plugin_shutdown_all destroys it without looking at them. *)
plugin_read_all_once(o) ==
  /\ phase \in {"init", "once"}
  /\ o \in read_heap
  /\ \A p \in read_heap : rf[o].next <= rf[p].next
  /\ phase' = "once"
  /\ read_heap' = read_heap \ {o}
  /\ mem' = Free(mem, {o})
  /\ ran' = o
  /\ UNCHANGED <<read_loop, allocated, started, read_list, rf, pc, held>>

(* stop_read_threads: clear read_loop and broadcast under read_lock; with
   read_threads NULL it returns at once, which destroy_read_heap covers. *)
stop_read_threads ==
  /\ phase = "running"
  /\ allocated /\ read_loop
  /\ read_loop' = FALSE
  /\ pc' = WakeAll
  /\ UNCHANGED <<phase, allocated, started, read_list, read_heap, rf, mem, held>>

(* plugin_shutdown_all after the joins (or, when read_threads is NULL,
   after stop_read_threads returned at once: in the one-shot mode once
   plugin_read_all_once returned, or when start_read_threads' calloc failed):
   destroy read_list, then destroy_read_heap frees every object left in
   the heap. *)
destroy_read_heap ==
  /\ \/ phase = "running" /\ ~read_loop /\ \A w \in started : pc[w] = "exited"
     \/ phase = "running" /\ ~allocated
     \/ phase = "once" /\ read_heap = {}
  /\ phase' = "down"
  /\ read_list' = {}
  /\ read_heap' = {}
  /\ mem' = Free(mem, read_heap)
  /\ UNCHANGED <<read_loop, allocated, started, rf, pc, held>>

-----------------------------------------------------------------------------
(* plugin_read_thread, one action per stretch of code between the points
   where another thread can interfere. *)

\* while (read_loop != 0), read without read_lock
ReadLoopTest(w) ==
  /\ phase = "running"
  /\ pc[w] = "loop"
  /\ pc' = [pc EXCEPT ![w] = IF read_loop THEN "getroot" ELSE "exited"]
  /\ UNCHANGED <<phase, read_loop, allocated, started, read_list, read_heap, rf, mem, held>>

\* c_heap_get_root under read_lock; on an empty heap pthread_cond_wait
GetRoot(w) ==
  /\ pc[w] = "getroot"
  /\ \/ /\ read_heap = {}
        /\ pc' = [pc EXCEPT ![w] = "wait_empty"]
        /\ UNCHANGED <<read_heap, held>>
     \/ \E o \in read_heap :
          /\ \A p \in read_heap : rf[o].next <= rf[p].next
          /\ read_heap' = read_heap \ {o}
          /\ held' = [held EXCEPT ![w] = o]
          /\ pc' = [pc EXCEPT ![w] = "sleep"]
  /\ UNCHANGED <<phase, read_loop, allocated, started, read_list, rf, mem>>

\* the timed wait ends once read_loop is cleared or the task is due;
\* rf_type is copied while read_lock is still held
TimedWaitDone(w) ==
  /\ pc[w] = "sleep"
  /\ ~read_loop \/ rf[held[w]].next <= 0
  /\ pc' = [pc EXCEPT ![w] = IF rf[held[w]].type = "remove" THEN "check_remove"
                                                           ELSE "check_run"]
  /\ UNCHANGED <<phase, read_loop, allocated, started, read_list, read_heap, rf, mem, held>>

\* Mutant: the stop path exits without re-inserting the held task.
CheckTask_noreinsert(w) ==
  /\ pc[w] \in {"check_remove", "check_run"}
  /\ \/ /\ ~read_loop
        /\ held' = [held EXCEPT ![w] = None]
        /\ pc' = [pc EXCEPT ![w] = "exited"]
        /\ UNCHANGED <<read_heap, mem>>
     \/ /\ read_loop
        /\ pc[w] = "check_remove"
        /\ mem' = Free(mem, {held[w]})
        /\ held' = [held EXCEPT ![w] = None]
        /\ pc' = [pc EXCEPT ![w] = "loop"]
        /\ UNCHANGED read_heap
     \/ /\ read_loop
        /\ pc[w] = "check_run"
        /\ pc' = [pc EXCEPT ![w] = "running"]
        /\ UNCHANGED <<read_heap, mem, held>>
  /\ UNCHANGED <<phase, read_loop, allocated, started, read_list, rf>>

\* after unlocking: stop (re-insert and exit), reap RF_REMOVE, or call
CheckTask(w) ==
  /\ pc[w] \in {"check_remove", "check_run"}
  /\ \/ /\ ~read_loop
        /\ read_heap' = read_heap \cup {held[w]}
        /\ held' = [held EXCEPT ![w] = None]
        /\ pc' = [pc EXCEPT ![w] = "exited"]
        /\ UNCHANGED mem
     \/ /\ read_loop
        /\ pc[w] = "check_remove"
        /\ mem' = Free(mem, {held[w]})
        /\ held' = [held EXCEPT ![w] = None]
        /\ pc' = [pc EXCEPT ![w] = "loop"]
        /\ UNCHANGED read_heap
     \/ /\ read_loop
        /\ pc[w] = "check_run"
        /\ pc' = [pc EXCEPT ![w] = "running"]
        /\ UNCHANGED <<read_heap, mem, held>>
  /\ UNCHANGED <<phase, read_loop, allocated, started, read_list, rf>>

\* Mutant: the doubled interval is not capped at max_read_interval.
ReadDone_nocap(w, ok) ==
  LET o   == held[w]
      eff == IF ok THEN rf[o].interval ELSE 2 * rf[o].eff
  IN /\ pc[w] = "running"
     /\ rf' = [rf EXCEPT ![o].eff = eff, ![o].next = MaxOf(@ + eff, 0)]
     /\ read_heap' = read_heap \cup {o}
     /\ held' = [held EXCEPT ![w] = None]
     /\ pc' = [pc EXCEPT ![w] = "loop"]
     /\ ran' = o
     /\ UNCHANGED <<phase, read_loop, allocated, started, read_list, mem>>

\* the callback returns status ok or failed: back-off, reschedule, re-insert
ReadDone(w, ok) ==
  LET o   == held[w]
      eff == IF ok THEN rf[o].interval
             ELSE MinOf(2 * rf[o].eff, MaxReadInterval)
  IN /\ pc[w] = "running"
     /\ rf' = [rf EXCEPT ![o].eff = eff, ![o].next = MaxOf(@ + eff, 0)]
     /\ read_heap' = read_heap \cup {o}
     /\ held' = [held EXCEPT ![w] = None]
     /\ pc' = [pc EXCEPT ![w] = "loop"]
     /\ ran' = o
     /\ UNCHANGED <<phase, read_loop, allocated, started, read_list, mem>>

\* time passes: every live due time moves one unit towards the past
Tick ==
  /\ read_loop => \A o \in Live : rf[o].next > -MaxLag
  /\ rf' = [o \in Objs |-> IF mem[o] = "live"
                           THEN [rf[o] EXCEPT !.next = MaxOf(@ - 1, -MaxLag)]
                           ELSE rf[o]]
  /\ UNCHANGED <<phase, read_loop, allocated, started, read_list, read_heap, mem, pc, held>>

Worker(w) ==
  /\ w \in started
  /\ \/ /\ ReadLoopTest(w) \/ GetRoot(w) \/ TimedWaitDone(w) \/ CheckTask(w)
        /\ ran' = None
     \/ \E ok \in BOOLEAN : ReadDone(w, ok)

Env ==
  \/ \E o \in Objs, n \in Names, i \in Intervals : Register(o, n, i)
  \/ \E o \in Objs, n \in Names, g \in Groups, i \in Intervals :
       RegisterComplex(o, n, g, i)
  \/ \E n \in Names : plugin_unregister_read(n)
  \/ \E g \in Groups : plugin_unregister_read_group(g)
  \/ start_read_threads
  \/ stop_read_threads
  \/ destroy_read_heap

Next ==
  \/ \E w \in Workers : Worker(w)
  \/ \E o \in Objs : plugin_read_all_once(o)
  \/ Env /\ ran' = None
  \/ Tick /\ ran' = None

\* Threads the OS keeps scheduling and a clock that keeps running; the
\* plugins' registrations and the shutdown are not forced to happen.
Fairness ==
  /\ \A w \in Workers : WF_vars(Worker(w))
  /\ WF_vars(Tick /\ ran' = None)

Spec == Init /\ [][Next]_vars /\ Fairness

-----------------------------------------------------------------------------
(* Properties *)

TypeOK ==
  /\ phase \in {"init", "running", "once", "down"}
  /\ read_loop \in BOOLEAN
  /\ allocated \in BOOLEAN /\ started \subseteq Workers
  /\ read_list \subseteq Objs /\ read_heap \subseteq Objs
  /\ \A o \in Live : rf[o] \in RfRec
  /\ mem \in [Objs -> {"unused", "live", "freed", "corrupt"}]
  /\ pc \in [Workers -> PCs]
  /\ held \in [Workers -> Objs \cup {None}]
  /\ ran \in Objs \cup {None}

(* Lazy removal keeps every read_func_t owned by exactly one place: a live
   object is either in read_heap or held by exactly one read thread, never
   both; nothing freed is still reachable from the heap, a thread or
   read_list; no object is freed twice; and read_list holds exactly the live
   objects not marked RF_REMOVE.  A violation is a lost task (never read
   again, leaked at shutdown), a use after free or a double free in
   plugin_read_thread, plugin_unregister_read(_group) or destroy_read_heap. *)
TaskOwnership ==
  /\ \A o \in Objs : mem[o] # "corrupt"
  /\ \A o \in Objs : mem[o] = "live" <=> (o \in read_heap \/ o \in HeldObjs)
  /\ \A w \in Workers : held[w] # None => held[w] \notin read_heap
  /\ \A v, w \in Workers : v # w /\ held[v] # None => held[v] # held[w]
  /\ phase \in {"init", "running"} =>
       \A o \in Objs : o \in read_list <=> (mem[o] = "live" /\ rf[o].type # "remove")

(* Every task that stays registered while the read threads run has its
   callback completed again and again: the heap, the timed waits and the
   re-insertion after each call never strand a task.  It is stated for the
   runs in which start_read_threads started every thread: with fewer, a
   thread sleeping on one task leaves another overdue by more than MaxLag,
   where the model stops the clock. *)
Active(o) == phase = "running" /\ read_loop /\ started = Workers /\ o \in read_list
ReadProgress == \A o \in Objs : []<>(~Active(o) \/ ran = o)

(* Once stop_read_threads has cleared read_loop and broadcast read_cond,
   every read thread leaves its loop, so the pthread_join calls return. *)
ShutdownTerminates == ~read_loop ~> (\A w \in started : pc[w] = "exited")

=============================================================================
