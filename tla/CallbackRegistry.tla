-------------------------- MODULE CallbackRegistry --------------------------
(***************************************************************************)
(* A callback registry of src/daemon/plugin.c, at the flush registry,     *)
(* whose registration uses every path of the generic code: the llist of   *)
(* entries `key -> callback_func_t' built by create_register_callback and *)
(* register_callback, removal by plugin_unregister, and                    *)
(* destroy_all_callbacks at shutdown.  plugin_register_flush also         *)
(* registers a complex read callback "flush/<name>" when the calling       *)
(* context has a flush interval, and plugin_unregister_flush removes it.  *)
(*                                                                         *)
(* The user data handed to a registration is a model value of Datas; the   *)
(* flush_callback_t of a flush timer is one of Cbs.  `freed' counts the   *)
(* calls of free_func on each.  A registration picks the allocation, if    *)
(* any, that fails.  Registration runs at configuration and init time, on *)
(* one thread, so each operation is one step.                             *)
(***************************************************************************)
EXTENDS Integers, Sequences, FiniteSets

CONSTANTS Names, Datas, Cbs

VARIABLES
  phase,     \* "running", or "down" once plugin_shutdown_all freed everything
  list,      \* list_flush: a sequence of [key, cf]
  timers,    \* the "flush/<name>" read functions: a set of [name, cb]
  handed,    \* user data handed to a registration so far
  cbsUsed,   \* flush_callback_t allocated so far
  freed      \* freed[x]: number of times x was released

vars == <<phase, list, timers, handed, cbsUsed, freed>>

Keys == {list[k].key : k \in DOMAIN list}
TimerNames == {t.name : t \in timers}

\* free_userdata / destroy_callback on each object of S
Release(S) == freed' = [x \in DOMAIN freed |-> IF x \in S THEN freed[x] + 1 ELSE freed[x]]

\* Where a registration fails: "none"; "cf" for the calloc of the
\* callback_func_t, llist_create, the strdup of the key or llentry_create
\* (all of which release the user data); "name" for the flush name, the
\* flush_callback_t or its name (which leave nothing allocated); "read"
\* for an allocation inside plugin_register_complex_read /
\* plugin_insert_read (which releases the flush_callback_t).
FailPoints(fi) == IF fi THEN {"none", "cf", "name", "read"} ELSE {"none", "cf"}

Init ==
  /\ phase = "running"
  /\ list = <<>>
  /\ timers = {}
  /\ handed = {}
  /\ cbsUsed = {}
  /\ freed = [x \in Datas \cup Cbs |-> 0]

-----------------------------------------------------------------------------
\* (mutant) register_callback appends without searching for the name
register_callback_nosearch(n, d) ==
  [list |-> Append(list, [key |-> n, cf |-> d]), released |-> {}]

\* (mutant) a replaced entry's callback is not destroyed
register_callback_leak(n, d) ==
  IF n \in Keys
  THEN LET k == CHOOSE j \in DOMAIN list : list[j].key = n
       IN [list |-> [list EXCEPT ![k].cf = d], released |-> {}]
  ELSE [list |-> Append(list, [key |-> n, cf |-> d]), released |-> {}]

(* register_callback once create_register_callback has its callback_func_t:
   llist_search finds the entry of the name; its callback is replaced and
   the old one destroyed, or a new entry is appended.  The new list and
   the objects released. *)
register_callback(n, d) ==
  IF n \in Keys
  THEN LET k == CHOOSE j \in DOMAIN list : list[j].key = n
       IN [list |-> [list EXCEPT ![k].cf = d], released |-> {list[k].cf}]
  ELSE [list |-> Append(list, [key |-> n, cf |-> d]), released |-> {}]

(* plugin_register_flush(n) with user data d, from a context whose
   flush_interval is non-zero (fi) or zero, failing at allocation fp.
   With fi it goes on, after registering the flush callback, to register
   the complex read "flush/<n>" in group "flush" with a fresh
   flush_callback_t c; plugin_insert_read refuses a name already in
   read_list with EINVAL, and plugin_register_complex_read then releases
   c. *)
plugin_register_flush(n, d, fi, fp) ==
  LET r == register_callback(n, d)
  IN
  /\ phase = "running"
  /\ d \notin handed
  /\ handed' = handed \cup {d}
  /\ \/ /\ fp = "cf"
        /\ Release({d})
        /\ UNCHANGED <<list, timers, cbsUsed>>
     \/ /\ fp # "cf"
        /\ list' = r.list
        /\ \/ /\ ~fi \/ fp = "name"
              /\ Release(r.released)
              /\ UNCHANGED <<timers, cbsUsed>>
           \/ /\ fi /\ fp \in {"none", "read"}
              /\ \E c \in Cbs \ cbsUsed :
                   LET dup == n \in TimerNames
                   IN /\ cbsUsed' = cbsUsed \cup {c}
                      /\ IF fp = "read" \/ dup
                         THEN /\ Release(r.released \cup {c})
                              /\ UNCHANGED timers
                         ELSE /\ Release(r.released)
                              /\ timers' = timers \cup {[name |-> n, cb |-> c]}
  /\ UNCHANGED phase

(* plugin_unregister: llist_search finds the first entry of the name, which
   is removed and destroyed; -1 and no change if there is none. *)
plugin_unregister(n) ==
  IF n \in Keys
  THEN LET k == CHOOSE j \in DOMAIN list : list[j].key = n /\ \A i \in 1..j-1 : list[i].key # n
       IN [list |-> SubSeq(list, 1, k - 1) \o SubSeq(list, k + 1, Len(list)),
           released |-> {list[k].cf}]
  ELSE [list |-> list, released |-> {}]

\* (mutant) the flush read function is released but left in read_list
plugin_unregister_flush_keeptimer(n, fi, nameFails) ==
  LET gone == IF fi /\ ~nameFails THEN {t \in timers : t.name = n} ELSE {}
  IN /\ phase = "running"
     /\ ~fi => ~nameFails
     /\ gone # {} \/ n \in Keys
     /\ UNCHANGED timers
     /\ list' = plugin_unregister(n).list
     /\ Release({t.cb : t \in gone} \cup plugin_unregister(n).released)
     /\ UNCHANGED <<phase, handed, cbsUsed>>

(* plugin_unregister_flush(n) from a context with or without a flush
   interval: with one, plugin_flush_callback_name (which may fail) and
   plugin_unregister_read mark "flush/<n>" for removal, the read thread
   then releasing its flush_callback_t; then plugin_unregister removes and
   destroys the entry of n, or returns -1. *)
plugin_unregister_flush(n, fi, nameFails) ==
  LET gone == IF fi /\ ~nameFails THEN {t \in timers : t.name = n} ELSE {}
  IN /\ phase = "running"
     /\ ~fi => ~nameFails
     /\ gone # {} \/ n \in Keys
     /\ timers' = timers \ gone
     /\ list' = plugin_unregister(n).list
     /\ Release({t.cb : t \in gone} \cup plugin_unregister(n).released)
     /\ UNCHANGED <<phase, handed, cbsUsed>>

(* plugin_shutdown_all: destroy_read_heap frees the flush read functions
   and their flush_callback_t, destroy_all_callbacks(&list_flush) every
   entry's callback. *)
destroy_all_callbacks ==
  /\ phase = "running"
  /\ phase' = "down"
  /\ list' = <<>>
  /\ timers' = {}
  /\ Release({t.cb : t \in timers} \cup {list[k].cf : k \in DOMAIN list})
  /\ UNCHANGED <<handed, cbsUsed>>

Terminated == phase = "down" /\ UNCHANGED vars

Next ==
  \/ \E n \in Names, d \in Datas, fi \in BOOLEAN, fp \in {"none", "cf", "name", "read"} :
       fp \in FailPoints(fi) /\ plugin_register_flush(n, d, fi, fp)
  \/ \E n \in Names, fi, nf \in BOOLEAN : plugin_unregister_flush(n, fi, nf)
  \/ destroy_all_callbacks
  \/ Terminated

Spec == Init /\ [][Next]_vars

-----------------------------------------------------------------------------
(* Properties *)

\* every field in range; no object is released twice
TypeOK ==
  /\ phase \in {"running", "down"}
  /\ list \in Seq([key : Names, cf : Datas])
  /\ timers \subseteq [name : Names, cb : Cbs]
  /\ handed \subseteq Datas /\ cbsUsed \subseteq Cbs
  /\ freed \in [Datas \cup Cbs -> 0..1]

Refs(d) == {k \in DOMAIN list : list[k].cf = d}
TimersOf(c) == {t \in timers : t.cb = c}

\* spec 4.1: the destructor of every user data runs exactly once.  Through
\* hot replace, every failed allocation, unregistration and shutdown, a
\* user data or flush_callback_t handed to the registry is either owned by
\* exactly one entry and not yet released, or owned by none and released
\* once; one never handed in was never released.
UserDataOwnership ==
  /\ \A d \in Datas :
       IF d \in handed
       THEN \/ Cardinality(Refs(d)) = 1 /\ freed[d] = 0
            \/ Refs(d) = {} /\ freed[d] = 1
       ELSE freed[d] = 0
  /\ \A c \in Cbs :
       IF c \in cbsUsed
       THEN \/ Cardinality(TimersOf(c)) = 1 /\ freed[c] = 0
            \/ TimersOf(c) = {} /\ freed[c] = 1
       ELSE freed[c] = 0

\* The list implements the registry of spec 4.1: its keys, in list order,
\* are the registered names in order of first registration, and the
\* first entry of a name holds its current callback.
FirstEntry(n) == CHOOSE k \in DOMAIN list : list[k].key = n /\ \A j \in 1..k-1 : list[j].key # n

Abs == INSTANCE RegistrySpec WITH
         Vals <- Datas,
         reg <- [n \in Keys |-> list[FirstEntry(n)].cf],
         order <- [k \in DOMAIN list |-> list[k].key]

RefinesRegistry == Abs!Spec

=============================================================================
