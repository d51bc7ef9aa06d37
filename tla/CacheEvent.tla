----------------------------- MODULE CacheEvent -----------------------------
(***************************************************************************)
(* Cache-event fan-out of src/daemon/plugin.c: the fixed table            *)
(* list_cache_event[] filled by plugin_register_cache_event, nulled in     *)
(* place by plugin_unregister_cache_event, and plugin_dispatch_cache_event *)
(* which the value cache calls for a new entry (the subscribers that      *)
(* return event.ret build the entry's callbacks mask, which the cache     *)
(* stores with uc_set_callbacks_mask) and for an update or expiry (with   *)
(* the entry's stored mask).                                               *)
(*                                                                         *)
(* The value cache is reduced to the set of entries present and the mask  *)
(* stored for each.  A mask bit is kept with the name of the subscriber   *)
(* that set it, so a property can tell what the bit meant.                 *)
(***************************************************************************)
EXTENDS Integers, Sequences, FiniteSets

CONSTANTS
  Subs,       \* subscriber names
  Entries,    \* value-cache entries
  Capacity,   \* size of list_cache_event[] (32 in the code)
  MaxRegs     \* bound on registration calls

ASSUME Capacity \in Nat \ {0} /\ MaxRegs \in Nat

VARIABLES
  slots,      \* list_cache_event[0 .. list_cache_event_num-1]: [name, active]
  present,    \* entries in the value cache
  mask,       \* mask[e]: set of [i, name] bits stored for e
  invoked,    \* slot indices whose callback ran in the last dispatch
  lastEv,     \* the last dispatch: [type, entry, bits of the mask it had]
  regs        \* registration calls so far

vars == <<slots, present, mask, invoked, lastEv, regs>>

Active == {i \in DOMAIN slots : slots[i].active}
Bits(e) == {b.i : b \in mask[e]}

Init ==
  /\ slots = <<>>
  /\ present = {}
  /\ mask = [e \in Entries |-> {}]
  /\ invoked = {}
  /\ lastEv = [type |-> "none", entry |-> CHOOSE e \in Entries : TRUE, bits |-> {}]
  /\ regs = 0

-----------------------------------------------------------------------------
\* (mutant) a new subscriber takes the first nulled slot
StoreSlot_reuse(n) ==
  IF \E i \in DOMAIN slots : ~slots[i].active
  THEN LET i == CHOOSE j \in DOMAIN slots : ~slots[j].active
       IN [slots EXCEPT ![i] = [name |-> n, active |-> TRUE]]
  ELSE Append(slots, [name |-> n, active |-> TRUE])

\* list_cache_event[list_cache_event_num++] = ...
StoreSlot(n) == Append(slots, [name |-> n, active |-> TRUE])

\* (mutant) the table is taken as full only past its last slot
plugin_register_cache_event_offbyone(n, oom) ==
  /\ regs < MaxRegs
  /\ regs' = regs + 1
  /\ IF oom \/ Len(slots) > Capacity \/ \E i \in Active : slots[i].name = n
     THEN UNCHANGED slots
     ELSE slots' = StoreSlot(n)
  /\ UNCHANGED <<present, mask, invoked, lastEv>>

(* plugin_register_cache_event: the strdup of the name may fail (ENOMEM);
   a full table (ENOMEM) or an active slot of the same name (-1) refuse
   the registration.  The copy these two paths leave unfreed is not kept. *)
plugin_register_cache_event(n, oom) ==
  /\ regs < MaxRegs
  /\ regs' = regs + 1
  /\ IF oom \/ Len(slots) >= Capacity \/ \E i \in Active : slots[i].name = n
     THEN UNCHANGED slots
     ELSE slots' = StoreSlot(n)
  /\ UNCHANGED <<present, mask, invoked, lastEv>>

(* plugin_unregister_cache_event: every active slot of the name is nulled
   in place, so masks keep their meaning. *)
plugin_unregister_cache_event(n) ==
  /\ \E i \in Active : slots[i].name = n
  /\ slots' = [i \in DOMAIN slots |->
                 IF i \in Active /\ slots[i].name = n
                 THEN [slots[i] EXCEPT !.active = FALSE] ELSE slots[i]]
  /\ UNCHANGED <<present, mask, invoked, lastEv, regs>>

(* plugin_dispatch_cache_event(CE_VALUE_NEW): every active subscriber is
   called; those that succeed and set event.ret get their bit; a non-zero
   mask is stored for the new entry. *)
DispatchNew(e) ==
  /\ e \notin present
  /\ \E S \in SUBSET Active :
       mask' = [mask EXCEPT ![e] = {[i |-> i, name |-> slots[i].name] : i \in S}]
  /\ present' = present \cup {e}
  /\ invoked' = Active
  /\ lastEv' = [type |-> "new", entry |-> e, bits |-> {}]
  /\ UNCHANGED <<slots, regs>>

\* the test "callbacks_mask && (1 << (i)) == 0": 1 << i is never 0
Skipped(e, i) == mask[e] # {} /\ FALSE

(* plugin_dispatch_cache_event(CE_VALUE_UPDATE / CE_VALUE_EXPIRED) with the
   entry's mask; an expired entry leaves the cache. *)
DispatchUpdate(e, type) ==
  /\ e \in present
  /\ invoked' = {i \in Active : ~Skipped(e, i)}
  /\ lastEv' = [type |-> type, entry |-> e, bits |-> Bits(e)]
  /\ IF type = "expired"
     THEN /\ present' = present \ {e}
          /\ mask' = [mask EXCEPT ![e] = {}]
     ELSE UNCHANGED <<present, mask>>
  /\ UNCHANGED <<slots, regs>>

(* destroy_cache_event_callbacks, from plugin_shutdown_all: every active
   slot is nulled; list_cache_event_num is left as it is. *)
destroy_cache_event_callbacks ==
  /\ Active # {}
  /\ slots' = [i \in DOMAIN slots |-> [slots[i] EXCEPT !.active = FALSE]]
  /\ UNCHANGED <<present, mask, invoked, lastEv, regs>>

Next ==
  \/ destroy_cache_event_callbacks
  \/ \E n \in Subs, oom \in BOOLEAN : plugin_register_cache_event(n, oom)
  \/ \E n \in Subs : plugin_unregister_cache_event(n)
  \/ \E e \in Entries : DispatchNew(e)
  \/ \E e \in Entries, t \in {"update", "expired"} : DispatchUpdate(e, t)

Spec == Init /\ [][Next]_vars

-----------------------------------------------------------------------------
(* Properties *)

TypeOK ==
  /\ slots \in Seq([name : Subs, active : BOOLEAN]) /\ Len(slots) <= Capacity
  /\ present \subseteq Entries
  /\ \A e \in Entries : mask[e] \subseteq [i : DOMAIN slots, name : Subs]
  /\ invoked \subseteq DOMAIN slots
  /\ regs \in 0..MaxRegs

\* spec 4.6: a bit of a stored mask keeps designating the subscriber that
\* asked for the entry, or a slot nulled since; never another subscriber
\* that later took the index.  This is why unregistration nulls slots in
\* place and registration only appends.
MaskBitsStable ==
  \A e \in Entries : \A b \in mask[e] :
    slots[b.i].name = b.name \/ ~slots[b.i].active

=============================================================================
