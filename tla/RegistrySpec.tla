---------------------------- MODULE RegistrySpec ----------------------------
(***************************************************************************)
(* What a callback registry of the plugin host promises (spec 4.1): a map *)
(* from names to callbacks that remembers the order of first               *)
(* registration.  Registering a known name replaces its callback in        *)
(* place; unregistering removes it; shutdown clears the registry.  A       *)
(* registration that fails leaves the registry as it was.                  *)
(***************************************************************************)
EXTENDS Sequences, Functions

CONSTANTS Names, Vals

VARIABLES reg, order

Register(n, v) ==
  IF n \in DOMAIN reg
  THEN /\ reg' = [reg EXCEPT ![n] = v]
       /\ UNCHANGED order
  ELSE /\ reg' = [m \in DOMAIN reg \cup {n} |-> IF m = n THEN v ELSE reg[m]]
       /\ order' = Append(order, n)

Unregister(n) ==
  /\ n \in DOMAIN reg
  /\ reg' = Restrict(reg, DOMAIN reg \ {n})
  /\ order' = SelectSeq(order, LAMBDA m : m # n)

Clear ==
  /\ reg' = [m \in {} |-> CHOOSE v \in Vals : TRUE]
  /\ order' = <<>>

Init ==
  /\ reg = [m \in {} |-> CHOOSE v \in Vals : TRUE]
  /\ order = <<>>

Next ==
  \/ \E n \in Names, v \in Vals : Register(n, v)
  \/ \E n \in Names : Unregister(n)
  \/ Clear

Spec == Init /\ [][Next]_<<reg, order>>

=============================================================================
