------------------------------ MODULE Shedding ------------------------------
(***************************************************************************)
(* Load shedding of src/daemon/plugin.c as pure operators: how             *)
(* plugin_init_all normalises WriteQueueLimitHigh / WriteQueueLimitLow,    *)
(* the drop probability of get_drop_probability, and the decision of       *)
(* check_drop_value for a draw q of cdrand_d().                            *)
(*                                                                         *)
(* Probabilities are exact rationals [num |-> n, den |-> d].  cdrand_d()   *)
(* returns a double in [0, 1); it is modelled by the grid k / Grid,        *)
(* k \in 0..Grid-1.  The module has no state: WritePipeline takes its     *)
(* drop decision from check_drop_value and checks get_drop_probability,    *)
(* for every configuration, at each queue length the pipeline reaches.     *)
(***************************************************************************)
EXTENDS Integers, FiniteSets

CONSTANTS
  Unset,      \* WriteQueueLimitLow absent from the configuration
  Grid        \* resolution of the cdrand_d() draw

ASSUME Grid \in Nat \ {0}

\* (mutant) the low > high clamp left out
NormLimits_noclamp(h, l) ==
  LET high == IF h < 0 THEN 0 ELSE h
      low  == IF l = Unset \/ l < 0 THEN high \div 2 ELSE l
  IN [high |-> high, low |-> low]

\* plugin_init_all: write_limit_high and write_limit_low after the checks
NormLimits(h, l) ==
  LET high == IF h < 0 THEN 0 ELSE h
      low  == IF l = Unset \/ l < 0 THEN high \div 2
              ELSE IF l > high THEN high
              ELSE l
  IN [high |-> high, low |-> low]

\* get_drop_probability for a sampled queue length
get_drop_probability(len, lim) ==
  IF len < lim.low THEN [num |-> 0, den |-> 1]
  ELSE IF len >= lim.high THEN [num |-> 1, den |-> 1]
  ELSE [num |-> 1 + len - lim.low, den |-> 1 + lim.high - lim.low]

\* (mutant) the early return for p == 1 left out
check_drop_value_noone(len, lim, k) ==
  LET p == get_drop_probability(len, lim)
  IN /\ lim.high # 0
     /\ p.num # 0
     /\ k * p.den > p.num * Grid

\* check_drop_value for the draw q = k / Grid: TRUE means drop
check_drop_value(len, lim, k) ==
  LET p == get_drop_probability(len, lim)
  IN /\ lim.high # 0
     /\ p.num # 0
     /\ \/ p.num = p.den
        \/ k * p.den > p.num * Grid        \* q > p

=============================================================================
