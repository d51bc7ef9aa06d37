---------------------------- MODULE MC_CpuTopology ----------------------------
EXTENDS CpuTopology

CONSTANTS n0, n1, comma, nonode

(* two NUMA nodes of a two-CPU machine: node0's cpumap "0,1" lists cpu0,
   node1's "0,2" lists cpu1; two groups of one digit stand for the
   comma-separated groups of eight sysfs writes *)
MCCpumap == n0 :> <<0, comma, 1>> @@ n1 :> <<0, comma, 2>>
MCNodeOrder == <<n0, n1>>
====
