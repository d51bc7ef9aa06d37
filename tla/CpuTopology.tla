----------------------------- MODULE CpuTopology -----------------------------
(***************************************************************************)
(* The topology labels of the cpu plugin (src/plugins/cpu/cpu.c, Linux,    *)
(* ReportTopology): cpu_topology[] holds per CPU the labels read from      *)
(* sysfs; cpu_topology_scan clears it, grows it for every cpuN directory   *)
(* and then parses the hex cpumap of every NUMA node directory, four CPUs  *)
(* per hex digit, from the end of the buffer.  The per-CPU commits rescan  *)
(* when cpu_topology_num * COLLECTD_CPU_STATE_MAX differs from             *)
(* cpu_states_num and put the CPU's labels on the metric.                  *)
(*                                                                         *)
(* Only the node label is kept: core, socket, book and drawer are copied   *)
(* from one file each and never cleared by another.  A cpumap buffer is a *)
(* sequence of hex digit values and Comma; sysfs writes no "0x" prefix,    *)
(* so the 'x' stop of the parser is never met.  Reallocs of the topology   *)
(* and the sysfs reads do not fail here.  The staging of rates is          *)
(* CpuStage's; a read here only grows cpu_states_num and fixes which CPUs  *)
(* the commits walk.                                                       *)
(***************************************************************************)
EXTENDS Integers, SequencesExt

CONSTANTS
  Nodes,      \* the nodeN directories of /sys/devices/system/node
  NodeOrder,  \* the order walk_directory visits them in
  Cpumap,     \* Cpumap[n]: the buffer read from node n's cpumap file
  Comma,      \* the ',' between groups of eight hex digits
  NoNode,     \* an empty node label (t->node[0] == '\0')
  SysCpus,    \* the CPU numbers of the cpuN directories of /sys/devices/system/cpu
  StateMax,   \* COLLECTD_CPU_STATE_MAX
  MaxCpu,     \* cpu_read stages CPUs 0 .. MaxCpu-1
  MaxReads    \* bound on cpu_read calls

ASSUME /\ {NodeOrder[i] : i \in 1 .. Len(NodeOrder)} = Nodes
       /\ \A n \in Nodes : Len(Cpumap[n]) > 0 /\ Cpumap[n][1] # Comma
       /\ NoNode \notin Nodes

\* the largest index a scan or a commit can reach, plus 1
TopoMax == 4 * Max({Len(Cpumap[n]) : n \in Nodes}) + Max(SysCpus \cup {MaxCpu}) + 1
TopoSlots == 0 .. TopoMax - 1

VARIABLES
  cfg,             \* report_percent, report_by_cpu, report_topology
  topo,            \* [num |-> cpu_topology_num, node |-> the node label of each slot]
  cpu_states_num,  \* the cpu_states slots cpu_stage allocated
  inited,          \* the init callback ran
  reads,           \* cpu_read calls so far
  labels           \* <<cpu, node label>> of the per-CPU metrics the last read dispatched

vars == <<cfg, topo, cpu_states_num, inited, reads, labels>>

\* cpu_topology_alloc(cpu): grow to cpu + 1 entries and zero the new ones
cpu_topology_alloc(t, cpu) ==
  IF t.num >= cpu + 1 THEN t
  ELSE [num |-> cpu + 1,
        node |-> [i \in TopoSlots |-> IF t.num <= i /\ i <= cpu THEN NoNode ELSE t.node[i]]]

\* get_cpu_topology(cpu): the entry of cpu, growing the array to reach it
get_cpu_topology(t, cpu) == cpu_topology_alloc(t, cpu)

\* cpu_topology_set_node: copy the node name when set, else empty the label
cpu_topology_set_node(t, ncpu, node, set) ==
  LET t1 == get_cpu_topology(t, ncpu)
  IN [t1 EXCEPT !.node[ncpu] = IF set THEN node ELSE NoNode]

\* hex_to_int: the digit's value, -1 for any other character
hex_to_int(ch) == IF ch \in 0 .. 15 THEN ch ELSE -1

\* set & 2^k
BitSet(v, k) == (v \div 2^k) % 2 = 1

\* the four cpu_topology_set_node calls of one hex digit, in order
SetNibble(t, ncpu, node, set) ==
  LET s0 == cpu_topology_set_node(t, ncpu, node, BitSet(set, 0))
      s1 == cpu_topology_set_node(s0, ncpu + 1, node, BitSet(set, 1))
      s2 == cpu_topology_set_node(s1, ncpu + 2, node, BitSet(set, 2))
  IN cpu_topology_set_node(s2, ncpu + 3, node, BitSet(set, 3))

(* the loop of cpu_topology_node_callback with c at buf[i]: a comma moves c
   back once more, a non-hex character is skipped, a digit sets the labels
   of the next four CPUs *)
RECURSIVE ParseCpumap(_, _, _, _, _)
ParseCpumap(t, buf, i, ncpu, node) ==
  IF i < 1 THEN t
  ELSE LET j == IF buf[i] = Comma THEN i - 1 ELSE i
           set == hex_to_int(buf[j])
       IN IF set < 0 THEN ParseCpumap(t, buf, j - 1, ncpu, node)
          ELSE ParseCpumap(SetNibble(t, ncpu, node, set), buf, j - 1, ncpu + 4, node)

cpu_topology_node_callback(t, node) == ParseCpumap(t, Cpumap[node], Len(Cpumap[node]), 0, node)

\* cpu_topology_id_callback: grow to the CPU; its id files are not modelled
cpu_topology_id_callback(t, cpu) == cpu_topology_alloc(t, cpu)

(* cpu_topology_scan: clear every entry, walk the cpuN directories, then
   the node directories in NodeOrder *)
cpu_topology_scan(t) ==
  LET t0 == [t EXCEPT !.node = [i \in TopoSlots |-> NoNode]]
      t1 == FoldSet(LAMBDA c, acc : cpu_topology_id_callback(acc, c), t0, SysCpus)
  IN FoldLeft(cpu_topology_node_callback, t1, NodeOrder)

\* the rescan test of cpu_commit_one and cpu_commit_without_aggregation
NeedScan(t, num) == cfg.topology /\ t.num * StateMax # num

(* cpu_topology_set_labels for the CPUs of cl in order, collecting the
   <<cpu, node>> each metric carries; with rescan, each call is preceded by
   cpu_commit_one's rescan test *)
RECURSIVE SetLabels(_, _, _, _)
SetLabels(t, num, cl, rescan) ==
  IF cl = << >> THEN [t |-> t, labels |-> {}]
  ELSE LET t1 == IF rescan /\ NeedScan(t, num) THEN cpu_topology_scan(t) ELSE t
           t2 == get_cpu_topology(t1, Head(cl))
           r == SetLabels(t2, num, Tail(cl), rescan)
       IN [t |-> r.t, labels |-> r.labels \cup {<<Head(cl), t2.node[Head(cl)]>>}]

(* the topology part of cpu_commit: with ReportPercent, cpu_commit_one for
   every CPU below global_cpu_num (gcn); without, cpu_commit_without_-
   aggregation tests for a rescan once and labels the CPUs with a value *)
cpu_commit(t, num, gcn, withValue) ==
  IF ~cfg.by_cpu \/ ~cfg.topology THEN [t |-> t, labels |-> {}]
  ELSE IF cfg.percent THEN SetLabels(t, num, SetToSortSeq(0 .. gcn - 1, <), TRUE)
  ELSE SetLabels(IF NeedScan(t, num) THEN cpu_topology_scan(t) ELSE t, num,
                 SetToSortSeq(withValue, <), FALSE)

-----------------------------------------------------------------------------
Init ==
  /\ cfg \in [percent : BOOLEAN, by_cpu : BOOLEAN, topology : BOOLEAN]
  /\ topo = [num |-> 0, node |-> [i \in TopoSlots |-> NoNode]]
  /\ cpu_states_num = 0
  /\ inited = FALSE /\ reads = 0 /\ labels = {}

\* the plugin's init callback: cpu_topology_scan, whatever ReportTopology says
init ==
  /\ ~inited
  /\ topo' = cpu_topology_scan(topo)
  /\ inited' = TRUE
  /\ UNCHANGED <<cfg, cpu_states_num, reads, labels>>

(* cpu_read: the staging grows cpu_states to k CPUs and raises
   global_cpu_num to gcn; withValue are the CPUs staged with a rate *)
cpu_read(k, gcn, withValue) ==
  LET r == cpu_commit(topo, k * StateMax, gcn, withValue)
  IN /\ inited /\ reads < MaxReads
     /\ cpu_states_num' = k * StateMax
     /\ topo' = r.t
     /\ labels' = r.labels
     /\ reads' = reads + 1
     /\ UNCHANGED <<cfg, inited>>

Done == reads = MaxReads /\ UNCHANGED vars

Next ==
  \/ init
  \/ \E k \in cpu_states_num \div StateMax .. MaxCpu :
       \E gcn \in 0 .. k : \E withValue \in SUBSET (0 .. gcn - 1) : cpu_read(k, gcn, withValue)
  \/ Done

Spec == Init /\ [][Next]_vars

-----------------------------------------------------------------------------
\* the number a cpumap buffer writes in hex, the commas left out
CpumapValue(buf) == FoldLeft(LAMBDA acc, ch : IF ch = Comma THEN acc ELSE acc * 16 + ch, 0, buf)

\* the node whose cpumap has bit cpu set, NoNode when none has
CpuNode(cpu) ==
  IF \E n \in Nodes : BitSet(CpumapValue(Cpumap[n]), cpu)
  THEN CHOOSE n \in Nodes : BitSet(CpumapValue(Cpumap[n]), cpu)
  ELSE NoNode

(* The node label a per-CPU metric carries is the NUMA node whose cpumap
   lists that CPU, and a CPU no cpumap lists has none: the labels
   cpu_topology_scan builds from every node's cpumap file are read by
   cpu_commit_one and cpu_commit_without_aggregation. *)
NodeLabelMatchesCpumap == \A p \in labels : p[2] = CpuNode(p[1])
====
