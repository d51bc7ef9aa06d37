------------------------------ MODULE CpuStage ------------------------------
(***************************************************************************)
(* The rate state of the cpu plugin (src/plugins/cpu/cpu.c, the Linux      *)
(* read path): cpu_read stages one derive value per CPU and state with     *)
(* cpu_stage, which grows cpu_states with realloc and converts the value   *)
(* with value_to_rate; then cpu_commit aggregates and dispatches, and      *)
(* cpu_reset clears the staging.  A read is one call of the read callback  *)
(* on one read thread, so it is one action; its input is which CPUs        *)
(* /proc/stat lists, what value_to_rate returns for each staged value, and *)
(* which reallocs fail.                                                    *)
(*                                                                         *)
(* A slot of cpu_states is index cpu * StateMax + state, as in             *)
(* get_cpu_state; the last state of each CPU is COLLECTD_CPU_STATE_ACTIVE, *)
(* which only aggregate writes.  Derive values and the conversion state    *)
(* of value_to_rate are data: a rate is a member of Rates or NaN, and a    *)
(* dispatched percentage 100 * r / sum is kept as the pair [n |-> r,       *)
(* d |-> sum].                                                             *)
(***************************************************************************)
EXTENDS Integers, SequencesExt

CONSTANTS
  StateList,     \* the state names below ACTIVE, in COLLECTD_CPU_STATE_* order
  Idle,          \* COLLECTD_CPU_STATE_IDLE's name
  StageOrder,    \* the state indices in the order cpu_read stages them
  MaxCpu,        \* CPUs 0 .. MaxCpu-1 may be listed in /proc/stat
  Rates,         \* rates value_to_rate may return
  NaN,           \* the float NAN
  Fail,          \* value_to_rate returned an error (EAGAIN on a first value)
  MaxReads,      \* bound on cpu_read calls
  MaxAllocFails  \* bound on failed reallocs

\* COLLECTD_CPU_STATE_MAX, ACTIVE and IDLE as indices
StateMax == Len(StateList) + 1
ACTIVE == StateMax - 1
IDLE == CHOOSE i \in 0 .. ACTIVE - 1 : StateList[i + 1] = Idle
Cpus == 0 .. MaxCpu - 1
Slots == 0 .. MaxCpu * StateMax - 1

ASSUME /\ Idle \in {StateList[i] : i \in 1 .. Len(StateList)}
       /\ {StageOrder[i] : i \in 1 .. Len(StageOrder)} = 0 .. ACTIVE - 1
       /\ Rates \subseteq Nat /\ NaN \notin Nat /\ MaxCpu > 0

VARIABLES
  cfg,             \* report_by_cpu, report_by_state, report_percent, report_num_cpu
  cs,              \* cs[i]: cpu_states[i], [rate, has_value]
  cpu_states_num,  \* slots allocated
  global_cpu_num,  \* highest CPU number staged in this read, plus 1
  reads,           \* cpu_read calls so far
  allocFails,      \* failed reallocs so far
  staged,          \* <<cpu, state>> staged with a rate in the last read
  out,             \* the metrics the last read dispatched
  crashed          \* a read dereferenced a NULL get_cpu_state

vars == <<cfg, cs, cpu_states_num, global_cpu_num, reads, allocFails, staged, out, crashed>>

\* RATE_ADD(sum, val): NAN is the identity
RateAdd(sum, val) == IF sum = NaN THEN val ELSE IF val = NaN THEN sum ELSE sum + val

\* RATE_ADD over the values f[i], i \in S, starting from NAN
RateSum(f, S) == FoldFunctionOnSet(RateAdd, NaN, f, S)

\* 100.0 * r / sum as a fraction; NAN when either is NAN or 0 / 0
Pct(r, sum) == IF r = NaN \/ sum = NaN \/ sum = 0 THEN NaN ELSE [n |-> r, d |-> sum]

\* get_cpu_state: the slot index, or -1 for NULL
get_cpu_state(num, cpu, state) ==
  LET index == cpu * StateMax + state IN IF index >= num THEN -1 ELSE index

Slot0 == [rate |-> 0, has_value |-> FALSE]

-----------------------------------------------------------------------------
(* The staging of one read: s is [cs, num, gcn, staged, fails]. *)

cpu_states_alloc(s, cpu, afail) ==
  LET sz == (cpu + 1) * StateMax
  IN IF s.num >= sz THEN [ok |-> TRUE, s |-> s]
     ELSE IF afail THEN [ok |-> FALSE, s |-> [s EXCEPT !.fails = @ + 1]]
     ELSE [ok |-> TRUE,
           s |-> [s EXCEPT !.cs = [i \in Slots |-> IF s.num <= i /\ i < sz THEN Slot0 ELSE @[i]],
                           !.num = sz]]

(* cpu_stage(cpu, state, d): allocate, raise global_cpu_num, convert; only
   a successful conversion stores the rate and sets has_value. *)
cpu_stage_bumpfirst(s, cpu, state, res, afail) ==
  LET s1 == [s EXCEPT !.gcn = IF @ <= cpu THEN cpu + 1 ELSE @]
      a == cpu_states_alloc(s1, cpu, afail)
      i == cpu * StateMax + state
  IN IF ~a.ok THEN a.s
     ELSE IF res = Fail THEN a.s
     ELSE [a.s EXCEPT !.cs[i] = [rate |-> res, has_value |-> TRUE],
                      !.staged = @ \cup {<<cpu, state>>}]

cpu_stage(s, cpu, state, res, afail) ==
  LET a == cpu_states_alloc(s, cpu, afail)
      s1 == [a.s EXCEPT !.gcn = IF @ <= cpu THEN cpu + 1 ELSE @]
      i == cpu * StateMax + state
  IN IF ~a.ok THEN a.s
     ELSE IF res = Fail THEN s1
     ELSE [s1 EXCEPT !.cs[i] = [rate |-> res, has_value |-> TRUE],
                     !.staged = @ \cup {<<cpu, state>>}]

\* the lines of /proc/stat for the CPUs in L, in order, each staging StageOrder
Calls(L) == LET cl == SetToSortSeq(L, <) IN
  [k \in 1 .. Len(cl) * Len(StageOrder) |->
     <<cl[(k - 1) \div Len(StageOrder) + 1], StageOrder[((k - 1) % Len(StageOrder)) + 1]>>]

RECURSIVE StageAll(_, _, _, _)
StageAll(s, calls, res, af) ==
  IF calls = << >> THEN s
  ELSE LET c == Head(calls)
       IN StageAll(cpu_stage(s, c[1], c[2], res[c], c \in af), Tail(calls), res, af)

-----------------------------------------------------------------------------
(* cpu_commit on the staged state s.  The dispatched metrics are kept in
   three parts: count (host_cpu_count), pct (the percentages of
   host_cpu_all_usage_percent "all" and host_cpu_usage_percent "cpu"), and
   total (the counters host_cpu_all_usage_total "all_total" and
   host_cpu_usage_total "cpu_total", each with the CPUs whose last derive
   value it sums). *)

\* aggregate: the per-CPU ACTIVE rate, reset to NAN, then RATE_ADD over the non-idle states
ActiveRate_noreset(s, c) ==
  LET i0 == c * StateMax
  IN FoldFunctionOnSet(RateAdd, s.cs[i0 + ACTIVE].rate, [st \in 0 .. ACTIVE - 1 |-> s.cs[i0 + st].rate],
                       {st \in 0 .. ACTIVE - 1 : s.cs[i0 + st].has_value /\ st # IDLE})

ActiveRate(s, c) ==
  LET i0 == c * StateMax
  IN RateSum([st \in 0 .. ACTIVE - 1 |-> s.cs[i0 + st].rate],
             {st \in 0 .. ACTIVE - 1 : s.cs[i0 + st].has_value /\ st # IDLE})

\* the CPUs aggregate and the per-CPU commits walk, those with a get_cpu_state
Walked(s) == {c \in 0 .. s.gcn - 1 : get_cpu_state(s.num, c, 0) # -1}

(* aggregate: store each CPU's ACTIVE rate (has_value when not NAN) and sum
   every state over the CPUs that have it.  [cs, rates]. *)
aggregate(s) ==
  LET act == [c \in Walked(s) |-> ActiveRate(s, c)]
      cs1 == [i \in Slots |->
                IF i % StateMax = ACTIVE /\ i \div StateMax \in Walked(s)
                THEN [rate |-> act[i \div StateMax],
                      has_value |-> s.cs[i].has_value \/ act[i \div StateMax] # NaN]
                ELSE s.cs[i]]
  IN [cs |-> cs1,
      rates |-> [st \in 0 .. ACTIVE |->
                   IF st = ACTIVE THEN RateSum(act, Walked(s))
                   ELSE RateSum([c \in Walked(s) |-> s.cs[c * StateMax + st].rate],
                                {c \in Walked(s) : s.cs[c * StateMax + st].has_value})]]

\* cpu_commit_metric: the percentages of one family against active + idle
cpu_commit_metric(fam, cpu, rates) ==
  LET sum == RateAdd(rates[ACTIVE], rates[IDLE])
  IN IF ~cfg.by_state THEN {[fam |-> fam, cpu |-> cpu, state |-> ACTIVE, v |-> Pct(rates[ACTIVE], sum)]}
     ELSE {[fam |-> fam, cpu |-> cpu, state |-> st, v |-> Pct(rates[st], sum)] : st \in 0 .. ACTIVE - 1}

\* the staged states of CPU c
HasValue(cs1, num, c, st) == get_cpu_state(num, c, st) # -1 /\ cs1[c * StateMax + st].has_value

\* cpu_commit_all / cpu_commit_one: the "all" family and one CPU's
cpu_commit_all(rates) == cpu_commit_metric("all", -1, rates)

cpu_commit_one(c, rates) == cpu_commit_metric("cpu", c, rates)

(* cpu_commit_all_without_aggregation: per state, the sum of the last
   derive values of the CPUs that have one (a NULL state is skipped) *)
cpu_commit_all_without_aggregation(s) ==
  {[fam |-> "all_total", cpu |-> -1, state |-> st,
    from |-> {c \in 0 .. s.gcn - 1 : HasValue(s.cs, s.num, c, st)}] : st \in 0 .. ACTIVE - 1}

(* cpu_commit_without_aggregation: one counter per CPU and state with a
   value; nothing is dispatched when there is none *)
cpu_commit_without_aggregation(s) ==
  {[fam |-> "cpu_total", cpu |-> x.c, state |-> x.st, from |-> {x.c}] :
     x \in {y \in [c : 0 .. s.gcn - 1, st : 0 .. ACTIVE - 1] : HasValue(s.cs, s.num, y.c, y.st)}}

(* cpu_commit: cpu_commit_num_cpu when report_num_cpu, then either the
   counters (with the per-CPU ones when report_by_cpu) or aggregate,
   cpu_commit_all and, when report_by_cpu, cpu_commit_one for every CPU
   below global_cpu_num.  aggregate and both per-CPU walks dereference
   get_cpu_state without a NULL test.  [cs, out, null]. *)
cpu_commit(s) ==
  LET agg == aggregate(s)
      local(c) == [st \in 0 .. ACTIVE |->
                     IF agg.cs[c * StateMax + st].has_value THEN agg.cs[c * StateMax + st].rate ELSE NaN]
  IN [cs |-> IF cfg.percent THEN agg.cs ELSE s.cs,
      out |-> [count |-> IF cfg.num_cpu THEN {s.gcn} ELSE {},
               pct |-> IF ~cfg.percent THEN {}
                       ELSE cpu_commit_all(agg.rates)
                            \cup (IF cfg.by_cpu THEN UNION {cpu_commit_one(c, local(c)) : c \in Walked(s)}
                                  ELSE {}),
               total |-> IF cfg.percent THEN {}
                         ELSE cpu_commit_all_without_aggregation(s)
                              \cup (IF cfg.by_cpu THEN cpu_commit_without_aggregation(s) ELSE {})],
      null |-> (cfg.percent \/ cfg.by_cpu) /\ Walked(s) # 0 .. s.gcn - 1]

\* cpu_reset: clear has_value of every allocated slot and global_cpu_num
cpu_reset_nohasvalue(cs1, num) == cs1

cpu_reset(cs1, num) == [i \in Slots |-> IF i < num THEN [cs1[i] EXCEPT !.has_value = FALSE] ELSE cs1[i]]

-----------------------------------------------------------------------------
Init ==
  /\ cfg \in [by_cpu : BOOLEAN, by_state : BOOLEAN, percent : BOOLEAN, num_cpu : BOOLEAN]
  /\ cs = [i \in Slots |-> Slot0]
  /\ cpu_states_num = 0 /\ global_cpu_num = 0
  /\ reads = 0 /\ allocFails = 0
  /\ staged = {} /\ out = [count |-> {}, pct |-> {}, total |-> {}]
  /\ crashed = FALSE

\* the stage calls of a read listing the CPUs in L
CallSet(L) == L \X (0 .. ACTIVE - 1)

(* cpu_read on Linux: stage the listed CPUs' values, cpu_commit, cpu_reset.
   L is the set of CPUs /proc/stat lists with at least 5 fields, res what
   value_to_rate returns for each stage call, af the stage calls whose
   realloc fails. *)
cpu_read(L, res, af) ==
  LET s0 == [cs |-> cs, num |-> cpu_states_num, gcn |-> global_cpu_num,
             staged |-> {}, fails |-> allocFails]
      s == StageAll(s0, Calls(L), res, af)
      c == cpu_commit(s)
  IN /\ reads < MaxReads /\ ~crashed
     /\ s.fails <= MaxAllocFails
     /\ cs' = cpu_reset(c.cs, s.num)
     /\ cpu_states_num' = s.num
     /\ global_cpu_num' = 0
     /\ allocFails' = s.fails
     /\ staged' = s.staged
     /\ out' = c.out
     /\ crashed' = c.null
     /\ reads' = reads + 1
     /\ UNCHANGED cfg

\* fopen("/proc/stat") fails: cpu_read returns -1 before cpu_commit
ReadOpenFailed ==
  /\ reads < MaxReads /\ ~crashed
  /\ reads' = reads + 1
  /\ staged' = {} /\ out' = [count |-> {}, pct |-> {}, total |-> {}]
  /\ UNCHANGED <<cfg, cs, cpu_states_num, global_cpu_num, allocFails, crashed>>

\* the reads are over, or the daemon crashed
Done == (reads = MaxReads \/ crashed) /\ UNCHANGED vars

Next ==
  \/ \E L \in SUBSET Cpus :
       \E res \in [CallSet(L) -> Rates \cup {Fail}] :
         \E af \in {A \in SUBSET CallSet(L) : Cardinality(A) <= MaxAllocFails - allocFails} :
           cpu_read(L, res, af)
  \/ ReadOpenFailed
  \/ Done

Spec == Init /\ [][Next]_vars

-----------------------------------------------------------------------------

(* cpu_commit and aggregate walk every CPU below global_cpu_num with
   get_cpu_state and dereference it without a NULL test; cpu_stage keeps
   this safe by raising global_cpu_num only after cpu_states_alloc
   succeeded, also when a realloc fails for a CPU listed later. *)
NoNullState == ~crashed

(* Within one dispatched percentage family (the "all" family or one CPU's),
   the percentages of the states that have a value add up to 100: each is
   100 * rate / (active + idle), and aggregate recomputes the ACTIVE rate
   from this read's staged states.  With ReportByState false, the one
   "active" percentage is at most 100. *)
PercentagesConsistent ==
  \A f \in {<<r.fam, r.cpu>> : r \in out.pct} :
    LET V == {r \in out.pct : <<r.fam, r.cpu>> = f /\ r.v # NaN}
    IN V # {} =>
         \E d \in {r.v.d : r \in V} :
           /\ \A r \in V : r.v.d = d
           /\ IF cfg.by_state THEN MapThenSumSet(LAMBDA r : r.v.n, V) = d
              ELSE \A r \in V : r.v.n <= d

(* Every value a read dispatches comes from a value staged in that read: a
   CPU's percentage of a state has a rate only if value_to_rate returned
   one in this read, and a counter sums only CPUs staged in this read.
   The code relies on has_value, set by cpu_stage on success and cleared
   by cpu_reset after every commit. *)
NoStaleRate ==
  /\ \A r \in out.pct : (r.cpu >= 0 /\ r.state < ACTIVE /\ r.v # NaN) => <<r.cpu, r.state>> \in staged
  /\ \A t \in out.total : \A c \in t.from : <<c, t.state>> \in staged
====
