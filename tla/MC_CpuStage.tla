------------------------------ MODULE MC_CpuStage ------------------------------
EXTENDS CpuStage

CONSTANTS nan, fail

(* user and idle in COLLECTD_CPU_STATE_* order, the one non-idle state
   and the idle one that aggregate tells apart; cpu_read stages idle
   first and user last *)
MCStateList == <<"user", "idle">>
MCStageOrder == <<1, 0>>
====
