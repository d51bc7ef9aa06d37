\* Two hosts, so that one can be lost to a failed ping_host_add while the
\* other is pinged; MaxMissed = 2 so that a resolve needs two misses in a
\* row; two echoes between reads and two environment failures, enough for
\* a thread error, a restart and a second failure after it.
\* plugin_thread_create may also fail when ping_read restarts the thread.
CONSTANTS
  h1 = h1
  h2 = h2
  HostList <- MCHostList
  MaxMissed = 2
  MaxCount = 2
  MaxFaults = 2
  RestartCreateMayFail = TRUE
  UIntMod <- MCUIntMod
SPECIFICATION Spec
PROPERTY PingerRecovers
