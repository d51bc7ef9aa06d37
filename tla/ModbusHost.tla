----------------------------- MODULE ModbusHost -----------------------------
(***************************************************************************)
(* The connection of one host of the modbus plugin                         *)
(* (src/plugins/modbus/modbus.c, libmodbus >= 2.9.2): mb_read is the       *)
(* host's complex read callback, run on one read thread at a time; for     *)
(* every data item of every slave it calls mb_read_data, which checks the  *)
(* connection, reconnects with mb_init_connection, and reads the           *)
(* registers.  host_free, the read function's free_func, closes the        *)
(* connection when the daemon shuts down.                                  *)
(*                                                                         *)
(* host->connection is a pointer to a modbus_t: here the id of the object  *)
(* it was created as (0 for NULL).  Every object ever created is live or   *)
(* freed, and a live one's socket is connected or not.  The peer (a TCP    *)
(* server or a serial device) goes down and up, and a connected socket is  *)
(* reset, as environment steps between the items of a read.  Register      *)
(* values and their conversion are data and left out.                      *)
(***************************************************************************)
EXTENDS Integers

CONSTANTS
  NItems,     \* data items over all slaves of the host, read in order
  ConnTypes,  \* the connection types a host may be configured with
  MaxCtx,     \* bound on modbus_new_tcp / modbus_new_rtu calls
  MaxFaults,  \* bound on failures and environment events
  MaxReads,   \* bound on mb_read calls
  OtherErrno  \* getpeername may fail with an errno other than EBADF, ENOTSOCK, ENOTCONN

ASSUME ConnTypes \subseteq {"tcp", "rtu"} /\ NItems > 0

Ctx == 1 .. MaxCtx
NULL == 0

VARIABLES
  conntype,  \* host->conntype
  conn,      \* host->connection
  life,      \* life[c]: "none" (not created yet), "live" or "freed"
  link,      \* link[c]: the socket of live object c is connected
  peerUp,    \* the server or device accepts connections and answers
  item,      \* the item mb_read is at, 0 when no read runs
  success,   \* items read successfully in this read
  ret,       \* what the last mb_read returned
  reads, faults,
  phase,     \* "running", or "down" after host_free
  uaf,       \* a modbus call or free reached an object already freed
  failedAt   \* history: faults when the last item failed, -1 after a success

vars == <<conntype, conn, life, link, peerUp, item, success, ret, reads, faults, phase, uaf, failedAt>>

\* the host state an mb_read_data call changes
H == [conn |-> conn, life |-> life, link |-> link, faults |-> faults, uaf |-> uaf]

\* a modbus call on object c: reading a freed modbus_t is a use after free
Use(h, c) == [h EXCEPT !.uaf = @ \/ h.life[c] = "freed"]

\* modbus_close(c); modbus_free(c)
CloseFree(h, c) == [Use(h, c) EXCEPT !.life[c] = "freed", !.link[c] = FALSE]

\* the next object modbus_new_* would create
NextCtx(h) == CHOOSE c \in Ctx \cup {MaxCtx + 1} :
                c > MaxCtx \/ (h.life[c] = "none" /\ \A d \in 1 .. c - 1 : h.life[d] # "none")

\* (mutant) a failed modbus_connect does not modbus_free the object
mb_init_connection_nofree(h, newFail) ==
  LET c == NextCtx(h)
  IN IF h.conn # NULL THEN [st |-> 0, h |-> h]
     ELSE IF newFail THEN [st |-> -1, h |-> [h EXCEPT !.faults = @ + 1]]
     ELSE IF ~peerUp THEN [st |-> -1, h |-> [h EXCEPT !.life[c] = "live"]]
     ELSE [st |-> 0, h |-> [h EXCEPT !.life[c] = "live", !.link[c] = TRUE, !.conn = c]]

(* mb_init_connection: nothing when a connection object exists; else create
   one (newFail: modbus_new_* returns NULL) and connect, freeing it and
   clearing the pointer when modbus_connect fails.  [st, h]. *)
mb_init_connection(h, newFail) ==
  LET c == NextCtx(h)
  IN IF h.conn # NULL THEN [st |-> 0, h |-> h]
     ELSE IF newFail THEN [st |-> -1, h |-> [h EXCEPT !.faults = @ + 1]]
     ELSE IF ~peerUp THEN [st |-> -1, h |-> [h EXCEPT !.life[c] = "freed"]]
     ELSE [st |-> 0, h |-> [h EXCEPT !.life[c] = "live", !.link[c] = TRUE, !.conn = c]]

(* the status mb_read_data computes before reconnecting: EBADF for NULL;
   for TCP what getpeername returns on the socket: 0 on a connected one,
   0 (FIN) or ENOTCONN (reset, rst) on a broken one, and "other" (an
   ENOBUFS) *)
PeerStatus(h, rst, other) ==
  IF h.conn = NULL THEN "EBADF"
  ELSE IF conntype # "tcp" THEN "0"
  ELSE IF other THEN "other"
  ELSE IF h.life[h.conn] = "live" /\ h.link[h.conn] THEN "0"
  ELSE IF rst THEN "ENOTCONN" ELSE "0"

\* (mutant) a failed register read frees the object but keeps the pointer
ReadRegisters_noclear(h) ==
  LET h1 == Use(Use(h, h.conn), h.conn)
      ok == h.life[h.conn] = "live" /\ h.link[h.conn] /\ peerUp
  IN IF ok THEN [ok |-> TRUE, h |-> h1]
     ELSE [ok |-> FALSE, h |-> CloseFree(h1, h.conn)]

(* the rest of mb_read_data once the connection is settled:
   modbus_set_slave, then modbus_read_*registers, which succeeds only on a
   live, connected object with the peer up; a failure closes and frees the
   object and clears the pointer.  [ok, h]. *)
ReadRegisters(h) ==
  LET h1 == Use(Use(h, h.conn), h.conn)
      ok == h.life[h.conn] = "live" /\ h.link[h.conn] /\ peerUp
  IN IF ok THEN [ok |-> TRUE, h |-> h1]
     ELSE [ok |-> FALSE, h |-> [CloseFree(h1, h.conn) EXCEPT !.conn = NULL]]

(* mb_read_data for one item: EBADF, ENOTSOCK and ENOTCONN reconnect; any
   other error closes and frees the connection; then the registers are
   read.  [ok, h]. *)
mb_read_data(h, rst, other, newFail) ==
  LET st == PeerStatus(h, rst, other)
      h0 == IF conntype = "tcp" /\ h.conn # NULL
            THEN Use(h, h.conn) ELSE h
      h0f == IF other /\ st = "other" THEN [h0 EXCEPT !.faults = @ + 1] ELSE h0
      i == mb_init_connection(h0f, newFail)
  IN IF st \in {"EBADF", "ENOTSOCK", "ENOTCONN"}
     THEN IF i.st # 0 THEN [ok |-> FALSE, h |-> [i.h EXCEPT !.conn = NULL]]
          ELSE ReadRegisters(i.h)
     ELSE IF st = "other" THEN ReadRegisters(CloseFree(h0f, h0f.conn))
     ELSE ReadRegisters(h0f)

-----------------------------------------------------------------------------
Init ==
  /\ conntype \in ConnTypes
  /\ conn = NULL
  /\ life = [c \in Ctx |-> "none"] /\ link = [c \in Ctx |-> FALSE]
  /\ peerUp \in BOOLEAN
  /\ item = 0 /\ success = 0 /\ ret = 0
  /\ reads = 0 /\ faults = 0
  /\ phase = "running" /\ uaf = FALSE
  /\ failedAt = -1

\* (mutant) mb_read does not reset its count of successful items
mb_read_noreset ==
  /\ phase = "running" /\ item = 0 /\ reads < MaxReads
  /\ NextCtx(H) + NItems <= MaxCtx + 1
  /\ item' = 1 /\ reads' = reads + 1
  /\ UNCHANGED <<conntype, conn, life, link, peerUp, success, ret, faults, phase, uaf, failedAt>>

\* the read thread calls mb_read
mb_read ==
  /\ phase = "running" /\ item = 0 /\ reads < MaxReads
  /\ NextCtx(H) + NItems <= MaxCtx + 1
  /\ item' = 1 /\ success' = 0 /\ reads' = reads + 1
  /\ UNCHANGED <<conntype, conn, life, link, peerUp, ret, faults, phase, uaf, failedAt>>

(* mb_read_slave / mb_read: one data item; after the last, mb_read returns
   -1 when no item succeeded *)
ReadItem ==
  /\ item > 0
  /\ \E rst \in BOOLEAN, other \in BOOLEAN, newFail \in BOOLEAN :
       LET r == mb_read_data(H, rst, other /\ OtherErrno, newFail)
           s1 == IF r.ok THEN success + 1 ELSE success
       IN /\ r.h.faults <= MaxFaults
          /\ conn' = r.h.conn /\ life' = r.h.life /\ link' = r.h.link
          /\ faults' = r.h.faults /\ uaf' = r.h.uaf
          /\ success' = s1
          /\ failedAt' = IF r.ok THEN -1 ELSE r.h.faults
          /\ IF item = NItems THEN item' = 0 /\ ret' = IF s1 = 0 THEN -1 ELSE 0
             ELSE item' = item + 1 /\ ret' = ret
  /\ UNCHANGED <<conntype, peerUp, reads, phase>>

\* the peer goes away: every connected socket breaks
PeerDown ==
  /\ peerUp /\ faults < MaxFaults
  /\ peerUp' = FALSE /\ link' = [c \in Ctx |-> FALSE] /\ faults' = faults + 1
  /\ UNCHANGED <<conntype, conn, life, item, success, ret, reads, phase, uaf, failedAt>>

PeerUp ==
  /\ ~peerUp
  /\ peerUp' = TRUE
  /\ UNCHANGED <<conntype, conn, life, link, item, success, ret, reads, faults, phase, uaf, failedAt>>

\* a connected socket is reset while the peer stays up
LinkReset ==
  /\ conn # NULL /\ link[conn] /\ faults < MaxFaults
  /\ link' = [link EXCEPT ![conn] = FALSE] /\ faults' = faults + 1
  /\ UNCHANGED <<conntype, conn, life, peerUp, item, success, ret, reads, phase, uaf, failedAt>>

(* shutdown destroys the read function between reads and calls host_free,
   which closes and frees a non-NULL connection *)
host_free ==
  /\ phase = "running" /\ item = 0
  /\ phase' = "down"
  /\ IF conn # NULL
     THEN LET h == CloseFree(H, conn) IN life' = h.life /\ link' = h.link /\ uaf' = h.uaf
     ELSE UNCHANGED <<life, link, uaf>>
  /\ UNCHANGED <<conntype, conn, peerUp, item, success, ret, reads, faults, failedAt>>

Done == phase = "down" /\ UNCHANGED vars

Next == mb_read \/ ReadItem \/ PeerDown \/ PeerUp \/ LinkReset \/ host_free \/ Done

Spec == Init /\ [][Next]_vars

-----------------------------------------------------------------------------
(* No modbus call, modbus_close or modbus_free reaches a modbus_t that was
   already freed: mb_read_data and host_free only use host->connection
   while it points to a live object. *)
NoUseAfterFree == ~uaf

(* the host's fields keep their types *)
TypeOK ==
  /\ conntype \in ConnTypes
  /\ conn \in Ctx \cup {NULL}
  /\ life \in [Ctx -> {"none", "live", "freed"}] /\ link \in [Ctx -> BOOLEAN]
  /\ item \in 0 .. NItems /\ success \in 0 .. NItems /\ ret \in {-1, 0}
  /\ failedAt \in {-1} \cup 0 .. MaxFaults
  /\ phase \in {"running", "down"}

(* While the daemon runs, host->connection is NULL or points to a live
   modbus_t, and no other modbus_t is live: every path of mb_init_connection
   and mb_read_data that gives up an object frees it and clears the
   pointer, so no object leaks and none is reachable after its free; after
   host_free no object is live. *)
ConnectionOwned ==
  /\ phase = "running" /\ conn # NULL => life[conn] = "live"
  /\ \A c \in Ctx : life[c] = "live" => phase = "running" /\ c = conn

(* A broken connection costs at most one data item: after an item fails,
   the next item read while the peer is up succeeds unless a new fault (a
   reset, the peer going down, a failed modbus_new_tcp or modbus_new_rtu) came in between.
   This holds although the ENOTCONN reconnect of mb_read_data is a no-op
   (mb_init_connection returns 0 while host->connection is set): the
   failed register read then frees the object and clears the pointer, and
   the next item reconnects on EBADF. *)
RecoversWithinOneItem ==
  [][ReadItem /\ peerUp /\ failedAt # -1 => failedAt' # failedAt]_vars
====
