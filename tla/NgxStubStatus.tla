----------------------------- MODULE NgxStubStatus -----------------------------
(***************************************************************************)
(* The seven shared counters of ngx_http_stub_status_module.c and the     *)
(* status handler that prints them.  The counters live in shared memory   *)
(* (ngx_event_module_init points ngx_stat_* there); every worker changes  *)
(* them with ngx_atomic_fetch_add at the places the module's comment      *)
(* lists, and the handler, run by some worker for a status request, reads *)
(* them one after another.                                                 *)
(*                                                                         *)
(* Each connection belongs to its own worker, so the steps of different   *)
(* connections and of the handler interleave freely.  One fetch-add is    *)
(* one step: it is atomic, and another process can run between two.       *)
(* The order of the calls over a connection's life is the HTTP flow:      *)
(* accept, ngx_reusable_connection(c, 1) while it waits for a request,    *)
(* (c, 0) when one arrives, create, process and free the request, and     *)
(* back to waiting for the next request on the kept-alive connection.     *)
(* Closing an HTTP connection is not among the listed updates and is not  *)
(* modelled; ngx_close_accepted_connection, the error path of accept, is. *)
(***************************************************************************)
EXTENDS Integers, FiniteSets, FiniteSetsExt, Functions

CONSTANTS
  Conns,        \* client connections
  MaxRequests   \* requests a caller sends on one connection

VARIABLES
  stat,   \* the shared counters, *ngx_stat_accepted ... *ngx_stat_waiting
  pc,     \* where each connection is in its life
  nreq,   \* requests created on each connection, counted by requests++
  hpc,    \* the handler: 0 idle, 1 .. 7 the next read, 8 the page is sent
  snap,   \* ap, hn, ac, rq, rd, wr, wa as read so far
  page    \* accepts, handled and requests as the last page sent showed

vars == <<stat, pc, nreq, hpc, snap, page>>

Counters == {"accepted", "handled", "requests", "active", "reading", "writing", "waiting"}

(* ap = *ngx_stat_accepted; hn = ...handled; ac = ...active;              *)
(* rq = ...requests; rd = ...reading; wr = ...writing; wa = ...waiting;   *)
ReadOrder == <<"accepted", "handled", "active", "requests", "reading", "writing", "waiting">>

Zero == [k \in Counters |-> 0]

(* The counters that only grow.                                           *)
Monotonic == {"accepted", "handled", "requests"}

Init ==
  /\ stat = Zero
  /\ pc = [c \in Conns |-> "listen"]
  /\ nreq = [c \in Conns |-> 0]
  /\ hpc = 0
  /\ snap = Zero
  /\ page = [k \in Monotonic |-> 0]

(* (void) ngx_atomic_fetch_add(ngx_stat_<k>, d), taking c from one place  *)
(* of its life to the next.                                               *)
FetchAdd(c, from, to, k, d) ==
  /\ pc[c] = from
  /\ stat' = [stat EXCEPT ![k] = @ + d]
  /\ pc' = [pc EXCEPT ![c] = to]
  /\ UNCHANGED <<hpc, snap, page>>

(* ngx_event_accept: accept(), then accepted++.                           *)
Accept(c) == FetchAdd(c, "listen", "accepted", "accepted", 1) /\ UNCHANGED nreq

(* ngx_get_connection(), then active++.                                   *)
GetConnection(c) == FetchAdd(c, "accepted", "active", "active", 1) /\ UNCHANGED nreq

(* The pool, non-blocking mode and handlers are set up, then handled++.   *)
Handled(c) == FetchAdd(c, "active", "open", "handled", 1) /\ UNCHANGED nreq

(* ngx_close_accepted_connection when that setup fails: active--, and     *)
(* the connection is never counted as handled.                            *)
CloseAccepted(c) == FetchAdd(c, "active", "closed", "active", -1) /\ UNCHANGED nreq

(* ngx_reusable_connection(c, 1): waiting++ while the connection waits.   *)
ReusableOn(c) == FetchAdd(c, "open", "idle", "waiting", 1) /\ UNCHANGED nreq

(* ngx_reusable_connection(c, 0): waiting-- when a request arrives.       *)
ReusableOff(c) ==
  /\ nreq[c] < MaxRequests
  /\ FetchAdd(c, "idle", "ready", "waiting", -1) /\ UNCHANGED nreq

(* ngx_http_create_request: reading++, then requests++.                   *)
CreateReading(c) == FetchAdd(c, "ready", "created", "reading", 1) /\ UNCHANGED nreq
CreateRequests(c) ==
  /\ FetchAdd(c, "created", "reading", "requests", 1)
  /\ nreq' = [nreq EXCEPT ![c] = @ + 1]

(* ngx_http_process_request: reading--, then writing++.                   *)
ProcessReading(c) == FetchAdd(c, "reading", "processing", "reading", -1) /\ UNCHANGED nreq
ProcessWriting(c) == FetchAdd(c, "processing", "writing", "writing", 1) /\ UNCHANGED nreq

(* Mutation: the request is taken off the counter it is not on.           *)
FreeRequestSwapped(c) ==
  \/ FetchAdd(c, "reading", "open", "writing", -1) /\ UNCHANGED nreq
  \/ FetchAdd(c, "writing", "open", "reading", -1) /\ UNCHANGED nreq

(* ngx_http_free_request: reading-- for a request still being read (one   *)
(* finalized before it was processed), writing-- for one being written.   *)
FreeRequest(c) ==
  \/ FetchAdd(c, "reading", "open", "reading", -1) /\ UNCHANGED nreq
  \/ FetchAdd(c, "writing", "open", "writing", -1) /\ UNCHANGED nreq

Connection(c) ==
  \/ Accept(c) \/ GetConnection(c) \/ Handled(c) \/ CloseAccepted(c)
  \/ ReusableOn(c) \/ ReusableOff(c) \/ CreateReading(c) \/ CreateRequests(c)
  \/ ProcessReading(c) \/ ProcessWriting(c) \/ FreeRequest(c)

(* ngx_http_stub_status_handler up to the reads.  A method other than GET *)
(* or HEAD (NGX_HTTP_NOT_ALLOWED), a HEAD request, whose header is sent   *)
(* before the counters are read, an error discarding the body, and a      *)
(* failed ngx_create_temp_buf all return before any read; a GET goes on. *)
HandlerStart ==
  /\ hpc = 0
  /\ \/ UNCHANGED vars
     \/ hpc' = 1 /\ UNCHANGED <<stat, pc, nreq, snap, page>>

(* Mutation: hn is read from ngx_stat_active.                             *)
HandlerReadActive ==
  /\ hpc \in 1 .. 7
  /\ LET k == ReadOrder[hpc] IN
       snap' = [snap EXCEPT ![k] = stat[IF k = "handled" THEN "active" ELSE k]]
  /\ hpc' = hpc + 1
  /\ UNCHANGED <<stat, pc, nreq, page>>

(* One of the seven plain loads ap = *ngx_stat_accepted ... wa =           *)
(* *ngx_stat_waiting, in the order of the code.                           *)
HandlerRead ==
  /\ hpc \in 1 .. 7
  /\ snap' = [snap EXCEPT ![ReadOrder[hpc]] = stat[ReadOrder[hpc]]]
  /\ hpc' = hpc + 1
  /\ UNCHANGED <<stat, pc, nreq, page>>

(* The page is formatted from the seven values and sent; the locals of    *)
(* the handler are gone with its frame.                                    *)
HandlerSend ==
  /\ hpc = 8
  /\ page' = [k \in Monotonic |-> snap[k]]
  /\ snap' = Zero
  /\ hpc' = 0
  /\ UNCHANGED <<stat, pc, nreq>>

Handler == HandlerStart \/ HandlerRead \/ HandlerSend

Next == Handler \/ \E c \in Conns : Connection(c)

Spec == Init /\ [][Next]_vars

-----------------------------------------------------------------------------
Places == {"listen", "accepted", "active", "closed", "open", "idle",
           "ready", "created", "reading", "processing", "writing"}

(* The number of connections at one of the places S of their life.        *)
Counted(S) == Quantify(Conns, LAMBDA c : pc[c] \in S)

TypeOK ==
  /\ stat \in [Counters -> Int]
  /\ pc \in [Conns -> Places]
  /\ nreq \in [Conns -> 0 .. MaxRequests]
  /\ hpc \in 0 .. 8
  /\ snap \in [Counters -> Int] /\ page \in [Monotonic -> Int]

(* Every shared counter equals what its name says of the connections of   *)
(* all workers, at every step: each fetch-add sits where the counted      *)
(* state begins or ends, a failed accept gives back active but never      *)
(* counts handled, and free_request takes a request off the counter it is *)
(* on.                                                                     *)
CountersMatchConnections ==
  /\ stat["accepted"] = Counted(Places \ {"listen"})
  /\ stat["active"] = Counted({"active", "open", "idle", "ready", "created",
                               "reading", "processing", "writing"})
  /\ stat["handled"] = Counted({"open", "idle", "ready", "created", "reading",
                                "processing", "writing"})
  /\ stat["waiting"] = Counted({"idle"})
  /\ stat["reading"] = Counted({"created", "reading"})
  /\ stat["writing"] = Counted({"writing"})
  /\ stat["requests"] = SumFunction(nreq)

(* The status handler reads the counters one by one while workers change  *)
(* them, so a page mixes moments; still, the accepts, handled and         *)
(* requests a page shows are never below those of the page before, as a  *)
(* client computing rates from two pages assumes.                         *)
PagesMonotonic == [][\A k \in Monotonic : page'[k] >= page[k]]_page

=============================================================================
