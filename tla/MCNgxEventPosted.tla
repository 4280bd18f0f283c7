--------------------------- MODULE MCNgxEventPosted ---------------------------
EXTENDS NgxEventPosted, TLC

(* Three events and the two posted queues of ngx_event_posted.c.           *)
MCEvents == {"e1", "e2", "e3"}
MCQueues == {"accept", "posted"}

(* Handlers post only to the other queue, as the accept handler posts to   *)
(* ngx_posted_events.                                                      *)
MCOtherTarget == [q \in MCQueues |-> MCQueues \ {q}]

=============================================================================
