---------------------------- MODULE NgxEventPosted ----------------------------
(***************************************************************************)
(* Posted events, ngx_event_posted.c and .h: events whose handlers are    *)
(* deferred are put on one of the posted queues (ngx_posted_accept_events, *)
(* ngx_posted_events) with ngx_post_event, taken off with                  *)
(* ngx_delete_posted_event, and run by ngx_event_process_posted.  The     *)
(* queues are the rings of NgxQueue, through the queue field of each      *)
(* event; ev->posted is the flag the macros trust instead of the ring.    *)
(*                                                                         *)
(* The event loop is the pc cycle idle -StartProcess-> process            *)
(* -(ProcessStep Handler)*-> process -ProcessReturn-> idle.  A handler    *)
(* run from queue p may post to the queues in Targets[p].                  *)
(***************************************************************************)
EXTENDS Integers, Sequences, FiniteSets

CONSTANTS
  Events,         \* ngx_event_t records
  PostedQueues,   \* the heads of the posted queues
  Targets,        \* the queues a handler run from each queue posts to
  NULL

ASSUME Targets \in [PostedQueues -> SUBSET PostedQueues]

VARIABLES
  prev, next,   \* the ngx_queue_t links of heads and of ev->queue
  posted,       \* ev->posted
  pc,           \* where the event loop is
  from,         \* the queue ngx_event_process_posted is draining
  cur           \* the event whose handler it is calling

vars == <<prev, next, posted, pc, from, cur>>

Q == INSTANCE NgxQueue WITH Heads <- PostedQueues, Elems <- Events,
                            Key <- [e \in Events |-> 0],
                            live <- [h \in PostedQueues |-> TRUE], ret <- NULL

Links == <<prev, next>>
SetLinks(r) == prev' = r[1] /\ next' = r[2]

(* ngx_post_event: an event already posted stays where it is.              *)
PostEvent(ev, q) ==
  IF posted[ev]
  THEN UNCHANGED <<prev, next, posted>>
  ELSE /\ posted' = [posted EXCEPT ![ev] = TRUE]
       /\ SetLinks(Q!InsertBefore(Links, q, ev))

(* ngx_delete_posted_event, called by its users only on a posted event.    *)
DeletePosted(ev) ==
  /\ posted' = [posted EXCEPT ![ev] = FALSE]
  /\ SetLinks(Q!Unlink(Links, ev))

(* ngx_event_process_init sets both queues up empty; events start         *)
(* unposted with links that nothing reads.                                 *)
Init ==
  /\ prev = [s \in PostedQueues \cup Events |-> IF s \in PostedQueues THEN s ELSE NULL]
  /\ next = [s \in PostedQueues \cup Events |-> IF s \in PostedQueues THEN s ELSE NULL]
  /\ posted = [e \in Events |-> FALSE]
  /\ pc = "idle"
  /\ from = NULL
  /\ cur = NULL

(* I/O handlers of ngx_process_events post and delete events.              *)
IoPost(ev, q) ==
  /\ pc = "idle"
  /\ PostEvent(ev, q)
  /\ UNCHANGED <<pc, from, cur>>

IoDelete(ev) ==
  /\ pc = "idle" /\ posted[ev]
  /\ DeletePosted(ev)
  /\ UNCHANGED <<pc, from, cur>>

(* ngx_process_events_and_timers calls ngx_event_process_posted on a     *)
(* queue.                                                                  *)
StartProcess(q) ==
  /\ pc = "idle"
  /\ pc' = "process" /\ from' = q
  /\ UNCHANGED <<prev, next, posted, cur>>

(* The loop of ngx_event_process_posted ends when the queue is empty.      *)
ProcessReturn ==
  /\ pc = "process"
  /\ next[from] = from
  /\ pc' = "idle" /\ from' = NULL
  /\ UNCHANGED <<prev, next, posted, cur>>

(* Mutation: ev->posted is not cleared before the handler runs.            *)
ProcessStepKeepPosted ==
  /\ pc = "process"
  /\ next[from] # from
  /\ LET ev == next[from]
     IN  /\ SetLinks(Q!Unlink(Links, ev))
         /\ cur' = ev
  /\ pc' = "handler"
  /\ UNCHANGED <<posted, from>>

(* Mutation: the head is not taken off the queue.                          *)
ProcessStepNoRemove ==
  /\ pc = "process"
  /\ next[from] # from
  /\ LET ev == next[from]
     IN  /\ posted' = [posted EXCEPT ![ev] = FALSE]
         /\ cur' = ev
  /\ pc' = "handler"
  /\ UNCHANGED <<prev, next, from>>

(* One iteration: the head of the queue is deleted from it and its handler *)
(* called.                                                                 *)
ProcessStep ==
  /\ pc = "process"
  /\ next[from] # from
  /\ LET ev == next[from]
     IN  /\ DeletePosted(ev)
         /\ cur' = ev
  /\ pc' = "handler"
  /\ UNCHANGED from

(* ev->handler(ev) may post any event to a target queue, delete a posted  *)
(* one, or do neither.                                                     *)
Handler ==
  /\ pc = "handler"
  /\ \/ UNCHANGED <<prev, next, posted>>
     \/ \E ev \in Events, q \in Targets[from] : PostEvent(ev, q)
     \/ \E ev \in Events : posted[ev] /\ DeletePosted(ev)
  /\ pc' = "process" /\ cur' = NULL
  /\ UNCHANGED from

Next ==
  \/ \E ev \in Events, q \in PostedQueues : IoPost(ev, q)
  \/ \E ev \in Events : IoDelete(ev)
  \/ \E q \in PostedQueues : StartProcess(q)
  \/ ProcessReturn
  \/ ProcessStep
  \/ Handler

(* ngx_event_process_posted is a plain loop of the worker's one thread.    *)
Spec == Init /\ [][Next]_vars /\ WF_vars(ProcessReturn \/ ProcessStep \/ Handler)

-----------------------------------------------------------------------------

(* The types, and the links of every slot on a posted queue are set.       *)
TypeOK ==
  /\ Q!TypeOK
  /\ posted \in [Events -> BOOLEAN]
  /\ pc \in {"idle", "process", "handler"}
  /\ from \in PostedQueues \cup {NULL}
  /\ cur \in Events \cup {NULL}

(* ev->posted, which ngx_post_event trusts to skip an insert, says exactly *)
(* whether ev is on a posted queue, and the rings stay well formed.        *)
PostedMatchesQueue ==
  /\ \A ev \in Events : posted[ev] <=> ev \in Q!Queued
  /\ Q!Linked

(* ngx_event_process_posted returns, when no handler posts to the queue   *)
(* being drained.                                                          *)
ProcessReturns == pc = "process" ~> pc = "idle"

=============================================================================
