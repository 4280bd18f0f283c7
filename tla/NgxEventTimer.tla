---------------------------- MODULE NgxEventTimer ----------------------------
(***************************************************************************)
(* The event timer of ngx_event_timer.c: timers of events kept in the     *)
(* timer red-black tree, keyed by their deadline in milliseconds, and the *)
(* three functions that read it from the event loop.                       *)
(*                                                                         *)
(* The tree is represented by what it promises, the ordered index of      *)
(* NgxRbtreeOrder under the wrap-tolerant comparator of                    *)
(* ngx_rbtree_insert_timer_value; NgxRbtree is checked to refine that      *)
(* index (run rbtree_timer_wrap), so ngx_rbtree_min is the head of the     *)
(* index and ngx_rbtree_next its successor.                                *)
(*                                                                         *)
(* The loop of ngx_process_events_and_timers is the pc cycle               *)
(*   idle -FindTimer-> wait -Wait-> expire -(ExpireFire Handler)*->        *)
(*   expire -ExpireReturn-> idle                                           *)
(* Between iterations other handlers add and delete timers (IoAddTimer,   *)
(* IoDelTimer), and ngx_event_no_timers_left may be asked.                 *)
(***************************************************************************)
EXTENDS Integers, Sequences, FiniteSets

CONSTANTS
  Events,       \* the events that own a timer node
  Cancelable,   \* the events with ev->cancelable set
  MsecBits,     \* width of ngx_msec_t (32 in the code)
  Delays,       \* timer values callers pass to ngx_add_timer
  Ticks,        \* how far ngx_current_msec moves during one wait
  LazyDelay,    \* NGX_TIMER_LAZY_DELAY
  NoEvent       \* no handler is being called

ASSUME Cancelable \subseteq Events /\ NoEvent \notin Events
ASSUME Delays \subseteq 1 .. 2^(MsecBits - 1) - 1
ASSUME Ticks \subseteq Nat /\ LazyDelay \in Nat

VARIABLES
  index,      \* the timer tree, as its ordered sequence of <<ev, key>>
  timer_set,  \* ev->timer_set
  timedout,   \* ev->timedout
  now,        \* ngx_current_msec
  pc,         \* where the event loop is
  cur,        \* the event whose handler the expire loop is calling
  timer,      \* what the last ngx_event_find_timer returned
  left        \* what the last ngx_event_no_timers_left returned

vars == <<index, timer_set, timedout, now, pc, cur, timer, left>>

Msec == 0 .. 2^MsecBits - 1

(* NGX_TIMER_INFINITE, (ngx_msec_t) -1.                                     *)
INFINITE == 2^MsecBits - 1

(* (ngx_msec_int_t) x: the unsigned difference read as a signed value.    *)
MsecInt(x) ==
  LET v == x % 2^MsecBits
  IN  IF v >= 2^(MsecBits - 1) THEN v - 2^MsecBits ELSE v

(* Mutation: the plain unsigned order of ngx_rbtree_insert_value.         *)
TimerLessUnsigned(a, b) == a < b

(* The comparator ngx_rbtree_insert_timer_value orders keys by.            *)
TimerLess(a, b) == MsecInt(a - b) < 0

Tree == INSTANCE NgxRbtreeOrder WITH Nodes <- Events, Keys <- Msec,
                                     Less <- TimerLess

InTree(e) == \E i \in 1 .. Len(index) : index[i][1] = e
KeyOf(e) == index[CHOOSE i \in 1 .. Len(index) : index[i][1] = e][2]

(* ngx_add_timer: a timer already set within the lazy delay of the new    *)
(* deadline is kept; otherwise ngx_del_timer, then insert at the new key. *)
AddTimer(e, d) ==
  LET key == (now + d) % 2^MsecBits
  IN  IF timer_set[e] /\ MsecInt(key - KeyOf(e)) \in
                           (-LazyDelay + 1) .. (LazyDelay - 1)
      THEN UNCHANGED <<index, timer_set>>
      ELSE /\ index' = Tree!Added(Tree!Removed(index, e), e, key)
           /\ timer_set' = [timer_set EXCEPT ![e] = TRUE]

(* ngx_del_timer, which callers reach only with ev->timer_set.             *)
DelTimer(e) ==
  /\ timer_set[e]
  /\ index' = Tree!Removed(index, e)
  /\ timer_set' = [timer_set EXCEPT ![e] = FALSE]

(* ngx_event_timer_init: the tree starts empty.                            *)
Init ==
  /\ index = <<>>
  /\ timer_set = [e \in Events |-> FALSE]
  /\ timedout = [e \in Events |-> FALSE]
  /\ now \in Msec
  /\ pc = "idle"
  /\ cur = NoEvent
  /\ timer = INFINITE
  /\ left = "none"

(* Handlers run between loop iterations add or delete timers.              *)
IoAddTimer(e, d) ==
  /\ pc = "idle"
  /\ AddTimer(e, d)
  /\ UNCHANGED <<timedout, now, pc, cur, timer, left>>

IoDelTimer(e) ==
  /\ pc = "idle"
  /\ DelTimer(e)
  /\ UNCHANGED <<timedout, now, pc, cur, timer, left>>

(* ngx_event_find_timer: the delay to the minimum key, 0 if it is due.     *)
FindTimer ==
  /\ pc = "idle"
  /\ timer' = IF index = <<>> THEN INFINITE
            ELSE LET t == MsecInt(Head(index)[2] - now)
                 IN  IF t > 0 THEN t ELSE 0
  /\ pc' = "wait"
  /\ UNCHANGED <<index, timer_set, timedout, now, cur, left>>

(* Mutation: the clock is not taken modulo its width.                     *)
WaitNoWrap(d) ==
  /\ pc = "wait"
  /\ now' = now + d
  /\ pc' = "expire"
  /\ UNCHANGED <<index, timer_set, timedout, cur, timer, left>>

(* ngx_process_events: the wait returns and ngx_time_update advances      *)
(* ngx_current_msec, modulo its width.                                     *)
Wait(d) ==
  /\ pc = "wait"
  /\ now' = (now + d) % 2^MsecBits
  /\ pc' = "expire"
  /\ UNCHANGED <<index, timer_set, timedout, cur, timer, left>>

(* ngx_event_expire_timers, the loop exit: the tree is empty or its        *)
(* minimum is not due.                                                     *)
ExpireReturn ==
  /\ pc = "expire"
  /\ IF index = <<>> THEN TRUE ELSE MsecInt(Head(index)[2] - now) > 0
  /\ pc' = "idle"
  /\ UNCHANGED <<index, timer_set, timedout, now, cur, timer, left>>

(* Mutation: the minimum is not deleted from the tree.                     *)
ExpireFireNoDelete ==
  /\ pc = "expire"
  /\ index # <<>>
  /\ MsecInt(Head(index)[2] - now) <= 0
  /\ LET ev == Head(index)[1]
     IN  /\ timer_set' = [timer_set EXCEPT ![ev] = FALSE]
         /\ timedout' = [timedout EXCEPT ![ev] = TRUE]
         /\ cur' = ev
  /\ pc' = "handler"
  /\ UNCHANGED <<index, now, timer, left>>

(* Mutation: ev->timer_set is left set.                                    *)
ExpireFireKeepSet ==
  /\ pc = "expire"
  /\ index # <<>>
  /\ MsecInt(Head(index)[2] - now) <= 0
  /\ LET ev == Head(index)[1]
     IN  /\ index' = Tree!Removed(index, ev)
         /\ timedout' = [timedout EXCEPT ![ev] = TRUE]
         /\ cur' = ev
  /\ pc' = "handler"
  /\ UNCHANGED <<timer_set, now, timer, left>>

(* ngx_event_expire_timers, one iteration that fires: the due minimum is   *)
(* deleted, timer_set cleared, timedout set, and its handler called.       *)
ExpireFire ==
  /\ pc = "expire"
  /\ index # <<>>
  /\ MsecInt(Head(index)[2] - now) <= 0
  /\ LET ev == Head(index)[1]
     IN  /\ index' = Tree!Removed(index, ev)
         /\ timer_set' = [timer_set EXCEPT ![ev] = FALSE]
         /\ timedout' = [timedout EXCEPT ![ev] = TRUE]
         /\ cur' = ev
  /\ pc' = "handler"
  /\ UNCHANGED <<now, timer, left>>

(* ev->handler(ev): it may re-arm or delete any timer, or do neither, and  *)
(* returns to the loop; ngx_current_msec does not move inside the loop.   *)
Handler ==
  /\ pc = "handler"
  /\ \/ UNCHANGED <<index, timer_set>>
     \/ \E e \in Events, d \in Delays : AddTimer(e, d)
     \/ \E e \in Events : DelTimer(e)
  /\ pc' = "expire"
  /\ cur' = NoEvent
  /\ UNCHANGED <<timedout, now, timer, left>>

(* The loop of ngx_event_no_timers_left from the i-th node on, i.e. from  *)
(* ngx_rbtree_min by ngx_rbtree_next: NGX_AGAIN at the first event that is *)
(* not cancelable, NGX_OK when ngx_rbtree_next returns NULL.               *)
RECURSIVE WalkLeft(_)
WalkLeft(i) ==
  IF i > Len(index) THEN "OK"
  ELSE IF index[i][1] \notin Cancelable THEN "AGAIN"
  ELSE WalkLeft(i + 1)

(* ngx_event_no_timers_left: NGX_OK at once when root is the sentinel,     *)
(* else the walk from the minimum.                                         *)
NoTimersLeft ==
  /\ pc = "idle"
  /\ left' = IF index = <<>> THEN "OK" ELSE WalkLeft(1)
  /\ UNCHANGED <<index, timer_set, timedout, now, pc, cur, timer>>

Next ==
  \/ \E e \in Events, d \in Delays : IoAddTimer(e, d)
  \/ \E e \in Events : IoDelTimer(e)
  \/ FindTimer
  \/ \E d \in Ticks : Wait(d)
  \/ ExpireReturn
  \/ ExpireFire
  \/ Handler
  \/ NoTimersLeft

(* The expire loop is a plain loop of one thread: once entered, its steps  *)
(* keep being taken.                                                       *)
Spec == Init /\ [][Next]_vars /\ WF_vars(ExpireReturn \/ ExpireFire \/ Handler)

-----------------------------------------------------------------------------

TypeOK ==
  /\ index \in Seq(Events \X Msec)
  /\ timer_set \in [Events -> BOOLEAN]
  /\ timedout \in [Events -> BOOLEAN]
  /\ now \in Msec
  /\ pc \in {"idle", "wait", "expire", "handler"}
  /\ cur \in Events \cup {NoEvent}
  /\ timer \in Msec
  /\ left \in {"none", "OK", "AGAIN"}

(* ev->timer_set, which ngx_add_timer and ngx_del_timer trust, says        *)
(* exactly whether the event's node is in the timer tree, once.            *)
TimerSetMatchesTree ==
  /\ \A e \in Events : timer_set[e] <=> InTree(e)
  /\ Len(index) = Cardinality({index[i][1] : i \in 1 .. Len(index)})

(* When ngx_event_expire_timers returns, no timer in the tree is due: the  *)
(* loop stopped at the minimum, and the minimum under the wrap-tolerant    *)
(* comparator is the earliest deadline even across the wrap of             *)
(* ngx_current_msec.                                                       *)
NoDueTimerLeft ==
  pc = "idle" => \A i \in 1 .. Len(index) : MsecInt(index[i][2] - now) > 0

(* The earliest deadline, measured from now, over every timer in the tree. *)
Earliest ==
  LET ds == {IF MsecInt(index[i][2] - now) > 0
             THEN MsecInt(index[i][2] - now) ELSE 0 : i \in 1 .. Len(index)}
  IN  IF ds = {} THEN INFINITE ELSE CHOOSE x \in ds : \A y \in ds : x <= y

(* ngx_event_find_timer, which reads only the minimum node, returns the   *)
(* delay to the earliest of all timers, so the wait never oversleeps one. *)
FindTimerEarliest == [][pc = "idle" /\ pc' = "wait" => timer' = Earliest]_vars

(* ngx_event_expire_timers returns: handlers re-arming timers inside the  *)
(* loop never keep it running.                                             *)
ExpireReturns == pc = "expire" ~> pc = "idle"

=============================================================================
