------------------------------ MODULE NgxSpinlock ------------------------------
(***************************************************************************)
(* The spin-then-yield lock of ngx_spinlock.c on one shared atomic word,  *)
(* taken by worker processes.  Each process runs the loop of ngx_spinlock *)
(* one shared-memory access per step: the read of *lock and the           *)
(* compare-and-swap that follows it are separate steps, so another        *)
(* process can take the lock between them.  The pause loop touches no    *)
(* shared state and is one step per round of the n loop.                  *)
(*                                                                         *)
(* ngx_unlock, and the trylock and force_unlock of ngx_shmtx, are in      *)
(* headers and files not in the repository and are modelled from the     *)
(* spec's interface: unlock stores 0, trylock is the same read-then-CAS   *)
(* tried once, force_unlock(pid) is a CAS from pid to 0 done by the       *)
(* master for a worker that died.                                          *)
(***************************************************************************)
EXTENDS Integers, FiniteSets

CONSTANTS
  Procs,      \* worker processes
  Pid,        \* the value each writes into the lock, ngx_pid
  NCpu,       \* ngx_ncpu
  Spin,       \* the spin argument
  CanCrash    \* whether workers may die

ASSUME Pid \in [Procs -> Nat \ {0}]
ASSUME \A p, q \in Procs : p # q => Pid[p] # Pid[q]
ASSUME NCpu \in Nat \ {0} /\ Spin \in Nat /\ CanCrash \in BOOLEAN

VARIABLES
  lock,   \* *lock
  pc,     \* where each process is
  n       \* the local n of the spin loop

vars == <<lock, pc, n>>

(* The steps of ngx_spinlock, and of trylock.                              *)
Locking == {"top", "cas", "spin", "pause", "spin_test", "spin_cas", "yield"}
Trying == {"try", "try_cas"}

Init ==
  /\ lock = 0
  /\ pc = [p \in Procs |-> "idle"]
  /\ n = [p \in Procs |-> 1]

Goto(p, l) == pc' = [pc EXCEPT ![p] = l]

(* A failed first attempt: spin on a multiprocessor, else yield.           *)
AfterTop(p) ==
  IF NCpu > 1 THEN Goto(p, "spin") /\ n' = [n EXCEPT ![p] = 1]
              ELSE Goto(p, "yield") /\ UNCHANGED n

(* The caller enters ngx_spinlock.                                         *)
Lock(p) ==
  /\ pc[p] = "idle"
  /\ Goto(p, "top")
  /\ UNCHANGED <<lock, n>>

(* The test of the lock word, the first read of an iteration.             *)
Top(p) ==
  /\ pc[p] = "top"
  /\ IF lock = 0 THEN Goto(p, "cas") /\ UNCHANGED n ELSE AfterTop(p)
  /\ UNCHANGED lock

(* Mutation: a plain store in place of the compare-and-swap.               *)
CasStore(p) ==
  /\ pc[p] = "cas"
  /\ lock' = Pid[p]
  /\ Goto(p, "cs")
  /\ UNCHANGED n

(* ... && ngx_atomic_cmp_set(lock, 0, value)): returns holding the lock,   *)
(* or goes on as a failed test.                                            *)
Cas(p) ==
  /\ pc[p] = "cas"
  /\ IF lock = 0 THEN lock' = Pid[p] /\ Goto(p, "cs") /\ UNCHANGED n
                 ELSE AfterTop(p) /\ UNCHANGED lock

(* Mutation: the loop test is n <= spin.                                   *)
SpinTestLe(p) ==
  /\ pc[p] = "spin"
  /\ Goto(p, IF n[p] <= Spin THEN "pause" ELSE "yield")
  /\ UNCHANGED <<lock, n>>

(* for (n = 1; n < spin; n <<= 1): the loop test.                          *)
SpinTest(p) ==
  /\ pc[p] = "spin"
  /\ Goto(p, IF n[p] < Spin THEN "pause" ELSE "yield")
  /\ UNCHANGED <<lock, n>>

(* for (i = 0; i < n; i++) ngx_cpu_pause();                                *)
Pause(p) ==
  /\ pc[p] = "pause"
  /\ Goto(p, "spin_test")
  /\ UNCHANGED <<lock, n>>

(* The test inside the spin loop; on failure n <<= 1.                      *)
SpinRead(p) ==
  /\ pc[p] = "spin_test"
  /\ IF lock = 0 THEN Goto(p, "spin_cas") /\ UNCHANGED n
     ELSE Goto(p, "spin") /\ n' = [n EXCEPT ![p] = 2 * n[p]]
  /\ UNCHANGED lock

SpinCas(p) ==
  /\ pc[p] = "spin_cas"
  /\ IF lock = 0 THEN lock' = Pid[p] /\ Goto(p, "cs") /\ UNCHANGED n
     ELSE Goto(p, "spin") /\ n' = [n EXCEPT ![p] = 2 * n[p]] /\ UNCHANGED lock

(* ngx_sched_yield(), then the outer loop again.                           *)
Yield(p) ==
  /\ pc[p] = "yield"
  /\ Goto(p, "top")
  /\ UNCHANGED <<lock, n>>

(* Mutation: the unlock does not reach the lock word.                      *)
UnlockNoStore(p) ==
  /\ pc[p] = "cs"
  /\ Goto(p, "idle")
  /\ UNCHANGED <<lock, n>>

(* ngx_unlock: the holder stores 0 in lock.                                  *)
Unlock(p) ==
  /\ pc[p] = "cs"
  /\ lock' = 0
  /\ Goto(p, "idle")
  /\ UNCHANGED n

(* ngx_shmtx_trylock: one read and one compare-and-swap.                   *)
TryLock(p) ==
  /\ pc[p] = "idle"
  /\ Goto(p, "try")
  /\ UNCHANGED <<lock, n>>

TryRead(p) ==
  /\ pc[p] = "try"
  /\ Goto(p, IF lock = 0 THEN "try_cas" ELSE "idle")
  /\ UNCHANGED <<lock, n>>

TryCas(p) ==
  /\ pc[p] = "try_cas"
  /\ IF lock = 0 THEN lock' = Pid[p] /\ Goto(p, "cs")
                 ELSE UNCHANGED lock /\ Goto(p, "idle")
  /\ UNCHANGED n

(* A worker dies wherever it is, holding the lock or not.                  *)
Crash(p) ==
  /\ CanCrash
  /\ pc[p] \notin {"idle", "dead"}
  /\ Goto(p, "dead")
  /\ UNCHANGED <<lock, n>>

(* Mutation: force_unlock stores 0 without checking whose lock it is.      *)
ForceUnlockStore(p) ==
  /\ pc[p] = "dead"
  /\ lock' = 0
  /\ Goto(p, "idle")
  /\ UNCHANGED n

(* ngx_shmtx_force_unlock(mtx, pid) by the master for the dead worker,     *)
(* which is then respawned.                                                *)
ForceUnlock(p) ==
  /\ pc[p] = "dead"
  /\ lock' = IF lock = Pid[p] THEN 0 ELSE lock
  /\ Goto(p, "idle")
  /\ UNCHANGED n

(* The steps of p once it called lock, trylock or holds the lock.          *)
Step(p) ==
  \/ Top(p) \/ Cas(p) \/ SpinTest(p) \/ Pause(p) \/ SpinRead(p)
  \/ SpinCas(p) \/ Yield(p) \/ TryRead(p) \/ TryCas(p) \/ Unlock(p)

Next ==
  \E p \in Procs :
    \/ Lock(p) \/ TryLock(p) \/ Step(p) \/ Crash(p) \/ ForceUnlock(p)

(* Every process is scheduled again while it runs, a holder leaves its     *)
(* critical section, and the master reaps a dead worker.                   *)
Spec == Init /\ [][Next]_vars
        /\ \A p \in Procs : WF_vars(Step(p)) /\ WF_vars(ForceUnlock(p))

-----------------------------------------------------------------------------

TypeOK ==
  /\ lock \in {0} \cup {Pid[p] : p \in Procs}
  /\ pc \in [Procs -> Locking \cup Trying \cup {"idle", "cs", "dead"}]
  /\ n \in [Procs -> {2^k : k \in 0 .. Spin} \cap 1 .. 2 * Spin - 1]

(* At most one process returns from ngx_spinlock or trylock holding the   *)
(* lock, although the read and the compare-and-swap are separate steps.   *)
MutualExclusion == Cardinality({p \in Procs : pc[p] = "cs"}) <= 1

(* The lock word names its holder: a process in its critical section has  *)
(* its pid in the lock, and a non-zero lock belongs to a holder or to a   *)
(* dead worker not yet reaped, so force_unlock never frees a live lock.   *)
LockOwned ==
  /\ \A p \in Procs : pc[p] = "cs" => lock = Pid[p]
  /\ lock # 0 => \E p \in Procs : lock = Pid[p] /\ pc[p] \in {"cs", "dead"}

(* A worker inside ngx_spinlock either dies or sees some worker hold the   *)
(* lock: neither a live holder nor a dead one, once force-unlocked, keeps  *)
(* every waiter spinning.                                                  *)
Progress ==
  \A p \in Procs :
    pc[p] \in Locking ~> pc[p] = "dead" \/ \E q \in Procs : pc[q] = "cs"

=============================================================================
