------------------------------- MODULE NgxModule -------------------------------
(***************************************************************************)
(* Module registration, ngx_module.c, across configuration reloads.       *)
(*                                                                         *)
(* The static modules of ngx_modules[] get their index from               *)
(* ngx_preinit_modules.  Each ngx_init_cycle starts the new cycle's       *)
(* module table as a copy of them (ngx_cycle_modules); load_module        *)
(* directives add dynamic modules with ngx_add_module; the first block of *)
(* a module type (http{}, events{}) calls ngx_count_modules, which gives  *)
(* every module of that type a ctx_index and returns the size of the      *)
(* per-type configuration arrays.  The cycle then replaces the old one,   *)
(* or is thrown away when the configuration fails.                        *)
(*                                                                         *)
(* index and ctx_index are fields of the module structure, which outlives *)
(* cycles: a static module keeps them for the life of the process, a      *)
(* dynamic one while its library stays loaded, that is while the old or  *)
(* the new cycle holds it; a library loaded afresh starts with both       *)
(* NGX_MODULE_UNSET_INDEX.  The old cycle is freed as soon as the new one  *)
(* is in place, as the master process does.  Both indices are ngx_uint_t  *)
(* of UintBits bits, so that NGX_MODULE_UNSET_INDEX is the largest value.  *)
(***************************************************************************)
EXTENDS Integers, Sequences, FiniteSets, SequencesExt

CONSTANTS
  Static,         \* ngx_modules[], in order
  Dynamic,        \* modules a load_module directive may name
  Type,           \* module->type
  Order,          \* the ngx_module_order of each dynamic module, or <<>>
  MaxDynamic,     \* NGX_MAX_DYNAMIC_MODULES
  UintBits,       \* width of ngx_uint_t
  BlockTypes,     \* types that have a block calling ngx_count_modules
  OptionalBlocks, \* those a configuration may leave out
  NONE

Modules == ToSet(Static) \cup Dynamic
UNSET == 2^UintBits - 1

ASSUME Static \in Seq(STRING) /\ Dynamic \subseteq STRING
ASSUME Type \in [Modules -> STRING] /\ Order \in [Dynamic -> Seq(Modules)]
ASSUME OptionalBlocks \subseteq BlockTypes
ASSUME Len(Static) + MaxDynamic < UNSET

VARIABLES
  index,         \* module->index
  ctx_index,     \* module->ctx_index
  old_modules,   \* ngx_cycle->modules: the running cycle, the old_cycle
  modules,       \* cycle->modules of the cycle being configured
  modules_used,  \* cycle->modules_used
  type_max,      \* what ngx_count_modules returned for each type
  phase,         \* "idle", or "conf" while ngx_init_cycle parses
  added_to       \* the modules already in the table when a module was added

vars == <<index, ctx_index, old_modules, modules, modules_used, type_max,
          phase, added_to>>

(* ngx_max_module, set by ngx_preinit_modules.                             *)
ngx_max_module == Len(Static) + MaxDynamic

Live == ToSet(old_modules) \cup ToSet(modules)

(* Mutation: ngx_module_index does not check the previous cycle.          *)
ModuleIndexNoOld ==
  LET used == {index[m] : m \in ToSet(modules)}
  IN  Min({i \in 0 .. Cardinality(used) : i \notin used})

(* ngx_module_index: the smallest index no module of the new or the old   *)
(* cycle has; each goto again restarts the scan with the next candidate.   *)
ModuleIndex ==
  LET used == {index[m] : m \in Live}
  IN  Min({i \in 0 .. Cardinality(used) : i \notin used})

(* Mutation: ngx_module_ctx_index does not check the previous cycle.      *)
ModuleCtxIndexNoOld(cx, t, start) ==
  LET used == {cx[m] : m \in {n \in ToSet(modules) : Type[n] = t}}
  IN  Min({i \in start .. start + Cardinality(used) : i \notin used})

(* ngx_module_ctx_index: the smallest ctx_index from start on that no     *)
(* module of type t in the new or the old cycle has, under the ctx_index   *)
(* values cx the loop of ngx_count_modules has set so far.                 *)
ModuleCtxIndex(cx, t, start) ==
  LET used == {cx[m] : m \in {n \in Live : Type[n] = t}}
  IN  Min({i \in start .. start + Cardinality(used) : i \notin used})

Larger(a, b) == IF a > b THEN a ELSE b

(* The first loop of ngx_count_modules over the new cycle's modules from  *)
(* position i: returns the ctx_index values and max.                      *)
RECURSIVE CountLoop(_, _, _, _, _)
CountLoop(t, i, next, mx, cx) ==
  IF i > Len(modules) THEN <<cx, mx>>
  ELSE LET m == modules[i]
       IN  IF Type[m] # t THEN CountLoop(t, i + 1, next, mx, cx)
           ELSE IF cx[m] # UNSET
                THEN CountLoop(t, i + 1, IF cx[m] = next THEN next + 1 ELSE next,
                               Larger(mx, cx[m]), cx)
                ELSE LET c == ModuleCtxIndex(cx, t, next)
                     IN  CountLoop(t, i + 1, c + 1, Larger(mx, c),
                                   [cx EXCEPT ![m] = c])

(* Mutation: the module goes after the module its order names.            *)
BeforeAfterNamed(m) ==
  LET o == Order[m]
      later == {o[j] : j \in {k \in 1 .. Len(o) : \E i \in 1 .. k - 1 : o[i] = m}}
  IN  Min({Len(modules)} \cup {j : j \in {i \in 1 .. Len(modules) : modules[i] \in later}})

(* Where ngx_add_module puts m, as a 0-based position: before the first   *)
(* module of the table that its order names after m itself, else at the    *)
(* end; later entries move up one place.                                   *)
Before(m) ==
  LET o == Order[m]
      later == {o[j] : j \in {k \in 1 .. Len(o) : \E i \in 1 .. k - 1 : o[i] = m}}
  IN  Min({Len(modules)} \cup {i - 1 : i \in {i \in 1 .. Len(modules) : modules[i] \in later}})

(* A library no surviving cycle holds is unloaded: loaded again, its      *)
(* module structure starts afresh.                                         *)
Unload(keep) ==
  /\ index' = [m \in Modules |-> IF m \in Dynamic \ keep THEN UNSET ELSE index[m]]
  /\ ctx_index' = [m \in Modules |-> IF m \in Dynamic \ keep THEN UNSET ELSE ctx_index[m]]

(* ngx_preinit_modules has numbered the static modules; no cycle has a    *)
(* module table yet.                                                        *)
Init ==
  /\ index = [m \in Modules |-> IF m \in Dynamic THEN UNSET
                                ELSE CHOOSE i \in 0 .. Len(Static) - 1 : Static[i + 1] = m]
  /\ ctx_index = [m \in Modules |-> UNSET]
  /\ old_modules = <<>>
  /\ modules = <<>>
  /\ modules_used = FALSE
  /\ type_max = [t \in BlockTypes |-> NONE]
  /\ phase = "idle"
  /\ added_to = [m \in Dynamic |-> {}]

(* ngx_init_cycle begins: ngx_cycle_modules copies ngx_modules[].          *)
CycleModules ==
  /\ phase = "idle"
  /\ phase' = "conf"
  /\ modules' = Static
  /\ modules_used' = FALSE
  /\ type_max' = [t \in BlockTypes |-> NONE]
  /\ UNCHANGED <<index, ctx_index, old_modules, added_to>>

(* The configuration fails: the new cycle's pool is destroyed and the     *)
(* libraries only it loaded are unloaded; the running cycle stays.         *)
Fail ==
  /\ phase = "conf"
  /\ phase' = "idle"
  /\ modules' = <<>>
  /\ Unload(ToSet(old_modules))
  /\ UNCHANGED <<old_modules, modules_used, type_max, added_to>>

(* load_module m: the library is opened, and ngx_add_module adds its      *)
(* module.  Its error returns fail the configuration; a core module's     *)
(* create_conf may fail after the module is in the table.                  *)
AddModule(m) ==
  LET idx == IF index[m] = UNSET THEN ModuleIndex ELSE index[m]
      ok  == /\ Len(modules) < ngx_max_module
             /\ m \notin ToSet(modules)
             /\ idx < ngx_max_module
  IN  /\ phase = "conf" /\ ~modules_used
      /\ \/ /\ ok
            /\ index' = [index EXCEPT ![m] = idx]
            /\ modules' = InsertAt(modules, Before(m) + 1, m)
            /\ added_to' = [added_to EXCEPT ![m] = ToSet(modules)]
            /\ UNCHANGED <<ctx_index, phase>>
         \/ /\ ~ok \/ Type[m] = "core"
            /\ phase' = "idle" /\ modules' = <<>>
            /\ Unload(ToSet(old_modules))
            /\ UNCHANGED added_to
      /\ UNCHANGED <<old_modules, modules_used, type_max>>

(* Mutation: the result does not look at the previous cycle.              *)
CountModulesNoOld(t) ==
  LET r == CountLoop(t, 1, 0, 0, ctx_index)
  IN  /\ phase = "conf" /\ type_max[t] = NONE
      /\ ctx_index' = r[1]
      /\ type_max' = [type_max EXCEPT ![t] = (r[2] + 1) % (UNSET + 1)]
      /\ modules_used' = TRUE
      /\ UNCHANGED <<index, old_modules, modules, phase, added_to>>

(* The block of type t calls ngx_count_modules.                            *)
CountModules(t) ==
  LET r   == CountLoop(t, 1, 0, 0, ctx_index)
      old == {r[1][m] : m \in {n \in ToSet(old_modules) : Type[n] = t}}
  IN  /\ phase = "conf" /\ type_max[t] = NONE
      /\ ctx_index' = r[1]
      /\ type_max' = [type_max EXCEPT ![t] = (Max(old \cup {r[2]}) + 1) % (UNSET + 1)]
      /\ modules_used' = TRUE
      /\ UNCHANGED <<index, old_modules, modules, phase, added_to>>

(* The configuration succeeds and the new cycle replaces the old one,     *)
(* whose pool is destroyed at once.                                        *)
Commit ==
  /\ phase = "conf"
  /\ \A t \in BlockTypes \ OptionalBlocks : type_max[t] # NONE
  /\ phase' = "idle"
  /\ old_modules' = modules
  /\ modules' = <<>>
  /\ Unload(ToSet(modules))
  /\ UNCHANGED <<modules_used, type_max, added_to>>

Next ==
  \/ CycleModules
  \/ Fail
  \/ \E m \in Dynamic : AddModule(m)
  \/ \E t \in BlockTypes : CountModules(t)
  \/ Commit

Spec == Init /\ [][Next]_vars

-----------------------------------------------------------------------------

(* No two modules of the running and the new cycle share an index, and   *)
(* every index fits the ngx_max_module slots of cycle->conf_ctx, although *)
(* a library that stays loaded keeps the index it got in an earlier cycle *)
(* and ngx_add_module numbers the others one at a time.                   *)
IndexUnique ==
  /\ \A m \in Live : index[m] < ngx_max_module
  /\ \A m, n \in Live : m # n => index[m] # index[n]

(* No two modules of one type in the running and the new cycle share a    *)
(* ctx_index, across ngx_count_modules runs of earlier cycles, failed     *)
(* ones included, whose values the module structures keep.                *)
CtxIndexUnique ==
  \A m, n \in Live :
    /\ m # n /\ Type[m] = Type[n] /\ ctx_index[m] # UNSET
    => ctx_index[m] # ctx_index[n]

(* What ngx_count_modules returns sizes the per-type configuration        *)
(* arrays: it exceeds the ctx_index of every module of the type in the     *)
(* new cycle, and, as its comment requires, of the old cycle too.          *)
CountCoversCtx ==
  \A t \in BlockTypes :
    type_max[t] # NONE =>
      \A m \in Live : Type[m] = t /\ ctx_index[m] # UNSET => ctx_index[m] < type_max[t]

(* A dynamic module comes before every module that its ngx_module_order   *)
(* names after it and that was in the table when it was added, whatever   *)
(* modules are inserted later.                                             *)
OrderRespected ==
  \A m \in ToSet(modules) \cap Dynamic :
    \A k \in 1 .. Len(Order[m]) :
      /\ \E i \in 1 .. k - 1 : Order[m][i] = m
      /\ Order[m][k] \in added_to[m]
      => SelectInSeq(modules, LAMBDA x : x = m)
           < SelectInSeq(modules, LAMBDA x : x = Order[m][k])

==============================================================================
