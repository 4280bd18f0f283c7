-------------------------- MODULE NgxRadixPrefixes --------------------------
(***************************************************************************)
(* What the radix tree promises its callers: a table from prefixes to     *)
(* values, where insert never overwrites, delete of an absent prefix is   *)
(* "not found", an insert may fail for lack of memory and then changes     *)
(* nothing, and find answers with the value of the longest stored prefix  *)
(* of the key.  ret is the result of the last call.                        *)
(***************************************************************************)
EXTENDS Integers, FiniteSets

CONSTANTS KeyWidth, Values, NoValue, Keys, InsertMasks, DeleteMasks

VARIABLES table, ret

Prefixes == UNION {{<<l, b>> : b \in 0 .. 2^l - 1} : l \in 0 .. KeyWidth}

(* A mask selects the key bits down to its first clear bit.                *)
MaskLength(mask) ==
  LET ones == {l \in 0 .. KeyWidth :
                 \A j \in 1 .. l : (mask \div 2^(KeyWidth - j)) % 2 = 1}
  IN  CHOOSE l \in ones : \A o \in ones : o <= l

PrefixOf(key, l) == <<l, key \div 2^(KeyWidth - l)>>

(* The value of the longest stored prefix of key, NoValue if none.         *)
Lookup(tab, key) ==
  LET set == {l \in 0 .. KeyWidth : tab[PrefixOf(key, l)] # NoValue}
  IN  IF set = {} THEN NoValue
      ELSE tab[PrefixOf(key, CHOOSE l \in set : \A o \in set : o <= l)]

Init == table = [p \in Prefixes |-> NoValue] /\ ret = "none"

(* The actions take the table before and after the step as tab and tab2, *)
(* so that each is evaluated once a step.                                  *)
Insert(tab, tab2, key, mask, value) ==
  LET p == PrefixOf(key, MaskLength(mask))
  IN  IF tab[p] # NoValue THEN ret' = "BUSY" /\ tab2 = tab
      ELSE \/ tab2 = [tab EXCEPT ![p] = value] /\ ret' = "OK"
           \/ ret' = "ERROR" /\ tab2 = tab

Delete(tab, tab2, key, mask) ==
  LET p == PrefixOf(key, MaskLength(mask))
  IN  IF tab[p] # NoValue
        THEN tab2 = [tab EXCEPT ![p] = NoValue] /\ ret' = "OK"
      ELSE ret' = "ERROR" /\ tab2 = tab

Find(tab, tab2, key) == ret' = Lookup(tab, key) /\ tab2 = tab

Next ==
  LET tab  == table
      tab2 == table'
  IN  \/ \E k \in Keys, m \in InsertMasks, v \in Values :
           Insert(tab, tab2, k, m, v)
      \/ \E k \in Keys, m \in DeleteMasks : Delete(tab, tab2, k, m)
      \/ \E k \in Keys : Find(tab, tab2, k)

Spec == Init /\ [][Next]_<<table, ret>>
=============================================================================
