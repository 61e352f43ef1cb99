----------------------------- MODULE Thumbnails -----------------------------
(***************************************************************************)
(* The thumbnail cache of src/catalogue/thumbs.py: one file per content    *)
(* key.  A cache is the sequence of its thumbnails, the oldest first, each *)
(* with the version of the image its pixels were decoded from.             *)
(*                                                                         *)
(* A thumbnail is written to a file of its own and renamed into place, so  *)
(* that a store is one step.  All thumbnails are of one size, the budget   *)
(* is in thumbnails, and reads, which renew the age of one at most once a  *)
(* day, do not reorder them.  The larger size and clear have no caller.    *)
(***************************************************************************)
EXTENDS Naturals, SequencesExt

CONSTANTS None,        \* no thumbnail
          ThumbBudget  \* thumbnails the cache may keep

ASSUME BudgetAssumption == ThumbBudget \in Nat

Held(cache, key) == \E i \in DOMAIN cache : cache[i].key = key

\* read: the pixels, or None.
Read(cache, key) ==
    IF Held(cache, key)
    THEN (CHOOSE t \in ToSet(cache) : t.key = key).pixels
    ELSE None

\* store: what is there already stays.
Store(cache, key, pixels) ==
    IF Held(cache, key) THEN cache
    ELSE Append(cache, [key |-> key, pixels |-> pixels])

\* evict: above the budget the oldest go, down to nine tenths of it.
Evict(cache) ==
    LET kept == (9 * ThumbBudget) \div 10 IN
    IF Len(cache) <= ThumbBudget THEN cache
    ELSE SubSeq(cache, Len(cache) - kept + 1, Len(cache))
=============================================================================
