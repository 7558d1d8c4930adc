----------------------------- MODULE MCWebStore -----------------------------
EXTENDS WebStore

StoreBudget(saves, loads, restores, resets, failures, closes, refusals) ==
    [saves |-> saves, loads |-> loads, restores |-> restores, resets |-> resets,
     failures |-> failures, closes |-> closes, refusals |-> refusals]

MCOld == Document([f \in Fields |-> 9])

StoreStart(dbText, localText, isMarked, legacyText, budget) ==
    [database |-> dbText, local |-> localText, isLocated |-> isMarked, legacy |-> legacyText,
     budget |-> budget]

(* A document in the database; a damaged one; one in local storage; the    *)
(* keys of the first version.                                              *)
MCStoreStarts ==
    { StoreStart(MCOld, Null, TRUE, Null, StoreBudget(2, 2, 0, 0, 1, 1, 1)),
      StoreStart(MCOld, Null, TRUE, Null, StoreBudget(1, 2, 1, 1, 0, 1, 0)),
      StoreStart(Damaged, Null, TRUE, Null, StoreBudget(1, 2, 1, 0, 1, 1, 0)),
      StoreStart(Null, MCOld, FALSE, Null, StoreBudget(1, 2, 0, 0, 1, 1, 2)),
      StoreStart(Null, Null, FALSE, MCOld, StoreBudget(1, 2, 0, 1, 1, 1, 1)) }
=============================================================================
