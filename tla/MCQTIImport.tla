---------------------------- MODULE MCQTIImport ----------------------------
(***************************************************************************)
(* Small packages for QTIImport: two that hold the same items in opposite  *)
(* orders, one that names an item twice, one whose media is refused after  *)
(* other media was stored, one with a refused entry, one without items and *)
(* one over the limits.                                                    *)
(***************************************************************************)
EXTENDS QTIImport

CONSTANTS m1, m2

E(kind, id) == [kind |-> kind, id |-> id]
Fits(entries) == [fits |-> TRUE, entries |-> entries]

Packages ==
    {Fits(<<E("media", Nil), E("item", m1), E("item", m2)>>),
     Fits(<<E("item", m2), E("item", m1), E("media", Nil)>>),
     Fits(<<E("item", Nil), E("item", m2), E("item", m2)>>),
     Fits(<<E("media", Nil), E("mismatch", Nil)>>),
     Fits(<<E("media", Nil), E("other", Nil), E("refused", Nil)>>),
     Fits(<<E("media", Nil), E("other", Nil)>>),
     [fits |-> FALSE, entries |-> << >>]}
============================================================================
