--------------------------- MODULE CourseCatalogMC ---------------------------
(* CourseCatalog for TLC: a course with two entries, of which one may be   *)
(* moved below the other, and two lessons to add.                          *)
EXTENDS CourseCatalog, TLC

CONSTANTS l1, l2

MCPicks == {<<l1>>, <<l2, l1>>}

MCPage(items) == [k \in DOMAIN items |-> [item |-> items[k], under |-> Root, sort |-> k]]
MCBelow(layout, e, p) ==
  [k \in DOMAIN layout |-> IF layout[k].item = e THEN [layout[k] EXCEPT !.under = p]
                                                ELSE layout[k]]

(* The last one names an entry twice.                                      *)
MCLayouts ==
  {MCPage(<<2, 1>>), MCBelow(MCPage(<<1, 2>>), 2, 1), MCBelow(MCPage(<<2, 1>>), 1, 2),
   MCPage(<<1, 12, 11>>), MCPage(<<2, 1, 2>>)}

RequestSymmetry == Permutations(Requests)
=============================================================================
