----------------------------- MODULE MCDesktop -----------------------------
(* Desktop with two schemas, whose versions grow, fork, change and rename.  *)
EXTENDS Desktop

M(name, sql) == [name |-> name, sql |-> sql]
Lists == {<<M("1", "a")>>, <<M("1", "a"), M("2", "b")>>, <<M("1", "a"), M("2", "c")>>,
          <<M("1", "x"), M("2", "b")>>, <<M("0", "a")>>}

MCSchemas == <<"entities", "history">>
MCPrograms == {[entities |-> list, history |-> <<M("1", "a")>>] : list \in Lists}
                \union {[entities |-> <<M("1", "a")>>, history |-> <<M("1", "a"), M("2", "d")>>]}

MCInstalled == [entities |-> <<M("1", "a"), M("2", "b")>>, history |-> <<M("1", "a")>>]

None == [versions |-> 0, faults |-> 0, ends |-> 0, snapshots |-> 0, items |-> 0, sections |-> 0, mounts |-> 0,
         asks |-> 0, answers |-> 0]

DesktopBudgets ==
  {[None EXCEPT !.versions = 2, !.faults = 1, !.ends = 3],
   [None EXCEPT !.items = 2, !.mounts = 2, !.faults = 1],
   [None EXCEPT !.items = 3, !.mounts = 1, !.snapshots = 1],
   [None EXCEPT !.items = 2, !.mounts = 1, !.faults = 1, !.ends = 1],
   [None EXCEPT !.sections = 3, !.ends = 1],
   [None EXCEPT !.asks = 3, !.answers = 2],
   [None EXCEPT !.asks = 2, !.answers = 3, !.ends = 1]}
=============================================================================
