-------------------------- MODULE MCProviderCache --------------------------
(* Two files or a file and the environment, a session, and what is written to it. *)
EXTENDS ProviderCache

E(path, value) == [path |-> path, value |-> value]

MCIds == {"a", "b"}
MCModelNames == {"default", "fast"}

MCFound ==
  << {<< E(Model("default"), 1), E(Kind("a"), 1) >>, << E(Model("default"), 1) >>, << E(Kind("a"), 1) >>,
      << E(Kind("a"), Bad), E(Model("default"), 1), E(Model("fast"), 2) >>} >>

NoRows == [p \in Paths |-> Null]
MCStored == { NoRows, [NoRows EXCEPT ![Model("default")] = 1], [NoRows EXCEPT ![Kind("a")] = 2, ![Model("fast")] = Malformed] }

MCWrites == { << E(Model("default"), Null), E(Model("fast"), Null) >>, << E(Model("fast"), Null) >>,
              << E(Kind("a"), 2) >>, << E(Kind("a"), Null) >>, << E(Kind("a"), Bad), E(Kind("b"), 1), E(Model("default"), 2) >>,
              << E(Model("fast"), Bad), E(Kind("a"), 1), E(Model("default"), Bad) >> }

ConfigBudgets == { [writes |-> 2, calls |-> 2] }
=============================================================================
