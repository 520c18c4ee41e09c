------------------------- MODULE MCSessionServices -------------------------
(* SessionServices with a server of each transport and some entries to     *)
(* skip, and one more client of the tokens.                                *)
EXTENDS SessionServices

Entry(type, place, fields) ==
  [type |-> type, place |-> place, fields |-> fields, malformed |-> FALSE, named |-> TRUE]
Unsaid == "none"

MCEntries ==
  [shell |-> Entry(Unsaid, "remote", {"command", "args"}), host |-> Entry("stdio", Unsaid, {"command", "url"}),
   web |-> Entry(Unsaid, "remote", {"url"}), both |-> Entry(Unsaid, Unsaid, {"command", "url"}),
   sse |-> Entry("sse", Unsaid, {"url"}), far |-> Entry(Unsaid, "elsewhere", {"command"}),
   odd |-> [Entry(Unsaid, Unsaid, {"command"}) EXCEPT !.malformed = TRUE]]

MCPresets == [tools |-> {"shell", "host"}, broken |-> {"both"}]
S(presets, servers) == [presets |-> presets, servers |-> servers]
MCSelections == {S({}, {}), S({}, {"host"}), S({"tools"}, {}), S({"tools"}, {"host"}), S({}, {"web"}),
                 S({"broken"}, {}), S({"none"}, {"web"})}

No == [prompts |-> 0, batches |-> 0, interrupts |-> 0, faults |-> 0, drops |-> 0, judges |-> 0, expiries |-> 0,
       losses |-> 0, deaths |-> 0, selects |-> 0, calls |-> 0, changes |-> 0, endings |-> 0, ends |-> 0]

MCBudgets ==
  {\* the model alone
   [No EXCEPT !.prompts = 2, !.batches = 2, !.faults = 1, !.interrupts = 1],
   [No EXCEPT !.prompts = 2, !.batches = 1, !.faults = 2, !.drops = 1],
   [No EXCEPT !.prompts = 1, !.batches = 1, !.faults = 1, !.judges = 1, !.interrupts = 1, !.expiries = 1],
   [No EXCEPT !.prompts = 1, !.expiries = 2, !.losses = 1, !.deaths = 1, !.interrupts = 1],
   \* the servers alone
   [No EXCEPT !.selects = 2, !.changes = 2, !.endings = 1, !.interrupts = 1],
   [No EXCEPT !.selects = 3, !.changes = 1, !.endings = 1],
   [No EXCEPT !.selects = 3, !.faults = 1, !.deaths = 1, !.ends = 1],
   [No EXCEPT !.selects = 2, !.deaths = 2, !.interrupts = 1],
   \* both
   [No EXCEPT !.prompts = 1, !.batches = 1, !.selects = 1, !.calls = 1, !.interrupts = 1, !.changes = 1]}
=============================================================================
