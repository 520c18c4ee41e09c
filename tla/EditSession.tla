---------------------------- MODULE EditSession ----------------------------
(***************************************************************************)
(* The file tools of a model context: frances-harness's file_read,         *)
(* file_find_or_grep and edits over frances-edit's EditSession and engine, *)
(* and the rows of frances-session's anchor store.  One context is live at *)
(* a time and runs one call at a time; between the steps of a call anyone  *)
(* else may write the files (the user, a formatter, a command still        *)
(* running in the agent's own shell), and the store may fail.              *)
(***************************************************************************)
EXTENDS Anchors, Bounds

CONSTANTS Paths,        \* canonical paths
          Editable,     \* those under an editable root
          Ranges,       \* what a read may ask for; "none" is no ranges
          Payloads,     \* the texts a call brings, as lines
          Files         \* what someone else may write to a file

ASSUME EditAssumption == /\ Editable \subseteq Paths /\ "none" \in Ranges
                         /\ Payloads \subseteq Seq(Texts) /\ Files \subseteq Seq(Texts)

VARIABLES disk,         \* the file of each path, its lines and stamp, or Missing
          clock,        \* the stamp of the last write of anyone
          store,        \* file_meta and file_lines of each path, or Unknown
          tombs,        \* file_tombstones
          open,         \* EditSession::open_files
          loops,        \* EditSession::loop_set: requests, each with the lines that were read
          call,         \* the tool call that runs
          gone,         \* anchors taken from lines since the last commit of the edits
          torn          \* paths whose tombstones failed to be written
vars == << disk, clock, store, tombs, open, loops, call, gone, torn, left >>

Missing == [lines |-> << >>, stamp |-> 0]
Unknown == [entries |-> << >>, stamp |-> 0]
Unread  == [read |-> FALSE, entries |-> << >>, lines |-> << >>]
Working(entries, lines) == [read |-> TRUE, entries |-> entries, lines |-> lines]
Idle     == [pc |-> "idle"]
Panicked == [pc |-> "panicked"]   \* an index out of bounds: the task of the session is gone

EditInit ==
  /\ disk \in [Paths -> {Missing} \cup {[lines |-> f, stamp |-> 1] : f \in Files}]
  /\ clock = 1
  /\ store = [p \in Paths |-> Unknown] /\ tombs = [p \in Paths |-> {}]
  /\ open = [p \in Paths |-> Unread] /\ loops = {} /\ call = Idle
  /\ gone = [p \in Paths |-> {}] /\ torn = {}

Written(p, lines) ==
  /\ clock' = clock + 1
  /\ disk' = [disk EXCEPT ![p] = [lines |-> lines, stamp |-> clock + 1]]

(* The store *)

(* Mutant: used_anchors leaves the tombstones out. *)
UsedInFile(p) == AnchorsOf(store[p].entries)

UsedAnchors(p) == AnchorsOf(store[p].entries) \cup tombs[p]

(***************************************************************************)
(* How a change of the rows of p to new, with tombstones, may go: done; or *)
(* an error before the lines are replaced; or after them, before the       *)
(* tombstones, which are a transaction of their own.                       *)
(***************************************************************************)
Stored(p, new, tombstoned) ==
  /\ store' = [store EXCEPT ![p] = new]
  /\ tombs' = [tombs EXCEPT ![p] = @ \cup tombstoned]
  /\ gone' = [gone EXCEPT ![p] = @ \cup tombstoned]
  /\ UNCHANGED << torn, left >>
NotStored == Spend("fault") /\ UNCHANGED << store, tombs, gone, torn >>
HalfStored(p, new, tombstoned) ==
  /\ tombstoned # {} /\ Spend("fault")
  /\ store' = [store EXCEPT ![p] = new] /\ torn' = torn \cup {p}
  /\ UNCHANGED << tombs, gone >>

(* EditEngine::open: the entries of a file just read, and the tombstones, in each way it may go. *)
Opened(p, lines, stamp) ==
  IF store[p] = Unknown
    THEN {[entries |-> MintAll(lines, UsedAnchors(p)), tombstoned |-> {}]}
  ELSE IF store[p].stamp = stamp \/ Hashes(store[p].entries) = HashLines(lines)
    THEN {[entries |-> store[p].entries, tombstoned |-> {}]}
  ELSE Reconcile(store[p].entries, lines, UsedAnchors(p), {})

(* Reads *)

(* Mutant: the file is looked at once more after it was read. *)
StampNow(c) == disk[c.path].stamp

(* The stamp a read is recorded under and its anchors are stored under: the one of its stat. *)
ReadStamp(c) == c.stamp

(* hash_read_file_args and hash_read_raw_args: what a request is told apart by. *)
Key(c) == [tool |-> c.tool, path |-> c.path, ranges |-> c.ranges, stamp |-> ReadStamp(c)]
Recorded(c, lines) == loops' = loops \cup {[key |-> Key(c), seen |-> lines]}
IsLoop(c) == \E entry \in loops : entry.key = Key(c)

ReadStat ==
  /\ call = Idle /\ Spend("calls")
  /\ \E p \in Paths, tool \in {"file_read", "readRaw"}, r \in Ranges :
       /\ disk[p] # Missing /\ (tool = "readRaw" => r = "none")
       /\ call' = [pc |-> "stat", tool |-> tool, path |-> p, ranges |-> r, stamp |-> disk[p].stamp,
                  lines |-> << >>]
  /\ UNCHANGED << disk, clock, store, tombs, open, loops, gone, torn >>

ReadRefused ==
  /\ call.pc = "stat" /\ (IsLoop(call) \/ disk[call.path] = Missing)
  /\ call' = Idle
  /\ UNCHANGED << disk, clock, store, tombs, open, loops, gone, torn, left >>

(* A raw read, or a read of a file outside the project, takes the content and no anchors. *)
ReadPlain ==
  /\ call.pc = "stat" /\ ~IsLoop(call) /\ disk[call.path] # Missing
  /\ call.tool = "readRaw" \/ call.path \notin Editable
  /\ Recorded(call, disk[call.path].lines)
  /\ call' = Idle
  /\ UNCHANGED << disk, clock, store, tombs, open, gone, torn, left >>

ReadContent ==
  /\ call.pc = "stat" /\ ~IsLoop(call) /\ disk[call.path] # Missing
  /\ call.tool = "file_read" /\ call.path \in Editable
  /\ call' = [call EXCEPT !.pc = "open", !.lines = disk[call.path].lines]
  /\ UNCHANGED << disk, clock, store, tombs, open, loops, gone, torn, left >>

(* The ranges asked for are taken of as many rendered lines as there are entries. *)
RangesPastEnd(c, entries) == {r \in {c.ranges} \ {"none"} : Len(entries) < Len(c.lines)}

ReadOpen ==
  /\ call.pc = "open"
  /\ \E o \in Opened(call.path, call.lines, ReadStamp(call)) :
       LET new == [entries |-> o.entries, stamp |-> ReadStamp(call)] IN
       \/ /\ Stored(call.path, new, o.tombstoned)
          /\ open' = [open EXCEPT ![call.path] = Working(o.entries, call.lines)]
          /\ Recorded(call, call.lines)
          /\ call' \in {Idle} \cup {Panicked : x \in RangesPastEnd(call, o.entries)}
       \/ /\ NotStored \/ HalfStored(call.path, new, o.tombstoned)
          /\ call' = Idle /\ UNCHANGED << open, loops >>
  /\ UNCHANGED << disk, clock >>

(* file_find_or_grep: refused if asked before, with no regard to the files. *)
SearchKey == [tool |-> "search", path |-> "", ranges |-> "none", stamp |-> 0]
Search ==
  /\ call = Idle /\ Spend("calls")
  /\ loops' = loops \cup {[key |-> SearchKey, seen |-> << >>]}
  /\ UNCHANGED << disk, clock, store, tombs, open, call, gone, torn >>

(* Edits *)

(* EditSession::edit clears the loop set whatever becomes of the edit. *)
Begins == call = Idle /\ Spend("calls") /\ loops' = {}

(* No such anchor, other content, not read, exists already, cannot be written ... *)
EditRefused == /\ Begins
               /\ UNCHANGED << disk, clock, store, tombs, open, call, gone, torn >>

Writes(p, kind, from, to, draft) ==
  /\ Written(p, draft)
  /\ call' = [pc |-> "written", path |-> p, kind |-> kind, from |-> from, to |-> to, draft |-> draft,
              stamp |-> 0, post |-> << >>]

WriteNew == \E p \in Editable, text \in Payloads :
  disk[p] = Missing /\ Writes(p, "new", 1, 0, text)

(* An overwrite, or what a regular expression makes of the lines. *)
WriteWhole == \E p \in Editable, kind \in {"overwrite", "replaceAll"}, text \in Payloads :
  open[p].read /\ Writes(p, kind, 1, Len(open[p].lines), text)

(* The runs of lines with anchors an edit may replace, and the gaps, from = to + 1, to insert into. *)
Runs(w) == {r \in (1..(Len(w.lines) + 1)) \X (0..Len(w.lines)) :
              r[1] <= r[2] + 1 /\ r[2] <= Len(w.entries) /\ w.lines # << >> /\ w.entries # << >>}

WriteLines == \E p \in Editable : \E r \in Runs(open[p]), text \in Payloads :
  Writes(p, "lines", r[1], r[2], Splice(open[p].lines, r[1], r[2], text))

EditWrite == /\ Begins
             /\ WriteNew \/ WriteWhole \/ WriteLines
             /\ UNCHANGED << store, tombs, open, gone, torn >>

(* An anchor of an entry beyond the lines: its line is looked up all the same. *)
ResolvePastEnd ==
  /\ Begins
  /\ \E p \in Editable : Len(open[p].entries) > Len(open[p].lines)
  /\ call' = Panicked
  /\ UNCHANGED << disk, clock, store, tombs, open, gone, torn >>

EditStat ==
  /\ call.pc = "written" /\ disk[call.path] # Missing
  /\ call' = [call EXCEPT !.pc = "back", !.stamp = disk[call.path].stamp]
  /\ UNCHANGED << disk, clock, store, tombs, open, loops, gone, torn, left >>

EditReadBack ==
  /\ call.pc = "back" /\ disk[call.path] # Missing
  /\ call' = [call EXCEPT !.pc = "post", !.post = disk[call.path].lines]
  /\ UNCHANGED << disk, clock, store, tombs, open, loops, gone, torn, left >>

EditLost ==
  /\ call.pc \in {"written", "back"} /\ disk[call.path] = Missing
  /\ call' = Idle
  /\ UNCHANGED << disk, clock, store, tombs, open, loops, gone, torn, left >>

DraftOrigins(c) ==
  LET n == Len(open[c.path].lines)
  IN Origins(n, c.from, c.to, Len(c.draft) - (n - (c.to - c.from + 1)))

CarriedPastEnd(c) ==
  c.kind = "lines" /\ \E j \in DOMAIN DraftOrigins(c) :
                        DraftOrigins(c)[j] > Len(open[c.path].entries)

(* Mutant: a line edit is reconciled like any other change of the file. *)
DiffedOutcomes(c) == Reconcile(open[c.path].entries, c.post, UsedAnchors(c.path), {})

(***************************************************************************)
(* The outcomes of a line edit.  The lines it leaves alone carry their     *)
(* anchors by where they came from, no diff taken; only what was read back *)
(* is reconciled, with the draft.                                          *)
(***************************************************************************)
LineOutcomes(c) ==
  LET old     == open[c.path].entries
      used    == UsedAnchors(c.path)
      origins == DraftOrigins(c)
      draft   == Fill(HashLines(c.draft),
                      [j \in DOMAIN origins |-> IF origins[j] = 0 THEN NoEntry ELSE old[origins[j]]],
                      used)
      minted  == {draft[j].anchor : j \in {k \in DOMAIN draft : origins[k] = 0}}
      deleted == {old[i].anchor : i \in c.from..c.to}
  IN {[o EXCEPT !.tombstoned = @ \cup deleted] : o \in Reconcile(draft, c.post, used \cup minted, {})}

Outcomes(c) ==
  LET old == open[c.path].entries IN
  CASE c.kind = "new"        -> Opened(c.path, c.post, c.stamp)
    [] c.kind = "overwrite"  -> Reconcile(old, c.post, UsedAnchors(c.path), AnchorsOf(old))
    [] c.kind = "replaceAll" -> Reconcile(old, c.post, UsedAnchors(c.path), {})
    [] c.kind = "lines"      -> LineOutcomes(c)

(* The diff shown renders the line of each entry that is gone. *)
RemovedPastEnd(c, entries) ==
  c.kind # "new" /\ \E i \in (Len(open[c.path].lines) + 1)..Len(open[c.path].entries) :
                      open[c.path].entries[i].anchor \notin AnchorsOf(entries)

EditCommit ==
  /\ call.pc = "post" /\ ~CarriedPastEnd(call)
  /\ \E o \in Outcomes(call) :
       LET new == [entries |-> o.entries, stamp |-> call.stamp] IN
       \/ /\ Stored(call.path, new, o.tombstoned)
          /\ IF RemovedPastEnd(call, o.entries)
               THEN call' = Panicked /\ UNCHANGED open
               ELSE call' = Idle /\ open' = [open EXCEPT ![call.path] = Working(o.entries, call.post)]
       \/ /\ NotStored \/ HalfStored(call.path, new, o.tombstoned)
          /\ call' = Idle /\ UNCHANGED open
  /\ UNCHANGED << disk, clock, loops >>

EditPanics ==
  /\ call.pc = "post" /\ CarriedPastEnd(call)
  /\ call' = Panicked
  /\ UNCHANGED << disk, clock, store, tombs, open, loops, gone, torn, left >>

(* Between calls, and around them *)

ClearTombstones == tombs' = [p \in Paths |-> {}] /\ gone' = [p \in Paths |-> {}]

(* The driver commits the edits after a batch of calls. *)
CommitEdits ==
  /\ call = Idle /\ ClearTombstones
  /\ UNCHANGED << disk, clock, store, open, loops, call, torn, left >>

(* A selection of MCP servers replaces the context: its read cache and loop guard start empty. *)
ReplaceContext ==
  /\ call = Idle /\ ClearTombstones
  /\ open' = [p \in Paths |-> Unread] /\ loops' = {}
  /\ UNCHANGED << disk, clock, store, call, torn, left >>

SomeoneWrites ==
  /\ Spend("foreign")
  /\ \E p \in Paths : \/ \E f \in Files : Written(p, f)
                       \/ (disk' = [disk EXCEPT ![p] = Missing] /\ UNCHANGED clock)
  /\ UNCHANGED << store, tombs, open, loops, call, gone, torn >>

Init == EditInit /\ BudgetsGiven

Next == \/ ReadStat \/ ReadRefused \/ ReadPlain \/ ReadContent \/ ReadOpen \/ Search
        \/ EditRefused \/ EditWrite \/ ResolvePastEnd \/ EditStat \/ EditReadBack \/ EditLost
        \/ EditCommit \/ EditPanics
        \/ CommitEdits \/ ReplaceContext \/ SomeoneWrites

Spec == Init /\ [][Next]_vars

(* Properties *)

Distinct(entries) == \A i, j \in DOMAIN entries : entries[i].anchor = entries[j].anchor => i = j

(***************************************************************************)
(* An anchor names one line, and until the edits of a batch are committed  *)
(* never a second one: the anchors of a file are distinct, and none of     *)
(* them was taken from a line since the last commit, so that a call the    *)
(* model made from an earlier read finds its line or no line (commit,      *)
(* Pool::mint, tombstone).  Not promised once tombstones failed to be      *)
(* written.                                                                *)
(***************************************************************************)
AnchorsNameOneLine ==
  call.pc # "panicked" => \A p \in Paths \ torn :
    \A entries \in {store[p].entries, open[p].entries} :
      Distinct(entries) /\ AnchorsOf(entries) \cap gone[p] = {}

(***************************************************************************)
(* What was recorded under the stamp a file has now is what the file has   *)
(* now: the anchors the next open takes over without a look at the lines   *)
(* (the first rung of EditEngine::open), and the reads the loop guard      *)
(* refuses as already answered, whoever writes between the steps of a call.*)
(***************************************************************************)
StampsAreHonest ==
  \A p \in Paths : disk[p] # Missing =>
    /\ store[p].stamp = disk[p].stamp => Hashes(store[p].entries) = HashLines(disk[p].lines)
    /\ \A l \in loops : l.key.path = p /\ l.key.stamp = disk[p].stamp => l.seen = disk[p].lines

(***************************************************************************)
(* A line edit that nobody disturbs leaves every line outside of it its    *)
(* anchor, equal lines included (apply_line_edit's direct transform).  Not *)
(* promised once tombstones failed to be written: an anchor of the cached  *)
(* entries may be minted again then.                                       *)
(***************************************************************************)
CarriedKeepAnchors ==
  [][ (call.pc = "post" /\ call.kind = "lines" /\ call.post = call.draft /\ call.path \notin torn
          /\ open' # open) =>
        LET old   == open[call.path].entries
            new   == open'[call.path].entries
            shift == Len(new) - Len(old)
        IN /\ \A i \in 1..(call.from - 1) : new[i].anchor = old[i].anchor
           /\ \A i \in (call.to + 1)..Len(old) : new[i + shift].anchor = old[i].anchor ]_vars
=============================================================================
