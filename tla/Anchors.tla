------------------------------ MODULE Anchors ------------------------------
(***************************************************************************)
(* The anchor algorithms of frances-edit and frances-anchors, as pure      *)
(* operators.  A file is a sequence of texts.  A state of a file is a      *)
(* sequence of entries [hash, anchor], one per line, with the stamp (mtime *)
(* and size) of the file it was made for.  An anchor is its position in    *)
(* the canonical order of the dictionary's words.                          *)
(***************************************************************************)
EXTENDS Integers, FiniteSetsExt, SequencesExt

CONSTANTS Texts, Trimmed        \* the lines a file may have, and each without its outer whitespace

Blank == ""

ASSUME TextsAssumption == /\ Trimmed \in [Texts -> Texts]
                          /\ \A t \in Texts : Trimmed[Trimmed[t]] = Trimmed[t]

(* A blank line is salted with its ordinal among the blank lines of the file. *)
HashLines(lines) ==
  [i \in DOMAIN lines |->
     LET text == Trimmed[lines[i]] IN
     << text, IF text = Blank
                THEN Cardinality({j \in 1..i : Trimmed[lines[j]] = Blank}) ELSE 0 >>]

(* What takes the place of the hash of an explicitly deleted line: no other line's. *)
Poison(i) == << Blank, -i >>

Hashes(entries) == [i \in DOMAIN entries |-> entries[i].hash]
AnchorsOf(entries) == {entries[i].anchor : i \in DOMAIN entries}

(* The count anchors a pool hands out when used are taken: the first free ones, in order. *)
Mint(used, count) ==
  LET free == 0..(Cardinality(used) + count) \ used
  IN [k \in 1..count |-> CHOOSE a \in free : Cardinality({b \in free : b < a}) = k - 1]

(* Which old line each new line is, 0 for none: in order, and of equal hash. *)
Matchings(old, new) ==
  {m \in [DOMAIN new -> 0..Len(old)] :
     /\ \A j \in DOMAIN new : m[j] # 0 => old[m[j]] = new[j]
     /\ \A j, k \in DOMAIN new : j < k /\ m[j] # 0 /\ m[k] # 0 => m[j] < m[k]}

Extends(m, n) == m # n /\ \A j \in DOMAIN m : m[j] # 0 => n[j] = m[j]

(***************************************************************************)
(* The patience diff of the crate similar (external): equal sequences are  *)
(* matched line by line; otherwise some matching that cannot be extended.  *)
(* Which one is left open, patience, not being a longest common            *)
(* subsequence, may take any.                                              *)
(***************************************************************************)
Diffs(old, new) ==
  IF old = new THEN {[j \in DOMAIN new |-> j]}
  ELSE LET all == Matchings(old, new)
       IN {m \in all : ~ \E n \in all : Extends(m, n)}

(* An entry per line of hashes: kept is the entry of each line, NoEntry for a line to be minted. *)
NoEntry == [hash |-> << Blank, 0 >>, anchor |-> -1]
Fill(hashes, kept, used) ==
  LET minted == {j \in DOMAIN hashes : kept[j] = NoEntry}
      pool   == Mint(used, Cardinality(minted))
  IN [j \in DOMAIN hashes |->
        IF j \in minted
          THEN [hash |-> hashes[j], anchor |-> pool[Cardinality({k \in minted : k <= j})]]
          ELSE [hash |-> hashes[j], anchor |-> kept[j].anchor]]

MintAll(lines, used) == Fill(HashLines(lines), [j \in DOMAIN lines |-> NoEntry], used)

(***************************************************************************)
(* Every outcome of reconciling the entries with lines: lines matched keep *)
(* their entries, the others are minted, and the old lines that are not    *)
(* matched are tombstoned.  deleted are the anchors of the hints.          *)
(***************************************************************************)
Reconcile(entries, lines, used, deleted) ==
  LET hashes == HashLines(lines)
      old    == [i \in DOMAIN entries |-> IF entries[i].anchor \in deleted THEN Poison(i)
                                          ELSE entries[i].hash]
      Outcome(m) ==
        [entries    |-> Fill(hashes, [j \in DOMAIN hashes |-> IF m[j] = 0 THEN NoEntry
                                                              ELSE entries[m[j]]], used),
         tombstoned |-> {entries[i].anchor : i \in DOMAIN entries \ {m[j] : j \in DOMAIN m}}]
  IN {Outcome(m) : m \in Diffs(old, hashes)}

(* lines from..to of s replaced by new; from = to + 1 inserts. *)
Splice(s, from, to, new) == SubSeq(s, 1, from - 1) \o new \o SubSeq(s, to + 1, Len(s))

(* Where each line of a spliced file comes from: its index in the file before, 0 if inserted. *)
Origins(n, from, to, count) == Splice([i \in 1..n |-> i], from, to, [k \in 1..count |-> 0])
=============================================================================
