------------------------- MODULE EditSessionProofs -------------------------
(***************************************************************************)
(* Anchors name one line, stamps are honest and line edits keep anchors,   *)
(* for any paths, texts, payloads and bounds.                              *)
(*                                                                         *)
(* First what the operators of Anchors promise: a pool mints as many free  *)
(* anchors as it is asked for, no two alike, because the number of free    *)
(* anchors below one counts the free anchors one by one; entries filled    *)
(* from distinct ones with a pool are distinct; a reconciliation hashes    *)
(* the lines it is given, keeps and mints anchors, and has none of those   *)
(* it lets go.  Then the invariant: whatever is known under a stamp not    *)
(* in the future is true if the file still has the stamp, and the anchors  *)
(* let go are in the tombstones, which every pool leaves out.              *)
(***************************************************************************)
EXTENDS EditSession, FiniteSetTheorems, SequenceTheorems, TLAPS

Hash == Texts \X Nat
Entry == [hash : Hash, anchor : Nat]

\* In a finite set of integers, the number of smaller elements grows with the element.
LEMMA RanksGrow ==
  ASSUME NEW S \in SUBSET Int, IsFiniteSet(S), NEW a \in S, NEW b \in S, a < b
  PROVE  /\ Cardinality({x \in S : x < a}) < Cardinality({x \in S : x < b})
         /\ Cardinality({x \in S : x <= a}) < Cardinality({x \in S : x <= b})
         /\ Cardinality({x \in S : x < a}) \in Nat
         /\ Cardinality({x \in S : x <= a}) \in Nat
<1> DEFINE A == {x \in S : x < a}
           B == {x \in S : x < b}
           C == {x \in S : x <= a}
           D == {x \in S : x <= b}
<1>1. IsFiniteSet(A) /\ IsFiniteSet(B) /\ IsFiniteSet(C) /\ IsFiniteSet(D)
  BY FS_Subset
<1>2. /\ Cardinality(A) \in Nat /\ Cardinality(B) \in Nat
      /\ Cardinality(C) \in Nat /\ Cardinality(D) \in Nat
  BY <1>1, FS_CardinalityType
<1>3. A \in SUBSET B /\ A # B
  <2>1. a \in B /\ a \notin A
    OBVIOUS
  <2>2. \A x \in S : x < a => x < b
    OBVIOUS
  <2>3. A \subseteq B
    BY <2>2
  <2> HIDE DEF A, B
  <2> QED
    BY <2>1, <2>3
<1>4. C \in SUBSET D /\ C # D
  <2>1. b \in D /\ b \notin C
    OBVIOUS
  <2>2. \A x \in S : x <= a => x <= b
    OBVIOUS
  <2>3. C \subseteq D
    BY <2>2
  <2> HIDE DEF C, D
  <2> QED
    BY <2>1, <2>3
<1> HIDE DEF A, B, C, D
<1>5. Cardinality(A) <= Cardinality(B) /\ Cardinality(A) # Cardinality(B)
  BY <1>1, <1>3, FS_Subset
<1>6. Cardinality(C) <= Cardinality(D) /\ Cardinality(C) # Cardinality(D)
  BY <1>1, <1>4, FS_Subset
<1> QED
  BY <1>2, <1>5, <1>6 DEF A, B, C, D

\* Each rank is taken: ranks map a finite set into as many numbers, one by one.
LEMMA RanksCount ==
  ASSUME NEW S \in SUBSET Int, IsFiniteSet(S), NEW k \in 0..(Cardinality(S) - 1)
  PROVE  \E a \in S : Cardinality({x \in S : x < a}) = k
<1> DEFINE rank == [a \in S |-> Cardinality({x \in S : x < a})]
           T == 0..(Cardinality(S) - 1)
<1>1. Cardinality(S) \in Nat
  BY FS_CardinalityType
<1>2. \A a \in S : rank[a] \in T
  <2> SUFFICES ASSUME NEW a \in S PROVE rank[a] \in T
    OBVIOUS
  <2> DEFINE L == {x \in S : x < a}
  <2>1. L \in SUBSET S /\ L # S
    <3>1. a \notin L
      OBVIOUS
    <3> QED
      BY <3>1
  <2>2. rank[a] = Cardinality(L)
    OBVIOUS
  <2> HIDE DEF L, rank
  <2>3. IsFiniteSet(L) /\ Cardinality(L) <= Cardinality(S) /\ Cardinality(L) # Cardinality(S)
    BY <2>1, FS_Subset
  <2>4. Cardinality(L) \in Nat
    BY <2>3, FS_CardinalityType
  <2> QED
    BY <1>1, <2>2, <2>3, <2>4
<1>3. \A a, b \in S : a < b => rank[a] < rank[b]
  BY RanksGrow
<1> HIDE DEF T
<1>4. rank \in [S -> T]
  BY <1>2
<1>5. ASSUME NEW a \in S, NEW b \in S, rank[a] = rank[b] PROVE a = b
  <2>1. a \in Int /\ b \in Int /\ rank[a] \in Nat /\ rank[b] \in Nat
    <3>1. T \subseteq Nat
      BY <1>1 DEF T
    <3> HIDE DEF rank
    <3> QED
      BY <1>2, <3>1
  <2> HIDE DEF rank
  <2> QED
    BY <1>3, <1>5, <2>1
<1> HIDE DEF rank
<1>6. rank \in Injection(S, T)
  BY <1>4, <1>5 DEF Injection, IsInjective
<1>7. IsFiniteSet(T) /\ Cardinality(T) = Cardinality(S)
  BY <1>1, FS_Interval DEF T
<1>8. rank \in Surjection(S, T)
  BY <1>6, <1>7, FS_Injection
<1>9. PICK a \in S : rank[a] = k
  BY <1>8 DEF Surjection, T
<1> QED
  BY <1>9 DEF rank

\* A pool mints free anchors, no two alike (pool.rs).
LEMMA MintIsFresh ==
  ASSUME NEW used \in SUBSET Nat, IsFiniteSet(used), NEW count \in Nat
  PROVE  /\ \A k \in 1..count : Mint(used, count)[k] \in Nat \ used
         /\ \A j, k \in 1..count : Mint(used, count)[j] = Mint(used, count)[k] => j = k
<1> DEFINE all == 0..(Cardinality(used) + count)
           free == all \ used
<1>1. Cardinality(used) \in Nat
  BY FS_CardinalityType
<1>2. IsFiniteSet(all) /\ Cardinality(all) = Cardinality(used) + count + 1 /\ all \subseteq Nat
  <2>1. Cardinality(used) + count \in Nat /\ 0 \in Int
    BY <1>1
  <2>2. \A n \in Nat : IsFiniteSet(0..n) /\ Cardinality(0..n) = n + 1
    BY FS_Interval
  <2> DEFINE n == Cardinality(used) + count
  <2>3. all = 0..n /\ n \in Nat
    BY <2>1
  <2> HIDE DEF n, all
  <2>4. 0..n \subseteq Nat
    BY <2>3
  <2>5. Cardinality(all) = n + 1
    BY <2>2, <2>3
  <2> QED
    BY <2>2, <2>3, <2>4, <2>5 DEF n
<1> HIDE DEF all
<1>3. IsFiniteSet(free) /\ Cardinality(free) = Cardinality(all) - Cardinality(all \cap used)
  BY <1>2, FS_Difference
<1>4. Cardinality(all \cap used) \in Nat /\ Cardinality(all \cap used) <= Cardinality(used)
  <2>1. all \cap used \in SUBSET used
    OBVIOUS
  <2> QED
    BY <2>1, FS_Subset, FS_CardinalityType
<1>5. Cardinality(free) \in Nat /\ Cardinality(free) > count
  BY <1>1, <1>2, <1>3, <1>4
<1>6. free \in SUBSET Int
  BY <1>2
<1> HIDE DEF free
<1>7. \A k \in 1..count : \E a \in free : Cardinality({b \in free : b < a}) = k - 1
  <2> SUFFICES ASSUME NEW k \in 1..count
               PROVE  \E a \in free : Cardinality({b \in free : b < a}) = k - 1
    OBVIOUS
  <2>1. k - 1 \in 0..(Cardinality(free) - 1)
    BY <1>5
  <2> QED
    BY <1>3, <1>6, <2>1, RanksCount
<1> DEFINE pool == [k \in 1..count |-> CHOOSE a \in free : Cardinality({b \in free : b < a}) = k - 1]
<1>8. Mint(used, count) = pool
  BY DEF Mint, free, all
<1>9. \A k \in 1..count : pool[k] \in free /\ Cardinality({b \in free : b < pool[k]}) = k - 1
  BY <1>7
<1> HIDE DEF pool
<1>10. \A k \in 1..count : pool[k] \in Nat \ used
  BY <1>2, <1>9 DEF free
<1>11. \A j, k \in 1..count : pool[j] = pool[k] => j = k
  <2> SUFFICES ASSUME NEW j \in 1..count, NEW k \in 1..count, pool[j] = pool[k] PROVE j = k
    OBVIOUS
  <2>1. j - 1 = k - 1
    BY <1>9
  <2> QED
    BY <2>1
<1> QED
  BY <1>8, <1>10, <1>11

\* The hashes of a file, one for each line.
LEMMA HashTyped ==
  ASSUME NEW lines \in Seq(Texts)
  PROVE  HashLines(lines) \in [1..Len(lines) -> Hash] /\ DOMAIN lines = 1..Len(lines) /\ Len(lines) \in Nat
<1> DEFINE blanks(i) == {j \in 1..i : Trimmed[lines[j]] = Blank}
           salt(i) == IF Trimmed[lines[i]] = Blank THEN Cardinality(blanks(i)) ELSE 0
<1>1. DOMAIN lines = 1..Len(lines) /\ Len(lines) \in Nat /\ \A i \in 1..Len(lines) : lines[i] \in Texts
  OBVIOUS
<1>2. \A i \in 1..Len(lines) : salt(i) \in Nat
  <2> SUFFICES ASSUME NEW i \in 1..Len(lines) PROVE Cardinality(blanks(i)) \in Nat
    OBVIOUS
  <2>1. blanks(i) \in SUBSET (1..i) /\ i \in Int
    OBVIOUS
  <2>2. IsFiniteSet(1..i)
    BY <2>1, FS_Interval
  <2> HIDE DEF blanks
  <2> QED
    BY <2>1, <2>2, FS_Subset, FS_CardinalityType
<1>3. \A i \in 1..Len(lines) : Trimmed[lines[i]] \in Texts
  BY <1>1, TextsAssumption
<1>4. HashLines(lines) = [i \in 1..Len(lines) |-> << Trimmed[lines[i]], salt(i) >>]
  BY <1>1 DEF HashLines
<1> HIDE DEF salt
<1> QED
  BY <1>1, <1>2, <1>3, <1>4 DEF Hash

\* No entry of a file is the mark for none.
LEMMA NoEntryIsNone == NoEntry \notin Entry
BY DEF NoEntry, Entry

\* Entries filled with a pool: hashes as given, what is kept as it was, the rest fresh.
Filled(f, n, hashes, kept, used) ==
  /\ f \in [1..n -> Entry]
  /\ \A j \in 1..n : /\ f[j].hash = hashes[j]
                     /\ kept[j] # NoEntry => f[j].anchor = kept[j].anchor
                     /\ kept[j] = NoEntry => f[j].anchor \in Nat \ used
  /\ \A i, j \in 1..n : kept[i] = NoEntry /\ kept[j] = NoEntry /\ f[i].anchor = f[j].anchor => i = j

LEMMA FillFills ==
  ASSUME NEW n \in Nat, NEW hashes \in [1..n -> Hash], NEW kept \in [1..n -> Entry \cup {NoEntry}],
         NEW used \in SUBSET Nat, IsFiniteSet(used)
  PROVE  Filled(Fill(hashes, kept, used), n, hashes, kept, used)
<1> DEFINE minted == {j \in 1..n : kept[j] = NoEntry}
           rank(j) == Cardinality({k \in minted : k <= j})
           pool == Mint(used, Cardinality(minted))
           f == [j \in 1..n |-> IF j \in minted THEN [hash |-> hashes[j], anchor |-> pool[rank(j)]]
                                ELSE [hash |-> hashes[j], anchor |-> kept[j].anchor]]
<1>1. Fill(hashes, kept, used) = f
  BY DEF Fill
<1>2. minted \in SUBSET (1..n) /\ IsFiniteSet(minted) /\ Cardinality(minted) \in Nat
  <2>1. IsFiniteSet(1..n)
    BY FS_Interval
  <2> QED
    BY <2>1, FS_Subset, FS_CardinalityType
<1>3. \A j \in minted : j \in 1..n /\ kept[j] = NoEntry
  OBVIOUS
<1>4. \A j \in 1..n : j \notin minted => kept[j] \in Entry
  OBVIOUS
<1>5. \A j \in 1..n : kept[j] = NoEntry => j \in minted
  OBVIOUS
<1> HIDE DEF minted
<1>6. \A j \in minted : rank(j) \in 1..Cardinality(minted)
  <2> SUFFICES ASSUME NEW j \in minted PROVE rank(j) \in 1..Cardinality(minted)
    OBVIOUS
  <2> DEFINE L == {k \in minted : k <= j}
  <2>1. L \in SUBSET minted /\ j \in L
    BY <1>3
  <2> HIDE DEF L
  <2>2. IsFiniteSet(L) /\ Cardinality(L) <= Cardinality(minted) /\ Cardinality(L) \in Nat
    BY <1>2, <2>1, FS_Subset, FS_CardinalityType
  <2>3. Cardinality(L) # 0
    BY <2>1, <2>2, FS_EmptySet
  <2> QED
    BY <1>2, <2>2, <2>3 DEF L
<1>7. \A i, j \in minted : rank(i) = rank(j) => i = j
  <2> SUFFICES ASSUME NEW i \in minted, NEW j \in minted, i < j PROVE rank(i) # rank(j)
    BY <1>3
  <2>1. minted \in SUBSET Int
    BY <1>2
  <2>2. rank(i) < rank(j)
    BY <1>2, <2>1, RanksGrow
  <2>3. rank(i) \in Nat /\ rank(j) \in Nat
    BY <1>2, <1>6
  <2> HIDE DEF rank
  <2> QED
    BY <2>2, <2>3
<1> HIDE DEF rank
<1>8. /\ \A k \in 1..Cardinality(minted) : pool[k] \in Nat \ used
      /\ \A j, k \in 1..Cardinality(minted) : pool[j] = pool[k] => j = k
  BY <1>2, MintIsFresh
<1> HIDE DEF pool
<1>9. \A j \in 1..n : j \in minted => f[j] = [hash |-> hashes[j], anchor |-> pool[rank(j)]]
                                     /\ pool[rank(j)] \in Nat \ used
  BY <1>6, <1>8
<1>10. \A j \in 1..n : j \notin minted => f[j] = [hash |-> hashes[j], anchor |-> kept[j].anchor]
                                        /\ kept[j].anchor \in Nat
  BY <1>4 DEF Entry
<1>11. \A j \in 1..n : /\ f[j] \in Entry /\ f[j].hash = hashes[j]
                       /\ j \in minted => f[j].anchor = pool[rank(j)] /\ f[j].anchor \in Nat \ used
                       /\ j \notin minted => f[j].anchor = kept[j].anchor
  BY <1>9, <1>10 DEF Entry
<1>12. f \in [1..n -> Entry]
  BY <1>11
<1> HIDE DEF f
<1>13. \A i, j \in minted : f[i].anchor = f[j].anchor => i = j
  BY <1>3, <1>6, <1>7, <1>8, <1>11
<1>14. \A j \in 1..n : kept[j] # NoEntry => j \notin minted
  BY <1>3
<1> QED
  BY <1>1, <1>5, <1>11, <1>12, <1>13, <1>14 DEF Filled

\* A diff matches lines one to one, and equal files line by line.
LEMMA DiffsMatch ==
  ASSUME NEW k \in Nat, NEW n \in Nat, NEW old, NEW new,
         DOMAIN old = 1..k, Len(old) = k, DOMAIN new = 1..n, NEW m \in Diffs(old, new)
  PROVE  /\ m \in [1..n -> 0..k]
         /\ \A i, j \in 1..n : m[i] # 0 /\ m[i] = m[j] => i = j
         /\ old = new => m = [j \in 1..n |-> j]
<1>1. CASE old = new
  <2>1. m = [j \in 1..n |-> j]
    BY <1>1 DEF Diffs
  <2>2. 1..n = 1..k
    BY <1>1
  <2>3. \A j \in 1..n : j \in 0..k
    BY <2>2
  <2> QED
    BY <2>1, <2>3
<1>2. CASE old # new
  <2>1. m \in Matchings(old, new)
    BY <1>2 DEF Diffs
  <2>2. /\ m \in [1..n -> 0..k]
        /\ \A i, j \in 1..n : i < j /\ m[i] # 0 /\ m[j] # 0 => m[i] < m[j]
    BY <2>1 DEF Matchings
  <2>3. ASSUME NEW i \in 1..n, NEW j \in 1..n, m[i] # 0, m[i] = m[j] PROVE i = j
    <3>1. m[i] \in Nat /\ m[j] \in Nat
      BY <2>2
    <3>2. ~ (i < j) /\ ~ (j < i)
      BY <2>2, <2>3, <3>1
    <3> QED
      BY <3>2
  <2> QED
    BY <1>2, <2>2, <2>3
<1> QED
  BY <1>1, <1>2

\* What a matching makes of the entries: kept ones, and a pool for the others.
Kept(entries, n, m) == [j \in 1..n |-> IF m[j] = 0 THEN NoEntry ELSE entries[m[j]]]

LEMMA ReconcileMatches ==
  ASSUME NEW entries \in Seq(Entry), NEW lines \in Seq(Texts), NEW used, NEW deleted,
         NEW o \in Reconcile(entries, lines, used, deleted)
  PROVE  \E m \in [1..Len(lines) -> 0..Len(entries)] :
           /\ o.entries = Fill(HashLines(lines), Kept(entries, Len(lines), m), used)
           /\ o.tombstoned = {entries[i].anchor : i \in (1..Len(entries)) \ {m[j] : j \in 1..Len(lines)}}
           /\ \A i, j \in 1..Len(lines) : m[i] # 0 /\ m[i] = m[j] => i = j
           /\ deleted = {} /\ Hashes(entries) = HashLines(lines) => m = [j \in 1..Len(lines) |-> j]
<1> DEFINE n == Len(lines)
           k == Len(entries)
           hashes == HashLines(lines)
           old == [i \in DOMAIN entries |-> IF entries[i].anchor \in deleted THEN Poison(i) ELSE entries[i].hash]
<1>1. n \in Nat /\ DOMAIN hashes = 1..n
  BY HashTyped
<1>2. k \in Nat /\ DOMAIN entries = 1..k
  OBVIOUS
<1>3. DOMAIN old = 1..k
  BY <1>2
<1>4. old \in Seq({old[i] : i \in 1..k}) /\ Len(old) = k
  <2> DEFINE V == {old[i] : i \in 1..k}
  <2>1. old \in [1..k -> V]
    BY <1>2
  <2> HIDE DEF V, old, k
  <2>2. old \in Seq(V)
    BY <1>2, <2>1
  <2> QED
    BY <1>2, <2>1, <2>2 DEF V
<1>5. deleted = {} => old = Hashes(entries)
  BY DEF Hashes
<1>6. PICK m \in Diffs(old, hashes) :
        o = [entries    |-> Fill(hashes, [j \in DOMAIN hashes |-> IF m[j] = 0 THEN NoEntry ELSE entries[m[j]]], used),
             tombstoned |-> {entries[i].anchor : i \in DOMAIN entries \ {m[j] : j \in DOMAIN m}}]
  BY DEF Reconcile
<1> HIDE DEF old, hashes, n, k
<1>7. /\ m \in [1..n -> 0..k]
      /\ \A i, j \in 1..n : m[i] # 0 /\ m[i] = m[j] => i = j
      /\ old = hashes => m = [j \in 1..n |-> j]
  BY <1>1, <1>2, <1>3, <1>4, DiffsMatch
<1>8. DOMAIN m = 1..n
  BY <1>7
<1>9. o.entries = Fill(hashes, Kept(entries, n, m), used)
  BY <1>1, <1>6 DEF Kept
<1>10. o.tombstoned = {entries[i].anchor : i \in (1..k) \ {m[j] : j \in 1..n}}
  BY <1>2, <1>6, <1>8
<1>11. deleted = {} /\ Hashes(entries) = hashes => m = [j \in 1..n |-> j]
  BY <1>5, <1>7
<1> QED
  BY <1>7, <1>9, <1>10, <1>11 DEF n, k, hashes

\* An outcome has entries and tombstones, no more.
LEMMA ReconcileShape ==
  ASSUME NEW entries, NEW lines, NEW used, NEW deleted, NEW o \in Reconcile(entries, lines, used, deleted)
  PROVE  \E e, t : o = [entries |-> e, tombstoned |-> t]
<1> DEFINE hashes == HashLines(lines)
           old == [i \in DOMAIN entries |-> IF entries[i].anchor \in deleted THEN Poison(i) ELSE entries[i].hash]
<1>1. PICK m \in Diffs(old, hashes) :
        o = [entries    |-> Fill(hashes, [j \in DOMAIN hashes |-> IF m[j] = 0 THEN NoEntry ELSE entries[m[j]]], used),
             tombstoned |-> {entries[i].anchor : i \in DOMAIN entries \ {m[j] : j \in DOMAIN m}}]
  BY DEF Reconcile
<1> HIDE DEF hashes, old
<1> QED
  BY <1>1, Zenon

\* The anchors of a file are finitely many.
LEMMA AnchorsFinite ==
  ASSUME NEW entries \in Seq(Entry)
  PROVE  AnchorsOf(entries) \in SUBSET Nat /\ IsFiniteSet(AnchorsOf(entries))
<1> DEFINE k == Len(entries)
           f == [i \in 1..k |-> entries[i].anchor]
           T == AnchorsOf(entries)
<1>1. k \in Nat /\ DOMAIN entries = 1..k /\ \A i \in 1..k : entries[i] \in Entry
  OBVIOUS
<1>2. \A i \in 1..k : entries[i].anchor \in Nat
  BY <1>1 DEF Entry
<1>3. T = {entries[i].anchor : i \in 1..k}
  BY <1>1 DEF AnchorsOf
<1> HIDE DEF T, k
<1>4. T \in SUBSET Nat
  BY <1>2, <1>3
<1>5. f \in Surjection(1..k, T)
  BY <1>3 DEF Surjection
<1>6. IsFiniteSet(1..k)
  BY <1>1, FS_Interval
<1> HIDE DEF f
<1> QED
  BY <1>4, <1>5, <1>6, FS_Surjection DEF T

\* The outcome of a reconciliation has the lines' hashes; its anchors are old or fresh, and
\* it lets go old ones (reconcile.rs).
LEMMA ReconcileTyped ==
  ASSUME NEW entries \in Seq(Entry), NEW lines \in Seq(Texts), NEW used \in SUBSET Nat, IsFiniteSet(used),
         NEW deleted, NEW o \in Reconcile(entries, lines, used, deleted)
  PROVE  /\ o.entries \in Seq(Entry) /\ Hashes(o.entries) = HashLines(lines)
         /\ Len(o.entries) = Len(lines)
         /\ o.tombstoned \subseteq AnchorsOf(entries)
         /\ AnchorsOf(o.entries) \subseteq AnchorsOf(entries) \cup (Nat \ used)
<1> DEFINE n == Len(lines)
           k == Len(entries)
<1>1. PICK m \in [1..n -> 0..k] :
        /\ o.entries = Fill(HashLines(lines), Kept(entries, n, m), used)
        /\ o.tombstoned = {entries[i].anchor : i \in (1..k) \ {m[j] : j \in 1..n}}
        /\ \A i, j \in 1..n : m[i] # 0 /\ m[i] = m[j] => i = j
  BY ReconcileMatches
<1>2. n \in Nat /\ HashLines(lines) \in [1..n -> Hash]
  BY HashTyped
<1>3. k \in Nat /\ DOMAIN entries = 1..k /\ \A i \in 1..k : entries[i] \in Entry
  OBVIOUS
<1> HIDE DEF n, k
<1>4. \A j \in 1..n : m[j] # 0 => m[j] \in 1..k
  BY <1>1, <1>3
<1>5. Kept(entries, n, m) \in [1..n -> Entry \cup {NoEntry}]
  BY <1>3, <1>4 DEF Kept
<1> DEFINE f == Fill(HashLines(lines), Kept(entries, n, m), used)
<1>6. /\ f \in [1..n -> Entry]
      /\ \A j \in 1..n : /\ f[j].hash = HashLines(lines)[j]
                         /\ Kept(entries, n, m)[j] # NoEntry => f[j].anchor = Kept(entries, n, m)[j].anchor
                         /\ Kept(entries, n, m)[j] = NoEntry => f[j].anchor \in Nat \ used
  <2>1. Filled(Fill(HashLines(lines), Kept(entries, n, m), used), n, HashLines(lines), Kept(entries, n, m), used)
    BY <1>2, <1>5, FillFills
  <2> QED
    BY <2>1 DEF Filled
<1> HIDE DEF f
<1>7. f \in Seq(Entry) /\ Len(f) = n /\ DOMAIN f = 1..n
  BY <1>2, <1>6
<1>8. Hashes(f) = HashLines(lines)
  BY <1>2, <1>6, <1>7 DEF Hashes
<1>9. o.tombstoned \subseteq AnchorsOf(entries)
  BY <1>1, <1>3 DEF AnchorsOf
<1>10. AnchorsOf(f) \subseteq AnchorsOf(entries) \cup (Nat \ used)
  <2> SUFFICES ASSUME NEW j \in 1..n PROVE f[j].anchor \in AnchorsOf(entries) \cup (Nat \ used)
    BY <1>7 DEF AnchorsOf
  <2>1. CASE Kept(entries, n, m)[j] = NoEntry
    BY <1>6, <2>1
  <2>2. CASE Kept(entries, n, m)[j] # NoEntry
    <3>1. m[j] \in 1..k /\ f[j].anchor = entries[m[j]].anchor
      BY <1>4, <1>6, <2>2 DEF Kept
    <3> QED
      BY <1>3, <3>1 DEF AnchorsOf
  <2> QED
    BY <2>1, <2>2
<1> QED
  BY <1>1, <1>7, <1>8, <1>9, <1>10 DEF f, n

\* From distinct entries, with a pool that leaves theirs out: distinct ones, and none let go.
LEMMA ReconcileDistinct ==
  ASSUME NEW entries \in Seq(Entry), NEW lines \in Seq(Texts), NEW used \in SUBSET Nat, IsFiniteSet(used),
         NEW deleted, NEW o \in Reconcile(entries, lines, used, deleted),
         Distinct(entries), AnchorsOf(entries) \subseteq used
  PROVE  Distinct(o.entries) /\ AnchorsOf(o.entries) \cap o.tombstoned = {}
<1> DEFINE n == Len(lines)
           k == Len(entries)
<1>1. PICK m \in [1..n -> 0..k] :
        /\ o.entries = Fill(HashLines(lines), Kept(entries, n, m), used)
        /\ o.tombstoned = {entries[i].anchor : i \in (1..k) \ {m[j] : j \in 1..n}}
        /\ \A i, j \in 1..n : m[i] # 0 /\ m[i] = m[j] => i = j
  BY ReconcileMatches
<1>2. n \in Nat /\ HashLines(lines) \in [1..n -> Hash]
  BY HashTyped
<1>3. k \in Nat /\ DOMAIN entries = 1..k /\ \A i \in 1..k : entries[i] \in Entry
  OBVIOUS
<1> HIDE DEF n, k
<1>4. \A j \in 1..n : m[j] # 0 => m[j] \in 1..k
  BY <1>1, <1>3
<1>5. Kept(entries, n, m) \in [1..n -> Entry \cup {NoEntry}]
  BY <1>3, <1>4 DEF Kept
<1>6. \A j \in 1..n : Kept(entries, n, m)[j] = NoEntry <=> m[j] = 0
  BY <1>3, <1>4, NoEntryIsNone DEF Kept
<1> DEFINE f == Fill(HashLines(lines), Kept(entries, n, m), used)
           K == Kept(entries, n, m)
<1>7. /\ f \in [1..n -> Entry]
      /\ \A j \in 1..n : /\ f[j].hash = HashLines(lines)[j]
                         /\ K[j] # NoEntry => f[j].anchor = K[j].anchor
                         /\ K[j] = NoEntry => f[j].anchor \in Nat \ used
      /\ \A i, j \in 1..n : K[i] = NoEntry /\ K[j] = NoEntry /\ f[i].anchor = f[j].anchor => i = j
  <2>1. Filled(Fill(HashLines(lines), Kept(entries, n, m), used), n, HashLines(lines), Kept(entries, n, m), used)
    BY <1>2, <1>5, FillFills
  <2> QED
    BY <2>1 DEF Filled
<1> HIDE DEF f
<1>8. DOMAIN f = 1..n
  BY <1>7
<1>9. \A j \in 1..n : m[j] # 0 => f[j].anchor = entries[m[j]].anchor
  BY <1>6, <1>7 DEF Kept
<1> HIDE DEF K
<1>10. \A j \in 1..n : m[j] = 0 => f[j].anchor \notin used
  BY <1>6, <1>7 DEF K
<1>11. \A i \in 1..k : entries[i].anchor \in used
  BY <1>3 DEF AnchorsOf
<1>12. \A i, j \in 1..k : entries[i].anchor = entries[j].anchor => i = j
  BY <1>3 DEF Distinct
<1>13. ASSUME NEW i \in 1..n, NEW j \in 1..n, f[i].anchor = f[j].anchor PROVE i = j
  <2>1. CASE m[i] = 0 /\ m[j] = 0
    BY <1>6, <1>7, <1>13, <2>1 DEF K
  <2>2. CASE m[i] # 0 /\ m[j] # 0
    BY <1>1, <1>4, <1>9, <1>12, <1>13, <2>2
  <2>3. CASE (m[i] = 0) # (m[j] = 0)
    BY <1>4, <1>9, <1>10, <1>11, <1>13, <2>3
  <2> QED
    BY <2>1, <2>2, <2>3
<1>14. Distinct(f)
  BY <1>8, <1>13 DEF Distinct
<1>15. ASSUME NEW j \in 1..n, NEW i \in (1..k) \ {m[l] : l \in 1..n} PROVE f[j].anchor # entries[i].anchor
  <2>1. m[j] # i
    OBVIOUS
  <2> QED
    BY <1>4, <1>9, <1>10, <1>11, <1>12, <2>1
<1>16. AnchorsOf(f) \cap o.tombstoned = {}
  BY <1>1, <1>8, <1>15 DEF AnchorsOf
<1> QED
  BY <1>1, <1>14, <1>16 DEF f

\* Lines that hash as before keep their anchors, each its own.
LEMMA ReconcileSame ==
  ASSUME NEW entries \in Seq(Entry), NEW lines \in Seq(Texts), NEW used \in SUBSET Nat, IsFiniteSet(used),
         NEW o \in Reconcile(entries, lines, used, {}), Hashes(entries) = HashLines(lines)
  PROVE  /\ Len(o.entries) = Len(entries)
         /\ \A i \in 1..Len(entries) : o.entries[i].anchor = entries[i].anchor
<1> DEFINE n == Len(lines)
           k == Len(entries)
<1>1. PICK m \in [1..n -> 0..k] :
        /\ o.entries = Fill(HashLines(lines), Kept(entries, n, m), used)
        /\ \A i, j \in 1..n : m[i] # 0 /\ m[i] = m[j] => i = j
        /\ m = [j \in 1..n |-> j]
  BY ReconcileMatches
<1>2. n \in Nat /\ HashLines(lines) \in [1..n -> Hash]
  BY HashTyped
<1>3. k \in Nat /\ DOMAIN entries = 1..k /\ \A i \in 1..k : entries[i] \in Entry
  OBVIOUS
<1>4. 1..n = 1..k
  BY <1>2, <1>3 DEF Hashes
<1>5. n = k
  BY <1>2, <1>3, <1>4
<1> HIDE DEF n, k
<1>6. Kept(entries, n, m) = [j \in 1..n |-> entries[j]]
  BY <1>1, <1>2 DEF Kept
<1>7. Kept(entries, n, m) \in [1..n -> Entry \cup {NoEntry}]
  BY <1>3, <1>5, <1>6
<1> DEFINE f == Fill(HashLines(lines), Kept(entries, n, m), used)
<1>8. /\ f \in [1..n -> Entry]
      /\ \A j \in 1..n : /\ f[j].hash = HashLines(lines)[j]
                         /\ Kept(entries, n, m)[j] # NoEntry => f[j].anchor = Kept(entries, n, m)[j].anchor
                         /\ Kept(entries, n, m)[j] = NoEntry => f[j].anchor \in Nat \ used
  <2>1. Filled(Fill(HashLines(lines), Kept(entries, n, m), used), n, HashLines(lines), Kept(entries, n, m), used)
    BY <1>2, <1>7, FillFills
  <2> QED
    BY <2>1 DEF Filled
<1> HIDE DEF f
<1>9. Len(f) = n
  BY <1>2, <1>8
<1>10. \A j \in 1..n : f[j].anchor = entries[j].anchor
  BY <1>3, <1>5, <1>6, <1>8, NoEntryIsNone
<1> QED
  BY <1>1, <1>5, <1>9, <1>10 DEF f, k

\* A spliced file: its length, and where its lines come from.
Spliced(r, T, s, from, to, new) ==
  /\ r \in Seq(T) /\ Len(r) = Len(s) - (to - from + 1) + Len(new)
  /\ \A j \in 1..Len(r) :
       r[j] = IF j < from THEN s[j] ELSE IF j < from + Len(new) THEN new[j - from + 1]
              ELSE s[j - Len(new) + (to - from + 1)]

LEMMA SpliceLength ==
  ASSUME NEW T, NEW s \in Seq(T), NEW new \in Seq(T), NEW from \in Nat \ {0}, NEW to \in Nat,
         from <= to + 1, to <= Len(s)
  PROVE  Spliced(Splice(s, from, to, new), T, s, from, to, new)
<1> DEFINE a == SubSeq(s, 1, from - 1)
           b == SubSeq(s, to + 1, Len(s))
<1>1. Len(s) \in Nat /\ Len(new) \in Nat /\ from - 1 \in Nat /\ from - 1 <= Len(s)
  OBVIOUS
<1>2. a \in Seq(T) /\ Len(a) = from - 1 /\ \A j \in 1..(from - 1) : a[j] = s[j]
  BY <1>1
<1>3. b \in Seq(T) /\ Len(b) = Len(s) - to /\ \A j \in 1..(Len(s) - to) : b[j] = s[to + j]
  BY <1>1
<1>4. Splice(s, from, to, new) = (a \o new) \o b
  BY DEF Splice
<1> HIDE DEF a, b
<1>5. /\ a \o new \in Seq(T) /\ Len(a \o new) = from - 1 + Len(new)
      /\ \A j \in 1..(from - 1 + Len(new)) : (a \o new)[j] = IF j < from THEN a[j] ELSE new[j - from + 1]
  BY <1>1, <1>2
<1> DEFINE c == a \o new
<1> HIDE DEF c
<1>6. /\ c \o b \in Seq(T) /\ Len(c \o b) = (from - 1 + Len(new)) + (Len(s) - to)
      /\ \A j \in 1..Len(c \o b) : (c \o b)[j] = IF j <= from - 1 + Len(new) THEN c[j]
                                                ELSE b[j - (from - 1 + Len(new))]
  <2>1. c \in Seq(T) /\ Len(c) = from - 1 + Len(new)
    BY <1>5 DEF c
  <2>2. c \in Seq(T) /\ b \in Seq(T)
    BY <1>3, <2>1
  <2>3. /\ c \o b \in Seq(T) /\ Len(c \o b) = Len(c) + Len(b)
        /\ \A j \in 1..(Len(c) + Len(b)) : (c \o b)[j] = IF j <= Len(c) THEN c[j] ELSE b[j - Len(c)]
    BY <2>2, ConcatProperties, Zenon
  <2>4. Len(c) \in Nat /\ Len(b) \in Nat
    BY <2>2
  <2> HIDE DEF c
  <2> QED
    BY <1>3, <2>1, <2>3, <2>4
<1>7. Len(c \o b) = Len(s) - (to - from + 1) + Len(new)
  BY <1>1, <1>6
<1>8. ASSUME NEW j \in 1..Len(c \o b)
      PROVE  (c \o b)[j] = IF j < from THEN s[j] ELSE IF j < from + Len(new) THEN new[j - from + 1]
                           ELSE s[j - Len(new) + (to - from + 1)]
  <2>1. j \in Nat /\ j > 0 /\ j <= (from - 1 + Len(new)) + (Len(s) - to)
    BY <1>1, <1>6
  <2>2. CASE j < from
    <3>1. j \in 1..(from - 1) /\ j \in 1..(from - 1 + Len(new)) /\ j <= from - 1 + Len(new)
      BY <1>1, <2>1, <2>2
    <3> QED
      BY <1>2, <1>5, <1>6, <2>2, <3>1 DEF c
  <2>3. CASE ~ (j < from) /\ j < from + Len(new)
    <3>1. j \in 1..(from - 1 + Len(new)) /\ j <= from - 1 + Len(new)
      BY <1>1, <2>1, <2>3
    <3> QED
      BY <1>5, <1>6, <2>3, <3>1 DEF c
  <2>4. CASE ~ (j < from) /\ ~ (j < from + Len(new))
    <3> DEFINE q == j - (from - 1 + Len(new))
    <3>1. q \in 1..(Len(s) - to) /\ ~ (j <= from - 1 + Len(new))
          /\ to + q = j - Len(new) + (to - from + 1)
      BY <1>1, <2>1, <2>4
    <3> HIDE DEF q
    <3>2. (c \o b)[j] = b[q] /\ b[q] = s[to + q]
      BY <1>3, <1>6, <3>1 DEF q
    <3> QED
      BY <2>4, <3>1, <3>2
  <2> QED
    BY <2>2, <2>3, <2>4
<1> QED
  BY <1>4, <1>6, <1>7, <1>8 DEF c, Spliced

\* Origins of a line edit: of what is before and behind it, nothing of what it replaces.
Leads(o, n, from, to, count) ==
  /\ o \in [1..(n - (to - from + 1) + count) -> 0..n]
  /\ \A j \in DOMAIN o : o[j] = IF j < from THEN j ELSE IF j < from + count THEN 0
                                ELSE j - count + (to - from + 1)

LEMMA OriginsLead ==
  ASSUME NEW n \in Nat, NEW from \in Nat \ {0}, NEW to \in Nat, NEW count \in Nat, from <= to + 1, to <= n
  PROVE  Leads(Origins(n, from, to, count), n, from, to, count)
<1> DEFINE s == [i \in 1..n |-> i]
           new == [k \in 1..count |-> 0]
           len == n - (to - from + 1) + count
           o == Origins(n, from, to, count)
<1>1. s \in Seq(0..n) /\ Len(s) = n /\ new \in Seq(0..n) /\ Len(new) = count
  OBVIOUS
<1>2. (\A i \in 1..n : s[i] = i) /\ (\A k \in 1..count : new[k] = 0)
  OBVIOUS
<1>3. o = Splice(s, from, to, new)
  BY DEF Origins
<1> HIDE DEF s, new, o
<1>4. /\ o \in Seq(0..n) /\ Len(o) = len
      /\ \A j \in 1..Len(o) : o[j] = IF j < from THEN s[j] ELSE IF j < from + count THEN new[j - from + 1]
                                     ELSE s[j - count + (to - from + 1)]
  <2>1. Spliced(Splice(s, from, to, new), 0..n, s, from, to, new)
    BY <1>1, SpliceLength
  <2> QED
    BY <1>1, <1>3, <2>1 DEF Spliced
<1>5. DOMAIN o = 1..len /\ o \in [1..len -> 0..n]
  BY <1>4
<1>6. ASSUME NEW j \in 1..len
      PROVE  o[j] = IF j < from THEN j ELSE IF j < from + count THEN 0 ELSE j - count + (to - from + 1)
  <2>1. j < from => j \in 1..n
    OBVIOUS
  <2>2. ~ (j < from) /\ j < from + count => j - from + 1 \in 1..count
    OBVIOUS
  <2>3. ~ (j < from) /\ ~ (j < from + count) => j - count + (to - from + 1) \in 1..n
    OBVIOUS
  <2> QED
    BY <1>2, <1>4, <2>1, <2>2, <2>3
<1> QED
  BY <1>5, <1>6 DEF o, Leads
-----------------------------------------------------------------------------
File == [lines : Seq(Texts), stamp : Nat]
Row == [entries : Seq(Entry), stamp : Nat]
Cache == [read : BOOLEAN, entries : Seq(Entry), lines : Seq(Texts)]
NoCall == [pc : {"idle", "panicked"}]
ReadCall ==
  [pc : {"stat", "open"}, tool : {"file_read", "readRaw"}, path : Paths, ranges : Ranges, stamp : Nat,
   lines : Seq(Texts)]
EditCall ==
  [pc : {"written", "back", "post"}, path : Paths, kind : {"new", "overwrite", "replaceAll", "lines"},
   from : Nat \ {0}, to : Nat, draft : Seq(Texts), stamp : Nat, post : Seq(Texts)]
Request ==
  [tool : {"file_read", "readRaw", "search"}, path : Paths \cup {""}, ranges : Ranges, stamp : Nat]

EditTypes ==
  /\ disk \in [Paths -> File] /\ clock \in Nat
  /\ store \in [Paths -> Row] /\ open \in [Paths -> Cache]
  /\ tombs \in [Paths -> SUBSET Nat] /\ \A p \in Paths : IsFiniteSet(tombs[p])
  /\ gone \in [Paths -> SUBSET Nat] /\ torn \subseteq Paths
  /\ loops \subseteq [key : Request, seen : Seq(Texts)]
  /\ call \in NoCall \cup ReadCall \cup EditCall

\* The run of a line edit lies in the lines, and in the entries, that it was found in.
LinesFit(c) ==
  c.kind = "lines" =>
    /\ c.from <= c.to + 1 /\ c.to <= Len(open[c.path].lines) /\ c.to <= Len(open[c.path].entries)
    /\ Len(open[c.path].lines) - (c.to - c.from + 1) <= Len(c.draft)

\* The pool of a file leaves out its own anchors and the tombstones, which are finitely many.
LEMMA UsedFinite ==
  ASSUME EditTypes, NEW p \in Paths
  PROVE  /\ UsedAnchors(p) \in SUBSET Nat /\ IsFiniteSet(UsedAnchors(p))
         /\ AnchorsOf(store[p].entries) \subseteq UsedAnchors(p)
         /\ tombs[p] \subseteq UsedAnchors(p)
<1>1. store[p].entries \in Seq(Entry) /\ tombs[p] \in SUBSET Nat /\ IsFiniteSet(tombs[p])
  BY DEF EditTypes, Row
<1> QED
  BY <1>1, AnchorsFinite, FS_Union DEF UsedAnchors

\* An outcome is of its lines, or is what was stored under the same stamp.
OutcomeTyped(o) ==
  /\ o.entries \in Seq(Entry) /\ o.tombstoned \in SUBSET Nat /\ IsFiniteSet(o.tombstoned)

\* An outcome for p with distinct anchors, none let go: stored ones, or such as no line of p has.
OutcomeFresh(o, p) ==
  /\ Distinct(o.entries) /\ AnchorsOf(o.entries) \cap o.tombstoned = {}
  /\ AnchorsOf(o.entries) \subseteq AnchorsOf(store[p].entries) \cup (Nat \ UsedAnchors(p))

\* Reconciling entries of p with lines has such an outcome.
LEMMA ReconcileOutcome ==
  ASSUME EditTypes, NEW p \in Paths, NEW entries \in Seq(Entry), NEW lines \in Seq(Texts), NEW deleted,
         NEW o \in Reconcile(entries, lines, UsedAnchors(p), deleted)
  PROVE  /\ OutcomeTyped(o) /\ Hashes(o.entries) = HashLines(lines)
         /\ Distinct(entries) /\ AnchorsOf(entries) \subseteq AnchorsOf(store[p].entries) => OutcomeFresh(o, p)
<1>1. /\ UsedAnchors(p) \in SUBSET Nat /\ IsFiniteSet(UsedAnchors(p))
      /\ AnchorsOf(store[p].entries) \subseteq UsedAnchors(p)
  BY UsedFinite
<1>2. /\ o.entries \in Seq(Entry) /\ Hashes(o.entries) = HashLines(lines)
      /\ o.tombstoned \subseteq AnchorsOf(entries)
      /\ AnchorsOf(o.entries) \subseteq AnchorsOf(entries) \cup (Nat \ UsedAnchors(p))
  BY <1>1, ReconcileTyped
<1>3. AnchorsOf(entries) \in SUBSET Nat /\ IsFiniteSet(AnchorsOf(entries))
  BY AnchorsFinite
<1>4. OutcomeTyped(o)
  <2>1. o.tombstoned \in SUBSET AnchorsOf(entries)
    BY <1>2
  <2>2. IsFiniteSet(o.tombstoned)
    BY <1>3, <2>1, FS_Subset
  <2> QED
    BY <1>2, <1>3, <2>1, <2>2 DEF OutcomeTyped
<1>5. ASSUME Distinct(entries), AnchorsOf(entries) \subseteq AnchorsOf(store[p].entries)
      PROVE  OutcomeFresh(o, p)
  <2>1. AnchorsOf(entries) \subseteq UsedAnchors(p)
    BY <1>1, <1>5
  <2>2. Distinct(o.entries) /\ AnchorsOf(o.entries) \cap o.tombstoned = {}
    BY <1>1, <1>5, <2>1, ReconcileDistinct
  <2> QED
    BY <1>2, <1>5, <2>2 DEF OutcomeFresh
<1> QED
  BY <1>2, <1>4, <1>5

\* What an opened file's entries are (EditEngine::open).
LEMMA OpenedOutcome ==
  ASSUME EditTypes, NEW p \in Paths, NEW lines \in Seq(Texts), NEW stamp \in Nat,
         NEW o \in Opened(p, lines, stamp)
  PROVE  /\ OutcomeTyped(o)
         /\ \/ Hashes(o.entries) = HashLines(lines)
            \/ o.entries = store[p].entries /\ store[p].stamp = stamp
         /\ Distinct(store[p].entries) => OutcomeFresh(o, p)
<1>1. store[p].entries \in Seq(Entry)
  BY DEF EditTypes, Row
<1>2. /\ UsedAnchors(p) \in SUBSET Nat /\ IsFiniteSet(UsedAnchors(p))
  BY UsedFinite
<1>3. IsFiniteSet({}) /\ {} \in SUBSET Nat
  BY FS_EmptySet
<1>4. CASE store[p] = Unknown
  <2> DEFINE n == Len(lines)
             kept == [j \in 1..n |-> NoEntry]
             f == Fill(HashLines(lines), kept, UsedAnchors(p))
  <2>1. n \in Nat /\ HashLines(lines) \in [1..n -> Hash] /\ DOMAIN lines = 1..n
    BY HashTyped
  <2>2. o = [entries |-> f, tombstoned |-> {}]
    BY <1>4, <2>1 DEF Opened, MintAll
  <2> HIDE DEF n
  <2>3. kept \in [1..n -> Entry \cup {NoEntry}] /\ \A j \in 1..n : kept[j] = NoEntry
    OBVIOUS
  <2> HIDE DEF kept
  <2>4. Filled(f, n, HashLines(lines), kept, UsedAnchors(p))
    BY <1>2, <2>1, <2>3, FillFills
  <2> HIDE DEF f
  <2>5. f \in Seq(Entry) /\ DOMAIN f = 1..n /\ Hashes(f) = HashLines(lines)
    BY <2>1, <2>4 DEF Filled, Hashes
  <2>6. Distinct(f) /\ AnchorsOf(f) \subseteq Nat \ UsedAnchors(p)
    BY <2>3, <2>4, <2>5 DEF Filled, Distinct, AnchorsOf
  <2> QED
    BY <1>3, <2>2, <2>5, <2>6 DEF OutcomeTyped, OutcomeFresh
<1>5. CASE store[p] # Unknown /\ (store[p].stamp = stamp \/ Hashes(store[p].entries) = HashLines(lines))
  <2>1. o = [entries |-> store[p].entries, tombstoned |-> {}]
    BY <1>5 DEF Opened
  <2> QED
    BY <1>1, <1>3, <1>5, <2>1 DEF OutcomeTyped, OutcomeFresh
<1>6. CASE store[p] # Unknown /\ ~ (store[p].stamp = stamp \/ Hashes(store[p].entries) = HashLines(lines))
  <2>1. o \in Reconcile(store[p].entries, lines, UsedAnchors(p), {})
    BY <1>6 DEF Opened
  <2> QED
    BY <1>1, <2>1, ReconcileOutcome
<1> QED
  BY <1>4, <1>5, <1>6

\* The entries of a draft: those of the lines an edit leaves alone, and fresh ones.
DraftKept(c) ==
  [j \in DOMAIN DraftOrigins(c) |->
     IF DraftOrigins(c)[j] = 0 THEN NoEntry ELSE open[c.path].entries[DraftOrigins(c)[j]]]
Draft(c) == Fill(HashLines(c.draft), DraftKept(c), UsedAnchors(c.path))

\* The entries of the draft of a line edit: one for each line; those of the lines around the
\* edit have their old anchors, at their old distance from the ends, the others fresh ones.
Drafted(c) ==
  /\ Draft(c) \in Seq(Entry) /\ Len(Draft(c)) = Len(c.draft) /\ Hashes(Draft(c)) = HashLines(c.draft)
  /\ DOMAIN Draft(c) = 1..Len(c.draft) /\ DOMAIN DraftOrigins(c) = 1..Len(c.draft)
  /\ \A j \in 1..Len(c.draft) : DraftOrigins(c)[j] # 0 =>
       /\ DraftOrigins(c)[j] \in 1..Len(open[c.path].entries)
       /\ DraftOrigins(c)[j] \in 1..Len(open[c.path].lines)
       /\ DraftOrigins(c)[j] \notin c.from..c.to
       /\ Draft(c)[j].anchor = open[c.path].entries[DraftOrigins(c)[j]].anchor
  /\ \A i, j \in 1..Len(c.draft) :
       DraftOrigins(c)[i] # 0 /\ DraftOrigins(c)[i] = DraftOrigins(c)[j] => i = j
  /\ \A j \in 1..Len(c.draft) : DraftOrigins(c)[j] = 0 => Draft(c)[j].anchor \in Nat \ UsedAnchors(c.path)
  /\ \A i, j \in 1..Len(c.draft) :
       DraftOrigins(c)[i] = 0 /\ DraftOrigins(c)[j] = 0 /\ Draft(c)[i].anchor = Draft(c)[j].anchor => i = j
  /\ \A j \in 1..(c.from - 1) : j \in 1..Len(c.draft) /\ DraftOrigins(c)[j] = j
  /\ \A i \in (c.to + 1)..Len(open[c.path].lines) :
       /\ i + (Len(c.draft) - Len(open[c.path].lines)) \in 1..Len(c.draft)
       /\ DraftOrigins(c)[i + (Len(c.draft) - Len(open[c.path].lines))] = i

LEMMA DraftEntries ==
  ASSUME EditTypes, NEW c \in EditCall, c.kind = "lines", LinesFit(c), ~CarriedPastEnd(c)
  PROVE  Drafted(c)
<1> DEFINE n == Len(open[c.path].lines)
           k == Len(open[c.path].entries)
           len == Len(c.draft)
           from == c.from
           to == c.to
           count == len - (n - (to - from + 1))
           o == DraftOrigins(c)
           used == UsedAnchors(c.path)
<1>1. /\ c.path \in Paths /\ from \in Nat \ {0} /\ to \in Nat /\ c.draft \in Seq(Texts)
      /\ open[c.path].lines \in Seq(Texts) /\ open[c.path].entries \in Seq(Entry)
  BY DEF EditTypes, EditCall, Cache
<1>2. n \in Nat /\ k \in Nat /\ len \in Nat
  BY <1>1
<1>3. from <= to + 1 /\ to <= n /\ to <= k /\ n - (to - from + 1) <= len
  BY DEF LinesFit
<1>4. o = Origins(n, from, to, count)
  BY DEF DraftOrigins
<1> HIDE DEF n, k, len, o, from, to
<1>5. count \in Nat /\ n - (to - from + 1) + count = len
  BY <1>1, <1>2, <1>3
<1> HIDE DEF count
<1>6. /\ o \in [1..len -> 0..n]
      /\ \A j \in 1..len : o[j] = IF j < from THEN j ELSE IF j < from + count THEN 0
                                  ELSE j - count + (to - from + 1)
  <2>1. Leads(Origins(n, from, to, count), n, from, to, count)
    BY <1>1, <1>2, <1>3, <1>5, OriginsLead
  <2> QED
    BY <1>4, <1>5, <2>1 DEF Leads
<1>7. DOMAIN o = 1..len
  BY <1>6
<1>8. \A j \in 1..len : o[j] <= k
  <2>1. \A j \in DOMAIN o : ~ (o[j] > k)
    BY DEF CarriedPastEnd, k, o
  <2>2. \A j \in 1..len : o[j] \in Nat
    BY <1>6
  <2> QED
    BY <1>2, <1>7, <2>1, <2>2
<1>9. \A j \in 1..len : o[j] # 0 => o[j] \in 1..k /\ o[j] \in 1..n
  BY <1>2, <1>6, <1>8
<1>10. \A j \in 1..len : o[j] # 0 => o[j] \notin from..to
  <2> SUFFICES ASSUME NEW j \in 1..len, o[j] # 0 PROVE o[j] \notin from..to
    OBVIOUS
  <2>1. CASE j < from
    BY <1>1, <1>2, <1>6, <2>1
  <2>2. CASE ~ (j < from)
    <3>1. ~ (j < from + count) /\ o[j] = j - count + (to - from + 1)
      BY <1>6, <2>2
    <3> QED
      BY <1>1, <1>2, <1>5, <3>1
  <2> QED
    BY <2>1, <2>2
<1>11. \A i, j \in 1..len : o[i] # 0 /\ o[i] = o[j] => i = j
  <2> SUFFICES ASSUME NEW i \in 1..len, NEW j \in 1..len, o[i] # 0, o[i] = o[j], i < j PROVE FALSE
    <3>1. \A i, j \in 1..len : ~ (i < j) /\ ~ (j < i) => i = j
      BY <1>2
    <3>2. \A i, j \in 1..len : o[i] # 0 /\ o[i] = o[j] => ~ (i < j) /\ ~ (j < i)
      OBVIOUS
    <3> QED
      BY <3>1, <3>2
  <2>1. i \in Nat /\ j \in Nat /\ from \in Nat /\ to \in Nat /\ count \in Nat
    BY <1>1, <1>2, <1>5
  <2>2. CASE j < from
    <3>1. o[i] = i /\ o[j] = j
      BY <1>6, <2>1, <2>2
    <3>2. i = j
      BY <3>1
    <3> QED
      BY <2>1, <3>2
  <2>3. CASE ~ (i < from)
    <3>1. ~ (i < from + count) /\ ~ (j < from + count) /\ ~ (j < from)
      BY <1>6, <2>1, <2>3
    <3>2. o[i] = i - count + (to - from + 1) /\ o[j] = j - count + (to - from + 1)
      BY <1>6, <2>3, <3>1
    <3>3. i - count + (to - from + 1) = j - count + (to - from + 1)
      BY <3>2
    <3> QED
      BY <2>1, <3>3
  <2>4. CASE i < from /\ ~ (j < from)
    <3>1. o[i] = i
      BY <1>6, <2>4
    <3>2. ~ (j < from + count)
      BY <1>6, <2>4
    <3>3. o[j] = j - count + (to - from + 1)
      BY <1>6, <2>4, <3>2
    <3>4. i = j - count + (to - from + 1)
      BY <3>1, <3>3
    <3> QED
      BY <1>3, <2>1, <2>4, <3>2, <3>4
  <2> QED
    BY <2>1, <2>2, <2>3, <2>4
<1>12. DraftKept(c) = [j \in 1..len |-> IF o[j] = 0 THEN NoEntry ELSE open[c.path].entries[o[j]]]
  BY <1>7 DEF DraftKept, o
<1>13. \A i \in 1..k : open[c.path].entries[i] \in Entry
  BY <1>1 DEF k
<1>14. DraftKept(c) \in [1..len -> Entry \cup {NoEntry}]
  BY <1>9, <1>12, <1>13
<1>15. \A j \in 1..len : /\ o[j] = 0 => DraftKept(c)[j] = NoEntry
                         /\ o[j] # 0 => /\ DraftKept(c)[j] # NoEntry
                                        /\ DraftKept(c)[j] = open[c.path].entries[o[j]]
  BY <1>9, <1>12, <1>13, NoEntryIsNone
<1>16. used \in SUBSET Nat /\ IsFiniteSet(used)
  BY <1>1, UsedFinite
<1>17. HashLines(c.draft) \in [1..len -> Hash]
  BY <1>1, HashTyped DEF len
<1> HIDE DEF used
<1>18. Filled(Draft(c), len, HashLines(c.draft), DraftKept(c), used)
  BY <1>2, <1>14, <1>16, <1>17, FillFills DEF Draft, used
<1>19. Draft(c) \in Seq(Entry) /\ Len(Draft(c)) = len /\ DOMAIN Draft(c) = 1..len
  BY <1>2, <1>18 DEF Filled
<1>20. Hashes(Draft(c)) = HashLines(c.draft)
  BY <1>17, <1>18, <1>19 DEF Filled, Hashes
<1>21. \A j \in 1..len : /\ o[j] # 0 => Draft(c)[j].anchor = open[c.path].entries[o[j]].anchor
                         /\ o[j] = 0 => Draft(c)[j].anchor \in Nat \ used
  BY <1>15, <1>18 DEF Filled
<1>22. \A i, j \in 1..len : o[i] = 0 /\ o[j] = 0 /\ Draft(c)[i].anchor = Draft(c)[j].anchor => i = j
  BY <1>15, <1>18 DEF Filled
<1>23. \A j \in 1..(from - 1) : j \in 1..len /\ o[j] = j
  <2> SUFFICES ASSUME NEW j \in 1..(from - 1) PROVE j \in 1..len /\ o[j] = j
    OBVIOUS
  <2>1. j \in 1..len /\ j < from
    BY <1>1, <1>2, <1>3, <1>5
  <2> QED
    BY <1>6, <2>1
<1>24. \A i \in (to + 1)..n : i + (len - n) \in 1..len /\ o[i + (len - n)] = i
  <2> SUFFICES ASSUME NEW i \in (to + 1)..n PROVE i + (len - n) \in 1..len /\ o[i + (len - n)] = i
    OBVIOUS
  <2>1. i \in Nat /\ i > to /\ i <= n /\ from \in Nat /\ from > 0 /\ to \in Nat /\ count \in Nat
    BY <1>1, <1>2, <1>5
  <2>2. len = n - (to - from + 1) + count
    BY <1>5
  <2> DEFINE j == i + (len - n)
  <2>3. j = i - (to - from + 1) + count
    BY <1>2, <2>1, <2>2
  <2>4. j <= len
    BY <1>2, <2>1
  <2> HIDE DEF j
  <2>5. j \in Int /\ j > 0 /\ ~ (j < from) /\ ~ (j < from + count)
    BY <1>3, <2>1, <2>3
  <2>6. j - count + (to - from + 1) = i
    BY <2>1, <2>3, <2>5
  <2>7. j \in 1..len
    BY <1>2, <2>4, <2>5
  <2>8. o[j] = i
    BY <1>6, <2>5, <2>6, <2>7
  <2> QED
    BY <2>7, <2>8 DEF j
<1> QED
  BY <1>7, <1>9, <1>10, <1>11, <1>19, <1>20, <1>21, <1>22, <1>23, <1>24
     DEF n, k, len, o, used, from, to, Drafted

\* The outcomes of a line edit (apply_line_edit); one read back as written has the anchors of
\* its draft.
SameAnchors(new, old) == Len(new) = Len(old) /\ \A i \in 1..Len(old) : new[i].anchor = old[i].anchor

LEMMA LinesOutcome ==
  ASSUME EditTypes, NEW c \in EditCall, c.kind = "lines", LinesFit(c), ~CarriedPastEnd(c),
         NEW o \in LineOutcomes(c)
  PROVE  /\ OutcomeTyped(o) /\ Hashes(o.entries) = HashLines(c.post)
         /\ Distinct(open[c.path].entries)
              /\ AnchorsOf(open[c.path].entries) \subseteq AnchorsOf(store[c.path].entries)
              => OutcomeFresh(o, c.path)
         /\ c.post = c.draft => SameAnchors(o.entries, Draft(c))
<1> DEFINE old == open[c.path].entries
           k == Len(old)
           len == Len(c.draft)
           origins == DraftOrigins(c)
           draft == Draft(c)
           used == UsedAnchors(c.path)
           minted == {draft[j].anchor : j \in {i \in DOMAIN draft : origins[i] = 0}}
           deleted == {old[i].anchor : i \in c.from..c.to}
<1>1. PICK r \in Reconcile(draft, c.post, used \cup minted, {}) :
        o = [r EXCEPT !.tombstoned = @ \cup deleted]
  BY DEF LineOutcomes, Draft, DraftKept
<1>2. PICK e, t : r = [entries |-> e, tombstoned |-> t]
  BY ReconcileShape
<1>3. o.entries = r.entries /\ o.tombstoned = r.tombstoned \cup deleted
  <2> HIDE DEF deleted
  <2> QED
    BY <1>1, <1>2
<1>4. c.path \in Paths /\ c.post \in Seq(Texts) /\ old \in Seq(Entry) /\ c.from \in Nat \ {0} /\ c.to \in Nat
      /\ c.to <= k
  BY DEF EditTypes, EditCall, Cache, LinesFit
<1>5. Drafted(c)
  BY DraftEntries
<1>6. /\ draft \in Seq(Entry) /\ DOMAIN draft = 1..len
      /\ \A j \in 1..len : origins[j] # 0 =>
           origins[j] \in 1..k /\ origins[j] \notin c.from..c.to /\ draft[j].anchor = old[origins[j]].anchor
      /\ \A i, j \in 1..len : origins[i] # 0 /\ origins[i] = origins[j] => i = j
      /\ \A j \in 1..len : origins[j] = 0 => draft[j].anchor \in Nat \ used
      /\ \A i, j \in 1..len : origins[i] = 0 /\ origins[j] = 0 /\ draft[i].anchor = draft[j].anchor => i = j
  <2>1. draft \in Seq(Entry) /\ DOMAIN draft = 1..len
    BY <1>5 DEF Drafted
  <2>2. \A j \in 1..len : origins[j] # 0 =>
          origins[j] \in 1..k /\ origins[j] \notin c.from..c.to /\ draft[j].anchor = old[origins[j]].anchor
    BY <1>5 DEF Drafted
  <2>3. \A i, j \in 1..len : origins[i] # 0 /\ origins[i] = origins[j] => i = j
    BY <1>5 DEF Drafted
  <2>4. \A j \in 1..len : origins[j] = 0 => draft[j].anchor \in Nat \ used
    BY <1>5 DEF Drafted
  <2>5. \A i, j \in 1..len : origins[i] = 0 /\ origins[j] = 0 /\ draft[i].anchor = draft[j].anchor => i = j
    BY <1>5 DEF Drafted
  <2> HIDE DEF draft, origins, len, k, old, used
  <2> QED
    BY <2>1, <2>2, <2>3, <2>4, <2>5
<1>7. /\ used \in SUBSET Nat /\ IsFiniteSet(used) /\ AnchorsOf(store[c.path].entries) \subseteq used
  BY <1>4, UsedFinite
<1>8. AnchorsOf(draft) \in SUBSET Nat /\ IsFiniteSet(AnchorsOf(draft))
  BY <1>6, AnchorsFinite
<1>9. AnchorsOf(old) \in SUBSET Nat /\ IsFiniteSet(AnchorsOf(old)) /\ DOMAIN old = 1..k /\ k \in Nat
  BY <1>4, AnchorsFinite
<1> HIDE DEF old, k, len, origins, draft, used
<1>10. minted \in SUBSET AnchorsOf(draft)
  BY DEF AnchorsOf
<1>11. deleted \in SUBSET AnchorsOf(old)
  <2>1. \A i \in c.from..c.to : i \in DOMAIN old
    BY <1>4, <1>9
  <2> QED
    BY <2>1 DEF AnchorsOf
<1>12. IsFiniteSet(minted) /\ IsFiniteSet(deleted)
  BY <1>8, <1>9, <1>10, <1>11, FS_Subset
<1>13. \A a \in minted : \E j \in 1..len : origins[j] = 0 /\ draft[j].anchor = a
  BY <1>6
<1>14. \A j \in 1..len : origins[j] = 0 => draft[j].anchor \in minted
  BY <1>6
<1>15. \A a \in deleted : \E i \in 1..k : i \in c.from..c.to /\ old[i].anchor = a
  <2>1. \A i \in c.from..c.to : i \in 1..k
    BY <1>4, <1>9
  <2> QED
    BY <2>1
<1> HIDE DEF minted, deleted
<1>16. used \cup minted \in SUBSET Nat /\ IsFiniteSet(used \cup minted)
  BY <1>7, <1>8, <1>10, <1>12, FS_Union
<1>17. /\ r.entries \in Seq(Entry) /\ Hashes(r.entries) = HashLines(c.post)
       /\ r.tombstoned \subseteq AnchorsOf(draft)
       /\ AnchorsOf(r.entries) \subseteq AnchorsOf(draft) \cup (Nat \ (used \cup minted))
  <2> DEFINE all == used \cup minted
  <2>1. all \in SUBSET Nat /\ IsFiniteSet(all) /\ r \in Reconcile(draft, c.post, all, {})
    BY <1>16
  <2>2. draft \in Seq(Entry) /\ c.post \in Seq(Texts)
    BY <1>4, <1>6
  <2> HIDE DEF all
  <2>3. /\ r.entries \in Seq(Entry) /\ Hashes(r.entries) = HashLines(c.post)
        /\ r.tombstoned \subseteq AnchorsOf(draft)
        /\ AnchorsOf(r.entries) \subseteq AnchorsOf(draft) \cup (Nat \ all)
    BY <2>1, <2>2, ReconcileTyped
  <2> QED
    BY <2>3 DEF all
<1>18. OutcomeTyped(o)
  <2>1. r.tombstoned \in SUBSET AnchorsOf(draft)
    BY <1>17
  <2>2. IsFiniteSet(r.tombstoned)
    BY <1>8, <2>1, FS_Subset
  <2>3. IsFiniteSet(r.tombstoned \cup deleted)
    BY <1>12, <2>2, FS_Union
  <2>4. r.tombstoned \cup deleted \in SUBSET Nat
    BY <1>8, <1>9, <1>11, <2>1
  <2> QED
    BY <1>3, <1>17, <2>3, <2>4 DEF OutcomeTyped
<1>19. ASSUME Distinct(old), AnchorsOf(old) \subseteq AnchorsOf(store[c.path].entries)
       PROVE  OutcomeFresh(o, c.path)
  <2>1. \A i \in 1..k : old[i].anchor \in AnchorsOf(store[c.path].entries) /\ old[i].anchor \in used
    BY <1>7, <1>9, <1>19 DEF AnchorsOf
  <2>2. \A i, j \in 1..k : old[i].anchor = old[j].anchor => i = j
    BY <1>9, <1>19 DEF Distinct
  <2>3. ASSUME NEW i \in 1..len, NEW j \in 1..len, draft[i].anchor = draft[j].anchor PROVE i = j
    <3>1. CASE origins[i] = 0 /\ origins[j] = 0
      BY <1>6, <2>3, <3>1
    <3>2. CASE origins[i] # 0 /\ origins[j] # 0
      BY <1>6, <2>2, <2>3, <3>2
    <3>3. CASE (origins[i] = 0) # (origins[j] = 0)
      BY <1>6, <2>1, <2>3, <3>3
    <3> QED
      BY <3>1, <3>2, <3>3
  <2>4. Distinct(draft)
    BY <1>6, <2>3 DEF Distinct
  <2>5. ASSUME NEW j \in 1..len
        PROVE  /\ draft[j].anchor \in used \cup minted
               /\ draft[j].anchor \in AnchorsOf(store[c.path].entries) \cup (Nat \ used)
               /\ draft[j].anchor \notin deleted
    <3>1. CASE origins[j] = 0
      <4>1. draft[j].anchor \in minted /\ draft[j].anchor \in Nat \ used
        BY <1>6, <1>14, <3>1
      <4>2. \A a \in deleted : a \in used
        BY <1>15, <2>1
      <4> QED
        BY <4>1, <4>2
    <3>2. CASE origins[j] # 0
      <4>1. origins[j] \in 1..k /\ origins[j] \notin c.from..c.to /\ draft[j].anchor = old[origins[j]].anchor
        BY <1>6, <3>2
      <4>2. draft[j].anchor \notin deleted
        BY <1>15, <2>2, <4>1
      <4> QED
        BY <2>1, <4>1, <4>2
    <3> QED
      BY <3>1, <3>2
  <2>6. /\ AnchorsOf(draft) \subseteq used \cup minted
        /\ AnchorsOf(draft) \subseteq AnchorsOf(store[c.path].entries) \cup (Nat \ used)
        /\ AnchorsOf(draft) \cap deleted = {}
    BY <1>6, <2>5 DEF AnchorsOf
  <2>7. Distinct(r.entries) /\ AnchorsOf(r.entries) \cap r.tombstoned = {}
    BY <1>4, <1>6, <1>16, <2>4, <2>6, ReconcileDistinct
  <2>8. \A a \in deleted : a \in used
    BY <1>15, <2>1
  <2>9. AnchorsOf(r.entries) \cap deleted = {}
    BY <1>17, <2>6, <2>8
  <2>10. AnchorsOf(r.entries) \subseteq AnchorsOf(store[c.path].entries) \cup (Nat \ used)
    BY <1>17, <2>6
  <2>11. AnchorsOf(r.entries) \cap (r.tombstoned \cup deleted) = {}
    BY <2>7, <2>9
  <2> QED
    BY <1>3, <2>7, <2>10, <2>11 DEF OutcomeFresh, used
<1>20. ASSUME c.post = c.draft PROVE SameAnchors(o.entries, draft)
  <2> DEFINE all == used \cup minted
  <2>1. all \in SUBSET Nat /\ IsFiniteSet(all) /\ r \in Reconcile(draft, c.post, all, {})
    BY <1>16
  <2>2. draft \in Seq(Entry) /\ c.post \in Seq(Texts) /\ Hashes(draft) = HashLines(c.post)
    BY <1>4, <1>5, <1>6, <1>20 DEF Drafted, draft
  <2> HIDE DEF all
  <2>3. Len(r.entries) = Len(draft) /\ \A i \in 1..Len(draft) : r.entries[i].anchor = draft[i].anchor
    BY <2>1, <2>2, ReconcileSame
  <2> QED
    BY <1>3, <2>3 DEF SameAnchors
<1> QED
  BY <1>3, <1>17, <1>18, <1>19, <1>20 DEF old, draft

\* The outcomes of an edit read back, of any kind (EditEngine::edit).
LEMMA EditOutcome ==
  ASSUME EditTypes, NEW c \in EditCall, LinesFit(c), ~CarriedPastEnd(c), NEW o \in Outcomes(c)
  PROVE  /\ OutcomeTyped(o)
         /\ \/ Hashes(o.entries) = HashLines(c.post)
            \/ o.entries = store[c.path].entries /\ store[c.path].stamp = c.stamp
         /\ Distinct(store[c.path].entries) /\ Distinct(open[c.path].entries)
              /\ AnchorsOf(open[c.path].entries) \subseteq AnchorsOf(store[c.path].entries)
              => OutcomeFresh(o, c.path)
<1>1. c.path \in Paths /\ c.post \in Seq(Texts) /\ open[c.path].entries \in Seq(Entry) /\ c.stamp \in Nat
  BY DEF EditTypes, EditCall, Cache
<1>2. c.kind \in {"new", "overwrite", "replaceAll", "lines"}
  BY DEF EditCall
<1>3. CASE c.kind = "new"
  <2>1. o \in Opened(c.path, c.post, c.stamp)
    BY <1>3 DEF Outcomes
  <2> QED
    BY <1>1, <2>1, OpenedOutcome
<1>4. CASE c.kind = "overwrite"
  <2>1. o \in Reconcile(open[c.path].entries, c.post, UsedAnchors(c.path), AnchorsOf(open[c.path].entries))
    BY <1>4 DEF Outcomes
  <2> QED
    BY <1>1, <2>1, ReconcileOutcome
<1>5. CASE c.kind = "replaceAll"
  <2>1. o \in Reconcile(open[c.path].entries, c.post, UsedAnchors(c.path), {})
    BY <1>5 DEF Outcomes
  <2> QED
    BY <1>1, <2>1, ReconcileOutcome
<1>6. CASE c.kind = "lines"
  <2>1. o \in LineOutcomes(c)
    BY <1>6 DEF Outcomes
  <2> QED
    BY <1>6, <2>1, LinesOutcome
<1> QED
  BY <1>2, <1>3, <1>4, <1>5, <1>6

-----------------------------------------------------------------------------
(***************************************************************************)
(* The invariant.  Stamps: what is known of a path under a stamp that is   *)
(* not in the future is so, if the file has that stamp.  Anchors: what was *)
(* let go since the last commit is in the tombstones, the anchors of the   *)
(* cached entries are among the stored ones, and those are distinct and    *)
(* not among the ones let go.                                              *)
(***************************************************************************)
TrueHashes(p, t, hashes) == t <= clock /\ (disk[p] # Missing /\ disk[p].stamp = t => hashes = HashLines(disk[p].lines))
TrueLines(p, t, lines) == t <= clock /\ (disk[p] # Missing /\ disk[p].stamp = t => lines = disk[p].lines)

Stamped == \A p \in Paths : disk[p].stamp <= clock /\ (disk[p] # Missing => disk[p].stamp > 0)
StoreTrue == \A p \in Paths : TrueHashes(p, store[p].stamp, Hashes(store[p].entries))
LoopsTrue == \A l \in loops : l.key.path \in Paths => TrueLines(l.key.path, l.key.stamp, l.seen)
ReadTrue(c) == c.stamp <= clock /\ (c.pc = "open" => TrueLines(c.path, c.stamp, c.lines))
EditTrue(c) == c.stamp <= clock /\ (c.pc = "post" => TrueLines(c.path, c.stamp, c.post)) /\ LinesFit(c)
CallTrue == (call \in ReadCall => ReadTrue(call)) /\ (call \in EditCall => EditTrue(call))

AnchorsFine(p) ==
  /\ Distinct(store[p].entries) /\ Distinct(open[p].entries)
  /\ AnchorsOf(open[p].entries) \subseteq AnchorsOf(store[p].entries)
  /\ gone[p] \subseteq tombs[p] /\ AnchorsOf(store[p].entries) \cap gone[p] = {}
AnchorsHold == call.pc # "panicked" => \A p \in Paths \ torn : AnchorsFine(p)

EditInv == EditTypes /\ Stamped /\ StoreTrue /\ LoopsTrue /\ CallTrue /\ AnchorsHold

\* A call that runs is a read or an edit, as its next step tells.
LEMMA CallKinds ==
  ASSUME EditTypes
  PROVE  /\ call.pc \in {"stat", "open"} => call \in ReadCall
         /\ call.pc \in {"written", "back", "post"} => call \in EditCall
BY DEF EditTypes, NoCall, ReadCall, EditCall

LEMMA NoCallRuns ==
  /\ Idle \in NoCall /\ Panicked \in NoCall /\ Idle.pc = "idle" /\ Panicked.pc = "panicked"
  /\ \A c \in NoCall : c \notin ReadCall /\ c \notin EditCall
  /\ \A c \in ReadCall : c \notin EditCall
BY DEF Idle, Panicked, NoCall, ReadCall, EditCall

LEMMA InitHolds == Init => EditInv
<1> SUFFICES ASSUME Init PROVE EditInv
  OBVIOUS
<1>0. EditInit
  BY DEF Init
<1>1. << >> \in Seq(Texts) /\ << >> \in Seq(Entry) /\ DOMAIN << >> = {}
  OBVIOUS
<1>2. Missing \in File /\ Missing.stamp = 0 /\ \A f \in Files : [lines |-> f, stamp |-> 1] \in File
  BY <1>1, EditAssumption DEF Missing, File
<1>3. Unknown \in Row /\ Unknown.stamp = 0 /\ Unknown.entries = << >>
  BY <1>1 DEF Unknown, Row
<1>4. Unread \in Cache /\ Unread.entries = << >>
  BY <1>1 DEF Unread, Cache
<1>5. \A p \in Paths : /\ disk[p] \in File /\ disk[p].stamp <= 1
                       /\ disk[p] # Missing => disk[p].stamp > 0
  BY <1>0, <1>2 DEF EditInit
<1>6. call = Idle /\ call \in NoCall /\ call \notin ReadCall /\ call \notin EditCall
  BY <1>0, NoCallRuns DEF EditInit
<1>7. IsFiniteSet({}) /\ {} \in SUBSET Nat
  BY FS_EmptySet
<1>8. EditTypes
  <2>1. disk \in [Paths -> File] /\ clock \in Nat
    BY <1>0, <1>2 DEF EditInit
  <2>2. store \in [Paths -> Row] /\ open \in [Paths -> Cache]
    BY <1>0, <1>3, <1>4 DEF EditInit
  <2>3. tombs \in [Paths -> SUBSET Nat] /\ \A p \in Paths : IsFiniteSet(tombs[p])
    BY <1>0, <1>7 DEF EditInit
  <2>4. gone \in [Paths -> SUBSET Nat] /\ torn \subseteq Paths /\ loops = {}
    BY <1>0, <1>7 DEF EditInit
  <2> QED
    BY <1>6, <2>1, <2>2, <2>3, <2>4 DEF EditTypes
<1>9. Stamped
  BY <1>0, <1>5 DEF EditInit, Stamped
<1>10. StoreTrue
  <2> SUFFICES ASSUME NEW p \in Paths PROVE TrueHashes(p, store[p].stamp, Hashes(store[p].entries))
    BY DEF StoreTrue
  <2>1. store[p].stamp = 0
    BY <1>0, <1>3 DEF EditInit
  <2>2. disk[p] # Missing => disk[p].stamp # 0
    BY <1>5
  <2> QED
    BY <1>0, <2>1, <2>2 DEF EditInit, TrueHashes
<1>11. LoopsTrue /\ CallTrue
  BY <1>0, <1>6 DEF EditInit, LoopsTrue, CallTrue
<1>12. AnchorsHold
  <2> SUFFICES ASSUME NEW p \in Paths PROVE AnchorsFine(p)
    BY DEF AnchorsHold
  <2>1. store[p].entries = << >> /\ open[p].entries = << >> /\ gone[p] = {} /\ tombs[p] = {}
    BY <1>0, <1>3, <1>4 DEF EditInit
  <2>2. AnchorsOf(<< >>) = {} /\ Distinct(<< >>)
    BY <1>1 DEF AnchorsOf, Distinct
  <2> QED
    BY <2>1, <2>2 DEF AnchorsFine
<1> QED
  BY <1>8, <1>9, <1>10, <1>11, <1>12 DEF EditInv

\* Time passes: a file changes only to a stamp nothing is known under, or goes away.
Aged ==
  /\ disk' \in [Paths -> File] /\ clock' \in Nat /\ clock <= clock'
  /\ \A p \in Paths : /\ disk'[p].stamp <= clock' /\ (disk'[p] # Missing => disk'[p].stamp > 0)
                      /\ disk'[p] = disk[p] \/ disk'[p] = Missing \/ disk'[p].stamp > clock

LEMMA WritingAges ==
  ASSUME EditTypes, Stamped, NEW p \in Paths, NEW lines \in Seq(Texts), Written(p, lines)
  PROVE  Aged
<1>1. disk \in [Paths -> File] /\ clock \in Nat
  BY DEF EditTypes
<1> DEFINE new == [lines |-> lines, stamp |-> clock + 1]
<1>2. new \in File /\ new.stamp = clock + 1
  BY <1>1 DEF File
<1>3. clock' = clock + 1 /\ disk' = [disk EXCEPT ![p] = new]
  BY DEF Written
<1> HIDE DEF new
<1>4. disk' \in [Paths -> File]
  BY <1>1, <1>2, <1>3
<1>5. ASSUME NEW q \in Paths
      PROVE  /\ disk'[q].stamp <= clock' /\ (disk'[q] # Missing => disk'[q].stamp > 0)
             /\ disk'[q] = disk[q] \/ disk'[q] = Missing \/ disk'[q].stamp > clock
  <2>1. CASE q = p
    <3>1. disk'[q] = new
      BY <1>1, <1>3, <2>1
    <3> QED
      BY <1>1, <1>2, <1>3, <3>1
  <2>2. CASE q # p
    <3>1. disk'[q] = disk[q] /\ disk[q].stamp \in Nat
      BY <1>1, <1>3, <2>2 DEF File
    <3> QED
      BY <1>1, <1>3, <3>1 DEF Stamped
  <2> QED
    BY <2>1, <2>2
<1> QED
  BY <1>1, <1>3, <1>4, <1>5 DEF Aged

LEMMA RemovingAges ==
  ASSUME EditTypes, Stamped, NEW p \in Paths, disk' = [disk EXCEPT ![p] = Missing], clock' = clock
  PROVE  Aged
<1>1. disk \in [Paths -> File] /\ clock \in Nat
  BY DEF EditTypes
<1>2. Missing \in File /\ Missing.stamp = 0
  BY DEF Missing, File
<1> HIDE DEF Missing
<1>3. disk' \in [Paths -> File]
  BY <1>1, <1>2
<1>4. \A q \in Paths : disk'[q] = disk[q] \/ disk'[q] = Missing
  BY <1>1
<1> QED
  BY <1>1, <1>2, <1>3, <1>4 DEF Aged, Stamped

\* What is known stays so.
LEMMA TruthAges ==
  ASSUME EditTypes, Aged, NEW p \in Paths, NEW t \in Nat, NEW x
  PROVE  /\ TrueHashes(p, t, x) => TrueHashes(p, t, x)'
         /\ TrueLines(p, t, x) => TrueLines(p, t, x)'
<1>1. clock \in Nat /\ clock' \in Nat /\ clock <= clock' /\ disk'[p].stamp \in Nat
  BY DEF EditTypes, Aged, File
<1>2. t <= clock => t <= clock'
  BY <1>1
<1>3. t <= clock /\ disk'[p] # Missing /\ disk'[p].stamp = t => disk'[p] = disk[p]
  BY <1>1 DEF Aged
<1> QED
  BY <1>2, <1>3 DEF TrueHashes, TrueLines

\* A write, or the going away, of a file.
LEMMA WriteKeeps ==
  ASSUME EditInv, Aged, UNCHANGED << store, tombs, open, gone, torn >>, loops' \subseteq loops,
         call' = call \/ (/\ call' \in EditCall /\ call'.pc = "written" /\ call'.stamp = 0 /\ LinesFit(call')
                          /\ call.pc # "panicked")
  PROVE  EditInv'
<1>1. EditTypes /\ Stamped /\ StoreTrue /\ LoopsTrue /\ CallTrue /\ AnchorsHold
  BY DEF EditInv
<1>2. EditTypes'
  BY <1>1 DEF EditTypes, Aged
<1>3. Stamped'
  BY DEF Stamped, Aged
<1>4. StoreTrue'
  <2> SUFFICES ASSUME NEW p \in Paths PROVE TrueHashes(p, store[p].stamp, Hashes(store[p].entries))'
    BY DEF StoreTrue
  <2> DEFINE t == store[p].stamp
             x == Hashes(store[p].entries)
  <2>1. t \in Nat /\ TrueHashes(p, t, x)
    BY <1>1 DEF EditTypes, Row, StoreTrue
  <2> QED
    BY <1>1, <2>1, TruthAges DEF TrueHashes
<1>5. LoopsTrue'
  <2> SUFFICES ASSUME NEW l \in loops, l.key.path \in Paths PROVE TrueLines(l.key.path, l.key.stamp, l.seen)'
    BY DEF LoopsTrue
  <2>1. l.key.stamp \in Nat /\ TrueLines(l.key.path, l.key.stamp, l.seen)
    BY <1>1 DEF EditTypes, Request, LoopsTrue
  <2> QED
    BY <1>1, <2>1, TruthAges
<1>6. CallTrue'
  <2>1. clock \in Nat /\ clock' \in Nat /\ clock <= clock'
    BY <1>1 DEF EditTypes, Aged
  <2>2. CASE call' = call
    <3>1. ASSUME call \in ReadCall PROVE ReadTrue(call)'
      <4>1. call.path \in Paths /\ call.stamp \in Nat /\ ReadTrue(call)
        BY <1>1, <3>1 DEF ReadCall, CallTrue
      <4>2. call.pc = "open" => TrueLines(call.path, call.stamp, call.lines)'
        BY <1>1, <2>2, <4>1, TruthAges DEF ReadTrue, TrueLines
      <4> QED
        BY <2>1, <2>2, <4>1, <4>2 DEF ReadTrue
    <3>2. ASSUME call \in EditCall PROVE EditTrue(call)'
      <4>1. call.path \in Paths /\ call.stamp \in Nat /\ EditTrue(call)
        BY <1>1, <3>2 DEF EditCall, CallTrue
      <4>2. call.pc = "post" => TrueLines(call.path, call.stamp, call.post)'
        BY <1>1, <2>2, <4>1, TruthAges DEF EditTrue, TrueLines
      <4>3. LinesFit(call)'
        BY <2>2, <4>1 DEF EditTrue, LinesFit
      <4> QED
        BY <2>1, <2>2, <4>1, <4>2, <4>3 DEF EditTrue
    <3> QED
      BY <2>2, <3>1, <3>2 DEF CallTrue
  <2>3. CASE /\ call' \in EditCall /\ call'.pc = "written" /\ call'.stamp = 0 /\ LinesFit(call')
    <3>1. LinesFit(call)'
      BY <2>3 DEF LinesFit
    <3>2. EditTrue(call)'
      BY <2>1, <2>3, <3>1 DEF EditTrue
    <3> QED
      BY <2>3, <3>2, NoCallRuns DEF CallTrue
  <2> QED
    BY <2>2, <2>3
<1>7. AnchorsHold'
  BY <1>1 DEF AnchorsHold, AnchorsFine
<1> QED
  BY <1>2, <1>3, <1>4, <1>5, <1>6, <1>7 DEF EditInv

\* A step of a call that leaves files, rows and cached entries alone.
LEMMA QuietKeeps ==
  ASSUME EditInv, UNCHANGED << disk, clock, store, tombs, open, gone, torn >>,
         loops' \subseteq [key : Request, seen : Seq(Texts)],
         \A l \in loops' : l.key.path \in Paths => l \in loops \/ TrueLines(l.key.path, l.key.stamp, l.seen),
         call' \in NoCall \cup ReadCall \cup EditCall, call.pc # "panicked",
         call' \in ReadCall => ReadTrue(call'), call' \in EditCall => EditTrue(call')
  PROVE  EditInv'
<1>1. EditTypes /\ Stamped /\ StoreTrue /\ LoopsTrue /\ CallTrue /\ AnchorsHold
  BY DEF EditInv
<1>2. EditTypes'
  BY <1>1 DEF EditTypes
<1>3. Stamped'
  BY <1>1 DEF Stamped
<1>4. StoreTrue'
  BY <1>1 DEF StoreTrue, TrueHashes
<1>5. LoopsTrue'
  BY <1>1 DEF LoopsTrue, TrueLines
<1>6. CallTrue'
  <2>1. ReadTrue(call') => ReadTrue(call)'
    BY DEF ReadTrue, TrueLines
  <2>2. EditTrue(call') => EditTrue(call)'
    BY DEF EditTrue, TrueLines, LinesFit
  <2> QED
    BY <2>1, <2>2 DEF CallTrue
<1>7. AnchorsHold'
  BY <1>1 DEF AnchorsHold, AnchorsFine
<1> QED
  BY <1>2, <1>3, <1>4, <1>5, <1>6, <1>7 DEF EditInv

\* The last step of a call: an outcome for p goes to the store, in each way it may go, and if
\* all is stored, to the cached entries.
LEMMA StoreKeeps ==
  ASSUME EditInv, NEW p \in Paths, NEW o, NEW t \in Nat, NEW new, new = [entries |-> o.entries, stamp |-> t],
         OutcomeTyped(o), TrueHashes(p, t, Hashes(o.entries)), p \notin torn => OutcomeFresh(o, p),
         UNCHANGED << disk, clock >>, NEW lines \in Seq(Texts),
         \/ /\ Stored(p, new, o.tombstoned)
            /\ \/ open' = [open EXCEPT ![p] = Working(o.entries, lines)]
               \/ UNCHANGED open /\ call' = Panicked
         \/ (NotStored \/ HalfStored(p, new, o.tombstoned)) /\ UNCHANGED open,
         loops' \subseteq [key : Request, seen : Seq(Texts)],
         \A l \in loops' : l.key.path \in Paths => l \in loops \/ TrueLines(l.key.path, l.key.stamp, l.seen),
         call' \in NoCall, call.pc # "panicked"
  PROVE  EditInv'
<1>1. EditTypes /\ Stamped /\ StoreTrue /\ LoopsTrue /\ AnchorsHold
  BY DEF EditInv
<1>2. /\ o.entries \in Seq(Entry) /\ o.tombstoned \in SUBSET Nat /\ IsFiniteSet(o.tombstoned)
  BY DEF OutcomeTyped
<1>3. new \in Row /\ new.entries = o.entries /\ new.stamp = t
  BY <1>2 DEF Row
<1>4. /\ Working(o.entries, lines) \in Cache /\ Working(o.entries, lines).entries = o.entries
  BY <1>2 DEF Working, Cache
<1>5. /\ store \in [Paths -> Row] /\ open \in [Paths -> Cache] /\ torn \subseteq Paths
      /\ tombs \in [Paths -> SUBSET Nat] /\ gone \in [Paths -> SUBSET Nat]
      /\ \A q \in Paths : IsFiniteSet(tombs[q])
  BY <1>1 DEF EditTypes
<1>6. store' = store \/ store' = [store EXCEPT ![p] = new]
  BY DEF Stored, NotStored, HalfStored
<1>7. open' = open \/ open' = [open EXCEPT ![p] = Working(o.entries, lines)]
  OBVIOUS
<1>8. \/ tombs' = tombs /\ gone' = gone
      \/ /\ tombs' = [tombs EXCEPT ![p] = tombs[p] \cup o.tombstoned]
         /\ gone' = [gone EXCEPT ![p] = gone[p] \cup o.tombstoned]
  BY DEF Stored, NotStored, HalfStored
<1>9. torn' = torn \/ torn' = torn \cup {p}
  BY DEF Stored, NotStored, HalfStored
<1>10. EditTypes'
  <2>1. store' \in [Paths -> Row] /\ open' \in [Paths -> Cache]
    BY <1>3, <1>4, <1>5, <1>6, <1>7
  <2>2. /\ tombs' \in [Paths -> SUBSET Nat] /\ gone' \in [Paths -> SUBSET Nat]
        /\ \A q \in Paths : IsFiniteSet(tombs'[q])
    <3>1. CASE tombs' = tombs /\ gone' = gone
      BY <1>5, <3>1
    <3>2. CASE /\ tombs' = [tombs EXCEPT ![p] = tombs[p] \cup o.tombstoned]
               /\ gone' = [gone EXCEPT ![p] = gone[p] \cup o.tombstoned]
      <4>1. IsFiniteSet(tombs[p] \cup o.tombstoned)
        BY <1>2, <1>5, FS_Union
      <4>2. \A q \in Paths : tombs'[q] = IF q = p THEN tombs[p] \cup o.tombstoned ELSE tombs[q]
        BY <1>5, <3>2
      <4>3. \A q \in Paths : IsFiniteSet(tombs'[q])
        BY <1>5, <4>1, <4>2
      <4>4. tombs' \in [Paths -> SUBSET Nat] /\ gone' \in [Paths -> SUBSET Nat]
        BY <1>2, <1>5, <3>2
      <4> QED
        BY <4>3, <4>4
    <3> QED
      BY <1>8, <3>1, <3>2
  <2>3. torn' \subseteq Paths
    BY <1>5, <1>9
  <2> QED
    BY <1>1, <2>1, <2>2, <2>3 DEF EditTypes
<1>11. Stamped'
  BY <1>1 DEF Stamped
<1>12. StoreTrue'
  <2>1. ASSUME NEW q \in Paths PROVE TrueHashes(q, store'[q].stamp, Hashes(store'[q].entries))
    <3>1. CASE store'[q] = store[q]
      BY <1>1, <3>1 DEF StoreTrue
    <3>2. CASE store'[q] # store[q]
      <4>1. q = p /\ store'[q] = new
        BY <1>5, <1>6, <3>2
      <4> QED
        BY <1>3, <4>1
    <3> QED
      BY <3>1, <3>2
  <2> QED
    BY <2>1 DEF StoreTrue, TrueHashes
<1>13. LoopsTrue'
  BY <1>1 DEF LoopsTrue, TrueLines
<1>14. CallTrue'
  BY NoCallRuns DEF CallTrue
<1>15. AnchorsHold'
  <2> SUFFICES ASSUME call' # Panicked, NEW q \in Paths, q \notin torn' PROVE AnchorsFine(q)'
    BY NoCallRuns DEF AnchorsHold
  <2>1. AnchorsFine(q) /\ q \notin torn
    BY <1>1, <1>9 DEF AnchorsHold
  <2>2. CASE q # p
    <3>1. store'[q] = store[q] /\ open'[q] = open[q] /\ tombs'[q] = tombs[q] /\ gone'[q] = gone[q]
      BY <1>5, <1>6, <1>7, <1>8, <2>2
    <3> QED
      BY <2>1, <3>1 DEF AnchorsFine
  <2>3. CASE q = p /\ NotStored /\ UNCHANGED open
    BY <2>1, <2>3 DEF NotStored, AnchorsFine
  <2>4. CASE q = p /\ HalfStored(p, new, o.tombstoned)
    BY <2>4 DEF HalfStored
  <2>5. CASE /\ q = p /\ Stored(p, new, o.tombstoned)
             /\ open' = [open EXCEPT ![p] = Working(o.entries, lines)]
    <3>1. store'[p].entries = o.entries /\ open'[p].entries = o.entries
      BY <1>3, <1>4, <1>5, <2>5 DEF Stored
    <3>2. tombs'[p] = tombs[p] \cup o.tombstoned /\ gone'[p] = gone[p] \cup o.tombstoned
      BY <1>5, <2>5 DEF Stored
    <3>3. /\ Distinct(o.entries) /\ AnchorsOf(o.entries) \cap o.tombstoned = {}
          /\ AnchorsOf(o.entries) \subseteq AnchorsOf(store[p].entries) \cup (Nat \ UsedAnchors(p))
      BY <2>1, <2>5 DEF OutcomeFresh
    <3>4. gone[p] \subseteq tombs[p] /\ AnchorsOf(store[p].entries) \cap gone[p] = {}
          /\ tombs[p] \subseteq UsedAnchors(p)
      BY <2>1, <2>5 DEF AnchorsFine, UsedAnchors
    <3>5. AnchorsOf(o.entries) \cap (gone[p] \cup o.tombstoned) = {}
      BY <3>3, <3>4
    <3>6. gone'[p] \subseteq tombs'[p]
      BY <3>2, <3>4
    <3> QED
      BY <2>5, <3>1, <3>2, <3>3, <3>5, <3>6 DEF AnchorsFine
  <2> QED
    BY <2>2, <2>3, <2>4, <2>5
<1> QED
  BY <1>10, <1>11, <1>12, <1>13, <1>14, <1>15 DEF EditInv

\* The request a read is told apart by, and what is recorded of it.
LEMMA Recording ==
  ASSUME EditTypes, NEW c \in ReadCall, NEW lines \in Seq(Texts), Recorded(c, lines), TrueLines(c.path, c.stamp, lines)
  PROVE  /\ loops' \subseteq [key : Request, seen : Seq(Texts)]
         /\ \A l \in loops' : l.key.path \in Paths => l \in loops \/ TrueLines(l.key.path, l.key.stamp, l.seen)
<1> DEFINE entry == [key |-> Key(c), seen |-> lines]
<1>1. Key(c) \in Request /\ Key(c).path = c.path /\ Key(c).stamp = c.stamp
  BY DEF Key, ReadStamp, ReadCall, Request
<1>2. entry \in [key : Request, seen : Seq(Texts)]
  BY <1>1
<1>3. entry.key = Key(c) /\ entry.seen = lines
  OBVIOUS
<1>4. loops \subseteq [key : Request, seen : Seq(Texts)] /\ loops' = loops \cup {entry}
  BY DEF EditTypes, Recorded
<1> HIDE DEF entry
<1>5. \A l \in loops' : l \in loops \/ l = entry
  BY <1>4
<1> QED
  BY <1>1, <1>2, <1>3, <1>4, <1>5

LEMMA ReadStatKeeps == EditInv /\ ReadStat => EditInv'
<1> SUFFICES ASSUME EditInv, ReadStat PROVE EditInv'
  OBVIOUS
<1>1. EditTypes /\ Stamped
  BY DEF EditInv
<1>2. PICK p \in Paths, tool \in {"file_read", "readRaw"}, r \in Ranges :
        call' = [pc |-> "stat", tool |-> tool, path |-> p, ranges |-> r, stamp |-> disk[p].stamp, lines |-> << >>]
  BY DEF ReadStat
<1>3. disk[p].stamp \in Nat /\ disk[p].stamp <= clock /\ << >> \in Seq(Texts)
  BY <1>1 DEF EditTypes, File, Stamped
<1>4. call' \in ReadCall /\ ReadTrue(call')
  BY <1>2, <1>3 DEF ReadCall, ReadTrue
<1>5. call' \notin EditCall /\ call.pc # "panicked"
  BY <1>4, NoCallRuns DEF ReadStat
<1>6. loops' = loops /\ loops \subseteq [key : Request, seen : Seq(Texts)]
  BY <1>1 DEF ReadStat, EditTypes
<1> QED
  BY <1>4, <1>5, <1>6, QuietKeeps DEF ReadStat

\* The steps that end a call, or begin one that fails, with no more than the requests changed.
LEMMA EndingKeeps ==
  ASSUME EditInv, UNCHANGED << disk, clock, store, tombs, open, gone, torn >>, loops' \subseteq loops,
         call' = Idle \/ call' = Panicked, call.pc # "panicked"
  PROVE  EditInv'
<1>1. loops \subseteq [key : Request, seen : Seq(Texts)]
  BY DEF EditInv, EditTypes
<1>2. call' \in NoCall /\ call' \notin ReadCall /\ call' \notin EditCall
  BY NoCallRuns
<1> QED
  BY <1>1, <1>2, QuietKeeps

LEMMA ReadPlainKeeps == EditInv /\ ReadPlain => EditInv'
<1> SUFFICES ASSUME EditInv, ReadPlain PROVE EditInv'
  OBVIOUS
<1>1. EditTypes /\ CallTrue
  BY DEF EditInv
<1>2. call \in ReadCall /\ ReadTrue(call) /\ call.pc # "panicked"
  BY <1>1, CallKinds DEF ReadPlain, CallTrue
<1>3. call.path \in Paths /\ disk[call.path].lines \in Seq(Texts)
  BY <1>1, <1>2 DEF ReadCall, EditTypes, File
<1>4. TrueLines(call.path, call.stamp, disk[call.path].lines) /\ Recorded(call, disk[call.path].lines)
  BY <1>2 DEF ReadTrue, TrueLines, ReadPlain
<1>5. /\ loops' \subseteq [key : Request, seen : Seq(Texts)]
      /\ \A l \in loops' : l.key.path \in Paths => l \in loops \/ TrueLines(l.key.path, l.key.stamp, l.seen)
  BY <1>1, <1>2, <1>3, <1>4, Recording
<1>6. call' \in NoCall /\ call' \notin ReadCall /\ call' \notin EditCall
  BY NoCallRuns DEF ReadPlain
<1> QED
  BY <1>2, <1>5, <1>6, QuietKeeps DEF ReadPlain

LEMMA ReadContentKeeps == EditInv /\ ReadContent => EditInv'
<1> SUFFICES ASSUME EditInv, ReadContent PROVE EditInv'
  OBVIOUS
<1>1. EditTypes /\ CallTrue
  BY DEF EditInv
<1>2. call \in ReadCall /\ ReadTrue(call) /\ call.pc # "panicked"
  BY <1>1, CallKinds DEF ReadContent, CallTrue
<1>3. call.path \in Paths /\ disk[call.path].lines \in Seq(Texts)
  BY <1>1, <1>2 DEF ReadCall, EditTypes, File
<1> DEFINE m == [call EXCEPT !.pc = "open"]
<1>4. m \in ReadCall /\ m.pc = "open" /\ m.path = call.path /\ m.stamp = call.stamp
  BY <1>2 DEF ReadCall
<1>5. call' = [m EXCEPT !.lines = disk[call.path].lines]
  BY DEF ReadContent
<1> HIDE DEF m
<1>6. /\ call' \in ReadCall /\ call'.pc = "open" /\ call'.path = call.path /\ call'.stamp = call.stamp
      /\ call'.lines = disk[call.path].lines
  BY <1>3, <1>4, <1>5 DEF ReadCall
<1>7. ReadTrue(call')
  BY <1>2, <1>6 DEF ReadTrue, TrueLines
<1>8. loops' = loops /\ loops \subseteq [key : Request, seen : Seq(Texts)]
  BY <1>1 DEF ReadContent, EditTypes
<1>9. call' \notin EditCall
  BY <1>6, NoCallRuns
<1> QED
  BY <1>2, <1>6, <1>7, <1>8, <1>9, QuietKeeps DEF ReadContent

\* What a read asks to be stored is true of the file, and fine.
LEMMA ReadOpenKeeps == EditInv /\ ReadOpen => EditInv'
<1> SUFFICES ASSUME EditInv, ReadOpen PROVE EditInv'
  OBVIOUS
<1> DEFINE p == call.path
           t == call.stamp
<1>1. EditTypes /\ StoreTrue /\ CallTrue /\ AnchorsHold
  BY DEF EditInv
<1>2. call \in ReadCall /\ ReadTrue(call) /\ call.pc # "panicked"
  BY <1>1, CallKinds DEF ReadOpen, CallTrue
<1>3. p \in Paths /\ t \in Nat /\ call.lines \in Seq(Texts) /\ TrueLines(p, t, call.lines)
  BY <1>2 DEF ReadCall, ReadTrue, ReadOpen
<1>4. ReadStamp(call) = t
  BY DEF ReadStamp
<1>5. PICK o \in Opened(p, call.lines, t) :
        LET new == [entries |-> o.entries, stamp |-> t] IN
        \/ /\ Stored(p, new, o.tombstoned)
           /\ open' = [open EXCEPT ![p] = Working(o.entries, call.lines)]
           /\ Recorded(call, call.lines)
           /\ call' \in {Idle} \cup {Panicked : x \in RangesPastEnd(call, o.entries)}
        \/ /\ NotStored \/ HalfStored(p, new, o.tombstoned)
           /\ call' = Idle /\ UNCHANGED << open, loops >>
  BY <1>4 DEF ReadOpen
<1> HIDE DEF p, t
<1>6. /\ OutcomeTyped(o)
      /\ \/ Hashes(o.entries) = HashLines(call.lines)
         \/ o.entries = store[p].entries /\ store[p].stamp = t
      /\ Distinct(store[p].entries) => OutcomeFresh(o, p)
  BY <1>1, <1>3, OpenedOutcome
<1>7. TrueHashes(p, t, Hashes(o.entries))
  BY <1>1, <1>3, <1>6 DEF TrueHashes, TrueLines, StoreTrue
<1>8. p \notin torn => OutcomeFresh(o, p)
  BY <1>1, <1>2, <1>3, <1>6 DEF AnchorsHold, AnchorsFine
<1>9. call' \in NoCall
  BY <1>5, NoCallRuns
<1>10. loops' = loops \/ Recorded(call, call.lines)
  BY <1>5
<1>11. /\ loops' \subseteq [key : Request, seen : Seq(Texts)]
       /\ \A l \in loops' : l.key.path \in Paths => l \in loops \/ TrueLines(l.key.path, l.key.stamp, l.seen)
  <2>1. CASE loops' = loops
    BY <1>1, <2>1 DEF EditTypes
  <2>2. CASE Recorded(call, call.lines)
    BY <1>1, <1>2, <1>3, <2>2, Recording DEF p, t
  <2> QED
    BY <1>10, <2>1, <2>2
<1> DEFINE new == [entries |-> o.entries, stamp |-> t]
<1>12. /\ UNCHANGED << disk, clock >>
       /\ \/ /\ Stored(p, new, o.tombstoned)
             /\ \/ open' = [open EXCEPT ![p] = Working(o.entries, call.lines)]
                \/ UNCHANGED open /\ call' = Panicked
          \/ (NotStored \/ HalfStored(p, new, o.tombstoned)) /\ UNCHANGED open
  BY <1>5 DEF ReadOpen
<1>13. new = [entries |-> o.entries, stamp |-> t]
  OBVIOUS
<1> HIDE DEF new
<1> QED
  BY <1>2, <1>3, <1>6, <1>7, <1>8, <1>9, <1>11, <1>12, <1>13, StoreKeeps

\* A request for what other tools search is not of a path's lines.
LEMMA SearchKeeps == EditInv /\ Search => EditInv'
<1> SUFFICES ASSUME EditInv, Search PROVE EditInv'
  OBVIOUS
<1> DEFINE entry == [key |-> SearchKey, seen |-> << >>]
<1>1. EditTypes /\ Stamped
  BY DEF EditInv
<1>2. SearchKey \in Request /\ SearchKey.stamp = 0
  BY EditAssumption DEF SearchKey, Request
<1>3. << >> \in Seq(Texts)
  OBVIOUS
<1>4. entry \in [key : Request, seen : Seq(Texts)] /\ entry.key.stamp = 0
  BY <1>2, <1>3
<1>5. loops' = loops \cup {entry} /\ loops \subseteq [key : Request, seen : Seq(Texts)]
  BY <1>1 DEF Search, EditTypes
<1>6. entry.key.path \in Paths => TrueLines(entry.key.path, entry.key.stamp, entry.seen)
  BY <1>1, <1>4 DEF TrueLines, Stamped, EditTypes, File
<1> HIDE DEF entry
<1>7. loops' \subseteq [key : Request, seen : Seq(Texts)]
  BY <1>4, <1>5
<1>8. \A l \in loops' : l.key.path \in Paths => l \in loops \/ TrueLines(l.key.path, l.key.stamp, l.seen)
  BY <1>5, <1>6
<1>9. call' = Idle /\ call.pc # "panicked" /\ call' \in NoCall /\ call' \notin ReadCall /\ call' \notin EditCall
  BY NoCallRuns DEF Search
<1> QED
  BY <1>7, <1>8, <1>9, QuietKeeps DEF Search

LEMMA EditStatKeeps == EditInv /\ EditStat => EditInv'
<1> SUFFICES ASSUME EditInv, EditStat PROVE EditInv'
  OBVIOUS
<1> DEFINE t == disk[call.path].stamp
           m == [call EXCEPT !.pc = "back"]
<1>1. EditTypes /\ Stamped /\ CallTrue
  BY DEF EditInv
<1>2. call \in EditCall /\ EditTrue(call) /\ call.pc # "panicked"
  BY <1>1, CallKinds DEF EditStat, CallTrue
<1>3. call.path \in Paths /\ t \in Nat /\ t <= clock
  BY <1>1, <1>2 DEF EditCall, EditTypes, File, Stamped
<1>4. /\ m \in EditCall /\ m.pc = "back" /\ m.path = call.path /\ m.kind = call.kind
      /\ m.from = call.from /\ m.to = call.to /\ m.draft = call.draft
  BY <1>2 DEF EditCall
<1>5. call' = [m EXCEPT !.stamp = t]
  BY DEF EditStat
<1> HIDE DEF m, t
<1>6. /\ call' \in EditCall /\ call'.pc = "back" /\ call'.path = call.path /\ call'.kind = call.kind
      /\ call'.from = call.from /\ call'.to = call.to /\ call'.draft = call.draft /\ call'.stamp = t
  BY <1>3, <1>4, <1>5 DEF EditCall
<1>7. EditTrue(call')
  <2>1. LinesFit(call')
    BY <1>2, <1>6 DEF EditTrue, LinesFit
  <2> QED
    BY <1>3, <1>6, <2>1 DEF EditTrue
<1>8. loops' = loops /\ loops \subseteq [key : Request, seen : Seq(Texts)]
  BY <1>1 DEF EditStat, EditTypes
<1>9. call' \notin ReadCall
  BY <1>6, NoCallRuns
<1> QED
  BY <1>2, <1>6, <1>7, <1>8, <1>9, QuietKeeps DEF EditStat

LEMMA EditReadBackKeeps == EditInv /\ EditReadBack => EditInv'
<1> SUFFICES ASSUME EditInv, EditReadBack PROVE EditInv'
  OBVIOUS
<1> DEFINE lines == disk[call.path].lines
           m == [call EXCEPT !.pc = "post"]
<1>1. EditTypes /\ Stamped /\ CallTrue
  BY DEF EditInv
<1>2. call \in EditCall /\ EditTrue(call) /\ call.pc # "panicked"
  BY <1>1, CallKinds DEF EditReadBack, CallTrue
<1>3. call.path \in Paths /\ lines \in Seq(Texts)
  BY <1>1, <1>2 DEF EditCall, EditTypes, File
<1>4. /\ m \in EditCall /\ m.pc = "post" /\ m.path = call.path /\ m.kind = call.kind
      /\ m.from = call.from /\ m.to = call.to /\ m.draft = call.draft /\ m.stamp = call.stamp
  BY <1>2 DEF EditCall
<1>5. call' = [m EXCEPT !.post = lines]
  BY DEF EditReadBack
<1> HIDE DEF m, lines
<1>6. /\ call' \in EditCall /\ call'.pc = "post" /\ call'.path = call.path /\ call'.kind = call.kind
      /\ call'.from = call.from /\ call'.to = call.to /\ call'.draft = call.draft
      /\ call'.stamp = call.stamp /\ call'.post = lines
  BY <1>3, <1>4, <1>5 DEF EditCall
<1>7. EditTrue(call')
  <2>1. LinesFit(call')
    BY <1>2, <1>6 DEF EditTrue, LinesFit
  <2>2. call'.stamp <= clock
    BY <1>2, <1>6 DEF EditTrue
  <2>3. TrueLines(call'.path, call'.stamp, call'.post)
    BY <1>6, <2>2 DEF TrueLines, lines
  <2> QED
    BY <2>1, <2>2, <2>3 DEF EditTrue
<1>8. loops' = loops /\ loops \subseteq [key : Request, seen : Seq(Texts)]
  BY <1>1 DEF EditReadBack, EditTypes
<1>9. call' \notin ReadCall
  BY <1>6, NoCallRuns
<1> QED
  BY <1>2, <1>6, <1>7, <1>8, <1>9, QuietKeeps DEF EditReadBack

\* What an edit asks to be stored is true of the file, and fine.
LEMMA EditCommitKeeps == EditInv /\ EditCommit => EditInv'
<1> SUFFICES ASSUME EditInv, EditCommit PROVE EditInv'
  OBVIOUS
<1> DEFINE p == call.path
           t == call.stamp
<1>1. EditTypes /\ StoreTrue /\ CallTrue /\ AnchorsHold
  BY DEF EditInv
<1>2. call \in EditCall /\ EditTrue(call) /\ call.pc # "panicked" /\ LinesFit(call)
  BY <1>1, CallKinds DEF EditCommit, CallTrue, EditTrue
<1>3. p \in Paths /\ t \in Nat /\ call.post \in Seq(Texts) /\ TrueLines(p, t, call.post)
  BY <1>2 DEF EditCall, EditTrue, EditCommit
<1>4. ~CarriedPastEnd(call)
  BY DEF EditCommit
<1>5. PICK o \in Outcomes(call) :
        LET new == [entries |-> o.entries, stamp |-> t] IN
        \/ /\ Stored(p, new, o.tombstoned)
           /\ IF RemovedPastEnd(call, o.entries)
                THEN call' = Panicked /\ UNCHANGED open
                ELSE call' = Idle /\ open' = [open EXCEPT ![p] = Working(o.entries, call.post)]
        \/ /\ NotStored \/ HalfStored(p, new, o.tombstoned)
           /\ call' = Idle /\ UNCHANGED open
  BY DEF EditCommit
<1>6. /\ OutcomeTyped(o)
      /\ \/ Hashes(o.entries) = HashLines(call.post)
         \/ o.entries = store[p].entries /\ store[p].stamp = t
      /\ Distinct(store[p].entries) /\ Distinct(open[p].entries)
           /\ AnchorsOf(open[p].entries) \subseteq AnchorsOf(store[p].entries) => OutcomeFresh(o, p)
  BY <1>1, <1>2, <1>4, EditOutcome
<1> HIDE DEF p, t
<1>7. TrueHashes(p, t, Hashes(o.entries))
  BY <1>1, <1>3, <1>6 DEF TrueHashes, TrueLines, StoreTrue
<1>8. p \notin torn => OutcomeFresh(o, p)
  BY <1>1, <1>2, <1>3, <1>6 DEF AnchorsHold, AnchorsFine
<1>9. call' \in NoCall
  BY <1>5, NoCallRuns
<1>10. /\ loops' \subseteq [key : Request, seen : Seq(Texts)]
       /\ \A l \in loops' : l.key.path \in Paths => l \in loops \/ TrueLines(l.key.path, l.key.stamp, l.seen)
  BY <1>1 DEF EditCommit, EditTypes
<1> DEFINE new == [entries |-> o.entries, stamp |-> t]
<1>11. /\ UNCHANGED << disk, clock >>
       /\ \/ /\ Stored(p, new, o.tombstoned)
             /\ \/ open' = [open EXCEPT ![p] = Working(o.entries, call.post)]
                \/ UNCHANGED open /\ call' = Panicked
          \/ (NotStored \/ HalfStored(p, new, o.tombstoned)) /\ UNCHANGED open
  BY <1>5 DEF EditCommit
<1>12. new = [entries |-> o.entries, stamp |-> t]
  OBVIOUS
<1> HIDE DEF new
<1> QED
  BY <1>2, <1>3, <1>6, <1>7, <1>8, <1>9, <1>10, <1>11, <1>12, StoreKeeps

\* The call of a write, whose run lies in its lines.
LEMMA WritesKeeps ==
  ASSUME EditInv, NEW p \in Paths, NEW kind \in {"new", "overwrite", "replaceAll", "lines"},
         NEW from \in Nat \ {0}, NEW to \in Nat, NEW draft \in Seq(Texts),
         Writes(p, kind, from, to, draft), Begins, UNCHANGED << store, tombs, open, gone, torn >>,
         kind = "lines" => /\ from <= to + 1 /\ to <= Len(open[p].lines) /\ to <= Len(open[p].entries)
                           /\ Len(open[p].lines) - (to - from + 1) <= Len(draft)
  PROVE  EditInv'
<1>1. EditTypes /\ Stamped
  BY DEF EditInv
<1>2. Aged
  BY <1>1, WritingAges DEF Writes
<1>3. << >> \in Seq(Texts)
  OBVIOUS
<1>4. call' = [pc |-> "written", path |-> p, kind |-> kind, from |-> from, to |-> to, draft |-> draft,
               stamp |-> 0, post |-> << >>]
  BY DEF Writes
<1>5. call' \in EditCall /\ call'.pc = "written" /\ call'.stamp = 0
  BY <1>3, <1>4 DEF EditCall
<1>6. LinesFit(call')
  BY <1>4 DEF LinesFit
<1>7. call.pc # "panicked" /\ loops' \subseteq loops
  BY NoCallRuns DEF Begins
<1> QED
  BY <1>2, <1>5, <1>6, <1>7, WriteKeeps

LEMMA EditWriteKeeps == EditInv /\ EditWrite => EditInv'
<1> SUFFICES ASSUME EditInv, EditWrite PROVE EditInv'
  OBVIOUS
<1>1. EditTypes /\ Begins /\ UNCHANGED << store, tombs, open, gone, torn >>
  BY DEF EditInv, EditWrite
<1>2. Editable \subseteq Paths /\ Payloads \subseteq Seq(Texts)
  BY EditAssumption
<1>3. CASE WriteNew
  <2>1. PICK p \in Editable, text \in Payloads : Writes(p, "new", 1, 0, text)
    BY <1>3 DEF WriteNew
  <2> QED
    BY <1>1, <1>2, <2>1, WritesKeeps
<1>4. CASE WriteWhole
  <2>1. PICK p \in Editable, kind \in {"overwrite", "replaceAll"}, text \in Payloads :
          Writes(p, kind, 1, Len(open[p].lines), text)
    BY <1>4 DEF WriteWhole
  <2>2. Len(open[p].lines) \in Nat
    BY <1>1, <1>2 DEF EditTypes, Cache
  <2> QED
    BY <1>1, <1>2, <2>1, <2>2, WritesKeeps
<1>5. CASE WriteLines
  <2>1. PICK p \in Editable : \E r \in Runs(open[p]), text \in Payloads :
          Writes(p, "lines", r[1], r[2], Splice(open[p].lines, r[1], r[2], text))
    BY <1>5 DEF WriteLines
  <2>2. PICK r \in Runs(open[p]), text \in Payloads :
          Writes(p, "lines", r[1], r[2], Splice(open[p].lines, r[1], r[2], text))
    BY <2>1
  <2> DEFINE s == open[p].lines
             from == r[1]
             to == r[2]
             draft == Splice(s, from, to, text)
  <2>3. s \in Seq(Texts) /\ text \in Seq(Texts) /\ open[p].entries \in Seq(Entry) /\ p \in Paths
    BY <1>1, <1>2 DEF EditTypes, Cache
  <2>4. Len(s) \in Nat /\ Len(text) \in Nat /\ Len(open[p].entries) \in Nat
    BY <2>3
  <2>5. from \in 1..(Len(s) + 1) /\ to \in 0..Len(s) /\ from <= to + 1 /\ to <= Len(open[p].entries)
    BY DEF Runs
  <2> HIDE DEF s, from, to
  <2>6. from \in Nat \ {0} /\ to \in Nat /\ to <= Len(s)
    BY <2>4, <2>5
  <2>7. Spliced(draft, Texts, s, from, to, text)
    BY <2>3, <2>5, <2>6, SpliceLength
  <2> HIDE DEF draft
  <2>8. draft \in Seq(Texts) /\ Len(draft) = Len(s) - (to - from + 1) + Len(text)
    BY <2>7 DEF Spliced
  <2>9. Len(s) - (to - from + 1) <= Len(draft)
    BY <2>4, <2>6, <2>8
  <2>10. Writes(p, "lines", from, to, draft)
    BY <2>2 DEF s, from, to, draft
  <2>11. "lines" \in {"new", "overwrite", "replaceAll", "lines"}
    OBVIOUS
  <2> QED
    BY <1>1, <2>3, <2>5, <2>6, <2>8, <2>9, <2>10, <2>11, WritesKeeps DEF s
<1> QED
  BY <1>3, <1>4, <1>5 DEF EditWrite

LEMMA SomeoneWritesKeeps == EditInv /\ SomeoneWrites => EditInv'
<1> SUFFICES ASSUME EditInv, SomeoneWrites PROVE EditInv'
  OBVIOUS
<1>1. EditTypes /\ Stamped
  BY DEF EditInv
<1>2. Aged
  <2>1. PICK p \in Paths : \/ \E f \in Files : Written(p, f)
                           \/ (disk' = [disk EXCEPT ![p] = Missing] /\ UNCHANGED clock)
    BY DEF SomeoneWrites
  <2>2. CASE \E f \in Files : Written(p, f)
    BY <1>1, <2>2, EditAssumption, WritingAges
  <2>3. CASE disk' = [disk EXCEPT ![p] = Missing] /\ UNCHANGED clock
    BY <1>1, <2>3, RemovingAges
  <2> QED
    BY <2>1, <2>2, <2>3
<1> QED
  BY <1>2, WriteKeeps DEF SomeoneWrites

\* Between calls: the tombstones are cleared, and with them what the anchors may not be; a
\* new context has no cached entries.
LEMMA ClearingKeeps == EditInv /\ (CommitEdits \/ ReplaceContext) => EditInv'
<1> SUFFICES ASSUME EditInv, CommitEdits \/ ReplaceContext PROVE EditInv'
  OBVIOUS
<1>1. EditTypes /\ Stamped /\ StoreTrue /\ LoopsTrue /\ CallTrue /\ AnchorsHold
  BY DEF EditInv
<1>2. /\ UNCHANGED << disk, clock, store, call, torn >> /\ call = Idle
      /\ tombs' = [p \in Paths |-> {}] /\ gone' = [p \in Paths |-> {}]
      /\ open' = open \/ open' = [p \in Paths |-> Unread]
      /\ loops' \subseteq loops
  BY DEF CommitEdits, ReplaceContext, ClearTombstones
<1>3. Unread \in Cache /\ Unread.entries = << >> /\ AnchorsOf(<< >>) = {} /\ Distinct(<< >>)
  BY DEF Unread, Cache, AnchorsOf, Distinct
<1>4. IsFiniteSet({}) /\ {} \in SUBSET Nat
  BY FS_EmptySet
<1>5. EditTypes'
  <2>1. open' \in [Paths -> Cache]
    BY <1>1, <1>2, <1>3 DEF EditTypes
  <2>2. tombs' \in [Paths -> SUBSET Nat] /\ gone' \in [Paths -> SUBSET Nat]
        /\ \A p \in Paths : IsFiniteSet(tombs'[p])
    BY <1>2, <1>4
  <2> QED
    BY <1>1, <1>2, <2>1, <2>2 DEF EditTypes
<1>6. Stamped' /\ StoreTrue' /\ LoopsTrue'
  BY <1>1, <1>2 DEF Stamped, StoreTrue, LoopsTrue, TrueHashes, TrueLines
<1>7. CallTrue'
  BY <1>2, NoCallRuns DEF CallTrue
<1>8. AnchorsHold'
  <2> SUFFICES ASSUME NEW p \in Paths \ torn PROVE AnchorsFine(p)'
    BY <1>2 DEF AnchorsHold
  <2>1. AnchorsFine(p)
    BY <1>1, <1>2, NoCallRuns DEF AnchorsHold
  <2>2. open'[p] = open[p] \/ open'[p].entries = << >>
    BY <1>2, <1>3
  <2>3. tombs'[p] = {} /\ gone'[p] = {} /\ store'[p] = store[p]
    BY <1>2
  <2> QED
    BY <1>3, <2>1, <2>2, <2>3 DEF AnchorsFine
<1> QED
  BY <1>5, <1>6, <1>7, <1>8 DEF EditInv

LEMMA StepKeeps == EditInv /\ [Next]_vars => EditInv'
<1> SUFFICES ASSUME EditInv, [Next]_vars PROVE EditInv'
  OBVIOUS
<1>1. CASE ReadRefused \/ EditLost \/ EditPanics \/ EditRefused \/ ResolvePastEnd
  <2>1. /\ UNCHANGED << disk, clock, store, tombs, open, gone, torn >> /\ loops' \subseteq loops
        /\ call' = Idle \/ call' = Panicked
    BY <1>1 DEF ReadRefused, EditLost, EditPanics, EditRefused, ResolvePastEnd, Begins
  <2>2. call.pc # "panicked"
    BY <1>1, NoCallRuns DEF ReadRefused, EditLost, EditPanics, EditRefused, ResolvePastEnd, Begins
  <2> QED
    BY <2>1, <2>2, EndingKeeps
<1>2. CASE UNCHANGED vars
  BY <1>2 DEF vars, EditInv, EditTypes, Stamped, StoreTrue, LoopsTrue, CallTrue, AnchorsHold,
              TrueHashes, TrueLines, ReadTrue, EditTrue, LinesFit, AnchorsFine
<1> QED
  BY <1>1, <1>2, ReadStatKeeps, ReadPlainKeeps, ReadContentKeeps, ReadOpenKeeps, SearchKeeps,
     EditWriteKeeps, EditStatKeeps, EditReadBackKeeps, EditCommitKeeps, ClearingKeeps,
     SomeoneWritesKeeps DEF Next

\* The types and the parts of the invariant hold always.
THEOREM EditInvariant == Spec => []EditInv
<1> QED
  BY InitHolds, StepKeeps, PTL DEF Spec

\* StampsAreHonest, for any files, texts and bounds: what is stored, or recorded as read, under
\* the stamp a file has is what the file has, whoever wrote it in between.
THEOREM StampsAlwaysHonest == Spec => []StampsAreHonest
<1>1. EditInv => StampsAreHonest
  BY DEF EditInv, StampsAreHonest, StoreTrue, LoopsTrue, TrueHashes, TrueLines
<1> QED
  BY <1>1, EditInvariant, PTL

\* AnchorsNameOneLine, likewise: distinct, and never one let go since the last commit.
THEOREM AnchorsAlwaysNameOneLine == Spec => []AnchorsNameOneLine
<1>1. EditInv => AnchorsNameOneLine
  BY DEF EditInv, AnchorsNameOneLine, AnchorsHold, AnchorsFine
<1> QED
  BY <1>1, EditInvariant, PTL

\* CarriedKeepAnchors, likewise, equal lines included.
Carried(c) ==
  LET old   == open[c.path].entries
      new   == open'[c.path].entries
      shift == Len(new) - Len(old)
  IN /\ \A i \in 1..(c.from - 1) : new[i].anchor = old[i].anchor
     /\ \A i \in (c.to + 1)..Len(old) : new[i + shift].anchor = old[i].anchor

LEMMA CommitCarries ==
  ASSUME EditInv, EditCommit, call.kind = "lines", call.post = call.draft, call.path \notin torn, open' # open
  PROVE  Carried(call)
<1> DEFINE p == call.path
           old == open[p].entries
           n == Len(open[p].lines)
           k == Len(old)
           len == Len(call.draft)
           origins == DraftOrigins(call)
           draft == Draft(call)
<1>1. EditTypes /\ CallTrue /\ AnchorsHold
  BY DEF EditInv
<1>2. call \in EditCall /\ LinesFit(call) /\ call.pc # "panicked" /\ ~CarriedPastEnd(call)
  BY <1>1, CallKinds DEF EditCommit, CallTrue, EditTrue
<1>3. /\ p \in Paths /\ open[p].lines \in Seq(Texts) /\ old \in Seq(Entry) /\ call.draft \in Seq(Texts)
      /\ call.from \in Nat \ {0} /\ call.to \in Nat /\ open \in [Paths -> Cache]
      /\ call.to <= k /\ call.to <= n /\ call.from <= call.to + 1
  BY <1>1, <1>2 DEF EditTypes, EditCall, Cache, LinesFit
<1>4. n \in Nat /\ k \in Nat /\ len \in Nat /\ DOMAIN old = 1..k
  BY <1>3
<1>5. PICK o \in LineOutcomes(call) :
        ~RemovedPastEnd(call, o.entries) /\ open' = [open EXCEPT ![p] = Working(o.entries, call.post)]
  BY DEF EditCommit, Outcomes
<1>6. SameAnchors(o.entries, draft) /\ OutcomeTyped(o)
  BY <1>1, <1>2, LinesOutcome
<1>7. open'[p].entries = o.entries
  BY <1>3, <1>5 DEF Working
<1>8. Drafted(call)
  BY <1>1, <1>2, DraftEntries
<1>9. /\ Len(draft) = len /\ DOMAIN draft = 1..len
      /\ \A j \in 1..len : origins[j] # 0 =>
           origins[j] \in 1..k /\ origins[j] \in 1..n /\ draft[j].anchor = old[origins[j]].anchor
      /\ \A j \in 1..len : origins[j] = 0 => draft[j].anchor \in Nat \ UsedAnchors(p)
  <2>1. Len(draft) = len /\ DOMAIN draft = 1..len
    BY <1>8 DEF Drafted
  <2>2. \A j \in 1..len : origins[j] # 0 =>
          origins[j] \in 1..k /\ origins[j] \in 1..n /\ draft[j].anchor = old[origins[j]].anchor
    BY <1>8 DEF Drafted
  <2>3. \A j \in 1..len : origins[j] = 0 => draft[j].anchor \in Nat \ UsedAnchors(p)
    BY <1>8 DEF Drafted
  <2> QED
    BY <2>1, <2>2, <2>3
<1>10. \A j \in 1..(call.from - 1) : j \in 1..len /\ origins[j] = j
  BY <1>8 DEF Drafted
<1>11. \A i \in (call.to + 1)..n : i + (len - n) \in 1..len /\ origins[i + (len - n)] = i
  BY <1>8 DEF Drafted
<1>12. AnchorsFine(p)
  BY <1>1, <1>2, <1>3 DEF AnchorsHold
<1>13. \A i \in (n + 1)..k : old[i].anchor \in AnchorsOf(o.entries)
  BY <1>5 DEF RemovedPastEnd
<1> HIDE DEF p, old, n, k, len, origins, draft
<1>14. /\ Len(o.entries) = len /\ DOMAIN o.entries = 1..len
       /\ \A j \in 1..len : o.entries[j].anchor = draft[j].anchor
  <2>1. Len(o.entries) = len /\ \A j \in 1..len : o.entries[j].anchor = draft[j].anchor
    BY <1>6, <1>9 DEF SameAnchors
  <2>2. DOMAIN o.entries = 1..Len(o.entries)
    BY <1>6 DEF OutcomeTyped
  <2> QED
    BY <2>1, <2>2
<1>15. \A j \in 1..len : origins[j] # 0 => o.entries[j].anchor = old[origins[j]].anchor
  BY <1>9, <1>14
<1>16. ~ (k < n)
  <2> SUFFICES ASSUME k < n PROVE FALSE
    OBVIOUS
  <2>1. n \in (call.to + 1)..n
    BY <1>3, <1>4
  <2>2. n + (len - n) = len /\ n # 0
    BY <1>3, <1>4
  <2>3. len \in 1..len /\ origins[len] = n
    BY <1>11, <2>1, <2>2
  <2>4. n \in 1..k
    BY <1>9, <2>2, <2>3
  <2> QED
    BY <1>4, <2>4
<1>17. ~ (k > n)
  <2> SUFFICES ASSUME k > n PROVE FALSE
    OBVIOUS
  <2>1. k \in (n + 1)..k /\ k \in 1..k /\ k \notin 1..n
    BY <1>4
  <2>2. PICK j \in 1..len : old[k].anchor = o.entries[j].anchor
    BY <1>13, <1>14, <2>1 DEF AnchorsOf
  <2>3. old[k].anchor \in UsedAnchors(p)
    <3>1. old[k].anchor \in AnchorsOf(old)
      BY <1>4, <2>1 DEF AnchorsOf
    <3> QED
      BY <1>12, <3>1 DEF AnchorsFine, UsedAnchors, old
  <2>4. origins[j] # 0
    BY <1>9, <1>14, <2>2, <2>3
  <2>5. origins[j] \in 1..k /\ origins[j] \in 1..n /\ old[k].anchor = old[origins[j]].anchor
    BY <1>9, <1>15, <2>2, <2>4
  <2>6. k = origins[j]
    BY <1>4, <1>12, <2>1, <2>5 DEF AnchorsFine, Distinct, old
  <2> QED
    BY <2>1, <2>5, <2>6
<1>18. k = n
  BY <1>4, <1>16, <1>17
<1>19. \A i \in 1..(call.from - 1) : o.entries[i].anchor = old[i].anchor
  BY <1>3, <1>10, <1>15
<1>20. \A i \in (call.to + 1)..k : o.entries[i + (len - k)].anchor = old[i].anchor
  <2> SUFFICES ASSUME NEW i \in (call.to + 1)..k PROVE o.entries[i + (len - k)].anchor = old[i].anchor
    OBVIOUS
  <2>1. i + (len - k) \in 1..len /\ origins[i + (len - k)] = i /\ i # 0
    BY <1>3, <1>11, <1>18
  <2> QED
    BY <1>15, <2>1
<1> QED
  BY <1>7, <1>14, <1>19, <1>20 DEF Carried, p, old, k

THEOREM CarriedAlwaysKeep == Spec => CarriedKeepAnchors
<1>1. ASSUME EditInv, [Next]_vars
      PROVE  [(call.pc = "post" /\ call.kind = "lines" /\ call.post = call.draft /\ call.path \notin torn
                 /\ open' # open) => Carried(call)]_vars
  <2> SUFFICES ASSUME Next, call.pc = "post", call.kind = "lines", call.post = call.draft,
                      call.path \notin torn, open' # open
               PROVE  Carried(call)
    BY <1>1
  <2>1. EditCommit
    BY NoCallRuns DEF Next, ReadStat, ReadRefused, ReadPlain, ReadContent, ReadOpen, Search, EditRefused,
      EditWrite, ResolvePastEnd, EditStat, EditReadBack, EditLost, EditPanics, CommitEdits, ReplaceContext,
      SomeoneWrites, Begins
  <2> QED
    BY <1>1, <2>1, CommitCarries
<1> QED
  BY <1>1, EditInvariant, PTL DEF Spec, CarriedKeepAnchors, Carried
=============================================================================
