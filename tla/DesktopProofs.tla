--------------------------- MODULE DesktopProofs ---------------------------
(***************************************************************************)
(* What the desktop keeps, for every length of its channels, its stream    *)
(* and its scrollback, and every number of processes, requests and calls:  *)
(* the record of the migrations is exact; no permission is decided by the  *)
(* answer to another prompt; and of an entity, lives agree, old sections   *)
(* are shown once and a catch-up is gap-free.                              *)
(***************************************************************************)
EXTENDS Desktop, SequenceTheorems, WellFoundedInduction, TLAPS

(* Sets of numbers and sequences.                                          *)

\* A set of numbers that is not empty has a least one.
LEMMA LeastOf ==
  ASSUME NEW S, S \subseteq Nat, S # {}
  PROVE  \E k \in S : \A j \in S : k <= j
<1> DEFINE Less == {ss \in Nat \X Nat : ss[1] < ss[2]}
<1>0. IsWellFoundedOn(Less, Nat)
  BY NatLessThanWellFounded DEF OpToRel
<1> HIDE DEF Less
<1>1. PICK x \in S : \A y \in S : ~(<<y, x>> \in Less)
  BY <1>0, WFMin, Zenon
<1>2. ASSUME NEW j \in S PROVE x <= j
  <2>1. x \in Nat /\ j \in Nat
    OBVIOUS
  <2>2. ~(j < x)
    BY <1>1, <2>1 DEF Less
  <2> QED
    BY <2>1, <2>2
<1> QED
  BY <1>1, <1>2

\* The element that is appended is the last, the others keep their places.
LEMMA Appended ==
  ASSUME NEW S, NEW q \in Seq(S), NEW e \in S
  PROVE  /\ Append(q, e) \in Seq(S) /\ DOMAIN Append(q, e) = DOMAIN q \union {Len(q) + 1}
         /\ Len(Append(q, e)) = Len(q) + 1
         /\ Len(q) + 1 \notin DOMAIN q /\ Len(q) \in Nat /\ DOMAIN q = 1..Len(q)
         /\ \A i \in DOMAIN q : Append(q, e)[i] = q[i]
         /\ Append(q, e)[Len(q) + 1] = e
<1>1. /\ Append(q, e) \in Seq(S) /\ Len(Append(q, e)) = Len(q) + 1
      /\ \A i \in 1..Len(q) : Append(q, e)[i] = q[i]
      /\ Append(q, e)[Len(q) + 1] = e
  BY AppendProperties
<1>2. DOMAIN q = 1..Len(q) /\ Len(q) \in Nat /\ DOMAIN Append(q, e) = 1..(Len(q) + 1)
  BY <1>1, LenProperties
<1>3. 1..(Len(q) + 1) = 1..Len(q) \union {Len(q) + 1}
  BY <1>2
<1> QED
  BY <1>1, <1>2, <1>3

\* The elements of a tail were one place further back.
LEMMA Tailed ==
  ASSUME NEW S, NEW q \in Seq(S), q # <<>>
  PROVE  /\ Tail(q) \in Seq(S) /\ Head(q) = q[1] /\ q[1] \in S /\ 1 \in DOMAIN q
         /\ Len(Tail(q)) = Len(q) - 1
         /\ \A i \in DOMAIN Tail(q) : i \in Nat /\ i + 1 \in DOMAIN q /\ i + 1 # 1 /\ Tail(q)[i] = q[i + 1]
<1>1. /\ Tail(q) \in Seq(S) /\ Head(q) \in S /\ Len(Tail(q)) = Len(q) - 1
      /\ \A i \in 1..Len(Tail(q)) : Tail(q)[i] = q[i + 1]
  BY HeadTailProperties
<1>2. DOMAIN q = 1..Len(q) /\ Len(q) \in Nat /\ DOMAIN Tail(q) = 1..Len(Tail(q))
  BY <1>1, LenProperties
<1>3. Len(q) # 0 /\ Head(q) = q[1]
  BY EmptySeq
<1> QED
  BY <1>1, <1>2, <1>3

\* The places of a concatenation.
LEMMA Joined ==
  ASSUME NEW S, NEW q \in Seq(S), NEW r \in Seq(S)
  PROVE  /\ q \o r \in Seq(S) /\ Len(q \o r) = Len(q) + Len(r)
         /\ Len(q) \in Nat /\ Len(r) \in Nat /\ DOMAIN q = 1..Len(q) /\ DOMAIN r = 1..Len(r)
         /\ DOMAIN (q \o r) = 1..(Len(q) + Len(r))
         /\ \A i \in DOMAIN q : i \in DOMAIN (q \o r) /\ (q \o r)[i] = q[i]
         /\ \A i \in DOMAIN r : Len(q) + i \in DOMAIN (q \o r) /\ (q \o r)[Len(q) + i] = r[i]
         /\ \A i \in DOMAIN (q \o r) : i \in DOMAIN q \/ (i - Len(q) \in DOMAIN r /\ i > Len(q)
                                                         /\ (q \o r)[i] = r[i - Len(q)])
<1>1. /\ q \o r \in Seq(S) /\ Len(q \o r) = Len(q) + Len(r)
      /\ \A i \in 1..(Len(q) + Len(r)) : (q \o r)[i] = IF i <= Len(q) THEN q[i] ELSE r[i - Len(q)]
  BY ConcatProperties
<1>2. /\ Len(q) \in Nat /\ Len(r) \in Nat /\ DOMAIN q = 1..Len(q) /\ DOMAIN r = 1..Len(r)
      /\ DOMAIN (q \o r) = 1..(Len(q) + Len(r))
  BY <1>1, LenProperties
<1>3. \A i \in DOMAIN r : Len(q) + i \in DOMAIN (q \o r) /\ (q \o r)[Len(q) + i] = r[i]
  <2> SUFFICES ASSUME NEW i \in 1..Len(r)
               PROVE  Len(q) + i \in 1..(Len(q) + Len(r)) /\ (q \o r)[Len(q) + i] = r[i]
    BY <1>2
  <2>1. Len(q) + i \in 1..(Len(q) + Len(r)) /\ ~(Len(q) + i <= Len(q)) /\ (Len(q) + i) - Len(q) = i
    BY <1>2
  <2> QED
    BY <1>1, <2>1
<1> QED
  BY <1>1, <1>2, <1>3

\* One more element is a concatenation.
LEMMA Single ==
  ASSUME NEW S, NEW e \in S
  PROVE  <<e>> \in Seq(S) /\ Len(<<e>>) = 1 /\ DOMAIN <<e>> = {1} /\ <<e>>[1] = e
OBVIOUS

\* Taking an element out of a sequence leaves a sequence, with one element less.
LEMMA Removed ==
  ASSUME NEW S, NEW q \in Seq(S), NEW k \in DOMAIN q
  PROVE  RemoveAt(q, k) \in Seq(S) /\ Len(RemoveAt(q, k)) = Len(q) - 1
<1>1. k \in 1..Len(q) /\ Len(q) \in Nat /\ \A i \in 1..Len(q) : q[i] \in S
  BY LenProperties, ElementOfSeq
<1>2. SubSeq(q, 1, k - 1) \in Seq(S) /\ Len(SubSeq(q, 1, k - 1)) = k - 1
  BY <1>1, SubSeqProperties
<1>3. SubSeq(q, k + 1, Len(q)) \in Seq(S) /\ Len(SubSeq(q, k + 1, Len(q))) = Len(q) - k
  BY <1>1, SubSeqProperties
<1>4. /\ SubSeq(q, 1, k - 1) \o SubSeq(q, k + 1, Len(q)) \in Seq(S)
      /\ Len(SubSeq(q, 1, k - 1) \o SubSeq(q, k + 1, Len(q))) = (k - 1) + (Len(q) - k)
  BY <1>2, <1>3, ConcatProperties
<1>5. (k - 1) + (Len(q) - k) = Len(q) - 1
  BY <1>1
<1> QED
  BY <1>4, <1>5 DEF RemoveAt
-----------------------------------------------------------------------------
(* The migrations: whatever their lists are, however many versions take    *)
(* turns and wherever they fail or die.                                    *)

RowSet == [version : Nat, name : Text, checksum : Text]

TypesOK ==
  /\ applied \in [Names -> Seq(RowSet)] /\ made \in [Names -> Seq(Text)]
  /\ program \in [Names -> Seq(Migration)]
  /\ boot \in Boot /\ schema \in 1..Len(Schemas) /\ index \in Nat \ {0}

\* What has run is what is recorded, one body for each row.
Exact(s) ==
  /\ Len(made[s]) = Len(applied[s])
  /\ \A i \in 1..Len(applied[s]) :
       made[s][i] = applied[s][i].checksum /\ applied[s][i].version = i - 1

\* The rows of a schema are those of all its migrations.
Complete(s) ==
  /\ Len(applied[s]) = Len(program[s])
  /\ \A i \in 1..Len(applied[s]) : applied[s][i] = Row(i - 1, program[s][i])

\* The transaction holds the body of the migration in hand from the first
\* statement on, and its row from the second; only an accepted schema has one.
Tx(at, bodies, rws) == [at |-> at, bodies |-> bodies, rows |-> rws]
Body == Declared[index].sql
NewRow == Row(index - 1, Declared[index])
TxFits ==
  /\ tx \in {NoTx, Tx("begun", <<>>, <<>>), Tx("body", <<Body>>, <<>>),
             Tx("record", <<Body>>, <<NewRow>>)}
  /\ tx # NoTx => boot = "apply" /\ index <= Len(Declared)

\* The migration in hand is the one behind the last that is recorded.
InOrder == boot = "apply" => Continues /\ index = Len(Recorded) + 1

\* The schemas are completed one after the other.
Progress ==
  /\ boot \in {"check", "apply"} => \A k \in 1..(schema - 1) : Complete(Schemas[k])
  /\ boot = "ready" => \A s \in Names : Complete(s)

MigrationInv ==
  TypesOK /\ (\A s \in Names : Exact(s)) /\ TxFits /\ InOrder /\ Progress

\* The schemas of the list are the names, and a name is in one place of it.
LEMMA SchemaNames ==
  /\ Len(Schemas) \in Nat \ {0}
  /\ DOMAIN Schemas = 1..Len(Schemas)
  /\ \A k \in 1..Len(Schemas) : Schemas[k] \in Names
  /\ \A s \in Names : \E k \in 1..Len(Schemas) : s = Schemas[k]
BY MigrationAssumption, EmptySeq, LenProperties DEF Names, ToSet

\* The schema in hand, its list and its rows.
LEMMA InHand ==
  ASSUME TypesOK
  PROVE  /\ Current \in Names
         /\ Declared \in Seq(Migration) /\ Len(Declared) \in Nat
         /\ Recorded \in Seq(RowSet) /\ Len(Recorded) \in Nat
         /\ DOMAIN Recorded = 1..Len(Recorded)
         /\ \A i \in 1..Len(Declared) : Declared[i] \in Migration
<1>1. Current \in Names
  BY SchemaNames DEF TypesOK, Current
<1>2. Declared \in Seq(Migration) /\ Recorded \in Seq(RowSet)
  BY <1>1 DEF TypesOK, Declared, Recorded
<1> QED
  BY <1>1, <1>2, LenProperties, ElementOfSeq

\* An empty database is exact.
LEMMA MigrationStarts == MigrationInit => MigrationInv
<1> SUFFICES ASSUME MigrationInit PROVE MigrationInv
  OBVIOUS
<1>1. TypesOK
  BY MigrationAssumption, SchemaNames DEF MigrationInit, TypesOK, Boot
<1>2. \A s \in Names : Exact(s)
  BY DEF MigrationInit, Exact
<1> QED
  BY <1>1, <1>2 DEF MigrationInit, MigrationInv, TxFits, InOrder, Progress, NoTx

\* Rows and bodies are only added by a commit, one of each.
LEMMA CommitExact ==
  ASSUME MigrationInv, Commit
  PROVE  /\ Current \in Names /\ index = Len(Recorded) + 1 /\ index <= Len(Declared)
         /\ NewRow \in RowSet /\ Body \in Text
         /\ applied' = [applied EXCEPT ![Current] = Append(@, NewRow)]
         /\ made' = [made EXCEPT ![Current] = Append(@, Body)]
<1>1. tx.bodies = <<Body>> /\ tx.rows = <<NewRow>> /\ tx # NoTx
  BY DEF MigrationInv, Commit, TxFits, Tx, NoTx
<1>2. Current \in Names /\ index = Len(Recorded) + 1 /\ index <= Len(Declared) /\ index \in Nat \ {0}
  BY <1>1, InHand DEF MigrationInv, Commit, InOrder, TxFits, TypesOK
<1>3. Declared[index] \in Migration
  BY <1>2, InHand DEF MigrationInv
<1>4. NewRow \in RowSet /\ Body \in Text
  BY <1>2, <1>3 DEF NewRow, Body, Row, RowSet, Migration
<1>5. applied[Current] \in Seq(RowSet) /\ made[Current] \in Seq(Text)
  BY <1>2 DEF MigrationInv, TypesOK
<1>6. /\ applied[Current] \o <<NewRow>> = Append(applied[Current], NewRow)
      /\ made[Current] \o <<Body>> = Append(made[Current], Body)
  BY <1>4, <1>5, AppendIsConcat
<1> QED
  BY <1>1, <1>2, <1>4, <1>6 DEF Commit

\* It keeps the invariant: the row is that of the body, and the next one in order.
LEMMA CommitKeeps == ASSUME MigrationInv, Commit PROVE MigrationInv'
<1>1. /\ Current \in Names /\ index = Len(Recorded) + 1 /\ index <= Len(Declared)
      /\ NewRow \in RowSet /\ Body \in Text
      /\ applied' = [applied EXCEPT ![Current] = Append(@, NewRow)]
      /\ made' = [made EXCEPT ![Current] = Append(@, Body)]
  BY CommitExact
<1>2. /\ applied[Current] \in Seq(RowSet) /\ made[Current] \in Seq(Text)
      /\ Len(applied[Current]) \in Nat
  BY <1>1, LenProperties DEF MigrationInv, TypesOK
<1>3. UNCHANGED <<program, boot, schema>> /\ tx' = NoTx /\ index' = index + 1 /\ boot = "apply"
  BY DEF Commit
<1>4. /\ Append(applied[Current], NewRow) \in Seq(RowSet)
      /\ Len(Append(applied[Current], NewRow)) = Len(applied[Current]) + 1
      /\ \A i \in 1..Len(applied[Current]) : Append(applied[Current], NewRow)[i] = applied[Current][i]
      /\ Append(applied[Current], NewRow)[Len(applied[Current]) + 1] = NewRow
  BY <1>1, <1>2, AppendProperties
<1>5. /\ Append(made[Current], Body) \in Seq(Text)
      /\ Len(Append(made[Current], Body)) = Len(made[Current]) + 1
      /\ \A i \in 1..Len(made[Current]) : Append(made[Current], Body)[i] = made[Current][i]
      /\ Append(made[Current], Body)[Len(made[Current]) + 1] = Body
  BY <1>1, <1>2, AppendProperties
<1>6. TypesOK'
  <2>1. applied' \in [Names -> Seq(RowSet)] /\ made' \in [Names -> Seq(Text)]
    BY <1>1, <1>4, <1>5 DEF MigrationInv, TypesOK
  <2>2. index' \in Nat \ {0}
    BY <1>3 DEF MigrationInv, TypesOK
  <2> QED
    BY <2>1, <2>2, <1>3 DEF MigrationInv, TypesOK
<1>7. \A s \in Names : Exact(s)'
  <2> SUFFICES ASSUME NEW s \in Names PROVE Exact(s)'
    OBVIOUS
  <2>1. CASE s = Current
    <3>1. NewRow.checksum = Body /\ NewRow.version = index - 1
      BY DEF NewRow, Body, Row
    <3>2. Exact(Current) /\ index - 1 = Len(applied[Current])
      BY <1>1, <1>2 DEF MigrationInv, Recorded
    <3>3. applied'[s] = Append(applied[Current], NewRow) /\ made'[s] = Append(made[Current], Body)
      BY <1>1, <2>1 DEF MigrationInv, TypesOK
    <3>4. ASSUME NEW i \in 1..(Len(applied[Current]) + 1)
          PROVE  /\ Append(made[Current], Body)[i] = Append(applied[Current], NewRow)[i].checksum
                 /\ Append(applied[Current], NewRow)[i].version = i - 1
      <4>1. CASE i \in 1..Len(applied[Current])
        BY <4>1, <3>2, <1>4, <1>5 DEF Exact
      <4>2. CASE i = Len(applied[Current]) + 1
        BY <4>2, <3>1, <3>2, <1>2, <1>4, <1>5 DEF Exact
      <4>3. i \in 1..Len(applied[Current]) \/ i = Len(applied[Current]) + 1
        BY <1>2
      <4> QED
        BY <4>1, <4>2, <4>3
    <3> QED
      BY <3>2, <3>3, <3>4, <1>4, <1>5 DEF Exact
  <2>2. CASE s # Current
    BY <2>2, <1>1 DEF MigrationInv, TypesOK, Exact
  <2> QED
    BY <2>1, <2>2
<1>8. InOrder'
  <2>1. Recorded' = Append(Recorded, NewRow) /\ Declared' = Declared /\ Current' = Current
    BY <1>1, <1>3 DEF Recorded, Declared, Current, MigrationInv, TypesOK
  <2>2. Len(Recorded') = Len(Recorded) + 1 /\ DOMAIN Recorded' = 1..(Len(Recorded) + 1)
    BY <2>1, <1>4, LenProperties DEF Recorded
  <2>3. Len(Declared) \in Nat /\ Len(Recorded) \in Nat /\ DOMAIN Recorded = 1..Len(Recorded)
    BY InHand DEF MigrationInv
  <2>4. Continues
    BY <1>3 DEF MigrationInv, InOrder
  <2>5. ASSUME NEW i \in 1..(Len(Recorded) + 1) PROVE Recorded'[i] = Row(i - 1, Declared[i])
    <3>1. CASE i \in 1..Len(Recorded)
      BY <3>1, <2>1, <2>3, <2>4, <1>4 DEF Continues, Recorded
    <3>2. CASE i = Len(Recorded) + 1
      BY <3>2, <2>1, <2>3, <1>1, <1>4 DEF Recorded, NewRow
    <3> QED
      BY <3>1, <3>2, <2>3
  <2>6. Continues'
    BY <2>1, <2>2, <2>3, <2>5, <1>1 DEF Continues
  <2> QED
    BY <2>2, <2>6, <1>1, <1>3 DEF InOrder
<1>9. Progress'
  <2>1. ASSUME NEW k \in 1..(schema - 1) PROVE Complete(Schemas[k])'
    <3>1. k \in 1..Len(Schemas) /\ k # schema /\ schema \in 1..Len(Schemas)
      BY SchemaNames DEF MigrationInv, TypesOK
    <3>2. Schemas[k] \in Names /\ Schemas[k] # Current
      BY <3>1, SchemaNames, MigrationAssumption DEF Current
    <3>3. Complete(Schemas[k])
      BY <1>3 DEF MigrationInv, Progress
    <3> QED
      BY <3>2, <3>3, <1>1, <1>3 DEF MigrationInv, TypesOK, Complete
  <2> QED
    BY <2>1, <1>3 DEF Progress
<1>10. TxFits'
  BY <1>3 DEF TxFits, NoTx
<1> QED
  BY <1>6, <1>7, <1>8, <1>9, <1>10 DEF MigrationInv

\* A step that leaves the database and the program's place alone.
LEMMA Untouched ==
  ASSUME MigrationInv, UNCHANGED <<applied, made, program, schema>>
  PROVE  /\ Current' = Current /\ Declared' = Declared /\ Recorded' = Recorded
         /\ Continues' = Continues
         /\ \A s \in Names : Exact(s)' /\ (Complete(s)' <=> Complete(s))
<1>1. Current' = Current /\ Declared' = Declared /\ Recorded' = Recorded
  BY DEF Current, Declared, Recorded
<1>2. \A s \in Names : Exact(s)' /\ (Complete(s)' <=> Complete(s))
  BY DEF MigrationInv, Exact, Complete
<1> QED
  BY <1>1, <1>2 DEF Continues

\* Every step of a start keeps the invariant.
LEMMA MigrateKeeps == ASSUME MigrationInv, Migrate PROVE MigrationInv'
<1>1. CASE Start
  <2>1. TypesOK'
    BY <1>1, MigrationAssumption, SchemaNames DEF Start, MigrationInv, TypesOK, Boot
  <2>2. \A s \in Names : Exact(s)'
    BY <1>1 DEF Start, MigrationInv, Exact
  <2>3. tx = NoTx
    BY <1>1 DEF Start, MigrationInv, TxFits
  <2> QED
    BY <1>1, <2>1, <2>2, <2>3 DEF Start, MigrationInv, TxFits, NoTx, InOrder, Progress
<1>2. CASE Check
  <2>1. TypesOK'
    BY <1>2, InHand DEF Check, MigrationInv, TypesOK, Boot
  <2>2. tx = NoTx /\ tx' = tx
    BY <1>2 DEF Check, MigrationInv, TxFits
  <2>3. InOrder'
    BY <1>2, Untouched DEF Check, InOrder
  <2>4. Progress'
    <3>1. \A k \in 1..(schema - 1) : Complete(Schemas[k])'
      BY <1>2, Untouched, SchemaNames DEF Check, MigrationInv, TypesOK, Progress
    <3> QED
      BY <1>2, <3>1 DEF Check, Progress
  <2> QED
    BY <1>2, <2>1, <2>2, <2>3, <2>4, Untouched DEF Check, MigrationInv, TxFits, NoTx
<1>3. CASE Begin \/ RunBody \/ RunRecord
  <2>1. UNCHANGED <<applied, made, program, boot, schema, index>> /\ boot = "apply"
    BY <1>3 DEF Begin, RunBody, RunRecord, InTransaction
  <2>2. TypesOK' /\ InOrder'
    BY <2>1, Untouched DEF MigrationInv, TypesOK, InOrder
  <2>3. Progress'
    BY <2>1, Untouched, SchemaNames DEF MigrationInv, TypesOK, Progress
  <2>4. Body' = Body /\ NewRow' = NewRow /\ Declared' = Declared
    BY <2>1, Untouched DEF Body, NewRow
  <2>5. TxFits
    BY DEF MigrationInv
  <2>6. TxFits'
    <3>1. CASE Begin
      BY <3>1, <2>1, <2>4, <2>5 DEF Begin, InTransaction, TxFits, NoTx, Tx
    <3>2. CASE RunBody
      <4>1. tx = Tx("begun", <<>>, <<>>) /\ index <= Len(Declared)
        BY <3>2, <2>5 DEF RunBody, InTransaction, TxFits, NoTx, Tx
      <4>2. tx' = Tx("body", <<Body>>, <<>>)
        BY <3>2, <4>1 DEF RunBody, InTransaction, Tx, Body
      <4> QED
        BY <4>1, <4>2, <2>1, <2>4 DEF TxFits
    <3>3. CASE RunRecord
      <4>1. tx = Tx("body", <<Body>>, <<>>) /\ index <= Len(Declared)
        BY <3>3, <2>5 DEF RunRecord, InTransaction, TxFits, NoTx, Tx
      <4>2. tx' = Tx("record", <<Body>>, <<NewRow>>)
        BY <3>3, <4>1 DEF RunRecord, InTransaction, Tx, NewRow
      <4> QED
        BY <4>1, <4>2, <2>1, <2>4 DEF TxFits
    <3> QED
      BY <1>3, <3>1, <3>2, <3>3
  <2> QED
    BY <2>1, <2>2, <2>3, <2>6, Untouched DEF MigrationInv
<1>4. CASE Commit
  BY <1>4, CommitKeeps
<1>5. CASE SchemaDone
  <2>1. TypesOK'
    BY <1>5, SchemaNames DEF SchemaDone, MigrationInv, TypesOK, Boot
  <2>2. Complete(Current)
    BY <1>5, InHand DEF SchemaDone, MigrationInv, InOrder, Continues, Complete, Recorded, Declared
  <2>3. \A k \in 1..schema : Complete(Schemas[k])
    BY <1>5, <2>2 DEF SchemaDone, MigrationInv, TypesOK, Progress, Current
  <2>4. \A s \in Names : Exact(s)' /\ (Complete(s)' <=> Complete(s))
    BY <1>5 DEF SchemaDone, MigrationInv, Exact, Complete
  <2>5. Progress'
    <3>1. CASE schema < Len(Schemas)
      BY <1>5, <3>1, <2>3, <2>4, SchemaNames DEF SchemaDone, MigrationInv, TypesOK, Progress
    <3>2. CASE schema = Len(Schemas)
      BY <1>5, <3>2, <2>3, <2>4, SchemaNames DEF SchemaDone, Progress
    <3>3. schema \in 1..Len(Schemas) /\ Len(Schemas) \in Nat
      BY SchemaNames DEF MigrationInv, TypesOK
    <3>4. schema < Len(Schemas) \/ schema = Len(Schemas)
      BY <3>3
    <3> QED
      BY <3>1, <3>2, <3>4
  <2> QED
    BY <1>5, <2>1, <2>4, <2>5 DEF SchemaDone, MigrationInv, TxFits, NoTx, InOrder
<1>6. CASE StatementFails
  BY <1>6, Untouched DEF StatementFails, MigrationInv, TypesOK, Boot, TxFits, NoTx, InOrder, Progress
<1> QED
  BY <1>1, <1>2, <1>3, <1>4, <1>5, <1>6 DEF Migrate

\* So does the end of the process, and every step of the desktop that has its database.
LEMMA DesktopKeeps == MigrationInv /\ [Next]_vars => MigrationInv'
<1> SUFFICES ASSUME MigrationInv, [Next]_vars PROVE MigrationInv'
  OBVIOUS
<1>1. CASE Booting
  BY <1>1, MigrateKeeps DEF Booting
<1>2. CASE End
  BY <1>2, Untouched DEF End, MigrationsEnd, MigrationInv, TypesOK, Boot, TxFits, NoTx, InOrder, Progress
<1>3. CASE UNCHANGED migrationVars
  <2>1. TypesOK' /\ InOrder'
    BY <1>3, Untouched DEF migrationVars, MigrationInv, TypesOK, InOrder
  <2>2. Progress'
    BY <1>3, Untouched, SchemaNames DEF migrationVars, MigrationInv, TypesOK, Progress
  <2>3. TxFits'
    BY <1>3, Untouched DEF migrationVars, MigrationInv, TxFits, Body, NewRow
  <2> QED
    BY <1>3, <2>1, <2>2, <2>3, Untouched DEF migrationVars, MigrationInv
<1> QED
  BY <1>1, <1>2, <1>3 DEF Next, StartRuntime, Publishing, Showing, Permitting, vars

\* The invariant says what the property says, as functions.
LEMMA ExactIsExact == MigrationInv => RecordIsExact
<1> SUFFICES ASSUME MigrationInv, NEW s \in Names
             PROVE  /\ made[s] = [i \in DOMAIN applied[s] |-> applied[s][i].checksum]
                    /\ \A i \in DOMAIN applied[s] : applied[s][i].version = i - 1
                    /\ boot = "ready" => applied[s] = Rows(program[s])
  BY DEF RecordIsExact
<1>1. /\ applied[s] \in Seq(RowSet) /\ made[s] \in Seq(Text) /\ program[s] \in Seq(Migration)
      /\ Exact(s)
  BY DEF MigrationInv, TypesOK
<1>2. /\ applied[s] \in [1..Len(applied[s]) -> RowSet] /\ DOMAIN applied[s] = 1..Len(applied[s])
      /\ made[s] \in [1..Len(made[s]) -> Text]
      /\ DOMAIN program[s] = 1..Len(program[s])
  BY <1>1, LenProperties
<1>3. made[s] = [i \in DOMAIN applied[s] |-> applied[s][i].checksum]
  BY <1>1, <1>2 DEF Exact
<1>4. ASSUME boot = "ready" PROVE applied[s] = Rows(program[s])
  <2>1. Complete(s)
    BY <1>4 DEF MigrationInv, Progress
  <2> QED
    BY <2>1, <1>2 DEF Complete, Rows
<1> QED
  BY <1>1, <1>2, <1>3, <1>4 DEF Exact

\* Whatever crashes and fails and whichever versions take turns, _migrations names exactly
\* the bodies whose effect is in the database, and a program that starts finds its own.
THEOREM RecordAlwaysExact == Spec => []RecordIsExact
<1>1. Init => MigrationInv
  BY MigrationStarts DEF Init
<1> QED
  BY <1>1, DesktopKeeps, ExactIsExact, PTL DEF Spec
-----------------------------------------------------------------------------
(* The permission slot: a prompt that is still to be answered is the one   *)
(* whose reply is held, or its request is gone or was answered unseen.     *)

Asked == 1..MaxAsks
AskStates == {"unmade", "open", "gone", "refused", "yes", "no"}
Reply == [saw : Asked, decision : Decisions, at : {"sent", "returned"}]

SlotTypes ==
  /\ asks \in [Asked -> AskStates] /\ answering \in [Asked -> Asked \union {0}]
  /\ requests \in Seq(Asked) /\ slot \in Asked \union {0}
  /\ prompts \in Seq(Asked) /\ prompt \in Asked \union {0}
  /\ answers \in Seq(Reply) /\ hasty \in BOOLEAN

\* Answered while another prompt was shown; a prompt that does not answer for itself.
Astray(n) == answering[n] \notin {0, n}
Excused(n) == asks[n] = "gone" \/ Astray(n)

Queued(n) == \E i \in DOMAIN requests : requests[i] = n
Coming(n) == \E i \in DOMAIN prompts : prompts[i] = n
Seen(n) == n = prompt \/ \E i \in DOMAIN answers : answers[i].saw = n

\* A request in the channel has been nowhere else yet, a prompt in the webview's
\* queue has not been shown yet, and a request in the slot has no answer yet.
Unseen(n) ==
  n # slot /\ ~Coming(n) /\ ~Seen(n) /\ answering[n] = 0 /\ \A m \in Asked : answering[m] # n

Numbered ==
  /\ \A i, j \in DOMAIN requests : i # j => requests[i] # requests[j]
  /\ \A i, j \in DOMAIN prompts : i # j => prompts[i] # prompts[j]
  /\ \A n \in Asked : Queued(n) => Unseen(n)
  /\ \A n \in Asked : asks[n] = "unmade" => Unseen(n) /\ ~Queued(n)
  /\ \A n \in Asked : Coming(n) => ~Seen(n)
  /\ \A n \in Asked : n = slot => answering[n] = 0

\* The reply that is held is that of this prompt, or it needs none any more.
Due(n) == n = slot \/ Excused(n)

Pending(n) == answers # <<>> /\ answers[1].at = "sent" /\ answers[1].saw = n
Settled(n) == answers # <<>> /\ answers[1].at = "returned" /\ answers[1].saw = n

Patient ==
  /\ Len(answers) <= 1
  /\ \A n \in Asked : Coming(n) \/ Pending(n) => Due(n)
  /\ \A n \in Asked : n = prompt => Due(n) \/ Settled(n)
  /\ \A n, m \in Asked : answering[n] = m /\ n # m => Excused(m)

SlotInv == SlotTypes /\ Numbered /\ (~hasty => Patient)

\* At the start nothing is asked.
LEMMA SlotStarts == SlotInit => SlotInv
<1> SUFFICES ASSUME SlotInit PROVE SlotInv
  OBVIOUS
<1>1. /\ <<>> \in Seq(Asked) /\ <<>> \in Seq(Reply) /\ DOMAIN requests = {} /\ DOMAIN prompts = {}
      /\ DOMAIN answers = {} /\ Len(answers) = 0
  BY EmptySeq DEF SlotInit
<1>2. SlotTypes
  BY <1>1 DEF SlotInit, SlotTypes, Asked, AskStates
<1>3. \A n \in Asked : n # 0
  BY DEF Asked
<1>4. Numbered
  BY <1>1, <1>3 DEF SlotInit, Numbered, Unseen, Asked, Queued, Coming, Seen
<1>5. Patient
  BY <1>1, <1>3 DEF SlotInit, Patient, Pending, Coming, Asked
<1> QED
  BY <1>2, <1>4, <1>5 DEF SlotInv

\* A sequence and its places.
LEMMA SlotPlaces ==
  ASSUME SlotTypes
  PROVE  /\ DOMAIN requests = 1..Len(requests) /\ Len(requests) \in Nat
         /\ DOMAIN prompts = 1..Len(prompts) /\ Len(prompts) \in Nat
         /\ DOMAIN answers = 1..Len(answers) /\ Len(answers) \in Nat
         /\ \A i \in DOMAIN requests : requests[i] \in Asked
         /\ \A i \in DOMAIN prompts : prompts[i] \in Asked
         /\ \A i \in DOMAIN answers : answers[i] \in Reply
         /\ \A n \in Asked : n # 0
         /\ \A n \in Asked : asks[n] \in AskStates /\ answering[n] \in Asked \union {0}
<1>1. \A n \in Asked : n # 0
  BY DEF Asked
<1> QED
  BY <1>1, LenProperties, ElementOfSeq DEF SlotTypes

\* A request is made: it is in the channel, and nowhere else.
LEMMA AskKeeps == ASSUME SlotInv, Ask PROVE SlotInv'
<1>1. PICK n \in Asked : /\ asks[n] = "unmade" /\ asks' = [asks EXCEPT ![n] = "open"]
                         /\ requests' = Append(requests, n)
  BY DEF Ask, SlotInv, SlotTypes
<1>2. UNCHANGED <<answering, slot, prompts, prompt, answers, hasty>>
  BY DEF Ask
<1>3. SlotTypes /\ Numbered /\ requests \in Seq(Asked)
  BY DEF SlotInv, SlotTypes
<1>4. SlotTypes'
  BY <1>1, <1>2, <1>3, Appended DEF SlotTypes, AskStates
<1>5. Unseen(n) /\ ~Queued(n)
  BY <1>1, <1>3 DEF Numbered
<1>6. ASSUME NEW m \in Asked
      PROVE  /\ Unseen(m)' <=> Unseen(m)
             /\ Coming(m)' <=> Coming(m)
             /\ Seen(m)' <=> Seen(m)
             /\ Pending(m)' <=> Pending(m)
             /\ Settled(m)' <=> Settled(m)
             /\ Astray(m)' <=> Astray(m)
             /\ asks'[m] = IF m = n THEN "open" ELSE asks[m]
  BY <1>1, <1>2, <1>3 DEF Unseen, Coming, Seen, Pending, Settled, Astray, SlotTypes
<1>7. /\ DOMAIN requests' = DOMAIN requests \union {Len(requests) + 1}
      /\ \A i \in DOMAIN requests : requests'[i] = requests[i]
      /\ requests'[Len(requests) + 1] = n /\ Len(requests) + 1 \notin DOMAIN requests
  BY <1>1, <1>3, Appended
<1>8. \A m \in Asked : Queued(m)' <=> Queued(m) \/ m = n
  BY <1>7 DEF Queued
<1>9. Numbered'
  <2>1. \A i, j \in DOMAIN requests' : i # j => requests'[i] # requests'[j]
    BY <1>3, <1>5, <1>7 DEF Numbered, Queued
  <2>2. \A i, j \in DOMAIN prompts' : i # j => prompts'[i] # prompts'[j]
    BY <1>2, <1>3 DEF Numbered
  <2> QED
    BY <1>2, <1>3, <1>5, <1>6, <1>8, <2>1, <2>2 DEF Numbered
<1>10. ASSUME ~hasty' PROVE Patient'
  <2>1. Patient
    BY <1>2, <1>10 DEF SlotInv
  <2>2. \A m \in Asked : (Excused(m) => Excused(m)') /\ (Due(m) => Due(m)')
    BY <1>1, <1>2, <1>6 DEF Excused, Due
  <2> QED
    BY <1>2, <1>6, <2>1, <2>2 DEF Patient
<1> QED
  BY <1>4, <1>9, <1>10 DEF SlotInv

\* Requests that are only closed, where they are, change nothing for the others.
LEMMA WithdrawKeeps ==
  ASSUME SlotInv, asks' \in [Asked -> AskStates],
         UNCHANGED <<answering, requests, slot, prompts, prompt, answers, hasty>>,
         \A n \in Asked : asks[n] = "gone" => asks'[n] = "gone",
         \A n \in Asked : asks'[n] = "unmade" => asks[n] = "unmade"
  PROVE  SlotInv'
<1>1. SlotTypes /\ Numbered
  BY DEF SlotInv
<1>2. SlotTypes'
  BY <1>1 DEF SlotTypes
<1>3. ASSUME NEW m \in Asked
      PROVE  /\ Unseen(m)' <=> Unseen(m)
             /\ Coming(m)' <=> Coming(m)
             /\ Queued(m)' <=> Queued(m)
             /\ Seen(m)' <=> Seen(m)
             /\ Pending(m)' <=> Pending(m)
             /\ Settled(m)' <=> Settled(m)
             /\ Excused(m) => Excused(m)'
             /\ Due(m) => Due(m)'
  BY DEF Unseen, Coming, Queued, Seen, Pending, Settled, Astray, Excused, Due
<1>4. Numbered'
  BY <1>1, <1>3 DEF Numbered
<1>5. ASSUME ~hasty' PROVE Patient'
  BY <1>3, <1>5 DEF Patient, SlotInv
<1> QED
  BY <1>2, <1>4, <1>5 DEF SlotInv

\* A request is forwarded over an empty slot, or over one whose request is gone.
LEMMA ForwardKeeps == ASSUME SlotInv, Forward PROVE SlotInv'
<1>1. SlotTypes /\ Numbered /\ requests \in Seq(Asked) /\ requests # <<>> /\ prompts \in Seq(Asked)
  BY DEF SlotInv, SlotTypes, Forward
<1>2. /\ requests' = Tail(requests) /\ Head(requests) = requests[1] /\ 1 \in DOMAIN requests
      /\ requests' \in Seq(Asked) /\ requests[1] \in Asked
      /\ \A i \in DOMAIN requests' : i + 1 \in DOMAIN requests /\ i + 1 # 1 /\ i \in Nat
                                     /\ requests'[i] = requests[i + 1]
  BY <1>1, Tailed DEF Forward
<1>3. UNCHANGED <<answering, prompt, answers, hasty>>
  BY DEF Forward
<1>4. PICK n \in Asked : n = requests[1]
  BY <1>2
<1>5. Queued(n) /\ Unseen(n) /\ n # 0
  BY <1>1, <1>2, <1>4 DEF Numbered, Queued, Asked
<1>6. \A m \in Asked : Queued(m)' => Queued(m) /\ m # n
  BY <1>1, <1>2, <1>4 DEF Numbered, Queued
<1>7. \A i, j \in DOMAIN requests' : i # j => requests'[i] # requests'[j]
  BY <1>1, <1>2 DEF Numbered
<1>8. ASSUME NEW m \in Asked
      PROVE  /\ Seen(m)' <=> Seen(m)
             /\ Pending(m)' <=> Pending(m)
             /\ Settled(m)' <=> Settled(m)
             /\ Astray(m)' <=> Astray(m)
  BY <1>3 DEF Seen, Pending, Settled, Astray
<1>9. CASE Occupied
  <2>1. asks' = [asks EXCEPT ![n] = "refused"] /\ UNCHANGED <<slot, prompts>>
    BY <1>2, <1>4, <1>9 DEF Forward
  <2>2. SlotTypes'
    BY <1>1, <1>2, <1>3, <2>1 DEF SlotTypes, AskStates
  <2>3. ASSUME NEW m \in Asked
        PROVE  /\ Unseen(m)' <=> Unseen(m)
               /\ Coming(m)' <=> Coming(m)
               /\ asks'[m] = IF m = n THEN "refused" ELSE asks[m]
    BY <1>1, <1>3, <2>1 DEF Unseen, Coming, Seen, SlotTypes
  <2>4. Numbered'
    BY <1>1, <1>3, <1>6, <1>7, <1>8, <2>1, <2>3 DEF Numbered
  <2>5. ASSUME ~hasty' PROVE Patient'
    <3>1. Patient
      BY <1>3, <2>5 DEF SlotInv
    <3>2. \A m \in Asked : m # n => (Excused(m) => Excused(m)') /\ (Due(m) => Due(m)')
      BY <1>8, <2>1, <2>3 DEF Due, Excused
    <3>3. \A m \in Asked : Coming(m) \/ Pending(m) \/ m = prompt \/ (\E k \in Asked : answering[k] = m) => m # n
      BY <1>5, <1>1, Tailed DEF Unseen, Seen, Pending, SlotTypes
    <3> QED
      BY <1>3, <1>8, <2>3, <3>1, <3>2, <3>3 DEF Patient
  <2> QED
    BY <2>2, <2>4, <2>5 DEF SlotInv
<1>10. CASE ~Occupied
  <2>1. slot' = n /\ prompts' = Append(prompts, n) /\ UNCHANGED asks
    BY <1>2, <1>4, <1>10 DEF Forward
  <2>2. /\ prompts' \in Seq(Asked)
        /\ DOMAIN prompts' = DOMAIN prompts \union {Len(prompts) + 1}
        /\ \A i \in DOMAIN prompts : prompts'[i] = prompts[i]
        /\ prompts'[Len(prompts) + 1] = n /\ Len(prompts) + 1 \notin DOMAIN prompts
    BY <1>1, <2>1, Appended
  <2>3. SlotTypes'
    BY <1>1, <1>2, <1>3, <2>1, <2>2 DEF SlotTypes
  <2>4. ASSUME NEW m \in Asked
        PROVE  /\ Coming(m)' <=> Coming(m) \/ m = n
               /\ m # n /\ Unseen(m) => Unseen(m)'
               /\ Excused(m)' <=> Excused(m)
    <3>1. Coming(m)' <=> Coming(m) \/ m = n
      BY <2>2 DEF Coming
    <3> QED
      BY <1>3, <1>8, <2>1, <3>1 DEF Unseen, Excused
  <2>5. Numbered'
    <3>1. \A i, j \in DOMAIN prompts' : i # j => prompts'[i] # prompts'[j]
      BY <1>1, <1>5, <2>2 DEF Numbered, Unseen, Coming
    <3>2. \A m \in Asked : asks'[m] = "unmade" => Unseen(m)' /\ ~Queued(m)'
      BY <1>1, <1>5, <1>6, <2>1, <2>4 DEF Numbered
    <3>3. \A m \in Asked : Coming(m)' => ~Seen(m)'
      BY <1>1, <1>5, <1>8, <2>4 DEF Numbered, Unseen
    <3>4. \A m \in Asked : m = slot' => answering'[m] = 0
      BY <1>3, <1>5, <2>1 DEF Unseen
    <3>5. \A m \in Asked : Queued(m)' => Unseen(m)'
      BY <1>1, <1>6, <2>4 DEF Numbered
    <3> QED
      BY <1>7, <3>1, <3>2, <3>3, <3>4, <3>5 DEF Numbered
  <2>6. ASSUME ~hasty' PROVE Patient'
    <3>1. Patient
      BY <1>3, <2>6 DEF SlotInv
    <3>2. \A m \in Asked : Due(m) => Excused(m)
      BY <1>1, <1>10, SlotPlaces DEF Due, Occupied, IsClosed, Excused
    <3>3. \A m \in Asked : Due(m)' <=> m = n \/ Excused(m)
      BY <2>1, <2>4 DEF Due
    <3> QED
      BY <1>3, <1>8, <2>4, <3>1, <3>2, <3>3 DEF Patient
  <2> QED
    BY <2>3, <2>5, <2>6 DEF SlotInv
<1> QED
  BY <1>9, <1>10

\* The prompt that is shown next has been neither shown nor answered.
LEMMA ShowKeeps == ASSUME SlotInv, Show PROVE SlotInv'
<1>1. SlotTypes /\ Numbered /\ prompts \in Seq(Asked) /\ prompts # <<>>
  BY DEF SlotInv, SlotTypes, Show
<1>2. /\ prompts' = Tail(prompts) /\ Head(prompts) = prompts[1] /\ 1 \in DOMAIN prompts
      /\ prompts' \in Seq(Asked) /\ prompts[1] \in Asked
      /\ \A i \in DOMAIN prompts' : i + 1 \in DOMAIN prompts /\ i + 1 # 1 /\ i \in Nat
                                    /\ prompts'[i] = prompts[i + 1]
  BY <1>1, Tailed DEF Show
<1>3. UNCHANGED <<asks, answering, requests, slot, answers, hasty>>
  BY DEF Show
<1>4. PICK n \in Asked : n = prompts[1] /\ prompt' = n
  BY <1>2 DEF Show
<1>5. Coming(n) /\ ~Seen(n)
  BY <1>1, <1>2, <1>4 DEF Numbered, Coming
<1>6. \A m \in Asked : Coming(m)' => Coming(m) /\ m # n
  BY <1>1, <1>2, <1>4 DEF Numbered, Coming
<1>7. \A i, j \in DOMAIN prompts' : i # j => prompts'[i] # prompts'[j]
  BY <1>1, <1>2 DEF Numbered
<1>8. ASSUME NEW m \in Asked
      PROVE  /\ Seen(m)' => Seen(m) \/ m = n
             /\ Queued(m)' <=> Queued(m)
             /\ Pending(m)' <=> Pending(m)
             /\ Due(m)' <=> Due(m)
             /\ Excused(m)' <=> Excused(m)
             /\ m # n /\ Unseen(m) => Unseen(m)'
  <2>1. Seen(m)' => Seen(m) \/ m = n
    BY <1>3, <1>4 DEF Seen
  <2> QED
    BY <1>3, <1>6, <2>1 DEF Queued, Pending, Due, Excused, Astray, Unseen
<1>9. SlotTypes'
  BY <1>1, <1>2, <1>3, <1>4 DEF SlotTypes
<1>10. Numbered'
  <2>1. \A m \in Asked : Unseen(m) => m # n
    BY <1>5 DEF Unseen
  <2> QED
    BY <1>1, <1>3, <1>6, <1>7, <1>8, <2>1 DEF Numbered
<1>11. ASSUME ~hasty' PROVE Patient'
  BY <1>3, <1>4, <1>5, <1>6, <1>8, <1>11 DEF Patient, SlotInv
<1> QED
  BY <1>9, <1>10, <1>11 DEF SlotInv

\* The user answers the prompt on the screen.
LEMMA AnswerKeeps == ASSUME SlotInv, Answer PROVE SlotInv'
<1>1. SlotTypes /\ Numbered /\ answers \in Seq(Reply) /\ prompt \in Asked /\ prompt # 0
  BY DEF SlotInv, SlotTypes, Answer
<1>2. PICK r \in Reply : r.saw = prompt /\ r.at = "sent" /\ answers' = Append(answers, r)
  <2>1. PICK d \in Decisions : answers' = Append(answers, [saw |-> prompt, decision |-> d, at |-> "sent"])
    BY DEF Answer
  <2>2. [saw |-> prompt, decision |-> d, at |-> "sent"] \in Reply
    BY <1>1 DEF Reply
  <2> QED
    BY <2>1, <2>2
<1>3. /\ UNCHANGED <<asks, answering, requests, slot, prompts, prompt>>
      /\ hasty' = (hasty \/ answers # <<>>)
  BY DEF Answer
<1>4. /\ answers' \in Seq(Reply) /\ DOMAIN answers' = DOMAIN answers \union {Len(answers) + 1}
      /\ \A i \in DOMAIN answers : answers'[i] = answers[i]
      /\ answers'[Len(answers) + 1] = r /\ Len(answers') = Len(answers) + 1
  BY <1>1, <1>2, Appended
<1>5. ASSUME NEW m \in Asked
      PROVE  /\ Seen(m)' <=> Seen(m)
             /\ Queued(m)' <=> Queued(m)
             /\ Coming(m)' <=> Coming(m)
             /\ Due(m)' <=> Due(m)
             /\ Excused(m)' <=> Excused(m)
             /\ Unseen(m)' <=> Unseen(m)
  <2>1. Seen(m)' <=> Seen(m)
    BY <1>2, <1>3, <1>4 DEF Seen
  <2> QED
    BY <1>3, <2>1 DEF Queued, Coming, Due, Excused, Astray, Unseen
<1>6. SlotTypes'
  BY <1>1, <1>3, <1>4 DEF SlotTypes
<1>7. Numbered'
  BY <1>1, <1>3, <1>5 DEF Numbered
<1>8. ASSUME ~hasty' PROVE Patient'
  <2>1. answers = <<>> /\ Patient /\ Len(answers) = 0
    BY <1>3, <1>8, EmptySeq DEF SlotInv, SlotTypes
  <2>2. answers'[1] = r /\ Len(answers') = 1 /\ Due(prompt)
    BY <1>1, <1>4, <2>1 DEF Patient, Settled
  <2>3. \A m \in Asked : Pending(m)' => m = prompt
    BY <1>2, <2>2 DEF Pending
  <2> QED
    BY <1>1, <1>3, <1>5, <2>1, <2>2, <2>3 DEF Patient
<1> QED
  BY <1>6, <1>7, <1>8 DEF SlotInv

\* The first command that arrives decides the request whose reply is held.
LEMMA RespondKeeps == ASSUME SlotInv, Respond PROVE SlotInv'
<1>1. SlotTypes /\ Numbered /\ answers \in Seq(Reply)
  BY DEF SlotInv, SlotTypes
<1>2. PICK k \in DOMAIN answers :
        /\ answers[k].at = "sent" /\ answers' = [answers EXCEPT ![k].at = "returned"]
        /\ IF slot = 0 \/ IsClosed(slot) THEN UNCHANGED <<asks, answering>>
           ELSE /\ asks' = [asks EXCEPT ![slot] = IF answers[k].decision = "yes" THEN "yes" ELSE "no"]
                /\ answering' = [answering EXCEPT ![slot] = answers[k].saw]
  BY DEF Respond
<1>3. slot' = 0 /\ UNCHANGED <<requests, prompts, prompt, hasty>>
  BY DEF Respond
<1>4. /\ answers[k] \in Reply /\ answers' \in Seq(Reply) /\ Len(answers') = Len(answers)
      /\ DOMAIN answers' = DOMAIN answers /\ DOMAIN answers = 1..Len(answers)
      /\ \A i \in DOMAIN answers : answers'[i].saw = answers[i].saw
      /\ answers'[k].at = "returned"
  <2>1. answers[k] \in Reply /\ DOMAIN answers = 1..Len(answers)
    BY <1>1, <1>2, SlotPlaces
  <2>2. [answers[k] EXCEPT !.at = "returned"] \in Reply
    BY <2>1 DEF Reply
  <2>3. answers' = [answers EXCEPT ![k] = [answers[k] EXCEPT !.at = "returned"]]
    BY <1>2
  <2>4. answers' \in Seq(Reply) /\ Len(answers') = Len(answers)
    BY <1>1, <1>2, <2>1, <2>2, <2>3, ExceptSeq
  <2>5. \A i \in DOMAIN answers : answers[i] \in Reply /\ answers'[i] = IF i = k THEN [answers[k] EXCEPT !.at = "returned"] ELSE answers[i]
    BY <1>1, <2>3, SlotPlaces
  <2> QED
    BY <2>1, <2>3, <2>4, <2>5 DEF Reply
<1>5. PICK s \in Asked : s = answers[k].saw
  BY <1>4 DEF Reply
<1>6. Seen(s)
  BY <1>2, <1>5 DEF Seen
<1>7. ASSUME NEW m \in Asked
      PROVE  /\ Seen(m)' <=> Seen(m)
             /\ Queued(m)' <=> Queued(m)
             /\ Coming(m)' <=> Coming(m)
  BY <1>3, <1>4 DEF Seen, Queued, Coming
<1>8. ~hasty => k = 1
  BY <1>2, <1>4, SlotPlaces, <1>1 DEF SlotInv, Patient
<1>9. CASE slot = 0 \/ IsClosed(slot)
  <2>1. UNCHANGED <<asks, answering>>
    BY <1>2, <1>9
  <2>2. ASSUME NEW m \in Asked
        PROVE  /\ Unseen(m) => Unseen(m)'
               /\ Excused(m)' <=> Excused(m)
               /\ Due(m) => Due(m)'
    BY <1>3, <1>7, <1>9, <2>1, SlotPlaces, <1>1 DEF Unseen, Excused, Astray, Due, IsClosed
  <2>3. SlotTypes'
    BY <1>1, <1>3, <1>4, <2>1 DEF SlotTypes
  <2>4. Numbered'
    BY <1>1, <1>3, <1>7, <2>1, <2>2, SlotPlaces DEF Numbered
  <2>5. ASSUME ~hasty' PROVE Patient'
    <3>1. Patient /\ k = 1
      BY <1>3, <1>8, <2>5 DEF SlotInv
    <3>2. \A m \in Asked : Settled(m) => Settled(m)'
      BY <1>2, <3>1 DEF Settled
    <3>3. \A m \in Asked : ~Pending(m)'
      BY <1>4, <3>1 DEF Pending
    <3> QED
      BY <1>3, <1>4, <1>7, <2>1, <2>2, <3>1, <3>2, <3>3 DEF Patient
  <2> QED
    BY <2>3, <2>4, <2>5 DEF SlotInv
<1>10. CASE ~(slot = 0 \/ IsClosed(slot))
  <2>1. PICK n \in Asked : n = slot
    BY <1>1, <1>10 DEF SlotTypes
  <2>2. \A m \in Asked : /\ asks'[m] = IF m = n THEN asks'[n] ELSE asks[m]
                         /\ answering'[m] = IF m = n THEN s ELSE answering[m]
    BY <1>1, <1>2, <1>5, <1>10, <2>1 DEF SlotTypes
  <2>3. asks'[n] \in {"yes", "no"} /\ asks[n] # "gone" /\ answering[n] = 0
    BY <1>1, <1>2, <1>10, <2>1 DEF SlotTypes, IsClosed, Numbered
  <2>4. SlotTypes'
    BY <1>1, <1>2, <1>3, <1>4, <1>5, <1>10, <2>1 DEF SlotTypes, AskStates
  <2>5. ASSUME NEW m \in Asked
        PROVE  /\ Unseen(m) => Unseen(m)'
               /\ m # n => (Excused(m)' <=> Excused(m))
               /\ n # s => Excused(n)'
               /\ m # s /\ Due(m) => Due(m)'
    <3>1. Unseen(m) => Unseen(m)'
      BY <1>3, <1>6, <1>7, <2>1, <2>2, SlotPlaces, <1>1 DEF Unseen
    <3>2. m # n => (Excused(m)' <=> Excused(m))
      BY <2>2 DEF Excused, Astray
    <3>3. n # s => Excused(n)'
      BY <2>2, <1>1, SlotPlaces DEF Excused, Astray
    <3>4. m # s /\ Due(m) => Due(m)'
      BY <2>1, <3>2, <3>3 DEF Due
    <3> QED
      BY <3>1, <3>2, <3>3, <3>4
  <2>6. Numbered'
    BY <1>1, <1>3, <1>7, <2>2, <2>3, <2>5, SlotPlaces DEF Numbered
  <2>7. ASSUME ~hasty' PROVE Patient'
    <3>1. Patient /\ k = 1 /\ Len(answers') <= 1
      BY <1>3, <1>4, <1>8, <2>7 DEF SlotInv, Patient
    <3>2. \A m \in Asked : ~Pending(m)' /\ (Settled(m)' <=> m = s)
      BY <1>2, <1>4, <1>5, <3>1 DEF Pending, Settled
    <3>3. \A m \in Asked : Coming(m)' => Due(m)'
      BY <1>1, <1>6, <1>7, <2>5, <3>1 DEF Numbered, Patient
    <3>4. \A m \in Asked : m = prompt' => Due(m)' \/ Settled(m)'
      BY <1>2, <1>3, <2>5, <3>1, <3>2 DEF Patient, Settled
    <3>5. ASSUME NEW a \in Asked, NEW b \in Asked, answering'[a] = b, a # b PROVE Excused(b)'
      <4>1. CASE a = n
        <5>1. b = s /\ Pending(s)
          BY <1>2, <1>5, <2>2, <3>1, <3>5, <4>1 DEF Pending
        <5>2. Due(s) /\ s # n
          BY <3>1, <3>5, <4>1, <5>1 DEF Patient
        <5> QED
          BY <2>1, <2>5, <5>1, <5>2 DEF Due
      <4>2. CASE a # n
        <5>1. Excused(b)
          BY <2>2, <3>1, <3>5, <4>2 DEF Patient
        <5>2. b # n
          BY <2>3, <5>1, SlotPlaces, <1>1 DEF Excused, Astray
        <5> QED
          BY <2>5, <5>1, <5>2
      <4> QED
        BY <4>1, <4>2
    <3> QED
      BY <3>1, <3>2, <3>3, <3>4, <3>5 DEF Patient
  <2> QED
    BY <2>4, <2>6, <2>7 DEF SlotInv
<1> QED
  BY <1>9, <1>10

\* The command returns and takes the prompt off the screen, whichever it is.
LEMMA ReturnKeeps == ASSUME SlotInv, Return PROVE SlotInv'
<1>1. SlotTypes /\ Numbered /\ answers \in Seq(Reply) /\ answers # <<>>
  BY DEF SlotInv, SlotTypes, Return
<1>2. /\ answers' = Tail(answers) /\ Len(answers') = Len(answers) - 1 /\ answers' \in Seq(Reply)
      /\ \A i \in DOMAIN answers' : i + 1 \in DOMAIN answers /\ answers'[i] = answers[i + 1]
  BY <1>1, Tailed DEF Return
<1>3. prompt' = 0 /\ UNCHANGED <<asks, answering, requests, slot, prompts, hasty>>
  BY DEF Return
<1>4. ASSUME NEW m \in Asked
      PROVE  /\ m # 0
             /\ Seen(m)' => Seen(m)
             /\ Queued(m)' <=> Queued(m)
             /\ Coming(m)' <=> Coming(m)
             /\ Excused(m)' <=> Excused(m)
             /\ Due(m)' <=> Due(m)
             /\ Unseen(m) => Unseen(m)'
  <2>1. m # 0
    BY DEF Asked
  <2>2. Seen(m)' => Seen(m)
    BY <1>2, <1>3, <2>1 DEF Seen
  <2> QED
    BY <1>3, <2>1, <2>2 DEF Queued, Coming, Excused, Astray, Due, Unseen
<1>5. SlotTypes'
  BY <1>1, <1>2, <1>3 DEF SlotTypes
<1>6. Numbered'
  BY <1>1, <1>3, <1>4 DEF Numbered
<1>7. ASSUME ~hasty' PROVE Patient'
  <2>1. Patient
    BY <1>3, <1>7 DEF SlotInv
  <2>2. Len(answers') = 0 /\ answers' = <<>>
    BY <1>1, <1>2, <2>1, LenProperties, EmptySeq DEF Patient
  <2> QED
    BY <1>3, <1>4, <2>1, <2>2 DEF Patient, Pending
<1> QED
  BY <1>5, <1>6, <1>7 DEF SlotInv

\* A process that ends takes the requests and the prompts with it.
LEMMA SlotEnds ==
  ASSUME SlotInv, End
  PROVE  SlotInv'
<1>1. SlotTypes /\ Numbered
  BY DEF SlotInv
<1>2. /\ asks' = [n \in Asked |-> IF asks[n] = "open" THEN "gone" ELSE asks[n]]
      /\ requests' = <<>> /\ slot' = 0 /\ prompts' = <<>> /\ prompt' = 0 /\ answers' = <<>>
      /\ UNCHANGED <<answering, hasty>>
  BY DEF End, Asked
<1>3. /\ <<>> \in Seq(Asked) /\ <<>> \in Seq(Reply) /\ Len(<<>>) = 0 /\ DOMAIN <<>> = {}
  BY EmptySeq
<1>4. ASSUME NEW m \in Asked
      PROVE  /\ m # 0
             /\ ~Seen(m)' /\ ~Queued(m)' /\ ~Coming(m)' /\ ~Pending(m)'
             /\ Excused(m) => Excused(m)'
             /\ Unseen(m) => Unseen(m)'
             /\ asks'[m] = "unmade" => asks[m] = "unmade"
  <2>1. m # 0
    BY DEF Asked
  <2>2. ~Seen(m)' /\ ~Queued(m)' /\ ~Coming(m)' /\ ~Pending(m)'
    BY <1>2, <1>3, <2>1 DEF Seen, Queued, Coming, Pending
  <2> QED
    BY <1>2, <2>1, <2>2 DEF Excused, Astray, Unseen
<1>5. SlotTypes'
  BY <1>1, <1>2, <1>3 DEF SlotTypes, AskStates
<1>6. Numbered'
  BY <1>1, <1>2, <1>3, <1>4 DEF Numbered
<1>7. ASSUME ~hasty' PROVE Patient'
  BY <1>2, <1>3, <1>4, <1>7 DEF Patient, SlotInv
<1> QED
  BY <1>5, <1>6, <1>7 DEF SlotInv

\* Every step of the desktop keeps the invariant.
LEMMA SlotKeeps == SlotInv /\ [Next]_vars => SlotInv'
<1> SUFFICES ASSUME SlotInv, [Next]_vars PROVE SlotInv'
  OBVIOUS
<1>1. CASE Permit
  <2>1. CASE Withdraw
    <3>1. SlotTypes
      BY DEF SlotInv
    <3>2. PICK n \in Asked : asks[n] = "open" /\ asks' = [asks EXCEPT ![n] = "gone"]
      BY <2>1, <3>1 DEF Withdraw, SlotTypes
    <3>3. /\ asks' \in [Asked -> AskStates]
          /\ \A m \in Asked : asks'[m] = IF m = n THEN "gone" ELSE asks[m]
      BY <3>1, <3>2 DEF SlotTypes, AskStates
    <3> QED
      BY <2>1, <3>3, WithdrawKeeps DEF Withdraw
  <2> QED
    BY <1>1, <2>1, AskKeeps, ForwardKeeps, ShowKeeps, AnswerKeeps, RespondKeeps, ReturnKeeps DEF Permit
<1>2. CASE End
  BY <1>2, SlotEnds
<1>3. CASE UNCHANGED slotVars
  <2>1. asks' \in [Asked -> AskStates]
    BY <1>3 DEF slotVars, SlotInv, SlotTypes
  <2> QED
    BY <1>3, <2>1, WithdrawKeeps DEF slotVars
<1> QED
  BY <1>1, <1>2, <1>3 DEF Next, Booting, StartRuntime, Publishing, Showing, Permitting, vars

\* The invariant says what the property says.
LEMMA SlotAnswers == SlotInv => AnswersItsPrompt
<1> SUFFICES ASSUME SlotInv, NEW n \in Asked, answering[n] \notin {0, n}, ~hasty
             PROVE  asks[answering[n]] = "gone" \/ answering[answering[n]] \notin {0, answering[n]}
  BY DEF AnswersItsPrompt, SlotInv, SlotTypes
<1>1. answering[n] \in Asked
  BY DEF SlotInv, SlotTypes
<1> QED
  BY <1>1 DEF SlotInv, Patient, Excused, Astray

\* What the user decides about one prompt decides no other request, however requests,
\* prompts and answers overtake each other, unless what was on the screen had been
\* withdrawn or decided in this way before, or the user did not wait for a command.
THEOREM PromptsAreAnswered == Spec => []AnswersItsPrompt
<1>1. Init => SlotInv
  BY SlotStarts DEF Init
<1> QED
  BY <1>1, SlotKeeps, SlotAnswers, PTL DEF Spec
-----------------------------------------------------------------------------
(* The hub.  What every step keeps of the types of its state.              *)

Lives == {"none", "live", "settled"}
Frames == [type : {"upsert"}, value : Lives]
            \union [type : {"section", "reset", "end", "item"}, value : Nat]
Stages == {"free", "upsert", "insert", "settle", "artifact", "settled", "section"}

HubTypes ==
  /\ rows \in [life : Lives, artifact : BOOLEAN, stream : Seq(Nat), sections : Seq(Nat)]
  /\ record \in [life : Lives, next : Nat, sub : {"none", "live", "catching"}, buffer : Seq(Nat)]
  /\ driver \in [at : Stages, item : Nat]
  /\ events \in Seq(Frames)
  /\ replay \in [at : {"waiting", "loaded", "done"}, loaded : Seq(Nat)]
  /\ calls \in Seq([kind : {"catch", "tail", "drop"}, at : {"issued", "query", "splice"}, last : Nat])
  /\ ui \in [life : Lives, items : Seq(Nat), sections : Seq(Nat), ended : BOOLEAN,
             sub : [refs : SUBSET {"inline", "tab"}, lastSeq : Nat, catchUp : BOOLEAN]]
  /\ note \in [born : BOOLEAN, failed : BOOLEAN, disturbed : BOOLEAN, missed : SUBSET Nat,
               caught : BOOLEAN, sent : Seq(Nat), before : Seq(Nat)]

(* Sections.  The rows are numbered; a process keeps those of the earlier  *)
(* ones in front.  The burst, reset, sections and end, lies in the channel *)
(* and is read from there: its part k is at place p + k, or was read.      *)

Counts(s) == \A i \in DOMAIN s : s[i] = i
Old == Len(note.before)

SectionRows ==
  /\ Counts(rows.sections) /\ Counts(note.before) /\ Old <= Len(rows.sections)
  /\ replay.at = "loaded" =>
       Counts(replay.loaded) /\ Old <= Len(replay.loaded)
  /\ driver.at = "section" => Old < Len(rows.sections)

BurstPart(k, l) ==
  IF k = 0 THEN Frame("reset", 0) ELSE IF k <= l THEN Frame("section", k) ELSE Frame("end", 0)

\* Before the burst there is no reset and no end.
NoBurst == ~ui.ended /\ \A i \in DOMAIN events : events[i].type \notin {"reset", "end"}

\* The burst of l sections, the last part of which is still in the channel.
InBurst(p, l) ==
  /\ -l <= p /\ p + l + 1 <= Len(events) /\ Old <= l
  /\ \A k \in 0..(l + 1) : p + k >= 1 => events[p + k] = BurstPart(k, l)
  /\ \A i \in DOMAIN events : events[i].type \in {"reset", "end"} => i \in {p, p + l + 1}
  /\ \A i \in DOMAIN events : i > p + l + 1 /\ events[i].type = "section" => events[i].value > Old
  /\ ~ui.ended
  /\ p <= 0 => Len(ui.sections) + p = 0 /\ Counts(ui.sections)

Ended ==
  /\ ui.ended /\ Old <= Len(ui.sections)
  /\ \A k \in DOMAIN ui.sections : IF k <= Old THEN ui.sections[k] = k ELSE ui.sections[k] > Old
  /\ \A i \in DOMAIN events :
       events[i].type # "reset" /\ (events[i].type = "section" => events[i].value > Old)

SectionInv ==
  /\ SectionRows
  /\ replay.at # "done" => NoBurst
  /\ replay.at = "done" => Ended \/ \E p \in Int, l \in Nat : InBurst(p, l)

(* Lives.  What the frontend will have been told when it has read all.     *)

Tells(life) ==
  \/ ui.life = life /\ \A i \in DOMAIN events : events[i].type # "upsert"
  \/ \E i \in DOMAIN events : /\ events[i] = Upsert(life)
                              /\ \A j \in DOMAIN events : j > i => events[j].type # "upsert"

Claimed(life) == ui.life = life \/ \E i \in DOMAIN events : events[i] = Upsert(life)

Written ==
  CASE driver.at = "upsert" -> record.life # "settled" /\ rows.life = "live" /\ Tells(record.life)
    [] driver.at = "settle" -> record.life = "settled" /\ rows.life = "live" /\ Tells("live")
    [] driver.at \in {"artifact", "settled"} ->
         record.life = "settled" /\ rows.life = "settled" /\ Tells("live")
    [] OTHER -> rows.life = record.life /\ Tells(record.life)

LifeInv ==
  /\ ~note.failed => Written
  /\ driver.at = "upsert" => note.born /\ record.life # "settled"
  /\ driver.at \in {"settle", "artifact", "settled"} => record.life = "settled"
  /\ driver.at = "settled" => rows.artifact
  /\ record.life = "live" => note.born
  /\ Claimed("live") => note.born /\ record.life # "none"
  /\ Claimed("settled") => record.life = "settled" /\ (note.born => rows.artifact)

(* The splice.  Rows are in the order of their numbers, and so is what is  *)
(* buffered; a number without a row is behind them.                        *)

Rising(s) == \A i, j \in DOMAIN s : i < j => s[i] < s[j]
In(x, s) == \E i \in DOMAIN s : s[i] = x
UpTo(s, n) == \A i \in DOMAIN s : s[i] <= n

StreamInv ==
  /\ Rising(rows.stream) /\ Rising(record.buffer) /\ UpTo(record.buffer, record.next)
  /\ record.life = "live" => UpTo(rows.stream, record.next)
  /\ record.life = "none" =>
       rows.stream = <<>> /\ record.next = 0 /\ calls = <<>> /\ ~note.caught /\ ui.sub.refs = {}
  /\ rows.life = "none" => record.life = "none" /\ driver.at # "upsert"
  /\ driver.at = "upsert" => record.life # "settled"
  /\ driver.at = "insert" =>
       /\ record.life = "live" /\ driver.item = record.next /\ driver.item > 0
       /\ \A i \in DOMAIN rows.stream : rows.stream[i] < driver.item

Querying ==
  /\ Len(calls) = 1 /\ calls[1].at = "query" /\ record.sub = "catching" /\ note.sent = <<>>
  /\ driver.at = "insert" => driver.item \in note.missed \/ In(driver.item, record.buffer)

Covered == calls[1].last
Comes(x) == x \in note.missed \/ (x > Covered /\ In(x, record.buffer))
Splicing ==
  /\ Len(calls) = 1 /\ calls[1].at = "splice" /\ record.sub = "catching"
  /\ Rising(note.sent) /\ UpTo(note.sent, Covered) /\ (Covered = 0 \/ In(Covered, rows.stream))
  /\ \A x \in ToSet(rows.stream) : In(x, note.sent) \/ Comes(x)
  /\ driver.at = "insert" => Comes(driver.item)

Came(x) == x \in note.missed \/ In(x, note.sent)
Following ==
  /\ Len(calls) <= 1 /\ \A k \in DOMAIN calls : calls[k].at = "issued"
  /\ record.sub = "live" /\ Rising(note.sent)
  /\ record.life = "live" => UpTo(note.sent, record.next)
  /\ \A x \in ToSet(rows.stream) : Came(x)
  /\ driver.at = "insert" => Came(driver.item)

SpliceInv ==
  /\ StreamInv
  /\ note.caught /\ ~note.disturbed => Querying \/ Splicing \/ Following

HubInv == HubTypes /\ SectionInv /\ LifeInv /\ SpliceInv

\* A frame of the channel.
LEMMA FrameTypes ==
  /\ \A life \in Lives : Upsert(life) \in Frames
  /\ \A n \in Nat : \A type \in {"section", "reset", "end", "item"} : Frame(type, n) \in Frames
BY DEF Frames, Frame, Upsert

\* The frames of items are one for each.
LEMMA StreamedFrames ==
  ASSUME NEW items \in Seq(Nat)
  PROVE  /\ Streamed(items) \in Seq(Frames) /\ Len(Streamed(items)) = Len(items)
         /\ \A i \in DOMAIN Streamed(items) : Streamed(items)[i].type = "item"
<1>1. DOMAIN items = 1..Len(items) /\ Len(items) \in Nat /\ \A i \in DOMAIN items : items[i] \in Nat
  BY LenProperties, ElementOfSeq
<1>2. \A i \in 1..Len(items) : Frame("item", items[i]) \in Frames
  BY <1>1, FrameTypes
<1>3. Streamed(items) = [i \in 1..Len(items) |-> Frame("item", items[i])]
  BY <1>1 DEF Streamed
<1>4. Streamed(items) \in Seq(Frames)
  BY <1>1, <1>2, <1>3, IsASeq
<1>5. DOMAIN Streamed(items) = 1..Len(items)
  BY <1>3
<1>6. Len(Streamed(items)) = Len(items)
  BY <1>1, <1>4, <1>5, LenProperties
<1>7. \A i \in DOMAIN Streamed(items) : Streamed(items)[i].type = "item"
  BY <1>3, <1>5 DEF Frame
<1> QED
  BY <1>4, <1>6, <1>7

CallSet == [kind : {"catch", "tail", "drop"}, at : {"issued", "query", "splice"}, last : Nat]

\* What the replay leaves of the buffer.
LEMMA RemainingType ==
  ASSUME HubTypes, NEW k \in DOMAIN calls
  PROVE  Remaining(k) \in Seq(Nat)
<1> DEFINE I == {i \in 1..Len(record.buffer) : record.buffer[i] > calls[k].last}
<1>1. record.buffer \in Seq(Nat) /\ Len(record.buffer) \in Nat
      /\ \A i \in 1..Len(record.buffer) : record.buffer[i] \in Nat
  BY LenProperties, ElementOfSeq DEF HubTypes
<1>2. I \subseteq Nat
  OBVIOUS
<1>3. CASE I = {}
  BY <1>3 DEF Remaining, SelectInSeq
<1>4. CASE I # {}
  <2>1. \E m \in I : \A j \in I : m <= j
    BY <1>2, <1>4, LeastOf
  <2>2. Min(I) \in I
    BY <2>1 DEF Min
  <2>3. Remaining(k) = SubSeq(record.buffer, Min(I), Len(record.buffer))
    <3>1. SelectInSeq(record.buffer, LAMBDA item : item > calls[k].last) = Min(I)
      BY <1>4 DEF SelectInSeq
    <3>2. Min(I) # 0
      BY <2>2
    <3> QED
      BY <3>1, <3>2 DEF Remaining
  <2> HIDE DEF I
  <2>4. Min(I) \in 1..Len(record.buffer)
    BY <2>2 DEF I
  <2>5. SubSeq(record.buffer, Min(I), Len(record.buffer)) \in Seq(Nat)
    BY <1>1, <2>4, SubSeqProperties
  <2> QED
    BY <2>3, <2>5
<1> QED
  BY <1>3, <1>4

\* The driver's steps keep the types.
LEMMA ProduceTypes == ASSUME HubTypes, Produce PROVE HubTypes'
<1>1. CASE UpsertRow
  BY <1>1 DEF HubTypes, UpsertRow, At, Go, Lives, Stages
<1>2. CASE Publish
  <2>1. events' \in Seq(Frames)
    <3>1. <<Upsert("live")>> \in Seq(Frames)
      BY FrameTypes, Single DEF Lives
    <3> QED
      BY <1>2, <3>1, ConcatProperties DEF Publish, Emit, HubTypes
  <2>2. record' \in [life : Lives, next : Nat, sub : {"none", "live", "catching"}, buffer : Seq(Nat)]
    BY <1>2 DEF HubTypes, Publish, Lives
  <2>3. driver' \in [at : Stages, item : Nat]
    BY <1>2 DEF Publish, Stages, DriverFree
  <2> QED
    BY <1>2, <2>1, <2>2, <2>3 DEF HubTypes, Publish
<1>3. CASE Number
  <2> DEFINE item == record.next + 1
  <2>1. /\ item \in Nat
        /\ record' = [record EXCEPT !.next = item,
                        !.buffer = IF record.sub = "catching" THEN Append(@, item) ELSE @]
        /\ events' = events \o (IF record.sub = "live" THEN Streamed(<<item>>) ELSE <<>>)
        /\ note' = [note EXCEPT !.sent = IF record.sub = "live" THEN Append(@, item) ELSE @]
        /\ driver' = [at |-> "insert", item |-> item]
        /\ UNCHANGED <<rows, replay, calls, ui>>
    <3>1. item \in Nat
      BY DEF HubTypes
    <3> QED
      BY <1>3, <3>1 DEF Number, Emit
  <2> HIDE DEF item
  <2>2. <<item>> \in Seq(Nat) /\ Streamed(<<item>>) \in Seq(Frames) /\ <<>> \in Seq(Frames)
    BY <2>1, Single, StreamedFrames, EmptySeq
  <2>3. events' \in Seq(Frames)
    BY <2>1, <2>2, ConcatProperties DEF HubTypes
  <2>4. Append(record.buffer, item) \in Seq(Nat) /\ Append(note.sent, item) \in Seq(Nat)
    BY <2>1, AppendProperties DEF HubTypes
  <2>5. record' \in [life : Lives, next : Nat, sub : {"none", "live", "catching"}, buffer : Seq(Nat)]
    BY <2>1, <2>4 DEF HubTypes
  <2>6. note' \in [born : BOOLEAN, failed : BOOLEAN, disturbed : BOOLEAN, missed : SUBSET Nat,
                   caught : BOOLEAN, sent : Seq(Nat), before : Seq(Nat)]
    BY <2>1, <2>4 DEF HubTypes
  <2> QED
    BY <2>1, <2>3, <2>5, <2>6 DEF HubTypes, Stages
<1>4. CASE Insert
  <2>1. Append(rows.stream, driver.item) \in Seq(Nat)
    BY AppendProperties DEF HubTypes
  <2> QED
    BY <1>4, <2>1 DEF HubTypes, Insert, Stages, DriverFree
<1>5. CASE Settle \/ SettleRow \/ StoreArtifact
  <2>1. rows' \in [life : Lives, artifact : BOOLEAN, stream : Seq(Nat), sections : Seq(Nat)]
    <3>1. rows' \in {rows, [rows EXCEPT !.life = "settled"], [rows EXCEPT !.artifact = TRUE]}
      BY <1>5 DEF Settle, SettleRow, StoreArtifact
    <3>2. rows \in [life : Lives, artifact : BOOLEAN, stream : Seq(Nat), sections : Seq(Nat)]
      BY DEF HubTypes
    <3>3. "settled" \in Lives
      BY DEF Lives
    <3>4. /\ [rows EXCEPT !.life = "settled"]
               \in [life : Lives, artifact : BOOLEAN, stream : Seq(Nat), sections : Seq(Nat)]
          /\ [rows EXCEPT !.artifact = TRUE]
               \in [life : Lives, artifact : BOOLEAN, stream : Seq(Nat), sections : Seq(Nat)]
      BY <3>2, <3>3
    <3> QED
      BY <3>1, <3>2, <3>4
  <2>2. record' \in [life : Lives, next : Nat, sub : {"none", "live", "catching"}, buffer : Seq(Nat)]
    <3>1. record' \in {record, [record EXCEPT !.life = "settled"]}
      BY <1>5 DEF Settle, SettleRow, StoreArtifact
    <3> QED
      BY <3>1 DEF HubTypes, Lives
  <2>3. driver' \in [at : Stages, item : Nat]
    <3>1. \E stage \in {"settle", "artifact", "settled"} : driver' = [driver EXCEPT !.at = stage]
      BY <1>5 DEF Settle, SettleRow, StoreArtifact, Go
    <3> QED
      BY <3>1 DEF HubTypes, Stages
  <2>4. UNCHANGED <<events, replay, calls, ui, note>>
    BY <1>5 DEF Settle, SettleRow, StoreArtifact
  <2> QED
    BY <2>1, <2>2, <2>3, <2>4 DEF HubTypes
<1>6. CASE PublishSettled
  <2>1. events' \in Seq(Frames)
    <3>1. <<Upsert("settled")>> \in Seq(Frames)
      BY FrameTypes, Single DEF Lives
    <3> QED
      BY <1>6, <3>1, ConcatProperties DEF PublishSettled, Emit, HubTypes
  <2> QED
    BY <1>6, <2>1 DEF HubTypes, PublishSettled, Stages, DriverFree
<1>7. CASE PersistSection
  <2>1. Append(rows.sections, Len(rows.sections) + 1) \in Seq(Nat)
    BY AppendProperties, LenProperties DEF HubTypes
  <2> QED
    BY <1>7, <2>1 DEF HubTypes, PersistSection, Go, Stages
<1>8. CASE SendSection
  <2>1. events' \in Seq(Frames)
    <3>1. Len(rows.sections) \in Nat
      BY LenProperties DEF HubTypes
    <3>2. <<Frame("section", Len(rows.sections))>> \in Seq(Frames)
      BY <3>1, FrameTypes, Single
    <3> QED
      BY <1>8, <3>2, ConcatProperties DEF SendSection, Emit, HubTypes
  <2> QED
    BY <1>8, <2>1 DEF HubTypes, SendSection, Stages, DriverFree
<1>9. CASE OutputFails
  BY <1>9 DEF HubTypes, OutputFails, Stages, DriverFree
<1> QED
  BY <1>1, <1>2, <1>3, <1>4, <1>5, <1>6, <1>7, <1>8, <1>9 DEF Produce

\* The frames of the burst.
BurstFrames ==
  <<Frame("reset", 0)>> \o [k \in DOMAIN replay.loaded |-> Frame("section", replay.loaded[k])]
    \o <<Frame("end", 0)>>

LEMMA BurstPlaces ==
  ASSUME HubTypes
  PROVE  LET l == Len(replay.loaded)
         IN  /\ l \in Nat /\ BurstFrames \in Seq(Frames) /\ Len(BurstFrames) = l + 2
             /\ BurstFrames[1] = Frame("reset", 0) /\ BurstFrames[l + 2] = Frame("end", 0)
             /\ \A k \in 1..l : BurstFrames[k + 1] = Frame("section", replay.loaded[k])
<1> DEFINE l == Len(replay.loaded)
           sections == [k \in DOMAIN replay.loaded |-> Frame("section", replay.loaded[k])]
           front == <<Frame("reset", 0)>> \o sections
<1>1. /\ replay.loaded \in Seq(Nat) /\ DOMAIN replay.loaded = 1..l /\ l \in Nat
      /\ \A k \in 1..l : replay.loaded[k] \in Nat
  BY LenProperties, ElementOfSeq DEF HubTypes
<1>2. \A k \in 1..l : Frame("section", replay.loaded[k]) \in Frames
  BY <1>1, FrameTypes
<1>3. sections \in Seq(Frames)
  BY <1>1, <1>2, IsASeq
<1>4. Len(sections) = l /\ \A k \in 1..l : sections[k] = Frame("section", replay.loaded[k])
  BY <1>1, <1>3, LenProperties
<1>5. <<Frame("reset", 0)>> \in Seq(Frames) /\ <<Frame("end", 0)>> \in Seq(Frames)
      /\ Len(<<Frame("reset", 0)>>) = 1 /\ Len(<<Frame("end", 0)>>) = 1
      /\ <<Frame("reset", 0)>>[1] = Frame("reset", 0) /\ <<Frame("end", 0)>>[1] = Frame("end", 0)
  BY FrameTypes, Single
<1> HIDE DEF sections
<1>6. /\ front \in Seq(Frames) /\ Len(front) = 1 + l
      /\ \A i \in 1..(1 + l) : front[i] = IF i <= 1 THEN <<Frame("reset", 0)>>[i] ELSE sections[i - 1]
  BY <1>3, <1>4, <1>5, ConcatProperties
<1> HIDE DEF front
<1> DEFINE tail == <<Frame("end", 0)>>
<1> HIDE DEF tail
<1>7. /\ front \o tail \in Seq(Frames) /\ Len(front \o tail) = (1 + l) + 1
      /\ \A i \in 1..((1 + l) + 1) : (front \o tail)[i] =
            IF i <= 1 + l THEN front[i] ELSE tail[i - (1 + l)]
  <2>1. tail \in Seq(Frames) /\ Len(tail) = 1
    BY <1>5 DEF tail
  <2>2. /\ front \o tail \in Seq(Frames) /\ Len(front \o tail) = Len(front) + Len(tail)
        /\ \A i \in 1..(Len(front) + Len(tail)) : (front \o tail)[i] =
              IF i <= Len(front) THEN front[i] ELSE tail[i - Len(front)]
    BY <1>6, <2>1, ConcatProperties
  <2> QED
    BY <1>6, <2>1, <2>2
<1>8. BurstFrames = front \o tail /\ tail[1] = Frame("end", 0)
  BY <1>5 DEF BurstFrames, front, sections, tail
<1>9. BurstFrames[1] = Frame("reset", 0)
  <2>1. 1 \in 1..((1 + l) + 1) /\ 1 \in 1..(1 + l) /\ 1 <= 1 + l
    BY <1>1
  <2> QED
    BY <2>1, <1>5, <1>6, <1>7, <1>8
<1>10. BurstFrames[l + 2] = Frame("end", 0)
  <2> DEFINE i == l + 2
  <2>1. i \in 1..((1 + l) + 1) /\ ~(i <= 1 + l) /\ i - (1 + l) = 1
    BY <1>1
  <2> HIDE DEF i
  <2>2. (front \o tail)[i] = tail[1]
    BY <1>7, <2>1
  <2> QED
    BY <2>2, <1>8 DEF i
<1>11. ASSUME NEW k \in 1..l PROVE BurstFrames[k + 1] = Frame("section", replay.loaded[k])
  <2>1. k + 1 \in 1..((1 + l) + 1) /\ k + 1 \in 1..(1 + l) /\ k + 1 <= 1 + l /\ ~(k + 1 <= 1) /\ (k + 1) - 1 = k
    BY <1>1
  <2> QED
    BY <2>1, <1>4, <1>6, <1>7, <1>8
<1>12. Len(BurstFrames) = l + 2
  BY <1>1, <1>7, <1>8
<1> QED
  BY <1>1, <1>7, <1>8, <1>9, <1>10, <1>11, <1>12

\* The burst, and the frames that a frontend reads.
LEMMA ReadTypes == ASSUME HubTypes, FrontendReady \/ Burst \/ Deliver PROVE HubTypes'
<1>1. CASE FrontendReady
  BY <1>1 DEF HubTypes, FrontendReady
<1>2. CASE Burst
  <2>1. events' = events \o BurstFrames
    BY <1>2 DEF Burst, Emit, BurstFrames
  <2>2. events' \in Seq(Frames)
    BY <2>1, BurstPlaces, ConcatProperties DEF HubTypes
  <2> QED
    BY <1>2, <2>2, EmptySeq DEF HubTypes, Burst
<1>3. CASE Deliver
  <2>1. events # <<>> /\ events' = Tail(events) /\ ui' = Apply(Head(events))
    BY <1>3 DEF Deliver
  <2>2. Head(events) \in Frames /\ events' \in Seq(Frames)
    BY <2>1, HeadTailProperties DEF HubTypes
  <2>3. PICK frame \in Frames : frame = Head(events)
    BY <2>2
  <2>4. ui' \in [life : Lives, items : Seq(Nat), sections : Seq(Nat), ended : BOOLEAN,
                 sub : [refs : SUBSET {"inline", "tab"}, lastSeq : Nat, catchUp : BOOLEAN]]
    <3>1. CASE frame.type = "upsert"
      <4>1. ui' = [ui EXCEPT !.life = frame.value] /\ frame.value \in Lives
        BY <2>1, <2>3, <3>1 DEF Apply, Frames
      <4> QED
        BY <4>1 DEF HubTypes
    <3>2. CASE frame.type = "section"
      <4>1. ui' = [ui EXCEPT !.sections = Append(@, frame.value)] /\ frame.value \in Nat
        BY <2>1, <2>3, <3>2 DEF Apply, Frames
      <4>2. Append(ui.sections, frame.value) \in Seq(Nat)
        BY <4>1, AppendProperties DEF HubTypes
      <4> QED
        BY <4>1, <4>2 DEF HubTypes
    <3>3. CASE frame.type = "reset"
      <4>1. ui' = [ui EXCEPT !.sections = <<>>] /\ <<>> \in Seq(Nat)
        BY <2>1, <2>3, <3>3, EmptySeq DEF Apply
      <4> QED
        BY <4>1 DEF HubTypes
    <3>4. CASE frame.type = "end"
      <4>1. ui' = [ui EXCEPT !.ended = TRUE]
        BY <2>1, <2>3, <3>4 DEF Apply
      <4> QED
        BY <4>1 DEF HubTypes
    <3>5. CASE frame.type = "item"
      <4>1. ui' = ApplyItem(frame.value) /\ frame.value \in Nat
        BY <2>1, <2>3, <3>5 DEF Apply, Frames
      <4>2. Append(ui.items, frame.value) \in Seq(Nat)
        BY <4>1, AppendProperties DEF HubTypes
      <4> QED
        BY <4>1, <4>2 DEF HubTypes, ApplyItem
    <3> QED
      BY <2>3, <3>1, <3>2, <3>3, <3>4, <3>5 DEF Frames
  <2> QED
    BY <1>3, <2>2, <2>4 DEF HubTypes, Deliver
<1> QED
  BY <1>1, <1>2, <1>3

\* A call of the frontend.
LEMMA CallType ==
  ASSUME HubTypes, NEW kind \in {"catch", "tail", "drop"}, Call(kind)
  PROVE  /\ calls' \in Seq(CallSet)
         /\ note' = [note EXCEPT !.disturbed = @ \/ calls # <<>>]
         /\ note' \in [born : BOOLEAN, failed : BOOLEAN, disturbed : BOOLEAN, missed : SUBSET Nat,
                       caught : BOOLEAN, sent : Seq(Nat), before : Seq(Nat)]
<1>1. [kind |-> kind, at |-> "issued", last |-> 0] \in CallSet
  BY DEF CallSet
<1>2. calls' \in Seq(CallSet)
  BY <1>1, AppendProperties DEF Call, HubTypes, CallSet
<1> QED
  BY <1>2 DEF Call, HubTypes

\* Views come and go.
LEMMA ViewTypes ==
  ASSUME HubTypes, NEW view \in {"inline", "tab"}, Mount(view) \/ Unmount(view)
  PROVE  HubTypes'
<1>1. CASE Mount(view)
  <2> DEFINE catchUp == view = "tab"
             asks1 == ui.sub.refs = {} \/ (catchUp /\ ~ui.sub.catchUp)
  <2>1. /\ ui' = [ui EXCEPT !.sub = [refs |-> ui.sub.refs \union {view},
                                     lastSeq |-> IF asks1 THEN 0 ELSE ui.sub.lastSeq,
                                     catchUp |-> ui.sub.catchUp \/ catchUp],
                            !.items = IF asks1 THEN <<>> ELSE @]
        /\ IF asks1 THEN Call(IF catchUp THEN "catch" ELSE "tail") ELSE UNCHANGED <<calls, note>>
        /\ UNCHANGED <<rows, record, driver, events, replay>>
    BY <1>1 DEF Mount
  <2> HIDE DEF asks1
  <2>2. ui' \in [life : Lives, items : Seq(Nat), sections : Seq(Nat), ended : BOOLEAN,
                 sub : [refs : SUBSET {"inline", "tab"}, lastSeq : Nat, catchUp : BOOLEAN]]
    BY <2>1, EmptySeq DEF HubTypes
  <2>3. CASE asks1
    <3>1. PICK kind \in {"catch", "tail", "drop"} : Call(kind)
      BY <2>1, <2>3
    <3> QED
      BY <2>1, <2>2, <3>1, CallType DEF HubTypes, CallSet
  <2>4. CASE ~asks1
    BY <2>1, <2>2, <2>4 DEF HubTypes
  <2> QED
    BY <2>3, <2>4
<1>2. CASE Unmount(view)
  <2>1. CASE ui.sub.refs = {view}
    <3>1. ui' = [ui EXCEPT !.sub = NoSub, !.items = <<>>] /\ Call("drop")
      BY <1>2, <2>1 DEF Unmount
    <3> QED
      BY <1>2, <3>1, CallType, EmptySeq DEF HubTypes, CallSet, Unmount, NoSub
  <2>2. CASE ui.sub.refs # {view}
    <3>1. ui' = [ui EXCEPT !.sub = [ui.sub EXCEPT !.refs = ui.sub.refs \ {view}]]
      BY <1>2, <2>2 DEF Unmount
    <3>2. ui' \in [life : Lives, items : Seq(Nat), sections : Seq(Nat), ended : BOOLEAN,
                   sub : [refs : SUBSET {"inline", "tab"}, lastSeq : Nat, catchUp : BOOLEAN]]
      BY <3>1 DEF HubTypes
    <3> QED
      BY <1>2, <2>2, <3>2 DEF HubTypes, Unmount
  <2> QED
    BY <2>1, <2>2
<1> QED
  BY <1>1, <1>2

\* The commands that the frontend's calls run.
LEMMA CommandTypes ==
  ASSUME HubTypes, NEW k \in DOMAIN calls,
         RunTail(k) \/ RunDrop(k) \/ BeginCatchUp(k) \/ Replay(k) \/ ReplayFails(k) \/ Splice(k)
  PROVE  HubTypes'
<1>1. calls \in Seq(CallSet) /\ calls[k] \in CallSet /\ RemoveAt(calls, k) \in Seq(CallSet)
  <2>1. calls \in Seq(CallSet)
    BY DEF HubTypes, CallSet
  <2>2. calls[k] \in CallSet
    BY <2>1, ElementOfSeq, LenProperties
  <2> QED
    BY <2>1, <2>2, Removed
<1>2. CASE RunTail(k)
  BY <1>1, <1>2, EmptySeq DEF HubTypes, CallSet, RunTail, Leaves, Subscribe
<1>3. CASE RunDrop(k)
  BY <1>1, <1>3, EmptySeq DEF HubTypes, CallSet, RunDrop, Leaves, Subscribe
<1>4. CASE BeginCatchUp(k)
  <2>1. [calls[k] EXCEPT !.at = "query"] \in CallSet
    BY <1>1 DEF CallSet
  <2>2. calls' = [calls EXCEPT ![k] = [calls[k] EXCEPT !.at = "query"]]
    BY <1>4 DEF BeginCatchUp
  <2>3. calls' \in Seq(CallSet)
    BY <1>1, <2>1, <2>2, ExceptSeq
  <2>4. note' \in [born : BOOLEAN, failed : BOOLEAN, disturbed : BOOLEAN, missed : SUBSET Nat,
                   caught : BOOLEAN, sent : Seq(Nat), before : Seq(Nat)]
    <3>1. PICK missed \in SUBSET Nat : missed = IF At("insert") THEN {driver.item} ELSE {}
      BY DEF HubTypes
    <3> DEFINE disturbed == Len(calls) > 1
    <3>2. disturbed \in BOOLEAN
      OBVIOUS
    <3>3. note' = [note EXCEPT !.caught = TRUE, !.sent = <<>>, !.disturbed = disturbed,
                               !.missed = missed]
      BY <1>4, <3>1 DEF BeginCatchUp
    <3> HIDE DEF disturbed
    <3> QED
      BY <3>2, <3>3, EmptySeq DEF HubTypes
  <2>5. record' \in [life : Lives, next : Nat, sub : {"none", "live", "catching"}, buffer : Seq(Nat)]
    BY <1>4, EmptySeq DEF BeginCatchUp, HubTypes, Subscribe
  <2> QED
    BY <1>4, <2>3, <2>4, <2>5 DEF HubTypes, CallSet, BeginCatchUp, Subscribe
<1>5. CASE Replay(k)
  <2> DEFINE last == IF rows.stream = <<>> THEN 0 ELSE Last(rows.stream)
  <2>1. last \in Nat
    <3>1. rows.stream \in Seq(Nat) /\ Len(rows.stream) \in Nat
      BY LenProperties DEF HubTypes
    <3>2. ASSUME rows.stream # <<>> PROVE rows.stream[Len(rows.stream)] \in Nat
      <4>1. Len(rows.stream) \in 1..Len(rows.stream)
        BY <3>1, <3>2, EmptySeq
      <4> QED
        BY <3>1, <4>1, ElementOfSeq
    <3> QED
      BY <3>2 DEF Last
  <2>2. calls' = [calls EXCEPT ![k] = [calls[k] EXCEPT !.at = "splice", !.last = last]]
    BY <1>1, <1>5 DEF Replay, CallSet
  <2> HIDE DEF last
  <2>3. [calls[k] EXCEPT !.at = "splice", !.last = last] \in CallSet
    BY <1>1, <2>1 DEF CallSet
  <2>4. calls' \in Seq(CallSet)
    BY <1>1, <2>2, <2>3, ExceptSeq
  <2>5. Streamed(rows.stream) \in Seq(Frames)
    BY StreamedFrames DEF HubTypes
  <2>6. events' \in Seq(Frames)
    BY <1>5, <2>5, ConcatProperties DEF Replay, Emit, HubTypes
  <2> DEFINE missed == {item \in note.missed : At("insert") /\ driver.item = item}
  <2>7. /\ note' = [note EXCEPT !.sent = note.sent \o rows.stream, !.missed = missed]
        /\ note.sent \o rows.stream \in Seq(Nat) /\ missed \in SUBSET Nat
    BY <1>5, ConcatProperties DEF Replay, HubTypes
  <2> HIDE DEF missed
  <2>8. note' \in [born : BOOLEAN, failed : BOOLEAN, disturbed : BOOLEAN, missed : SUBSET Nat,
                   caught : BOOLEAN, sent : Seq(Nat), before : Seq(Nat)]
    BY <2>7 DEF HubTypes
  <2>9. UNCHANGED <<rows, record, driver, replay, ui>>
    BY <1>5 DEF Replay
  <2> QED
    BY <2>4, <2>6, <2>8, <2>9 DEF HubTypes, CallSet
<1>6. CASE ReplayFails(k)
  <2>1. PICK n \in 0..Len(rows.stream) : events' = events \o Streamed(SubSeq(rows.stream, 1, n))
    BY <1>6 DEF ReplayFails, Emit
  <2>2. SubSeq(rows.stream, 1, n) \in Seq(Nat)
    <3>1. rows.stream \in Seq(Nat) /\ Len(rows.stream) \in Nat
      BY LenProperties DEF HubTypes
    <3>2. \A i \in 1..n : rows.stream[i] \in Nat
      BY <3>1, ElementOfSeq
    <3> QED
      BY <3>1, <3>2, SubSeqProperties
  <2>3. events' \in Seq(Frames)
    BY <2>1, <2>2, StreamedFrames, ConcatProperties DEF HubTypes
  <2> QED
    BY <1>1, <1>6, <2>3 DEF HubTypes, CallSet, ReplayFails, Leaves
<1>7. CASE Splice(k)
  <2> DEFINE rest == IF record.sub = "catching" THEN Remaining(k) ELSE <<>>
  <2>1. rest \in Seq(Nat)
    BY RemainingType, EmptySeq
  <2>2. events' = events \o Streamed(rest) /\ note' = [note EXCEPT !.sent = note.sent \o rest]
    BY <1>7 DEF Splice, Emit, HubTypes
  <2> HIDE DEF rest
  <2>3. events' \in Seq(Frames) /\ note.sent \o rest \in Seq(Nat)
    BY <2>1, <2>2, StreamedFrames, ConcatProperties DEF HubTypes
  <2>4. note' \in [born : BOOLEAN, failed : BOOLEAN, disturbed : BOOLEAN, missed : SUBSET Nat,
                   caught : BOOLEAN, sent : Seq(Nat), before : Seq(Nat)]
    BY <2>2, <2>3 DEF HubTypes
  <2>5. record' \in [life : Lives, next : Nat, sub : {"none", "live", "catching"}, buffer : Seq(Nat)]
    BY <1>7, EmptySeq DEF Splice, HubTypes
  <2>6. calls' \in Seq(CallSet) /\ UNCHANGED <<rows, driver, replay, ui>>
    BY <1>1, <1>7 DEF Splice, Leaves
  <2> QED
    BY <2>3, <2>4, <2>5, <2>6 DEF HubTypes, CallSet
<1> QED
  BY <1>2, <1>3, <1>4, <1>5, <1>6, <1>7

\* A start keeps them too.
LEMMA OpenTypes == ASSUME HubTypes, Open PROVE HubTypes'
<1> DEFINE life1 == IF rows.life = "none" THEN "none" ELSE "settled"
<1>1. /\ rows' = [rows EXCEPT !.life = life1] /\ record' = [NoRecord EXCEPT !.life = life1]
      /\ driver' = DriverFree
      /\ events' = IF life1 = "none" THEN <<>> ELSE <<Upsert(life1)>>
      /\ replay' = NoReplay /\ calls' = <<>> /\ ui' = NewUi
      /\ note' = [born |-> FALSE, failed |-> FALSE, disturbed |-> FALSE, missed |-> {},
                  caught |-> FALSE, sent |-> <<>>, before |-> rows.sections]
  BY DEF Open
<1>2. life1 \in Lives /\ <<Upsert(life1)>> \in Seq(Frames)
  BY FrameTypes, Single DEF Lives
<1> HIDE DEF life1
<1> QED
  BY <1>1, <1>2, EmptySeq DEF HubTypes, NoRecord, DriverFree, NoReplay, NewUi, NoSub, Stages, Lives

LEMMA FrontendTypes == ASSUME HubTypes, Frontend PROVE HubTypes'
BY ReadTypes, ViewTypes, CommandTypes DEF Frontend
-----------------------------------------------------------------------------
(* The channel grows at its end and is read from its head.                 *)

Grows(new) == new \in Seq(Frames) /\ events' = events \o new
Kinds(new, S) == \A i \in DOMAIN new : new[i].type \in S

\* The frames of a channel that has grown.
LEMMA Grown ==
  ASSUME HubTypes, NEW new, Grows(new)
  PROVE  /\ DOMAIN events = 1..Len(events) /\ Len(events) \in Nat
         /\ DOMAIN new = 1..Len(new) /\ Len(new) \in Nat
         /\ DOMAIN events' = 1..(Len(events) + Len(new)) /\ Len(events') = Len(events) + Len(new)
         /\ \A i \in DOMAIN events : i \in DOMAIN events' /\ events'[i] = events[i]
         /\ \A i \in DOMAIN events' : i \in DOMAIN events \/
              (i - Len(events) \in DOMAIN new /\ i > Len(events) /\ events'[i] = new[i - Len(events)])
         /\ \A i \in DOMAIN new : Len(events) + i \in DOMAIN events'
                                  /\ events'[Len(events) + i] = new[i]
<1>1. events \in Seq(Frames) /\ new \in Seq(Frames) /\ events' = events \o new
  BY DEF HubTypes, Grows
<1> QED
  BY <1>1, Joined

\* What is no upsert tells nothing new.
LEMMA TellsStay ==
  ASSUME HubTypes, NEW new, Grows(new), Kinds(new, {"section", "reset", "end", "item"}),
         ui'.life = ui.life, NEW life \in Lives
  PROVE  (Tells(life) => Tells(life)') /\ (Claimed(life)' => Claimed(life))
<1>1. \A i \in DOMAIN events' : i \notin DOMAIN events => events'[i].type # "upsert"
  BY Grown DEF Kinds
<1>2. \A i \in DOMAIN events : i \in DOMAIN events' /\ events'[i] = events[i]
  BY Grown
<1>3. \A i \in DOMAIN events' : events'[i].type = "upsert" => i \in DOMAIN events /\ events[i] = events'[i]
  BY <1>1, <1>2
<1>4. Tells(life) => Tells(life)'
  BY <1>2, <1>3 DEF Tells
<1>5. Claimed(life)' => Claimed(life)
  BY <1>3 DEF Claimed, Upsert, Frame
<1> QED
  BY <1>4, <1>5

\* An upsert tells what it says.
LEMMA TellsNew ==
  ASSUME HubTypes, NEW life \in Lives, events' = events \o <<Upsert(life)>>, ui'.life = ui.life
  PROVE  Tells(life)' /\ \A other \in Lives : Claimed(other)' => Claimed(other) \/ other = life
<1>1. Grows(<<Upsert(life)>>) /\ Len(<<Upsert(life)>>) = 1
  BY FrameTypes, Single DEF Grows
<1>2. /\ Len(events) \in Nat /\ DOMAIN events' = 1..(Len(events) + 1)
      /\ events'[Len(events) + 1] = Upsert(life)
      /\ \A i \in DOMAIN events' : i # Len(events) + 1 => i \in DOMAIN events /\ events'[i] = events[i]
  <2>1. DOMAIN events' = 1..(Len(events) + 1) /\ Len(events) \in Nat /\ DOMAIN events = 1..Len(events)
    BY <1>1, Grown
  <2>2. 1 \in DOMAIN <<Upsert(life)>> /\ <<Upsert(life)>>[1] = Upsert(life)
    OBVIOUS
  <2>3. events'[Len(events) + 1] = Upsert(life)
    BY <1>1, <2>2, Grown
  <2>4. \A i \in DOMAIN events : events'[i] = events[i]
    BY <1>1, Grown
  <2> QED
    BY <2>1, <2>3, <2>4
<1>3. Tells(life)'
  <2>1. Len(events) + 1 \in DOMAIN events' /\ \A j \in DOMAIN events' : ~(j > Len(events) + 1)
    BY <1>2
  <2> QED
    BY <1>2, <2>1 DEF Tells
<1>4. ASSUME NEW other \in Lives, Claimed(other)' PROVE Claimed(other) \/ other = life
  <2>1. CASE \E i \in DOMAIN events' : events'[i] = Upsert(other)
    <3>1. PICK i \in DOMAIN events' : events'[i] = Upsert(other)
      BY <2>1
    <3>2. CASE i = Len(events) + 1
      BY <1>2, <3>1, <3>2 DEF Upsert, Frame
    <3>3. CASE i # Len(events) + 1
      BY <1>2, <3>1, <3>3 DEF Claimed
    <3> QED
      BY <3>2, <3>3
  <2> QED
    BY <1>4, <2>1 DEF Claimed
<1> QED
  BY <1>3, <1>4

\* A frame that is read.
LEMMA ReadFrame ==
  ASSUME HubTypes, Deliver
  PROVE  /\ events \in Seq(Frames) /\ events # <<>> /\ 1 \in DOMAIN events /\ events[1] \in Frames
         /\ ui' = Apply(events[1])
         /\ DOMAIN events = 1..Len(events) /\ Len(events) \in Nat
         /\ Len(events') = Len(events) - 1 /\ DOMAIN events' = 1..(Len(events) - 1)
         /\ \A i \in DOMAIN events' : i \in Nat /\ i + 1 \in DOMAIN events /\ events'[i] = events[i + 1]
         /\ \A i \in DOMAIN events : i = 1 \/ (i - 1 \in DOMAIN events' /\ events'[i - 1] = events[i])
<1>1. events \in Seq(Frames) /\ events # <<>> /\ events' = Tail(events) /\ ui' = Apply(Head(events))
  BY DEF Deliver, HubTypes
<1>2. /\ Tail(events) \in Seq(Frames) /\ Head(events) = events[1] /\ events[1] \in Frames
      /\ 1 \in DOMAIN events /\ Len(Tail(events)) = Len(events) - 1
      /\ \A i \in DOMAIN Tail(events) : i \in Nat /\ i + 1 \in DOMAIN events /\ Tail(events)[i] = events[i + 1]
  BY <1>1, Tailed
<1>3. /\ DOMAIN events = 1..Len(events) /\ Len(events) \in Nat
      /\ DOMAIN Tail(events) = 1..(Len(events) - 1)
  BY <1>1, <1>2, LenProperties
<1>4. \A i \in DOMAIN events : i = 1 \/ (i - 1 \in DOMAIN Tail(events) /\ Tail(events)[i - 1] = events[i])
  <2> SUFFICES ASSUME NEW i \in DOMAIN events, i # 1
               PROVE  i - 1 \in DOMAIN Tail(events) /\ Tail(events)[i - 1] = events[i]
    OBVIOUS
  <2>1. i - 1 \in 1..(Len(events) - 1) /\ (i - 1) + 1 = i
    BY <1>3
  <2> QED
    BY <1>2, <1>3, <2>1
<1> QED
  BY <1>1, <1>2, <1>3, <1>4

\* What the frontend will have been told stays the same while it reads.
LEMMA TellsRead ==
  ASSUME HubTypes, Deliver, NEW life \in Lives
  PROVE  (Tells(life) => Tells(life)') /\ (Claimed(life)' => Claimed(life))
<1>1. /\ 1 \in DOMAIN events /\ events[1] \in Frames /\ ui' = Apply(events[1])
      /\ DOMAIN events = 1..Len(events) /\ Len(events) \in Nat
      /\ DOMAIN events' = 1..(Len(events) - 1)
      /\ \A i \in DOMAIN events' : i \in Nat /\ i + 1 \in DOMAIN events /\ events'[i] = events[i + 1]
      /\ \A i \in DOMAIN events : i = 1 \/ (i - 1 \in DOMAIN events' /\ events'[i - 1] = events[i])
  BY ReadFrame
<1>2. CASE events[1].type = "upsert"
  <2>1. ui'.life = events[1].value
    BY <1>1, <1>2 DEF Apply, HubTypes
  <2>2. events[1] = Upsert(ui'.life)
    BY <1>1, <1>2, <2>1 DEF Frames, Upsert, Frame
  <2>3. ASSUME Tells(life) PROVE Tells(life)'
    <3>1. PICK i \in DOMAIN events : /\ events[i] = Upsert(life)
                                     /\ \A j \in DOMAIN events : j > i => events[j].type # "upsert"
      BY <1>1, <1>2, <2>3 DEF Tells
    <3>2. CASE i = 1
      <4>1. ui'.life = life
        BY <2>1, <3>1, <3>2 DEF Upsert, Frame
      <4>2. ASSUME NEW j \in DOMAIN events' PROVE events'[j].type # "upsert"
        <5>1. j + 1 \in DOMAIN events /\ j + 1 > i /\ events'[j] = events[j + 1]
          BY <1>1, <3>2
        <5> QED
          BY <3>1, <5>1
      <4> QED
        BY <4>1, <4>2 DEF Tells
    <3>3. CASE i # 1
      <4>1. i - 1 \in DOMAIN events' /\ events'[i - 1] = Upsert(life)
        BY <1>1, <3>1, <3>3
      <4>2. \A j \in DOMAIN events' : j > i - 1 => events'[j].type # "upsert"
        BY <1>1, <3>1
      <4> QED
        BY <4>1, <4>2 DEF Tells
    <3> QED
      BY <3>2, <3>3
  <2>4. ASSUME Claimed(life)' PROVE Claimed(life)
    BY <1>1, <2>2, <2>4 DEF Claimed
  <2> QED
    BY <2>3, <2>4
<1>3. CASE events[1].type # "upsert"
  <2>1. ui'.life = ui.life
    BY <1>1, <1>3 DEF Apply, ApplyItem, HubTypes, Frames
  <2>2. ASSUME Tells(life) PROVE Tells(life)'
    <3>1. CASE ui.life = life /\ \A i \in DOMAIN events : events[i].type # "upsert"
      BY <1>1, <2>1, <3>1 DEF Tells
    <3>2. CASE \E i \in DOMAIN events : /\ events[i] = Upsert(life)
                                        /\ \A j \in DOMAIN events : j > i => events[j].type # "upsert"
      <4>1. PICK i \in DOMAIN events : /\ events[i] = Upsert(life)
                                       /\ \A j \in DOMAIN events : j > i => events[j].type # "upsert"
        BY <3>2
      <4>2. i # 1
        BY <1>3, <4>1 DEF Upsert, Frame
      <4>3. i - 1 \in DOMAIN events' /\ events'[i - 1] = Upsert(life)
        BY <1>1, <4>1, <4>2
      <4>4. \A j \in DOMAIN events' : j > i - 1 => events'[j].type # "upsert"
        BY <1>1, <4>1
      <4> QED
        BY <4>3, <4>4 DEF Tells
    <3> QED
      BY <2>2, <3>1, <3>2 DEF Tells
  <2>3. ASSUME Claimed(life)' PROVE Claimed(life)
    BY <1>1, <2>1, <2>3 DEF Claimed
  <2> QED
    BY <2>2, <2>3
<1> QED
  BY <1>2, <1>3

\* What the commands of a catch-up send are items.
LEMMA SentItems ==
  ASSUME HubTypes, NEW k \in DOMAIN calls, Replay(k) \/ ReplayFails(k) \/ Splice(k)
  PROVE  \E items \in Seq(Nat) : events' = events \o Streamed(items)
<1>1. CASE Replay(k)
  BY <1>1 DEF Replay, Emit, HubTypes
<1>2. CASE ReplayFails(k)
  <2>1. PICK n \in 0..Len(rows.stream) : events' = events \o Streamed(SubSeq(rows.stream, 1, n))
    BY <1>2 DEF ReplayFails, Emit
  <2>2. rows.stream \in Seq(Nat) /\ Len(rows.stream) \in Nat
    BY LenProperties DEF HubTypes
  <2>3. \A i \in 1..n : rows.stream[i] \in Nat
    BY <2>2, ElementOfSeq
  <2>4. SubSeq(rows.stream, 1, n) \in Seq(Nat)
    BY <2>2, <2>3, SubSeqProperties
  <2> QED
    BY <2>1, <2>4
<1>3. CASE Splice(k)
  <2>1. events' = events \o Streamed(IF record.sub = "catching" THEN Remaining(k) ELSE <<>>)
    BY <1>3 DEF Splice, Emit
  <2> QED
    BY <2>1, RemainingType, EmptySeq
<1> QED
  BY <1>1, <1>2, <1>3
-----------------------------------------------------------------------------
(* The life of the entity.                                                 *)

\* The driver's steps: the record and the row are ahead of what is told, in turn.
LEMMA ProduceLife == ASSUME HubTypes, LifeInv, Produce PROVE LifeInv'
<1>0. \A life \in {"live", "settled"} : life \in Lives
  BY DEF Lives
<1> DEFINE Told(life) == (Tells(life) => Tells(life)') /\ (Claimed(life)' => Claimed(life))
<1>1. ASSUME UNCHANGED <<events, ui>> PROVE \A life \in Lives : Told(life)
  BY <1>1 DEF Tells, Claimed
<1>2. ASSUME NEW new, Grows(new), Kinds(new, {"section", "item"}), UNCHANGED ui
      PROVE  \A life \in Lives : Told(life)
  BY <1>2, TellsStay DEF Kinds
<1> HIDE DEF Told
<1>3. record.life \in Lives /\ rows.life \in Lives /\ driver.at \in Stages
  BY DEF HubTypes
<1>4. CASE UpsertRow
  <2>1. /\ driver.at = "free" /\ record.life # "settled" /\ rows'.life = "live" /\ driver'.at = "upsert"
        /\ note'.born = TRUE /\ note'.failed = note.failed /\ UNCHANGED <<record, events, ui>>
        /\ rows'.artifact = rows.artifact
    BY <1>4 DEF UpsertRow, At, Go, HubTypes
  <2> QED
    BY <1>0, <1>1, <1>3, <2>1 DEF LifeInv, Written, Told
<1>5. CASE Publish
  <2>1. /\ driver.at = "upsert" /\ record'.life = "live" /\ driver'.at = "free"
        /\ UNCHANGED <<rows, ui, note>> /\ events' = events \o <<Upsert("live")>>
    BY <1>5 DEF Publish, At, Emit, DriverFree, HubTypes
  <2>2. /\ Tells("live")' /\ (Claimed("settled")' => Claimed("settled"))
        /\ (Claimed("live")' => Claimed("live") \/ TRUE)
    BY <1>0, <2>1, TellsNew
  <2> QED
    BY <2>1, <2>2 DEF LifeInv, Written
<1>6. CASE Number
  <2>1. /\ driver.at = "free" /\ record'.life = record.life /\ record.life = "live" /\ driver'.at = "insert"
        /\ UNCHANGED <<rows, ui>> /\ note'.born = note.born /\ note'.failed = note.failed
    BY <1>6 DEF Number, At, HubTypes
  <2>2. \E new : Grows(new) /\ Kinds(new, {"section", "item"})
    <3> DEFINE item == record.next + 1
    <3>1. <<item>> \in Seq(Nat)
      BY Single DEF HubTypes
    <3>2. events' = events \o (IF record.sub = "live" THEN Streamed(<<item>>) ELSE <<>>)
      BY <1>6 DEF Number, Emit
    <3> HIDE DEF item
    <3>3. CASE record.sub = "live"
      BY <3>1, <3>2, <3>3, StreamedFrames DEF Grows, Kinds
    <3>4. CASE record.sub # "live"
      <4>1. Grows(<<>>) /\ Kinds(<<>>, {"section", "item"})
        BY <3>2, <3>4, EmptySeq DEF Grows, Kinds
      <4> QED
        BY <4>1
    <3> QED
      BY <3>3, <3>4
  <2>3. \A life \in Lives : Told(life)
    BY <1>2, <2>1, <2>2
  <2> QED
    BY <1>0, <1>3, <2>1, <2>3 DEF LifeInv, Written, Told
<1>7. CASE Insert
  <2>1. /\ driver.at = "insert" /\ driver'.at = "free" /\ rows'.life = rows.life
        /\ rows'.artifact = rows.artifact /\ UNCHANGED <<record, events, ui, note>>
    BY <1>7 DEF Insert, At, DriverFree, HubTypes
  <2> QED
    BY <1>0, <1>1, <1>3, <2>1 DEF LifeInv, Written, Told
<1>8. CASE Settle
  <2>1. /\ driver.at = "free" /\ driver'.at = "settle" /\ record.life = "live"
        /\ record'.life = "settled" /\ UNCHANGED <<rows, events, ui, note>>
    BY <1>8 DEF Settle, At, Go, HubTypes
  <2> QED
    BY <1>0, <1>1, <1>3, <2>1 DEF LifeInv, Written, Told
<1>9. CASE SettleRow
  <2>1. /\ driver.at = "settle" /\ driver'.at = "artifact" /\ rows'.life = "settled"
        /\ rows'.artifact = rows.artifact /\ UNCHANGED <<record, events, ui, note>>
    BY <1>9 DEF SettleRow, At, Go, HubTypes
  <2> QED
    BY <1>0, <1>1, <1>3, <2>1 DEF LifeInv, Written, Told
<1>10. CASE StoreArtifact
  <2>1. /\ driver.at = "artifact" /\ driver'.at = "settled" /\ rows'.life = rows.life
        /\ rows'.artifact = TRUE /\ UNCHANGED <<record, events, ui, note>>
    BY <1>10 DEF StoreArtifact, At, Go, HubTypes
  <2> QED
    BY <1>0, <1>1, <1>3, <2>1 DEF LifeInv, Written, Told
<1>11. CASE PublishSettled
  <2>1. /\ driver.at = "settled" /\ driver'.at = "free"
        /\ UNCHANGED <<rows, record, ui, note>> /\ events' = events \o <<Upsert("settled")>>
    BY <1>11 DEF PublishSettled, At, Emit, DriverFree
  <2>2. Tells("settled")' /\ (Claimed("live")' => Claimed("live"))
    BY <1>0, <2>1, TellsNew
  <2> QED
    BY <1>3, <2>1, <2>2 DEF LifeInv, Written
<1>12. CASE PersistSection
  <2>1. /\ driver.at = "free" /\ driver'.at = "section" /\ rows'.life = rows.life
        /\ rows'.artifact = rows.artifact /\ UNCHANGED <<record, events, ui, note>>
    BY <1>12 DEF PersistSection, At, Go, HubTypes
  <2> QED
    BY <1>0, <1>1, <1>3, <2>1 DEF LifeInv, Written, Told
<1>13. CASE SendSection
  <2>1. /\ driver.at = "section" /\ driver'.at = "free" /\ UNCHANGED <<rows, record, ui, note>>
    BY <1>13 DEF SendSection, At, DriverFree
  <2>2. \E new : Grows(new) /\ Kinds(new, {"section", "item"})
    <3>1. Len(rows.sections) \in Nat
      BY LenProperties DEF HubTypes
    <3>2. Grows(<<Frame("section", Len(rows.sections))>>)
      BY <1>13, <3>1, FrameTypes, Single DEF SendSection, Emit, Grows
    <3>3. Kinds(<<Frame("section", Len(rows.sections))>>, {"section", "item"})
      BY DEF Kinds, Frame
    <3> QED
      BY <3>2, <3>3
  <2>3. \A life \in Lives : Told(life)
    BY <1>2, <2>1, <2>2
  <2> QED
    BY <1>0, <1>3, <2>1, <2>3 DEF LifeInv, Written, Told
<1>14. CASE OutputFails
  <2>1. /\ driver.at \in {"insert", "settle", "artifact"} /\ driver'.at = "free"
        /\ UNCHANGED <<rows, record, events, ui>> /\ note'.born = note.born
        /\ note'.failed = (note.failed \/ driver.at # "insert")
    BY <1>14 DEF OutputFails, DriverFree, HubTypes
  <2> QED
    BY <1>0, <1>1, <1>3, <2>1 DEF LifeInv, Written, Told
<1> QED
  BY <1>4, <1>5, <1>6, <1>7, <1>8, <1>9, <1>10, <1>11, <1>12, <1>13, <1>14 DEF Produce

\* A step of the frontend tells nothing: the channel grows by sections and items, or is read.
LEMMA FrontendGrows ==
  ASSUME HubTypes, Frontend
  PROVE  /\ \/ Deliver
            \/ ui'.life = ui.life /\ \E new : Grows(new) /\ Kinds(new, {"section", "reset", "end", "item"})
         /\ rows' = rows /\ driver' = driver /\ record'.life = record.life
         /\ note'.born = note.born /\ note'.failed = note.failed /\ note'.before = note.before
<1> DEFINE Kept == /\ rows' = rows /\ driver' = driver /\ record'.life = record.life
                   /\ note'.born = note.born /\ note'.failed = note.failed /\ note'.before = note.before
           All == {"section", "reset", "end", "item"}
<1>0. ASSUME events' = events PROVE \E new : Grows(new) /\ Kinds(new, All)
  <2>1. Grows(<<>>) /\ Kinds(<<>>, All)
    BY <1>0, EmptySeq DEF Grows, Kinds, HubTypes
  <2> QED
    BY <2>1
<1>1. ASSUME NEW items \in Seq(Nat), events' = events \o Streamed(items)
      PROVE  \E new : Grows(new) /\ Kinds(new, All)
  BY <1>1, StreamedFrames DEF Grows, Kinds
<1> HIDE DEF All
<1>2. CASE FrontendReady
  BY <1>0, <1>2 DEF FrontendReady, All
<1>3. CASE Burst
  <2>1. Grows(BurstFrames)
    BY <1>3, BurstPlaces DEF Burst, Emit, BurstFrames, Grows
  <2>2. Kinds(BurstFrames, All)
    <3> DEFINE l == Len(replay.loaded)
    <3>1. /\ l \in Nat /\ BurstFrames \in Seq(Frames) /\ Len(BurstFrames) = l + 2
          /\ BurstFrames[1] = Frame("reset", 0) /\ BurstFrames[l + 2] = Frame("end", 0)
          /\ \A k \in 1..l : BurstFrames[k + 1] = Frame("section", replay.loaded[k])
      BY BurstPlaces
    <3>2. DOMAIN BurstFrames = 1..(l + 2)
      BY <3>1, LenProperties
    <3> HIDE DEF l
    <3>3. ASSUME NEW i \in 1..(l + 2) PROVE BurstFrames[i].type \in All
      <4>1. CASE i = 1
        BY <3>1, <4>1 DEF Frame, All
      <4>2. CASE i = l + 2
        BY <3>1, <4>2 DEF Frame, All
      <4>3. CASE i # 1 /\ i # l + 2
        <5>1. i - 1 \in 1..l /\ (i - 1) + 1 = i
          BY <3>1, <4>3
        <5>2. BurstFrames[i] = Frame("section", replay.loaded[i - 1])
          BY <3>1, <5>1
        <5> QED
          BY <5>2 DEF Frame, All
      <4> QED
        BY <4>1, <4>2, <4>3
    <3> QED
      BY <3>2, <3>3 DEF Kinds
  <2> QED
    BY <1>3, <2>1, <2>2 DEF Burst, All
<1>4. CASE Deliver
  BY <1>4 DEF Deliver
<1>5. CASE \E view \in {"inline", "tab"} : Mount(view) \/ Unmount(view)
  <2>1. PICK view \in {"inline", "tab"} : Mount(view) \/ Unmount(view)
    BY <1>5
  <2>2. UNCHANGED <<rows, record, driver, events>>
    BY <2>1 DEF Mount, Unmount
  <2>3. ui'.life = ui.life
    <3>1. CASE Mount(view)
      BY <3>1 DEF Mount, HubTypes
    <3>2. CASE Unmount(view)
      BY <3>2 DEF Unmount, HubTypes
    <3> QED
      BY <2>1, <3>1, <3>2
  <2>4. note'.born = note.born /\ note'.failed = note.failed /\ note'.before = note.before
    <3>1. note' = note \/ \E d : note' = [note EXCEPT !.disturbed = d]
      <4>1. CASE Mount(view)
        BY <4>1 DEF Mount, Call
      <4>2. CASE Unmount(view)
        BY <4>2 DEF Unmount, Call
      <4> QED
        BY <2>1, <4>1, <4>2
    <3> QED
      BY <3>1 DEF HubTypes
  <2> QED
    BY <1>0, <2>2, <2>3, <2>4 DEF All
<1>6. CASE \E k \in DOMAIN calls :
       RunTail(k) \/ RunDrop(k) \/ BeginCatchUp(k) \/ Replay(k) \/ ReplayFails(k) \/ Splice(k)
  <2>1. PICK k \in DOMAIN calls :
          RunTail(k) \/ RunDrop(k) \/ BeginCatchUp(k) \/ Replay(k) \/ ReplayFails(k) \/ Splice(k)
    BY <1>6
  <2>2. CASE RunTail(k) \/ RunDrop(k)
    <3>1. /\ UNCHANGED <<rows, driver, ui, events>> /\ record'.life = record.life
          /\ note' = [note EXCEPT !.caught = FALSE]
      BY <2>2 DEF RunTail, RunDrop, Subscribe, HubTypes
    <3> QED
      BY <1>0, <3>1 DEF All, HubTypes
  <2>3. CASE BeginCatchUp(k)
    <3>1. UNCHANGED <<rows, driver, ui, events>> /\ record'.life = record.life
      BY <2>3 DEF BeginCatchUp, Subscribe, HubTypes
    <3>2. note'.born = note.born /\ note'.failed = note.failed /\ note'.before = note.before
      BY <2>3 DEF BeginCatchUp, HubTypes
    <3> QED
      BY <1>0, <3>1, <3>2 DEF All
  <2>4. CASE Replay(k)
    <3>1. /\ UNCHANGED <<rows, driver, ui, record>> /\ events' = events \o Streamed(rows.stream)
          /\ rows.stream \in Seq(Nat) /\ \E s, m : note' = [note EXCEPT !.sent = s, !.missed = m]
      BY <2>4 DEF Replay, Emit, HubTypes
    <3>2. \E new : Grows(new) /\ Kinds(new, {"section", "reset", "end", "item"})
      BY <1>1, <3>1 DEF All
    <3> QED
      BY <3>1, <3>2 DEF HubTypes
  <2>5. CASE ReplayFails(k)
    <3>1. /\ UNCHANGED <<rows, driver, ui, record>> /\ note' = [note EXCEPT !.disturbed = TRUE]
          /\ \E n \in 0..Len(rows.stream) : events' = events \o Streamed(SubSeq(rows.stream, 1, n))
      BY <2>5 DEF ReplayFails, Emit
    <3>2. PICK n \in 0..Len(rows.stream) : events' = events \o Streamed(SubSeq(rows.stream, 1, n))
      BY <3>1
    <3>3. SubSeq(rows.stream, 1, n) \in Seq(Nat)
      <4>1. rows.stream \in Seq(Nat) /\ Len(rows.stream) \in Nat
        BY LenProperties DEF HubTypes
      <4>2. \A i \in 1..n : rows.stream[i] \in Nat
        BY <4>1, ElementOfSeq
      <4> QED
        BY <4>1, <4>2, SubSeqProperties
    <3>4. \E new : Grows(new) /\ Kinds(new, {"section", "reset", "end", "item"})
      BY <1>1, <3>2, <3>3 DEF All
    <3> QED
      BY <3>1, <3>4 DEF HubTypes
  <2>6. CASE Splice(k)
    <3> DEFINE rest == IF record.sub = "catching" THEN Remaining(k) ELSE <<>>
    <3>1. rest \in Seq(Nat)
      BY RemainingType, EmptySeq
    <3>2. /\ UNCHANGED <<rows, driver, ui>> /\ events' = events \o Streamed(rest)
          /\ record' = [record EXCEPT !.sub = "live", !.buffer = <<>>]
          /\ note' = [note EXCEPT !.sent = note.sent \o rest]
      BY <2>6 DEF Splice, Emit
    <3> HIDE DEF rest
    <3>3. \E new : Grows(new) /\ Kinds(new, {"section", "reset", "end", "item"})
      BY <1>1, <3>1, <3>2 DEF All
    <3> QED
      BY <3>2, <3>3 DEF HubTypes
  <2> QED
    BY <2>1, <2>2, <2>3, <2>4, <2>5, <2>6
<1> QED
  BY <1>2, <1>3, <1>4, <1>5, <1>6 DEF Frontend

\* The frontend's steps leave the lives alone, and what will have been told.
LEMMA FrontendLife == ASSUME HubTypes, LifeInv, Frontend PROVE LifeInv'
<1>1. /\ rows' = rows /\ driver' = driver /\ record'.life = record.life
      /\ note'.born = note.born /\ note'.failed = note.failed
  BY FrontendGrows
<1>2. ASSUME NEW life \in Lives PROVE (Tells(life) => Tells(life)') /\ (Claimed(life)' => Claimed(life))
  <2>1. CASE Deliver
    BY <2>1, TellsRead
  <2>2. CASE ui'.life = ui.life /\ \E new : Grows(new) /\ Kinds(new, {"section", "reset", "end", "item"})
    BY <2>2, TellsStay
  <2> QED
    BY <2>1, <2>2, FrontendGrows
<1>3. record.life \in Lives /\ "live" \in Lives /\ "settled" \in Lives
  BY DEF HubTypes, Lives
<1>4. Written => Written'
  BY <1>1, <1>2, <1>3 DEF Written
<1> QED
  BY <1>1, <1>2, <1>3, <1>4 DEF LifeInv

\* A start settles what another process has left, in the row, the record and the channel.
LEMMA OpenLife == ASSUME HubTypes, Open PROVE LifeInv'
<1> DEFINE life1 == IF rows.life = "none" THEN "none" ELSE "settled"
<1>1. /\ rows'.life = life1 /\ record'.life = life1 /\ driver'.at = "free"
      /\ events' = IF life1 = "none" THEN <<>> ELSE <<Upsert(life1)>>
      /\ ui'.life = "none" /\ note'.born = FALSE /\ life1 \in {"none", "settled"}
  BY DEF Open, NoRecord, DriverFree, NewUi, HubTypes
<1> HIDE DEF life1
<1>2. CASE life1 = "none"
  <2>1. DOMAIN events' = {}
    BY <1>1, <1>2
  <2> QED
    BY <1>1, <1>2, <2>1 DEF LifeInv, Written, Tells, Claimed
<1>3. CASE life1 = "settled"
  <2>1. DOMAIN events' = {1} /\ events'[1] = Upsert("settled") /\ Upsert("settled") # Upsert("live")
    BY <1>1, <1>3 DEF Upsert, Frame
  <2>2. Tells("settled")' /\ ~Claimed("live")'
    BY <1>1, <2>1 DEF Tells, Claimed
  <2> QED
    BY <1>1, <1>3, <2>2 DEF LifeInv, Written
<1> QED
  BY <1>1, <1>2, <1>3

\* The invariant says what the property says.
LEMMA LifeIsLife == HubTypes /\ LifeInv => LifeAgrees
<1> SUFFICES ASSUME HubTypes, LifeInv PROVE LifeAgrees
  OBVIOUS
<1>1. ASSUME Quiet, ~note.failed PROVE ui.life = record.life /\ rows.life = record.life
  <2>1. DOMAIN events = {} /\ driver.at = "free"
    BY <1>1 DEF Quiet
  <2> QED
    BY <1>1, <2>1 DEF LifeInv, Written, Tells
<1>2. \A life : ui.life = life => Claimed(life)
  BY DEF Claimed
<1> QED
  BY <1>1, <1>2 DEF LifeInv, LifeAgrees
-----------------------------------------------------------------------------
(* The sections.                                                           *)

\* A channel that grows by anything but a reset, an end or an old section.
LEMMA SectionsGrow ==
  ASSUME HubTypes, NEW new, Grows(new), ui' = ui, Old' = Old,
         \A i \in DOMAIN new : /\ new[i].type \in {"upsert", "section", "item"}
                               /\ new[i].type = "section" => new[i].value > Old
  PROVE  /\ NoBurst => NoBurst'
         /\ Ended => Ended'
         /\ \A p \in Int, l \in Nat : InBurst(p, l) => InBurst(p, l)'
<1>1. /\ DOMAIN events = 1..Len(events) /\ Len(events) \in Nat /\ Len(new) \in Nat
      /\ DOMAIN events' = 1..(Len(events) + Len(new)) /\ Len(events') = Len(events) + Len(new)
      /\ \A i \in DOMAIN events : i \in DOMAIN events' /\ events'[i] = events[i]
  BY Grown
<1>2. \A i \in DOMAIN events' : i \in DOMAIN events \/
        /\ i > Len(events)
        /\ events'[i].type \in {"upsert", "section", "item"}
        /\ events'[i].type = "section" => events'[i].value > Old
  BY Grown
<1>3. NoBurst => NoBurst'
  BY <1>1, <1>2 DEF NoBurst
<1>4. Ended => Ended'
  BY <1>1, <1>2 DEF Ended
<1>5. ASSUME NEW p \in Int, NEW l \in Nat, InBurst(p, l) PROVE InBurst(p, l)'
  <2>1. -l <= p /\ p + l + 1 <= Len(events') /\ Old' <= l
    BY <1>1, <1>5 DEF InBurst
  <2>2. ASSUME NEW k \in 0..(l + 1), p + k >= 1 PROVE events'[p + k] = BurstPart(k, l)
    <3>1. p + k \in DOMAIN events
      BY <1>1, <1>5, <2>2 DEF InBurst
    <3> QED
      BY <1>1, <1>5, <2>2, <3>1 DEF InBurst
  <2>3. \A i \in DOMAIN events' : events'[i].type \in {"reset", "end"} => i \in {p, p + l + 1}
    BY <1>1, <1>2, <1>5 DEF InBurst
  <2>4. \A i \in DOMAIN events' : i > p + l + 1 /\ events'[i].type = "section" => events'[i].value > Old
    BY <1>1, <1>2, <1>5 DEF InBurst
  <2> QED
    BY <1>5, <2>1, <2>2, <2>3, <2>4 DEF InBurst, BurstPart
<1> QED
  BY <1>3, <1>4, <1>5

\* A step that leaves the sections, their replay and the stores alone keeps the invariant,
\* if what it sends is no burst and no old section.
LEMMA SectionsStay ==
  ASSUME HubTypes, SectionInv, NEW new, Grows(new), rows'.sections = rows.sections,
         note'.before = note.before, replay' = replay, ui' = ui,
         driver'.at = "section" => driver.at = "section",
         \A i \in DOMAIN new : /\ new[i].type \in {"upsert", "section", "item"}
                               /\ new[i].type = "section" => new[i].value > Old
  PROVE  SectionInv'
<1>1. Old' = Old
  BY DEF Old
<1>2. SectionRows'
  BY <1>1 DEF SectionInv, SectionRows, Counts
<1> QED
  BY <1>1, <1>2, SectionsGrow DEF SectionInv

\* Nothing is sent.
LEMMA SectionsSilent ==
  ASSUME HubTypes, SectionInv, rows'.sections = rows.sections, events' = events,
         note'.before = note.before, replay' = replay, ui' = ui,
         driver'.at = "section" => driver.at = "section"
  PROVE  SectionInv'
<1>1. Grows(<<>>)
  BY EmptySeq DEF Grows, HubTypes
<1> QED
  BY <1>1, SectionsStay

\* Items are sent.
LEMMA SectionsItems ==
  ASSUME HubTypes, SectionInv, rows'.sections = rows.sections,
         NEW items \in Seq(Nat), events' = events \o Streamed(items),
         note'.before = note.before, replay' = replay, ui' = ui,
         driver'.at = "section" => driver.at = "section"
  PROVE  SectionInv'
<1>1. Grows(Streamed(items)) /\ \A i \in DOMAIN Streamed(items) : Streamed(items)[i].type = "item"
  BY StreamedFrames DEF Grows
<1> QED
  BY <1>1, SectionsStay

\* The driver's steps: a new section comes behind the old ones.
LEMMA ProduceSections == ASSUME HubTypes, SectionInv, Produce PROVE SectionInv'
<1>1. CASE UpsertRow \/ Insert \/ Settle \/ SettleRow \/ StoreArtifact \/ OutputFails
  <2>1. /\ rows'.sections = rows.sections /\ events' = events /\ note'.before = note.before
        /\ replay' = replay /\ ui' = ui /\ driver'.at # "section"
    <3>1. events' = events /\ replay' = replay /\ ui' = ui
      BY <1>1 DEF UpsertRow, Insert, Settle, SettleRow, StoreArtifact, OutputFails
    <3>2. rows'.sections = rows.sections
      BY <1>1 DEF HubTypes, UpsertRow, Insert, Settle, SettleRow, StoreArtifact, OutputFails
    <3>3. note'.before = note.before
      BY <1>1 DEF HubTypes, UpsertRow, Insert, Settle, SettleRow, StoreArtifact, OutputFails
    <3>4. driver'.at # "section"
      BY <1>1 DEF HubTypes, UpsertRow, Insert, Settle, SettleRow, StoreArtifact, OutputFails, Go, DriverFree
    <3> QED
      BY <3>1, <3>2, <3>3, <3>4
  <2> QED
    BY <2>1, SectionsSilent
<1>2. CASE Publish \/ PublishSettled
  <2>1. /\ rows' = rows /\ note' = note /\ replay' = replay /\ ui' = ui /\ driver'.at # "section"
        /\ \E life \in Lives : events' = events \o <<Upsert(life)>>
    BY <1>2 DEF Publish, PublishSettled, Emit, DriverFree, Lives
  <2>2. PICK life \in Lives : events' = events \o <<Upsert(life)>>
    BY <2>1
  <2>3. Grows(<<Upsert(life)>>) /\ \A i \in DOMAIN <<Upsert(life)>> : <<Upsert(life)>>[i].type = "upsert"
    BY <2>2, FrameTypes, Single DEF Grows, Upsert, Frame
  <2> QED
    BY <2>1, <2>3, SectionsStay
<1>3. CASE Number
  <2>1. /\ rows' = rows /\ note'.before = note.before /\ replay' = replay /\ ui' = ui
        /\ driver'.at # "section"
    BY <1>3 DEF Number, HubTypes
  <2>2. \E items \in Seq(Nat) : events' = events \o Streamed(items)
    <3> DEFINE item == record.next + 1
    <3>1. <<item>> \in Seq(Nat) /\ <<>> \in Seq(Nat)
      BY Single, EmptySeq DEF HubTypes
    <3>2. events' = events \o (IF record.sub = "live" THEN Streamed(<<item>>) ELSE <<>>)
      BY <1>3 DEF Number, Emit
    <3>3. Streamed(<<>>) = <<>>
      BY <3>1, StreamedFrames, EmptySeq
    <3> HIDE DEF item
    <3> QED
      BY <3>1, <3>2, <3>3
  <2> QED
    BY <2>1, <2>2, SectionsItems
<1>4. CASE PersistSection
  <2>1. /\ rows.sections \in Seq(Nat) /\ Len(rows.sections) \in Nat
        /\ Len(rows.sections) + 1 \in Nat /\ note.before \in Seq(Nat) /\ Len(note.before) \in Nat
    BY LenProperties DEF HubTypes
  <2>2. /\ rows'.sections = Append(rows.sections, Len(rows.sections) + 1) /\ events' = events
        /\ note'.before = note.before /\ replay' = replay /\ ui' = ui /\ note' = note
    BY <1>4 DEF PersistSection, HubTypes
  <2>3. Counts(rows'.sections) /\ Len(rows'.sections) = Len(rows.sections) + 1
    <3>1. /\ DOMAIN rows'.sections = DOMAIN rows.sections \union {Len(rows.sections) + 1}
          /\ Len(rows'.sections) = Len(rows.sections) + 1
          /\ \A i \in DOMAIN rows.sections : rows'.sections[i] = rows.sections[i]
          /\ rows'.sections[Len(rows.sections) + 1] = Len(rows.sections) + 1
      BY <2>1, <2>2, Appended
    <3> QED
      BY <3>1 DEF SectionInv, SectionRows, Counts
  <2>4. Old' = Old /\ Old < Len(rows'.sections)
    BY <2>1, <2>2, <2>3 DEF Old, SectionInv, SectionRows
  <2>5. SectionRows'
    BY <2>1, <2>2, <2>3, <2>4 DEF SectionInv, SectionRows, Old, Counts
  <2>6. Grows(<<>>) /\ \A i \in DOMAIN <<>> : FALSE
    BY <2>2, EmptySeq DEF Grows, HubTypes
  <2> QED
    BY <2>2, <2>4, <2>5, <2>6, SectionsGrow DEF SectionInv
<1>5. CASE SendSection
  <2>1. /\ driver.at = "section" /\ rows' = rows /\ note' = note /\ replay' = replay /\ ui' = ui
        /\ driver'.at # "section" /\ events' = events \o <<Frame("section", Len(rows.sections))>>
    BY <1>5 DEF SendSection, At, Emit, DriverFree
  <2>2. Len(rows.sections) \in Nat /\ Old < Len(rows.sections)
    BY <2>1, LenProperties DEF HubTypes, SectionInv, SectionRows
  <2>3. /\ Grows(<<Frame("section", Len(rows.sections))>>)
        /\ \A i \in DOMAIN <<Frame("section", Len(rows.sections))>> :
             /\ <<Frame("section", Len(rows.sections))>>[i].type = "section"
             /\ <<Frame("section", Len(rows.sections))>>[i].value > Old
    <3>1. Frame("section", Len(rows.sections)) \in Frames
      BY <2>2, FrameTypes
    <3>2. PICK f \in Frames : f = Frame("section", Len(rows.sections))
      BY <3>1
    <3>3. f.type = "section" /\ f.value > Old
      BY <2>2, <3>2 DEF Frame, Old
    <3>4. <<f>> \in Seq(Frames) /\ DOMAIN <<f>> = {1} /\ <<f>>[1] = f
      BY <3>2, Single
    <3> QED
      BY <2>1, <3>2, <3>3, <3>4 DEF Grows
  <2> QED
    BY <2>1, <2>3, SectionsStay
<1> QED
  BY <1>1, <1>2, <1>3, <1>4, <1>5 DEF Produce

\* The burst goes behind what is in the channel.
LEMMA BurstSections == ASSUME HubTypes, SectionInv, Burst PROVE SectionInv'
<1> DEFINE l == Len(replay.loaded)
           n == Len(events)
<1>1. /\ Grows(BurstFrames) /\ replay.at = "loaded" /\ replay'.at = "done"
      /\ UNCHANGED <<rows, record, driver, calls, ui, note>>
  BY BurstPlaces DEF Burst, Emit, BurstFrames, Grows
<1>2. /\ l \in Nat /\ BurstFrames \in Seq(Frames) /\ Len(BurstFrames) = l + 2
      /\ BurstFrames[1] = Frame("reset", 0) /\ BurstFrames[l + 2] = Frame("end", 0)
      /\ \A k \in 1..l : BurstFrames[k + 1] = Frame("section", replay.loaded[k])
      /\ DOMAIN BurstFrames = 1..(l + 2)
  BY BurstPlaces, LenProperties
<1>3. /\ DOMAIN events = 1..n /\ n \in Nat
      /\ DOMAIN events' = 1..(n + (l + 2)) /\ Len(events') = n + (l + 2)
      /\ \A i \in DOMAIN events : i \in DOMAIN events' /\ events'[i] = events[i]
      /\ \A i \in DOMAIN BurstFrames : events'[n + i] = BurstFrames[i]
  BY <1>1, <1>2, Grown
<1>4. /\ DOMAIN replay.loaded = 1..l /\ Old <= l /\ \A k \in 1..l : replay.loaded[k] = k
  <2>1. replay.loaded \in Seq(Nat)
    BY DEF HubTypes
  <2>2. DOMAIN replay.loaded = 1..l
    BY <2>1, LenProperties
  <2>3. Counts(replay.loaded) /\ Old <= l
    BY <1>1 DEF SectionInv, SectionRows
  <2> QED
    BY <2>2, <2>3 DEF Counts
<1> HIDE DEF l, n
<1>5. ASSUME NEW k \in 0..(l + 1) PROVE events'[(n + 1) + k] = BurstPart(k, l)
  <2>1. k + 1 \in DOMAIN BurstFrames /\ n + (k + 1) = (n + 1) + k
    BY <1>2, <1>3
  <2>2. events'[(n + 1) + k] = BurstFrames[k + 1]
    BY <1>3, <2>1
  <2>3. CASE k = 0
    BY <1>2, <2>2, <2>3 DEF BurstPart
  <2>4. CASE k \in 1..l
    <3>1. BurstFrames[k + 1] = Frame("section", k)
      BY <1>2, <1>4, <2>4
    <3> QED
      BY <2>2, <2>4, <3>1 DEF BurstPart
  <2>5. CASE k = l + 1
    <3>1. k + 1 = l + 2 /\ k # 0 /\ ~(k <= l)
      BY <1>2, <2>5
    <3> QED
      BY <1>2, <2>2, <3>1 DEF BurstPart
  <2> QED
    BY <1>2, <2>3, <2>4, <2>5
<1>6. NoBurst /\ ui' = ui /\ Old' = Old
  BY <1>1 DEF SectionInv, Old
<1>7. ASSUME NEW i \in DOMAIN events', events'[i].type \in {"reset", "end"}
      PROVE  i \in {n + 1, (n + 1) + l + 1}
  <2>1. CASE i \in DOMAIN events
    BY <1>3, <1>6, <1>7, <2>1 DEF NoBurst
  <2>2. CASE i \notin DOMAIN events
    <3>1. PICK k \in 0..(l + 1) : i = (n + 1) + k
      <4>1. i - (n + 1) \in 0..(l + 1) /\ i = (n + 1) + (i - (n + 1))
        BY <1>2, <1>3, <2>2
      <4> QED
        BY <4>1
    <3>2. events'[i] = BurstPart(k, l)
      BY <1>5, <3>1
    <3>3. k = 0 \/ k = l + 1
      BY <1>2, <1>7, <3>2 DEF BurstPart, Frame
    <3> QED
      BY <1>2, <1>3, <3>1, <3>3
  <2> QED
    BY <2>1, <2>2
<1>8. PICK p \in Int, m \in Nat : p = n + 1 /\ m = l
  BY <1>2, <1>3
<1>10. InBurst(p, m)'
  <2>1. /\ -m <= p /\ p + m + 1 <= Len(events') /\ Old' <= m /\ ~(p <= 0)
        /\ \A i \in DOMAIN events' : ~(i > p + m + 1)
    BY <1>2, <1>3, <1>4, <1>6, <1>8
  <2>2. \A k \in 0..(m + 1) : events'[p + k] = BurstPart(k, m)
    BY <1>5, <1>8
  <2>3. \A i \in DOMAIN events' : events'[i].type \in {"reset", "end"} => i \in {p, p + m + 1}
    BY <1>7, <1>8
  <2> QED
    BY <1>6, <2>1, <2>2, <2>3 DEF InBurst, NoBurst, BurstPart
<1>9. SectionRows'
  BY <1>1, <1>6 DEF SectionInv, SectionRows, Counts
<1> QED
  BY <1>1, <1>9, <1>10 DEF SectionInv

\* A frame is read: before the burst nothing counts, within it the old sections come in
\* order, and behind it only new ones.
LEMMA DeliverSections == ASSUME HubTypes, SectionInv, Deliver PROVE SectionInv'
<1>1. /\ 1 \in DOMAIN events /\ events[1] \in Frames /\ ui' = Apply(events[1])
      /\ DOMAIN events = 1..Len(events) /\ Len(events) \in Nat
      /\ Len(events') = Len(events) - 1 /\ DOMAIN events' = 1..(Len(events) - 1)
      /\ \A i \in DOMAIN events' : i \in Nat /\ i + 1 \in DOMAIN events /\ events'[i] = events[i + 1]
  BY ReadFrame
<1>2. UNCHANGED <<rows, record, driver, replay, calls, note>> /\ Old' = Old
  BY DEF Deliver, Old
<1>3. SectionRows'
  BY <1>2 DEF SectionInv, SectionRows, Counts
<1>4. /\ ui.sections \in Seq(Nat) /\ DOMAIN ui.sections = 1..Len(ui.sections)
      /\ Len(ui.sections) \in Nat /\ Old \in Nat
  BY LenProperties DEF HubTypes, Old
<1>5. ASSUME events[1].type \in {"upsert", "item"}
      PROVE  ui'.sections = ui.sections /\ ui'.ended = ui.ended
  BY <1>1, <1>5 DEF Apply, ApplyItem, HubTypes
<1>6. ASSUME events[1].type = "section"
      PROVE  /\ ui'.ended = ui.ended
             /\ DOMAIN ui'.sections = DOMAIN ui.sections \union {Len(ui.sections) + 1}
             /\ Len(ui'.sections) = Len(ui.sections) + 1
             /\ \A i \in DOMAIN ui.sections : ui'.sections[i] = ui.sections[i]
             /\ ui'.sections[Len(ui.sections) + 1] = events[1].value
  <2>1. ui'.sections = Append(ui.sections, events[1].value) /\ ui'.ended = ui.ended
        /\ events[1].value \in Nat
    BY <1>1, <1>6 DEF Apply, HubTypes, Frames
  <2> QED
    BY <1>4, <2>1, Appended
<1>7. ASSUME events[1].type = "reset" PROVE ui'.sections = <<>> /\ ui'.ended = ui.ended
  BY <1>1, <1>7 DEF Apply, HubTypes
<1>8. ASSUME events[1].type = "end" PROVE ui'.sections = ui.sections /\ ui'.ended = TRUE
  BY <1>1, <1>8 DEF Apply, HubTypes
<1>9. events[1].type \in {"upsert", "item", "section", "reset", "end"}
  BY <1>1 DEF Frames
<1>10. NoBurst => NoBurst'
  BY <1>1, <1>5, <1>6, <1>9 DEF NoBurst
<1>11. ASSUME Ended PROVE Ended'
  <2>1. \A i \in DOMAIN events' :
          events'[i].type # "reset" /\ (events'[i].type = "section" => events'[i].value > Old)
    BY <1>1, <1>11 DEF Ended
  <2>2. events[1].type # "reset" /\ (events[1].type = "section" => events[1].value > Old)
    BY <1>1, <1>11 DEF Ended
  <2>3. CASE events[1].type = "section"
    <3>1. /\ ui'.ended /\ Old <= Len(ui'.sections)
          /\ \A k \in DOMAIN ui'.sections :
               IF k <= Old THEN ui'.sections[k] = k ELSE ui'.sections[k] > Old
      <4>1. ui.ended /\ Old <= Len(ui.sections) /\ events[1].value > Old
            /\ \A k \in DOMAIN ui.sections :
                 IF k <= Old THEN ui.sections[k] = k ELSE ui.sections[k] > Old
        BY <1>11, <2>2, <2>3 DEF Ended
      <4>2. ui'.ended /\ Old <= Len(ui'.sections)
        <5>1. ui'.ended = ui.ended
          BY <1>6, <2>3
        <5>2. Len(ui'.sections) = Len(ui.sections) + 1
          BY <1>6, <2>3
        <5>3. Old <= Len(ui'.sections)
          BY <1>4, <4>1, <5>2
        <5> QED
          BY <4>1, <5>1, <5>3
      <4>3. ASSUME NEW k \in DOMAIN ui'.sections
            PROVE  IF k <= Old THEN ui'.sections[k] = k ELSE ui'.sections[k] > Old
        <5>1. CASE k \in DOMAIN ui.sections
          <6>1. ui'.sections[k] = ui.sections[k]
            BY <1>6, <2>3, <5>1
          <6> QED
            BY <4>1, <5>1, <6>1
        <5>2. CASE k = Len(ui.sections) + 1
          <6>1. ui'.sections[k] = events[1].value /\ ~(k <= Old)
            BY <1>4, <1>6, <2>3, <4>1, <5>2
          <6> QED
            BY <4>1, <6>1
        <5> QED
          BY <1>6, <2>3, <5>1, <5>2
      <4> QED
        BY <4>2, <4>3
    <3> QED
      BY <1>2, <2>1, <3>1 DEF Ended
  <2>4. CASE events[1].type # "section"
    <3>1. ui'.sections = ui.sections /\ ui'.ended
      BY <1>5, <1>8, <1>9, <1>11, <2>2, <2>4 DEF Ended
    <3> QED
      BY <1>2, <1>11, <2>1, <3>1 DEF Ended
  <2> QED
    BY <2>3, <2>4
<1>12. ASSUME NEW p \in Int, NEW l \in Nat, InBurst(p, l)
       PROVE  Ended' \/ \E q \in Int : InBurst(q, l)'
  <2>1. /\ -l <= p /\ p + l + 1 <= Len(events) /\ Old <= l /\ ~ui.ended
        /\ p <= 0 => Len(ui.sections) + p = 0 /\ Counts(ui.sections)
    BY <1>12 DEF InBurst
  <2>2. \A i \in DOMAIN events' : i + 1 > p + l + 1 /\ events'[i].type = "section" => events'[i].value > Old
    BY <1>1, <1>12 DEF InBurst
  <2>3. \A i \in DOMAIN events' : events'[i].type \in {"reset", "end"} => i + 1 \in {p, p + l + 1}
    BY <1>1, <1>12 DEF InBurst
  <2>4. CASE p + l + 1 = 1
    <3>1. l + 1 \in 0..(l + 1) /\ p + (l + 1) >= 1 /\ p + (l + 1) = 1 /\ p <= 0 /\ p + l = 0
          /\ ~(l + 1 <= l) /\ l + 1 # 0
      BY <2>4
    <3>2. events[1] = BurstPart(l + 1, l)
      BY <1>12, <3>1 DEF InBurst
    <3>3. events[1].type = "end"
      BY <3>1, <3>2 DEF BurstPart, Frame
    <3>4. ui'.sections = ui.sections /\ ui'.ended /\ Len(ui.sections) = l /\ Counts(ui.sections)
      <4>1. ui'.sections = ui.sections /\ ui'.ended
        BY <1>8, <3>3
      <4>2. Len(ui.sections) + p = 0 /\ Counts(ui.sections)
        BY <2>1, <3>1
      <4>3. Len(ui.sections) = l
        BY <1>4, <3>1, <4>2
      <4> QED
        BY <4>1, <4>2, <4>3
    <3>5. \A i \in DOMAIN events' : i + 1 > p + l + 1 /\ i + 1 \notin {p, p + l + 1}
      BY <1>1, <2>4, <3>1
    <3>6. \A k \in DOMAIN ui'.sections :
            IF k <= Old THEN ui'.sections[k] = k ELSE ui'.sections[k] > Old
      BY <1>4, <3>4 DEF Counts
    <3> QED
      BY <1>2, <2>1, <2>2, <2>3, <3>4, <3>5, <3>6 DEF Ended
  <2>5. CASE p + l + 1 # 1
    <3>0. p + l + 1 > 1 /\ p + l + 1 >= 1
      BY <2>1, <2>5
    <3>1. -l <= p - 1 /\ (p - 1) + l + 1 <= Len(events')
      BY <1>1, <2>1, <3>0
    <3>2. ASSUME NEW k \in 0..(l + 1), (p - 1) + k >= 1 PROVE events'[(p - 1) + k] = BurstPart(k, l)
      <4>1. p + k >= 1 /\ (p - 1) + k \in DOMAIN events' /\ ((p - 1) + k) + 1 = p + k
        BY <1>1, <2>1, <3>2
      <4>2. events[p + k] = BurstPart(k, l)
        BY <1>12, <4>1 DEF InBurst
      <4> QED
        BY <1>1, <4>1, <4>2
    <3>3. \A i \in DOMAIN events' :
            i > (p - 1) + l + 1 /\ events'[i].type = "section" => events'[i].value > Old
      BY <1>1, <2>2
    <3>4. \A i \in DOMAIN events' : events'[i].type \in {"reset", "end"} => i \in {p - 1, (p - 1) + l + 1}
      BY <1>1, <2>3
    <3>5. ~ui'.ended
      <4>1. events[1].type # "end"
        <5>1. CASE events[1].type = "end"
          <6>1. 1 \in {p, p + l + 1}
            BY <1>1, <1>12, <5>1 DEF InBurst
          <6>2. p = 1
            BY <3>0, <6>1
          <6>3. events[1] = BurstPart(0, l)
            <7>1. 0 \in 0..(l + 1) /\ p + 0 >= 1 /\ p + 0 = 1
              BY <6>2
            <7> QED
              BY <1>12, <7>1 DEF InBurst
          <6> QED
            BY <5>1, <6>3 DEF BurstPart, Frame
        <5> QED
          BY <5>1
      <4> QED
        BY <1>5, <1>6, <1>7, <1>9, <2>1, <4>1
    <3>6. ASSUME p - 1 <= 0 PROVE Len(ui'.sections) + (p - 1) = 0 /\ Counts(ui'.sections)
      <4>1. CASE p = 1
        <5>1. 0 \in 0..(l + 1) /\ p + 0 >= 1 /\ p + 0 = 1
          BY <4>1
        <5>2. events[1] = BurstPart(0, l)
          BY <1>12, <5>1 DEF InBurst
        <5>3. ui'.sections = <<>>
          BY <1>7, <5>2 DEF BurstPart, Frame
        <5>4. DOMAIN ui'.sections = {} /\ Len(ui'.sections) = 0
          BY <5>3
        <5> QED
          BY <4>1, <5>4 DEF Counts
      <4>2. CASE p # 1
        <5> DEFINE k == 1 - p
        <5>1. p <= 0 /\ k \in 0..(l + 1) /\ p + k >= 1 /\ p + k = 1 /\ k # 0 /\ k <= l
              /\ k + (p - 1) = 0
          BY <2>1, <3>0, <3>6, <4>2
        <5> HIDE DEF k
        <5>2. events[1] = BurstPart(k, l)
          BY <1>12, <5>1 DEF InBurst
        <5>3. events[1].type = "section" /\ events[1].value = k
          BY <5>1, <5>2 DEF BurstPart, Frame
        <5>4. Len(ui.sections) + p = 0 /\ Counts(ui.sections) /\ Len(ui.sections) + 1 = k
          BY <2>1, <5>1
        <5> QED
          BY <1>6, <5>1, <5>3, <5>4 DEF Counts
      <4> QED
        BY <4>1, <4>2
    <3>7. InBurst(p - 1, l)'
      BY <1>2, <2>1, <3>1, <3>2, <3>3, <3>4, <3>5, <3>6 DEF InBurst, BurstPart
    <3> QED
      BY <3>7
  <2> QED
    BY <2>4, <2>5
<1> QED
  BY <1>2, <1>3, <1>10, <1>11, <1>12 DEF SectionInv

\* The frontend's other steps send items at most.
LEMMA FrontendSections == ASSUME HubTypes, SectionInv, Frontend PROVE SectionInv'
<1>1. CASE FrontendReady
  <2>1. /\ replay.at = "waiting" /\ replay'.at = "loaded" /\ replay'.loaded = rows.sections
        /\ UNCHANGED <<rows, record, driver, events, calls, ui, note>>
    BY <1>1 DEF FrontendReady
  <2> QED
    BY <2>1 DEF SectionInv, SectionRows, Counts, NoBurst, Old
<1>2. CASE Burst
  BY <1>2, BurstSections
<1>3. CASE Deliver
  BY <1>3, DeliverSections
<1>4. CASE \E view \in {"inline", "tab"} : Mount(view) \/ Unmount(view)
  <2>1. PICK view \in {"inline", "tab"} : Mount(view) \/ Unmount(view)
    BY <1>4
  <2>2. UNCHANGED <<rows, record, driver, events, replay>>
    BY <2>1 DEF Mount, Unmount
  <2>3. ui'.sections = ui.sections /\ ui'.ended = ui.ended
    <3>1. CASE Mount(view)
      BY <3>1 DEF Mount, HubTypes
    <3>2. CASE Unmount(view)
      BY <3>2 DEF Unmount, HubTypes
    <3> QED
      BY <2>1, <3>1, <3>2
  <2>4. note'.before = note.before
    BY <1>4, FrontendGrows DEF Frontend
  <2>5. Old' = Old
    BY <2>4 DEF Old
  <2> QED
    BY <2>2, <2>3, <2>4, <2>5 DEF SectionInv, SectionRows, Counts, NoBurst, Ended, InBurst, BurstPart
<1>5. CASE \E k \in DOMAIN calls :
       RunTail(k) \/ RunDrop(k) \/ BeginCatchUp(k) \/ Replay(k) \/ ReplayFails(k) \/ Splice(k)
  <2>1. PICK k \in DOMAIN calls :
          RunTail(k) \/ RunDrop(k) \/ BeginCatchUp(k) \/ Replay(k) \/ ReplayFails(k) \/ Splice(k)
    BY <1>5
  <2>2. note'.before = note.before /\ rows' = rows /\ driver' = driver
    BY <1>5, FrontendGrows DEF Frontend
  <2>3. replay' = replay /\ ui' = ui
    BY <2>1 DEF RunTail, RunDrop, BeginCatchUp, Replay, ReplayFails, Splice, Subscribe
  <2>4. CASE RunTail(k) \/ RunDrop(k) \/ BeginCatchUp(k)
    <3>1. events' = events
      BY <2>4 DEF RunTail, RunDrop, BeginCatchUp
    <3> QED
      BY <2>2, <2>3, <3>1, SectionsSilent
  <2>5. CASE Replay(k) \/ ReplayFails(k) \/ Splice(k)
    <3>1. PICK items \in Seq(Nat) : events' = events \o Streamed(items)
      BY <2>5, SentItems
    <3> QED
      BY <2>2, <2>3, <3>1, SectionsItems
  <2> QED
    BY <2>1, <2>4, <2>5
<1> QED
  BY <1>1, <1>2, <1>3, <1>4, <1>5 DEF Frontend

\* A start: nothing is shown, and what is recorded is old.
LEMMA OpenSections == ASSUME HubTypes, SectionRows, Open PROVE SectionInv'
<1>1. /\ rows'.sections = rows.sections /\ note'.before = rows.sections /\ replay'.at = "waiting"
      /\ driver'.at = "free" /\ ui'.ended = FALSE
      /\ events' \in {<<>>, <<Upsert("none")>>, <<Upsert("settled")>>}
  BY DEF Open, NoReplay, DriverFree, NewUi, HubTypes
<1>2. Len(rows.sections) \in Nat
  BY LenProperties DEF HubTypes
<1>3. \A i \in DOMAIN events' : events'[i].type = "upsert"
  BY <1>1 DEF Upsert, Frame
<1> QED
  BY <1>1, <1>2, <1>3 DEF SectionInv, SectionRows, Counts, NoBurst, Old

\* The invariant says what the property says.
LEMMA SectionsAreShown == HubTypes /\ SectionInv => OldSectionsShownOnce
<1> SUFFICES ASSUME HubTypes, SectionInv, ui.ended
             PROVE  /\ SubSeq(ui.sections, 1, Old) = note.before
                    /\ \A k \in DOMAIN ui.sections : k > Old => ui.sections[k] > Old
  BY DEF OldSectionsShownOnce, Old
<1>1. Ended
  BY DEF SectionInv, NoBurst, InBurst
<1>2. /\ ui.sections \in Seq(Nat) /\ note.before \in Seq(Nat) /\ Old \in Nat /\ Len(ui.sections) \in Nat
      /\ DOMAIN ui.sections = 1..Len(ui.sections) /\ DOMAIN note.before = 1..Old
      /\ \A i \in DOMAIN ui.sections : ui.sections[i] \in Nat
  BY LenProperties, ElementOfSeq DEF HubTypes, Old
<1>3. \A k \in DOMAIN ui.sections : k > Old => ui.sections[k] > Old
  BY <1>1, <1>2 DEF Ended
<1>4. \A i \in 1..Old : ui.sections[i] = i /\ note.before[i] = i /\ ui.sections[i] \in Nat
  BY <1>1, <1>2 DEF Ended, SectionInv, SectionRows, Counts
<1>5. /\ SubSeq(ui.sections, 1, Old) \in Seq(Nat) /\ Len(SubSeq(ui.sections, 1, Old)) = Old
      /\ \A i \in 1..Old : SubSeq(ui.sections, 1, Old)[i] = ui.sections[i]
  <2>1. \A i \in 1..(Old - 1 + 1) : SubSeq(ui.sections, 1, Old)[i] = ui.sections[1 + i - 1]
    BY <1>2, <1>4, SubSeqProperties
  <2>2. Old - 1 + 1 = Old /\ \A i \in 1..Old : 1 + i - 1 = i
    BY <1>2
  <2>3. /\ SubSeq(ui.sections, 1, Old) \in Seq(Nat)
        /\ Len(SubSeq(ui.sections, 1, Old)) = IF 1 <= Old THEN Old - 1 + 1 ELSE 0
    BY <1>2, <1>4, SubSeqProperties
  <2> QED
    BY <1>2, <2>1, <2>2, <2>3
<1>6. SubSeq(ui.sections, 1, Old) = note.before
  BY <1>2, <1>4, <1>5, SeqEqual DEF Old
<1> QED
  BY <1>3, <1>6
-----------------------------------------------------------------------------
(* The splice.                                                             *)

LEMMA Members == \A s, x : x \in ToSet(s) <=> In(x, s)
BY DEF ToSet, In

\* Rising sequences.
LEMMA RisingAppend ==
  ASSUME NEW s \in Seq(Nat), NEW e \in Nat
  PROVE  /\ Append(s, e) \in Seq(Nat)
         /\ Rising(s) /\ (\A i \in DOMAIN s : s[i] < e) => Rising(Append(s, e))
         /\ \A x : In(x, Append(s, e)) <=> In(x, s) \/ x = e
         /\ \A n \in Nat : UpTo(s, n) /\ e <= n => UpTo(Append(s, e), n)
<1>1. /\ Append(s, e) \in Seq(Nat) /\ DOMAIN Append(s, e) = DOMAIN s \union {Len(s) + 1}
      /\ Len(s) + 1 \notin DOMAIN s /\ Len(s) \in Nat /\ DOMAIN s = 1..Len(s)
      /\ \A i \in DOMAIN s : Append(s, e)[i] = s[i]
      /\ Append(s, e)[Len(s) + 1] = e
  BY Appended
<1>2. ASSUME Rising(s), \A i \in DOMAIN s : s[i] < e PROVE Rising(Append(s, e))
  BY <1>1, <1>2 DEF Rising
<1>3. \A x : In(x, Append(s, e)) <=> In(x, s) \/ x = e
  BY <1>1 DEF In
<1>4. \A n \in Nat : UpTo(s, n) /\ e <= n => UpTo(Append(s, e), n)
  BY <1>1 DEF UpTo
<1> QED
  BY <1>1, <1>2, <1>3, <1>4

LEMMA RisingJoined ==
  ASSUME NEW s \in Seq(Nat), NEW t \in Seq(Nat)
  PROVE  /\ s \o t \in Seq(Nat)
         /\ Rising(s) /\ Rising(t) /\ (\A i \in DOMAIN s, j \in DOMAIN t : s[i] < t[j]) => Rising(s \o t)
         /\ \A x : In(x, s \o t) <=> In(x, s) \/ In(x, t)
         /\ \A n \in Nat : UpTo(s, n) /\ UpTo(t, n) => UpTo(s \o t, n)
<1>1. /\ s \o t \in Seq(Nat) /\ Len(s) \in Nat /\ Len(t) \in Nat
      /\ DOMAIN s = 1..Len(s) /\ DOMAIN t = 1..Len(t) /\ DOMAIN (s \o t) = 1..(Len(s) + Len(t))
      /\ \A i \in DOMAIN s : i \in DOMAIN (s \o t) /\ (s \o t)[i] = s[i]
      /\ \A i \in DOMAIN t : Len(s) + i \in DOMAIN (s \o t) /\ (s \o t)[Len(s) + i] = t[i]
      /\ \A i \in DOMAIN (s \o t) : i \in DOMAIN s \/ (i - Len(s) \in DOMAIN t /\ i > Len(s)
                                                       /\ (s \o t)[i] = t[i - Len(s)])
  BY Joined
<1>2. ASSUME Rising(s), Rising(t), \A i \in DOMAIN s, j \in DOMAIN t : s[i] < t[j]
      PROVE  Rising(s \o t)
  <2> SUFFICES ASSUME NEW i \in DOMAIN (s \o t), NEW j \in DOMAIN (s \o t), i < j
               PROVE  (s \o t)[i] < (s \o t)[j]
    BY DEF Rising
  <2>1. CASE j \in DOMAIN s
    <3>1. i \in DOMAIN s
      BY <1>1, <2>1
    <3> QED
      BY <1>1, <1>2, <2>1, <3>1 DEF Rising
  <2>2. CASE j \notin DOMAIN s /\ i \in DOMAIN s
    BY <1>1, <1>2, <2>2
  <2>3. CASE j \notin DOMAIN s /\ i \notin DOMAIN s
    <3>1. /\ i - Len(s) \in DOMAIN t /\ j - Len(s) \in DOMAIN t /\ i - Len(s) < j - Len(s)
          /\ (s \o t)[i] = t[i - Len(s)] /\ (s \o t)[j] = t[j - Len(s)]
      BY <1>1, <2>3
    <3> QED
      BY <1>2, <3>1 DEF Rising
  <2> QED
    BY <2>1, <2>2, <2>3
<1>3. ASSUME NEW x PROVE In(x, s \o t) <=> In(x, s) \/ In(x, t)
  <2>1. ASSUME In(x, s \o t) PROVE In(x, s) \/ In(x, t)
    <3>1. PICK i \in DOMAIN (s \o t) : (s \o t)[i] = x
      BY <2>1 DEF In
    <3> QED
      BY <1>1, <3>1 DEF In
  <2>2. ASSUME In(x, s) PROVE In(x, s \o t)
    BY <1>1, <2>2 DEF In
  <2>3. ASSUME In(x, t) PROVE In(x, s \o t)
    BY <1>1, <2>3 DEF In
  <2> QED
    BY <2>1, <2>2, <2>3
<1>4. ASSUME NEW n \in Nat, UpTo(s, n), UpTo(t, n) PROVE UpTo(s \o t, n)
  <2> SUFFICES ASSUME NEW i \in DOMAIN (s \o t) PROVE (s \o t)[i] <= n
    BY DEF UpTo
  <2> QED
    BY <1>1, <1>4 DEF UpTo
<1> QED
  BY <1>1, <1>2, <1>3, <1>4

\* What remains of the buffer is what the replay has not covered, in order.
LEMMA RemainingItems ==
  ASSUME HubTypes, Rising(record.buffer), NEW k \in DOMAIN calls, calls[k].last \in Nat
  PROVE  /\ Rising(Remaining(k))
         /\ \A x : In(x, Remaining(k)) <=> In(x, record.buffer) /\ x > calls[k].last
<1> DEFINE b == record.buffer
           n == Len(b)
           I == {i \in 1..n : b[i] > calls[k].last}
<1>1. b \in Seq(Nat) /\ n \in Nat /\ DOMAIN b = 1..n /\ \A i \in 1..n : b[i] \in Nat
  BY LenProperties, ElementOfSeq DEF HubTypes
<1>2. CASE I = {}
  <2>1. Remaining(k) = <<>>
    BY <1>2 DEF Remaining, SelectInSeq
  <2>2. ~ \E x : In(x, b) /\ x > calls[k].last
    BY <1>1, <1>2 DEF In
  <2> QED
    BY <2>1, <2>2 DEF In, Rising
<1>3. CASE I # {}
  <2>0. I \subseteq Nat
    BY <1>1
  <2>1. \E m \in I : \A j \in I : m <= j
    <3> HIDE DEF I
    <3> QED
      BY <1>3, <2>0, LeastOf
  <2>2. Min(I) \in I /\ \A j \in I : Min(I) <= j
    BY <2>1 DEF Min
  <2>3. Remaining(k) = SubSeq(b, Min(I), n)
    <3>1. SelectInSeq(record.buffer, LAMBDA item : item > calls[k].last) = Min(I)
      BY <1>3 DEF SelectInSeq
    <3>2. Min(I) # 0
      BY <2>2
    <3> QED
      BY <3>1, <3>2 DEF Remaining
  <2>4. PICK m \in 1..n : m = Min(I)
    BY <2>2
  <2>5. /\ b[m] > calls[k].last /\ \A j \in 1..n : b[j] > calls[k].last => m <= j
        /\ Remaining(k) = SubSeq(b, m, n)
    BY <2>2, <2>3, <2>4
  <2> HIDE DEF I, n, b
  <2>6. /\ SubSeq(b, m, n) \in Seq(Nat) /\ Len(SubSeq(b, m, n)) = n - m + 1
        /\ \A i \in 1..(n - m + 1) : SubSeq(b, m, n)[i] = b[m + i - 1]
    <3>1. m \in Int /\ n \in Int /\ \A i \in m..n : b[i] \in Nat
      BY <1>1
    <3>2. /\ SubSeq(b, m, n) \in Seq(Nat)
          /\ Len(SubSeq(b, m, n)) = IF m <= n THEN n - m + 1 ELSE 0
          /\ \A i \in 1..(n - m + 1) : SubSeq(b, m, n)[i] = b[m + i - 1]
      BY <1>1, <3>1, SubSeqProperties
    <3>3. m <= n
      BY <1>1
    <3> QED
      BY <3>2, <3>3
  <2>7. DOMAIN SubSeq(b, m, n) = 1..(n - m + 1)
    BY <1>1, <2>6, LenProperties
  <2>8. Rising(b)
    BY DEF b
  <2>9. Rising(SubSeq(b, m, n))
    <3> SUFFICES ASSUME NEW i \in 1..(n - m + 1), NEW j \in 1..(n - m + 1), i < j
                 PROVE  SubSeq(b, m, n)[i] < SubSeq(b, m, n)[j]
      BY <2>7 DEF Rising
    <3>1. m + i - 1 \in 1..n /\ m + j - 1 \in 1..n /\ m + i - 1 < m + j - 1
      BY <1>1
    <3>2. b[m + i - 1] < b[m + j - 1]
      BY <1>1, <2>8, <3>1 DEF Rising
    <3> QED
      BY <2>6, <3>2
  <2>10. ASSUME NEW x, In(x, SubSeq(b, m, n)) PROVE In(x, b) /\ x > calls[k].last
    <3>1. PICK i \in 1..(n - m + 1) : SubSeq(b, m, n)[i] = x
      BY <2>7, <2>10 DEF In
    <3>2. m + i - 1 \in 1..n /\ m <= m + i - 1 /\ x = b[m + i - 1]
      BY <1>1, <2>6, <3>1
    <3>3. b[m] <= b[m + i - 1]
      <4>1. CASE m = m + i - 1
        BY <1>1, <4>1
      <4>2. CASE m < m + i - 1
        <5>1. b[m] < b[m + i - 1]
          BY <1>1, <2>8, <3>2, <4>2 DEF Rising
        <5>2. b[m] \in Nat /\ b[m + i - 1] \in Nat
          BY <1>1, <3>2
        <5> QED
          BY <5>1, <5>2
      <4>3. m \in Int /\ m + i - 1 \in Int
        BY <1>1
      <4> QED
        BY <3>2, <4>1, <4>2, <4>3
    <3> QED
      BY <1>1, <2>5, <3>2, <3>3 DEF In
  <2>11. ASSUME NEW x, In(x, b), x > calls[k].last PROVE In(x, SubSeq(b, m, n))
    <3>1. PICK j \in 1..n : b[j] = x
      BY <1>1, <2>11 DEF In
    <3>2. m <= j
      BY <2>5, <2>11, <3>1
    <3> DEFINE i == j - m + 1
    <3>3. i \in 1..(n - m + 1) /\ m + i - 1 = j
      BY <1>1, <3>2
    <3> HIDE DEF i
    <3>4. SubSeq(b, m, n)[i] = x
      BY <2>6, <3>1, <3>3
    <3> QED
      BY <2>7, <3>3, <3>4 DEF In
  <2> QED
    BY <2>5, <2>9, <2>10, <2>11 DEF b
<1> QED
  BY <1>2, <1>3

LEMMA NoElements == DOMAIN <<>> = {}
OBVIOUS

\* Most steps leave the stream, the subscription and its calls as they are.
LEMMA SpliceSame ==
  ASSUME HubTypes, SpliceInv, UNCHANGED calls,
         rows'.stream = rows.stream,
         record'.next = record.next, record'.sub = record.sub, record'.buffer = record.buffer,
         note'.caught = note.caught, note'.disturbed = note.disturbed,
         note'.missed = note.missed, note'.sent = note.sent,
         ui'.sub.refs = ui.sub.refs,
         driver'.at # "insert" \/ (driver' = driver /\ record'.life = record.life),
         record'.life = "live" => record.life \in {"none", "live"},
         record'.life = "none" => record.life = "none",
         rows'.life = "none" => rows.life = "none" /\ record'.life = "none" /\ driver'.at # "upsert",
         driver'.at = "upsert" => record'.life # "settled"
  PROVE  SpliceInv'
<1>1. StreamInv'
  <2>1. StreamInv
    BY DEF SpliceInv
  <2>2. record'.life = "live" => UpTo(rows.stream, record.next)
    <3>1. record.life = "none" => UpTo(rows.stream, record.next)
      BY <2>1 DEF StreamInv, UpTo
    <3> QED
      BY <2>1, <3>1 DEF StreamInv
  <2>3. Rising(rows'.stream) /\ Rising(record'.buffer) /\ UpTo(record'.buffer, record'.next)
    BY <2>1 DEF StreamInv
  <2>4. record'.life = "live" => UpTo(rows'.stream, record'.next)
    BY <2>2
  <2>5. record'.life = "none" => /\ rows'.stream = <<>> /\ record'.next = 0 /\ calls' = <<>>
                                 /\ ~note'.caught /\ ui'.sub.refs = {}
    BY <2>1 DEF StreamInv
  <2>6. driver'.at = "insert" =>
          /\ record'.life = "live" /\ driver'.item = record'.next /\ driver'.item > 0
          /\ \A i \in DOMAIN rows'.stream : rows'.stream[i] < driver'.item
    BY <2>1 DEF StreamInv
  <2> QED
    BY <2>3, <2>4, <2>5, <2>6 DEF StreamInv, Rising, UpTo
<1>2. ASSUME note.caught, ~note.disturbed PROVE (Querying \/ Splicing \/ Following)'
  <2>1. record.life # "none" /\ (Querying \/ Splicing \/ Following)
    BY <1>2 DEF SpliceInv, StreamInv
  <2>2. Querying => Querying'
    BY DEF Querying, In
  <2>3. Splicing => Splicing'
    BY DEF Splicing, Covered, Comes, Rising, UpTo, In
  <2>4. Following => Following'
    BY <2>1 DEF Following, Came, Rising, UpTo, In
  <2> QED
    BY <2>1, <2>2, <2>3, <2>4
<1> QED
  BY <1>1, <1>2 DEF SpliceInv

\* What was subscribed before plays no part once the subscription is no catch-up, or is
\* one that was disturbed.
LEMMA SpliceOver ==
  ASSUME HubTypes, SpliceInv, ~note'.caught \/ note'.disturbed,
         record.life # "none",
         UNCHANGED <<rows, driver>>,
         record' = record \/ \E sub : record' = [record EXCEPT !.sub = sub, !.buffer = <<>>]
  PROVE  SpliceInv'
<1>1. StreamInv
  BY DEF SpliceInv
<1>2. /\ record'.life = record.life /\ record'.next = record.next
      /\ record'.buffer = record.buffer \/ record'.buffer = <<>>
  BY DEF HubTypes
<1>3. Rising(record'.buffer) /\ UpTo(record'.buffer, record'.next)
  <2>1. CASE record'.buffer = record.buffer
    BY <1>1, <1>2, <2>1 DEF StreamInv
  <2>2. CASE record'.buffer = <<>>
    <3>1. DOMAIN record'.buffer = {}
      BY <2>2, NoElements
    <3> QED
      BY <3>1 DEF Rising, UpTo
  <2> QED
    BY <1>2, <2>1, <2>2
<1>4. StreamInv'
  BY <1>1, <1>2, <1>3 DEF StreamInv, Rising, UpTo
<1> QED
  BY <1>4 DEF SpliceInv

\* A number is the next one: behind what is stored, buffered or sent.
LEMMA NumberSplice == ASSUME HubTypes, SpliceInv, Number PROVE SpliceInv'
<1>1. PICK item \in Nat : item = record.next + 1
  BY DEF HubTypes
<1>2. /\ driver.at = "free" /\ record.life = "live" /\ record'.life = "live" /\ record'.next = item
      /\ record'.sub = record.sub /\ driver'.at = "insert" /\ driver'.item = item
      /\ record'.buffer = IF record.sub = "catching" THEN Append(record.buffer, item) ELSE record.buffer
      /\ UNCHANGED <<rows, calls, ui>>
      /\ note'.sent = IF record.sub = "live" THEN Append(note.sent, item) ELSE note.sent
      /\ note'.caught = note.caught /\ note'.disturbed = note.disturbed /\ note'.missed = note.missed
  BY <1>1 DEF Number, At, HubTypes
<1>3. /\ record.next \in Nat /\ item > record.next /\ item > 0
      /\ record.buffer \in Seq(Nat) /\ note.sent \in Seq(Nat) /\ rows.stream \in Seq(Nat)
  BY <1>1 DEF HubTypes
<1>4. StreamInv
  BY DEF SpliceInv
<1>5. /\ \A i \in DOMAIN rows.stream : rows.stream[i] < item /\ rows.stream[i] <= item
      /\ \A i \in DOMAIN record.buffer : record.buffer[i] < item /\ record.buffer[i] <= item
  <2>1. \A i \in DOMAIN rows.stream : rows.stream[i] \in Nat /\ rows.stream[i] <= record.next
    BY <1>2, <1>3, <1>4 DEF StreamInv, UpTo
  <2>2. \A i \in DOMAIN record.buffer : record.buffer[i] \in Nat /\ record.buffer[i] <= record.next
    BY <1>3, <1>4 DEF StreamInv, UpTo
  <2>3. \A x \in Nat : x <= record.next => x < item /\ x <= item
    BY <1>3
  <2> QED
    BY <2>1, <2>2, <2>3
<1>6. /\ Rising(record'.buffer) /\ UpTo(record'.buffer, item)
      /\ \A x : In(x, record.buffer) => In(x, record'.buffer)
      /\ record.sub = "catching" => In(item, record'.buffer)
  <2>1. UpTo(record.buffer, item)
    BY <1>5 DEF UpTo
  <2>2. CASE record.sub = "catching"
    <3>1. record'.buffer = Append(record.buffer, item)
      BY <1>2, <2>2
    <3>2. Rising(record.buffer) /\ item <= item
      BY <1>4 DEF StreamInv
    <3> QED
      BY <1>3, <1>5, <2>1, <3>1, <3>2, RisingAppend
  <2>3. CASE record.sub # "catching"
    <3>1. record'.buffer = record.buffer
      BY <1>2, <2>3
    <3> QED
      BY <1>4, <2>1, <2>3, <3>1 DEF StreamInv
  <2> QED
    BY <2>2, <2>3
<1>7. StreamInv'
  <2>1. Rising(rows.stream) /\ UpTo(rows.stream, item) /\ rows.life # "none"
    BY <1>2, <1>4, <1>5 DEF StreamInv, UpTo
  <2> QED
    BY <1>2, <1>3, <1>5, <1>6, <2>1 DEF StreamInv, Rising, UpTo
<1>8. ASSUME note.caught, ~note.disturbed PROVE (Querying \/ Splicing \/ Following)'
  <2>1. CASE Querying
    <3>1. record.sub = "catching" /\ note'.sent = <<>>
      BY <1>2, <2>1 DEF Querying
    <3>2. Querying'
      BY <1>2, <1>6, <2>1, <3>1 DEF Querying, In
    <3> QED
      BY <3>2
  <2>2. CASE Splicing
    <3>1. record.sub = "catching" /\ note'.sent = note.sent /\ Covered' = Covered
      BY <1>2, <2>2 DEF Splicing, Covered
    <3>2. item > Covered
      <4>1. Covered = 0 \/ \E i \in DOMAIN rows.stream : rows.stream[i] = Covered
        BY <2>2 DEF Splicing, In
      <4> QED
        BY <1>3, <1>5, <4>1
    <3>3. \A x : Comes(x) => Comes(x)'
      BY <1>2, <1>6, <3>1 DEF Comes, In
    <3>4. Comes(driver.item)'
      BY <1>2, <1>6, <3>1, <3>2 DEF Comes, In
    <3>5. Splicing'
      <4>1. /\ Len(calls') = 1 /\ calls'[1].at = "splice" /\ record'.sub = "catching"
            /\ Rising(note'.sent) /\ UpTo(note'.sent, Covered')
            /\ (Covered' = 0 \/ In(Covered', rows'.stream))
        BY <1>2, <2>2, <3>1 DEF Splicing
      <4>2. \A x \in ToSet(rows.stream) : In(x, note.sent) \/ Comes(x)'
        BY <2>2, <3>3 DEF Splicing
      <4>3. (\A x \in ToSet(rows.stream) : In(x, note.sent) \/ Comes(x))'
        BY <1>2, <3>1, <4>2 DEF In
      <4> QED
        BY <3>4, <4>1, <4>3 DEF Splicing, Rising, UpTo, In, Covered
    <3> QED
      BY <3>5
  <2>3. CASE Following
    <3>1. record.sub = "live" /\ Rising(note.sent) /\ note'.sent = Append(note.sent, item)
      BY <1>2, <2>3 DEF Following
    <3>2. \A i \in DOMAIN note.sent : note.sent[i] < item /\ note.sent[i] <= item
      <4>1. \A i \in DOMAIN note.sent : note.sent[i] \in Nat /\ note.sent[i] <= record.next
        BY <1>2, <1>3, <2>3 DEF Following, UpTo
      <4> QED
        BY <1>3, <4>1
    <3>3. /\ Rising(note'.sent) /\ UpTo(note'.sent, item)
          /\ \A x : In(x, note'.sent) <=> In(x, note.sent) \/ x = item
      <4>1. UpTo(note.sent, item) /\ item <= item
        BY <1>3, <3>2 DEF UpTo
      <4> QED
        BY <1>3, <3>1, <3>2, <4>1, RisingAppend
    <3>4. (\A x : Came(x) => Came(x)') /\ Came(driver.item)'
      BY <1>2, <3>3 DEF Came, In
    <3>5. Following'
      <4>1. /\ Len(calls') <= 1 /\ \A k \in DOMAIN calls' : calls'[k].at = "issued"
            /\ record'.sub = "live" /\ UpTo(note'.sent, record'.next)
        BY <1>2, <2>3, <3>3 DEF Following
      <4>2. (\A x \in ToSet(rows.stream) : Came(x))'
        BY <1>2, <2>3, <3>4 DEF Following
      <4> QED
        BY <3>3, <3>4, <4>1, <4>2 DEF Following, Rising, UpTo
    <3> QED
      BY <3>5
  <2> QED
    BY <1>8, <2>1, <2>2, <2>3 DEF SpliceInv
<1> QED
  BY <1>2, <1>7, <1>8 DEF SpliceInv

\* The row of an item: the item is sent, or buffered, or was missed.
LEMMA InsertSplice == ASSUME HubTypes, SpliceInv, Insert PROVE SpliceInv'
<1>1. /\ driver.at = "insert" /\ driver'.at = "free" /\ rows'.stream = Append(rows.stream, driver.item)
      /\ rows'.life = rows.life /\ UNCHANGED <<record, calls, ui, note>>
      /\ rows.stream \in Seq(Nat) /\ driver.item \in Nat
  BY DEF Insert, At, DriverFree, HubTypes
<1>2. /\ record.life = "live" /\ driver.item = record.next
      /\ \A i \in DOMAIN rows.stream : rows.stream[i] < driver.item
      /\ Rising(rows.stream) /\ Rising(record.buffer) /\ UpTo(record.buffer, record.next)
      /\ UpTo(rows.stream, record.next) /\ rows.life # "none"
  BY <1>1 DEF SpliceInv, StreamInv
<1>3. /\ Rising(rows'.stream) /\ UpTo(rows'.stream, record.next)
      /\ \A x : In(x, rows'.stream) <=> In(x, rows.stream) \/ x = driver.item
      /\ DOMAIN rows'.stream = DOMAIN rows.stream \union {Len(rows.stream) + 1}
      /\ \A i \in DOMAIN rows.stream : rows'.stream[i] = rows.stream[i]
      /\ rows'.stream[Len(rows.stream) + 1] = driver.item
  <2>1. driver.item <= record.next /\ record.next \in Nat
    BY <1>1, <1>2
  <2> QED
    BY <1>1, <1>2, <2>1, RisingAppend, Appended
<1>4. StreamInv'
  BY <1>1, <1>2, <1>3 DEF StreamInv, Rising, UpTo
<1>5. ASSUME note.caught, ~note.disturbed PROVE (Querying \/ Splicing \/ Following)'
  <2>1. Querying => Querying'
    BY <1>1 DEF Querying, In
  <2>2. CASE Splicing
    <3>1. Covered' = Covered /\ \A x : Comes(x)' <=> Comes(x)
      BY <1>1 DEF Covered, Comes, In
    <3>2. Covered = 0 \/ In(Covered, rows'.stream)
      BY <1>3, <2>2 DEF Splicing
    <3>3. \A x \in ToSet(rows'.stream) : In(x, note.sent) \/ Comes(x)
      BY <1>1, <1>3, <2>2, Members DEF Splicing
    <3>4. Splicing'
      <4>1. /\ Len(calls') = 1 /\ calls'[1].at = "splice" /\ record'.sub = "catching"
            /\ Rising(note'.sent) /\ UpTo(note'.sent, Covered')
        BY <1>1, <2>2, <3>1 DEF Splicing
      <4> QED
        BY <1>1, <3>1, <3>2, <3>3, <4>1 DEF Splicing, Rising, UpTo, In, Covered
    <3> QED
      BY <3>4
  <2>3. CASE Following
    <3>1. \A x : Came(x)' <=> Came(x)
      BY <1>1 DEF Came, In
    <3>2. \A x \in ToSet(rows'.stream) : Came(x)
      BY <1>1, <1>3, <2>3, Members DEF Following
    <3>3. Following'
      BY <1>1, <2>3, <3>1, <3>2 DEF Following, Rising, UpTo
    <3> QED
      BY <3>3
  <2> QED
    BY <1>5, <2>1, <2>2, <2>3 DEF SpliceInv
<1> QED
  BY <1>1, <1>4, <1>5 DEF SpliceInv

LEMMA ProduceSplice == ASSUME HubTypes, SpliceInv, Produce PROVE SpliceInv'
<1>1. record.life \in Lives
  BY DEF HubTypes
<1>2. StreamInv
  BY DEF SpliceInv
<1>3. CASE UpsertRow
  <2>1. /\ record.life # "settled" /\ rows'.life = "live" /\ rows'.stream = rows.stream
        /\ driver'.at = "upsert" /\ UNCHANGED <<record, calls, ui>>
        /\ note'.caught = note.caught /\ note'.disturbed = note.disturbed
        /\ note'.missed = note.missed /\ note'.sent = note.sent
    BY <1>3 DEF UpsertRow, Go, HubTypes
  <2> QED
    BY <2>1, SpliceSame
<1>4. CASE Publish
  <2>1. /\ driver.at = "upsert" /\ record'.life = "live" /\ record'.next = record.next
        /\ record'.sub = record.sub /\ record'.buffer = record.buffer
        /\ driver'.at = "free" /\ UNCHANGED <<rows, calls, ui, note>>
    BY <1>4 DEF Publish, At, DriverFree, HubTypes
  <2>2. record.life \in {"none", "live"} /\ rows.life # "none"
    <3>1. record.life # "settled" /\ (rows.life = "none" => driver.at # "upsert")
      BY <1>2, <2>1 DEF StreamInv
    <3> QED
      BY <1>1, <2>1, <3>1 DEF Lives
  <2> QED
    BY <2>1, <2>2, SpliceSame
<1>5. CASE Settle
  <2>1. /\ record.life = "live" /\ record'.life = "settled" /\ record'.next = record.next
        /\ record'.sub = record.sub /\ record'.buffer = record.buffer
        /\ driver'.at = "settle" /\ UNCHANGED <<rows, calls, ui, note>>
    BY <1>5 DEF Settle, Go, HubTypes
  <2>2. rows.life # "none"
    BY <1>2, <2>1 DEF StreamInv
  <2> QED
    BY <2>1, <2>2, SpliceSame
<1>6. CASE SettleRow \/ StoreArtifact \/ PublishSettled \/ PersistSection \/ SendSection \/ OutputFails
  <2>1. /\ driver'.at \notin {"insert", "upsert"} /\ rows'.stream = rows.stream
        /\ rows'.life = "none" => rows.life = "none"
        /\ UNCHANGED <<record, calls, ui>>
    BY <1>6 DEF SettleRow, StoreArtifact, PublishSettled, PersistSection, SendSection, OutputFails,
                Go, DriverFree, HubTypes
  <2>2. /\ note'.caught = note.caught /\ note'.disturbed = note.disturbed
        /\ note'.missed = note.missed /\ note'.sent = note.sent
    BY <1>6 DEF SettleRow, StoreArtifact, PublishSettled, PersistSection, SendSection, OutputFails,
                HubTypes
  <2>3. rows.life = "none" => record.life = "none"
    BY <1>2 DEF StreamInv
  <2> QED
    BY <2>1, <2>2, <2>3, SpliceSame
<1> QED
  BY <1>3, <1>4, <1>5, <1>6, NumberSplice, InsertSplice DEF Produce

\* The calls are a sequence, in which one of them may move on.
LEMMA CallsMove ==
  ASSUME HubTypes, NEW k \in DOMAIN calls
  PROVE  /\ calls \in Seq(CallSet) /\ Len(calls) \in Nat /\ k \in 1..Len(calls)
         /\ calls[k] \in CallSet /\ calls[k].last \in Nat
         /\ \A e \in CallSet : Len([calls EXCEPT ![k] = e]) = Len(calls) /\ [calls EXCEPT ![k] = e][k] = e
         /\ Len(RemoveAt(calls, k)) = Len(calls) - 1
         /\ RemoveAt(calls, k) \in Seq(CallSet)
<1>1. calls \in Seq(CallSet)
  BY DEF HubTypes, CallSet
<1>2. Len(calls) \in Nat /\ k \in 1..Len(calls) /\ calls[k] \in CallSet
  BY <1>1, LenProperties, ElementOfSeq
<1>3. calls[k].last \in Nat
  BY <1>2 DEF CallSet
<1>4. \A e \in CallSet : Len([calls EXCEPT ![k] = e]) = Len(calls) /\ [calls EXCEPT ![k] = e][k] = e
  BY <1>1, <1>2, ExceptSeq
<1> QED
  BY <1>1, <1>2, <1>3, <1>4, Removed

\* A call that is issued: one that comes while another is under way disturbs.
LEMMA CallSplice ==
  ASSUME HubTypes, SpliceInv, record.life # "none", UNCHANGED <<rows, record, driver>>,
         UNCHANGED <<calls, note>> \/ \E kind \in {"catch", "tail", "drop"} : Call(kind)
  PROVE  SpliceInv'
<1>1. StreamInv'
  <2>1. StreamInv
    BY DEF SpliceInv
  <2> QED
    BY <2>1 DEF StreamInv, Rising, UpTo
<1>2. CASE UNCHANGED <<calls, note>>
  <2>1. /\ Querying => Querying'
        /\ Splicing => Splicing'
        /\ Following => Following'
    BY <1>2 DEF Querying, Splicing, Following, Covered, Comes, Came, Rising, UpTo, In
  <2> QED
    BY <1>1, <1>2, <2>1 DEF SpliceInv
<1>3. ASSUME NEW kind \in {"catch", "tail", "drop"}, Call(kind) PROVE SpliceInv'
  <2> DEFINE new == [kind |-> kind, at |-> "issued", last |-> 0]
             Issue == [kind : {"catch", "tail", "drop"}, at : {"issued", "query", "splice"}, last : Nat]
  <2>1. /\ calls' = Append(calls, new) /\ note'.disturbed = (note.disturbed \/ calls # <<>>)
        /\ note'.caught = note.caught /\ note'.missed = note.missed /\ note'.sent = note.sent
    BY <1>3 DEF Call, HubTypes
  <2>2. ASSUME note'.caught, ~note'.disturbed PROVE Following'
    <3>0. note.caught /\ ~note.disturbed /\ calls = <<>>
      BY <2>1, <2>2, Zenon
    <3>1. note.caught /\ ~note.disturbed /\ calls = <<>> /\ Len(calls) = 0
      BY <3>0
    <3>2. Following
      BY <3>1 DEF SpliceInv, Querying, Splicing
    <3>3. calls' = <<new>>
      BY <2>1, <3>1
    <3>4. Len(calls') <= 1 /\ \A i \in DOMAIN calls' : calls'[i].at = "issued"
      BY <3>3
    <3>5. \A x : Came(x) <=> Came(x)'
      BY <2>1 DEF Came, In
    <3> QED
      BY <2>1, <3>2, <3>4, <3>5 DEF Following, Rising, UpTo
  <2> QED
    BY <1>1, <2>2 DEF SpliceInv
<1> QED
  BY <1>2, <1>3

\* The views: what is shown has a record.
LEMMA ViewSplice ==
  ASSUME HubTypes, LifeInv, SpliceInv, NEW view \in {"inline", "tab"}, Mount(view) \/ Unmount(view)
  PROVE  SpliceInv'
<1>1. record.life # "none"
  <2>1. CASE Mount(view)
    <3>1. Claimed("live") \/ Claimed("settled")
      BY <2>1 DEF Mount, Claimed
    <3> QED
      BY <3>1 DEF LifeInv
  <2>2. CASE Unmount(view)
    <3>1. ui.sub.refs # {}
      BY <2>2 DEF Unmount
    <3> QED
      BY <3>1 DEF SpliceInv, StreamInv
  <2> QED
    BY <2>1, <2>2
<1>2. UNCHANGED <<rows, record, driver>>
  BY DEF Mount, Unmount
<1>3. UNCHANGED <<calls, note>> \/ \E kind \in {"catch", "tail", "drop"} : Call(kind)
  <2>1. CASE Mount(view)
    BY <2>1 DEF Mount
  <2>2. CASE Unmount(view)
    BY <2>2 DEF Unmount
  <2> QED
    BY <2>1, <2>2
<1> QED
  BY <1>1, <1>2, <1>3, CallSplice

\* A catch-up begins with nothing sent and nothing buffered.
LEMMA CatchUpSplice ==
  ASSUME HubTypes, SpliceInv, record.life # "none", NEW k \in DOMAIN calls, BeginCatchUp(k)
  PROVE  SpliceInv'
<1>1. /\ calls' = [calls EXCEPT ![k].at = "query"] /\ UNCHANGED <<rows, driver>>
      /\ record' = [record EXCEPT !.sub = "catching", !.buffer = <<>>]
      /\ note'.caught = TRUE /\ note'.sent = <<>> /\ note'.disturbed = (Len(calls) > 1)
      /\ note'.missed = IF At("insert") THEN {driver.item} ELSE {}
  BY DEF BeginCatchUp, Subscribe, HubTypes
<1>2. /\ record'.life = record.life /\ record'.next = record.next
      /\ record'.buffer = <<>> /\ record'.sub = "catching"
  BY <1>1 DEF HubTypes
<1>3. DOMAIN record'.buffer = {}
  BY <1>2
<1>4. StreamInv'
  <2>1. StreamInv
    BY DEF SpliceInv
  <2> QED
    BY <1>1, <1>2, <1>3, <2>1 DEF StreamInv, Rising, UpTo
<1>5. ASSUME ~note'.disturbed PROVE Querying'
  <2>1. Len(calls) \in Nat /\ k \in 1..Len(calls) /\ calls[k] \in CallSet
    BY CallsMove
  <2>2. Len(calls) = 1 /\ k = 1
    <3>1. ~(Len(calls) > 1)
      BY <1>1, <1>5, Zenon
    <3> QED
      BY <2>1, <3>1
  <2>3. Len(calls') = 1 /\ calls'[1].at = "query"
    <3> DEFINE e == [calls[k] EXCEPT !.at = "query"]
    <3>1. e \in CallSet /\ e.at = "query"
      BY <2>1 DEF CallSet
    <3>2. calls' = [calls EXCEPT ![k] = e]
      BY <1>1
    <3> HIDE DEF e
    <3> QED
      BY <2>2, <3>1, <3>2, CallsMove
  <2>4. driver.at = "insert" => driver.item \in note'.missed
    BY <1>1 DEF At
  <2> QED
    BY <1>1, <1>2, <2>3, <2>4 DEF Querying
<1> QED
  BY <1>4, <1>5 DEF SpliceInv

\* The replay: every row is sent, in order, and what comes is behind the last of them.
LEMMA ReplaySplice ==
  ASSUME HubTypes, SpliceInv, record.life # "none", NEW k \in DOMAIN calls, Replay(k)
  PROVE  SpliceInv'
<1> DEFINE last == IF rows.stream = <<>> THEN 0 ELSE Last(rows.stream)
<1>1. /\ calls[k].at = "query" /\ calls' = [calls EXCEPT ![k].at = "splice", ![k].last = last]
      /\ UNCHANGED <<rows, driver, record>>
      /\ note'.caught = note.caught /\ note'.sent = note.sent \o rows.stream
      /\ note'.disturbed = note.disturbed
      /\ note'.missed = {item \in note.missed : driver.at = "insert" /\ driver.item = item}
  BY DEF Replay, HubTypes, At
<1>2. StreamInv
  BY DEF SpliceInv
<1>3. StreamInv'
  BY <1>1, <1>2 DEF StreamInv, Rising, UpTo
<1>4. /\ rows.stream \in Seq(Nat) /\ Len(rows.stream) \in Nat /\ DOMAIN rows.stream = 1..Len(rows.stream)
      /\ \A i \in DOMAIN rows.stream : rows.stream[i] \in Nat
  <2>1. rows.stream \in Seq(Nat)
    BY DEF HubTypes
  <2> QED
    BY <2>1, LenProperties, ElementOfSeq
<1>5. last \in Nat /\ UpTo(rows.stream, last) /\ (last = 0 \/ In(last, rows.stream))
  <2>1. CASE rows.stream = <<>>
    <3>1. DOMAIN rows.stream = {} /\ last = 0
      BY <2>1
    <3> QED
      BY <3>1 DEF UpTo
  <2>2. CASE rows.stream # <<>>
    <3>1. last = rows.stream[Len(rows.stream)]
      BY <2>2 DEF Last
    <3>2. Len(rows.stream) # 0
      BY <1>4, <2>2, EmptySeq
    <3>3. Len(rows.stream) \in DOMAIN rows.stream
      BY <1>4, <3>2
    <3> HIDE DEF last
    <3>4. ASSUME NEW i \in DOMAIN rows.stream PROVE rows.stream[i] <= last
      <4>1. CASE i = Len(rows.stream)
        BY <1>4, <3>1, <4>1
      <4>2. CASE i < Len(rows.stream)
        <5>1. rows.stream[i] < last
          BY <1>2, <3>1, <3>3, <4>2 DEF StreamInv, Rising
        <5> QED
          BY <1>4, <3>1, <3>3, <5>1
      <4> QED
        BY <1>4, <4>1, <4>2
    <3> QED
      BY <1>4, <3>1, <3>3, <3>4 DEF UpTo, In
  <2> QED
    BY <2>1, <2>2
<1> HIDE DEF last
<1>6. ASSUME note.caught, ~note.disturbed PROVE Splicing'
  <2>1. Querying
    <3>1. Querying \/ Splicing \/ Following
      BY <1>6 DEF SpliceInv
    <3>2. k \in 1..Len(calls) /\ Len(calls) \in Nat
      BY CallsMove
    <3>3. ~Splicing
      <4>1. ASSUME Len(calls) = 1 PROVE calls[1].at = "query"
        <5>1. k = 1
          BY <3>2, <4>1
        <5> QED
          BY <1>1, <5>1
      <4> QED
        BY <4>1 DEF Splicing
    <3>4. ~Following
      BY <1>1 DEF Following
    <3> QED
      BY <3>1, <3>3, <3>4
  <2>2. calls[1].at = "query" /\ record.sub = "catching" /\ note.sent = <<>> /\ Len(calls) = 1
    BY <2>1 DEF Querying
  <2>3. k = 1 /\ calls[k] \in CallSet
    BY <2>2, CallsMove
  <2>4. Len(calls') = 1 /\ calls'[1].at = "splice" /\ calls'[1].last = last
    <3> DEFINE e == [calls[k] EXCEPT !.at = "splice", !.last = last]
    <3>1. e \in CallSet /\ e.at = "splice" /\ e.last = last
      BY <1>5, <2>3 DEF CallSet
    <3>2. calls' = [calls EXCEPT ![k] = e]
      BY <1>1, <2>3 DEF CallSet
    <3> HIDE DEF e
    <3> QED
      BY <2>2, <2>3, <3>1, <3>2, CallsMove
  <2>5. note'.sent = rows.stream
    BY <1>1, <1>4, <2>2
  <2>6. Covered' = last
    BY <2>4 DEF Covered
  <2>7. Rising(rows.stream) /\ \A x \in ToSet(rows.stream) : In(x, rows.stream)
    BY <1>2, Members DEF StreamInv
  <2>8. ASSUME driver.at = "insert" PROVE Comes(driver.item)'
    <3>1. driver.item \in note.missed \/ In(driver.item, record.buffer)
      BY <2>1, <2>8 DEF Querying
    <3>2. driver.item > last
      <4>1. driver.item > 0 /\ \A i \in DOMAIN rows.stream : rows.stream[i] < driver.item
        BY <1>2, <2>8 DEF StreamInv
      <4>2. last = 0 \/ \E i \in DOMAIN rows.stream : rows.stream[i] = last
        BY <1>5 DEF In
      <4>3. driver.item \in Nat
        BY DEF HubTypes
      <4> QED
        BY <1>4, <4>1, <4>2, <4>3
    <3>3. CASE driver.item \in note.missed
      <4>1. driver'.item \in note'.missed
        BY <1>1, <2>8, <3>3
      <4> QED
        BY <4>1 DEF Comes
    <3>4. CASE In(driver.item, record.buffer)
      <4>1. In(driver'.item, record'.buffer) /\ driver'.item > Covered'
        BY <1>1, <2>6, <3>2, <3>4 DEF In
      <4> QED
        BY <4>1 DEF Comes
    <3> QED
      BY <3>1, <3>3, <3>4
  <2>9. /\ Rising(note'.sent) /\ UpTo(note'.sent, Covered') /\ (Covered' = 0 \/ In(Covered', rows'.stream))
        /\ \A x \in ToSet(rows'.stream) : In(x, note'.sent)
    BY <1>1, <1>5, <2>5, <2>6, <2>7
  <2> QED
    BY <1>1, <2>2, <2>4, <2>8, <2>9 DEF Splicing, Rising, UpTo, In, Covered
<1> QED
  BY <1>1, <1>3, <1>6 DEF SpliceInv

\* The splice: what the replay has not covered follows it.
LEMMA SpliceSplice ==
  ASSUME HubTypes, SpliceInv, record.life # "none", NEW k \in DOMAIN calls, Splice(k)
  PROVE  SpliceInv'
<1> DEFINE rest == IF record.sub = "catching" THEN Remaining(k) ELSE <<>>
<1>1. /\ calls[k].at = "splice" /\ calls' = RemoveAt(calls, k)
      /\ UNCHANGED <<rows, driver>> /\ record' = [record EXCEPT !.sub = "live", !.buffer = <<>>]
      /\ note'.caught = note.caught /\ note'.sent = note.sent \o rest
      /\ note'.disturbed = note.disturbed /\ note'.missed = note.missed
  BY DEF Splice, Leaves, HubTypes
<1>2. /\ record'.life = record.life /\ record'.next = record.next
      /\ record'.buffer = <<>> /\ record'.sub = "live"
  BY <1>1 DEF HubTypes
<1>3. DOMAIN record'.buffer = {}
  BY <1>2
<1>4. StreamInv
  BY DEF SpliceInv
<1>5. StreamInv'
  BY <1>1, <1>2, <1>3, <1>4 DEF StreamInv, Rising, UpTo
<1>6. /\ k \in 1..Len(calls) /\ calls[k].last \in Nat /\ Len(calls) \in Nat
      /\ note.sent \in Seq(Nat) /\ rows.stream \in Seq(Nat) /\ record.buffer \in Seq(Nat) /\ record.next \in Nat
  BY CallsMove DEF HubTypes
<1>7. ASSUME note.caught, ~note.disturbed PROVE Following'
  <2>1. Splicing
    BY <1>1, <1>7 DEF SpliceInv, Querying, Following
  <2>2. k = 1 /\ Len(calls) = 1 /\ record.sub = "catching" /\ calls[k].last = Covered
    BY <1>6, <2>1 DEF Splicing, Covered
  <2>3. Len(calls') = 0 /\ DOMAIN calls' = {}
    <3>1. RemoveAt(calls, k) \in Seq(CallSet) /\ Len(RemoveAt(calls, k)) = 1 - 1
      BY <2>2, CallsMove
    <3> QED
      BY <1>1, <3>1, LenProperties
  <2>4. /\ rest = Remaining(k) /\ rest \in Seq(Nat) /\ Rising(rest)
        /\ \A x : In(x, rest) <=> In(x, record.buffer) /\ x > Covered
    BY <1>4, <1>6, <2>2, RemainingItems, RemainingType DEF StreamInv
  <2> HIDE DEF rest
  <2>5. Covered \in Nat /\ \A i \in DOMAIN note.sent : note.sent[i] \in Nat /\ note.sent[i] <= Covered
    BY <1>6, <2>1, <2>2 DEF Splicing, UpTo
  <2>6. \A j \in DOMAIN rest : rest[j] > Covered /\ rest[j] \in Nat
    <3>1. \A j \in DOMAIN rest : In(rest[j], rest) /\ rest[j] \in Nat
      BY <2>4 DEF In
    <3> QED
      BY <2>4, <3>1
  <2>7. \A i \in DOMAIN note.sent, j \in DOMAIN rest : note.sent[i] < rest[j]
    BY <2>5, <2>6
  <2>8. /\ Rising(note'.sent)
        /\ \A x : In(x, note'.sent) <=> In(x, note.sent) \/ In(x, rest)
        /\ \A n \in Nat : UpTo(note.sent, n) /\ UpTo(rest, n) => UpTo(note'.sent, n)
    BY <1>1, <1>6, <2>1, <2>4, <2>7, RisingJoined DEF Splicing
  <2>9. ASSUME record.life = "live" PROVE UpTo(note'.sent, record.next)
    <3>1. Covered <= record.next
      <4>1. Covered = 0 \/ \E i \in DOMAIN rows.stream : rows.stream[i] = Covered
        BY <2>1 DEF Splicing, In
      <4> QED
        BY <1>4, <1>6, <2>9, <4>1 DEF StreamInv, UpTo
    <3>2. UpTo(note.sent, record.next)
      BY <1>6, <2>5, <3>1 DEF UpTo
    <3>3. UpTo(rest, record.next)
      <4>1. \A j \in DOMAIN rest : In(rest[j], record.buffer)
        BY <2>4 DEF In
      <4> QED
        BY <1>4, <4>1 DEF StreamInv, UpTo, In
    <3> QED
      BY <1>6, <2>8, <3>2, <3>3
  <2>10. \A x : In(x, note.sent) \/ Comes(x) => Came(x)'
    BY <1>1, <2>4, <2>8 DEF Comes, Came, In
  <2>11. (\A x \in ToSet(rows.stream) : Came(x))'
    BY <1>1, <2>1, <2>10 DEF Splicing
  <2>12. (driver.at = "insert" => Came(driver.item))'
    <3>1. driver.at = "insert" => Comes(driver.item)
      BY <2>1 DEF Splicing
    <3> QED
      BY <1>1, <2>10, <3>1
  <2> QED
    BY <1>2, <2>3, <2>8, <2>9, <2>11, <2>12 DEF Following, Rising, UpTo
<1> QED
  BY <1>1, <1>5, <1>7 DEF SpliceInv

LEMMA FrontendSplice == ASSUME HubTypes, LifeInv, SpliceInv, Frontend PROVE SpliceInv'
<1>0. rows.life = "none" => record.life = "none" /\ driver.at # "upsert"
  BY DEF SpliceInv, StreamInv
<1>00. driver.at = "upsert" => record.life # "settled"
  BY DEF SpliceInv, StreamInv
<1>01. record.life \in Lives
  BY DEF HubTypes
<1>1. CASE FrontendReady \/ Burst \/ Deliver
  <2>1. UNCHANGED <<rows, record, driver, calls, note>>
    BY <1>1 DEF FrontendReady, Burst, Deliver
  <2>2. ui'.sub.refs = ui.sub.refs
    <3>1. CASE FrontendReady \/ Burst
      BY <3>1 DEF FrontendReady, Burst
    <3>2. CASE Deliver
      <4>1. ui' = Apply(Head(events)) /\ Head(events) \in Frames
        BY <3>2, ReadFrame, Tailed DEF Deliver, HubTypes
      <4>2. PICK f \in Frames : ui' = Apply(f)
        BY <4>1
      <4> QED
        BY <4>2 DEF Apply, ApplyItem, Frames, HubTypes
    <3> QED
      BY <1>1, <3>1, <3>2
  <2>3. record.life = "live" => record.life \in {"none", "live"}
    OBVIOUS
  <2> QED
    BY <1>0, <1>00, <2>1, <2>2, <2>3, SpliceSame
<1>2. CASE \E view \in {"inline", "tab"} : Mount(view) \/ Unmount(view)
  BY <1>2, ViewSplice
<1>3. CASE \E k \in DOMAIN calls :
       RunTail(k) \/ RunDrop(k) \/ BeginCatchUp(k) \/ Replay(k) \/ ReplayFails(k) \/ Splice(k)
  <2>1. PICK k \in DOMAIN calls :
          RunTail(k) \/ RunDrop(k) \/ BeginCatchUp(k) \/ Replay(k) \/ ReplayFails(k) \/ Splice(k)
    BY <1>3
  <2>2. calls # <<>>
    BY <2>1
  <2>3. record.life # "none"
    BY <2>2 DEF SpliceInv, StreamInv
  <2>4. CASE RunTail(k) \/ RunDrop(k) \/ ReplayFails(k)
    <3>1. ~note'.caught \/ note'.disturbed
      BY <2>4 DEF RunTail, RunDrop, ReplayFails, HubTypes
    <3>2. /\ UNCHANGED <<rows, driver>>
          /\ record' = record \/ \E sub : record' = [record EXCEPT !.sub = sub, !.buffer = <<>>]
      BY <2>4 DEF RunTail, RunDrop, ReplayFails, Subscribe
    <3> QED
      BY <2>3, <3>1, <3>2, SpliceOver
  <2> QED
    BY <2>1, <2>3, <2>4, CatchUpSplice, ReplaySplice, SpliceSplice
<1> QED
  BY <1>1, <1>2, <1>3 DEF Frontend

LEMMA OpenSplice == ASSUME HubTypes, SpliceInv, Open PROVE SpliceInv'
<1>1. /\ rows'.stream = rows.stream /\ record'.life = rows'.life
      /\ rows'.life = IF rows.life = "none" THEN "none" ELSE "settled"
      /\ record'.next = 0 /\ record'.buffer = <<>> /\ driver'.at = "free" /\ calls' = <<>>
      /\ ui'.sub.refs = {} /\ note'.caught = FALSE
  BY DEF Open, NoRecord, DriverFree, NewUi, NoSub, HubTypes
<1>2. DOMAIN record'.buffer = {}
  BY <1>1
<1>3. StreamInv
  BY DEF SpliceInv
<1>4. StreamInv'
  BY <1>1, <1>2, <1>3 DEF StreamInv, Rising, UpTo
<1> QED
  BY <1>1, <1>4 DEF SpliceInv

\* The invariant says what the property says.
LEMMA SpliceIsSound == HubTypes /\ SpliceInv => SpliceIsExact
<1> SUFFICES ASSUME HubTypes, SpliceInv, note.caught, ~note.disturbed
             PROVE  /\ \A i, j \in DOMAIN note.sent : i < j => note.sent[i] < note.sent[j]
                    /\ Quiet => ToSet(rows.stream) \subseteq ToSet(note.sent) \union note.missed
  BY DEF SpliceIsExact
<1>1. Querying \/ Splicing \/ Following
  BY DEF SpliceInv
<1>2. Rising(note.sent)
  <2>1. CASE Querying
    <3>1. DOMAIN note.sent = {}
      BY <2>1 DEF Querying
    <3> QED
      BY <3>1 DEF Rising
  <2>2. CASE Splicing \/ Following
    BY <2>2 DEF Splicing, Following
  <2> QED
    BY <1>1, <2>1, <2>2
<1>3. ASSUME Quiet PROVE ToSet(rows.stream) \subseteq ToSet(note.sent) \union note.missed
  <2>1. Len(calls) = 0
    BY <1>3 DEF Quiet
  <2>2. Following
    BY <1>1, <2>1 DEF Querying, Splicing
  <2> QED
    BY <2>2, Members DEF Following, Came
<1> QED
  BY <1>2, <1>3 DEF Rising
-----------------------------------------------------------------------------
(* The hub's invariant, and what it says.                                  *)

LEMMA HubStarts == HubInit => HubInv
<1> SUFFICES ASSUME HubInit PROVE HubInv
  OBVIOUS
<1>1. /\ rows.life = "none" /\ rows.stream = <<>> /\ rows.sections = <<>>
      /\ record.life = "none" /\ record.next = 0 /\ record.buffer = <<>>
      /\ driver.at = "free" /\ replay.at = "waiting" /\ events = <<>> /\ calls = <<>>
      /\ ui.life = "none" /\ ui.ended = FALSE /\ ui.sub.refs = {}
      /\ note.before = <<>> /\ note.caught = FALSE
  BY DEF HubInit, NoRecord, DriverFree, NoReplay, NewUi, NoSub
<1>2. /\ DOMAIN rows.stream = {} /\ DOMAIN rows.sections = {} /\ DOMAIN record.buffer = {}
      /\ DOMAIN events = {} /\ DOMAIN note.before = {}
      /\ Len(rows.sections) = 0 /\ Len(note.before) = 0
  BY <1>1, NoElements, EmptySeq
<1>3. HubTypes
  BY EmptySeq DEF HubInit, NoRecord, DriverFree, NoReplay, NewUi, NoSub, HubTypes, Lives, Stages
<1>4. SectionInv
  BY <1>1, <1>2 DEF SectionInv, SectionRows, Counts, Old, NoBurst
<1>5. LifeInv
  BY <1>1, <1>2 DEF LifeInv, Written, Tells, Claimed
<1>6. SpliceInv
  BY <1>1, <1>2 DEF SpliceInv, StreamInv, Rising, UpTo
<1> QED
  BY <1>3, <1>4, <1>5, <1>6 DEF HubInv

LEMMA HubKeeps == HubInv /\ [Next]_vars => HubInv'
<1> SUFFICES ASSUME HubInv, [Next]_vars PROVE HubInv'
  OBVIOUS
<1>1. CASE Publishing
  BY <1>1, ProduceTypes, ProduceSections, ProduceLife, ProduceSplice DEF Publishing, HubInv
<1>2. CASE Showing
  BY <1>2, FrontendTypes, FrontendSections, FrontendLife, FrontendSplice DEF Showing, HubInv
<1>3. CASE StartRuntime
  BY <1>3, OpenTypes, OpenSections, OpenLife, OpenSplice DEF StartRuntime, HubInv, SectionInv
<1>4. CASE UNCHANGED hubVars
  <2>1. HubTypes'
    BY <1>4 DEF hubVars, HubInv, HubTypes
  <2>2. SectionInv'
    BY <1>4 DEF hubVars, HubInv, SectionInv, SectionRows, Counts, Old, NoBurst, Ended, InBurst, BurstPart
  <2>3. LifeInv'
    BY <1>4 DEF hubVars, HubInv, LifeInv, Written, Tells, Claimed
  <2>4. SpliceInv'
    BY <1>4 DEF hubVars, HubInv, SpliceInv, StreamInv, Querying, Splicing, Following, Covered, Comes,
                Came, Rising, UpTo, In
  <2> QED
    BY <2>1, <2>2, <2>3, <2>4 DEF HubInv
<1> QED
  BY <1>1, <1>2, <1>3, <1>4 DEF Next, Booting, Permitting, End, vars

LEMMA HubAlways == Spec => []HubInv
<1>1. Init => HubInv
  BY HubStarts DEF Init
<1> QED
  BY <1>1, HubKeeps, PTL DEF Spec

\* Whenever nothing is under way and no write has failed, what the frontend shows of an
\* entity's life is what its record and its row say, through every restart; nothing shows as
\* live that another process left behind, and nothing as settled without its artifact.
THEOREM LivesAgree == Spec => []LifeAgrees
<1>1. HubInv => LifeAgrees
  BY LifeIsLife DEF HubInv
<1> QED
  BY <1>1, HubAlways, PTL

\* However the driver's new sections race the replay of the scrollback, however long both
\* are, the sections of earlier processes are shown once, in order and in front.
THEOREM OldSectionsAreShown == Spec => []OldSectionsShownOnce
<1>1. HubInv => OldSectionsShownOnce
  BY SectionsAreShown DEF HubInv
<1> QED
  BY <1>1, HubAlways, PTL

\* A catch-up sends every stored item once and in order, whatever is numbered, stored, sent
\* or buffered between its query and its splice, unless another call of the frontend
\* disturbs it; what it leaves out had its number when it began and no row at its query.
THEOREM CatchUpIsExact == Spec => []SpliceIsExact
<1>1. HubInv => SpliceIsExact
  BY SpliceIsSound DEF HubInv
<1> QED
  BY <1>1, HubAlways, PTL
=============================================================================
