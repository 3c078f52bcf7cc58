-------------------------- MODULE TableWritesProofs --------------------------
(***************************************************************************)
(* Proofs about the row-by-row statements of TableWrites, for every table, *)
(* condition and chunk size.                                               *)
(*                                                                         *)
(* RowWritesInv is inductive: the rows that the scan has visited are       *)
(* counted and collected, written or still in the chunk, and the rows      *)
(* ahead are the selected ones that it has not visited, as they were when  *)
(* the statement began.                                                    *)
(***************************************************************************)
EXTENDS TableWrites, FiniteSetTheorems, WellFoundedInduction, TLAPS

(* Sequences put together: their elements, and their lengths.                *)
LEMMA ConcatFacts ==
  ASSUME NEW S, NEW s \in Seq(S), NEW t \in Seq(S)
  PROVE  /\ s \o t \in Seq(S) /\ Len(s \o t) = Len(s) + Len(t)
         /\ \A i \in 1..(Len(s) + Len(t)) : (s \o t)[i] = IF i <= Len(s) THEN s[i] ELSE t[i - Len(s)]
  OBVIOUS

(* An element of a sequence is in the set that it is a sequence over.        *)
LEMMA ElementIn ==
  ASSUME NEW S, NEW s \in Seq(S), NEW n \in 1..Len(s)
  PROVE  s[n] \in S
  OBVIOUS

(* Every set of naturals that is not empty has a least element.             *)
LEMMA LeastNumber ==
  ASSUME NEW T, T \subseteq Nat, T # {}
  PROVE  \E k \in T : \A h \in T : k <= h
  <1>1. IsWellFoundedOn(OpToRel(<, Nat), Nat)
    BY NatLessThanWellFounded
  <1>2. PICK k \in T : \A h \in T : ~(<<h, k>> \in OpToRel(<, Nat))
    BY <1>1, WFMin
  <1>3. \A h \in T : ~(h < k)
    BY <1>2, Zenon DEF OpToRel
  <1>4. QED
    BY <1>3

(* Max returns the larger of two numbers.                                   *)
LEMMA MaxPair == \A a, b \in Nat : Max({a, b}) \in {a, b} /\ Max({a, b}) >= a /\ Max({a, b}) >= b
  <1> TAKE a, b \in Nat
  <1>1. \E x \in {a, b} : \A y \in {a, b} : x >= y
    <2>1. CASE a >= b
      BY <2>1
    <2>2. CASE ~(a >= b)
      BY <2>2
    <2>3. QED
      BY <2>1, <2>2
  <1>2. Max({a, b}) \in {a, b} /\ \A y \in {a, b} : Max({a, b}) >= y
    BY <1>1 DEF Max
  <1>3. QED
    BY <1>2

(* A table: a function from row ids to values, within their bounds.         *)
IsTable(T) == DOMAIN T \subseteq 1..MaxRowId /\ T \in [DOMAIN T -> 0..MaxValue]

(* The largest row id of a table, which SQLite counts on from.              *)
LEMMA LargestRowId ==
  ASSUME NEW D, D \subseteq 1..MaxRowId, D # {}
  PROVE  Max(D) \in D /\ \A r \in D : r <= Max(D)
  <1> DEFINE T == {m \in 0..MaxRowId : MaxRowId - m \in D}
  <1>0. MaxRowId \in Nat
    BY BoundsAssumption
  <1>1. PICK d \in D : d \in 1..MaxRowId
    BY Zenon
  <1>2. MaxRowId - d \in T
    <2>1. MaxRowId - d \in 0..MaxRowId /\ MaxRowId - (MaxRowId - d) = d
      BY <1>0, <1>1
    <2>2. QED
      BY <2>1
  <1>3. T \subseteq Nat /\ T # {}
    <2>1. T # {}
      BY <1>2
    <2>2. QED
      BY <1>0, <2>1
  <1>4. PICK m \in T : \A h \in T : m <= h
    <2> HIDE DEF T
    <2> QED BY <1>3, LeastNumber, Zenon
  <1>5. \A r \in D : r <= MaxRowId - m
    <2>1. TAKE r \in D
    <2>2. r \in 1..MaxRowId
      OBVIOUS
    <2>3. MaxRowId - r \in 0..MaxRowId /\ MaxRowId - (MaxRowId - r) = r
      BY <1>0, <2>2
    <2>4. MaxRowId - r \in T
      BY <2>3
    <2>5. m <= MaxRowId - r /\ m \in 0..MaxRowId
      BY <1>4, <2>4
    <2>6. QED
      BY <1>0, <2>2, <2>5
  <1>6. MaxRowId - m \in D
    BY <1>4
  <1>7. \E x \in D : \A y \in D : x >= y
    <2>1. \A y \in D : MaxRowId - m >= y
      BY <1>0, <1>4, <1>5
    <2>2. QED
      BY <1>6, <2>1, Zenon
  <1>8. Max(D) \in D /\ \A y \in D : Max(D) >= y
    <2> HIDE DEF T
    <2> QED BY <1>7, Zenon DEF Max
  <1>9. QED
    BY <1>0, <1>8

(* The keys of a b-tree are pairs, in a strict order.                       *)
LEMMA KeyType ==
  ASSUME NEW T, IsTable(T), NEW r \in DOMAIN T
  PROVE  Key(T, r) \in Nat \X Nat /\ Below(<<0, 0>>, Key(T, r))
  <1>1. r \in 1..MaxRowId /\ T[r] \in 0..MaxValue /\ MaxRowId \in Nat /\ MaxValue \in Nat
    BY BoundsAssumption DEF IsTable
  <1>2. CASE order = "rowid"
    BY <1>1, <1>2 DEF Key, Below
  <1>3. CASE order # "rowid"
    BY <1>1, <1>3 DEF Key, Below
  <1>4. QED
    BY <1>2, <1>3

(* The order in which a scan visits rows is a strict one.                   *)
LEMMA BelowIsOrder ==
  /\ \A a \in Nat \X Nat : ~Below(a, a)
  /\ \A a, b, c \in Nat \X Nat : Below(a, b) /\ Below(b, c) => Below(a, c)
  BY DEF Below

(* A scan that is not at its end has a next row, and it is unique.          *)
LEMMA LeastKey ==
  ASSUME NEW T, IsTable(T), NEW S, S \subseteq DOMAIN T, S # {}
  PROVE  \E r \in S : \A s \in S : s # r => Below(Key(T, r), Key(T, s))
  <1>0. /\ DOMAIN T \subseteq 1..MaxRowId /\ S \subseteq Nat
        /\ \A r \in S : r \in 1..MaxRowId /\ T[r] \in 0..MaxValue /\ T[r] \in Nat
        /\ MaxRowId \in Nat /\ MaxValue \in Nat
    BY BoundsAssumption DEF IsTable
  <1>1. CASE order = "rowid"
    <2>1. PICK r \in S : \A s \in S : r <= s
      BY <1>0, LeastNumber
    <2>2. \A s \in S : s # r => Below(Key(T, r), Key(T, s))
      BY <1>0, <1>1, <2>1 DEF Key, Below
    <2>3. QED
      BY <2>2
  <1>2. CASE order # "rowid"
    <2> DEFINE V == {T[r] : r \in S}
    <2>1. V \subseteq Nat /\ V # {}
      BY <1>0
    <2>2. PICK v \in V : \A w \in V : v <= w
      <3> HIDE DEF V
      <3> QED BY <2>1, LeastNumber, Zenon
    <2> DEFINE R == {r \in S : T[r] = v}
    <2>3. R \subseteq Nat /\ R # {}
      BY <1>0, <2>2
    <2>4. PICK r \in R : \A s \in R : r <= s
      <3> HIDE DEF R
      <3> QED BY <2>3, LeastNumber, Zenon
    <2>5. ASSUME NEW s \in S, s # r
          PROVE  Below(Key(T, r), Key(T, s))
      <3>1. T[r] = v /\ v <= T[s] /\ r \in S /\ T[r] \in Nat /\ T[s] \in Nat /\ r \in Nat /\ s \in Nat
        BY <1>0, <2>2, <2>4
      <3>2. T[s] = v => r <= s
        BY <2>4
      <3>3. Key(T, r) = <<T[r], r>> /\ Key(T, s) = <<T[s], s>>
        BY <1>2 DEF Key
      <3>4. QED
        BY <2>5, <3>1, <3>2, <3>3 DEF Below
    <2>6. r \in S
      BY <2>4
    <2>7. QED
      BY <2>5, <2>6
  <1>3. QED
    BY <1>1, <1>2

(* What a statement starts with and keeps.                                  *)
FixedInv ==
    /\ op \in {"insert", "update", "delete", "create"}
    /\ same \in BOOLEAN /\ shared \in BOOLEAN
    /\ order \in {"rowid", "value"} /\ limit \in Limits
    /\ repeat \in 1..2 /\ (op # "delete" => repeat = 1)
    /\ op \in {"update", "delete"} => same
    /\ source \in Tables /\ before = IF same THEN source ELSE Empty

(* What it changes, and how far the loops over a chunk and over the         *)
(* collected row ids have come.                                             *)
LoopInv ==
    /\ row \in Nat \ {0} /\ (row <= Len(chunk) + 1 \/ row <= Len(rowids) + 1)
    /\ phase \in {"plan", "scan"} => row = 1
    /\ phase = "sink" => row <= Len(chunk) + 1 /\ (op = "delete" => row = 1)
    /\ phase = "write" => row <= Len(rowids) + 1 /\ op = "delete"

MovingInv ==
    /\ done \in BOOLEAN
    /\ IsTable(target)
    /\ phase \in {"plan", "scan", "sink", "write", "result", "done", "failed"}
    /\ cursor \in Nat \X Nat
    /\ chunk \in Seq((1..MaxRowId) \X (0..MaxValue))
    /\ rowids \in Seq(1..MaxRowId)
    /\ count \in Nat

WritesTypes == FixedInv /\ MovingInv /\ LoopInv

(* DELETE writes after its scan; INSERT and UPDATE are kept apart from it.  *)
Steady == op = "delete" \/ Separate

(* What the statement is does not change while it runs.                     *)
LEMMA FixedStays ==
  ASSUME FixedInv, UNCHANGED statement
  PROVE  FixedInv' /\ Selected' = Selected /\ Steady' = Steady
  BY DEF FixedInv, statement, Selected, Steady, Separate

(* The table that is read, the one before the statement, and the one the    *)
(* scan is on.                                                              *)
LEMMA TablesSeen ==
  ASSUME FixedInv, MovingInv
  PROVE  IsTable(source) /\ IsTable(before) /\ IsTable(Scanned)
  <1>1. IsTable(Empty)
    BY DEF IsTable, Empty
  <1>2. IsTable(source)
    BY TablesAssumption DEF FixedInv, IsTable
  <1>3. QED
    BY <1>1, <1>2 DEF FixedInv, MovingInv, Scanned

(* The row that the scan reads next.                                        *)
LEMMA NextRowLeast ==
  ASSUME FixedInv, MovingInv, Ahead # {}
  PROVE  /\ NextRow \in Ahead
         /\ \A s \in Ahead : s # NextRow => Below(Key(Scanned, NextRow), Key(Scanned, s))
  <1>1. IsTable(Scanned) /\ Ahead \subseteq DOMAIN Scanned
    BY TablesSeen DEF Ahead
  <1>2. \E r \in Ahead : \A s \in Ahead : s # r => Below(Key(Scanned, r), Key(Scanned, s))
    BY <1>1, LeastKey
  <1>3. QED
    BY <1>2 DEF NextRow

(* A step of the scan emits as many copies of one row as the plan repeats   *)
(* it.                                                                      *)
LEMMA NewChunk ==
  ASSUME FixedInv, MovingInv, Ahead # {}
  PROVE  /\ Emitted(NextRow) \in Seq((1..MaxRowId) \X (0..MaxValue))
         /\ Len(Emitted(NextRow)) = repeat
         /\ NextRow \in DOMAIN Scanned
         /\ Key(Scanned, NextRow) \in Nat \X Nat
  <1>1. IsTable(Scanned) /\ NextRow \in DOMAIN Scanned
    BY TablesSeen, NextRowLeast DEF Ahead
  <1>2. NextRow \in 1..MaxRowId /\ Scanned[NextRow] \in 0..MaxValue
    BY <1>1 DEF IsTable
  <1>3. repeat \in Nat
    BY DEF FixedInv
  <1>4. QED
    BY <1>1, <1>2, <1>3, KeyType DEF Emitted

(* The row ids of a chunk are those of its rows, in their order.            *)
LEMMA RowIdsOfChunk ==
  ASSUME MovingInv
  PROVE  /\ ChunkRowIds \in Seq(1..MaxRowId) /\ Len(ChunkRowIds) = Len(chunk)
         /\ \A i \in 1..Len(chunk) : ChunkRowIds[i] = chunk[i][1]
  <1>1. Len(chunk) \in Nat /\ \A i \in 1..Len(chunk) : chunk[i] \in (1..MaxRowId) \X (0..MaxValue)
    BY DEF MovingInv
  <1>2. QED
    BY <1>1 DEF ChunkRowIds

(* The types hold when the statement starts.                                *)
LEMMA WritesStart ==
  ASSUME Init
  PROVE  WritesTypes
  <1>1. FixedInv
    BY DEF Init, FixedInv
  <1>2. IsTable(Empty)
    BY DEF IsTable, Empty
  <1>3. IsTable(source)
    BY TablesAssumption DEF Init, IsTable
  <1>4. MovingInv
    <2>1. target \in {source, Empty}
      BY DEF Init
    <2>2. IsTable(target)
      BY <1>2, <1>3, <2>1
    <2>3. chunk = <<>> /\ rowids = <<>> /\ cursor = <<0, 0>> /\ count = 0 /\ done = FALSE /\ phase = "plan"
      BY DEF Init
    <2>4. chunk \in Seq((1..MaxRowId) \X (0..MaxValue)) /\ rowids \in Seq(1..MaxRowId)
      BY <2>3
    <2>5. cursor \in Nat \X Nat
      BY <2>3
    <2>6. QED
      BY <2>2, <2>3, <2>4, <2>5, Zenon DEF MovingInv
  <1>5. LoopInv
    BY DEF Init, LoopInv
  <1>6. QED
    BY <1>1, <1>4, <1>5 DEF WritesTypes

(* A row of the result that is written.                                     *)
LEMMA WithRowTable ==
  ASSUME NEW T, IsTable(T), NEW r \in 1..MaxRowId, NEW v \in 0..MaxValue
  PROVE  IsTable(WithRow(T, r, v))
  BY DEF IsTable, WithRow

(* A step of the scan keeps the types.                                      *)
LEMMA TypesScan ==
  ASSUME WritesTypes, ScanStep
  PROVE  WritesTypes'
  <1> USE DEF WritesTypes
  <1>1. FixedInv'
    BY FixedStays DEF ScanStep
  <1>2. MovingInv'
    <2>1. CASE Ahead # {} /\ cursor' = Key(Scanned, NextRow) /\ chunk' = chunk \o Emitted(NextRow)
               /\ UNCHANGED <<phase, done>>
      <3>1. chunk' \in Seq((1..MaxRowId) \X (0..MaxValue))
        BY <2>1, NewChunk, ConcatFacts DEF MovingInv
      <3>2. QED
        BY <2>1, <3>1, NewChunk DEF MovingInv, ScanStep, IsTable
    <2>2. CASE UNCHANGED <<cursor, chunk>> /\ phase' = "sink" /\ done' \in {done, TRUE}
      BY <2>2, Zenon DEF MovingInv, ScanStep, IsTable
    <2>3. QED
      BY <2>1, <2>2, Zenon DEF ScanStep
  <1>3. LoopInv'
    <2>1. Len(chunk) \in Nat /\ Len(chunk') \in Nat
      BY <1>2 DEF MovingInv
    <2>2. row' = row /\ row = 1 /\ phase' \in {"scan", "sink"}
      BY DEF ScanStep, LoopInv
    <2>3. QED
      BY <2>1, <2>2 DEF LoopInv
  <1>4. QED
    BY <1>1, <1>2, <1>3

(* Planning keeps them.                                                     *)
LEMMA TypesPlan ==
  ASSUME WritesTypes, NEW clause, NEW prepared, Plan(clause, prepared)
  PROVE  WritesTypes'
  <1> USE DEF WritesTypes
  <1>1. FixedInv'
    BY FixedStays DEF Plan
  <1>2. MovingInv'
    BY DEF Plan, MovingInv, IsTable
  <1>3. LoopInv'
    BY DEF Plan, LoopInv, MovingInv
  <1>4. QED
    BY <1>1, <1>2, <1>3

(* A failure keeps them.                                                    *)
LEMMA TypesFail ==
  ASSUME WritesTypes, Fail
  PROVE  WritesTypes'
  <1> USE DEF WritesTypes
  <1>1. FixedInv'
    BY FixedStays DEF Fail
  <1>2. IsTable(target')
    BY TablesSeen DEF Fail
  <1>3. MovingInv'
    BY <1>2 DEF Fail, MovingInv, IsTable
  <1>4. LoopInv'
    BY DEF Fail, LoopInv
  <1>5. QED
    BY <1>1, <1>3, <1>4

(* The row id of an inserted row is new.                                    *)
LEMMA NewRowIdIsNew ==
  ASSUME NEW T, IsTable(T)
  PROVE  NewRowId(T) \in Nat \ {0} /\ NewRowId(T) \notin DOMAIN T
  <1>1. CASE DOMAIN T = {}
    BY <1>1 DEF NewRowId
  <1>2. CASE DOMAIN T # {}
    <2>1. DOMAIN T \subseteq 1..MaxRowId /\ MaxRowId \in Nat
      BY BoundsAssumption DEF IsTable
    <2>2. Max(DOMAIN T) \in DOMAIN T /\ \A r \in DOMAIN T : r <= Max(DOMAIN T)
      BY <1>2, <2>1, LargestRowId
    <2>3. NewRowId(T) = Max(DOMAIN T) + 1
      BY <1>2 DEF NewRowId
    <2>4. QED
      BY <2>1, <2>2, <2>3
  <1>3. QED
    BY <1>1, <1>2, Zenon

(* The row of the chunk that the loop of a sink is at.                      *)
LEMMA RowOfChunk ==
  ASSUME WritesTypes, row <= Len(chunk)
  PROVE  /\ row \in 1..Len(chunk) /\ chunk[row][1] \in 1..MaxRowId /\ chunk[row][2] \in 0..MaxValue
         /\ Len(chunk) \in Nat
  <1>1. row \in Nat \ {0} /\ Len(chunk) \in Nat
    BY DEF WritesTypes, LoopInv, MovingInv
  <1>2. row \in 1..Len(chunk)
    BY <1>1
  <1>3. chunk[row] \in (1..MaxRowId) \X (0..MaxValue)
    BY <1>2, ElementIn DEF WritesTypes, MovingInv
  <1>4. QED
    BY <1>1, <1>2, <1>3

(* An INSERT of one row keeps them.                                         *)
LEMMA TypesInsertRow ==
  ASSUME WritesTypes, InsertRow
  PROVE  WritesTypes'
  <1> USE DEF WritesTypes
  <1>0. row <= Len(chunk) /\ row' = row + 1 /\ phase = "sink" /\ op # "delete"
        /\ UNCHANGED <<statement, phase, cursor, done, chunk, rowids, count>>
    BY DEF InsertRow
  <1>1. FixedInv'
    BY <1>0, FixedStays
  <1>2. NewRowId(target) \in 1..MaxRowId
    BY NewRowIdIsNew, BoundsAssumption DEF InsertRow, MovingInv
  <1>3. IsTable(target')
    BY <1>0, <1>2, RowOfChunk, WithRowTable DEF InsertRow, MovingInv
  <1>4. MovingInv'
    BY <1>0, <1>3 DEF MovingInv, IsTable
  <1>5. LoopInv'
    BY <1>0, RowOfChunk DEF LoopInv, statement
  <1>6. QED
    BY <1>1, <1>4, <1>5

(* An UPDATE of one row keeps them.                                         *)
LEMMA TypesUpdateRow ==
  ASSUME WritesTypes, UpdateRow
  PROVE  WritesTypes'
  <1> USE DEF WritesTypes
  <1>0. row <= Len(chunk) /\ row' = row + 1 /\ phase = "sink" /\ op # "delete"
        /\ UNCHANGED <<statement, phase, cursor, done, chunk, rowids, count>>
    BY DEF UpdateRow
  <1>1. FixedInv'
    BY <1>0, FixedStays
  <1>2. chunk[row][2] + Added \in 0..MaxValue
    BY <1>0, RowOfChunk, BoundsAssumption DEF UpdateRow
  <1>3. IsTable(WithRow(target, chunk[row][1], chunk[row][2] + Added))
    BY <1>0, <1>2, RowOfChunk, WithRowTable DEF MovingInv
  <1>4. IsTable(target')
    BY <1>3 DEF UpdateRow, MovingInv
  <1>5. MovingInv'
    BY <1>0, <1>4 DEF MovingInv, IsTable
  <1>6. LoopInv'
    BY <1>0, RowOfChunk DEF LoopInv, statement
  <1>7. QED
    BY <1>1, <1>5, <1>6

(* The end of a chunk keeps them.                                           *)
LEMMA TypesCountChunk ==
  ASSUME WritesTypes, CountChunk
  PROVE  WritesTypes'
  <1> USE DEF WritesTypes
  <1>0. count' = count + Len(chunk) /\ chunk' = <<>> /\ row' = 1 /\ phase' \in {"scan", "result"}
        /\ UNCHANGED <<statement, target, cursor, done, rowids>>
    BY DEF CountChunk, NextPhase
  <1>1. FixedInv'
    BY <1>0, FixedStays
  <1>2. count' \in Nat /\ Len(rowids) \in Nat
    BY <1>0 DEF MovingInv
  <1>3. MovingInv'
    BY <1>0, <1>2 DEF MovingInv, IsTable
  <1>4. LoopInv'
    BY <1>0, <1>2 DEF LoopInv
  <1>5. QED
    BY <1>1, <1>3, <1>4

(* Collecting the row ids of a chunk keeps them.                            *)
LEMMA TypesCollectRowIds ==
  ASSUME WritesTypes, CollectRowIds
  PROVE  WritesTypes'
  <1> USE DEF WritesTypes
  <1>0. op = "delete" /\ rowids' = rowids \o ChunkRowIds /\ chunk' = <<>> /\ phase' \in {"scan", "write"}
        /\ UNCHANGED <<statement, target, cursor, done, row, count>> /\ row = 1
    BY DEF CollectRowIds, NextPhase, LoopInv
  <1>1. FixedInv'
    BY <1>0, FixedStays
  <1>2. rowids' \in Seq(1..MaxRowId)
    BY <1>0, RowIdsOfChunk, ConcatFacts DEF MovingInv
  <1>3. MovingInv'
    BY <1>0, <1>2 DEF MovingInv, IsTable
  <1>4. LoopInv'
    BY <1>0, <1>2 DEF LoopInv, statement
  <1>5. QED
    BY <1>1, <1>3, <1>4

(* A DELETE of one row keeps them.                                          *)
LEMMA TypesDeleteRow ==
  ASSUME WritesTypes, DeleteRow
  PROVE  WritesTypes'
  <1> USE DEF WritesTypes
  <1>0. /\ row <= Len(rowids) /\ row' = row + 1 /\ phase = "write"
        /\ target' = Restrict(target, DOMAIN target \ {rowids[row]})
        /\ UNCHANGED <<statement, phase, cursor, done, chunk, rowids, count>>
    BY DEF DeleteRow
  <1>1. FixedInv'
    BY <1>0, FixedStays
  <1>2. IsTable(target')
    BY <1>0 DEF MovingInv, IsTable, Restrict
  <1>3. MovingInv'
    BY <1>0, <1>2, Zenon DEF MovingInv, IsTable
  <1>4. Len(rowids) \in Nat
    BY DEF MovingInv
  <1>5. LoopInv'
    BY <1>0, <1>4 DEF LoopInv, statement
  <1>6. QED
    BY <1>1, <1>3, <1>5

(* The end of the statement keeps them.                                     *)
LEMMA TypesEnd ==
  ASSUME WritesTypes, CountRowIds \/ GetData
  PROVE  WritesTypes'
  <1> USE DEF WritesTypes
  <1>0. /\ count' \in {count, Len(rowids)} /\ phase' \in {"result", "done"}
        /\ UNCHANGED <<statement, target, cursor, done, chunk, row, rowids>>
    BY DEF CountRowIds, GetData
  <1>1. FixedInv'
    BY <1>0, FixedStays
  <1>2. MovingInv'
    BY <1>0 DEF MovingInv, IsTable
  <1>3. LoopInv'
    BY <1>0 DEF LoopInv
  <1>4. QED
    BY <1>1, <1>2, <1>3

(* Every step keeps the types.                                              *)
LEMMA TypesKept == WritesTypes /\ [Next]_vars => WritesTypes'
  <1>1. ASSUME WritesTypes, UNCHANGED vars
        PROVE  WritesTypes'
    BY <1>1 DEF vars, WritesTypes, FixedInv, MovingInv, LoopInv, IsTable
  <1>2. QED
    BY <1>1, TypesPlan, TypesScan, TypesFail, TypesInsertRow, TypesUpdateRow, TypesCountChunk,
       TypesCollectRowIds, TypesDeleteRow, TypesEnd DEF Next

(***************************************************************************)
(* How far a statement has come: the selected rows that its scan has        *)
(* visited, those of them that are in the chunk, and those of the chunk     *)
(* that the sink has still to write.                                        *)
(***************************************************************************)
Visited == {r \in Selected : ~Below(cursor, Key(source, r))}
ChunkRows == {chunk[i][1] : i \in 1..Len(chunk)}
Pending == {chunk[i][1] : i \in row..Len(chunk)}
Collected == {rowids[i] : i \in 1..Len(rowids)}

ScanInv ==
    /\ done => Visited = Selected
    /\ phase \in {"plan", "scan"} => ~done
    /\ phase \in {"write", "result", "done"} => done /\ chunk = <<>>
    /\ ChunkRows \subseteq Visited
    /\ \A i \in 1..Len(chunk) : chunk[i][2] = source[chunk[i][1]]
    /\ op # "delete" =>
          /\ count + Len(chunk) = Cardinality(Visited)
          /\ \A i, j \in 1..Len(chunk) : i # j => chunk[i][1] # chunk[j][1]

(* A scan that ends in its first chunk reads nothing after the first write. *)
FirstChunkInv ==
    Cardinality(Selected) < VectorSize /\ op # "delete" =>
        /\ phase \in {"plan", "scan"} => count = 0 /\ target = before
        /\ phase = "sink" => done

UpdateInv ==
    op = "update" =>
        target = [r \in DOMAIN source |-> IF r \in Visited \ Pending THEN source[r] + Added ELSE source[r]]

WithValue(S, T, v) == {r \in S : T[r] = v}

InsertInv ==
    op \in {"insert", "create"} =>
        /\ DOMAIN before \subseteq DOMAIN target
        /\ \A r \in DOMAIN before : target[r] = before[r]
        /\ \A v \in 0..MaxValue :
              Cardinality(WithValue(DOMAIN target \ DOMAIN before, target, v))
                = Cardinality(WithValue(Visited \ Pending, source, v))

DeleteInv ==
    op = "delete" =>
        /\ phase \in {"plan", "scan", "sink"} => target = source
        /\ Collected \cup ChunkRows = Visited
        /\ Len(rowids) + Len(chunk) = repeat * Cardinality(Visited)
        /\ phase = "write" =>
              target = Restrict(source, DOMAIN source \ {rowids[i] : i \in 1..(row - 1)})
        /\ phase \in {"result", "done"} =>
              count = Len(rowids) /\ target = Restrict(source, DOMAIN source \ Selected)

ExactInv == ScanInv /\ FirstChunkInv /\ UpdateInv /\ InsertInv /\ DeleteInv

RowWritesInv == WritesTypes /\ (Steady /\ phase # "failed" => ExactInv)

(* The rows that the condition selects are finitely many, and so are those  *)
(* visited.                                                                 *)
LEMMA FiniteSelection ==
  ASSUME FixedInv, MovingInv
  PROVE  /\ IsFiniteSet(Selected) /\ Selected \subseteq DOMAIN source
         /\ Visited \subseteq Selected /\ IsFiniteSet(Visited)
         /\ Cardinality(Visited) \in Nat /\ Cardinality(Selected) \in Nat
         /\ Cardinality(Visited) <= Cardinality(Selected)
  <1>1. Selected \subseteq DOMAIN source /\ Visited \subseteq Selected /\ DOMAIN source \subseteq 1..MaxRowId
    BY TablesSeen DEF Selected, Visited, IsTable
  <1>2. IsFiniteSet(1..MaxRowId)
    BY BoundsAssumption, FS_Interval
  <1>3. IsFiniteSet(Selected)
    BY <1>1, <1>2, FS_Subset, Zenon
  <1>4. IsFiniteSet(Visited) /\ Cardinality(Visited) <= Cardinality(Selected)
    BY <1>1, <1>3, FS_Subset
  <1>5. QED
    BY <1>1, <1>3, <1>4, FS_CardinalityType

(* The rows ahead are the selected rows that were not visited, as they were *)
(* when the statement began.                                                *)
LEMMA ScanIsSteady ==
  ASSUME RowWritesInv, Steady, phase = "scan"
  PROVE  Ahead = Selected \ Visited /\ \A r \in Ahead : Scanned[r] = source[r]
  <1>0. FixedInv /\ MovingInv /\ ExactInv
    BY DEF RowWritesInv, WritesTypes
  <1>1. CASE Scanned = source
    BY <1>1 DEF Ahead, Selected, Visited
  <1>2. CASE op = "update" /\ order = "rowid" /\ Scanned = target
    <2>1. DOMAIN target = DOMAIN source
      BY <1>0, <1>2 DEF ExactInv, UpdateInv
    <2>2. \A r \in DOMAIN source : r \notin Visited => target[r] = source[r]
      BY <1>0, <1>2 DEF ExactInv, UpdateInv
    <2>3. \A r \in DOMAIN source : Key(target, r) = Key(source, r)
      BY <1>2 DEF Key
    <2>4. \A r \in DOMAIN source : Below(cursor, Key(source, r)) => r \notin Visited
      BY DEF Visited
    <2>5. Ahead = {r \in DOMAIN source : target[r] < limit /\ Below(cursor, Key(source, r))}
      BY <1>2, <2>1, <2>3 DEF Ahead
    <2>6. Ahead = {r \in DOMAIN source : source[r] < limit /\ Below(cursor, Key(source, r))}
      BY <2>2, <2>4, <2>5
    <2>7. Ahead = Selected \ Visited
      BY <2>6 DEF Selected, Visited
    <2>8. QED
      BY <1>2, <2>2, <2>6, <2>7
  <1>3. Scanned = source \/ (op = "update" /\ order = "rowid" /\ Scanned = target)
    <2>1. before = source \/ ~same
      BY <1>0 DEF FixedInv
    <2>2. CASE op = "delete"
      BY <1>0, <2>1, <2>2 DEF ExactInv, DeleteInv, Scanned
    <2>3. CASE op # "delete" /\ Cardinality(Selected) < VectorSize
      BY <1>0, <2>1, <2>3 DEF ExactInv, FirstChunkInv, Scanned
    <2>4. CASE ~same \/ ~shared
      BY <2>1, <2>4 DEF Scanned
    <2>5. CASE same /\ shared /\ op = "update" /\ order = "rowid"
      BY <2>5 DEF Scanned
    <2>6. QED
      BY <1>0, <2>2, <2>3, <2>4, <2>5 DEF Steady, Separate, FixedInv
  <1>4. QED
    BY <1>1, <1>2, <1>3

(* The scan visits one more row.                                            *)
LEMMA VisitNext ==
  ASSUME RowWritesInv, Steady, phase = "scan", Ahead # {},
         cursor' = Key(Scanned, NextRow), UNCHANGED statement
  PROVE  /\ NextRow \in Selected /\ NextRow \notin Visited /\ Scanned[NextRow] = source[NextRow]
         /\ Visited' = Visited \cup {NextRow}
         /\ Cardinality(Visited') = Cardinality(Visited) + 1
  <1>0. FixedInv /\ MovingInv
    BY DEF RowWritesInv, WritesTypes
  <1>1. /\ NextRow \in Ahead
        /\ \A s \in Ahead : s # NextRow => Below(Key(Scanned, NextRow), Key(Scanned, s))
    BY <1>0, NextRowLeast
  <1>2. Ahead = Selected \ Visited /\ \A r \in Ahead : Scanned[r] = source[r]
    BY ScanIsSteady
  <1>3. \A r \in Ahead : Key(Scanned, r) = Key(source, r)
    BY <1>2 DEF Key
  <1>4. Selected \subseteq DOMAIN source /\ IsTable(source)
    BY <1>0, FiniteSelection, TablesSeen
  <1>5. cursor \in Nat \X Nat /\ \A r \in Selected : Key(source, r) \in Nat \X Nat
    BY <1>0, <1>4, KeyType DEF MovingInv
  <1>6. Visited' = {r \in Selected : ~Below(cursor', Key(source, r))}
    BY DEF Visited, Selected, Key, statement
  <1>7. cursor' = Key(source, NextRow) /\ NextRow \in Selected
    BY <1>1, <1>2, <1>3
  <1>8. Below(cursor, Key(source, NextRow))
    BY <1>1, <1>3 DEF Ahead
  <1>9. ASSUME NEW r \in Selected
        PROVE  ~Below(cursor', Key(source, r)) <=> r \in Visited \/ r = NextRow
    <2>1. CASE r = NextRow
      BY <1>5, <1>7, <2>1, BelowIsOrder
    <2>2. CASE r # NextRow /\ r \in Visited
      <3>1. ~Below(cursor, Key(source, r))
        BY <2>2 DEF Visited
      <3>2. QED
        BY <1>5, <1>7, <1>8, <2>2, <3>1, BelowIsOrder
    <2>3. CASE r # NextRow /\ r \notin Visited
      BY <1>1, <1>2, <1>3, <1>7, <2>3
    <2>4. QED
      BY <2>1, <2>2, <2>3
  <1>10. Visited' = Visited \cup {NextRow}
    BY <1>6, <1>7, <1>9 DEF Visited
  <1>11. Cardinality(Visited \cup {NextRow}) = Cardinality(Visited) + 1
    BY <1>0, <1>1, <1>2, FiniteSelection, FS_AddElement, Zenon
  <1>12. QED
    BY <1>1, <1>2, <1>10, <1>11

(* The invariant holds when the statement starts.                           *)
LEMMA ExactStart ==
  ASSUME Init
  PROVE  RowWritesInv
  <1>1. WritesTypes /\ FixedInv /\ MovingInv
    BY WritesStart DEF WritesTypes
  <1>2. IsTable(source) /\ Selected \subseteq DOMAIN source
    BY <1>1, TablesSeen, FiniteSelection
  <1>3. cursor = <<0, 0>> /\ chunk = <<>> /\ rowids = <<>> /\ count = 0 /\ row = 1 /\ phase = "plan"
        /\ before = target /\ done = FALSE
    BY DEF Init
  <1>4. Visited = {}
    BY <1>2, <1>3, KeyType DEF Visited
  <1>5. Len(chunk) = 0 /\ Len(rowids) = 0
    BY <1>3
  <1>6. ChunkRows = {} /\ Pending = {} /\ Collected = {}
    BY <1>3, <1>5 DEF ChunkRows, Pending, Collected
  <1>7. Cardinality(Visited) = 0
    BY <1>4, FS_EmptySet
  <1>8. ScanInv
    BY <1>3, <1>4, <1>5, <1>6, <1>7 DEF ScanInv
  <1>9. FirstChunkInv
    BY <1>3 DEF FirstChunkInv
  <1>10. UpdateInv
    <2>1. op = "update" => target = source
      BY DEF Init
    <2>2. source = [r \in DOMAIN source |-> source[r]]
      BY <1>2 DEF IsTable
    <2>3. QED
      BY <1>4, <2>1, <2>2 DEF UpdateInv
  <1>11. InsertInv
    <2>1. \A v : WithValue({}, target, v) = {} /\ WithValue({}, source, v) = {}
      BY DEF WithValue
    <2>2. DOMAIN target \ DOMAIN before = {} /\ Visited \ Pending = {}
      BY <1>3, <1>4
    <2>3. QED
      BY <1>3, <2>1, <2>2, Zenon DEF InsertInv
  <1>12. DeleteInv
    <2>1. op = "delete" => target = source
      BY DEF Init
    <2>2. repeat * 0 = 0
      BY <1>1 DEF FixedInv
    <2>3. QED
      BY <1>3, <1>4, <1>5, <1>6, <1>7, <2>1, <2>2 DEF DeleteInv
  <1>13. QED
    BY <1>1, <1>8, <1>9, <1>10, <1>11, <1>12 DEF RowWritesInv, ExactInv

(* Where the cursor and the chunk stay, the rows visited and pending stay.  *)
LEMMA SameRows ==
  ASSUME UNCHANGED <<statement, cursor, chunk, row, rowids>>
  PROVE  /\ Visited' = Visited /\ ChunkRows' = ChunkRows /\ Pending' = Pending /\ Collected' = Collected
         /\ Selected' = Selected /\ op' = op /\ source' = source /\ before' = before /\ repeat' = repeat
  BY DEF Visited, Selected, Key, statement, ChunkRows, Pending, Collected

(* Planning reads and writes no row.                                        *)
LEMMA ExactPlan ==
  ASSUME RowWritesInv, Steady, NEW clause, NEW prepared, Plan(clause, prepared), phase' # "failed"
  PROVE  ExactInv'
  <1>0. ExactInv /\ phase = "plan" /\ phase' = "scan"
        /\ UNCHANGED <<statement, target, cursor, done, chunk, row, rowids, count>>
    BY DEF RowWritesInv, Plan
  <1>1. /\ Visited' = Visited /\ ChunkRows' = ChunkRows /\ Pending' = Pending /\ Collected' = Collected
        /\ Selected' = Selected /\ op' = op /\ source' = source /\ before' = before /\ repeat' = repeat
    BY <1>0, SameRows
  <1>2. ScanInv'
    BY <1>0, <1>1 DEF ExactInv, ScanInv
  <1>3. FirstChunkInv'
    BY <1>0, <1>1 DEF ExactInv, FirstChunkInv
  <1>4. UpdateInv'
    BY <1>0, <1>1 DEF ExactInv, UpdateInv
  <1>5. InsertInv'
    BY <1>0, <1>1 DEF ExactInv, InsertInv, WithValue
  <1>6. DeleteInv'
    BY <1>0, <1>1 DEF ExactInv, DeleteInv
  <1>7. QED
    BY <1>2, <1>3, <1>4, <1>5, <1>6 DEF ExactInv

(* The chunk is full, or the scan has ended.                                *)
LEMMA ExactChunkEnds ==
  ASSUME RowWritesInv, Steady, phase = "scan", phase' = "sink",
         \/ Len(chunk) >= VectorSize /\ done' = done
         \/ Ahead = {} /\ done' = TRUE,
         UNCHANGED <<statement, cursor, chunk, target, row, rowids, count>>
  PROVE  ExactInv'
  <1>0. ExactInv /\ FixedInv /\ MovingInv
    BY DEF RowWritesInv, WritesTypes
  <1>1. /\ Visited' = Visited /\ ChunkRows' = ChunkRows /\ Pending' = Pending /\ Collected' = Collected
        /\ Selected' = Selected /\ op' = op /\ source' = source /\ before' = before /\ repeat' = repeat
    BY SameRows
  <1>2. ~done
    BY <1>0 DEF ExactInv, ScanInv
  <1>3. done' => Visited = Selected
    BY <1>2, ScanIsSteady, Zenon DEF Visited
  <1>4. ScanInv'
    BY <1>0, <1>1, <1>3 DEF ExactInv, ScanInv
  <1>5. ASSUME Cardinality(Selected) < VectorSize, op # "delete"
        PROVE  done'
    <2>1. count = 0 /\ count + Len(chunk) = Cardinality(Visited)
      BY <1>0, <1>5 DEF ExactInv, FirstChunkInv, ScanInv
    <2>2. /\ Cardinality(Visited) <= Cardinality(Selected)
          /\ Cardinality(Visited) \in Nat /\ Cardinality(Selected) \in Nat
      BY <1>0, FiniteSelection
    <2>3. Len(chunk) \in Nat /\ VectorSize \in Nat
      BY <1>0, VectorSizeAssumption DEF MovingInv
    <2>4. ~(Len(chunk) >= VectorSize)
      BY <1>5, <2>1, <2>2, <2>3
    <2>5. QED
      BY <2>4
  <1>6. FirstChunkInv'
    BY <1>1, <1>5 DEF FirstChunkInv
  <1>7. UpdateInv'
    BY <1>0, <1>1 DEF ExactInv, UpdateInv
  <1>8. InsertInv'
    BY <1>0, <1>1 DEF ExactInv, InsertInv, WithValue
  <1>9. DeleteInv'
    BY <1>0, <1>1 DEF ExactInv, DeleteInv
  <1>10. QED
    BY <1>4, <1>6, <1>7, <1>8, <1>9 DEF ExactInv

(* The fields of a pair.                                                    *)
LEMMA PairFields == \A x, y, z : x = <<y, z>> => x[1] = y /\ x[2] = z
  OBVIOUS

(* A row more, emitted once or twice, is that many more row ids to collect. *)
LEMMA OneMoreRow ==
  ASSUME NEW a \in Nat, NEW b \in Nat, NEW v \in Nat, NEW r \in {1, 2}, a + b = r * v
  PROVE  a + (b + r) = r * (v + 1)
  <1>1. CASE r = 1
    BY <1>1
  <1>2. CASE r = 2
    BY <1>2
  <1>3. QED
    BY <1>1, <1>2

(* A row is added to the chunk.                                             *)
LEMMA ExactRow ==
  ASSUME RowWritesInv, Steady, phase = "scan", Ahead # {},
         cursor' = Key(Scanned, NextRow), chunk' = chunk \o Emitted(NextRow),
         UNCHANGED <<statement, phase, done, target, row, rowids, count>>
  PROVE  ExactInv'
  <1>0. ExactInv /\ FixedInv /\ MovingInv /\ row = 1
    BY DEF RowWritesInv, WritesTypes, LoopInv
  <1>1. PICK n : n = NextRow
    OBVIOUS
  <1>2. /\ n \in Selected /\ n \notin Visited /\ Scanned[n] = source[n]
        /\ Visited' = Visited \cup {n} /\ Cardinality(Visited') = Cardinality(Visited) + 1
    BY <1>1, VisitNext
  <1>3. /\ Selected' = Selected /\ op' = op /\ source' = source /\ before' = before /\ repeat' = repeat
        /\ limit' = limit
    BY DEF Selected, statement
  <1>4. /\ Emitted(n) \in Seq((1..MaxRowId) \X (0..MaxValue)) /\ Len(Emitted(n)) = repeat
        /\ \A i \in 1..repeat : Emitted(n)[i] = <<n, source[n]>>
    BY <1>0, <1>1, <1>2, NewChunk, Zenon DEF Emitted
  <1>5. repeat \in 1..2 /\ Len(chunk) \in Nat /\ (op # "delete" => repeat = 1)
    BY <1>0 DEF FixedInv, MovingInv
  <1>6. /\ Len(chunk') = Len(chunk) + repeat
        /\ \A i \in 1..Len(chunk) : chunk'[i] = chunk[i]
        /\ \A i \in (Len(chunk) + 1)..(Len(chunk) + repeat) : chunk'[i] = <<n, source[n]>>
    <2>1. /\ Len(chunk') = Len(chunk) + repeat
          /\ \A i \in 1..(Len(chunk) + repeat) :
                chunk'[i] = IF i <= Len(chunk) THEN chunk[i] ELSE Emitted(n)[i - Len(chunk)]
      BY <1>0, <1>1, <1>4, ConcatFacts DEF MovingInv
    <2>2. \A i \in 1..Len(chunk) : chunk'[i] = chunk[i]
      BY <1>5, <2>1
    <2>3. ASSUME NEW i \in (Len(chunk) + 1)..(Len(chunk) + repeat)
          PROVE  chunk'[i] = <<n, source[n]>>
      <3>1. i - Len(chunk) \in 1..repeat /\ i \in 1..(Len(chunk) + repeat) /\ ~(i <= Len(chunk))
        BY <1>5
      <3>2. QED
        BY <1>4, <2>1, <3>1
    <2>4. QED
      BY <2>1, <2>2, <2>3, Zenon
  <1>61. \A i \in (Len(chunk) + 1)..(Len(chunk) + repeat) : chunk'[i][1] = n /\ chunk'[i][2] = source[n]
    <2> TAKE i \in (Len(chunk) + 1)..(Len(chunk) + repeat)
    <2>1. chunk'[i] = <<n, source[n]>>
      BY <1>6, Zenon
    <2>2. QED
      BY <2>1, PairFields, Zenon
  <1>62. \A i \in 1..(Len(chunk) + repeat) :
            i \in 1..Len(chunk) \/ i \in (Len(chunk) + 1)..(Len(chunk) + repeat)
    BY <1>5
  <1>7. ChunkRows' = ChunkRows \cup {n}
    <2>1. ChunkRows' = {chunk'[i][1] : i \in 1..(Len(chunk) + repeat)}
      BY <1>6 DEF ChunkRows
    <2>2. ASSUME NEW i \in 1..(Len(chunk) + repeat)
          PROVE  chunk'[i][1] \in ChunkRows \cup {n}
      <3>1. CASE i \in 1..Len(chunk)
        BY <1>6, <3>1 DEF ChunkRows
      <3>2. CASE i \in (Len(chunk) + 1)..(Len(chunk) + repeat)
        BY <1>61, <3>2, Zenon
      <3>3. QED
        BY <1>62, <3>1, <3>2, Zenon
    <2>3. \A x \in ChunkRows : x \in ChunkRows'
      BY <1>5, <1>6, <2>1 DEF ChunkRows
    <2>4. /\ Len(chunk) + 1 \in 1..(Len(chunk) + repeat)
          /\ Len(chunk) + 1 \in (Len(chunk) + 1)..(Len(chunk) + repeat)
      BY <1>5
    <2>5. n \in ChunkRows'
      BY <1>61, <2>1, <2>4, Zenon
    <2>6. QED
      BY <2>1, <2>2, <2>3, <2>5, Zenon
  <1>8. Pending = ChunkRows /\ Pending' = ChunkRows'
    BY <1>0 DEF Pending, ChunkRows
  <1>9. Visited' \ Pending' = Visited \ Pending
    BY <1>2, <1>7, <1>8
  <1>10. ScanInv'
    <2>1. ~done
      BY <1>0 DEF ExactInv, ScanInv
    <2>2. ChunkRows' \subseteq Visited'
      BY <1>0, <1>2, <1>7 DEF ExactInv, ScanInv
    <2>3. ASSUME NEW i \in 1..Len(chunk')
          PROVE  chunk'[i][2] = source[chunk'[i][1]]
      <3>1. CASE i \in 1..Len(chunk)
        BY <1>0, <1>6, <3>1 DEF ExactInv, ScanInv
      <3>2. CASE i \in (Len(chunk) + 1)..(Len(chunk) + repeat)
        BY <1>61, <3>2
      <3>3. QED
        BY <1>6, <1>62, <3>1, <3>2
    <2>4. ASSUME op # "delete"
          PROVE  count + Len(chunk') = Cardinality(Visited')
      <3>1. count + Len(chunk) = Cardinality(Visited) /\ count \in Nat /\ repeat = 1
        BY <1>0, <1>5, <2>4 DEF ExactInv, ScanInv, MovingInv
      <3>2. QED
        BY <1>2, <1>5, <1>6, <3>1
    <2>5. ASSUME op # "delete", NEW i \in 1..Len(chunk'), NEW j \in 1..Len(chunk'), i # j
          PROVE  chunk'[i][1] # chunk'[j][1]
      <3>1. repeat = 1 /\ \A k \in 1..Len(chunk) : chunk[k][1] # n
        BY <1>0, <1>2, <1>5, <2>5 DEF ExactInv, ScanInv, ChunkRows
      <3>2. \A k, l \in 1..Len(chunk) : k # l => chunk[k][1] # chunk[l][1]
        BY <1>0, <2>5 DEF ExactInv, ScanInv
      <3>3. chunk'[Len(chunk) + 1][1] = n
        BY <1>5, <1>6, <3>1
      <3>4. i \in 1..Len(chunk) \/ i = Len(chunk) + 1
        BY <1>5, <1>6, <3>1
      <3>5. j \in 1..Len(chunk) \/ j = Len(chunk) + 1
        BY <1>5, <1>6, <3>1
      <3>6. QED
        BY <1>6, <2>5, <3>1, <3>2, <3>3, <3>4, <3>5
    <2>6. QED
      BY <1>3, <2>1, <2>2, <2>3, <2>4, <2>5, Zenon DEF ScanInv
  <1>11. FirstChunkInv'
    BY <1>0, <1>3 DEF ExactInv, FirstChunkInv
  <1>12. UpdateInv'
    BY <1>0, <1>3, <1>9 DEF ExactInv, UpdateInv
  <1>13. InsertInv'
    BY <1>0, <1>3, <1>9 DEF ExactInv, InsertInv, WithValue
  <1>14. DeleteInv'
    <2>1. Collected' = Collected
      BY DEF Collected
    <2>2. ASSUME op = "delete"
          PROVE  Len(rowids) + Len(chunk') = repeat * Cardinality(Visited')
      <3>1. Len(rowids) + Len(chunk) = repeat * Cardinality(Visited) /\ Len(rowids) \in Nat
            /\ Cardinality(Visited) \in Nat
        BY <1>0, <2>2, FiniteSelection DEF ExactInv, DeleteInv, MovingInv
      <3>2. Len(chunk) \in Nat /\ Len(chunk') = Len(chunk) + repeat
        BY <1>5, <1>6
      <3>3. Cardinality(Visited') = Cardinality(Visited) + 1
        BY <1>2
      <3>4. repeat \in {1, 2}
        BY <1>5
      <3>5. Len(rowids) + (Len(chunk) + repeat) = repeat * (Cardinality(Visited) + 1)
        BY <3>1, <3>2, <3>4, OneMoreRow, Zenon
      <3>6. QED
        BY <3>2, <3>3, <3>5, Zenon
    <2>3. QED
      BY <1>0, <1>2, <1>3, <1>7, <2>1, <2>2 DEF ExactInv, DeleteInv
  <1>15. QED
    BY <1>10, <1>11, <1>12, <1>13, <1>14 DEF ExactInv

(* The row that the scan visits next was ahead, and is pending or collected *)
(* afterwards.                                                              *)
LEMMA ExactScan ==
  ASSUME RowWritesInv, Steady, ScanStep
  PROVE  ExactInv'
  <1>1. CASE Ahead # {} /\ cursor' = Key(Scanned, NextRow) /\ chunk' = chunk \o Emitted(NextRow)
             /\ UNCHANGED <<phase, done>>
    BY <1>1, ExactRow DEF ScanStep
  <1>2. CASE /\ \/ Len(chunk) >= VectorSize /\ done' = done
                \/ Ahead = {} /\ done' = TRUE
             /\ phase' = "sink" /\ UNCHANGED <<cursor, chunk>>
    BY <1>2, ExactChunkEnds, Zenon DEF ScanStep
  <1>3. QED
    BY <1>1, <1>2, Zenon DEF ScanStep

(* The sink writes the next row of the chunk.                               *)
LEMMA PendingStep ==
  ASSUME WritesTypes, ScanInv, op # "delete", row <= Len(chunk), row' = row + 1,
         UNCHANGED <<statement, cursor, chunk>>
  PROVE  /\ chunk[row][1] \in Visited /\ chunk[row][2] = source[chunk[row][1]]
         /\ chunk[row][1] \in Pending
         /\ Visited' = Visited /\ ChunkRows' = ChunkRows
         /\ Visited \ Pending' = (Visited \ Pending) \cup {chunk[row][1]}
  <1>1. row \in 1..Len(chunk) /\ Len(chunk) \in Nat
    BY RowOfChunk
  <1>2. Visited' = Visited /\ ChunkRows' = ChunkRows
    BY DEF Visited, Selected, Key, statement, ChunkRows
  <1>3. chunk[row][1] \in Visited /\ chunk[row][2] = source[chunk[row][1]]
    BY <1>1 DEF ScanInv, ChunkRows
  <1>4. Pending' = {chunk[i][1] : i \in (row + 1)..Len(chunk)}
    BY DEF Pending
  <1>5. Pending = Pending' \cup {chunk[row][1]}
    BY <1>1, <1>4 DEF Pending
  <1>6. chunk[row][1] \notin Pending'
    BY <1>1, <1>4 DEF ScanInv
  <1>7. QED
    BY <1>2, <1>3, <1>5, <1>6

(* An UPDATE changes the first pending row to its new value.                *)
LEMMA ExactUpdateRow ==
  ASSUME RowWritesInv, Steady, UpdateRow
  PROVE  ExactInv'
  <1>0. /\ ExactInv /\ WritesTypes /\ FixedInv /\ MovingInv /\ ScanInv
        /\ op = "update" /\ op # "delete" /\ row <= Len(chunk) /\ row' = row + 1 /\ phase = "sink"
        /\ UNCHANGED <<statement, phase, cursor, done, chunk, rowids, count>>
    BY DEF RowWritesInv, WritesTypes, ExactInv, UpdateRow
  <1>1. PICK r : r = chunk[row][1]
    OBVIOUS
  <1>2. /\ r \in Visited /\ chunk[row][2] = source[r] /\ r \in Pending
        /\ Visited' = Visited /\ ChunkRows' = ChunkRows
        /\ Visited \ Pending' = (Visited \ Pending) \cup {r}
    BY <1>0, <1>1, PendingStep
  <1>3. /\ Selected' = Selected /\ op' = op /\ source' = source /\ before' = before /\ repeat' = repeat
    BY <1>0 DEF Selected, statement
  <1>4. r \in DOMAIN source /\ DOMAIN target = DOMAIN source
    BY <1>0, <1>2, FiniteSelection DEF ExactInv, UpdateInv
  <1>5. target' = WithRow(target, r, source[r] + Added)
    BY <1>1, <1>2, <1>4 DEF UpdateRow
  <1>6. target' = [s \in DOMAIN source |-> IF s = r THEN source[r] + Added ELSE target[s]]
    BY <1>4, <1>5 DEF WithRow
  <1>7. \A s \in DOMAIN source :
           target[s] = IF s \in Visited \ Pending THEN source[s] + Added ELSE source[s]
    BY <1>0 DEF ExactInv, UpdateInv
  <1>8. UpdateInv'
    BY <1>2, <1>3, <1>6, <1>7 DEF UpdateInv
  <1>9. ScanInv'
    BY <1>0, <1>2, <1>3 DEF ScanInv
  <1>10. FirstChunkInv'
    BY <1>0, <1>3 DEF ExactInv, FirstChunkInv
  <1>11. InsertInv' /\ DeleteInv'
    BY <1>0, <1>3 DEF InsertInv, DeleteInv
  <1>12. QED
    BY <1>8, <1>9, <1>10, <1>11 DEF ExactInv

(* An INSERT adds the first pending row under a row id that was free.       *)
LEMMA ExactInsertRow ==
  ASSUME RowWritesInv, Steady, InsertRow
  PROVE  ExactInv'
  <1>0. /\ ExactInv /\ WritesTypes /\ FixedInv /\ MovingInv /\ ScanInv
        /\ op \in {"insert", "create"} /\ op # "delete" /\ op # "update"
        /\ row <= Len(chunk) /\ row' = row + 1 /\ phase = "sink"
        /\ UNCHANGED <<statement, phase, cursor, done, chunk, rowids, count>>
    BY DEF RowWritesInv, WritesTypes, ExactInv, InsertRow
  <1>1. PICK r, n : r = chunk[row][1] /\ n = NewRowId(target)
    OBVIOUS
  <1>2. /\ r \in Visited /\ chunk[row][2] = source[r] /\ r \in Pending
        /\ Visited' = Visited /\ ChunkRows' = ChunkRows
        /\ Visited \ Pending' = (Visited \ Pending) \cup {r}
    BY <1>0, <1>1, PendingStep
  <1>3. /\ Selected' = Selected /\ op' = op /\ source' = source /\ before' = before /\ repeat' = repeat
    BY <1>0 DEF Selected, statement
  <1>4. n \notin DOMAIN target
    BY <1>0, <1>1, NewRowIdIsNew DEF MovingInv
  <1>5. target' = [s \in DOMAIN target \cup {n} |-> IF s = n THEN source[r] ELSE target[s]]
    BY <1>1, <1>2 DEF InsertRow, WithRow
  <1>6. DOMAIN before \subseteq DOMAIN target /\ \A s \in DOMAIN before : target[s] = before[s]
    BY <1>0 DEF ExactInv, InsertInv
  <1>7. DOMAIN before \subseteq DOMAIN target' /\ \A s \in DOMAIN before : target'[s] = before[s]
    BY <1>4, <1>5, <1>6
  <1>8. ASSUME NEW v \in 0..MaxValue
        PROVE  Cardinality(WithValue(DOMAIN target' \ DOMAIN before, target', v))
                 = Cardinality(WithValue(Visited \ Pending', source, v))
    <2> DEFINE Rows == WithValue(DOMAIN target \ DOMAIN before, target, v)
               Read == WithValue(Visited \ Pending, source, v)
    <2>1. Cardinality(Rows) = Cardinality(Read)
      BY <1>0, Zenon DEF ExactInv, InsertInv
    <2>2. IsFiniteSet(Rows) /\ IsFiniteSet(Read)
      <3>1. IsFiniteSet(1..MaxRowId)
        BY BoundsAssumption, FS_Interval
      <3>2. Rows \subseteq 1..MaxRowId
        BY <1>0 DEF MovingInv, IsTable, WithValue
      <3>3. Read \subseteq Visited /\ IsFiniteSet(Visited)
        BY <1>0, FiniteSelection DEF WithValue
      <3>4. QED
        BY <3>1, <3>2, <3>3, FS_Subset, Zenon
    <2>3. n \notin Rows /\ r \notin Read
      BY <1>2, <1>4 DEF WithValue
    <2>4. CASE source[r] = v
      <3>1. WithValue(DOMAIN target' \ DOMAIN before, target', v) = Rows \cup {n}
        BY <1>4, <1>5, <1>6, <2>4 DEF WithValue
      <3>2. WithValue(Visited \ Pending', source, v) = Read \cup {r}
        BY <1>2, <2>4 DEF WithValue
      <3>3. /\ Cardinality(Rows \cup {n}) = Cardinality(Rows) + 1
            /\ Cardinality(Read \cup {r}) = Cardinality(Read) + 1
        <4> HIDE DEF Rows, Read
        <4> QED BY <2>2, <2>3, FS_AddElement
      <3>4. QED
        BY <2>1, <3>1, <3>2, <3>3, Zenon
    <2>5. CASE source[r] # v
      <3>1. WithValue(DOMAIN target' \ DOMAIN before, target', v) = Rows
        BY <1>4, <1>5, <1>6, <2>5 DEF WithValue
      <3>2. WithValue(Visited \ Pending', source, v) = Read
        BY <1>2, <2>5 DEF WithValue
      <3>3. QED
        BY <2>1, <3>1, <3>2
    <2>6. QED
      BY <2>4, <2>5
  <1>9. InsertInv'
    <2>2. \A v \in 0..MaxValue :
             /\ WithValue(DOMAIN target \ DOMAIN before, target, v)'
                  = WithValue(DOMAIN target' \ DOMAIN before, target', v)
             /\ WithValue(Visited \ Pending, source, v)' = WithValue(Visited \ Pending', source, v)
      BY <1>2, <1>3 DEF WithValue
    <2>3. QED
      BY <1>3, <1>7, <1>8, <2>2 DEF InsertInv
  <1>10. ScanInv'
    BY <1>0, <1>2, <1>3 DEF ScanInv
  <1>11. FirstChunkInv'
    BY <1>0, <1>3 DEF ExactInv, FirstChunkInv
  <1>12. UpdateInv' /\ DeleteInv'
    BY <1>0, <1>3 DEF UpdateInv, DeleteInv
  <1>13. QED
    BY <1>9, <1>10, <1>11, <1>12 DEF ExactInv

(* The end of Sink of INSERT and UPDATE: all rows of the chunk are written. *)
LEMMA ExactCountChunk ==
  ASSUME RowWritesInv, Steady, CountChunk
  PROVE  ExactInv'
  <1>0. /\ ExactInv /\ FixedInv /\ MovingInv /\ ScanInv
        /\ op # "delete" /\ row > Len(chunk) /\ phase = "sink"
        /\ count' = count + Len(chunk) /\ chunk' = <<>> /\ row' = 1
        /\ phase' = (IF done THEN "result" ELSE "scan")
        /\ UNCHANGED <<statement, target, cursor, done, rowids>>
    BY DEF RowWritesInv, WritesTypes, ExactInv, CountChunk, NextPhase
  <1>1. /\ Selected' = Selected /\ op' = op /\ source' = source /\ before' = before /\ repeat' = repeat
        /\ Visited' = Visited
    BY <1>0 DEF Selected, statement, Visited, Key
  <1>2. Len(chunk') = 0 /\ Len(chunk) \in Nat /\ count \in Nat /\ row \in Nat
    BY <1>0 DEF MovingInv, RowWritesInv, WritesTypes, LoopInv
  <1>3. Pending = {}
    BY <1>0, <1>2 DEF Pending
  <1>4. Pending' = {} /\ ChunkRows' = {}
    BY <1>0, <1>2 DEF Pending, ChunkRows
  <1>5. ScanInv'
    <2>1. count + Len(chunk) = Cardinality(Visited)
      BY <1>0 DEF ScanInv
    <2>2. count' + Len(chunk') = Cardinality(Visited')
      BY <1>0, <1>1, <1>2, <2>1
    <2>3. done => Visited = Selected
      BY <1>0 DEF ScanInv
    <2>4. phase' \in {"scan", "result"} /\ (phase' = "scan" => ~done') /\ (phase' = "result" => done')
      BY <1>0
    <2>5. QED
      BY <1>0, <1>1, <1>2, <1>4, <2>2, <2>3, <2>4 DEF ScanInv
  <1>6. FirstChunkInv'
    <2>1. Cardinality(Selected) < VectorSize => done
      BY <1>0 DEF ExactInv, FirstChunkInv
    <2>2. QED
      BY <1>0, <1>1, <2>1 DEF FirstChunkInv
  <1>7. UpdateInv'
    BY <1>0, <1>1, <1>3, <1>4 DEF ExactInv, UpdateInv
  <1>8. InsertInv'
    BY <1>0, <1>1, <1>3, <1>4 DEF ExactInv, InsertInv, WithValue
  <1>9. DeleteInv'
    BY <1>0, <1>1 DEF DeleteInv
  <1>10. QED
    BY <1>5, <1>6, <1>7, <1>8, <1>9 DEF ExactInv

(* The elements of two sequences of row ids put together.                   *)
LEMMA ConcatRowIds ==
  \A s, t \in Seq(1..MaxRowId) :
    /\ Len(s \o t) = Len(s) + Len(t)
    /\ \A i \in 1..(Len(s) + Len(t)) : (s \o t)[i] = IF i <= Len(s) THEN s[i] ELSE t[i - Len(s)]
  BY ConcatFacts

(* SQLiteDelete::Sink.                                                      *)
LEMMA ExactCollectRowIds ==
  ASSUME RowWritesInv, Steady, CollectRowIds
  PROVE  ExactInv'
  <1>0. /\ ExactInv /\ FixedInv /\ MovingInv /\ ScanInv
        /\ op = "delete" /\ phase = "sink" /\ row = 1
        /\ chunk' = <<>>
        /\ phase' = (IF done THEN "write" ELSE "scan")
        /\ UNCHANGED <<statement, target, cursor, done, row, count>>
    BY DEF RowWritesInv, WritesTypes, LoopInv, ExactInv, CollectRowIds, NextPhase
  <1>1. /\ Selected' = Selected /\ op' = op /\ source' = source /\ before' = before /\ repeat' = repeat
        /\ Visited' = Visited
    BY <1>0 DEF Selected, statement, Visited, Key
  <1>2. Len(chunk') = 0 /\ Len(chunk) \in Nat /\ Len(rowids) \in Nat
    BY <1>0 DEF MovingInv
  <1>3. ChunkRows' = {}
    BY <1>2 DEF ChunkRows
  <1>4. /\ Len(rowids') = Len(rowids) + Len(chunk)
        /\ \A i \in 1..(Len(rowids) + Len(chunk)) :
              rowids'[i] = IF i <= Len(rowids) THEN rowids[i] ELSE chunk[i - Len(rowids)][1]
    <2>1. /\ ChunkRowIds \in Seq(1..MaxRowId) /\ Len(ChunkRowIds) = Len(chunk)
          /\ \A i \in 1..Len(chunk) : ChunkRowIds[i] = chunk[i][1]
      BY <1>0, RowIdsOfChunk
    <2>2. /\ Len(rowids') = Len(rowids) + Len(chunk)
          /\ \A i \in 1..(Len(rowids) + Len(chunk)) :
                rowids'[i] = IF i <= Len(rowids) THEN rowids[i] ELSE ChunkRowIds[i - Len(rowids)]
      <3>1. rowids \in Seq(1..MaxRowId) /\ rowids' = rowids \o ChunkRowIds
        BY <1>0 DEF MovingInv, CollectRowIds
      <3>2. /\ Len(rowids \o ChunkRowIds) = Len(rowids) + Len(ChunkRowIds)
            /\ \A i \in 1..(Len(rowids) + Len(ChunkRowIds)) : (rowids \o ChunkRowIds)[i] =
                  IF i <= Len(rowids) THEN rowids[i] ELSE ChunkRowIds[i - Len(rowids)]
        BY <2>1, <3>1, ConcatRowIds, Zenon
      <3>3. QED
        BY <2>1, <3>1, <3>2, Zenon
    <2>3. \A i \in 1..(Len(rowids) + Len(chunk)) : ~(i <= Len(rowids)) => i - Len(rowids) \in 1..Len(chunk)
      BY <1>2
    <2>4. QED
      BY <2>1, <2>2, <2>3
  <1>5. Collected' = Collected \cup ChunkRows
    <2>1. Collected' = {rowids'[i] : i \in 1..(Len(rowids) + Len(chunk))}
      BY <1>4 DEF Collected
    <2>2. ASSUME NEW i \in 1..(Len(rowids) + Len(chunk))
          PROVE  rowids'[i] \in Collected \cup ChunkRows
      <3>1. CASE i <= Len(rowids)
        <4>1. i \in 1..Len(rowids)
          BY <1>2, <3>1
        <4>2. QED
          BY <1>4, <3>1, <4>1 DEF Collected
      <3>2. CASE ~(i <= Len(rowids))
        <4>1. i - Len(rowids) \in 1..Len(chunk)
          BY <1>2, <3>2
        <4>2. QED
          BY <1>4, <3>2, <4>1 DEF ChunkRows
      <3>3. QED
        BY <3>1, <3>2
    <2>3. ASSUME NEW i \in 1..Len(rowids)
          PROVE  rowids[i] \in Collected'
      <3>1. i \in 1..(Len(rowids) + Len(chunk)) /\ i <= Len(rowids)
        BY <1>2
      <3>2. QED
        BY <1>4, <2>1, <3>1
    <2>4. ASSUME NEW i \in 1..Len(chunk)
          PROVE  chunk[i][1] \in Collected'
      <3>1. /\ Len(rowids) + i \in 1..(Len(rowids) + Len(chunk))
            /\ ~(Len(rowids) + i <= Len(rowids)) /\ (Len(rowids) + i) - Len(rowids) = i
        BY <1>2
      <3>2. rowids'[Len(rowids) + i] = chunk[i][1]
        BY <1>4, <3>1
      <3>3. QED
        BY <2>1, <3>1, <3>2
    <2>5. Collected' \subseteq Collected \cup ChunkRows
      BY <2>1, <2>2, Zenon
    <2>6. Collected \subseteq Collected'
      BY <2>3, Zenon DEF Collected
    <2>7. ChunkRows \subseteq Collected'
      BY <2>4, Zenon DEF ChunkRows
    <2>8. QED
      BY <2>5, <2>6, <2>7, Zenon
  <1>6. phase' \in {"scan", "write"} /\ (phase' = "scan" => ~done') /\ (phase' = "write" => done')
    BY <1>0
  <1>7. ScanInv'
    BY <1>0, <1>1, <1>2, <1>3, <1>6 DEF ScanInv
  <1>8. FirstChunkInv' /\ UpdateInv' /\ InsertInv'
    BY <1>0, <1>1 DEF FirstChunkInv, UpdateInv, InsertInv
  <1>9. DeleteInv'
    <2>1. target = source /\ Collected \cup ChunkRows = Visited
          /\ Len(rowids) + Len(chunk) = repeat * Cardinality(Visited)
      BY <1>0 DEF ExactInv, DeleteInv
    <2>2. Len(rowids') + Len(chunk') = repeat' * Cardinality(Visited')
      BY <1>1, <1>2, <1>4, <2>1
    <2>3. Collected' \cup ChunkRows' = Visited'
      BY <1>1, <1>3, <1>5, <2>1
    <2>4. target' = source' /\ target' = Restrict(source', DOMAIN source' \ {rowids'[i] : i \in 1..(row' - 1)})
      <3>1. 1..(row' - 1) = {}
        BY <1>0
      <3>2. IsTable(source)
        BY <1>0, TablesSeen
      <3>3. Restrict(source, DOMAIN source) = source
        BY <3>2 DEF Restrict, IsTable
      <3>4. DOMAIN source' \ {rowids'[i] : i \in 1..(row' - 1)} = DOMAIN source
        BY <1>1, <3>1, Zenon
      <3>5. QED
        BY <1>0, <1>1, <2>1, <3>3, <3>4
    <2>5. QED
      BY <1>0, <1>1, <1>6, <2>2, <2>3, <2>4, Zenon DEF DeleteInv
  <1>10. QED
    BY <1>7, <1>8, <1>9 DEF ExactInv

(* SQLiteDelete::GetDataInternal deletes a row.                             *)
LEMMA ExactDeleteRow ==
  ASSUME RowWritesInv, Steady, DeleteRow
  PROVE  ExactInv'
  <1>0. /\ ExactInv /\ FixedInv /\ MovingInv /\ LoopInv /\ ScanInv
        /\ op = "delete" /\ phase = "write" /\ row <= Len(rowids) /\ row' = row + 1
        /\ target' = Restrict(target, DOMAIN target \ {rowids[row]})
        /\ UNCHANGED <<statement, phase, cursor, done, chunk, rowids, count>>
    BY DEF RowWritesInv, WritesTypes, LoopInv, ExactInv, DeleteRow
  <1>1. /\ Selected' = Selected /\ op' = op /\ source' = source /\ before' = before /\ repeat' = repeat
        /\ Visited' = Visited /\ Collected' = Collected /\ ChunkRows' = ChunkRows
    BY <1>0 DEF Selected, statement, Visited, Key, Collected, ChunkRows
  <1>2. row \in Nat \ {0} /\ Len(rowids) \in Nat
    BY <1>0 DEF MovingInv, LoopInv
  <1> DEFINE gone == {rowids[i] : i \in 1..(row - 1)}
  <1>3. target = Restrict(source, DOMAIN source \ gone)
    BY <1>0 DEF ExactInv, DeleteInv
  <1>4. {rowids[i] : i \in 1..((row + 1) - 1)} = gone \cup {rowids[row]}
    BY <1>2
  <1>5. target' = Restrict(source, DOMAIN source \ (gone \cup {rowids[row]}))
    <2> HIDE DEF gone
    <2> QED BY <1>0, <1>3 DEF Restrict
  <1>6. ScanInv'
    BY <1>0, <1>1 DEF ScanInv
  <1>7. FirstChunkInv' /\ UpdateInv' /\ InsertInv'
    BY <1>0, <1>1 DEF FirstChunkInv, UpdateInv, InsertInv
  <1>8. DeleteInv'
    BY <1>0, <1>1, <1>4, <1>5, Zenon DEF ExactInv, DeleteInv
  <1>9. QED
    BY <1>6, <1>7, <1>8 DEF ExactInv

(* All collected rows are deleted, and counted.                             *)
LEMMA ExactCountRowIds ==
  ASSUME RowWritesInv, Steady, CountRowIds
  PROVE  ExactInv'
  <1>0. /\ ExactInv /\ FixedInv /\ MovingInv /\ LoopInv /\ ScanInv
        /\ op = "delete" /\ phase = "write" /\ row > Len(rowids) /\ count' = Len(rowids)
        /\ phase' = "result"
        /\ UNCHANGED <<statement, target, cursor, done, chunk, row, rowids>>
    BY DEF RowWritesInv, WritesTypes, LoopInv, ExactInv, CountRowIds
  <1>1. /\ Visited' = Visited /\ ChunkRows' = ChunkRows /\ Pending' = Pending /\ Collected' = Collected
        /\ Selected' = Selected /\ op' = op /\ source' = source /\ before' = before /\ repeat' = repeat
    BY <1>0, SameRows
  <1>2. row - 1 = Len(rowids)
    BY <1>0 DEF LoopInv, MovingInv
  <1>3. Collected \cup ChunkRows = Visited /\ Visited = Selected /\ chunk = <<>>
    BY <1>0 DEF ExactInv, DeleteInv, ScanInv
  <1>4. ChunkRows = {}
    BY <1>3 DEF ChunkRows
  <1>5. target = Restrict(source, DOMAIN source \ Selected)
    <2>1. target = Restrict(source, DOMAIN source \ {rowids[i] : i \in 1..(row - 1)})
      BY <1>0 DEF ExactInv, DeleteInv
    <2>2. {rowids[i] : i \in 1..(row - 1)} = Selected
      BY <1>2, <1>3, <1>4 DEF Collected
    <2>3. QED
      BY <2>1, <2>2
  <1>6. ScanInv'
    BY <1>0, <1>1 DEF ScanInv
  <1>7. FirstChunkInv' /\ UpdateInv' /\ InsertInv'
    BY <1>0, <1>1 DEF FirstChunkInv, UpdateInv, InsertInv
  <1>8. DeleteInv'
    BY <1>0, <1>1, <1>5 DEF ExactInv, DeleteInv
  <1>9. QED
    BY <1>6, <1>7, <1>8 DEF ExactInv

(* The count that is returned is the one that was made.                     *)
LEMMA ExactGetData ==
  ASSUME RowWritesInv, Steady, GetData
  PROVE  ExactInv'
  <1>0. /\ ExactInv /\ phase = "result" /\ phase' = "done"
        /\ UNCHANGED <<statement, target, cursor, done, chunk, row, rowids, count>>
    BY DEF RowWritesInv, GetData
  <1>1. /\ Visited' = Visited /\ ChunkRows' = ChunkRows /\ Pending' = Pending /\ Collected' = Collected
        /\ Selected' = Selected /\ op' = op /\ source' = source /\ before' = before /\ repeat' = repeat
    BY <1>0, SameRows
  <1>2. ScanInv'
    BY <1>0, <1>1 DEF ExactInv, ScanInv
  <1>3. FirstChunkInv' /\ UpdateInv'
    BY <1>0, <1>1 DEF ExactInv, FirstChunkInv, UpdateInv
  <1>4. InsertInv'
    BY <1>0, <1>1 DEF ExactInv, InsertInv, WithValue
  <1>5. DeleteInv'
    BY <1>0, <1>1 DEF ExactInv, DeleteInv
  <1>6. QED
    BY <1>2, <1>3, <1>4, <1>5 DEF ExactInv

(* Every step of a statement keeps the invariant.                           *)
LEMMA RowWritesInductive == RowWritesInv /\ [Next]_vars => RowWritesInv'
  <1> SUFFICES ASSUME RowWritesInv, [Next]_vars
               PROVE  RowWritesInv'
    OBVIOUS
  <1>1. WritesTypes' /\ FixedInv
    BY TypesKept DEF RowWritesInv, WritesTypes
  <1>2. CASE UNCHANGED vars
    <2>1. UNCHANGED <<statement, target, cursor, done, chunk, row, rowids, count, phase>>
      BY <1>2 DEF vars, statement
    <2>2. /\ Visited' = Visited /\ ChunkRows' = ChunkRows /\ Pending' = Pending /\ Collected' = Collected
          /\ Selected' = Selected /\ op' = op /\ source' = source /\ before' = before /\ repeat' = repeat
          /\ Steady' = Steady
      BY <1>1, <2>1, SameRows, FixedStays
    <2>3. ExactInv => ExactInv'
      <3>1. ScanInv => ScanInv'
        BY <2>1, <2>2 DEF ScanInv
      <3>2. FirstChunkInv /\ UpdateInv => FirstChunkInv' /\ UpdateInv'
        BY <2>1, <2>2 DEF FirstChunkInv, UpdateInv
      <3>3. InsertInv => InsertInv'
        BY <2>1, <2>2 DEF InsertInv, WithValue
      <3>4. DeleteInv => DeleteInv'
        BY <2>1, <2>2 DEF DeleteInv
      <3>5. QED
        BY <3>1, <3>2, <3>3, <3>4 DEF ExactInv
    <2>4. QED
      BY <1>1, <2>1, <2>2, <2>3 DEF RowWritesInv
  <1>3. CASE Next
    <2>1. UNCHANGED statement
      BY <1>3, Zenon DEF Next, Plan, ScanStep, Fail, InsertRow, UpdateRow, CountChunk, CollectRowIds, DeleteRow,
                  CountRowIds, GetData
    <2>2. Steady' = Steady
      BY <1>1, <2>1, FixedStays
    <2>3. CASE Fail
      BY <1>1, <2>3 DEF Fail, RowWritesInv
    <2>4. CASE ~Fail /\ Steady /\ phase' # "failed"
      <3>1. ExactInv'
        BY <1>3, <2>4, ExactPlan, ExactScan, ExactInsertRow, ExactUpdateRow, ExactCountChunk,
           ExactCollectRowIds, ExactDeleteRow, ExactCountRowIds, ExactGetData DEF Next
      <3>2. QED
        BY <1>1, <3>1 DEF RowWritesInv
    <2>5. QED
      BY <1>1, <2>2, <2>3, <2>4 DEF RowWritesInv
  <1>4. QED
    BY <1>2, <1>3

(* It holds in every state of every behaviour.                              *)
LEMMA RowWritesInvariant == Spec => []RowWritesInv
  <1>1. Init => RowWritesInv
    BY ExactStart
  <1>2. QED
    BY <1>1, RowWritesInductive, PTL DEF Spec

(* The types that the proofs use imply those that the runs check.           *)
LEMMA WritesTypeOK == WritesTypes => TypeOK
  <1> SUFFICES ASSUME WritesTypes
               PROVE  TypeOK
    OBVIOUS
  <1>1. FixedInv /\ MovingInv /\ LoopInv
    BY DEF WritesTypes
  <1>2. row \in 1..(Max({Len(chunk), Len(rowids)}) + 1)
    <2>1. Len(chunk) \in Nat /\ Len(rowids) \in Nat
      BY <1>1 DEF MovingInv
    <2>2. PICK m : m = Max({Len(chunk), Len(rowids)})
      OBVIOUS
    <2>3. m \in Nat /\ m >= Len(chunk) /\ m >= Len(rowids)
      BY <2>1, <2>2, MaxPair
    <2>4. row \in Nat \ {0} /\ (row <= Len(chunk) + 1 \/ row <= Len(rowids) + 1)
      BY <1>1 DEF LoopInv
    <2>5. row \in 1..(m + 1)
      BY <2>1, <2>3, <2>4
    <2>6. QED
      BY <2>2, <2>5
  <1>3. \A i \in DOMAIN chunk : chunk[i] \in (1..MaxRowId) \X (0..MaxValue)
    BY <1>1 DEF MovingInv
  <1>4. before \in Tables \cup {Empty} /\ {same, shared, done} \subseteq BOOLEAN
    BY <1>1 DEF FixedInv, MovingInv
  <1>5. DOMAIN target \subseteq 1..MaxRowId /\ \A r \in DOMAIN target : target[r] \in 0..MaxValue
    BY <1>1 DEF MovingInv, IsTable
  <1>6. QED
    BY <1>1, <1>2, <1>3, <1>4, <1>5, Zenon DEF TypeOK, FixedInv, MovingInv

(* What the invariant says when a statement is done.                        *)
LEMMA DoneMeans ==
  ASSUME RowWritesInv, Steady, phase = "done"
  PROVE  Meant
  <1>0. ExactInv /\ FixedInv /\ MovingInv
    BY DEF RowWritesInv, WritesTypes
  <1>1. chunk = <<>> /\ Visited = Selected
    BY <1>0, Zenon DEF ExactInv, ScanInv
  <1>2. Len(chunk) = 0 /\ row \in Nat \ {0}
    BY <1>1 DEF RowWritesInv, WritesTypes, LoopInv
  <1>3. Pending = {}
    BY <1>2 DEF Pending
  <1>4. Cardinality(Selected) \in Nat /\ count \in Nat /\ Len(rowids) \in Nat
    BY <1>0, FiniteSelection DEF MovingInv
  <1>5. CASE op = "delete"
    <2>1. before = source
      BY <1>0, <1>5 DEF FixedInv
    <2>2. /\ Len(rowids) + Len(chunk) = repeat * Cardinality(Visited) /\ count = Len(rowids)
          /\ target = Restrict(source, DOMAIN source \ Selected)
      BY <1>0, <1>5 DEF ExactInv, DeleteInv
    <2>3. repeat = 1 => count = Cardinality(Selected)
      BY <1>1, <1>2, <1>4, <2>2
    <2>4. QED
      BY <1>5, <2>1, <2>2, <2>3 DEF Meant
  <1>6. CASE op = "update"
    <2>1. before = source
      BY <1>0, <1>6 DEF FixedInv
    <2>2. target = [r \in DOMAIN source |-> IF r \in Selected THEN source[r] + Added ELSE source[r]]
      BY <1>0, <1>1, <1>3, <1>6 DEF ExactInv, UpdateInv
    <2>3. count = Cardinality(Selected)
      BY <1>0, <1>1, <1>2, <1>4, <1>6 DEF ExactInv, ScanInv
    <2>4. QED
      BY <1>6, <2>1, <2>2, <2>3 DEF Meant
  <1>7. CASE op \in {"insert", "create"}
    <2>1. count = Cardinality(Selected)
      BY <1>0, <1>1, <1>2, <1>4, <1>7 DEF ExactInv, ScanInv
    <2>2. Restrict(target, DOMAIN before) = before
      <3>1. IsTable(before)
        BY <1>0, TablesSeen
      <3>2. before = [r \in DOMAIN before |-> before[r]]
        BY <3>1 DEF IsTable
      <3>3. \A r \in DOMAIN before : target[r] = before[r]
        BY <1>0, <1>7 DEF ExactInv, InsertInv
      <3>4. QED
        BY <3>2, <3>3 DEF Restrict
    <2>3. \A v \in 0..MaxValue :
             Cardinality({r \in DOMAIN target \ DOMAIN before : target[r] = v})
               = Cardinality({r \in Selected : source[r] = v})
      <3>1. Visited \ Pending = Selected
        BY <1>1, <1>3
      <3>2. QED
        BY <1>0, <1>7, <3>1 DEF ExactInv, InsertInv, WithValue
    <2>4. op # "update" /\ op # "delete"
      BY <1>7
    <2>5. QED
      BY <2>1, <2>2, <2>3, <2>4 DEF Meant
  <1>8. QED
    BY <1>0, <1>5, <1>6, <1>7 DEF FixedInv

(* DELETE removes exactly the rows that its scan selects, for every table,  *)
(* condition, chunk size and order of the scan, on the connection that      *)
(* deletes or on another one, and however often a join repeats a row.       *)
THEOREM DeletesWhatWasScanned == Spec => []DeleteExact
  <1>1. RowWritesInv => DeleteExact
    BY WritesTypeOK, DoneMeans DEF RowWritesInv, DeleteExact, Steady
  <1>2. QED
    BY <1>1, RowWritesInvariant, PTL

(* INSERT, UPDATE and CREATE TABLE AS handle every selected row once when   *)
(* the scan cannot see the writes: from another table or connection, by     *)
(* keys that do not change, or within its first chunk.                      *)
THEOREM WritesWhatWasScanned == Spec => []SeparateWritesExact
  <1>1. RowWritesInv => SeparateWritesExact
    BY DoneMeans DEF SeparateWritesExact, Steady
  <1>2. QED
    BY <1>1, RowWritesInvariant, PTL
=============================================================================
