------------------------- MODULE ParallelScanProofs -------------------------
(***************************************************************************)
(* For every table, number of threads, row group size and interleaving:    *)
(* the slices of a parallel scan hand out each row exactly once.           *)
(***************************************************************************)
EXTENDS ParallelScan, TLAPS

\* The first row id the slices start from.
Start == IF parallel /\ min_rowid > 0 THEN min_rowid - 1 ELSE 0

Claimed(r) == IF parallel THEN r < position ELSE position > 0

\* What bind established about the range of the row ids.
BoundRange ==
    (phase # "bind" /\ parallel) =>
        /\ min_rowid \in RowIds /\ max_rowid \in RowIds
        /\ 0 <= min_rowid /\ min_rowid < max_rowid
        /\ max_rowid - min_rowid < MaxRows
        /\ \A r \in rows : min_rowid <= r /\ r <= max_rowid

\* The slices handed out so far end just before position, and a slice other
\* than the last is no longer than everything handed out.
SliceFrontier ==
    phase = "scan" =>
        IF parallel
        THEN /\ Start <= position /\ position <= max_rowid + 1
             /\ 0 < rows_per_group
             /\ rows_per_group <= 2 * MaxRows + RowsPerGroup
             /\ (Start < position /\ position <= max_rowid)
                    => rows_per_group <= position - Start
             /\ \A t \in Threads : ~scanned[t] => Start < position
        ELSE position \in {0, IdxMax}

\* Before the global state exists no thread has started.
NothingBeforeScan ==
    phase # "scan" =>
        /\ launched = {}
        /\ position = 0
        /\ \A t \in Threads : scanned[t]
        /\ \A r \in RowIds : delivered[r] = 0

\* Only a thread with an open statement, or one that failed, holds rows.
IdleHoldsNothing ==
    \A t \in Threads :
        /\ t \notin launched => status[t] = "new"
        /\ status[t] \in {"new", "done", "finished"} => pending[t] = {} /\ chunk[t] = {}
        /\ status[t] = "finished" => NoSliceLeft

\* A row is at one place only: unclaimed, held by one thread, or delivered.
OnePlace ==
    /\ \A t \in Threads : \A r \in RowIds :
         /\ r \in pending[t] =>
              /\ r \in sqlMatch /\ Claimed(r) /\ delivered[r] = 0
              /\ \A u \in Threads : r \notin chunk[u]
              /\ \A u \in Threads : u # t => r \notin pending[u]
         /\ r \in chunk[t] =>
              /\ r \in sqlMatch /\ Claimed(r) /\ delivered[r] = 0
              /\ \A u \in Threads : u # t => r \notin chunk[u]
    /\ \A r \in RowIds :
         /\ delivered[r] \in {0, 1}
         /\ delivered[r] = 1 => r \in residualMatch /\ Claimed(r)

\* A claimed row that passes the filters is delivered, held, or lost to an error.
NoneLost ==
    \A r \in residualMatch :
        Claimed(r) =>
            \/ delivered[r] = 1
            \/ \E t \in Threads : r \in pending[t] \/ r \in chunk[t]
            \/ \E t \in launched : status[t] = "error"

LaunchedSome == phase = "scan" => launched # {}

IInv ==
    /\ ScanTypeOK
    /\ BoundRange
    /\ SliceFrontier
    /\ NothingBeforeScan
    /\ LaunchedSome
    /\ IdleHoldsNothing
    /\ OnePlace
    /\ NoneLost
-----------------------------------------------------------------------------
USE RowIdsAssumption, GroupAssumption, IdxAssumption

\* SqliteClaimNextSlice: the slice is not empty, stays within the range, and its
\* arithmetic does not wrap.
LEMMA SliceBounds ==
    ASSUME ScanTypeOK, BoundRange, SliceFrontier, phase = "scan", parallel, ~NoSliceLeft,
           NEW t \in Threads
    PROVE  /\ NextRowsPerGroup(t) \in Nat
           /\ 0 < NextRowsPerGroup(t)
           /\ NextRowsPerGroup(t) <= 2 * MaxRows + RowsPerGroup
           /\ NextRowsPerGroup(t) =
                 IF Doubles(t) THEN 2 * rows_per_group ELSE rows_per_group
           /\ position + NextRowsPerGroup(t) < IdxMod
           /\ SliceEnd(t) \in Int
           /\ position <= SliceEnd(t)
           /\ SliceEnd(t) <= max_rowid
           /\ SliceEnd(t) + 1 <= max_rowid =>
                 NextRowsPerGroup(t) = SliceEnd(t) + 1 - position
<1> DEFINE n == IF Doubles(t) THEN 2 * rows_per_group ELSE rows_per_group
<1>1. /\ position \in Nat /\ rows_per_group \in Nat /\ max_rowid \in Int /\ min_rowid \in Int
      /\ max_rowid \in RowIds
      /\ Start \in Int /\ max_rowid - Start <= MaxRows
      /\ position <= max_rowid
  BY DEF ScanTypeOK, BoundRange, Start, NoSliceLeft
<1>2. scanned[t] \in BOOLEAN
  BY DEF ScanTypeOK
<1>3. Doubles(t) => rows_per_group <= max_rowid - Start
  BY <1>1, <1>2 DEF Doubles, SliceFrontier
<1>4. n \in Nat /\ 0 < n /\ n <= 2 * MaxRows + RowsPerGroup
  BY <1>1, <1>3 DEF SliceFrontier
<1>5. max_rowid + 2 * MaxRows + RowsPerGroup + 1 < IdxMod
  BY <1>1
<1>6. position + n < IdxMod
  BY <1>1, <1>4, <1>5
<1>7. NextRowsPerGroup(t) = n
  BY <1>1, <1>4, <1>6 DEF NextRowsPerGroup, Idx
<1>8. SliceEnd(t) = IF max_rowid < position + n - 1 THEN max_rowid ELSE position + n - 1
  BY <1>1, <1>4, <1>6, <1>7 DEF SliceEnd, Idx, SmallerOf
<1> HIDE DEF n
<1>9. QED
  BY <1>1, <1>4, <1>6, <1>7, <1>8 DEF n

\* A step that fixes the slices leaves table, bound range and phase alone.
LEMMA ClaimPreserves ==
    ASSUME IInv, phase = "scan", NEW t \in launched,
           status[t] \in {"new", "done"},
           ClaimNextSlice(t), UNCHANGED <<table, phase, bound>>
    PROVE  IInv'
<1>0. t \in Threads /\ pending[t] = {} /\ chunk[t] = {}
  BY DEF IInv, ScanTypeOK, IdleHoldsNothing
<1>1. /\ UNCHANGED <<rows, sqlMatch, residualMatch, hasRowId, useGlobalDB,
                     phase, parallel, min_rowid, max_rowid, launched, chunk, delivered>>
      /\ scanned' = [scanned EXCEPT ![t] = FALSE]
      /\ status' = [status EXCEPT ![t] = "scanning"]
      /\ ~NoSliceLeft
  BY DEF ClaimNextSlice, table, bound
<1>2. CASE parallel
  <2> DEFINE S == {r \in sqlMatch : position <= r /\ r <= SliceEnd(t)}
  <2>1. /\ rows_per_group' = NextRowsPerGroup(t)
        /\ position' = SliceEnd(t) + 1
        /\ pending' = [pending EXCEPT ![t] = S]
    BY <1>2 DEF ClaimNextSlice, PositionAfterSlice
  <2>2. /\ NextRowsPerGroup(t) \in Nat /\ 0 < NextRowsPerGroup(t)
        /\ NextRowsPerGroup(t) <= 2 * MaxRows + RowsPerGroup
        /\ SliceEnd(t) \in Int /\ position <= SliceEnd(t) /\ SliceEnd(t) <= max_rowid
        /\ SliceEnd(t) + 1 <= max_rowid =>
              NextRowsPerGroup(t) = SliceEnd(t) + 1 - position
    BY <1>0, <1>1, <1>2, SliceBounds DEF IInv
  <2>3. position \in Nat /\ max_rowid \in Int /\ position <= max_rowid
    BY <1>1, <1>2 DEF IInv, ScanTypeOK, NoSliceLeft
  <2>4. S \subseteq sqlMatch /\ S \subseteq RowIds
    BY DEF IInv, ScanTypeOK
  <2>5. \A r \in RowIds : r \in S <=> r \in sqlMatch /\ ~Claimed(r) /\ Claimed(r)'
    BY <1>1, <1>2, <2>1, <2>2, <2>3, <2>4 DEF Claimed, IInv, ScanTypeOK
  <2>6. \A r \in RowIds : Claimed(r) => Claimed(r)'
    BY <1>1, <1>2, <2>1, <2>2, <2>3 DEF Claimed
  <2> HIDE DEF S
  <2>7. ScanTypeOK'
    BY <1>0, <1>1, <2>1, <2>2, <2>3, <2>4 DEF IInv, ScanTypeOK
  <2>8. BoundRange'
    BY <1>1 DEF IInv, BoundRange
  <2>9. SliceFrontier'
    <3>1. Start' = Start /\ Start \in Int /\ Start <= position
      BY <1>1, <1>2 DEF Start, IInv, SliceFrontier, ScanTypeOK
    <3>2. \A u \in Threads : Start' < position'
      BY <2>1, <2>2, <2>3, <3>1
    <3>3. QED
      BY <1>1, <1>2, <2>1, <2>2, <2>3, <3>1, <3>2 DEF IInv, SliceFrontier
  <2>10. NothingBeforeScan' /\ LaunchedSome'
    BY <1>1 DEF IInv, NothingBeforeScan, LaunchedSome
  <2>11. IdleHoldsNothing'
    <3>1. \A u \in Threads : status'[u] = "finished" => NoSliceLeft
      BY <1>0, <1>1 DEF IInv, ScanTypeOK, IdleHoldsNothing
    <3>2. QED
      BY <1>0, <1>1, <2>1, <3>1 DEF IInv, ScanTypeOK, IdleHoldsNothing
  <2>12. OnePlace'
    <3>1. ASSUME NEW u \in Threads, NEW r \in RowIds, r \in pending'[u]
          PROVE  /\ r \in sqlMatch /\ Claimed(r)' /\ delivered[r] = 0
                 /\ \A v \in Threads : r \notin chunk[v]
                 /\ \A v \in Threads : v # u => r \notin pending'[v]
      <4>1. CASE r \in S
        <5>1. /\ \A v \in Threads : r \notin pending[v] /\ r \notin chunk[v]
              /\ delivered[r] = 0
          BY <2>5, <4>1 DEF IInv, OnePlace, ScanTypeOK
        <5>2. u = t
          BY <1>0, <2>1, <3>1, <5>1 DEF IInv, ScanTypeOK
        <5>3. QED
          BY <1>0, <2>1, <2>5, <4>1, <5>1, <5>2 DEF IInv, ScanTypeOK
      <4>2. CASE r \notin S
        <5>1. u # t /\ r \in pending[u]
          BY <1>0, <2>1, <3>1, <4>2 DEF IInv, ScanTypeOK
        <5>2. QED
          BY <1>0, <2>1, <2>6, <4>2, <5>1 DEF IInv, OnePlace, ScanTypeOK
      <4>3. QED
        BY <4>1, <4>2
    <3>2. ASSUME NEW u \in Threads, NEW r \in RowIds, r \in chunk[u]
          PROVE  /\ r \in sqlMatch /\ Claimed(r)' /\ delivered[r] = 0
                 /\ \A v \in Threads : v # u => r \notin chunk[v]
      BY <2>6, <3>2 DEF IInv, OnePlace
    <3>3. \A r \in RowIds : /\ delivered[r] \in {0, 1}
                            /\ delivered[r] = 1 => r \in residualMatch /\ Claimed(r)'
      BY <2>6 DEF IInv, OnePlace
    <3>4. QED
      BY <1>1, <3>1, <3>2, <3>3 DEF OnePlace
  <2>13. NoneLost'
    <3>1. ASSUME NEW r \in residualMatch, Claimed(r)'
          PROVE  \/ delivered[r] = 1
                 \/ \E u \in Threads : r \in pending'[u] \/ r \in chunk[u]
                 \/ \E u \in launched : status'[u] = "error"
      <4>1. r \in sqlMatch /\ r \in RowIds
        BY DEF IInv, ScanTypeOK
      <4>2. CASE ~Claimed(r)
        <5>1. r \in S
          BY <2>5, <3>1, <4>1, <4>2
        <5>2. r \in pending'[t]
          BY <1>0, <2>1, <5>1 DEF IInv, ScanTypeOK
        <5>3. QED
          BY <1>0, <5>2
      <4>3. CASE Claimed(r)
        <5>1. \/ delivered[r] = 1
              \/ \E u \in Threads : r \in pending[u] \/ r \in chunk[u]
              \/ \E u \in launched : status[u] = "error"
          BY <4>3 DEF IInv, NoneLost
        <5>2. \A u \in Threads : r \in pending[u] => r \in pending'[u]
          BY <1>0, <2>1 DEF IInv, ScanTypeOK
        <5>3. \A u \in launched : status[u] = "error" => status'[u] = "error"
          BY <1>0, <1>1 DEF IInv, ScanTypeOK
        <5>4. QED
          BY <5>1, <5>2, <5>3
      <4>4. QED
        BY <4>2, <4>3
    <3>2. QED
      BY <1>1, <3>1 DEF NoneLost
  <2>14. QED
    BY <2>7, <2>8, <2>9, <2>10, <2>11, <2>12, <2>13 DEF IInv
<1>3. CASE ~parallel
  <2>1. /\ position' = IdxMax
        /\ rows_per_group' = rows_per_group
        /\ pending' = [pending EXCEPT ![t] = sqlMatch]
        /\ position = 0
    BY <1>3 DEF ClaimNextSlice, NoSliceLeft, IInv, ScanTypeOK
  <2>2. IdxMax \in Nat /\ IdxMax > 0
    BY DEF IdxMax
  <2>3. \A r \in RowIds : ~Claimed(r) /\ Claimed(r)'
    BY <1>1, <1>3, <2>1, <2>2 DEF Claimed
  <2>4. sqlMatch \subseteq RowIds
    BY DEF IInv, ScanTypeOK
  <2>5. \A u \in Threads : pending[u] = {} /\ chunk[u] = {}
    BY <2>3 DEF IInv, OnePlace, ScanTypeOK
  <2>6. \A r \in RowIds : delivered[r] = 0
    BY <2>3 DEF IInv, OnePlace
  <2>7. ScanTypeOK'
    BY <1>0, <1>1, <2>1, <2>2, <2>4 DEF IInv, ScanTypeOK
  <2>8. BoundRange' /\ SliceFrontier' /\ NothingBeforeScan' /\ LaunchedSome'
    BY <1>1, <1>3, <2>1 DEF IInv, BoundRange, SliceFrontier, NothingBeforeScan, LaunchedSome
  <2>9. IdleHoldsNothing'
    <3>1. \A u \in Threads : status[u] # "finished"
      BY <1>1 DEF IInv, IdleHoldsNothing
    <3>2. QED
      BY <1>0, <1>1, <2>1, <3>1 DEF IInv, ScanTypeOK, IdleHoldsNothing
  <2>10. \A u \in Threads : pending'[u] = IF u = t THEN sqlMatch ELSE {}
    BY <1>0, <2>1, <2>5 DEF IInv, ScanTypeOK
  <2>11. OnePlace'
    BY <1>0, <1>1, <2>3, <2>5, <2>6, <2>10 DEF OnePlace
  <2>12. NoneLost'
    BY <1>0, <1>1, <2>10 DEF NoneLost, IInv, ScanTypeOK
  <2>13. QED
    BY <2>7, <2>8, <2>9, <2>11, <2>12 DEF IInv
<1>4. QED
  BY <1>2, <1>3 DEF IInv, ScanTypeOK

\* A claim whose statement cannot be prepared fails the query: what it claimed
\* is accounted for by the error.
LEMMA ClaimFailPreserves ==
    ASSUME IInv, phase = "scan", NEW t \in launched,
           status[t] \in {"new", "done"},
           ClaimThenFail(t), UNCHANGED <<table, phase, bound>>
    PROVE  IInv'
<1>0. t \in Threads
  BY DEF IInv, ScanTypeOK
<1>1. /\ UNCHANGED <<rows, sqlMatch, residualMatch, hasRowId, useGlobalDB,
                     phase, parallel, min_rowid, max_rowid, launched, pending, chunk, delivered>>
      /\ scanned' = [scanned EXCEPT ![t] = FALSE]
      /\ status' = [status EXCEPT ![t] = "error"]
      /\ ~NoSliceLeft
  BY DEF ClaimThenFail, table, bound
<1>2. ScanTypeOK' /\ SliceFrontier' /\ position < position'
  <2>1. CASE parallel
    <3>1. /\ rows_per_group' = NextRowsPerGroup(t)
          /\ position' = SliceEnd(t) + 1
      BY <2>1 DEF ClaimThenFail, PositionAfterSlice
    <3>2. /\ NextRowsPerGroup(t) \in Nat /\ 0 < NextRowsPerGroup(t)
          /\ NextRowsPerGroup(t) <= 2 * MaxRows + RowsPerGroup
          /\ SliceEnd(t) \in Int /\ position <= SliceEnd(t) /\ SliceEnd(t) <= max_rowid
          /\ SliceEnd(t) + 1 <= max_rowid =>
                NextRowsPerGroup(t) = SliceEnd(t) + 1 - position
      BY <1>0, <1>1, <2>1, SliceBounds DEF IInv
    <3>3. position \in Nat /\ max_rowid \in Int
      BY DEF IInv, ScanTypeOK
    <3>4. Start' = Start /\ Start \in Int /\ Start <= position
      BY <1>1, <2>1 DEF Start, IInv, SliceFrontier, ScanTypeOK
    <3>5. SliceFrontier'
      BY <1>1, <2>1, <3>1, <3>2, <3>3, <3>4 DEF IInv, SliceFrontier
    <3>6. QED
      BY <1>0, <1>1, <3>1, <3>2, <3>3, <3>5 DEF IInv, ScanTypeOK
  <2>2. CASE ~parallel
    <3>1. /\ rows_per_group' = rows_per_group
          /\ position' = IdxMax
          /\ position = 0
      BY <2>2 DEF ClaimThenFail, NoSliceLeft, IInv, ScanTypeOK
    <3>2. IdxMax \in Nat /\ IdxMax > 0
      BY DEF IdxMax
    <3>3. QED
      BY <1>0, <1>1, <2>2, <3>1, <3>2 DEF IInv, ScanTypeOK, SliceFrontier
  <2>3. QED
    BY <2>1, <2>2 DEF IInv, ScanTypeOK
<1>3. \A r \in RowIds : Claimed(r) => Claimed(r)'
  BY <1>1, <1>2 DEF Claimed, IInv, ScanTypeOK
<1>4. BoundRange' /\ NothingBeforeScan' /\ LaunchedSome'
  BY <1>1 DEF IInv, BoundRange, NothingBeforeScan, LaunchedSome
<1>5. IdleHoldsNothing'
  <2>1. \A u \in Threads : status[u] # "finished"
    BY <1>1 DEF IInv, IdleHoldsNothing
  <2>2. QED
    BY <1>0, <1>1, <2>1 DEF IInv, ScanTypeOK, IdleHoldsNothing
<1>6. OnePlace'
  BY <1>1, <1>3 DEF IInv, OnePlace
<1>7. NoneLost'
  <2>1. status'[t] = "error" /\ t \in launched'
    BY <1>0, <1>1 DEF IInv, ScanTypeOK
  <2>2. QED
    BY <2>1 DEF NoneLost
<1>8. QED
  BY <1>2, <1>4, <1>5, <1>6, <1>7 DEF IInv

\* A thread only has a statement once the global state exists.
LEMMA StartedInScan ==
    ASSUME IInv, NEW t \in Threads, status[t] # "new"
    PROVE  phase = "scan" /\ t \in launched
BY DEF IInv, ScanTypeOK, IdleHoldsNothing, NothingBeforeScan

\* Handing out a chunk moves its rows from the thread to the result.
LEMMA DeliverPreserves ==
    ASSUME IInv, NEW t \in Threads, DeliverChunk(t), status[t] = "scanning",
           UNCHANGED <<table, phase, bound, gstate, scanned, pending>>,
           \/ UNCHANGED status
           \/ pending[t] = {} /\ status' = [status EXCEPT ![t] = "done"]
    PROVE  IInv'
<1>1. /\ UNCHANGED <<rows, sqlMatch, residualMatch, hasRowId, useGlobalDB, phase, parallel,
                     min_rowid, max_rowid, position, rows_per_group, launched, scanned, pending>>
      /\ chunk' = [chunk EXCEPT ![t] = {}]
      /\ phase = "scan"
  BY StartedInScan DEF table, bound, gstate, DeliverChunk
<1>2. delivered' = [r \in RowIds |->
                       IF r \in chunk[t] /\ r \in residualMatch
                       THEN delivered[r] + 1 ELSE delivered[r]]
  BY DEF DeliverChunk
<1>3. \A r \in RowIds : delivered'[r] =
          IF r \in chunk[t] /\ r \in residualMatch THEN 1 ELSE delivered[r]
  BY <1>2 DEF IInv, OnePlace
<1>4. \A u \in Threads : chunk'[u] = IF u = t THEN {} ELSE chunk[u]
  BY <1>1 DEF IInv, ScanTypeOK
<1>5. ScanTypeOK'
  <2>1. delivered' \in [RowIds -> Nat]
    BY <1>2 DEF IInv, ScanTypeOK
  <2>2. chunk' \in [Threads -> SUBSET RowIds]
    BY <1>1 DEF IInv, ScanTypeOK
  <2>3. status' \in [Threads -> {"new", "scanning", "done", "finished", "error"}]
    BY DEF IInv, ScanTypeOK
  <2>4. QED
    BY <1>1, <2>1, <2>2, <2>3 DEF IInv, ScanTypeOK
<1>6. BoundRange' /\ NothingBeforeScan' /\ LaunchedSome'
  BY <1>1 DEF IInv, BoundRange, NothingBeforeScan, LaunchedSome
<1>7. SliceFrontier'
  BY <1>1 DEF IInv, SliceFrontier, Start
<1>8. t \in launched
  BY StartedInScan
<1>9. IdleHoldsNothing'
  BY <1>1, <1>4, <1>8 DEF IInv, ScanTypeOK, IdleHoldsNothing, NoSliceLeft
<1>10. \A r : Claimed(r)' = Claimed(r)
  BY <1>1 DEF Claimed
<1>11. OnePlace'
  <2>1. \A r \in RowIds : /\ delivered'[r] \in {0, 1}
                          /\ delivered'[r] = 1 => r \in residualMatch /\ Claimed(r)
    BY <1>3 DEF IInv, OnePlace
  <2>2. \A u \in Threads : \A r \in RowIds :
           r \in pending[u] \/ r \in chunk'[u] => r \notin chunk[t]
    BY <1>4 DEF IInv, OnePlace
  <2>3. \A u \in Threads : \A r \in RowIds :
           r \in pending[u] \/ r \in chunk'[u] => delivered'[r] = 0
    BY <1>3, <1>4, <2>2 DEF IInv, OnePlace
  <2>4. \A u \in Threads : chunk'[u] \subseteq chunk[u]
    BY <1>4
  <2>5. ASSUME NEW u \in Threads, NEW r \in RowIds, r \in pending[u]
        PROVE  /\ r \in sqlMatch /\ Claimed(r) /\ delivered'[r] = 0
               /\ \A v \in Threads : r \notin chunk'[v]
               /\ \A v \in Threads : v # u => r \notin pending[v]
    BY <2>3, <2>4, <2>5 DEF IInv, OnePlace
  <2>6. ASSUME NEW u \in Threads, NEW r \in RowIds, r \in chunk'[u]
        PROVE  /\ r \in sqlMatch /\ Claimed(r) /\ delivered'[r] = 0
               /\ \A v \in Threads : v # u => r \notin chunk'[v]
    BY <2>3, <2>4, <2>6 DEF IInv, OnePlace
  <2>7. QED
    BY <1>1, <1>10, <2>1, <2>5, <2>6 DEF OnePlace
<1>12. NoneLost'
  <2>1. ASSUME NEW r \in residualMatch, Claimed(r)
        PROVE  \/ delivered'[r] = 1
               \/ \E u \in Threads : r \in pending[u] \/ r \in chunk'[u]
               \/ \E u \in launched : status'[u] = "error"
    <3>1. r \in RowIds
      BY DEF IInv, ScanTypeOK
    <3>2. \/ delivered[r] = 1
          \/ \E u \in Threads : r \in pending[u] \/ r \in chunk[u]
          \/ \E u \in launched : status[u] = "error"
      BY <2>1 DEF IInv, NoneLost
    <3>3. delivered[r] = 1 => delivered'[r] = 1
      BY <1>3, <3>1
    <3>4. \A u \in Threads : r \in chunk[u] => delivered'[r] = 1 \/ r \in chunk'[u]
      BY <1>3, <1>4, <2>1, <3>1
    <3>5. \A u \in launched : status[u] = "error" => status'[u] = "error"
      BY DEF IInv, ScanTypeOK
    <3>6. QED
      BY <3>2, <3>3, <3>4, <3>5
  <2>2. QED
    BY <1>1, <1>10, <2>1 DEF NoneLost
<1>13. QED
  BY <1>5, <1>6, <1>7, <1>9, <1>11, <1>12 DEF IInv

\* A step of the statement moves one row from the statement to the chunk.
LEMMA StepRowPreserves ==
    ASSUME IInv, NEW t \in Threads, StepRow(t)
    PROVE  IInv'
<1>1. PICK r0 \in pending[t] :
         /\ pending' = [pending EXCEPT ![t] = @ \ {r0}]
         /\ chunk' = [chunk EXCEPT ![t] = @ \cup {r0}]
  BY DEF StepRow
<1>2. /\ UNCHANGED <<rows, sqlMatch, residualMatch, hasRowId, useGlobalDB, phase, parallel,
                     min_rowid, max_rowid, position, rows_per_group, launched, status, delivered>>
      /\ scanned' = [scanned EXCEPT ![t] = TRUE]
      /\ status[t] = "scanning"
      /\ phase = "scan"
  BY StartedInScan DEF StepRow, table, bound, gstate
<1>3. r0 \in RowIds
  BY DEF IInv, ScanTypeOK
<1>4. /\ \A u \in Threads : pending'[u] = IF u = t THEN pending[u] \ {r0} ELSE pending[u]
      /\ \A u \in Threads : chunk'[u] = IF u = t THEN chunk[u] \cup {r0} ELSE chunk[u]
  BY <1>1 DEF IInv, ScanTypeOK
<1>5. ScanTypeOK'
  BY <1>1, <1>2, <1>3 DEF IInv, ScanTypeOK
<1>6. BoundRange' /\ NothingBeforeScan' /\ LaunchedSome'
  BY <1>2 DEF IInv, BoundRange, NothingBeforeScan, LaunchedSome
<1>7. SliceFrontier'
  <2>1. \A u \in Threads : ~scanned'[u] => ~scanned[u]
    BY <1>2 DEF IInv, ScanTypeOK
  <2>2. QED
    BY <1>2, <2>1 DEF IInv, SliceFrontier, Start
<1>8. IdleHoldsNothing'
  BY <1>2, <1>4 DEF IInv, IdleHoldsNothing, NoSliceLeft
<1>9. \A r : Claimed(r)' = Claimed(r)
  BY <1>2 DEF Claimed
<1>10. OnePlace'
  <2>1. /\ r0 \in sqlMatch /\ Claimed(r0) /\ delivered[r0] = 0
        /\ \A u \in Threads : r0 \notin chunk[u]
        /\ \A u \in Threads : r0 \notin pending'[u]
    BY <1>3, <1>4 DEF IInv, OnePlace
  <2>2. ASSUME NEW u \in Threads, NEW r \in RowIds, r \in pending'[u]
        PROVE  /\ r \in sqlMatch /\ Claimed(r) /\ delivered[r] = 0
               /\ \A v \in Threads : r \notin chunk'[v]
               /\ \A v \in Threads : v # u => r \notin pending'[v]
    <3>1. r # r0 /\ r \in pending[u]
      BY <1>4, <2>1, <2>2
    <3>2. \A v \in Threads : r \in pending'[v] => r \in pending[v]
      BY <1>4
    <3>3. \A v \in Threads : r \in chunk'[v] => r \in chunk[v]
      BY <1>4, <3>1
    <3>4. QED
      BY <3>1, <3>2, <3>3 DEF IInv, OnePlace
  <2>3. ASSUME NEW u \in Threads, NEW r \in RowIds, r \in chunk'[u]
        PROVE  /\ r \in sqlMatch /\ Claimed(r) /\ delivered[r] = 0
               /\ \A v \in Threads : v # u => r \notin chunk'[v]
    <3>1. CASE r = r0
      BY <1>4, <2>1, <2>3, <3>1
    <3>2. CASE r # r0
      <4>1. r \in chunk[u]
        BY <1>4, <2>3, <3>2
      <4>2. \A v \in Threads : r \in chunk'[v] => r \in chunk[v]
        BY <1>4, <3>2
      <4>3. QED
        BY <4>1, <4>2 DEF IInv, OnePlace
    <3>3. QED
      BY <3>1, <3>2
  <2>4. QED
    BY <1>2, <1>9, <2>2, <2>3 DEF IInv, OnePlace
<1>11. NoneLost'
  <2>1. \A r : (\E u \in Threads : r \in pending[u] \/ r \in chunk[u])
                  => (\E u \in Threads : r \in pending'[u] \/ r \in chunk'[u])
    BY <1>4
  <2>2. QED
    BY <1>2, <1>9, <2>1 DEF IInv, NoneLost
<1>12. QED
  BY <1>5, <1>6, <1>7, <1>8, <1>10, <1>11 DEF IInv

\* A thread that stops, with an error or because no slice is left, keeps what
\* the others rely on.
LEMMA StopPreserves ==
    ASSUME IInv, NEW t \in launched, NEW s,
           \/ s = "error"
           \/ s \in {"done", "finished"} /\ NoSliceLeft /\ status[t] \in {"new", "done"},
           status' = [status EXCEPT ![t] = s], status[t] # "error",
           UNCHANGED <<table, phase, bound, gstate, scanned, pending, chunk, delivered>>
    PROVE  IInv'
<1>0. t \in Threads
  BY DEF IInv, ScanTypeOK
<1>1. /\ UNCHANGED <<rows, sqlMatch, residualMatch, hasRowId, useGlobalDB, phase, parallel,
                     min_rowid, max_rowid, position, rows_per_group, launched,
                     scanned, pending, chunk, delivered>>
      /\ phase = "scan"
  BY DEF table, bound, gstate, IInv, NothingBeforeScan
<1>2. \A u \in Threads : status'[u] = IF u = t THEN s ELSE status[u]
  BY DEF IInv, ScanTypeOK
<1>3. ScanTypeOK'
  BY <1>0, <1>1 DEF IInv, ScanTypeOK
<1>4. BoundRange' /\ NothingBeforeScan' /\ LaunchedSome'
  BY <1>1 DEF IInv, BoundRange, NothingBeforeScan, LaunchedSome
<1>5. SliceFrontier'
  BY <1>1 DEF IInv, SliceFrontier, Start
<1>6. IdleHoldsNothing'
  BY <1>1, <1>2 DEF IInv, IdleHoldsNothing, NoSliceLeft
<1>7. \A r : Claimed(r)' = Claimed(r)
  BY <1>1 DEF Claimed
<1>8. OnePlace'
  BY <1>1, <1>7 DEF IInv, OnePlace
<1>9. NoneLost'
  <2>1. launched \subseteq Threads
    BY DEF IInv, ScanTypeOK
  <2>2. \A u \in launched : status[u] = "error" => status'[u] = "error"
    BY <1>2, <2>1
  <2>3. QED
    BY <1>1, <1>7, <2>2 DEF IInv, NoneLost
<1>10. QED
  BY <1>3, <1>4, <1>5, <1>6, <1>8, <1>9 DEF IInv

\* Bind fixes the range before anything is claimed.
LEMMA BindPreserves ==
    ASSUME IInv, Bind
    PROVE  IInv'
<1>1. /\ UNCHANGED <<rows, sqlMatch, residualMatch, hasRowId, useGlobalDB, position, rows_per_group,
                     launched, status, scanned, pending, chunk, delivered>>
      /\ phase = "bind" /\ phase' = "init"
  BY DEF Bind, table, gstate, lstate
<1>2. ScanTypeOK' /\ BoundRange'
  <2>1. CASE \E lo, hi \in RowIds :
               /\ GetRowIdInfo(lo, hi)
               /\ min_rowid' = lo
               /\ max_rowid' = hi
               /\ parallel' = ~useGlobalDB
    <3>1. PICK lo, hi \in RowIds : /\ GetRowIdInfo(lo, hi)
                                   /\ min_rowid' = lo
                                   /\ max_rowid' = hi
                                   /\ parallel' = ~useGlobalDB
      BY <2>1
    <3>2. parallel' \in BOOLEAN
      BY <3>1 DEF IInv, ScanTypeOK
    <3>3. /\ lo \in Int /\ hi \in Int /\ 0 <= lo /\ lo < hi /\ hi - lo < MaxRows
          /\ \A r \in rows : lo <= r /\ r <= hi
      BY <3>1 DEF GetRowIdInfo
    <3>4. ScanTypeOK'
      BY <1>1, <3>1, <3>2, <3>3 DEF IInv, ScanTypeOK
    <3>5. BoundRange'
      BY <1>1, <3>1, <3>3 DEF BoundRange
    <3>6. QED
      BY <3>4, <3>5
  <2>2. CASE parallel' = FALSE /\ UNCHANGED <<min_rowid, max_rowid>>
    BY <1>1, <2>2 DEF IInv, ScanTypeOK, BoundRange
  <2>3. QED
    BY <2>1, <2>2 DEF Bind
<1>3. launched = {} /\ \A t \in Threads : status[t] = "new" /\ pending[t] = {} /\ chunk[t] = {}
  BY <1>1 DEF IInv, NothingBeforeScan, IdleHoldsNothing
<1>4. NothingBeforeScan' /\ SliceFrontier' /\ LaunchedSome'
  BY <1>1 DEF IInv, NothingBeforeScan, SliceFrontier, LaunchedSome
<1>5. IdleHoldsNothing' /\ OnePlace'
  BY <1>1, <1>3, <1>4 DEF IdleHoldsNothing, OnePlace, NothingBeforeScan
<1>6. NoneLost'
  <2>1. \A r \in residualMatch : r \in rows /\ r \in Int
    BY DEF IInv, ScanTypeOK
  <2>2. position' = 0
    BY <1>1, <1>4 DEF NothingBeforeScan
  <2>3. parallel' => \A r \in rows : 0 <= r
    <3>1. SUFFICES ASSUME parallel', NEW r \in rows
                   PROVE  0 <= r
      OBVIOUS
    <3>2. min_rowid' \in Int /\ 0 <= min_rowid' /\ min_rowid' <= r /\ r \in Int
      BY <1>1, <1>2, <3>1 DEF BoundRange, ScanTypeOK
    <3>3. QED
      BY <3>2
  <2>4. \A r \in residualMatch : ~Claimed(r)'
    BY <2>1, <2>2, <2>3 DEF Claimed
  <2>5. QED
    BY <1>1, <2>4 DEF NoneLost
<1>7. QED
  BY <1>2, <1>4, <1>5, <1>6 DEF IInv

\* The global state starts at the beginning of the range, with nothing claimed.
LEMMA InitGlobalPreserves ==
    ASSUME IInv, InitGlobalState
    PROVE  IInv'
<1>1. /\ UNCHANGED <<rows, sqlMatch, residualMatch, hasRowId, useGlobalDB, parallel, min_rowid, max_rowid,
                     status, scanned, pending, chunk, delivered>>
      /\ phase = "init" /\ phase' = "scan"
      /\ position' = Start
      /\ rows_per_group' = IF parallel THEN RowsPerGroup ELSE 0
      /\ launched' \in SUBSET Threads /\ launched' # {}
  BY DEF InitGlobalState, table, bound, lstate, Start
<1>2. parallel => /\ min_rowid \in RowIds /\ max_rowid \in RowIds
                  /\ 0 <= min_rowid /\ min_rowid < max_rowid
                  /\ \A r \in rows : min_rowid <= r /\ r <= max_rowid
  BY <1>1 DEF IInv, BoundRange
<1>3. Start' = Start /\ Start \in Nat /\ (parallel => Start <= min_rowid)
  BY <1>1, <1>2 DEF Start, IInv, ScanTypeOK
<1>4. ScanTypeOK' /\ BoundRange' /\ LaunchedSome' /\ NothingBeforeScan'
  BY <1>1, <1>3 DEF IInv, ScanTypeOK, BoundRange, LaunchedSome, NothingBeforeScan
<1>5. launched = {} /\ (\A t \in Threads : scanned[t]) /\ \A r \in RowIds : delivered[r] = 0
  BY <1>1 DEF IInv, NothingBeforeScan
<1>6. SliceFrontier'
  <2>1. CASE parallel
    <3>1. \A t \in Threads : scanned'[t]
      BY <1>1, <1>5
    <3>2. max_rowid \in Int /\ Start <= max_rowid + 1
      BY <1>2, <2>1 DEF Start, IInv, ScanTypeOK
    <3>3. rows_per_group' = RowsPerGroup
      BY <1>1, <2>1
    <3>4. QED
      BY <1>1, <1>3, <2>1, <3>1, <3>2, <3>3 DEF SliceFrontier
  <2>2. CASE ~parallel
    BY <1>1, <2>2 DEF SliceFrontier, Start
  <2>3. QED
    BY <2>1, <2>2 DEF IInv, ScanTypeOK
<1>7. \A t \in Threads : status[t] = "new" /\ pending[t] = {} /\ chunk[t] = {}
  BY <1>5 DEF IInv, IdleHoldsNothing
<1>8. IdleHoldsNothing' /\ OnePlace'
  BY <1>1, <1>5, <1>7 DEF IdleHoldsNothing, OnePlace
<1>9. NoneLost'
  <2>1. \A r \in residualMatch : r \in rows /\ r \in Int
    BY DEF IInv, ScanTypeOK
  <2>2. \A r \in residualMatch : ~Claimed(r)'
    <3>1. CASE parallel
      <4>1. \A r \in residualMatch : Start <= r
        BY <1>2, <2>1, <3>1 DEF Start, IInv, ScanTypeOK
      <4>2. QED
        BY <1>1, <1>3, <2>1, <3>1, <4>1 DEF Claimed
    <3>2. CASE ~parallel
      BY <1>1, <3>2 DEF Claimed, Start
    <3>3. QED
      BY <3>1, <3>2 DEF IInv, ScanTypeOK
  <2>3. QED
    BY <1>1, <2>2 DEF NoneLost
<1>10. QED
  BY <1>4, <1>6, <1>8, <1>9 DEF IInv

\* Every step of the specification preserves the inductive invariant.
LEMMA NextPreserves ==
    ASSUME IInv, [ScanNext]_scanVars
    PROVE  IInv'
<1>1. CASE Bind
  BY <1>1, BindPreserves
<1>2. CASE InitGlobalState
  BY <1>2, InitGlobalPreserves
<1>3. ASSUME NEW t \in Threads, InitLocalState(t)
      PROVE  IInv'
  <2>1. /\ phase = "scan" /\ t \in launched /\ status[t] = "new"
        /\ UNCHANGED <<table, phase, bound>>
    BY <1>3 DEF InitLocalState
  <2>2. CASE ClaimNextSlice(t)
    BY <2>1, <2>2, ClaimPreserves
  <2>3. CASE ClaimThenFail(t)
    BY <2>1, <2>3, ClaimFailPreserves
  <2>4. CASE /\ NoSliceLeft
             /\ status' = [status EXCEPT ![t] = "done"]
             /\ UNCHANGED <<gstate, scanned, pending, chunk, delivered>>
    BY <2>1, <2>4, StopPreserves
  <2>5. QED
    BY <1>3, <2>2, <2>3, <2>4 DEF InitLocalState
<1>4. ASSUME NEW t \in Threads, StepRow(t)
      PROVE  IInv'
  BY <1>4, StepRowPreserves
<1>5. ASSUME NEW t \in Threads, ChunkFull(t)
      PROVE  IInv'
  BY <1>5, DeliverPreserves DEF ChunkFull
<1>6. ASSUME NEW t \in Threads, StepDone(t)
      PROVE  IInv'
  BY <1>6, DeliverPreserves DEF StepDone
<1>7. ASSUME NEW t \in Threads, NextSlice(t)
      PROVE  IInv'
  <2>1. /\ status[t] = "done" /\ UNCHANGED <<table, phase, bound>>
        /\ phase = "scan" /\ t \in launched
    BY <1>7, StartedInScan DEF NextSlice
  <2>2. CASE ClaimNextSlice(t)
    BY <2>1, <2>2, ClaimPreserves
  <2>3. CASE ClaimThenFail(t)
    BY <2>1, <2>3, ClaimFailPreserves
  <2>4. CASE /\ NoSliceLeft
             /\ status' = [status EXCEPT ![t] = "finished"]
             /\ UNCHANGED <<gstate, scanned, pending, chunk, delivered>>
    BY <2>1, <2>4, StopPreserves
  <2>5. QED
    BY <1>7, <2>2, <2>3, <2>4 DEF NextSlice
<1>8. ASSUME NEW t \in Threads, StepError(t)
      PROVE  IInv'
  <2>1. t \in launched
    BY <1>8, StartedInScan DEF StepError
  <2>2. QED
    BY <1>8, <2>1, StopPreserves DEF StepError
<1>9. CASE UNCHANGED scanVars
  BY <1>9 DEF scanVars, table, bound, gstate, lstate, IInv, ScanTypeOK, BoundRange, SliceFrontier, Start,
              NothingBeforeScan, LaunchedSome, IdleHoldsNothing, NoSliceLeft, OnePlace, NoneLost, Claimed
<1>10. QED
  BY <1>1, <1>2, <1>3, <1>4, <1>5, <1>6, <1>7, <1>8, <1>9 DEF ScanNext, ThreadStep, Terminated

\* The scan starts with an unbound table and nothing claimed.
LEMMA InitEstablishes == ScanInit => IInv
<1> SUFFICES ASSUME ScanInit PROVE IInv
  OBVIOUS
<1>1. ScanTypeOK
  <2>1. /\ scanned \in [Threads -> BOOLEAN]
        /\ parallel \in BOOLEAN /\ hasRowId \in BOOLEAN /\ useGlobalDB \in BOOLEAN
    BY Zenon DEF ScanInit
  <2>2. QED
    BY <2>1 DEF ScanInit, ScanTypeOK
<1>2. BoundRange /\ SliceFrontier /\ LaunchedSome
  BY DEF ScanInit, BoundRange, SliceFrontier, LaunchedSome
<1>3. NothingBeforeScan /\ IdleHoldsNothing /\ OnePlace
  BY DEF ScanInit, NothingBeforeScan, IdleHoldsNothing, OnePlace
<1>4. NoneLost
  BY DEF ScanInit, NoneLost, Claimed
<1>5. QED
  BY <1>1, <1>2, <1>3, <1>4 DEF IInv

\* The inductive invariant of SqliteClaimNextSlice's slices holds throughout
\* every scan.
THEOREM ScanInvariant == ScanSpec => []IInv
<1>1. ScanInit => IInv
  BY InitEstablishes
<1>2. IInv /\ [ScanNext]_scanVars => IInv'
  BY NextPreserves
<1>3. QED
  BY <1>1, <1>2, PTL DEF ScanSpec

\* Type correctness of the scan: in particular position and rows_per_group stay
\* natural numbers, the values an idx_t stands for.
THEOREM ScanTypeCorrect == ScanSpec => []ScanTypeOK
<1>1. IInv => ScanTypeOK
  BY DEF IInv
<1>2. QED
  BY <1>1, ScanInvariant, PTL

\* No row is handed to DuckDB twice, for any number of threads and any
\* interleaving of SqliteClaimNextSlice.
THEOREM NoRowTwice == ScanSpec => []EachRowAtMostOnce
<1>1. IInv => EachRowAtMostOnce
  <2>1. IInv => \A r \in RowIds : delivered[r] = 0 \/ delivered[r] = 1
    BY Zenon DEF IInv, OnePlace
  <2>2. (\A r \in RowIds : delivered[r] = 0 \/ delivered[r] = 1) => EachRowAtMostOnce
    BY DEF EachRowAtMostOnce
  <2>3. QED
    BY <2>1, <2>2
<1>2. QED
  BY <1>1, ScanInvariant, PTL

\* A scan whose threads all finish has delivered exactly the rows that pass the
\* filters: the slices of SqliteClaimNextSlice leave no gap.
THEOREM NoRowMissing == ScanSpec => []CompleteWhenFinished
<1>1. ASSUME IInv, Succeeded
      PROVE  \A r \in RowIds : delivered[r] = 1 <=> r \in residualMatch
  <2>1. PICK u \in launched : u \in Threads
    BY <1>1 DEF IInv, ScanTypeOK, LaunchedSome, Succeeded
  <2>2. NoSliceLeft
    BY <1>1, <2>1 DEF IInv, IdleHoldsNothing, Succeeded
  <2>3. \A t \in Threads : pending[t] = {} /\ chunk[t] = {}
    BY <1>1 DEF IInv, IdleHoldsNothing, Succeeded
  <2>4. \A r \in residualMatch : Claimed(r)
    BY <1>1, <2>2 DEF IInv, ScanTypeOK, BoundRange, Succeeded, NoSliceLeft, Claimed
  <2>5. \A t \in launched : status[t] # "error"
    BY <1>1 DEF Succeeded
  <2>6. QED
    BY <1>1, <2>3, <2>4, <2>5 DEF IInv, OnePlace, NoneLost
<1>2. IInv => CompleteWhenFinished
  BY <1>1 DEF CompleteWhenFinished
<1>3. QED
  BY <1>2, ScanInvariant, PTL

\* The end of a slice never wraps around idx_t and rows_per_group never becomes
\* 0, however often SqliteClaimNextSlice doubles it.
THEOREM NoWrapAround == ScanSpec => []SliceArithmeticFits
<1>1. ASSUME IInv, phase = "scan", parallel
      PROVE  /\ rows_per_group # 0
             /\ \A t \in Threads :
                  ~NoSliceLeft =>
                    position + (IF Doubles(t) THEN 2 * rows_per_group ELSE rows_per_group) < IdxMod
  <2>1. rows_per_group # 0
    BY <1>1 DEF IInv, SliceFrontier
  <2>2. QED
    BY <1>1, <2>1, SliceBounds DEF IInv
<1>2. IInv => SliceArithmeticFits
  BY <1>1 DEF SliceArithmeticFits
<1>3. QED
  BY <1>2, ScanInvariant, PTL
=============================================================================
