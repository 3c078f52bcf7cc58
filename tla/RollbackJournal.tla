--------------------------- MODULE RollbackJournal ---------------------------
(***************************************************************************)
(* The rollback journal of the bundled SQLite (sqlite3.c, pager.c part and *)
(* the lock levels of os_unix.c): the journal modes DELETE, TRUNCATE and   *)
(* PERSIST of an attached file.  A transaction saves the pages it changes  *)
(* in the journal, writes them into the database file under the EXCLUSIVE  *)
(* lock, and commits by finalizing the journal; a journal that a dead      *)
(* process left behind is hot and is played back by the next reader.       *)
(* Every connection is a process of its own.                               *)
(*                                                                         *)
(* A page holds the stamp of the transaction that wrote it; page 1 also    *)
(* holds the change counter.  The journal is a sequence of cells, headers  *)
(* and page records; a record's checksum is modelled by the nonce of the   *)
(* header it belongs to (cksumInit).                                       *)
(***************************************************************************)
EXTENDS Integers, FiniteSets, Sequences

CONSTANTS
    Conns,        \* the connections (processes) on the database file
    Pages,        \* page numbers
    NoSnap,       \* no image
    NoFile,       \* the journal file does not exist
    JournalModes, \* the journal modes in use
    WriteSets,    \* bound: the sets of pages a transaction changes
    Syncs,        \* the settings of PRAGMA synchronous, of "NORMAL", "FULL"
    MaxStamp,     \* bound: write transactions started
    MaxFaults,    \* bound: processes that die and power losses
    KeepOpen      \* may a connection write again before it ends its read transaction,
                  \* where the connections have different journal modes?

\* There are finitely many pages.
ASSUME JournalAssumption == Cardinality(Pages) \in Nat

VARIABLES
    file, fileDisk,   \* the database file: as written, and as flushed to the medium
    jrnl, jrnlDisk,   \* the journal file likewise
    old,              \* what else the directory on the medium may name as the journal
    pager,            \* the Pager object of every connection
    sync, stamps, faults,
    doubt             \* history variable, see SnapshotStore

journalVars == <<file, fileDisk, jrnl, jrnlDisk, old, pager, sync, stamps,
                 faults, doubt>>

NONE == 0
SHARED == 1
RESERVED == 2
PENDING == 3
EXCLUSIVE == 4

Closed(mode) ==
    [pc |-> "idle", mode |-> mode, lock |-> NONE, reserved |-> FALSE, jfd |-> "closed",
     own |-> <<>>, off |-> 0, hdr |-> 0, nRec |-> 0, left |-> {}, dirty |-> {},
     todo |-> {}, inJournal |-> {}, dbMod |-> FALSE, commit |-> FALSE, hot |-> FALSE,
     play |-> {}, vers |-> 0, cache |-> NoSnap, stamp |-> 0]

Header(magic, n, nonce) == [kind |-> "header", magic |-> magic, n |-> n, nonce |-> nonce]
Record(p, was, nonce) == [kind |-> "record", page |-> p, was |-> was, nonce |-> nonce]
Torn == [kind |-> "torn", nonce |-> -1]
TornPage == [data |-> -1, ver |-> -1]

------------------------------------------------------------------------------
(* The contents of a journal. *)

Put(j, i, cell) == SubSeq(j, 1, i - 1) \o <<cell>> \o SubSeq(j, i + 1, Len(j))

IsHeader(j, i) == i \in DOMAIN j /\ j[i].kind = "header" /\ j[i].magic

(* The records that pager_playback restores, as positions.  last is 0 for a *)
(* hot journal; a process that rolls back its own transaction knows where   *)
(* its last header is, and reads on to the end of the file when the record  *)
(* count of that header has not been written yet.                           *)
Playable(j, last) ==
    LET Good(i, k) == j[k].kind = "record" /\ j[k].nonce = j[i].nonce
        Segment[i \in 1 .. Len(j) + 1] ==
            IF i > Len(j) \/ ~(IsHeader(j, i) \/ i = last) THEN {}
            ELSE LET n == IF i = last /\ j[i].n = 0 THEN Len(j) - i ELSE j[i].n
                     good == {k \in i + 1 .. i + n :
                                \A h \in i + 1 .. k : h <= Len(j) /\ Good(i, h)}
                 IN good \union IF Cardinality(good) = n THEN Segment[i + n + 1] ELSE {}
    IN Segment[1]

Least(S) == CHOOSE x \in S : \A y \in S : x <= y

Restored(f, j) ==
    LET play == Playable(j, 0)
        Of(p) == {k \in play : j[k].page = p}
    IN [p \in Pages |-> IF Of(p) = {} THEN f[p]
                        ELSE j[CHOOSE k \in Of(p) : \A h \in Of(p) : h <= k].was]

(* The committed database: a hot journal undoes what is in the file. *)
DataOf(f) == [p \in Pages |-> f[p].data]
Hot(j) == j # NoFile /\ IsHeader(j, 1)
Image == DataOf(IF Hot(jrnl) THEN Restored(file, jrnl) ELSE file)

(* The journal that connection c has open; it may have lost its name. *)
Journal(c) == IF pager[c].jfd = "orphan" THEN pager[c].own ELSE jrnl

(* What connection c has for page p: its cache, or the file. *)
Content(c, p) == IF pager[c].cache = NoSnap THEN file[p] ELSE pager[c].cache[p]

Step(c, f) == pager' = [pager EXCEPT ![c] = f]

(* Connection c becomes f and its journal becomes j. *)
StepJournal(c, f, j) ==
    IF f.jfd = "orphan" THEN Step(c, [f EXCEPT !.own = j]) /\ UNCHANGED jrnl
    ELSE Step(c, f) /\ jrnl' = j

KeepFiles == UNCHANGED <<file, fileDisk, jrnl, jrnlDisk, old>>
KeepRest == UNCHANGED <<sync, stamps, faults, doubt>>

------------------------------------------------------------------------------
(* Locks of the database file. *)

Others(c) == Conns \ {c}
MayShare(c) == \A d \in Others(c) : pager[d].lock < PENDING
MayReserve(c) == \A d \in Others(c) : ~pager[d].reserved
MayPend(c) == \A d \in Others(c) : pager[d].lock < PENDING
MayExclude(c) == MayPend(c) /\ \A d \in Others(c) : pager[d].lock = NONE

------------------------------------------------------------------------------
(* sqlite3PagerSharedLock. *)

LockShared(c) ==
    /\ pager[c].pc = "idle" /\ MayShare(c)
    /\ Step(c, [pager[c] EXCEPT !.pc = "exists", !.lock = SHARED])
    /\ KeepFiles /\ KeepRest

(* hasHotJournal, in the order of its three looks: is there a journal, does *)
(* somebody hold RESERVED, is the first byte of the journal not zero?  A    *)
(* journal that disappeared in between counts as hot.                       *)
FindJournal(c) ==
    /\ pager[c].pc = "exists"
    /\ Step(c, [pager[c] EXCEPT !.pc = IF jrnl = NoFile THEN "validate" ELSE "reserved"])
    /\ KeepFiles /\ KeepRest

CheckReserved(c) ==
    /\ pager[c].pc = "reserved"
    /\ Step(c, [pager[c] EXCEPT !.pc = IF MayReserve(c) THEN "first" ELSE "validate"])
    /\ KeepFiles /\ KeepRest

FirstByte(j) ==
    IF j = <<>> THEN FALSE ELSE IF j[1].kind = "header" THEN j[1].magic ELSE TRUE

ReadFirst(c) ==
    /\ pager[c].pc = "first"
    /\ Step(c, [pager[c] EXCEPT !.pc = IF jrnl = NoFile \/ FirstByte(jrnl)
                                       THEN "hot" ELSE "validate"])
    /\ KeepFiles /\ KeepRest

(* From SHARED to EXCLUSIVE without RESERVED; all locks go if it fails.     *)
(* The journal is flushed before it is played back.                         *)
LockHot(c) ==
    /\ pager[c].pc = "hot"
    /\ IF ~MayExclude(c)
       THEN /\ Step(c, [pager[c] EXCEPT !.pc = "idle", !.lock = NONE])
            /\ UNCHANGED jrnlDisk
       ELSE IF jrnl = NoFile
       THEN /\ Step(c, [pager[c] EXCEPT !.pc = "validate"])
            /\ UNCHANGED jrnlDisk
       ELSE /\ Step(c, [pager[c] EXCEPT !.pc = "play", !.lock = EXCLUSIVE, !.hot = TRUE,
                                        !.jfd = "open", !.play = Playable(jrnl, 0)])
            /\ jrnlDisk' = jrnl
    /\ UNCHANGED <<file, fileDisk, jrnl, old>> /\ KeepRest

(* The cache is kept only when the change counter is the one last seen. *)
Validate(c) ==
    /\ pager[c].pc = "validate"
    /\ Step(c, [pager[c] EXCEPT !.pc = "read", !.vers = file[1].ver,
                                !.cache = IF pager[c].vers = file[1].ver THEN @ ELSE NoSnap])
    /\ KeepFiles /\ KeepRest

(* pager_unlock: the journal is closed with it. *)
EndRead(c) ==
    /\ pager[c].pc = "read"
    /\ Step(c, [pager[c] EXCEPT !.pc = "idle", !.lock = NONE, !.jfd = "closed", !.own = <<>>,
                                !.cache = [p \in Pages |-> Content(c, p)]])
    /\ KeepFiles /\ KeepRest

------------------------------------------------------------------------------
(* pager_playback and pager_end_transaction. *)

(* Of the writes not flushed, each may be on the medium, absent or torn. *)
Survivors(new, medium) ==
    IF new = NoFile \/ medium = NoFile THEN {new}
    ELSE IF Len(new) < Len(medium) THEN {new, medium}
    ELSE LET m == Len(medium)
             lost == {i \in DOMAIN new : i > m \/ new[i] # medium[i]}
         IN {[i \in DOMAIN new |-> IF i \notin S THEN new[i]
                                   ELSE IF i <= m THEN medium[i] ELSE Torn] :
               S \in SUBSET lost}

(* The journal after connection c has finalized it.  done: was any part of  *)
(* it written or read (journalOff is not 0)?  Deleting it takes the name    *)
(* from every connection that has the file open.                            *)
Finalized(c, f, done) ==
    LET me == [f EXCEPT !.off = 0, !.hdr = 0, !.nRec = 0, !.inJournal = {}, !.dbMod = FALSE,
                        !.dirty = {}, !.left = {}, !.todo = {}, !.stamp = 0, !.commit = FALSE,
                        !.hot = FALSE, !.play = {}, !.lock = SHARED, !.reserved = FALSE]
    IN CASE f.mode = "delete" ->
              /\ pager' = [d \in Conns |->
                             IF d = c THEN [me EXCEPT !.jfd = "closed"]
                             ELSE IF pager[d].jfd = "open"
                             THEN [pager[d] EXCEPT !.jfd = "orphan", !.own = jrnl]
                             ELSE pager[d]]
              /\ old' = old \union Survivors(jrnl, jrnlDisk)
              /\ jrnl' = NoFile /\ jrnlDisk' = NoFile
         [] f.mode = "truncate" /\ done ->
              /\ StepJournal(c, me, <<>>)
              /\ jrnlDisk' = IF sync = "FULL" THEN jrnl' ELSE jrnlDisk
              /\ UNCHANGED old
         [] f.mode = "persist" /\ done ->
              /\ StepJournal(c, me, Put(Journal(c), 1, Header(FALSE, 0, 0)))
              /\ jrnlDisk' = jrnl'
              /\ UNCHANGED old
         [] OTHER -> Step(c, me) /\ UNCHANGED <<jrnl, jrnlDisk, old>>

(* One record goes back into the file; the first one of a hot journal       *)
(* empties the cache.                                                       *)
PlayPage(c) ==
    /\ pager[c].pc = "play" /\ pager[c].play # {}
    /\ LET k == Least(pager[c].play)
           r == Journal(c)[k]
       IN /\ file' = [file EXCEPT ![r.page] = r.was]
          /\ Step(c, [pager[c] EXCEPT !.play = @ \ {k},
                                      !.vers = IF r.page = 1 THEN r.was.ver ELSE @,
                                      !.cache = IF pager[c].hot THEN NoSnap ELSE @])
    /\ UNCHANGED <<fileDisk, jrnl, jrnlDisk, old>> /\ KeepRest

(* The file is flushed, the journal finalized, the lock is SHARED again.    *)
PlayEnd(c) ==
    LET w == pager[c]
    IN /\ w.pc = "play" /\ w.play = {}
       /\ fileDisk' = IF w.hot \/ w.dbMod THEN file ELSE fileDisk
       /\ Finalized(c, [w EXCEPT !.pc = IF w.hot THEN "validate" ELSE "read"],
                    w.hot => IsHeader(jrnl, 1))
       /\ UNCHANGED file /\ KeepRest

------------------------------------------------------------------------------
(* Write transactions. *)

(* sqlite3PagerBegin *)
BeginWrite(c) ==
    /\ pager[c].pc = "read" /\ MayReserve(c)
    /\ \/ pager[c].jfd = "closed" \/ KeepOpen
       \/ \A d \in Conns : pager[d].mode = pager[c].mode
    /\ stamps < MaxStamp
    /\ stamps' = stamps + 1
    /\ \E W \in WriteSets :
         Step(c, [pager[c] EXCEPT !.pc = "write", !.lock = RESERVED, !.reserved = TRUE,
                                  !.dirty = W, !.left = W, !.stamp = stamps + 1])
    /\ UNCHANGED <<sync, faults, doubt>> /\ KeepFiles

(* writeJournalHdr at position i; the nonce is new for every header.        *)
Headed(j, i, stamp) == Put(j, i, Header(FALSE, 0, 10 * stamp + i))

(* pager_write of page p, with pager_open_journal before the first one: a   *)
(* journal that is there is overwritten from its start, its tail stays.     *)
WritePage(c, p, f) ==
    LET first == f.off = 0
        new == f.jfd = "closed" /\ jrnl = NoFile
        j0 == IF new THEN <<>> ELSE Journal(c)
        j1 == IF first THEN Headed(j0, 1, f.stamp) ELSE j0
        hdr == IF first THEN 1 ELSE f.hdr
        off == (IF first THEN 1 ELSE f.off) + (IF p \in f.inJournal THEN 0 ELSE 1)
    IN /\ StepJournal(c, [f EXCEPT
                            !.jfd = IF f.jfd = "orphan" THEN @ ELSE "open", !.hdr = hdr,
                            !.off = off, !.nRec = IF p \in f.inJournal THEN @ ELSE @ + 1,
                            !.inJournal = @ \union {p}, !.todo = @ \union {p}],
                      IF p \in f.inJournal THEN j1
                      ELSE Put(j1, off, Record(p, Content(c, p), j1[hdr].nonce)))
       /\ jrnlDisk' = IF new THEN <<>> ELSE jrnlDisk
       /\ old' = IF new THEN old \union {NoFile} ELSE old
       /\ UNCHANGED <<file, fileDisk>> /\ KeepRest

Modify(c) ==
    /\ pager[c].pc = "write"
    /\ \E p \in pager[c].left :
         WritePage(c, p, [pager[c] EXCEPT !.left = @ \ {p}])

(* pager_incr_changecounter: page 1 is part of every commit. *)
StartCommit(c) ==
    /\ pager[c].pc = "write" /\ pager[c].left = {}
    /\ WritePage(c, 1, [pager[c] EXCEPT !.pc = "commit"])

(* The pages that go to the file: all of a commit; of a spill not page 1,   *)
(* which is in use for the whole transaction.                               *)
Storable(w) == IF w.commit \/ w.pc = "commit" THEN w.todo ELSE w.todo \ {1}

(* syncJournal, of a commit or of a spill of the dirty pages: the EXCLUSIVE *)
(* lock, or PENDING and SQLITE_BUSY while there are readers.                *)
LockExclusive(c) ==
    LET w == pager[c]
    IN /\ w.pc \in {"commit", "write"} /\ Storable(w) # {}
       /\ IF w.lock = EXCLUSIVE \/ MayExclude(c)
          THEN Step(c, [w EXCEPT !.lock = EXCLUSIVE, !.commit = (w.pc = "commit"),
                                 !.pc = "count"])
          ELSE w.lock < PENDING /\ MayPend(c) /\ Step(c, [w EXCEPT !.lock = PENDING])
       /\ KeepFiles /\ KeepRest

\* Faulty variant: what stands behind the last record is left alone.
Followed(j, off) == j

(* A stale header behind the last record is made invalid. *)
Unfollowed(j, off) ==
    IF IsHeader(j, off + 1) THEN [j EXCEPT ![off + 1].magic = FALSE] ELSE j

\* Faulty variant: the header gets its count but not its magic number.
CountOnly(c) ==
    LET w == pager[c]
        j == Unfollowed(Journal(c), w.off)
        flush == sync = "FULL" /\ w.jfd = "open"
    IN /\ w.pc = "count"
       /\ StepJournal(c, [w EXCEPT !.pc = "flush"], [j EXCEPT ![w.hdr].n = w.nRec])
       /\ jrnlDisk' = IF flush THEN j ELSE jrnlDisk
       /\ old' = IF flush THEN {} ELSE old
       /\ doubt' = IF flush THEN {} ELSE doubt
       /\ UNCHANGED <<file, fileDisk, sync, stamps, faults>>

(* The number of records.  With synchronous=FULL the records are flushed    *)
(* before it is written.  The first flush also settles the directory.       *)
CountRecords(c) ==
    LET w == pager[c]
        j == Unfollowed(Journal(c), w.off)
        flush == sync = "FULL" /\ w.jfd = "open"
    IN /\ w.pc = "count"
       /\ StepJournal(c, [w EXCEPT !.pc = "flush"],
                      [j EXCEPT ![w.hdr].magic = TRUE, ![w.hdr].n = w.nRec])
       /\ jrnlDisk' = IF flush THEN j ELSE jrnlDisk
       /\ old' = IF flush THEN {} ELSE old
       /\ doubt' = IF flush THEN {} ELSE doubt
       /\ UNCHANGED <<file, fileDisk, sync, stamps, faults>>

(* A spill continues the journal with a header of its own. *)
FlushJournal(c) ==
    LET w == pager[c]
        j == Journal(c)
        open == w.jfd = "open"
    IN /\ w.pc = "flush"
       /\ IF w.commit THEN StepJournal(c, [w EXCEPT !.pc = "store", !.dbMod = TRUE], j)
          ELSE StepJournal(c, [w EXCEPT !.pc = "store", !.dbMod = TRUE, !.hdr = w.off + 1,
                                        !.off = w.off + 1, !.nRec = 0],
                           Headed(j, w.off + 1, w.stamp))
       /\ jrnlDisk' = IF open THEN j ELSE jrnlDisk
       /\ old' = IF open THEN {} ELSE old
       /\ doubt' = IF open THEN {} ELSE doubt
       /\ UNCHANGED <<file, fileDisk, sync, stamps, faults>>

(* pager_write_pagelist, page by page; page 1 takes a new change counter.   *)
StorePage(c) ==
    /\ pager[c].pc = "store"
    /\ LET w == pager[c]
           p == Least(Storable(w))
           ver == IF p = 1 THEN w.vers + 1 ELSE 0
           next == IF Storable(w) # {p} THEN "store" ELSE IF w.commit THEN "finish" ELSE "write"
       IN /\ file' = [file EXCEPT ![p] = [data |-> IF p \in w.dirty THEN w.stamp ELSE @.data,
                                          ver |-> ver]]
          /\ Step(c, [w EXCEPT !.pc = next, !.todo = @ \ {p},
                               !.vers = IF p = 1 THEN ver ELSE @])
    /\ UNCHANGED <<fileDisk, jrnl, jrnlDisk, old>> /\ KeepRest

(* The end of sqlite3PagerCommitPhaseOne, and sqlite3PagerCommitPhaseTwo.   *)
Finish(c) ==
    LET w == pager[c]
        durable == w.mode = "persist" \/ (w.mode = "truncate" /\ sync = "FULL")
    IN /\ w.pc = "finish"
       /\ fileDisk' = file
       /\ Finalized(c, [w EXCEPT !.pc = "read", !.cache = IF @ = NoSnap THEN @ ELSE file], TRUE)
       /\ doubt' = IF durable THEN {} ELSE (doubt \union {Image}) \ {DataOf(file)}
       /\ UNCHANGED <<file, sync, stamps, faults>>

(* sqlite3PagerRollback; only records whose journal has been flushed can    *)
(* have changed pages in the file.                                          *)
Rollback(c) ==
    LET w == pager[c]
        synced == {k \in Playable(Journal(c), w.hdr) : w.dbMod /\ k < w.hdr}
    IN /\ w.pc \in {"write", "commit"}
       /\ IF w.off = 0
          THEN Step(c, [w EXCEPT !.pc = "read", !.lock = SHARED, !.reserved = FALSE,
                                 !.dirty = {}, !.left = {}, !.stamp = 0])
          ELSE Step(c, [w EXCEPT !.pc = "play", !.play = synced])
       /\ KeepFiles /\ KeepRest

------------------------------------------------------------------------------
(* Faults. *)

Crash(c) ==
    /\ faults < MaxFaults
    /\ pager[c].lock # NONE
    /\ faults' = faults + 1
    /\ Step(c, Closed(pager[c].mode))
    /\ UNCHANGED <<sync, stamps, doubt>> /\ KeepFiles

PowerLoss ==
    /\ faults < MaxFaults
    /\ faults' = faults + 1
    /\ \E f \in [Pages -> {"written", "flushed", "torn"}] :
         /\ \A p \in Pages : file[p] = fileDisk[p] => f[p] = "written"
         /\ file' = [p \in Pages |-> CASE f[p] = "written" -> file[p]
                                      [] f[p] = "flushed" -> fileDisk[p]
                                      [] f[p] = "torn" -> TornPage]
    /\ fileDisk' = file'
    /\ jrnl' \in Survivors(jrnl, jrnlDisk) \union old
    /\ jrnlDisk' = jrnl' /\ old' = {}
    /\ pager' = [c \in Conns |-> Closed(pager[c].mode)]
    /\ doubt' = {}
    /\ UNCHANGED <<sync, stamps>>

------------------------------------------------------------------------------
(* A database that was never written, and one whose journal file still has  *)
(* the two segments of a transaction that journal_mode=PERSIST committed.   *)
NeverUsed == [file |-> [p \in Pages |-> [data |-> 0, ver |-> 0]], jrnl |-> NoFile, n |-> 0]
Remains ==
    LET order == CHOOSE s \in [1 .. Cardinality(Pages) -> Pages] :
                   \A i, k \in 1 .. Cardinality(Pages) : i < k => s[i] > s[k]
        Cell(k) == IF k % 2 = 1 THEN Header(k > 1, 1, 10 + k)
                   ELSE Record(order[k \div 2], NeverUsed.file[order[k \div 2]], 9 + k)
    IN [file |-> [p \in Pages |-> [data |-> 1, ver |-> IF p = 1 THEN 1 ELSE 0]], n |-> 1,
        jrnl |-> [k \in 1 .. 2 * Cardinality(Pages) |-> Cell(k)]]

StartsAs(start) ==
    /\ file = start.file /\ fileDisk = file
    /\ jrnl = start.jrnl /\ jrnlDisk = jrnl /\ old = {}
    /\ stamps = start.n
    /\ \E m \in [Conns -> JournalModes] : pager = [c \in Conns |-> Closed(m[c])]
    /\ sync \in Syncs
    /\ doubt = {}

JournalInit ==
    /\ StartsAs(NeverUsed) \/ StartsAs(Remains)
    /\ faults = 0

Reading(c) ==
    \/ LockShared(c) \/ FindJournal(c) \/ CheckReserved(c) \/ ReadFirst(c)
    \/ LockHot(c) \/ PlayPage(c) \/ PlayEnd(c) \/ Validate(c) \/ EndRead(c)

Writing(c) ==
    \/ BeginWrite(c) \/ Modify(c) \/ StartCommit(c) \/ LockExclusive(c) \/ CountRecords(c)
    \/ FlushJournal(c) \/ StorePage(c) \/ Finish(c) \/ Rollback(c)

JournalNext ==
    \/ \E c \in Conns : Reading(c) \/ Writing(c) \/ Crash(c)
    \/ PowerLoss

JournalSpec == JournalInit /\ [][JournalNext]_journalVars

------------------------------------------------------------------------------
(* What the journal implements. *)

Reads == {"read", "write", "commit", "count", "flush", "store", "finish"}

(* The image a connection reads, without its own changes.                   *)
Snap(c) ==
    LET w == pager[c]
        image == Image
    IN IF w.pc \in Reads \/ (w.pc = "play" /\ ~w.hot)
       THEN [p \in Pages |-> IF p \in w.dirty THEN image[p] ELSE Content(c, p).data]
       ELSE NoSnap

Intent(c) == [pages |-> pager[c].dirty, stamp |-> pager[c].stamp]

(* sqlite3PagerCommitPhaseTwo's starting point: while a transaction has     *)
(* changed the database file, a journal that undoes it is in the file       *)
(* system, so that a failure leaves a hot journal.                          *)
JournalCoversWrites == \A c \in Conns :
    pager[c].dbMod => Hot(jrnl)
==============================================================================
