---------------------------- MODULE WriteAheadLog ----------------------------
(***************************************************************************)
(* The write-ahead log of the bundled SQLite (sqlite3.c, wal.c part), the  *)
(* journal_mode=WAL an attached file may have: the log file, the wal-index *)
(* in shared memory with its two header copies, the read marks, the locks, *)
(* readers, the writer, checkpoints, recovery, process deaths and power    *)
(* losses.  Every connection is a process of its own.                      *)
(*                                                                         *)
(* A page holds the stamp of the transaction that wrote it.  A frame's     *)
(* checksum is modelled by the identity of the frame before it, a header   *)
(* by its mxFrame and its salt, which together identify a committed prefix *)
(* of the log.  walIndexTryHdr reads both copies in one step: they are     *)
(* written second copy first and read first copy first, so equal copies    *)
(* were both current when the second was read.                             *)
(***************************************************************************)
EXTENDS Integers, FiniteSets, Sequences, SequencesExt

CONSTANTS
    Conns,        \* the connections (processes) on the database file
    Pages,        \* page numbers, a finite set
    NoConn,       \* nobody (a free lock)
    NoSnap,       \* no image
    Readers,      \* WAL_NREADER, at least 2: the read marks are 0 .. Readers - 1
    WriteSets,    \* bound: the sets of pages a transaction changes, none empty
    Syncs,        \* bound: the settings of PRAGMA synchronous, of "NORMAL", "FULL"
    MaxStamp,     \* bound: write transactions started
    MaxFaults,    \* bound: processes that die and power losses
    CkptModes,    \* the checkpoint modes in use, of "passive", "truncate"
    StaleHeader,  \* may a log restart fall between the two header uses of a checkpoint?
    TornRestart   \* may a process die inside walRestartHdr, before nBackfill is reset?

VARIABLES
    db, dbDisk,     \* the database file: as written, and as flushed to the medium
    wal, walDisk,   \* the log file: as written, and as flushed to the medium
    shm,            \* the wal-index
    conn,           \* the Wal object of every connection
    locks,          \* WAL_WRITE_LOCK, WAL_CKPT_LOCK and the exclusive read locks
    ckpt,           \* the local variables of the running checkpoint
    sync,           \* PRAGMA synchronous: "NORMAL" or "FULL"
    stamps, salts,  \* transactions started, salts drawn
    faults,
    limbo, doubt    \* history variables, see SnapshotStore

walVars == <<db, dbDisk, wal, walDisk, shm, conn, locks, ckpt, sync, stamps,
             salts, faults, limbo, doubt>>

ReadMarks == 1 .. Readers - 1
NotUsed == 99                               \* READMARK_NOT_USED
NoHdr == [mx |-> 0, salt |-> -1]            \* a header of zeros: isInit = 0
EmptyLog == [salt |-> 0, frames |-> <<>>]
ZeroShm == [hdr |-> <<NoHdr, NoHdr>>, backfill |-> 0,
            marks |-> [i \in ReadMarks |-> 0], index |-> <<>>]
FreeLocks == [write |-> NoConn, ckpt |-> NoConn, zero |-> NoConn, rest |-> NoConn]
Fresh == [pc |-> "idle", hdr |-> NoHdr, read |-> -1, slot |-> 0, mark |-> 0,
          min |-> 0, useWal |-> FALSE, dirty |-> {}, left |-> {}, batch |-> {},
          commit |-> FALSE, stamp |-> 0, cache |-> NoSnap]
NoCkpt == [by |-> NoConn, mode |-> "passive", changed |-> FALSE, i |-> 0, safe |-> 0,
           frame |-> [p \in Pages |-> 0], todo |-> {}]

ShortRead == -2  \* instead of a page: SQLITE_IOERR_SHORT_READ
Torn == [page |-> 0, data |-> 0, commit |-> FALSE, salt |-> -1, prev |-> <<0, 0>>]

------------------------------------------------------------------------------
(* Reading the log. *)

Largest(S) == CHOOSE x \in S : \A y \in S : y <= x

(* sqlite3WalFindFrame: the last frame of lo..hi that the index gives to page p. *)
FindFrame(index, lo, hi, p) ==
    LET hits == {i \in (DOMAIN index) \intersect (lo .. hi) : index[i] = p}
    IN IF hits = {} THEN 0 ELSE Largest(hits)

(* The identity that a frame's checksum chain stands for. *)
Chain(log, i) ==
    IF i = 1 THEN <<0, log.salt>> ELSE <<log.frames[i-1].page, log.frames[i-1].data>>

(* walDecodeFrame *)
ValidFrame(log, i) ==
    /\ log.frames[i].salt = log.salt
    /\ log.frames[i].page # 0
    /\ log.frames[i].prev = Chain(log, i)

(* The frames that walIndexRecover accepts, and the last commit among them. *)
ValidFrames(log) ==
    {i \in DOMAIN log.frames : log.salt > 0 /\ \A j \in 1 .. i : ValidFrame(log, j)}
LastCommit(log) ==
    Largest({0} \union {i \in ValidFrames(log) : log.frames[i].commit})

(* The database as the first mx frames of the log leave it. *)
LogImage(file, log, mx) ==
    [p \in Pages |->
        LET hits == {i \in 1 .. mx : log.frames[i].page = p}
        IN IF hits = {} THEN file[p] ELSE log.frames[Largest(hits)].data]

GoodHdr == shm.hdr[1] = shm.hdr[2] /\ shm.hdr[1] # NoHdr

Recovered(file, log) == LogImage(file, log, LastCommit(log))

(* The committed database: the first copy of the header, the one readers    *)
(* compare with, decides; with no header the log is recovered first.        *)
Image == IF shm.hdr[1] = NoHdr THEN Recovered(db, wal)
         ELSE LogImage(db, wal, shm.hdr[1].mx)

(* What connection c reads for page p: its cache, the log, the file; behind *)
(* the end of the log the read would be short.                              *)
ReadPage(c, p) ==
    LET w == conn[c]
        f == IF w.hdr.mx = 0 \/ w.read = 0 THEN 0
             ELSE FindFrame(shm.index, w.min, w.hdr.mx, p)
    IN IF w.cache # NoSnap THEN w.cache[p]
       ELSE IF f = 0 THEN db[p]
       ELSE IF f \in DOMAIN wal.frames THEN wal.frames[f].data ELSE ShortRead

------------------------------------------------------------------------------
(* Locks. *)

SharedBy(i) == {c \in Conns : conn[c].read = i}

(* walLockShared of a read lock: fails against an exclusive holder. *)
MayShare(c, i) ==
    IF i = 0 THEN locks.zero \in {NoConn, c} ELSE locks.rest \in {NoConn, c}

(* walLockExclusive of one read lock, or of the locks 1 .. Readers - 1. *)
MayExclude(c, i) == SharedBy(i) \subseteq {c} /\ MayShare(c, i)
MayExcludeRest(c) == locks.rest = NoConn /\ \A i \in ReadMarks : SharedBy(i) = {}

Step(c, f) == conn' = [conn EXCEPT ![c] = f]
Goto(c, pc) == Step(c, [conn[c] EXCEPT !.pc = pc])

(* The history variables once img is committed, and once the log is flushed. *)
Settled(img) ==
    /\ limbo' = {}
    /\ doubt' = IF walDisk = wal THEN {} ELSE (doubt \union limbo \union {Image}) \ {img}
Flushed(log) ==
    /\ limbo' = {Recovered(db, log)} \ {Image}
    /\ doubt' = {}

KeepFiles == UNCHANGED <<db, dbDisk, wal, walDisk>>
KeepRest == UNCHANGED <<sync, stamps, salts, faults, limbo, doubt>>

------------------------------------------------------------------------------
(* Read transactions: sqlite3WalBeginReadTransaction loops over            *)
(* walTryBeginRead, which starts over (WAL_RETRY) where it began; starting *)
(* over and giving up (SQLITE_BUSY, SQLITE_PROTOCOL) leave the same state. *)

Retry(c) == [conn[c] EXCEPT !.pc = IF conn[c].useWal THEN "marks" ELSE "idle",
                            !.read = -1, !.slot = 0, !.mark = 0, !.min = 0]

(* walIndexReadHdr with a good header; a change empties the page cache. *)
ReadHdr(c) ==
    /\ conn[c].pc = "idle" /\ GoodHdr
    /\ Step(c, [conn[c] EXCEPT
                !.pc = "test", !.hdr = shm.hdr[1],
                !.cache = IF conn[c].hdr = shm.hdr[1] THEN @ ELSE NoSnap])
    /\ UNCHANGED <<shm, locks, ckpt>> /\ KeepFiles /\ KeepRest

(* A bad header: under the write lock it means a writer died, and the index *)
(* is rebuilt; without the locks the attempt is busy and changes nothing.   *)
ReadBadHdr(c) ==
    /\ conn[c].pc = "idle" /\ ~GoodHdr
    /\ locks.write = NoConn /\ locks.ckpt = NoConn
    /\ Step(c, [conn[c] EXCEPT !.pc = "recover", !.cache = NoSnap])
    /\ locks' = [locks EXCEPT !.write = c, !.ckpt = c]
    /\ UNCHANGED <<shm, ckpt>> /\ KeepFiles /\ KeepRest

(* When the whole log is backfilled the reader can ignore it: read lock 0.  *)
TestBackfill(c) ==
    /\ conn[c].pc = "test"
    /\ Step(c, IF shm.backfill = conn[c].hdr.mx /\ MayShare(c, 0)
               THEN [conn[c] EXCEPT !.pc = "checkZero", !.read = 0]
               ELSE [conn[c] EXCEPT !.pc = "marks"])
    /\ UNCHANGED <<shm, locks, ckpt>> /\ KeepFiles /\ KeepRest

(* The header must still be the one that was read before the lock. *)
CheckZero(c) ==
    /\ conn[c].pc = "checkZero"
    /\ Step(c, IF shm.hdr[1] = conn[c].hdr THEN [conn[c] EXCEPT !.pc = "read"]
               ELSE Retry(c))
    /\ UNCHANGED <<shm, locks, ckpt>> /\ KeepFiles /\ KeepRest

(* The largest mark not beyond mxFrame; when it is smaller, the first mark *)
(* nobody uses is raised to mxFrame.                                       *)
ChooseMark(c) ==
    /\ conn[c].pc = "marks"
    /\ LET mx == conn[c].hdr.mx
           fit == {i \in ReadMarks : shm.marks[i] <= mx}
           best == {i \in fit : \A j \in fit : shm.marks[j] <= shm.marks[i]}
           old == IF fit = {} THEN 0 ELSE Largest(best)
           free == {i \in ReadMarks : MayExclude(c, i)}
           new == IF free = {} THEN 0 ELSE CHOOSE i \in free : \A j \in free : i <= j
           raise == (old = 0 \/ shm.marks[old] < mx) /\ new # 0
           slot == IF raise THEN new ELSE old
       IN /\ shm' = IF raise THEN [shm EXCEPT !.marks[new] = mx] ELSE shm
          /\ Step(c, IF slot = 0 THEN Retry(c)
                     ELSE [conn[c] EXCEPT !.pc = "lockMark", !.slot = slot,
                                          !.mark = shm'.marks[slot]])
    /\ UNCHANGED <<locks, ckpt>> /\ KeepFiles /\ KeepRest

LockMark(c) ==
    /\ conn[c].pc = "lockMark"
    /\ Step(c, IF MayShare(c, conn[c].slot)
               THEN [conn[c] EXCEPT !.pc = "loadMin", !.read = conn[c].slot]
               ELSE Retry(c))
    /\ UNCHANGED <<shm, locks, ckpt>> /\ KeepFiles /\ KeepRest

(* minFrame is loaded before the header is compared for the last time. *)
LoadMin(c) ==
    /\ conn[c].pc = "loadMin"
    /\ Step(c, [conn[c] EXCEPT !.pc = "check", !.min = shm.backfill + 1])
    /\ UNCHANGED <<shm, locks, ckpt>> /\ KeepFiles /\ KeepRest

\* Faulty variant: only the read mark is compared again, not the header.
CheckMark(c) ==
    /\ conn[c].pc = "check"
    /\ Step(c, IF shm.marks[conn[c].slot] = conn[c].mark
               THEN [conn[c] EXCEPT !.pc = IF conn[c].useWal THEN "frames" ELSE "read",
                                    !.useWal = FALSE]
               ELSE Retry(c))
    /\ UNCHANGED <<shm, locks, ckpt>> /\ KeepFiles /\ KeepRest

(* The header may have changed before the lock was taken: then start over.  *)
Check(c) ==
    /\ conn[c].pc = "check"
    /\ Step(c, IF shm.marks[conn[c].slot] = conn[c].mark /\ shm.hdr[1] = conn[c].hdr
               THEN [conn[c] EXCEPT !.pc = IF conn[c].useWal THEN "frames" ELSE "read",
                                    !.useWal = FALSE]
               ELSE Retry(c))
    /\ UNCHANGED <<shm, locks, ckpt>> /\ KeepFiles /\ KeepRest

(* sqlite3WalEndReadTransaction; the pages that were read stay cached. *)
EndRead(c) ==
    /\ conn[c].pc = "read"
    /\ Step(c, [conn[c] EXCEPT !.pc = "idle", !.read = -1, !.slot = 0, !.mark = 0,
                               !.min = 0, !.cache = [p \in Pages |-> ReadPage(c, p)]])
    /\ UNCHANGED <<shm, locks, ckpt>> /\ KeepFiles /\ KeepRest

------------------------------------------------------------------------------
(* walIndexRecover, entered with the write and checkpoint locks. *)

(* The index is rebuilt from the log, then the second header copy written. *)
Recover(c) ==
    /\ conn[c].pc = "recover"
    /\ LET h == [mx |-> LastCommit(wal), salt |-> wal.salt]
       IN /\ shm' = [shm EXCEPT
                       !.index = [i \in 1 .. Cardinality(ValidFrames(wal)) |->
                                    wal.frames[i].page],
                       !.hdr = <<@[1], h>>]
          /\ Step(c, [conn[c] EXCEPT !.pc = "recoverHdr", !.hdr = h])
    /\ UNCHANGED <<locks, ckpt>> /\ KeepFiles /\ KeepRest

(* The first copy: a commit that a dead writer had started is complete.     *)
RecoverHdr(c) ==
    /\ conn[c].pc = "recoverHdr"
    /\ shm' = [shm EXCEPT !.hdr[1] = conn[c].hdr]
    /\ Goto(c, "recoverInfo")
    /\ Settled(LogImage(db, wal, conn[c].hdr.mx))
    /\ UNCHANGED <<locks, ckpt, sync, stamps, salts, faults>> /\ KeepFiles

(* nBackfill and the marks that nobody holds are reset, and the locks the   *)
(* caller did not have before are released.                                 *)
RecoverInfo(c) ==
    /\ conn[c].pc = "recoverInfo"
    /\ shm' = [shm EXCEPT
                 !.backfill = 0,
                 !.marks = [i \in ReadMarks |->
                              IF ~MayExclude(c, i) THEN @[i]
                              ELSE IF i = 1 /\ conn[c].hdr.mx > 0 THEN conn[c].hdr.mx
                              ELSE NotUsed]]
    /\ locks' = [locks EXCEPT
                   !.write = IF ckpt.by = c /\ ckpt.mode # "passive" THEN @ ELSE NoConn,
                   !.ckpt = IF ckpt.by = c THEN @ ELSE NoConn]
    /\ Goto(c, IF ckpt.by = c THEN "ckTest" ELSE "test")
    /\ UNCHANGED ckpt /\ KeepFiles /\ KeepRest

------------------------------------------------------------------------------
(* Write transactions. *)

(* sqlite3WalBeginWriteTransaction: the write lock, and the snapshot must   *)
(* be the newest one (otherwise SQLITE_BUSY_SNAPSHOT and nothing changes).  *)
(* The pages the transaction will change are known to nobody else yet.      *)
BeginWrite(c) ==
    /\ conn[c].pc = "read" /\ locks.write = NoConn
    /\ conn[c].hdr = shm.hdr[1]
    /\ stamps < MaxStamp
    /\ locks' = [locks EXCEPT !.write = c]
    /\ stamps' = stamps + 1
    /\ \E W \in WriteSets :
         Step(c, [conn[c] EXCEPT !.pc = "write", !.dirty = W, !.left = W,
                                 !.stamp = stamps + 1])
    /\ UNCHANGED <<shm, ckpt, sync, salts, faults, limbo, doubt>> /\ KeepFiles

(* sqlite3WalFrames is called to spill one page (the cache is full; page 1  *)
(* is in use and stays) or with all the remaining pages, to commit.         *)
FrameCalls(c) ==
    LET left == conn[c].left
    IN {[batch |-> left, left |-> {}, commit |-> TRUE]}
       \union {[batch |-> {p}, left |-> left \ {p}, commit |-> FALSE] :
                 p \in {q \in left \ {1} : Cardinality(left) > 1}}

Called(c, call, pc) ==
    [conn[c] EXCEPT !.pc = pc, !.batch = call.batch, !.left = call.left,
                    !.commit = call.commit]

(* walRestartLog: a writer that ignores the log leaves read lock 0, and     *)
(* starts the log over when it is backfilled and nobody reads from it.      *)
KeepLog(c) ==
    /\ conn[c].pc = "write"
    /\ conn[c].read = 0 => shm.backfill = 0 \/ ~MayExcludeRest(c)
    /\ \E call \in FrameCalls(c) :
         Step(c, IF conn[c].read # 0 THEN Called(c, call, "frames")
                 ELSE [Called(c, call, "marks") EXCEPT !.useWal = TRUE, !.read = -1])
    /\ UNCHANGED <<shm, locks, ckpt>> /\ KeepFiles /\ KeepRest

(* The end of sqlite3WalCheckpoint: a header that was new to the connection *)
(* is forgotten, so that its next transaction empties the page cache, and   *)
(* all locks are released.                                                  *)
CkEnd(c) ==
    /\ Step(c, [conn[c] EXCEPT !.pc = "idle",
                               !.hdr = IF ckpt.changed THEN NoHdr ELSE @])
    /\ locks' = [k \in DOMAIN locks |-> IF locks[k] = c THEN NoConn ELSE locks[k]]
    /\ ckpt' = NoCkpt

(* walRestartHdr, first store: the second copy of a header with no frames.  *)
StartOver(c, w) ==
    LET h == [mx |-> 0, salt |-> salts + 1]
    IN /\ MayExcludeRest(c)
       /\ StaleHeader \/ \A d \in Conns : conn[d].pc # "ckTest"
       /\ locks' = [locks EXCEPT !.rest = c]
       /\ salts' = salts + 1
       /\ shm' = [shm EXCEPT !.hdr[2] = h]
       /\ Step(c, [w EXCEPT !.hdr = h])
       /\ UNCHANGED <<ckpt, sync, stamps, faults, limbo, doubt>> /\ KeepFiles

RestartLog(c) ==
    /\ conn[c].pc = "write" /\ conn[c].read = 0 /\ shm.backfill > 0
    /\ \E call \in FrameCalls(c) : StartOver(c, Called(c, call, "restartHdr"))

RestartHdr(c) ==
    /\ conn[c].pc = "restartHdr"
    /\ shm' = [shm EXCEPT !.hdr[1] = conn[c].hdr]
    /\ Goto(c, "restartInfo")
    /\ UNCHANGED <<locks, ckpt>> /\ KeepFiles /\ KeepRest

(* nBackfill and the marks, still under the exclusive read locks; then a    *)
(* TRUNCATE checkpoint empties the log file and ends, a writer goes on with *)
(* a read mark (walTryBeginRead with useWal).                               *)
RestartInfo(c) ==
    /\ conn[c].pc = "restartInfo"
    /\ shm' = [shm EXCEPT !.backfill = 0,
                          !.marks = [i \in ReadMarks |-> IF i = 1 THEN 0 ELSE NotUsed]]
    /\ IF ckpt.by = c
       THEN /\ wal' = EmptyLog
            /\ CkEnd(c)
       ELSE /\ locks' = [locks EXCEPT !.rest = NoConn]
            /\ Step(c, [conn[c] EXCEPT !.pc = "marks", !.useWal = TRUE, !.read = -1])
            /\ UNCHANGED <<wal, ckpt>>
    /\ UNCHANGED <<db, dbDisk, walDisk>> /\ KeepRest

(* The rest of sqlite3WalFrames.  A log that starts over gets its header    *)
(* first, flushed before any frame is written.  A spill stops at the index, *)
(* a commit goes on to publish the frames.                                  *)
PageOrder(S) == SetToSortSeq(S, <)

Framed(log, mx, pages, data, commit) ==
    LET order == PageOrder(pages)
        Put(l, k) ==
            LET i == mx + k
                f == [page |-> order[k], data |-> data, salt |-> l.salt,
                      commit |-> commit /\ k = Len(order), prev |-> Chain(l, i)]
            IN [l EXCEPT !.frames = SubSeq(@, 1, i - 1) \o <<f>>
                                      \o SubSeq(@, i + 1, Len(@))]
    IN FoldLeft(Put, log, [k \in 1 .. Len(order) |-> k])

(* walIndexAppend of the frames mx + 1, ...: the first frame of the log      *)
(* zeroes the table, remnants of a dead writer are dropped (walCleanupHash). *)
Indexed(index, mx, pages) ==
    SubSeq(index, 1, mx) \o PageOrder(pages)

(* The log file with a header for the frames of connection c. *)
Headed(c) ==
    IF conn[c].hdr.mx > 0 THEN wal
    ELSE [wal EXCEPT !.salt = IF conn[c].hdr.salt = 0 THEN salts + 1 ELSE conn[c].hdr.salt]

AppendFrames(c) ==
    LET w == conn[c]
        mx == w.hdr.mx
        head == Headed(c)
        log == Framed(head, mx, w.batch, w.stamp, w.commit)
    IN /\ w.pc = "frames"
       /\ wal' = log
       /\ walDisk' = IF mx > 0 THEN walDisk ELSE head
       /\ salts' = IF head.salt > salts THEN head.salt ELSE salts
       /\ IF w.commit
          THEN /\ Step(c, [w EXCEPT !.pc = "publish", !.hdr.salt = head.salt])
               /\ limbo' = limbo \union {Recovered(db, log)}
               /\ UNCHANGED shm
          ELSE /\ shm' = [shm EXCEPT !.index = Indexed(@, mx, w.batch)]
               /\ Step(c, [w EXCEPT !.pc = "write", !.batch = {},
                                    !.hdr = [mx |-> mx + Cardinality(w.batch), salt |-> head.salt]])
               /\ UNCHANGED limbo
       /\ UNCHANGED <<db, dbDisk, locks, ckpt, sync, stamps, faults, doubt>>

(* With synchronous=FULL the log is flushed first.  The frames enter the    *)
(* index, then walIndexWriteHdr stores the second copy of the header:       *)
(* should the writer die now, recovery commits for it.                      *)
Publish(c) ==
    LET w == conn[c]
        h == [w.hdr EXCEPT !.mx = @ + Cardinality(w.batch)]
    IN /\ w.pc = "publish"
       /\ shm' = [shm EXCEPT !.index = Indexed(@, w.hdr.mx, w.batch), !.hdr = <<@[1], h>>]
       /\ walDisk' = IF sync = "FULL" THEN wal ELSE walDisk
       /\ Step(c, [w EXCEPT !.pc = "publishHdr", !.hdr = h])
       /\ UNCHANGED <<db, dbDisk, wal, locks, ckpt>> /\ KeepRest

(* The first copy: the transaction is committed.  The write lock goes       *)
(* (sqlite3WalEndWriteTransaction).                                         *)
PublishHdr(c) ==
    LET w == conn[c]
    IN /\ w.pc = "publishHdr"
       /\ shm' = [shm EXCEPT !.hdr[1] = w.hdr]
       /\ locks' = [locks EXCEPT !.write = NoConn]
       /\ Step(c, [w EXCEPT !.pc = "read", !.stamp = 0, !.dirty = {}, !.batch = {},
                            !.commit = FALSE,
                            !.cache = IF @ = NoSnap THEN @
                                      ELSE [p \in Pages |-> IF p \in w.dirty THEN w.stamp ELSE @[p]]])
       /\ Settled(LogImage(db, wal, w.hdr.mx))
       /\ UNCHANGED <<ckpt, sync, stamps, salts, faults>> /\ KeepFiles

(* sqlite3WalUndo and sqlite3WalEndWriteTransaction. *)
UndoWrite(c) ==
    /\ conn[c].pc = "write"
    /\ LET h == shm.hdr[1]
       IN /\ shm' = IF conn[c].hdr.mx = h.mx \/ h.mx = 0 THEN shm
                    ELSE [shm EXCEPT !.index = SubSeq(@, 1, h.mx)]
          /\ Step(c, [conn[c] EXCEPT !.pc = "read", !.hdr = h, !.dirty = {}, !.left = {},
                                     !.stamp = 0])
    /\ locks' = [locks EXCEPT !.write = NoConn]
    /\ UNCHANGED ckpt /\ KeepFiles /\ KeepRest

------------------------------------------------------------------------------
(* Checkpoints: sqlite3WalCheckpoint and walCheckpoint, of a connection     *)
(* with no transaction of its own.                                          *)

(* A mode above PASSIVE also wants the write lock, and falls back to        *)
(* PASSIVE without it; then the header is read.  (A TRUNCATE of an empty    *)
(* log, which would only draw new salts, is left out.)                      *)
CkBegin(c) ==
    /\ conn[c].pc = "idle" /\ locks.ckpt = NoConn
    /\ \E m \in CkptModes :
         LET full == m # "passive" /\ locks.write = NoConn
         IN /\ full => shm.hdr[1].mx > 0
            /\ GoodHdr \/ locks.write = NoConn
            /\ locks' = [locks EXCEPT !.ckpt = c, !.write = IF full \/ ~GoodHdr THEN c ELSE @]
            /\ ckpt' = [NoCkpt EXCEPT !.by = c, !.mode = IF full THEN m ELSE "passive",
                                      !.changed = ~GoodHdr \/ conn[c].hdr # shm.hdr[1]]
    /\ Step(c, IF GoodHdr THEN [conn[c] EXCEPT !.pc = "ckTest", !.hdr = shm.hdr[1]]
               ELSE [conn[c] EXCEPT !.pc = "recover"])
    /\ UNCHANGED shm /\ KeepFiles /\ KeepRest

(* Nothing more to copy: PASSIVE ends here, other modes look at the log.    *)
CkCopied(c) ==
    IF ckpt.mode = "passive" THEN CkEnd(c)
    ELSE /\ Goto(c, "ckFinish")
         /\ locks' = [locks EXCEPT !.zero = NoConn]
         /\ UNCHANGED ckpt

(* Is there anything to copy?  The header is the one read before.           *)
CkTest(c) ==
    /\ conn[c].pc = "ckTest"
    /\ IF shm.backfill < conn[c].hdr.mx
       THEN /\ Goto(c, "ckMarks")
            /\ ckpt' = [ckpt EXCEPT !.i = 1, !.safe = conn[c].hdr.mx]
            /\ UNCHANGED locks
       ELSE CkCopied(c)
    /\ UNCHANGED shm /\ KeepFiles /\ KeepRest

(* One read mark: a mark below mxSafeFrame is reset when nobody holds it,   *)
(* and limits the checkpoint when somebody does.                            *)
CkMark(c) ==
    /\ conn[c].pc = "ckMarks" /\ ckpt.i < Readers
    /\ LET i == ckpt.i
           low == shm.marks[i] < ckpt.safe
           free == MayExclude(c, i)
       IN /\ shm' = IF low /\ free
                    THEN [shm EXCEPT !.marks[i] = IF i = 1 THEN ckpt.safe ELSE NotUsed]
                    ELSE shm
          /\ ckpt' = [ckpt EXCEPT !.i = i + 1,
                                  !.safe = IF low /\ ~free THEN shm.marks[i] ELSE @]
    /\ UNCHANGED <<conn, locks>> /\ KeepFiles /\ KeepRest

(* walIteratorInit and walIteratorNext: for every page its last frame of    *)
(* the log, copied when it lies beyond nBackfill and not beyond mxSafeFrame. *)
(* Read lock 0 is held and the log flushed before the first page is copied.  *)
CkLock(c) ==
    /\ conn[c].pc = "ckMarks" /\ ckpt.i = Readers
    /\ IF shm.backfill < ckpt.safe /\ MayExclude(c, 0)
       THEN LET last == [p \in Pages |-> FindFrame(shm.index, 1, conn[c].hdr.mx, p)]
            IN /\ ckpt' = [ckpt EXCEPT
                             !.frame = last,
                             !.todo = {p \in Pages : last[p] > shm.backfill
                                                       /\ last[p] <= ckpt.safe}]
               /\ locks' = [locks EXCEPT !.zero = c]
               /\ walDisk' = wal
               /\ Flushed(wal)
               /\ Goto(c, "ckCopy")
       ELSE /\ CkCopied(c)
            /\ UNCHANGED <<walDisk, limbo, doubt>>
    /\ UNCHANGED <<db, dbDisk, wal, shm, sync, stamps, salts, faults>>

CkCopy(c) ==
    /\ conn[c].pc = "ckCopy" /\ ckpt.todo # {}
    /\ LET p == CHOOSE q \in ckpt.todo : \A r \in ckpt.todo : q <= r
       IN /\ db' = [db EXCEPT ![p] = wal.frames[ckpt.frame[p]].data]
          /\ ckpt' = [ckpt EXCEPT !.todo = @ \ {p}]
    /\ UNCHANGED <<dbDisk, wal, walDisk, shm, conn, locks>> /\ KeepRest

(* The database is flushed when the whole log has been copied.              *)
CkDone(c) ==
    /\ conn[c].pc = "ckCopy" /\ ckpt.todo = {}
    /\ dbDisk' = IF ckpt.safe = shm.hdr[1].mx THEN db ELSE dbDisk
    /\ shm' = [shm EXCEPT !.backfill = ckpt.safe]
    /\ CkCopied(c)
    /\ UNCHANGED <<db, wal, walDisk>> /\ KeepRest

(* A TRUNCATE checkpoint that copied everything starts the log over, when   *)
(* nobody reads from it.                                                    *)
CkRestart(c) ==
    /\ conn[c].pc = "ckFinish" /\ shm.backfill >= conn[c].hdr.mx
    /\ StartOver(c, [conn[c] EXCEPT !.pc = "restartHdr"])

CkBusy(c) ==
    /\ conn[c].pc = "ckFinish"
    /\ shm.backfill < conn[c].hdr.mx \/ ~MayExcludeRest(c)
    /\ CkEnd(c)
    /\ UNCHANGED shm /\ KeepFiles /\ KeepRest

------------------------------------------------------------------------------
(* Faults. *)

Released(c) ==
    [k \in DOMAIN locks |-> IF locks[k] = c THEN NoConn ELSE locks[k]]

(* A process dies: the system drops its locks, the files and the wal-index, *)
(* which other processes have mapped, stay as they are.  (An idle process   *)
(* holds nothing; its death is that of its cache only, and left out.)       *)
Crash(c) ==
    /\ faults < MaxFaults
    /\ conn[c].pc # "idle"
    /\ conn[c].pc = "restartInfo" => TornRestart
    /\ faults' = faults + 1
    /\ Step(c, Fresh)
    /\ locks' = Released(c)
    /\ ckpt' = IF ckpt.by = c THEN NoCkpt ELSE ckpt
    /\ UNCHANGED <<shm, sync, stamps, salts, limbo, doubt>> /\ KeepFiles

(* The power fails: shared memory is gone, and of the writes not flushed    *)
(* any set has reached the medium; a frame that did not is torn or old.     *)
Survivors(new, old) ==
    LET n == Len(new.frames)
        m == Len(old.frames)
        Mixed(S) == [i \in 1 .. n |-> IF i \in S THEN new.frames[i]
                                      ELSE IF i <= m THEN old.frames[i] ELSE Torn]
        kept == {i \in 1 .. n : i <= m /\ new.frames[i] = old.frames[i]}
    IN IF n < m THEN {new, old}
       ELSE {[salt |-> new.salt, frames |-> Mixed(S \union kept)] :
                S \in SUBSET ((1 .. n) \ kept)}

PowerLoss ==
    /\ faults < MaxFaults
    /\ faults' = faults + 1
    /\ \E S \in SUBSET {p \in Pages : db[p] # dbDisk[p]} :
         db' = [p \in Pages |-> IF p \in S THEN db[p] ELSE dbDisk[p]]
    /\ dbDisk' = db'
    /\ wal' \in Survivors(wal, walDisk)
    /\ walDisk' = wal'
    /\ shm' = ZeroShm
    /\ conn' = [c \in Conns |-> Fresh]
    /\ locks' = FreeLocks
    /\ ckpt' = NoCkpt
    /\ limbo' = {} /\ doubt' = {}
    /\ UNCHANGED <<sync, stamps, salts>>

------------------------------------------------------------------------------
(* A database that was never written, and one whose log holds a transaction *)
(* that is wholly backfilled.                                               *)
NeverUsed == [db |-> [p \in Pages |-> 0], wal |-> EmptyLog, shm |-> ZeroShm, n |-> 0]
Backfilled ==
    LET log == Framed([EmptyLog EXCEPT !.salt = 1], 0, Pages, 1, TRUE)
        mx == Cardinality(Pages)
        h == [mx |-> mx, salt |-> 1]
    IN [db |-> [p \in Pages |-> 1], wal |-> log, n |-> 1,
        shm |-> [hdr |-> <<h, h>>, backfill |-> mx, index |-> PageOrder(Pages),
                 marks |-> [i \in ReadMarks |-> IF i = 1 THEN mx ELSE NotUsed]]]

StartsAs(start) ==
    /\ db = start.db /\ dbDisk = db
    /\ wal = start.wal /\ walDisk = wal
    /\ shm = start.shm
    /\ stamps = start.n /\ salts = start.n
    /\ conn = [c \in Conns |-> Fresh]
    /\ locks = FreeLocks
    /\ ckpt = NoCkpt
    /\ sync \in Syncs
    /\ limbo = {} /\ doubt = {}

WalInit ==
    /\ StartsAs(NeverUsed) \/ StartsAs(Backfilled)
    /\ faults = 0

Reading(c) ==
    \/ ReadHdr(c) \/ ReadBadHdr(c) \/ TestBackfill(c) \/ CheckZero(c)
    \/ ChooseMark(c) \/ LockMark(c) \/ LoadMin(c) \/ Check(c) \/ EndRead(c)
    \/ Recover(c) \/ RecoverHdr(c) \/ RecoverInfo(c)

Writing(c) ==
    \/ BeginWrite(c) \/ KeepLog(c)
    \/ RestartLog(c) \/ RestartHdr(c) \/ RestartInfo(c)
    \/ AppendFrames(c) \/ Publish(c) \/ PublishHdr(c) \/ UndoWrite(c)

Checkpointing(c) ==
    \/ CkBegin(c) \/ CkTest(c) \/ CkMark(c) \/ CkLock(c)
    \/ CkCopy(c) \/ CkDone(c) \/ CkRestart(c) \/ CkBusy(c)

WalNext ==
    \/ \E c \in Conns : Reading(c) \/ Writing(c) \/ Checkpointing(c) \/ Crash(c)
    \/ PowerLoss

WalSpec == WalInit /\ [][WalNext]_walVars

------------------------------------------------------------------------------
(* What the log implements. *)

(* The image a connection reads: a writer's own pages are not committed,    *)
(* and while it appends to the log it reads nothing.                        *)
Snap(c) ==
    CASE conn[c].pc \in {"read", "write"} ->
           [p \in Pages |-> IF p \in conn[c].dirty THEN Image[p] ELSE ReadPage(c, p)]
      [] conn[c].pc \notin {"read", "write"} /\ conn[c].dirty # {} -> Image
      [] OTHER -> NoSnap

Intent(c) == [pages |-> conn[c].dirty, stamp |-> conn[c].stamp]

(* The promise of WalCkptInfo that nBackfill is never greater than mxFrame, *)
(* outside walRestartHdr: otherwise frames that are not in the database     *)
(* file would count as copied.                                              *)
BackfillWithinLog == GoodHdr =>
    \/ shm.backfill <= shm.hdr[1].mx
    \/ \E c \in Conns : conn[c].pc = "restartInfo"
==============================================================================
