------------------------ MODULE RollbackJournalProofs ------------------------
(***************************************************************************)
(* While a transaction has changed the database file and not yet finished, *)
(* there is a hot journal in the file system, and no other connection has  *)
(* a lock on the file.  The proof is by the inductive invariant IInv: what *)
(* the lock levels exclude (LocksInv), what a connection knows of its own  *)
(* locks and its own journal (LockState, JournalState), and what the file  *)
(* called journal then contains (Open).  One lemma per action shows that   *)
(* it keeps IInv.                                                          *)
(*                                                                         *)
(* KeepOpen is FALSE throughout: with it a journal handle may belong to a  *)
(* deleted file, and JournalCoversWrites does not hold.                    *)
(***************************************************************************)
EXTENDS RollbackJournal, TLAPS

Fields == {"pc", "mode", "lock", "reserved", "jfd", "own", "off", "hdr", "nRec", "left", "dirty",
           "todo", "inJournal", "dbMod", "commit", "hot", "play", "vers", "cache", "stamp"}

\* The contents of a journal file
Cells(j) == \E S : j \in Seq(S)
IsFile(j) == j = NoFile \/ Cells(j)
\* That there is no journal file is not a content of one.
NoFileDistinct == \A S : NoFile \notin Seq(S)
HeaderCell(x) == DOMAIN x = {"kind", "magic", "n", "nonce"} /\ x.kind = "header"

\* The program counters of a connection that holds the RESERVED lock
Writes == {"write", "commit", "count", "flush", "store", "finish"}

(* What holds of the Pager object of one connection. *)
Shape(w) ==
    /\ DOMAIN w = Fields /\ w = [f \in Fields |-> w[f]]
    /\ w.lock \in NONE .. EXCLUSIVE
    /\ w.reserved \in BOOLEAN /\ w.dbMod \in BOOLEAN /\ w.hot \in BOOLEAN

LockRules(w) ==
    /\ w.lock = NONE => w.pc = "idle"
    /\ w.reserved <=> w.pc \in Writes \/ (w.pc = "play" /\ ~w.hot)
    /\ w.hot => w.pc = "play" /\ w.lock = EXCLUSIVE /\ w.jfd = "open"
    /\ w.pc \in {"count", "flush"} \/ w.dbMod => w.lock = EXCLUSIVE
    /\ w.pc \in {"store", "finish"} => w.dbMod

LockState(w) == Shape(w) /\ LockRules(w)

JournalState(w) ==
    /\ w.jfd \in {"closed", "open", "orphan"} /\ w.off \in Nat /\ w.hdr \in Nat
    /\ w.pc \in {"idle", "exists", "reserved", "first", "hot"} => w.jfd = "closed"
    /\ w.mode = "delete" /\ w.off = 0 /\ ~w.hot => w.jfd = "closed"
    /\ w.reserved => w.jfd # "orphan"
    /\ w.dbMod \/ w.todo # {} => w.off > 0
    /\ w.off > 0 => w.reserved /\ w.jfd = "open" /\ 1 <= w.hdr /\ w.hdr <= w.off /\ (w.hdr = 1 \/ w.dbMod)
    /\ w.reserved /\ w.pc # "write" => w.off > 0

(* What holds of the journal that a connection with Pager object w has open. *)
Open(w, j) ==
    /\ w.jfd = "open" => j # NoFile
    /\ w.off > 0 => w.off <= Len(j) /\ HeaderCell(j[1])
    /\ w.dbMod \/ w.pc = "flush" => j[1].magic = TRUE

\* The journal, flushed or not, is a sequence of cells or does not exist.
FilesInv == IsFile(jrnl) /\ IsFile(jrnlDisk) /\ \A j \in old : IsFile(j)

\* One connection may hold RESERVED, one PENDING or more, and EXCLUSIVE excludes all.
LocksInv == \A c \in Conns : \A d \in Others(c) :
    /\ ~(pager[c].reserved /\ pager[d].reserved)
    /\ pager[c].lock >= PENDING => pager[d].lock < PENDING
    /\ pager[c].lock = EXCLUSIVE => pager[d].lock = NONE

\* An open handle names the journal, unless a connection deletes journals.
PagersInv ==
    /\ pager = [c \in Conns |-> pager[c]]
    /\ \A c \in Conns : LockState(pager[c]) /\ JournalState(pager[c]) /\ Open(pager[c], jrnl)
    /\ \A c \in Conns : pager[c].jfd = "orphan" => \E d \in Conns : pager[d].mode = "delete"

IInv == FilesInv /\ LocksInv /\ PagersInv

------------------------------------------------------------------------------
(* Journals as sequences *)

\* A cell is written at a position of the journal or behind its end.
LEMMA PutCell ==
    ASSUME NEW j, Cells(j), NEW i \in Nat, 1 <= i, i <= Len(j) + 1, NEW x
    PROVE  /\ Cells(Put(j, i, x)) /\ Len(j) <= Len(Put(j, i, x)) /\ i <= Len(Put(j, i, x))
           /\ Put(j, i, x)[i] = x
           /\ \A k \in 1 .. Len(j) : k # i => Put(j, i, x)[k] = j[k]
<1>1. PICK S : j \in Seq(S)
  BY DEF Cells
<1>2. PICK n \in Nat : n = Len(j)
  BY <1>1
<1>3. PICK T : T = S \union {x}
  OBVIOUS
<1>4. \A k \in 1 .. n : j[k] \in T
  BY <1>1, <1>2, <1>3
<1>5. PICK a : a = SubSeq(j, 1, i - 1)
  OBVIOUS
<1>6. /\ a \in Seq(T) /\ Len(a) = i - 1
      /\ \A k \in 1 .. i - 1 : a[k] = j[k]
  <2>1. i - 1 \in Nat /\ i - 1 <= n
    BY <1>2
  <2> QED BY <1>1, <1>2, <1>3, <1>5, <2>1
<1>7. PICK b : b = SubSeq(j, i + 1, n)
  OBVIOUS
<1>8. PICK m \in Nat : m = IF i + 1 <= n THEN n - i ELSE 0
  <2>1. i + 1 <= n => n - i \in Nat
    BY <1>2
  <2> QED BY <2>1
<1>9. b \in Seq(T) /\ Len(b) = m /\ \A k \in 1 .. m : b[k] = j[k + i]
  <2>1. CASE i + 1 <= n
    <3>1. m = n - i
      BY <1>8, <2>1
    <3> QED BY <1>1, <1>2, <1>3, <1>7, <2>1, <3>1
  <2>2. CASE ~(i + 1 <= n)
    <3>1. m = 0
      BY <1>8, <2>2
    <3>2. b = <<>>
      BY <1>1, <1>2, <1>7, <2>2
    <3> QED BY <3>1, <3>2
  <2> QED BY <2>1, <2>2
<1>10. PICK e : e = a \o <<x>>
  OBVIOUS
<1>11. /\ e \in Seq(T) /\ Len(e) = i /\ e[i] = x
       /\ \A k \in 1 .. i - 1 : e[k] = j[k]
  <2>1. <<x>> \in Seq(T) /\ Len(<<x>>) = 1 /\ <<x>>[1] = x
    BY <1>3
  <2> QED BY <1>6, <1>10, <2>1
<1>12. PICK r : r = e \o b
  OBVIOUS
<1>13. /\ r \in Seq(T) /\ Len(r) = i + m /\ r[i] = x
       /\ \A k \in 1 .. i - 1 : r[k] = j[k]
       /\ \A k \in i + 1 .. i + m : r[k] = b[k - i]
  <2>1. r \in Seq(T) /\ Len(r) = i + m
    <3>1. e \in Seq(T) /\ b \in Seq(T) /\ Len(e) = i /\ Len(b) = m
      BY <1>9, <1>11
    <3>2. e \o b \in Seq(T) /\ Len(e \o b) = Len(e) + Len(b)
      BY <3>1
    <3> QED BY <1>12, <3>1, <3>2
  <2>2. ASSUME NEW k \in 1 .. i PROVE r[k] = e[k]
    BY <1>9, <1>11, <1>12
  <2>3. ASSUME NEW k \in i + 1 .. i + m PROVE r[k] = b[k - i]
    BY <1>9, <1>11, <1>12
  <2>4. \A k \in 1 .. i - 1 : k \in 1 .. i
    OBVIOUS
  <2>5. i \in 1 .. i
    OBVIOUS
  <2> QED BY <1>11, <2>1, <2>2, <2>3, <2>4, <2>5
<1>14. Put(j, i, x) = r
  BY <1>2, <1>5, <1>7, <1>10, <1>12 DEF Put
<1>15. ASSUME NEW k \in 1 .. n, k # i PROVE r[k] = j[k]
  <2>1. CASE k < i
    BY <1>13, <2>1
  <2>2. CASE k > i
    <3>1. i + 1 <= n /\ m = n - i
      BY <1>8, <2>2
    <3>2. PICK h \in Nat : h = k - i
      BY <2>2
    <3>3. h \in 1 .. m /\ k \in i + 1 .. i + m /\ h + i = k
      BY <2>2, <3>1, <3>2
    <3>4. b[h] = j[k]
      BY <1>9, <3>3
    <3> QED BY <1>13, <3>2, <3>3, <3>4
  <2> QED BY <1>15, <2>1, <2>2
<1>16. n <= i + m /\ i <= i + m
  BY <1>2, <1>8
<1> QED BY <1>2, <1>13, <1>14, <1>15, <1>16 DEF Cells

Replaced(j, i, x) == [j EXCEPT ![i] = x]

\* A cell of a journal is replaced.
LEMMA ReplaceCell ==
    ASSUME NEW j, Cells(j), NEW i \in 1 .. Len(j), NEW x
    PROVE  /\ Cells(Replaced(j, i, x)) /\ Len(Replaced(j, i, x)) = Len(j) /\ Replaced(j, i, x)[i] = x
           /\ \A k \in 1 .. Len(j) : k # i => Replaced(j, i, x)[k] = j[k]
<1> DEFINE r == Replaced(j, i, x)
<1>1. PICK S : j \in Seq(S)
  BY DEF Cells
<1>2. PICK T : T = S \union {x}
  OBVIOUS
<1>3. j \in Seq(T) /\ x \in T
  BY <1>1, <1>2
<1>4. r \in Seq(T) /\ Len(r) = Len(j)
  BY <1>3 DEF Replaced
<1>5. r[i] = x /\ \A k \in 1 .. Len(j) : k # i => r[k] = j[k]
  BY <1>3 DEF Replaced
<1> QED BY <1>4, <1>5 DEF Cells

\* What a power loss leaves of a journal is a journal.
LEMMA SurvivorsFile ==
    ASSUME NEW new, NEW medium, IsFile(new), IsFile(medium), NEW j \in Survivors(new, medium)
    PROVE  IsFile(j)
<1>1. CASE j = new \/ j = medium
  BY <1>1
<1>2. CASE ~(j = new \/ j = medium)
  <2>1. new # NoFile /\ medium # NoFile /\ ~(Len(new) < Len(medium))
    BY <1>2 DEF Survivors
  <2>2. PICK S : new \in Seq(S)
    BY <2>1 DEF IsFile, Cells
  <2>3. PICK U : medium \in Seq(U)
    BY <2>1 DEF IsFile, Cells
  <2> DEFINE Lost(L) == [i \in DOMAIN new |-> IF i \notin L THEN new[i]
                                              ELSE IF i <= Len(medium) THEN medium[i] ELSE Torn]
  <2>4. \E L : j = Lost(L)
    BY <1>2, <2>1 DEF Survivors
  <2>5. PICK L : j = Lost(L)
    BY <2>4
  <2>6. PICK n \in Nat : n = Len(new) /\ DOMAIN new = 1 .. n
    BY <2>2
  <2>7. PICK T : T = {j[i] : i \in 1 .. n}
    OBVIOUS
  <2>8. j = [i \in 1 .. n |-> j[i]]
    BY <2>5, <2>6
  <2>9. \A i \in 1 .. n : j[i] \in T
    BY <2>7
  <2>10. j \in [1 .. n -> T]
    BY <2>8, <2>9
  <2>11. j \in Seq(T)
    BY <2>10
  <2> QED BY <2>11 DEF IsFile, Cells
<1> QED BY <1>1, <1>2

------------------------------------------------------------------------------
(* Steps of one connection *)

\* The locks that connection c has when its Pager object becomes w have been free.
Granted(c, w) ==
    /\ w.reserved => pager[c].reserved \/ MayReserve(c)
    /\ w.lock >= PENDING => pager[c].lock >= PENDING \/ MayPend(c)
    /\ w.lock = EXCLUSIVE => pager[c].lock = EXCLUSIVE \/ MayExclude(c)
    /\ w.lock # NONE => pager[c].lock # NONE \/ MayShare(c)

\* Locks are granted.
LEMMA LocksKept ==
    ASSUME PagersInv, LocksInv, NEW c \in Conns, NEW w, LockState(w), Granted(c, w), pager'[c] = w,
           \A d \in Others(c) : pager'[d].lock = pager[d].lock /\ pager'[d].reserved = pager[d].reserved
    PROVE  LocksInv'
<1>1. pager'[c] = w
  OBVIOUS
<1>2. ASSUME NEW d \in Others(c)
      PROVE  /\ ~(w.reserved /\ pager[d].reserved)
             /\ w.lock >= PENDING => pager[d].lock < PENDING
             /\ w.lock = EXCLUSIVE => pager[d].lock = NONE
             /\ pager[d].lock = EXCLUSIVE => w.lock = NONE
             /\ pager[d].lock >= PENDING => w.lock < PENDING
  <2>1. d \in Conns /\ c \in Others(d)
    BY DEF Others
  <2>2. /\ ~(pager[c].reserved /\ pager[d].reserved)
        /\ pager[c].lock >= PENDING => pager[d].lock < PENDING
        /\ pager[c].lock = EXCLUSIVE => pager[d].lock = NONE
        /\ pager[d].lock = EXCLUSIVE => pager[c].lock = NONE
        /\ pager[d].lock >= PENDING => pager[c].lock < PENDING
    BY <2>1 DEF LocksInv
  <2>3. pager[c].lock \in 0 .. 4 /\ pager[d].lock \in 0 .. 4 /\ w.lock \in 0 .. 4
    BY <2>1 DEF PagersInv, LockState, Shape, LockRules, NONE, EXCLUSIVE
  <2>4. w.reserved => ~pager[d].reserved
    BY <2>2 DEF Granted, MayReserve
  <2>5. w.lock >= PENDING => pager[d].lock < PENDING
    BY <2>2 DEF Granted, MayPend
  <2>6. w.lock = EXCLUSIVE => pager[d].lock = NONE
    BY <2>2 DEF Granted, MayExclude
  <2>7. w.lock # NONE => pager[d].lock # EXCLUSIVE
    BY <2>2, <2>3 DEF Granted, MayShare, PENDING, EXCLUSIVE
  <2> QED BY <2>3, <2>4, <2>5, <2>6, <2>7 DEF PENDING
<1>3. ASSUME NEW d \in Conns, NEW e \in Others(d)
      PROVE  /\ ~(pager'[d].reserved /\ pager'[e].reserved)
             /\ pager'[d].lock >= PENDING => pager'[e].lock < PENDING
             /\ pager'[d].lock = EXCLUSIVE => pager'[e].lock = NONE
  <2>1. CASE d = c
    BY <1>1, <1>2, <2>1
  <2>2. CASE e = c
    <3>1. d \in Others(c)
      BY <1>3, <2>2 DEF Others
    <3> QED BY <1>1, <1>2, <2>2, <3>1
  <2>3. CASE d # c /\ e # c
    <3>1. d \in Others(c) /\ e \in Others(c)
      BY <1>3, <2>3 DEF Others
    <3> QED BY <1>1, <3>1 DEF LocksInv
  <2> QED BY <2>1, <2>2, <2>3
<1>4. \A d : Others(d)' = Others(d)
  BY DEF Others
<1> QED BY <1>3, <1>4 DEF LocksInv

\* While a connection writes or has the EXCLUSIVE lock, no other has written to the journal.
LEMMA OnlyWriter ==
    ASSUME PagersInv, LocksInv, NEW c \in Conns, NEW d \in Others(c),
           pager[c].reserved \/ pager[c].lock = EXCLUSIVE
    PROVE  pager[d].off = 0 /\ ~pager[d].dbMod /\ pager[d].pc # "flush" /\ ~pager[d].reserved /\ ~pager[d].hot
<1>1. d \in Conns /\ c \in Others(d)
  BY DEF Others
<1>2. LockState(pager[d]) /\ JournalState(pager[d])
  BY <1>1 DEF PagersInv
<1>3. LockState(pager[c])
  BY DEF PagersInv
<1>4. ~pager[d].reserved
  <2>1. CASE pager[c].reserved
    BY <2>1 DEF LocksInv
  <2>2. CASE pager[c].lock = EXCLUSIVE
    <3>1. pager[d].lock = NONE
      BY <2>2 DEF LocksInv
    <3>2. pager[d].pc = "idle"
      BY <1>2, <3>1 DEF LockState, Shape, LockRules
    <3> QED BY <1>2, <3>2 DEF LockState, Shape, LockRules, Writes
  <2> QED BY <2>1, <2>2
<1>5. pager[c].lock # NONE
  <2>1. pager[c].lock = NONE => pager[c].pc = "idle"
    BY <1>3 DEF LockState, Shape, LockRules
  <2>2. pager[c].reserved => pager[c].pc # "idle"
    BY <1>3 DEF LockState, Shape, LockRules, Writes
  <2>3. EXCLUSIVE # NONE
    BY DEF EXCLUSIVE, NONE
  <2> QED BY <2>1, <2>2, <2>3
<1>6. pager[d].lock # EXCLUSIVE
  BY <1>1, <1>5 DEF LocksInv
<1>7. pager[d].off = 0 /\ ~pager[d].dbMod
  BY <1>2, <1>4, <1>6 DEF JournalState, LockState, Shape, LockRules
<1>8. pager[d].pc # "flush" /\ ~pager[d].hot
  BY <1>2, <1>4, <1>6 DEF LockState, Shape, LockRules, Writes
<1> QED BY <1>4, <1>7, <1>8

\* Connection c takes a step on its Pager object, and on the journal if it is
\* the only one that may.
LEMMA StepKeeps ==
    ASSUME IInv, NoFileDistinct, NEW c \in Conns, NEW w, pager' = [pager EXCEPT ![c] = w],
           LockState(w), JournalState(w), Granted(c, w), w.mode = pager[c].mode,
           w.jfd = "orphan" => pager[c].jfd = "orphan",
           Open(w, jrnl'), FilesInv',
           \/ UNCHANGED jrnl
           \/ Cells(jrnl') /\ (pager[c].reserved \/ pager[c].lock = EXCLUSIVE)
    PROVE  IInv'
<1>1. pager'[c] = w /\ \A d \in Others(c) : pager'[d] = pager[d]
  BY DEF IInv, PagersInv, Others
<1>2. LocksInv'
  BY <1>1, LocksKept DEF IInv
<1>3. \A d \in Conns : d = c \/ d \in Others(c)
  BY DEF Others
<1>4. ASSUME NEW d \in Others(c) PROVE Open(pager[d], jrnl')
  <2>1. Open(pager[d], jrnl)
    BY DEF IInv, PagersInv, Others
  <2>2. CASE UNCHANGED jrnl
    BY <2>1, <2>2
  <2>3. CASE Cells(jrnl') /\ (pager[c].reserved \/ pager[c].lock = EXCLUSIVE)
    <3>1. jrnl' # NoFile
      BY <2>3 DEF Cells, NoFileDistinct
    <3>2. pager[d].off = 0 /\ ~pager[d].dbMod /\ pager[d].pc # "flush"
      BY <2>3, OnlyWriter DEF IInv
    <3> QED BY <3>1, <3>2 DEF Open
  <2> QED BY <2>2, <2>3
<1>5. \A d \in Conns : LockState(pager'[d]) /\ JournalState(pager'[d]) /\ Open(pager'[d], jrnl')
  BY <1>1, <1>3, <1>4 DEF IInv, PagersInv
<1>6. \A d \in Conns : pager'[d].mode = pager[d].mode /\ (pager'[d].jfd = "orphan" => pager[d].jfd = "orphan")
  BY <1>1, <1>3
<1>7. pager' = [d \in Conns |-> pager'[d]]
  BY DEF IInv, PagersInv
<1>8. PagersInv'
  BY <1>5, <1>6, <1>7 DEF IInv, PagersInv
<1> QED BY <1>2, <1>8 DEF IInv
\* The files do not change.
LEMMA FilesKept == ASSUME FilesInv, UNCHANGED <<jrnl, jrnlDisk, old>> PROVE FilesInv'
BY DEF FilesInv, IsFile, Cells

\* What the invariant says of one connection.
LEMMA OneConn ==
    ASSUME IInv, NEW c \in Conns
    PROVE  LockState(pager[c]) /\ JournalState(pager[c]) /\ Open(pager[c], jrnl) /\ pager[c].lock \in 0 .. 4
BY DEF IInv, PagersInv, LockState, Shape, LockRules, NONE, EXCLUSIVE

\* The SHARED lock
LEMMA LockSharedKeeps == ASSUME IInv, NoFileDistinct, NEW c \in Conns, LockShared(c) PROVE IInv'
<1>1. PICK v : v = pager[c]
  OBVIOUS
<1>2. LockState(v) /\ JournalState(v) /\ Open(v, jrnl) /\ v.lock \in 0 .. 4
  BY <1>1, OneConn
<1>3. PICK w : w = [v EXCEPT !.pc = "exists", !.lock = SHARED]
  OBVIOUS
<1>4. pager' = [pager EXCEPT ![c] = w] /\ UNCHANGED <<jrnl, jrnlDisk, old>>
  BY <1>1, <1>3 DEF LockShared, Step, KeepFiles
<1>5. /\ DOMAIN w = Fields /\ w = [f \in Fields |-> w[f]] /\ w.pc = "exists"
      /\ w.mode = v.mode /\ w.lock = SHARED /\ w.reserved = v.reserved /\ w.jfd = v.jfd
      /\ w.off = v.off /\ w.hdr = v.hdr /\ w.todo = v.todo /\ w.dbMod = v.dbMod
      /\ w.hot = v.hot
  BY <1>2, <1>3 DEF LockState, Shape, Fields
<1>6. v.pc = "idle" /\ MayShare(c) /\ ~v.reserved /\ ~v.hot /\ ~v.dbMod
  BY <1>1, <1>2 DEF LockShared, LockState, Shape, LockRules, JournalState, Writes, NONE, SHARED, EXCLUSIVE, PENDING
<1>7. LockState(w)
  <2>1. Shape(w)
    BY <1>2, <1>5, <1>6 DEF LockState, Shape, NONE, SHARED, RESERVED, PENDING, EXCLUSIVE
  <2>2. LockRules(w)
    BY <1>2, <1>5, <1>6 DEF LockState, LockRules, Writes, NONE, SHARED, RESERVED, PENDING, EXCLUSIVE
  <2> QED BY <2>1, <2>2 DEF LockState
<1>8. JournalState(w)
  BY <1>2, <1>5, <1>6 DEF JournalState
<1>9. Granted(c, w)
  BY <1>1, <1>2, <1>5, <1>6 DEF Granted, NONE, SHARED, RESERVED, PENDING, EXCLUSIVE
<1>10. Open(w, jrnl')
  BY <1>2, <1>4, <1>5, <1>6 DEF Open
<1>11. FilesInv'
  BY <1>4, FilesKept DEF IInv
<1> QED BY <1>1, <1>4, <1>5, <1>7, <1>8, <1>9, <1>10, <1>11, StepKeeps

\* A connection looks for a hot journal.
LEMMA LookingKeeps ==
    ASSUME IInv, NoFileDistinct, NEW c \in Conns,
           NEW pc \in {"reserved", "first", "hot", "validate"}, pager[c].pc \in {"exists", "reserved", "first"},
           Step(c, [pager[c] EXCEPT !.pc = pc]), KeepFiles
    PROVE  IInv'
<1>1. PICK v : v = pager[c]
  OBVIOUS
<1>2. LockState(v) /\ JournalState(v) /\ Open(v, jrnl) /\ v.lock \in 0 .. 4
  BY <1>1, OneConn
<1>3. PICK w : w = [v EXCEPT !.pc = pc]
  OBVIOUS
<1>4. pager' = [pager EXCEPT ![c] = w] /\ UNCHANGED <<jrnl, jrnlDisk, old>>
  BY <1>1, <1>3 DEF Step, KeepFiles
<1>5. /\ DOMAIN w = Fields /\ w = [f \in Fields |-> w[f]] /\ w.pc = pc /\ w.mode = v.mode
      /\ w.lock = v.lock /\ w.reserved = v.reserved /\ w.jfd = v.jfd /\ w.off = v.off
      /\ w.hdr = v.hdr /\ w.todo = v.todo /\ w.dbMod = v.dbMod /\ w.hot = v.hot
  BY <1>2, <1>3 DEF LockState, Shape, Fields
<1>6. v.pc \in {"exists", "reserved", "first"} /\ v.lock # NONE /\ ~v.reserved /\ ~v.hot /\ ~v.dbMod
  BY <1>1, <1>2 DEF LockState, Shape, LockRules, JournalState, Writes, NONE, SHARED, EXCLUSIVE, PENDING
<1>7. LockState(w)
  <2>1. Shape(w)
    BY <1>2, <1>5, <1>6 DEF LockState, Shape, NONE, SHARED, RESERVED, PENDING, EXCLUSIVE
  <2>2. LockRules(w)
    BY <1>2, <1>5, <1>6 DEF LockState, LockRules, Writes, NONE, SHARED, RESERVED, PENDING, EXCLUSIVE
  <2> QED BY <2>1, <2>2 DEF LockState
<1>8. JournalState(w)
  BY <1>2, <1>5, <1>6 DEF JournalState
<1>9. Granted(c, w)
  BY <1>1, <1>2, <1>5, <1>6 DEF Granted, NONE, SHARED, RESERVED, PENDING, EXCLUSIVE
<1>10. Open(w, jrnl')
  BY <1>2, <1>4, <1>5, <1>6 DEF Open
<1>11. FilesInv'
  BY <1>4, FilesKept DEF IInv
<1> QED BY <1>1, <1>4, <1>5, <1>7, <1>8, <1>9, <1>10, <1>11, StepKeeps

\* hasHotJournal looks for the journal, for a writer, and at the first byte.
LEMMA HasHotJournalKeeps ==
    ASSUME IInv, NoFileDistinct, NEW c \in Conns, FindJournal(c) \/ CheckReserved(c) \/ ReadFirst(c)
    PROVE  IInv'
<1>1. CASE FindJournal(c)
  <2>1. PICK pc \in {"validate", "reserved"} : pc = IF jrnl = NoFile THEN "validate" ELSE "reserved"
    OBVIOUS
  <2> QED BY <1>1, <2>1, LookingKeeps DEF FindJournal
<1>2. CASE CheckReserved(c)
  <2>1. PICK pc \in {"validate", "first"} : pc = IF MayReserve(c) THEN "first" ELSE "validate"
    OBVIOUS
  <2> QED BY <1>2, <2>1, LookingKeeps DEF CheckReserved
<1>3. CASE ReadFirst(c)
  <2>1. PICK pc \in {"validate", "hot"} : pc = IF jrnl = NoFile \/ FirstByte(jrnl) THEN "hot" ELSE "validate"
    OBVIOUS
  <2> QED BY <1>3, <2>1, LookingKeeps DEF ReadFirst
<1> QED BY <1>1, <1>2, <1>3

\* The cache is validated.
LEMMA ValidateKeeps == ASSUME IInv, NoFileDistinct, NEW c \in Conns, Validate(c) PROVE IInv'
<1>1. PICK v : v = pager[c]
  OBVIOUS
<1>2. LockState(v) /\ JournalState(v) /\ Open(v, jrnl) /\ v.lock \in 0 .. 4
  BY <1>1, OneConn
<1>3. PICK w : w = [v EXCEPT !.pc = "read", !.vers = file[1].ver,
                       !.cache = IF v.vers = file[1].ver THEN @ ELSE NoSnap]
  OBVIOUS
<1>4. pager' = [pager EXCEPT ![c] = w] /\ UNCHANGED <<jrnl, jrnlDisk, old>>
  BY <1>1, <1>3 DEF Validate, Step, KeepFiles
<1>5. /\ DOMAIN w = Fields /\ w = [f \in Fields |-> w[f]] /\ w.pc = "read"
      /\ w.mode = v.mode /\ w.lock = v.lock /\ w.reserved = v.reserved /\ w.jfd = v.jfd
      /\ w.off = v.off /\ w.hdr = v.hdr /\ w.todo = v.todo /\ w.dbMod = v.dbMod
      /\ w.hot = v.hot
  BY <1>2, <1>3 DEF LockState, Shape, Fields
<1>6. v.pc = "validate" /\ v.lock # NONE /\ ~v.reserved /\ ~v.hot /\ ~v.dbMod
  BY <1>1, <1>2 DEF Validate, LockState, Shape, LockRules, JournalState, Writes, NONE, SHARED, EXCLUSIVE, PENDING
<1>7. LockState(w)
  <2>1. Shape(w)
    BY <1>2, <1>5, <1>6 DEF LockState, Shape, NONE, SHARED, RESERVED, PENDING, EXCLUSIVE
  <2>2. LockRules(w)
    BY <1>2, <1>5, <1>6 DEF LockState, LockRules, Writes, NONE, SHARED, RESERVED, PENDING, EXCLUSIVE
  <2> QED BY <2>1, <2>2 DEF LockState
<1>8. JournalState(w)
  BY <1>2, <1>5, <1>6 DEF JournalState
<1>9. Granted(c, w)
  BY <1>1, <1>2, <1>5, <1>6 DEF Granted, NONE, SHARED, RESERVED, PENDING, EXCLUSIVE
<1>10. Open(w, jrnl')
  BY <1>2, <1>4, <1>5, <1>6 DEF Open
<1>11. FilesInv'
  BY <1>4, FilesKept DEF IInv
<1> QED BY <1>1, <1>4, <1>5, <1>7, <1>8, <1>9, <1>10, <1>11, StepKeeps

\* The read transaction ends.
LEMMA EndReadKeeps == ASSUME IInv, NoFileDistinct, NEW c \in Conns, EndRead(c) PROVE IInv'
<1>1. PICK v : v = pager[c]
  OBVIOUS
<1>2. LockState(v) /\ JournalState(v) /\ Open(v, jrnl) /\ v.lock \in 0 .. 4
  BY <1>1, OneConn
<1>3. PICK w : w = [v EXCEPT !.pc = "idle", !.lock = NONE, !.jfd = "closed", !.own = <<>>,
                       !.cache = [p \in Pages |-> Content(c, p)]]
  OBVIOUS
<1>4. pager' = [pager EXCEPT ![c] = w] /\ UNCHANGED <<jrnl, jrnlDisk, old>>
  BY <1>1, <1>3 DEF EndRead, Step, KeepFiles
<1>5. /\ DOMAIN w = Fields /\ w = [f \in Fields |-> w[f]] /\ w.pc = "idle"
      /\ w.mode = v.mode /\ w.lock = NONE /\ w.reserved = v.reserved /\ w.jfd = "closed"
      /\ w.off = v.off /\ w.hdr = v.hdr /\ w.todo = v.todo /\ w.dbMod = v.dbMod
      /\ w.hot = v.hot
  BY <1>2, <1>3 DEF LockState, Shape, Fields
<1>6. v.pc = "read" /\ v.lock # NONE /\ ~v.reserved /\ ~v.hot /\ ~v.dbMod
  BY <1>1, <1>2 DEF EndRead, LockState, Shape, LockRules, JournalState, Writes, NONE, SHARED, EXCLUSIVE, PENDING
<1>7. LockState(w)
  <2>1. Shape(w)
    BY <1>2, <1>5, <1>6 DEF LockState, Shape, NONE, SHARED, RESERVED, PENDING, EXCLUSIVE
  <2>2. LockRules(w)
    BY <1>2, <1>5, <1>6 DEF LockState, LockRules, Writes, NONE, SHARED, RESERVED, PENDING, EXCLUSIVE
  <2> QED BY <2>1, <2>2 DEF LockState
<1>8. JournalState(w)
  BY <1>2, <1>5, <1>6 DEF JournalState
<1>9. Granted(c, w)
  BY <1>1, <1>2, <1>5, <1>6 DEF Granted, NONE, SHARED, RESERVED, PENDING, EXCLUSIVE
<1>10. Open(w, jrnl')
  BY <1>2, <1>4, <1>5, <1>6 DEF Open
<1>11. FilesInv'
  BY <1>4, FilesKept DEF IInv
<1> QED BY <1>1, <1>4, <1>5, <1>7, <1>8, <1>9, <1>10, <1>11, StepKeeps

\* The EXCLUSIVE lock for playing a hot journal back
LEMMA LockHotKeeps == ASSUME IInv, NoFileDistinct, NEW c \in Conns, LockHot(c) PROVE IInv'
<1>1. PICK v : v = pager[c]
  OBVIOUS
<1>2. LockState(v) /\ JournalState(v) /\ Open(v, jrnl) /\ v.lock \in 0 .. 4
  BY <1>1, OneConn
<1>3. CASE ~MayExclude(c)
  <2>1. PICK w : w = [v EXCEPT !.pc = "idle", !.lock = NONE]
    OBVIOUS
  <2>2. pager' = [pager EXCEPT ![c] = w] /\ UNCHANGED <<jrnl, jrnlDisk, old>>
    BY <1>1, <2>1, <1>3 DEF LockHot, Step, KeepFiles
  <2>3. /\ DOMAIN w = Fields /\ w = [f \in Fields |-> w[f]] /\ w.pc = "idle"
        /\ w.mode = v.mode /\ w.lock = NONE /\ w.reserved = v.reserved /\ w.jfd = v.jfd
        /\ w.off = v.off /\ w.hdr = v.hdr /\ w.todo = v.todo /\ w.dbMod = v.dbMod
        /\ w.hot = v.hot
    BY <1>2, <2>1 DEF LockState, Shape, Fields
  <2>4. v.pc = "hot" /\ v.jfd = "closed" /\ v.lock # NONE /\ ~v.reserved /\ ~v.hot /\ ~v.dbMod
    BY <1>1, <1>2, <1>3 DEF LockHot, LockState, Shape, LockRules, JournalState, Writes, NONE, SHARED, EXCLUSIVE, PENDING
  <2>5. LockState(w)
    <3>1. Shape(w)
      BY <1>2, <2>3, <2>4 DEF LockState, Shape, NONE, SHARED, RESERVED, PENDING, EXCLUSIVE
    <3>2. LockRules(w)
      BY <1>2, <2>3, <2>4 DEF LockState, LockRules, Writes, NONE, SHARED, RESERVED, PENDING, EXCLUSIVE
    <3> QED BY <3>1, <3>2 DEF LockState
  <2>6. JournalState(w)
    BY <1>2, <2>3, <2>4 DEF JournalState
  <2>7. Granted(c, w)
    BY <1>1, <1>2, <2>3, <2>4 DEF Granted, NONE, SHARED, RESERVED, PENDING, EXCLUSIVE
  <2>8. Open(w, jrnl')
    BY <1>2, <2>2, <2>3, <2>4 DEF Open
  <2>9. FilesInv'
    BY <2>2, FilesKept DEF IInv
  <2> QED BY <1>1, <2>2, <2>3, <2>5, <2>6, <2>7, <2>8, <2>9, StepKeeps
<1>4. CASE MayExclude(c) /\ jrnl = NoFile
  <2>1. PICK w : w = [v EXCEPT !.pc = "validate"]
    OBVIOUS
  <2>2. pager' = [pager EXCEPT ![c] = w] /\ UNCHANGED <<jrnl, jrnlDisk, old>>
    BY <1>1, <2>1, <1>4 DEF LockHot, Step, KeepFiles
  <2>3. /\ DOMAIN w = Fields /\ w = [f \in Fields |-> w[f]] /\ w.pc = "validate"
        /\ w.mode = v.mode /\ w.lock = v.lock /\ w.reserved = v.reserved /\ w.jfd = v.jfd
        /\ w.off = v.off /\ w.hdr = v.hdr /\ w.todo = v.todo /\ w.dbMod = v.dbMod
        /\ w.hot = v.hot
    BY <1>2, <2>1 DEF LockState, Shape, Fields
  <2>4. v.pc = "hot" /\ v.jfd = "closed" /\ v.lock # NONE /\ ~v.reserved /\ ~v.hot /\ ~v.dbMod
    BY <1>1, <1>2, <1>4 DEF LockHot, LockState, Shape, LockRules, JournalState, Writes, NONE, SHARED, EXCLUSIVE, PENDING
  <2>5. LockState(w)
    <3>1. Shape(w)
      BY <1>2, <2>3, <2>4 DEF LockState, Shape, NONE, SHARED, RESERVED, PENDING, EXCLUSIVE
    <3>2. LockRules(w)
      BY <1>2, <2>3, <2>4 DEF LockState, LockRules, Writes, NONE, SHARED, RESERVED, PENDING, EXCLUSIVE
    <3> QED BY <3>1, <3>2 DEF LockState
  <2>6. JournalState(w)
    BY <1>2, <2>3, <2>4 DEF JournalState
  <2>7. Granted(c, w)
    BY <1>1, <1>2, <2>3, <2>4 DEF Granted, NONE, SHARED, RESERVED, PENDING, EXCLUSIVE
  <2>8. Open(w, jrnl')
    BY <1>2, <2>2, <2>3, <2>4 DEF Open
  <2>9. FilesInv'
    BY <2>2, FilesKept DEF IInv
  <2> QED BY <1>1, <2>2, <2>3, <2>5, <2>6, <2>7, <2>8, <2>9, StepKeeps
<1>5. CASE MayExclude(c) /\ jrnl # NoFile
  <2>1. PICK w : w = [v EXCEPT !.pc = "play", !.lock = EXCLUSIVE, !.hot = TRUE, !.jfd = "open",
                         !.play = Playable(jrnl, 0)]
    OBVIOUS
  <2>2. pager' = [pager EXCEPT ![c] = w] /\ UNCHANGED <<jrnl, old>> /\ jrnlDisk' = jrnl
    BY <1>1, <2>1, <1>5 DEF LockHot, Step, KeepFiles
  <2>3. /\ DOMAIN w = Fields /\ w = [f \in Fields |-> w[f]] /\ w.pc = "play"
        /\ w.mode = v.mode /\ w.lock = EXCLUSIVE /\ w.reserved = v.reserved
        /\ w.jfd = "open" /\ w.off = v.off /\ w.hdr = v.hdr /\ w.todo = v.todo
        /\ w.dbMod = v.dbMod /\ w.hot = TRUE
    BY <1>2, <2>1 DEF LockState, Shape, Fields
  <2>4. v.pc = "hot" /\ v.jfd = "closed" /\ MayExclude(c) /\ MayPend(c) /\ jrnl # NoFile /\ v.lock # NONE /\ ~v.reserved /\ ~v.hot /\ ~v.dbMod
    BY <1>1, <1>2, <1>5 DEF LockHot, MayExclude, LockState, Shape, LockRules, JournalState, Writes, NONE, SHARED, EXCLUSIVE, PENDING
  <2>5. LockState(w)
    <3>1. Shape(w)
      <4>1. w.lock \in NONE .. EXCLUSIVE
        BY <1>2, <2>3, <2>4 DEF LockState, Shape, NONE, SHARED, RESERVED, PENDING, EXCLUSIVE
      <4>2. w.reserved \in BOOLEAN /\ w.dbMod \in BOOLEAN /\ w.hot \in BOOLEAN
        BY <1>2, <2>3 DEF LockState, Shape
      <4> QED BY <2>3, <4>1, <4>2 DEF Shape
    <3>2. LockRules(w)
      BY <1>2, <2>3, <2>4 DEF LockState, LockRules, Writes, NONE, SHARED, RESERVED, PENDING, EXCLUSIVE
    <3> QED BY <3>1, <3>2 DEF LockState
  <2>6. JournalState(w)
    BY <1>2, <2>3, <2>4 DEF JournalState
  <2>7. Granted(c, w)
    BY <1>1, <1>2, <2>3, <2>4 DEF Granted, NONE, SHARED, RESERVED, PENDING, EXCLUSIVE
  <2>8. Open(w, jrnl')
    BY <1>2, <2>2, <2>3, <2>4 DEF Open
  <2>9. FilesInv'
    BY <2>2 DEF IInv, FilesInv, IsFile, Cells
  <2> QED BY <1>1, <2>2, <2>3, <2>5, <2>6, <2>7, <2>8, <2>9, StepKeeps
<1> QED BY <1>3, <1>4, <1>5

\* A page is played back.
LEMMA PlayPageKeeps == ASSUME IInv, NoFileDistinct, NEW c \in Conns, PlayPage(c) PROVE IInv'
<1>1. PICK v : v = pager[c]
  OBVIOUS
<1>2. LockState(v) /\ JournalState(v) /\ Open(v, jrnl) /\ v.lock \in 0 .. 4
  BY <1>1, OneConn
<1>3. PICK play, vers, cache : pager' = [pager EXCEPT ![c] = [v EXCEPT !.play = play, !.vers = vers, !.cache = cache]]
  BY <1>1 DEF PlayPage, Step
<1>4. PICK w : w = [v EXCEPT !.play = play, !.vers = vers, !.cache = cache]
  OBVIOUS
<1>5. pager' = [pager EXCEPT ![c] = w] /\ UNCHANGED <<jrnl, jrnlDisk, old>>
  BY <1>1, <1>4, <1>3 DEF PlayPage, Step, KeepFiles
<1>6. /\ DOMAIN w = Fields /\ w = [f \in Fields |-> w[f]] /\ w.pc = v.pc
      /\ w.mode = v.mode /\ w.lock = v.lock /\ w.reserved = v.reserved /\ w.jfd = v.jfd
      /\ w.off = v.off /\ w.hdr = v.hdr /\ w.todo = v.todo /\ w.dbMod = v.dbMod
      /\ w.hot = v.hot
  BY <1>2, <1>4 DEF LockState, Shape, Fields
<1>7. v.lock # NONE
  BY <1>1, <1>2, <1>3 DEF PlayPage, LockState, Shape, LockRules, JournalState, Writes, NONE, SHARED, EXCLUSIVE, PENDING
<1>8. LockState(w)
  <2>1. Shape(w)
    BY <1>2, <1>6, <1>7 DEF LockState, Shape, NONE, SHARED, RESERVED, PENDING, EXCLUSIVE
  <2>2. LockRules(w)
    BY <1>2, <1>6, <1>7 DEF LockState, LockRules, Writes, NONE, SHARED, RESERVED, PENDING, EXCLUSIVE
  <2> QED BY <2>1, <2>2 DEF LockState
<1>9. JournalState(w)
  BY <1>2, <1>6, <1>7 DEF JournalState
<1>10. Granted(c, w)
  BY <1>1, <1>2, <1>6, <1>7 DEF Granted, NONE, SHARED, RESERVED, PENDING, EXCLUSIVE
<1>11. Open(w, jrnl')
  BY <1>2, <1>5, <1>6, <1>7 DEF Open
<1>12. FilesInv'
  BY <1>5, FilesKept DEF IInv
<1> QED BY <1>1, <1>5, <1>6, <1>8, <1>9, <1>10, <1>11, <1>12, StepKeeps

\* A write transaction begins.
LEMMA BeginWriteKeeps == ASSUME IInv, NoFileDistinct, NEW c \in Conns, ~KeepOpen, BeginWrite(c) PROVE IInv'
<1>1. PICK v : v = pager[c]
  OBVIOUS
<1>2. LockState(v) /\ JournalState(v) /\ Open(v, jrnl) /\ v.lock \in 0 .. 4
  BY <1>1, OneConn
<1>3. PICK W : pager' = [pager EXCEPT ![c] = [v EXCEPT !.pc = "write", !.lock = RESERVED, !.reserved = TRUE,
                                                        !.dirty = W, !.left = W, !.stamp = stamps + 1]]
  BY <1>1 DEF BeginWrite, Step
<1>20. v.jfd # "orphan"
  <2>1. v.jfd = "orphan" => \E d \in Conns : pager[d].mode = "delete"
    BY <1>1 DEF IInv, PagersInv
  <2>2. v.jfd = "closed" \/ \A d \in Conns : pager[d].mode = v.mode
    BY <1>1 DEF BeginWrite
  <2>3. v.pc = "read"
    BY <1>1 DEF BeginWrite
  <2>4. v.mode = "delete" => v.jfd = "closed"
    BY <1>2, <2>3 DEF LockState, Shape, LockRules, JournalState, Writes
  <2> QED BY <2>1, <2>2, <2>4
<1>4. PICK w : w = [v EXCEPT !.pc = "write", !.lock = RESERVED, !.reserved = TRUE,
                       !.dirty = W, !.left = W, !.stamp = stamps + 1]
  OBVIOUS
<1>5. pager' = [pager EXCEPT ![c] = w] /\ UNCHANGED <<jrnl, jrnlDisk, old>>
  BY <1>1, <1>4, <1>3, <1>20 DEF BeginWrite, Step, KeepFiles
<1>6. /\ DOMAIN w = Fields /\ w = [f \in Fields |-> w[f]] /\ w.pc = "write"
      /\ w.mode = v.mode /\ w.lock = RESERVED /\ w.reserved = TRUE /\ w.jfd = v.jfd
      /\ w.off = v.off /\ w.hdr = v.hdr /\ w.todo = v.todo /\ w.dbMod = v.dbMod
      /\ w.hot = v.hot
  BY <1>2, <1>4 DEF LockState, Shape, Fields
<1>7. v.pc = "read" /\ MayReserve(c) /\ v.jfd # "orphan" /\ v.off = 0 /\ v.lock # NONE /\ ~v.reserved /\ ~v.hot /\ ~v.dbMod
  BY <1>1, <1>2, <1>3, <1>20 DEF BeginWrite, LockState, Shape, LockRules, JournalState, Writes, NONE, SHARED, EXCLUSIVE, PENDING
<1>8. LockState(w)
  <2>1. Shape(w)
    <3>1. w.lock \in NONE .. EXCLUSIVE
      BY <1>2, <1>6, <1>7 DEF LockState, Shape, NONE, SHARED, RESERVED, PENDING, EXCLUSIVE
    <3>2. w.reserved \in BOOLEAN /\ w.dbMod \in BOOLEAN /\ w.hot \in BOOLEAN
      BY <1>2, <1>6 DEF LockState, Shape
    <3> QED BY <1>6, <3>1, <3>2 DEF Shape
  <2>2. LockRules(w)
    BY <1>2, <1>6, <1>7 DEF LockState, LockRules, Writes, NONE, SHARED, RESERVED, PENDING, EXCLUSIVE
  <2> QED BY <2>1, <2>2 DEF LockState
<1>9. JournalState(w)
  BY <1>2, <1>6, <1>7 DEF JournalState
<1>10. Granted(c, w)
  BY <1>1, <1>2, <1>6, <1>7 DEF Granted, NONE, SHARED, RESERVED, PENDING, EXCLUSIVE
<1>11. Open(w, jrnl')
  BY <1>2, <1>5, <1>6, <1>7 DEF Open
<1>12. FilesInv'
  BY <1>5, FilesKept DEF IInv
<1> QED BY <1>1, <1>5, <1>6, <1>8, <1>9, <1>10, <1>11, <1>12, StepKeeps

\* The EXCLUSIVE lock of a writer, or PENDING
LEMMA LockExclusiveKeeps == ASSUME IInv, NoFileDistinct, NEW c \in Conns, LockExclusive(c) PROVE IInv'
<1>1. PICK v : v = pager[c]
  OBVIOUS
<1>2. LockState(v) /\ JournalState(v) /\ Open(v, jrnl) /\ v.lock \in 0 .. 4
  BY <1>1, OneConn
<1>3. v.pc \in {"commit", "write"} /\ v.todo # {}
  BY <1>1 DEF LockExclusive, Storable
<1>4. v.lock # NONE /\ v.reserved /\ ~v.hot /\ v.off > 0
  BY <1>2, <1>3 DEF LockState, LockRules, JournalState, Writes
<1>5. CASE v.lock = EXCLUSIVE \/ MayExclude(c)
  <2>1. PICK w : w = [v EXCEPT !.lock = EXCLUSIVE, !.commit = (v.pc = "commit"), !.pc = "count"]
    OBVIOUS
  <2>2. pager' = [pager EXCEPT ![c] = w] /\ UNCHANGED <<jrnl, jrnlDisk, old>>
    BY <1>1, <2>1, <1>3, <1>4, <1>5 DEF LockExclusive, Step, KeepFiles
  <2>3. /\ DOMAIN w = Fields /\ w = [f \in Fields |-> w[f]] /\ w.pc = "count"
        /\ w.mode = v.mode /\ w.lock = EXCLUSIVE /\ w.reserved = v.reserved
        /\ w.jfd = v.jfd /\ w.off = v.off /\ w.hdr = v.hdr /\ w.todo = v.todo
        /\ w.dbMod = v.dbMod /\ w.hot = v.hot
    BY <1>2, <2>1 DEF LockState, Shape, Fields
  <2>4. /\ v.pc \in {"commit", "write"} /\ v.lock # NONE /\ v.reserved /\ ~v.hot /\ v.off > 0
        /\ v.lock = EXCLUSIVE \/ (MayExclude(c) /\ MayPend(c))
    BY <1>1, <1>2, <1>3, <1>4, <1>5 DEF MayExclude
  <2>5. LockState(w)
    <3>1. w.lock \in NONE .. EXCLUSIVE
      BY <1>2, <2>3 DEF LockState, Shape, NONE, SHARED, RESERVED, PENDING, EXCLUSIVE
    <3>2. w.reserved \in BOOLEAN /\ w.dbMod \in BOOLEAN /\ w.hot \in BOOLEAN
      BY <1>2, <2>3 DEF LockState, Shape
    <3>3. Shape(w)
      BY <2>3, <3>1, <3>2 DEF Shape
    <3>4. w.reserved <=> w.pc \in Writes \/ (w.pc = "play" /\ ~w.hot)
      BY <1>2, <2>3, <2>4 DEF LockState, LockRules, Writes
    <3>5. w.hot => w.pc = "play" /\ w.lock = EXCLUSIVE /\ w.jfd = "open"
      BY <1>2, <2>3, <2>4 DEF LockState, LockRules, Writes
    <3>6. LockRules(w)
      BY <1>2, <2>3, <2>4, <3>4, <3>5 DEF LockState, LockRules, NONE, SHARED, RESERVED, PENDING, EXCLUSIVE
    <3> QED BY <3>3, <3>6 DEF LockState
  <2>6. JournalState(w)
    BY <1>2, <2>3, <2>4 DEF JournalState
  <2>7. Granted(c, w)
    BY <1>1, <1>2, <2>3, <2>4 DEF Granted, NONE, SHARED, RESERVED, PENDING, EXCLUSIVE
  <2>8. Open(w, jrnl')
    BY <1>2, <2>2, <2>3, <2>4 DEF Open
  <2>9. FilesInv'
    BY <2>2, FilesKept DEF IInv
  <2> QED BY <1>1, <2>2, <2>3, <2>5, <2>6, <2>7, <2>8, <2>9, StepKeeps
<1>6. CASE ~(v.lock = EXCLUSIVE \/ MayExclude(c))
  <2>1. PICK w : w = [v EXCEPT !.lock = PENDING]
    OBVIOUS
  <2>2. pager' = [pager EXCEPT ![c] = w] /\ UNCHANGED <<jrnl, jrnlDisk, old>>
    BY <1>1, <2>1, <1>3, <1>4, <1>6 DEF LockExclusive, Step, KeepFiles
  <2>3. /\ DOMAIN w = Fields /\ w = [f \in Fields |-> w[f]] /\ w.pc = v.pc
        /\ w.mode = v.mode /\ w.lock = PENDING /\ w.reserved = v.reserved /\ w.jfd = v.jfd
        /\ w.off = v.off /\ w.hdr = v.hdr /\ w.todo = v.todo /\ w.dbMod = v.dbMod
        /\ w.hot = v.hot
    BY <1>2, <2>1 DEF LockState, Shape, Fields
  <2>4. v.pc \in {"commit", "write"} /\ v.lock # NONE /\ v.reserved /\ ~v.hot /\ v.off > 0 /\ v.lock # EXCLUSIVE /\ MayPend(c)
    BY <1>1, <1>2, <1>3, <1>4, <1>6 DEF LockExclusive
  <2>5. LockState(w)
    <3>1. w.lock \in NONE .. EXCLUSIVE
      BY <1>2, <2>3 DEF LockState, Shape, NONE, SHARED, RESERVED, PENDING, EXCLUSIVE
    <3>2. w.reserved \in BOOLEAN /\ w.dbMod \in BOOLEAN /\ w.hot \in BOOLEAN
      BY <1>2, <2>3 DEF LockState, Shape
    <3>3. Shape(w)
      BY <2>3, <3>1, <3>2 DEF Shape
    <3>4. w.reserved <=> w.pc \in Writes \/ (w.pc = "play" /\ ~w.hot)
      BY <1>2, <2>3, <2>4 DEF LockState, LockRules, Writes
    <3>5. w.hot => w.pc = "play" /\ w.lock = EXCLUSIVE /\ w.jfd = "open"
      BY <1>2, <2>3, <2>4 DEF LockState, LockRules, Writes
    <3>6. LockRules(w)
      BY <1>2, <2>3, <2>4, <3>4, <3>5 DEF LockState, LockRules, NONE, SHARED, RESERVED, PENDING, EXCLUSIVE
    <3> QED BY <3>3, <3>6 DEF LockState
  <2>6. JournalState(w)
    BY <1>2, <2>3, <2>4 DEF JournalState
  <2>7. Granted(c, w)
    BY <1>1, <1>2, <2>3, <2>4 DEF Granted, NONE, SHARED, RESERVED, PENDING, EXCLUSIVE
  <2>8. Open(w, jrnl')
    BY <1>2, <2>2, <2>3, <2>4 DEF Open
  <2>9. FilesInv'
    BY <2>2, FilesKept DEF IInv
  <2> QED BY <1>1, <2>2, <2>3, <2>5, <2>6, <2>7, <2>8, <2>9, StepKeeps
<1> QED BY <1>5, <1>6

\* A page is written into the database file.
LEMMA StorePageKeeps == ASSUME IInv, NoFileDistinct, NEW c \in Conns, StorePage(c) PROVE IInv'
<1>1. PICK v : v = pager[c]
  OBVIOUS
<1>2. LockState(v) /\ JournalState(v) /\ Open(v, jrnl) /\ v.lock \in 0 .. 4
  BY <1>1, OneConn
<1>13. PICK next \in {"store", "finish", "write"} : \E todo, vers :
         pager' = [pager EXCEPT ![c] = [v EXCEPT !.pc = next, !.todo = todo, !.vers = vers]]
  <2> DEFINE p == Least(Storable(v))
             next == IF Storable(v) # {p} THEN "store" ELSE IF v.commit THEN "finish" ELSE "write"
             vers == IF p = 1 THEN v.vers + 1 ELSE v.vers
  <2>1. pager' = [pager EXCEPT ![c] = [v EXCEPT !.pc = next, !.todo = v.todo \ {p}, !.vers = vers]]
    BY <1>1 DEF StorePage, Step
  <2>2. next \in {"store", "finish", "write"}
    OBVIOUS
  <2> HIDE DEF next, vers, p
  <2> QED BY <2>1, <2>2
<1>3. PICK todo, vers : pager' = [pager EXCEPT ![c] = [v EXCEPT !.pc = next, !.todo = todo, !.vers = vers]]
  BY <1>13
<1>4. PICK w : w = [v EXCEPT !.pc = next, !.todo = todo, !.vers = vers]
  OBVIOUS
<1>5. pager' = [pager EXCEPT ![c] = w] /\ UNCHANGED <<jrnl, jrnlDisk, old>>
  BY <1>1, <1>4, <1>3 DEF StorePage, Step, KeepFiles
<1>6. /\ DOMAIN w = Fields /\ w = [f \in Fields |-> w[f]] /\ w.pc = next
      /\ w.mode = v.mode /\ w.lock = v.lock /\ w.reserved = v.reserved /\ w.jfd = v.jfd
      /\ w.off = v.off /\ w.hdr = v.hdr /\ w.todo = todo /\ w.dbMod = v.dbMod
      /\ w.hot = v.hot
  BY <1>2, <1>4 DEF LockState, Shape, Fields
<1>7. v.pc = "store" /\ v.lock = EXCLUSIVE /\ v.reserved /\ ~v.hot /\ v.off > 0 /\ v.dbMod
  BY <1>1, <1>2, <1>3 DEF StorePage, LockState, Shape, LockRules, JournalState, Writes, NONE, SHARED, RESERVED, EXCLUSIVE, PENDING
<1>8. LockState(w)
  <2>1. w.lock \in NONE .. EXCLUSIVE
    BY <1>2, <1>6 DEF LockState, Shape, NONE, SHARED, RESERVED, PENDING, EXCLUSIVE
  <2>2. w.reserved \in BOOLEAN /\ w.dbMod \in BOOLEAN /\ w.hot \in BOOLEAN
    BY <1>2, <1>6 DEF LockState, Shape
  <2>3. Shape(w)
    BY <1>6, <2>1, <2>2 DEF Shape
  <2>4. w.reserved <=> w.pc \in Writes \/ (w.pc = "play" /\ ~w.hot)
    BY <1>2, <1>6, <1>7 DEF LockState, LockRules, Writes
  <2>5. w.hot => w.pc = "play" /\ w.lock = EXCLUSIVE /\ w.jfd = "open"
    BY <1>2, <1>6, <1>7 DEF LockState, LockRules, Writes
  <2>6. LockRules(w)
    BY <1>2, <1>6, <1>7, <2>4, <2>5 DEF LockState, LockRules, NONE, SHARED, RESERVED, PENDING, EXCLUSIVE
  <2> QED BY <2>3, <2>6 DEF LockState
<1>9. JournalState(w)
  BY <1>2, <1>6, <1>7 DEF JournalState
<1>10. Granted(c, w)
  BY <1>1, <1>2, <1>6, <1>7 DEF Granted, NONE, SHARED, RESERVED, PENDING, EXCLUSIVE
<1>11. Open(w, jrnl')
  BY <1>2, <1>5, <1>6, <1>7 DEF Open
<1>12. FilesInv'
  BY <1>5, FilesKept DEF IInv
<1> QED BY <1>1, <1>5, <1>6, <1>8, <1>9, <1>10, <1>11, <1>12, StepKeeps

\* A transaction is rolled back.
LEMMA RollbackKeeps == ASSUME IInv, NoFileDistinct, NEW c \in Conns, Rollback(c) PROVE IInv'
<1>1. PICK v : v = pager[c]
  OBVIOUS
<1>2. LockState(v) /\ JournalState(v) /\ Open(v, jrnl) /\ v.lock \in 0 .. 4
  BY <1>1, OneConn
<1>3. v.pc \in {"commit", "write"} /\ v.lock # NONE /\ v.reserved /\ ~v.hot
  BY <1>1, <1>2 DEF Rollback, LockState, LockRules, Writes
<1>4. CASE v.off = 0
  <2>1. PICK w : w = [v EXCEPT !.pc = "read", !.lock = SHARED, !.reserved = FALSE, !.dirty = {}, !.left = {}, !.stamp = 0]
    OBVIOUS
  <2>2. pager' = [pager EXCEPT ![c] = w] /\ UNCHANGED <<jrnl, jrnlDisk, old>>
    BY <1>1, <2>1, <1>3, <1>4 DEF Rollback, Step, KeepFiles
  <2>3. /\ DOMAIN w = Fields /\ w = [f \in Fields |-> w[f]] /\ w.pc = "read"
        /\ w.mode = v.mode /\ w.lock = SHARED /\ w.reserved = FALSE /\ w.jfd = v.jfd
        /\ w.off = v.off /\ w.hdr = v.hdr /\ w.todo = v.todo /\ w.dbMod = v.dbMod
        /\ w.hot = v.hot
    BY <1>2, <2>1 DEF LockState, Shape, Fields
  <2>4. v.lock # NONE /\ ~v.hot /\ ~v.dbMod /\ v.off = 0
    BY <1>1, <1>2, <1>3, <1>4 DEF JournalState
  <2>5. LockState(w)
    <3>1. w.lock \in NONE .. EXCLUSIVE
      BY <1>2, <2>3 DEF LockState, Shape, NONE, SHARED, RESERVED, PENDING, EXCLUSIVE
    <3>2. w.reserved \in BOOLEAN /\ w.dbMod \in BOOLEAN /\ w.hot \in BOOLEAN
      BY <1>2, <2>3 DEF LockState, Shape
    <3>3. Shape(w)
      BY <2>3, <3>1, <3>2 DEF Shape
    <3>4. w.reserved <=> w.pc \in Writes \/ (w.pc = "play" /\ ~w.hot)
      BY <1>2, <2>3, <2>4 DEF LockState, LockRules, Writes
    <3>5. w.hot => w.pc = "play" /\ w.lock = EXCLUSIVE /\ w.jfd = "open"
      BY <1>2, <2>3, <2>4 DEF LockState, LockRules, Writes
    <3>6. LockRules(w)
      BY <1>2, <2>3, <2>4, <3>4, <3>5 DEF LockState, LockRules, NONE, SHARED, RESERVED, PENDING, EXCLUSIVE
    <3> QED BY <3>3, <3>6 DEF LockState
  <2>6. JournalState(w)
    BY <1>2, <2>3, <2>4 DEF JournalState
  <2>7. Granted(c, w)
    BY <1>1, <1>2, <2>3, <2>4 DEF Granted, NONE, SHARED, RESERVED, PENDING, EXCLUSIVE
  <2>8. Open(w, jrnl')
    BY <1>2, <2>2, <2>3, <2>4 DEF Open
  <2>9. FilesInv'
    BY <2>2, FilesKept DEF IInv
  <2> QED BY <1>1, <2>2, <2>3, <2>5, <2>6, <2>7, <2>8, <2>9, StepKeeps
<1>5. CASE v.off # 0
  <2>9. PICK play : pager' = [pager EXCEPT ![c] = [v EXCEPT !.pc = "play", !.play = play]]
    BY <1>1, <1>5 DEF Rollback, Step
  <2>10. PICK w : w = [v EXCEPT !.pc = "play", !.play = play]
    OBVIOUS
  <2>11. pager' = [pager EXCEPT ![c] = w] /\ UNCHANGED <<jrnl, jrnlDisk, old>>
    BY <1>1, <2>10, <1>3, <1>5, <2>9 DEF Rollback, Step, KeepFiles
  <2>12. /\ DOMAIN w = Fields /\ w = [f \in Fields |-> w[f]] /\ w.pc = "play"
        /\ w.mode = v.mode /\ w.lock = v.lock /\ w.reserved = v.reserved /\ w.jfd = v.jfd
        /\ w.off = v.off /\ w.hdr = v.hdr /\ w.todo = v.todo /\ w.dbMod = v.dbMod
        /\ w.hot = v.hot
    BY <1>2, <2>10 DEF LockState, Shape, Fields
  <2>13. v.lock # NONE /\ v.reserved /\ ~v.hot /\ v.off > 0
    BY <1>1, <1>2, <1>3, <1>5, <2>9 DEF JournalState
  <2>14. LockState(w)
    <3>1. w.lock \in NONE .. EXCLUSIVE
      BY <1>2, <2>12 DEF LockState, Shape, NONE, SHARED, RESERVED, PENDING, EXCLUSIVE
    <3>2. w.reserved \in BOOLEAN /\ w.dbMod \in BOOLEAN /\ w.hot \in BOOLEAN
      BY <1>2, <2>12 DEF LockState, Shape
    <3>3. Shape(w)
      BY <2>12, <3>1, <3>2 DEF Shape
    <3>4. w.reserved <=> w.pc \in Writes \/ (w.pc = "play" /\ ~w.hot)
      BY <1>2, <2>12, <2>13 DEF LockState, LockRules, Writes
    <3>5. w.hot => w.pc = "play" /\ w.lock = EXCLUSIVE /\ w.jfd = "open"
      BY <1>2, <2>12, <2>13 DEF LockState, LockRules, Writes
    <3>6. LockRules(w)
      BY <1>2, <2>12, <2>13, <3>4, <3>5 DEF LockState, LockRules, NONE, SHARED, RESERVED, PENDING, EXCLUSIVE
    <3> QED BY <3>3, <3>6 DEF LockState
  <2>15. JournalState(w)
    BY <1>2, <2>12, <2>13 DEF JournalState
  <2>16. Granted(c, w)
    BY <1>1, <1>2, <2>12, <2>13 DEF Granted, NONE, SHARED, RESERVED, PENDING, EXCLUSIVE
  <2>17. Open(w, jrnl')
    BY <1>2, <2>11, <2>12, <2>13 DEF Open
  <2>18. FilesInv'
    BY <2>11, FilesKept DEF IInv
  <2> QED BY <1>1, <2>11, <2>12, <2>14, <2>15, <2>16, <2>17, <2>18, StepKeeps
<1> QED BY <1>4, <1>5

\* A process dies.
LEMMA CrashKeeps == ASSUME IInv, NoFileDistinct, NEW c \in Conns, Crash(c) PROVE IInv'
<1>1. PICK v : v = pager[c]
  OBVIOUS
<1>2. LockState(v) /\ JournalState(v) /\ Open(v, jrnl) /\ v.lock \in 0 .. 4
  BY <1>1, OneConn
<1>3. PICK w : w = Closed(v.mode)
  OBVIOUS
<1>4. pager' = [pager EXCEPT ![c] = w] /\ UNCHANGED <<jrnl, jrnlDisk, old>>
  BY <1>1, <1>3 DEF Crash, Step, KeepFiles
<1>5. /\ DOMAIN w = Fields /\ w = [f \in Fields |-> w[f]] /\ w.pc = "idle"
      /\ w.mode = v.mode /\ w.lock = NONE /\ w.reserved = FALSE /\ w.jfd = "closed"
      /\ w.off = 0 /\ w.hdr = 0 /\ w.todo = {} /\ w.dbMod = FALSE /\ w.hot = FALSE
  BY <1>2, <1>3 DEF Closed, Fields
<1>6. v.lock # NONE
  BY <1>1, <1>2 DEF Crash
<1>7. LockState(w)
  <2>1. w.lock \in NONE .. EXCLUSIVE
    BY <1>2, <1>5 DEF LockState, Shape, NONE, SHARED, RESERVED, PENDING, EXCLUSIVE
  <2>2. w.reserved \in BOOLEAN /\ w.dbMod \in BOOLEAN /\ w.hot \in BOOLEAN
    BY <1>2, <1>5 DEF LockState, Shape
  <2>3. Shape(w)
    BY <1>5, <2>1, <2>2 DEF Shape
  <2>4. w.reserved <=> w.pc \in Writes \/ (w.pc = "play" /\ ~w.hot)
    BY <1>2, <1>5, <1>6 DEF LockState, LockRules, Writes
  <2>5. w.hot => w.pc = "play" /\ w.lock = EXCLUSIVE /\ w.jfd = "open"
    BY <1>2, <1>5, <1>6 DEF LockState, LockRules, Writes
  <2>6. LockRules(w)
    BY <1>2, <1>5, <1>6, <2>4, <2>5 DEF LockState, LockRules, NONE, SHARED, RESERVED, PENDING, EXCLUSIVE
  <2> QED BY <2>3, <2>6 DEF LockState
<1>8. JournalState(w)
  BY <1>2, <1>5, <1>6 DEF JournalState
<1>9. Granted(c, w)
  BY <1>1, <1>2, <1>5, <1>6 DEF Granted, NONE, SHARED, RESERVED, PENDING, EXCLUSIVE
<1>10. Open(w, jrnl')
  BY <1>2, <1>4, <1>5, <1>6 DEF Open
<1>11. FilesInv'
  BY <1>4, FilesKept DEF IInv
<1> QED BY <1>1, <1>4, <1>5, <1>7, <1>8, <1>9, <1>10, <1>11, StepKeeps

------------------------------------------------------------------------------
(* Steps that change the journal *)

\* The journal of a writer that has written to it.
LEMMA WriterJournal ==
    ASSUME IInv, NoFileDistinct, NEW c \in Conns, pager[c].jfd = "open"
    PROVE  Journal(c) = jrnl /\ jrnl # NoFile /\ Cells(jrnl)
<1>1. jrnl # NoFile
  BY OneConn DEF Open
<1> QED BY <1>1 DEF Journal, IInv, FilesInv, IsFile

\* A header that writeJournalHdr has written
LEMMA HeaderIsCell == \A m, n, x : HeaderCell(Header(m, n, x)) /\ Header(m, n, x).magic = m
BY DEF HeaderCell, Header

\* The journal after pager_open_journal: its first cell is a header.
LEMMA OpenedJournal ==
    ASSUME IInv, NoFileDistinct, NEW c \in Conns, pager[c].pc = "write",
           NEW k, k = (IF pager[c].jfd = "closed" /\ jrnl = NoFile THEN <<>> ELSE Journal(c)),
           NEW j, j = (IF pager[c].off = 0 THEN Headed(k, 1, pager[c].stamp) ELSE k),
           NEW b \in Nat, b = (IF pager[c].off = 0 THEN 1 ELSE pager[c].off)
    PROVE  /\ Cells(j) /\ 1 <= b /\ b <= Len(j) /\ HeaderCell(j[1])
           /\ pager[c].dbMod => j[1].magic = TRUE
<1>1. PICK v : v = pager[c]
  OBVIOUS
<1>2. LockState(v) /\ JournalState(v) /\ Open(v, jrnl)
  BY <1>1, OneConn
<1>3. v.reserved /\ v.jfd \in {"closed", "open"}
  BY <1>1, <1>2 DEF LockState, LockRules, JournalState, Writes
<1>4. CASE v.off = 0
  <2>2. Cells(k)
    <3>1. CASE v.jfd = "closed" /\ jrnl = NoFile
      <4>1. k = <<>>
        BY <1>1, <3>1
      <4>2. <<>> \in Seq({})
        OBVIOUS
      <4> QED BY <4>1, <4>2 DEF Cells
    <3>2. CASE ~(v.jfd = "closed" /\ jrnl = NoFile)
      <4>1. jrnl # NoFile
        BY <1>1, <1>2, <1>3, <3>2 DEF Open
      <4>2. Journal(c) = jrnl
        BY <1>1, <1>3 DEF Journal
      <4>3. k = jrnl
        BY <1>1, <3>2, <4>2
      <4> QED BY <4>1, <4>3 DEF IInv, FilesInv, IsFile
    <3> QED BY <3>1, <3>2
  <2>3. PICK x : x = Header(FALSE, 0, 10 * v.stamp + 1)
    OBVIOUS
  <2>4. j = Put(k, 1, x)
    BY <1>1, <1>4, <2>3 DEF Headed
  <2>5. Len(k) \in Nat
    BY <2>2 DEF Cells
  <2>6. Cells(Put(k, 1, x)) /\ 1 <= Len(Put(k, 1, x)) /\ Put(k, 1, x)[1] = x
    BY <2>2, <2>5, PutCell
  <2>7. ~v.dbMod
    BY <1>2, <1>4 DEF JournalState
  <2>8. HeaderCell(x)
    BY <2>3, HeaderIsCell
  <2> QED BY <1>1, <1>4, <2>4, <2>6, <2>7, <2>8
<1>5. CASE v.off # 0
  <2>1. v.off \in Nat /\ v.off > 0
    BY <1>2, <1>5 DEF JournalState
  <2>2. v.jfd = "open"
    BY <1>2, <2>1 DEF JournalState
  <2>3. Journal(c) = jrnl /\ Cells(jrnl)
    BY <1>1, <2>2, WriterJournal
  <2>4. j = jrnl /\ b = v.off
    BY <1>1, <1>5, <2>2, <2>3
  <2> QED BY <1>1, <1>2, <2>1, <2>3, <2>4 DEF Open
<1> QED BY <1>4, <1>5

\* A page is journalled.
LEMMA WritePageKeeps ==
    ASSUME IInv, NoFileDistinct, NEW c \in Conns, NEW p, NEW f, NEW left, NEW pc \in {"write", "commit"},
           pager[c].pc = "write", f = [pager[c] EXCEPT !.left = left, !.pc = pc], WritePage(c, p, f)
    PROVE  IInv'
<1>1. PICK v : v = pager[c]
  OBVIOUS
<1>2. LockState(v) /\ JournalState(v) /\ Open(v, jrnl) /\ v.lock \in 0 .. 4
  BY <1>1, OneConn
<1>3. v.reserved /\ v.jfd \in {"closed", "open"} /\ ~v.hot /\ v.lock # NONE /\ v.off \in Nat
  BY <1>1, <1>2 DEF LockState, LockRules, JournalState, Writes
<1>4. /\ DOMAIN f = Fields /\ f = [g \in Fields |-> f[g]]
      /\ f.pc = pc /\ f.mode = v.mode /\ f.lock = v.lock /\ f.reserved = v.reserved /\ f.jfd = v.jfd
      /\ f.off = v.off /\ f.hdr = v.hdr /\ f.todo = v.todo /\ f.dbMod = v.dbMod /\ f.hot = v.hot
      /\ f.stamp = v.stamp /\ f.inJournal = v.inJournal /\ f.nRec = v.nRec
  BY <1>1, <1>2 DEF LockState, Shape, Fields
<1>5. PICK k : k = IF f.jfd = "closed" /\ jrnl = NoFile THEN <<>> ELSE Journal(c)
  OBVIOUS
<1>6. PICK j : j = IF f.off = 0 THEN Headed(k, 1, f.stamp) ELSE k
  OBVIOUS
<1>7. PICK b \in Nat : b = IF f.off = 0 THEN 1 ELSE f.off
  BY <1>3, <1>4
<1>8. /\ Cells(j) /\ 1 <= b /\ b <= Len(j) /\ HeaderCell(j[1])
      /\ v.dbMod => j[1].magic = TRUE
  <2>1. /\ k = IF v.jfd = "closed" /\ jrnl = NoFile THEN <<>> ELSE Journal(c)
        /\ j = IF v.off = 0 THEN Headed(k, 1, v.stamp) ELSE k
        /\ b = IF v.off = 0 THEN 1 ELSE v.off
    BY <1>4, <1>5, <1>6, <1>7
  <2> QED BY <1>1, <2>1, OpenedJournal
<1>9. PICK hdr : hdr = IF f.off = 0 THEN 1 ELSE f.hdr
  OBVIOUS
<1>10. PICK off \in Nat : off = b + (IF p \in f.inJournal THEN 0 ELSE 1)
  OBVIOUS
<1>11. PICK r : r = IF p \in f.inJournal THEN j ELSE Put(j, off, Record(p, Content(c, p), j[hdr].nonce))
  OBVIOUS
<1>12. PICK nRec : nRec = IF p \in f.inJournal THEN f.nRec ELSE f.nRec + 1
  OBVIOUS
<1>26. PICK inJournal : inJournal = f.inJournal \union {p}
  OBVIOUS
<1>27. PICK todo : todo = f.todo \union {p}
  OBVIOUS
<1>13. PICK w : w = [f EXCEPT !.jfd = "open", !.hdr = hdr, !.off = off, !.nRec = nRec,
                              !.inJournal = inJournal, !.todo = todo]
  OBVIOUS
<1>14. /\ DOMAIN w = Fields /\ w = [g \in Fields |-> w[g]]
       /\ w.pc = pc /\ w.mode = v.mode /\ w.lock = v.lock /\ w.reserved = v.reserved /\ w.jfd = "open"
       /\ w.off = off /\ w.hdr = hdr /\ w.dbMod = v.dbMod /\ w.hot = v.hot
  <2>1. DOMAIN w = Fields /\ w = [g \in Fields |-> w[g]]
    BY <1>4, <1>13
  <2>2. /\ w.pc = f.pc /\ w.mode = f.mode /\ w.lock = f.lock /\ w.reserved = f.reserved /\ w.jfd = "open"
        /\ w.off = off /\ w.hdr = hdr /\ w.dbMod = f.dbMod /\ w.hot = f.hot
    BY <1>4, <1>13 DEF Fields
  <2> QED BY <1>4, <2>1, <2>2
<1>15. StepJournal(c, w, r) /\ jrnlDisk' \in {<<>>, jrnlDisk} /\ old' \in {old \union {NoFile}, old}
  <2>1. f.jfd # "orphan"
    BY <1>3, <1>4
  <2>2. StepJournal(c, [f EXCEPT !.jfd = IF f.jfd = "orphan" THEN f.jfd ELSE "open", !.hdr = hdr, !.off = off,
                                 !.nRec = IF p \in f.inJournal THEN f.nRec ELSE f.nRec + 1,
                                 !.inJournal = f.inJournal \union {p}, !.todo = f.todo \union {p}], r)
    <3> DEFINE K == IF f.jfd = "closed" /\ jrnl = NoFile THEN <<>> ELSE Journal(c)
               J == IF f.off = 0 THEN Headed(K, 1, f.stamp) ELSE K
               H == IF f.off = 0 THEN 1 ELSE f.hdr
               O == (IF f.off = 0 THEN 1 ELSE f.off) + (IF p \in f.inJournal THEN 0 ELSE 1)
    <3>1. StepJournal(c, [f EXCEPT !.jfd = IF f.jfd = "orphan" THEN f.jfd ELSE "open", !.hdr = H, !.off = O,
                                   !.nRec = IF p \in f.inJournal THEN f.nRec ELSE f.nRec + 1,
                                   !.inJournal = f.inJournal \union {p}, !.todo = f.todo \union {p}],
                      IF p \in f.inJournal THEN J ELSE Put(J, O, Record(p, Content(c, p), J[H].nonce)))
      BY DEF WritePage
    <3>2. K = k
      BY <1>5
    <3> HIDE DEF K
    <3>3. J = j
      BY <1>6, <3>2
    <3>4. H = hdr
      BY <1>9
    <3>5. O = off
      BY <1>7, <1>10
    <3> HIDE DEF J, H, O
    <3> QED BY <1>11, <3>1, <3>3, <3>4, <3>5
  <2>3. (IF f.jfd = "orphan" THEN f.jfd ELSE "open") = "open"
    BY <2>1
  <2>4. jrnlDisk' \in {<<>>, jrnlDisk} /\ old' \in {old \union {NoFile}, old}
    BY DEF WritePage
  <2>5. w = [f EXCEPT !.jfd = IF f.jfd = "orphan" THEN f.jfd ELSE "open", !.hdr = hdr, !.off = off,
                      !.nRec = IF p \in f.inJournal THEN f.nRec ELSE f.nRec + 1,
                      !.inJournal = f.inJournal \union {p}, !.todo = f.todo \union {p}]
    BY <1>12, <1>13, <1>26, <1>27, <2>3
  <2> QED BY <2>2, <2>4, <2>5
<1>16. pager' = [pager EXCEPT ![c] = w] /\ jrnl' = r
  <2>1. w.jfd # "orphan"
    BY <1>14
  <2> QED BY <1>15, <2>1 DEF StepJournal, Step
<1>17. Cells(r) /\ off <= Len(r) /\ r[1] = j[1]
  <2>1. CASE p \in f.inJournal
    BY <1>8, <1>10, <1>11, <2>1
  <2>2. CASE p \notin f.inJournal
    <3>1. off = b + 1 /\ 1 <= off /\ off <= Len(j) + 1 /\ 1 # off /\ Len(j) \in Nat /\ 1 \in 1 .. Len(j)
      <4>1. Len(j) \in Nat
        BY <1>8 DEF Cells
      <4> QED BY <1>7, <1>8, <1>10, <2>2, <4>1
    <3> QED BY <1>8, <1>11, <2>2, <3>1, PutCell
  <2> QED BY <2>1, <2>2
<1>18. hdr \in Nat /\ 1 <= hdr /\ hdr <= off /\ off > 0 /\ (hdr = 1 \/ v.dbMod)
  <2>1. 1 <= off /\ b <= off
    BY <1>8, <1>10
  <2>2. CASE v.off = 0
    BY <1>4, <1>9, <2>1, <2>2
  <2>3. CASE v.off # 0
    <3>1. v.off > 0 /\ hdr = v.hdr /\ b = v.off
      BY <1>3, <1>4, <1>7, <1>9, <2>3
    <3> QED BY <1>2, <2>1, <3>1 DEF JournalState
  <2> QED BY <2>2, <2>3
<1>19. LockState(w)
  <2>1. Shape(w)
    BY <1>2, <1>14 DEF LockState, Shape
  <2>2. LockRules(w)
    BY <1>2, <1>3, <1>14 DEF LockState, LockRules, Writes
  <2> QED BY <2>1, <2>2 DEF LockState
<1>20. JournalState(w)
  <2>1. w.pc \notin {"idle", "exists", "reserved", "first", "hot"}
    BY <1>14
  <2>2. w.off > 0 /\ w.off # 0 /\ w.off \in Nat
    BY <1>14, <1>18
  <2> QED BY <1>3, <1>14, <1>18, <2>1, <2>2 DEF JournalState
<1>21. Granted(c, w)
  BY <1>1, <1>2, <1>3, <1>14 DEF Granted
<1>22. Open(w, jrnl')
  <2>1. r # NoFile
    BY <1>17 DEF Cells, NoFileDistinct
  <2>2. pc # "flush"
    OBVIOUS
  <2> QED BY <1>8, <1>14, <1>16, <1>17, <2>1, <2>2 DEF Open
<1>23. FilesInv'
  <2>1. IsFile(r)
    BY <1>17 DEF IsFile
  <2>2. IsFile(<<>>)
    <3>1. <<>> \in Seq({})
      OBVIOUS
    <3> QED BY <3>1 DEF IsFile, Cells
  <2>3. IsFile(NoFile)
    BY DEF IsFile
  <2>4. IsFile(jrnlDisk) /\ \A x \in old : IsFile(x)
    BY DEF IInv, FilesInv
  <2>6. \A x \in old' : x \in old \/ x = NoFile
    BY <1>15
  <2> QED BY <1>16, <2>1, <2>2, <2>3, <2>4, <2>6, <1>15 DEF FilesInv
<1>24. w.mode = pager[c].mode /\ w.jfd # "orphan" /\ pager[c].reserved
  BY <1>1, <1>3, <1>14
<1>25. Cells(jrnl')
  BY <1>16, <1>17
<1> QED BY <1>16, <1>19, <1>20, <1>21, <1>22, <1>23, <1>24, <1>25, StepKeeps

\* A page is changed, or the change counter at the start of a commit.
LEMMA ModifyKeeps ==
    ASSUME IInv, NoFileDistinct, NEW c \in Conns, Modify(c) \/ StartCommit(c)
    PROVE  IInv'
<1>0. LockState(pager[c])
  BY OneConn
<1>1. CASE Modify(c)
  <2>1. pager[c].pc = "write"
    BY <1>1 DEF Modify
  <2>2. PICK p : WritePage(c, p, [pager[c] EXCEPT !.left = @ \ {p}])
    BY <1>1 DEF Modify
  <2>3. PICK left : left = pager[c].left \ {p}
    OBVIOUS
  <2>5. PICK pc \in {"write", "commit"} : pc = "write"
    OBVIOUS
  <2>4. [pager[c] EXCEPT !.left = @ \ {p}] = [pager[c] EXCEPT !.left = left, !.pc = pc]
    BY <1>0, <2>1, <2>3, <2>5 DEF LockState, Shape, Fields
  <2> QED BY <2>1, <2>2, <2>4, WritePageKeeps
<1>2. CASE StartCommit(c)
  <2>1. pager[c].pc = "write"
    BY <1>2 DEF StartCommit
  <2>2. WritePage(c, 1, [pager[c] EXCEPT !.pc = "commit"])
    BY <1>2 DEF StartCommit
  <2>3. PICK left : left = pager[c].left
    OBVIOUS
  <2>5. PICK pc \in {"write", "commit"} : pc = "commit"
    OBVIOUS
  <2>4. [pager[c] EXCEPT !.pc = "commit"] = [pager[c] EXCEPT !.left = left, !.pc = pc]
    BY <1>0, <2>3, <2>5 DEF LockState, Shape, Fields
  <2> QED BY <2>1, <2>2, <2>4, WritePageKeeps
<1> QED BY <1>1, <1>2

\* A stale header behind the last record is made invalid; the cells before it stay.
LEMMA UnfollowedKeeps ==
    ASSUME NEW j, Cells(j), NEW off \in Nat, 1 <= off, off <= Len(j)
    PROVE  /\ Cells(Unfollowed(j, off)) /\ Len(Unfollowed(j, off)) = Len(j)
           /\ Unfollowed(j, off)[1] = j[1]
<1>1. Len(j) \in Nat /\ DOMAIN j = 1 .. Len(j)
  BY DEF Cells
<1>2. CASE IsHeader(j, off + 1)
  <2>1. PICK n \in Nat : n = off + 1
    OBVIOUS
  <2>2. n \in 1 .. Len(j) /\ 1 \in 1 .. Len(j) /\ 1 # n
    BY <1>1, <1>2, <2>1 DEF IsHeader
  <2>3. PICK x : x = [j[n] EXCEPT !.magic = FALSE]
    OBVIOUS
  <2>4. PICK r : r = Replaced(j, n, x)
    OBVIOUS
  <2>5. Unfollowed(j, off) = r
    BY <1>2, <2>1, <2>3, <2>4 DEF Unfollowed, Replaced
  <2>6. Cells(r) /\ Len(r) = Len(j) /\ \A k \in 1 .. Len(j) : k # n => r[k] = j[k]
    BY <2>2, <2>4, ReplaceCell
  <2>7. r[1] = j[1]
    BY <2>2, <2>6
  <2> QED BY <2>5, <2>6, <2>7
<1>3. CASE ~IsHeader(j, off + 1)
  BY <1>3 DEF Unfollowed
<1> QED BY <1>2, <1>3

\* The number of records is written into the header.
LEMMA CountRecordsKeeps == ASSUME IInv, NoFileDistinct, NEW c \in Conns, CountRecords(c) PROVE IInv'
<1>1. PICK v : v = pager[c]
  OBVIOUS
<1>2. LockState(v) /\ JournalState(v) /\ Open(v, jrnl) /\ v.lock \in 0 .. 4
  BY <1>1, OneConn
<1>3. v.pc = "count" /\ v.reserved /\ ~v.hot /\ v.lock = EXCLUSIVE
  BY <1>1, <1>2 DEF CountRecords, LockState, LockRules, Writes
<1>4. v.off > 0 /\ v.jfd = "open" /\ v.off \in Nat /\ v.hdr \in Nat /\ 1 <= v.hdr /\ v.hdr <= v.off /\ (v.hdr = 1 \/ v.dbMod)
  BY <1>2, <1>3 DEF JournalState
<1>5. Journal(c) = jrnl /\ jrnl # NoFile /\ Cells(jrnl)
  BY <1>1, <1>4, WriterJournal
<1>6. v.off <= Len(jrnl) /\ HeaderCell(jrnl[1]) /\ (v.dbMod => jrnl[1].magic = TRUE) /\ Len(jrnl) \in Nat
  BY <1>2, <1>4, <1>5 DEF Open, Cells
<1>7. PICK j : j = Unfollowed(jrnl, v.off)
  OBVIOUS
<1>8. Cells(j) /\ Len(j) = Len(jrnl) /\ j[1] = jrnl[1]
  BY <1>4, <1>5, <1>6, <1>7, UnfollowedKeeps
<1>9. PICK h : h = v.hdr
  OBVIOUS
<1>10. PICK x : x = [[j[h] EXCEPT !.magic = TRUE] EXCEPT !.n = v.nRec]
  OBVIOUS
<1>11. PICK r : r = Replaced(j, h, x)
  OBVIOUS
<1>12. h \in 1 .. Len(j) /\ 1 \in 1 .. Len(j)
  BY <1>4, <1>6, <1>8, <1>9
<1>13. Cells(r) /\ Len(r) = Len(j) /\ r[h] = x /\ (1 # h => r[1] = j[1])
  <2>1. Cells(r) /\ Len(r) = Len(j) /\ r[h] = x /\ \A k \in 1 .. Len(j) : k # h => r[k] = j[k]
    BY <1>8, <1>11, <1>12, ReplaceCell
  <2> QED BY <1>12, <2>1
<1>14. HeaderCell(r[1]) /\ r[1].magic = TRUE
  <2>1. CASE h = 1
    <3>1. HeaderCell(j[h])
      BY <1>6, <1>8, <2>1
    <3>2. PICK y : y = [j[h] EXCEPT !.magic = TRUE]
      OBVIOUS
    <3>4. HeaderCell(y) /\ y.magic = TRUE
      BY <3>1, <3>2 DEF HeaderCell
    <3>5. x = [y EXCEPT !.n = v.nRec]
      BY <1>10, <3>2
    <3>3. HeaderCell(x) /\ x.magic = TRUE
      BY <3>4, <3>5 DEF HeaderCell
    <3> QED BY <1>13, <2>1, <3>3
  <2>2. CASE h # 1
    BY <1>4, <1>6, <1>8, <1>9, <1>13, <2>2
  <2> QED BY <2>1, <2>2
<1>15. PICK w : w = [v EXCEPT !.pc = "flush"]
  OBVIOUS
<1>16. /\ DOMAIN w = Fields /\ w = [f \in Fields |-> w[f]] /\ w.pc = "flush"
       /\ w.mode = v.mode /\ w.lock = v.lock /\ w.reserved = v.reserved /\ w.jfd = v.jfd
       /\ w.off = v.off /\ w.hdr = v.hdr /\ w.todo = v.todo /\ w.dbMod = v.dbMod
       /\ w.hot = v.hot
  BY <1>2, <1>15 DEF LockState, Shape, Fields
<1>17. StepJournal(c, w, r) /\ jrnlDisk' \in {j, jrnlDisk} /\ old' \in {{}, old}
  <2>1. /\ StepJournal(c, w, [j EXCEPT ![v.hdr].magic = TRUE, ![v.hdr].n = v.nRec])
        /\ jrnlDisk' \in {j, jrnlDisk} /\ old' \in {{}, old}
    BY <1>1, <1>5, <1>7, <1>15 DEF CountRecords
  <2>2. [j EXCEPT ![h].magic = TRUE, ![h].n = v.nRec] = r
    <3>1. j = [i \in 1 .. Len(j) |-> j[i]]
      BY <1>8 DEF Cells
    <3> QED BY <1>10, <1>11, <1>12, <3>1 DEF Replaced
  <2> QED BY <1>9, <2>1, <2>2
<1>18. pager' = [pager EXCEPT ![c] = w] /\ jrnl' = r
  <2>1. w.jfd # "orphan"
    BY <1>4, <1>16
  <2> QED BY <1>17, <2>1 DEF StepJournal, Step
<1>19. LockState(w)
  <2>1. Shape(w)
    BY <1>2, <1>16 DEF LockState, Shape
  <2>2. LockRules(w)
    BY <1>2, <1>3, <1>16 DEF LockState, LockRules, Writes
  <2> QED BY <2>1, <2>2 DEF LockState
<1>20. JournalState(w)
  BY <1>2, <1>3, <1>4, <1>16 DEF JournalState
<1>21. Granted(c, w)
  BY <1>1, <1>2, <1>3, <1>16 DEF Granted, EXCLUSIVE, PENDING, NONE
<1>22. Open(w, jrnl')
  <2>1. r # NoFile
    BY <1>13 DEF Cells, NoFileDistinct
  <2> QED BY <1>6, <1>8, <1>13, <1>14, <1>16, <1>18, <2>1 DEF Open
<1>23. FilesInv'
  <2>1. IsFile(r) /\ IsFile(j)
    BY <1>8, <1>13 DEF IsFile
  <2>2. IsFile(jrnlDisk) /\ \A y \in old' : IsFile(y)
    BY <1>17 DEF IInv, FilesInv
  <2> QED BY <1>17, <1>18, <2>1, <2>2 DEF FilesInv
<1>24. w.mode = pager[c].mode /\ w.jfd # "orphan" /\ pager[c].reserved /\ Cells(jrnl')
  BY <1>1, <1>3, <1>4, <1>13, <1>16, <1>18
<1> QED BY <1>18, <1>19, <1>20, <1>21, <1>22, <1>23, <1>24, StepKeeps

\* The journal is flushed; a spill continues it with another header.
LEMMA FlushJournalKeeps == ASSUME IInv, NoFileDistinct, NEW c \in Conns, FlushJournal(c) PROVE IInv'
<1>1. PICK v : v = pager[c]
  OBVIOUS
<1>2. LockState(v) /\ JournalState(v) /\ Open(v, jrnl) /\ v.lock \in 0 .. 4
  BY <1>1, OneConn
<1>3. v.pc = "flush" /\ v.reserved /\ ~v.hot /\ v.lock = EXCLUSIVE
  BY <1>1, <1>2 DEF FlushJournal, LockState, LockRules, Writes
<1>4. v.off > 0 /\ v.jfd = "open" /\ v.off \in Nat /\ v.hdr \in Nat /\ 1 <= v.hdr /\ v.hdr <= v.off
  BY <1>2, <1>3 DEF JournalState
<1>5. Journal(c) = jrnl /\ jrnl # NoFile /\ Cells(jrnl)
  BY <1>1, <1>4, WriterJournal
<1>6. v.off <= Len(jrnl) /\ HeaderCell(jrnl[1]) /\ jrnl[1].magic = TRUE /\ Len(jrnl) \in Nat
  BY <1>2, <1>3, <1>4, <1>5 DEF Open, Cells
<1>7. jrnlDisk' = jrnl /\ old' = {}
  BY <1>1, <1>4, <1>5 DEF FlushJournal
<1>8. ASSUME NEW w, NEW r, NEW off \in Nat, NEW hdr \in Nat, StepJournal(c, w, r),
             /\ DOMAIN w = Fields /\ w = [f \in Fields |-> w[f]] /\ w.pc = "store"
             /\ w.mode = v.mode /\ w.lock = v.lock /\ w.reserved = v.reserved /\ w.jfd = v.jfd
             /\ w.off = off /\ w.hdr = hdr /\ w.todo = v.todo /\ w.dbMod \in BOOLEAN /\ w.hot = v.hot,
             w.dbMod, 1 <= hdr, hdr <= off, Cells(r), off <= Len(r), r[1] = jrnl[1]
      PROVE  IInv'
  <2>1. pager' = [pager EXCEPT ![c] = w] /\ jrnl' = r
    <3>1. w.jfd # "orphan"
      BY <1>4, <1>8
    <3> QED BY <1>8, <3>1 DEF StepJournal, Step
  <2>2. LockState(w)
    <3>1. w.lock \in NONE .. EXCLUSIVE
      BY <1>2, <1>8 DEF LockState, Shape
    <3>2. w.reserved \in BOOLEAN /\ w.dbMod \in BOOLEAN /\ w.hot \in BOOLEAN
      BY <1>2, <1>8 DEF LockState, Shape
    <3>3. Shape(w)
      BY <1>8, <3>1, <3>2 DEF Shape
    <3>4. LockRules(w)
      <4>1. w.pc = "store" /\ w.lock = EXCLUSIVE /\ w.reserved /\ ~w.hot /\ w.dbMod
        BY <1>3, <1>8
      <4> QED BY <4>1 DEF LockRules, Writes, EXCLUSIVE, NONE
    <3> QED BY <3>3, <3>4 DEF LockState
  <2>3. JournalState(w)
    <3>1. w.pc = "store" /\ w.jfd = "open" /\ w.reserved /\ w.dbMod
      BY <1>3, <1>4, <1>8
    <3>2. w.off \in Nat /\ w.hdr \in Nat /\ w.off > 0 /\ w.off # 0 /\ 1 <= w.hdr /\ w.hdr <= w.off
      BY <1>8
    <3> QED BY <3>1, <3>2 DEF JournalState
  <2>4. Granted(c, w)
    BY <1>1, <1>3, <1>8 DEF Granted, EXCLUSIVE, PENDING, NONE
  <2>5. Open(w, jrnl')
    <3>1. r # NoFile
      BY <1>8 DEF Cells, NoFileDistinct
    <3> QED BY <1>6, <1>8, <2>1, <3>1 DEF Open
  <2>6. FilesInv'
    <3>1. IsFile(r) /\ IsFile(jrnl)
      BY <1>5, <1>8 DEF IsFile
    <3> QED BY <1>7, <2>1, <3>1 DEF FilesInv
  <2>7. w.mode = pager[c].mode /\ w.jfd # "orphan" /\ pager[c].reserved /\ Cells(jrnl')
    BY <1>1, <1>3, <1>4, <1>8, <2>1
  <2> QED BY <2>1, <2>2, <2>3, <2>4, <2>5, <2>6, <2>7, StepKeeps
<1>9. CASE v.commit
  <2>1. PICK w : w = [v EXCEPT !.pc = "store", !.dbMod = TRUE]
    OBVIOUS
  <2>2. StepJournal(c, w, jrnl)
    BY <1>1, <1>5, <1>9, <2>1 DEF FlushJournal
  <2>3. /\ DOMAIN w = Fields /\ w = [f \in Fields |-> w[f]] /\ w.pc = "store"
        /\ w.mode = v.mode /\ w.lock = v.lock /\ w.reserved = v.reserved /\ w.jfd = v.jfd
        /\ w.off = v.off /\ w.hdr = v.hdr /\ w.todo = v.todo /\ w.dbMod = TRUE /\ w.hot = v.hot
    BY <1>2, <2>1 DEF LockState, Shape, Fields
  <2>4. w.dbMod \in BOOLEAN /\ w.dbMod
    BY <2>3
  <2> QED BY <1>4, <1>5, <1>6, <1>8, <2>2, <2>3, <2>4
<1>10. CASE ~v.commit
  <2>1. PICK off \in Nat : off = v.off + 1
    BY <1>4
  <2>2. PICK w : w = [v EXCEPT !.pc = "store", !.dbMod = TRUE, !.hdr = off, !.off = off, !.nRec = 0]
    OBVIOUS
  <2>3. PICK r : r = Headed(jrnl, off, v.stamp)
    OBVIOUS
  <2>4. StepJournal(c, w, r)
    BY <1>1, <1>5, <1>10, <2>1, <2>2, <2>3 DEF FlushJournal
  <2>5. /\ DOMAIN w = Fields /\ w = [f \in Fields |-> w[f]] /\ w.pc = "store"
        /\ w.mode = v.mode /\ w.lock = v.lock /\ w.reserved = v.reserved /\ w.jfd = v.jfd
        /\ w.off = off /\ w.hdr = off /\ w.todo = v.todo /\ w.dbMod = TRUE /\ w.hot = v.hot
    BY <1>2, <2>2 DEF LockState, Shape, Fields
  <2>6. 1 <= off /\ off <= Len(jrnl) + 1 /\ 1 \in 1 .. Len(jrnl) /\ 1 # off
    BY <1>4, <1>6, <2>1
  <2>7. Cells(r) /\ off <= Len(r) /\ r[1] = jrnl[1]
    <3>1. PICK x : x = Header(FALSE, 0, 10 * v.stamp + off)
      OBVIOUS
    <3>2. r = Put(jrnl, off, x)
      BY <2>3, <3>1 DEF Headed
    <3>3. Cells(r) /\ off <= Len(r) /\ \A k \in 1 .. Len(jrnl) : k # off => r[k] = jrnl[k]
      BY <1>5, <2>6, <3>2, PutCell
    <3> QED BY <2>6, <3>3
  <2>8. w.dbMod \in BOOLEAN /\ w.dbMod
    BY <2>5
  <2> QED BY <1>8, <2>4, <2>5, <2>6, <2>7, <2>8
<1> QED BY <1>9, <1>10

\* The Pager object of a connection that has finalized the journal
LEMMA EndedState ==
    ASSUME NEW v, NEW w, LockState(v), NEW pc \in {"validate", "read"},
           /\ DOMAIN w = Fields /\ w = [g \in Fields |-> w[g]] /\ w.pc = pc
           /\ w.mode = v.mode /\ w.lock = SHARED /\ w.reserved = FALSE
           /\ w.off = 0 /\ w.hdr = 0 /\ w.todo = {} /\ w.dbMod = FALSE /\ w.hot = FALSE,
           w.jfd = "closed" \/ (w.mode # "delete" /\ w.jfd = "open")
    PROVE  LockState(w) /\ JournalState(w)
<1>1. w.reserved \in BOOLEAN /\ w.dbMod \in BOOLEAN /\ w.hot \in BOOLEAN
  OBVIOUS
<1>2. ~w.reserved /\ ~w.dbMod /\ ~w.hot
  OBVIOUS
<1>3. w.lock \in NONE .. EXCLUSIVE /\ w.lock # NONE
  BY DEF NONE, SHARED, EXCLUSIVE
<1>4. w.pc \notin {"idle", "exists", "reserved", "first", "hot", "count", "flush", "store", "finish", "play", "write", "commit"}
  OBVIOUS
<1>5. Shape(w)
  BY <1>1, <1>3 DEF Shape
<1>6. LockRules(w)
  BY <1>2, <1>3, <1>4 DEF LockRules, Writes
<1>7. JournalState(w)
  BY <1>2, <1>4 DEF JournalState
<1> QED BY <1>5, <1>6, <1>7 DEF LockState

\* A connection without a journal needs nothing of it.
LEMMA NotOpen ==
    ASSUME NEW w, NEW j, w.jfd # "open", w.off = 0, ~w.dbMod, w.pc # "flush"
    PROVE  Open(w, j)
BY DEF Open

\* The SHARED lock is granted to one that has a lock.
LEMMA SharedGranted ==
    ASSUME NEW c, NEW w, w.lock = SHARED, ~w.reserved, pager[c].lock # NONE
    PROVE  Granted(c, w)
BY DEF Granted, SHARED, PENDING, EXCLUSIVE

\* A delete takes the name of the journal from the connections that have it open.
LEMMA DeletedKeeps ==
    ASSUME IInv, NoFileDistinct, NEW c \in Conns, pager[c].reserved \/ pager[c].lock = EXCLUSIVE,
           NEW w, LockState(w), JournalState(w), w.mode = "delete", pager[c].mode = "delete", w.jfd = "closed",
           w.lock = SHARED, ~w.reserved, pager[c].lock # NONE, w.off = 0, ~w.dbMod, w.pc # "flush",
           pager' = [d \in Conns |->
                       IF d = c THEN w
                       ELSE IF pager[d].jfd = "open" THEN [pager[d] EXCEPT !.jfd = "orphan", !.own = jrnl]
                       ELSE pager[d]],
           old' = old \union Survivors(jrnl, jrnlDisk), jrnl' = NoFile, jrnlDisk' = NoFile
    PROVE  IInv'
<1>1. pager'[c] = w
  OBVIOUS
<1>2. ASSUME NEW d \in Others(c)
      PROVE  /\ pager'[d].lock = pager[d].lock /\ pager'[d].reserved = pager[d].reserved /\ pager'[d].mode = pager[d].mode
             /\ LockState(pager'[d]) /\ JournalState(pager'[d]) /\ Open(pager'[d], NoFile)
  <2>1. d \in Conns /\ d # c
    BY DEF Others
  <2>2. PICK v : v = pager[d]
    OBVIOUS
  <2>3. LockState(v) /\ JournalState(v) /\ Open(v, jrnl)
    BY <2>1, <2>2, OneConn
  <2>4. v.off = 0 /\ ~v.dbMod /\ v.pc # "flush" /\ ~v.reserved /\ ~v.hot
    BY <2>2, OnlyWriter DEF IInv
  <2>5. CASE v.jfd # "open"
    <3>1. pager'[d] = v
      BY <2>1, <2>2, <2>5
    <3>2. Open(v, NoFile)
      BY <2>4, <2>5, NotOpen
    <3> QED BY <2>2, <2>3, <3>1, <3>2
  <2>6. CASE v.jfd = "open"
    <3>1. PICK x : x = [v EXCEPT !.jfd = "orphan", !.own = jrnl]
      OBVIOUS
    <3>2. pager'[d] = x
      BY <2>1, <2>2, <2>6, <3>1
    <3>3. /\ DOMAIN x = Fields /\ x = [f \in Fields |-> x[f]] /\ x.pc = v.pc
          /\ x.mode = v.mode /\ x.lock = v.lock /\ x.reserved = v.reserved
          /\ x.jfd = "orphan" /\ x.off = v.off /\ x.hdr = v.hdr /\ x.todo = v.todo
          /\ x.dbMod = v.dbMod /\ x.hot = v.hot
      BY <2>3, <3>1 DEF LockState, Shape, Fields
    <3>4. Shape(x)
      BY <2>3, <3>3 DEF LockState, Shape
    <3>5. LockRules(x)
      BY <2>3, <2>4, <3>3 DEF LockState, LockRules
    <3>6. JournalState(x)
      BY <2>3, <2>4, <2>6, <3>3 DEF JournalState
    <3>7. Open(x, NoFile)
      <4>1. x.jfd # "open" /\ x.off = 0 /\ ~x.dbMod /\ x.pc # "flush"
        BY <2>4, <3>3
      <4> QED BY <4>1, NotOpen
    <3> QED BY <2>2, <3>2, <3>3, <3>4, <3>5, <3>6, <3>7 DEF LockState
  <2> QED BY <2>5, <2>6
<1>3. Granted(c, w)
  BY SharedGranted
<1>4. LocksInv'
  BY <1>1, <1>2, <1>3, LocksKept DEF IInv
<1>5. Open(w, NoFile)
  <2>1. w.jfd # "open"
    OBVIOUS
  <2> QED BY <2>1, NotOpen
<1>6. \A d \in Conns : d = c \/ d \in Others(c)
  BY DEF Others
<1>7. \A d \in Conns : LockState(pager'[d]) /\ JournalState(pager'[d]) /\ Open(pager'[d], jrnl')
  BY <1>1, <1>2, <1>5, <1>6
<1>8. \E d \in Conns : pager'[d].mode = "delete"
  BY <1>1
<1>9. pager' = [d \in Conns |-> pager'[d]]
  OBVIOUS
<1>10. PagersInv'
  BY <1>7, <1>8, <1>9 DEF PagersInv
<1>11. FilesInv'
  <2>1. \A j \in old : IsFile(j)
    BY DEF IInv, FilesInv
  <2>2. \A j \in Survivors(jrnl, jrnlDisk) : IsFile(j)
    BY SurvivorsFile DEF IInv, FilesInv
  <2>3. IsFile(NoFile)
    BY DEF IsFile
  <2> QED BY <2>1, <2>2, <2>3 DEF FilesInv
<1> QED BY <1>4, <1>10, <1>11 DEF IInv

\* The journal is finalized.
LEMMA FinalizedKeeps ==
    ASSUME IInv, NoFileDistinct, NEW c \in Conns, pager[c].reserved \/ pager[c].lock = EXCLUSIVE,
           pager[c].jfd = "open", NEW pc \in {"validate", "read"}, NEW cache, NEW done,
           Finalized(c, [pager[c] EXCEPT !.pc = pc, !.cache = cache], done)
    PROVE  IInv'
<1>1. PICK v : v = pager[c]
  OBVIOUS
<1>2. LockState(v) /\ JournalState(v) /\ Open(v, jrnl) /\ v.lock \in 0 .. 4
  BY <1>1, OneConn
<1>3. PICK f : f = [v EXCEPT !.pc = pc, !.cache = cache]
  OBVIOUS
<1>4. /\ DOMAIN f = Fields /\ f = [g \in Fields |-> f[g]]
      /\ f.pc = pc /\ f.mode = v.mode /\ f.jfd = "open"
  BY <1>1, <1>2, <1>3 DEF LockState, Shape, Fields
<1>5. PICK me : me = [f EXCEPT !.off = 0, !.hdr = 0, !.nRec = 0, !.inJournal = {}, !.dbMod = FALSE,
                              !.dirty = {}, !.left = {}, !.todo = {}, !.stamp = 0, !.commit = FALSE,
                              !.hot = FALSE, !.play = {}, !.lock = SHARED, !.reserved = FALSE]
  OBVIOUS
<1>6. /\ DOMAIN me = Fields /\ me = [g \in Fields |-> me[g]] /\ me.pc = pc
      /\ me.mode = v.mode /\ me.lock = SHARED /\ me.reserved = FALSE /\ me.jfd = "open"
      /\ me.off = 0 /\ me.hdr = 0 /\ me.todo = {} /\ me.dbMod = FALSE /\ me.hot = FALSE
  BY <1>4, <1>5 DEF Fields
<1>7. Finalized(c, f, done)
  BY <1>1, <1>3
<1>8. v.lock # NONE
  <2>1. v.lock = NONE => v.pc = "idle"
    BY <1>2 DEF LockState, LockRules
  <2>2. v.reserved => v.pc # "idle"
    BY <1>2 DEF LockState, LockRules, Writes
  <2> QED BY <1>1, <2>1, <2>2 DEF NONE, EXCLUSIVE
<1>9. Journal(c) = jrnl /\ Cells(jrnl)
  BY WriterJournal
<1>10. CASE v.mode = "delete"
  <2>1. PICK w : w = [me EXCEPT !.jfd = "closed"]
    OBVIOUS
  <2>2. /\ DOMAIN w = Fields /\ w = [g \in Fields |-> w[g]] /\ w.pc = pc
        /\ w.mode = v.mode /\ w.lock = SHARED /\ w.reserved = FALSE /\ w.jfd = "closed"
        /\ w.off = 0 /\ w.hdr = 0 /\ w.todo = {} /\ w.dbMod = FALSE /\ w.hot = FALSE
    BY <1>6, <2>1 DEF Fields
  <2>3. LockState(w) /\ JournalState(w)
    BY <1>2, <2>2, EndedState
  <2>4. /\ pager' = [d \in Conns |->
                       IF d = c THEN w
                       ELSE IF pager[d].jfd = "open" THEN [pager[d] EXCEPT !.jfd = "orphan", !.own = jrnl]
                       ELSE pager[d]]
        /\ old' = old \union Survivors(jrnl, jrnlDisk)
        /\ jrnl' = NoFile /\ jrnlDisk' = NoFile
    BY <1>4, <1>5, <1>7, <1>10, <2>1 DEF Finalized
  <2>5. ~w.reserved /\ ~w.dbMod /\ w.pc # "flush"
    BY <2>2
  <2> QED BY <1>1, <1>8, <1>10, <2>2, <2>3, <2>4, <2>5, DeletedKeeps
<1>11. CASE v.mode # "delete"
  <2>1. LockState(me) /\ JournalState(me)
    BY <1>2, <1>6, <1>11, EndedState
  <2>2. \/ StepJournal(c, me, <<>>) /\ jrnlDisk' \in {jrnl', jrnlDisk} /\ UNCHANGED old
        \/ StepJournal(c, me, Put(jrnl, 1, Header(FALSE, 0, 0))) /\ jrnlDisk' = jrnl' /\ UNCHANGED old
        \/ Step(c, me) /\ UNCHANGED <<jrnl, jrnlDisk, old>>
    <3>1. CASE v.mode = "truncate" /\ done
      BY <1>4, <1>5, <1>7, <3>1 DEF Finalized
    <3>2. CASE v.mode = "persist" /\ done
      BY <1>4, <1>5, <1>7, <1>9, <3>2 DEF Finalized
    <3>3. CASE ~(v.mode = "truncate" /\ done) /\ ~(v.mode = "persist" /\ done)
      BY <1>4, <1>5, <1>7, <1>11, <3>3 DEF Finalized
    <3> QED BY <3>1, <3>2, <3>3
  <2>10. PICK x : x = Header(FALSE, 0, 0)
    OBVIOUS
  <2>3. PICK r : r = Put(jrnl, 1, x)
    OBVIOUS
  <2>4. Cells(r) /\ Cells(<<>>)
    <3>1. Len(jrnl) \in Nat
      BY <1>9 DEF Cells
    <3>2. Cells(Put(jrnl, 1, x))
      BY <1>9, <3>1, PutCell
    <3>3. <<>> \in Seq({})
      OBVIOUS
    <3>4. Cells(<<>>)
      BY <3>3 DEF Cells
    <3>5. Cells(r)
      BY <2>3, <3>2
    <3> QED BY <3>4, <3>5
  <2>5. /\ pager' = [pager EXCEPT ![c] = me] /\ UNCHANGED old
        /\ jrnl' = jrnl \/ Cells(jrnl')
        /\ jrnlDisk' \in {jrnl', jrnlDisk}
    BY <1>6, <2>2, <2>3, <2>4, <2>10 DEF StepJournal, Step
  <2>6. Cells(jrnl')
    BY <1>9, <2>5
  <2>7. Open(me, jrnl')
    <3>1. jrnl' # NoFile
      BY <2>6 DEF Cells, NoFileDistinct
    <3>2. me.pc # "flush" /\ ~me.dbMod
      BY <1>6
    <3> QED BY <1>6, <3>1, <3>2 DEF Open
  <2>8. FilesInv'
    BY <2>5, <2>6 DEF IInv, FilesInv, IsFile
  <2>9. Granted(c, me)
    <3>1. ~me.reserved
      BY <1>6
    <3> QED BY <1>1, <1>6, <1>8, <3>1, SharedGranted
  <2> QED BY <1>1, <1>6, <2>1, <2>5, <2>6, <2>7, <2>8, <2>9, StepKeeps
<1> QED BY <1>10, <1>11

\* A rollback or the playback of a hot journal ends; a transaction commits.
LEMMA EndKeeps ==
    ASSUME IInv, NoFileDistinct, NEW c \in Conns, PlayEnd(c) \/ Finish(c)
    PROVE  IInv'
<1>1. PICK v : v = pager[c]
  OBVIOUS
<1>2. LockState(v) /\ JournalState(v)
  BY <1>1, OneConn
<1>3. CASE PlayEnd(c)
  <2>1. v.pc = "play"
    BY <1>1, <1>3 DEF PlayEnd
  <2>2. (v.reserved \/ v.lock = EXCLUSIVE) /\ v.jfd = "open"
    BY <1>2, <2>1 DEF LockState, LockRules, JournalState
  <2>3. PICK pc \in {"validate", "read"} : pc = IF v.hot THEN "validate" ELSE "read"
    OBVIOUS
  <2>4. PICK done : done = (v.hot => IsHeader(jrnl, 1))
    OBVIOUS
  <2>5. [v EXCEPT !.pc = pc] = [v EXCEPT !.pc = pc, !.cache = v.cache]
    BY <1>2 DEF LockState, Shape, Fields
  <2>6. Finalized(c, [v EXCEPT !.pc = pc], done)
    BY <1>1, <1>3, <2>3, <2>4 DEF PlayEnd
  <2>7. Finalized(c, [pager[c] EXCEPT !.pc = pc, !.cache = v.cache], done)
    BY <1>1, <2>5, <2>6
  <2> QED BY <1>1, <2>2, <2>7, FinalizedKeeps
<1>4. CASE Finish(c)
  <2>1. v.pc = "finish"
    BY <1>1, <1>4 DEF Finish
  <2>2. v.reserved /\ v.jfd = "open"
    BY <1>2, <2>1 DEF LockState, LockRules, JournalState, Writes
  <2>3. PICK cache : cache = IF v.cache = NoSnap THEN v.cache ELSE file
    OBVIOUS
  <2>4. PICK pc \in {"validate", "read"} : pc = "read"
    OBVIOUS
  <2>5. PICK done : done = TRUE
    OBVIOUS
  <2>6. Finalized(c, [pager[c] EXCEPT !.pc = pc, !.cache = cache], done)
    BY <1>1, <1>4, <2>3, <2>4, <2>5 DEF Finish
  <2> QED BY <1>1, <2>2, <2>6, FinalizedKeeps
<1> QED BY <1>3, <1>4

------------------------------------------------------------------------------
(* The invariant *)

\* A connection that has not done anything
LEMMA ClosedState ==
    ASSUME NEW m, NEW w, w = Closed(m), NEW j
    PROVE  /\ LockState(w) /\ JournalState(w) /\ Open(w, j)
           /\ w.lock = NONE /\ ~w.reserved /\ w.jfd = "closed"
<1>1. /\ DOMAIN w = Fields /\ w = [f \in Fields |-> w[f]] /\ w.pc = "idle" /\ w.mode = m
      /\ w.lock = NONE /\ w.reserved = FALSE /\ w.jfd = "closed" /\ w.off = 0
      /\ w.hdr = 0 /\ w.todo = {} /\ w.dbMod = FALSE /\ w.hot = FALSE
  BY DEF Closed, Fields
<1>2. ~w.reserved /\ ~w.dbMod /\ ~w.hot
  BY <1>1
<1>3. w.reserved \in BOOLEAN /\ w.dbMod \in BOOLEAN /\ w.hot \in BOOLEAN
  BY <1>1
<1>4. w.lock \in NONE .. EXCLUSIVE
  BY <1>1 DEF NONE, EXCLUSIVE
<1>5. Shape(w)
  BY <1>1, <1>3, <1>4 DEF Shape
<1>6. LockRules(w)
  BY <1>1, <1>2 DEF LockRules, Writes
<1>7. JournalState(w)
  BY <1>1, <1>2 DEF JournalState
<1>8. Open(w, j)
  BY <1>1, <1>2, NotOpen
<1> QED BY <1>1, <1>2, <1>5, <1>6, <1>7, <1>8 DEF LockState

\* Nobody has the file open.
LEMMA AllClosed ==
    ASSUME NEW m, pager = [c \in Conns |-> Closed(m[c])]
    PROVE  LocksInv /\ PagersInv
<1>1. ASSUME NEW c \in Conns
      PROVE  /\ LockState(pager[c]) /\ JournalState(pager[c]) /\ Open(pager[c], jrnl)
             /\ pager[c].lock = NONE /\ ~pager[c].reserved /\ pager[c].jfd # "orphan"
  <2>1. PICK w : w = Closed(m[c])
    OBVIOUS
  <2>2. pager[c] = w
    BY <2>1
  <2>3. LockState(w) /\ JournalState(w) /\ Open(w, jrnl) /\ w.lock = NONE /\ ~w.reserved /\ w.jfd = "closed"
    BY <2>1, ClosedState
  <2> QED BY <2>2, <2>3
<1>2. LocksInv
  <2>1. ~(NONE >= PENDING) /\ NONE # EXCLUSIVE
    BY DEF NONE, PENDING, EXCLUSIVE
  <2> QED BY <1>1, <2>1 DEF LocksInv, Others
<1>3. pager = [c \in Conns |-> pager[c]]
  OBVIOUS
<1>4. PagersInv
  BY <1>1, <1>3 DEF PagersInv
<1> QED BY <1>2, <1>4

\* The power is lost.
LEMMA PowerLossKeeps == ASSUME IInv, PowerLoss PROVE IInv'
<1>1. PICK m : m = [c \in Conns |-> pager[c].mode]
  OBVIOUS
<1>2. pager' = [c \in Conns |-> Closed(m[c])]
  BY <1>1 DEF PowerLoss
<1>3. LocksInv' /\ PagersInv'
  <2>1. ASSUME NEW c \in Conns
        PROVE  /\ LockState(pager'[c]) /\ JournalState(pager'[c]) /\ Open(pager'[c], jrnl')
               /\ pager'[c].lock = NONE /\ ~pager'[c].reserved /\ pager'[c].jfd # "orphan"
    <3>1. PICK w : w = Closed(m[c])
      OBVIOUS
    <3>2. pager'[c] = w
      BY <1>2, <3>1
    <3>3. LockState(w) /\ JournalState(w) /\ Open(w, jrnl') /\ w.lock = NONE /\ ~w.reserved /\ w.jfd = "closed"
      BY <3>1, ClosedState
    <3> QED BY <3>2, <3>3
  <2>2. LocksInv'
    <3>1. ~(NONE >= PENDING) /\ NONE # EXCLUSIVE
      BY DEF NONE, PENDING, EXCLUSIVE
    <3> QED BY <2>1, <3>1 DEF LocksInv, Others
  <2>3. pager' = [c \in Conns |-> pager'[c]]
    BY <1>2
  <2> QED BY <2>1, <2>2, <2>3 DEF PagersInv
<1>4. FilesInv'
  <2>1. jrnl' \in Survivors(jrnl, jrnlDisk) \union old /\ jrnlDisk' = jrnl' /\ old' = {}
    BY DEF PowerLoss
  <2>2. IsFile(jrnl')
    BY <2>1, SurvivorsFile DEF IInv, FilesInv
  <2> QED BY <2>1, <2>2 DEF FilesInv
<1> QED BY <1>3, <1>4 DEF IInv

\* The database was never used, or a finished transaction has left its journal.
LEMMA InitIInv == JournalInit => IInv
<1> SUFFICES ASSUME JournalInit PROVE IInv
  OBVIOUS
<1>1. PICK start \in {NeverUsed, Remains} : StartsAs(start)
  BY DEF JournalInit
<1>2. IsFile(start.jrnl)
  <2>1. CASE start = NeverUsed
    BY <2>1 DEF NeverUsed, IsFile
  <2>2. CASE start = Remains
    <3>1. PICK j : j = start.jrnl
      OBVIOUS
    <3>2. PICK n \in Nat : n = 2 * Cardinality(Pages)
      BY JournalAssumption
    <3>3. DOMAIN j = 1 .. n /\ j = [k \in 1 .. n |-> j[k]]
      BY <2>2, <3>1, <3>2 DEF Remains
    <3>4. PICK S : S = {j[k] : k \in 1 .. n}
      OBVIOUS
    <3>5. \A k \in 1 .. n : j[k] \in S
      BY <3>4
    <3>6. j \in [1 .. n -> S]
      BY <3>3, <3>5
    <3>7. j \in Seq(S)
      BY <3>6
    <3> QED BY <3>1, <3>7 DEF IsFile, Cells
  <2> QED BY <2>1, <2>2
<1>3. FilesInv
  BY <1>1, <1>2 DEF StartsAs, FilesInv
<1>4. LocksInv /\ PagersInv
  BY <1>1, AllClosed DEF StartsAs
<1> QED BY <1>3, <1>4 DEF IInv

\* Every step keeps the invariant, as long as no connection writes with a
\* journal handle of an earlier transaction where the journal modes differ.
LEMMA NextIInv == ASSUME NoFileDistinct, ~KeepOpen PROVE IInv /\ [JournalNext]_journalVars => IInv'
<1> SUFFICES ASSUME IInv, [JournalNext]_journalVars PROVE IInv'
  OBVIOUS
<1>1. ASSUME NEW c \in Conns, Reading(c) PROVE IInv'
  BY <1>1, LockSharedKeeps, HasHotJournalKeeps, LockHotKeeps, PlayPageKeeps, EndKeeps, ValidateKeeps, EndReadKeeps DEF Reading
<1>2. ASSUME NEW c \in Conns, Writing(c) PROVE IInv'
  BY <1>2, BeginWriteKeeps, ModifyKeeps, LockExclusiveKeeps, CountRecordsKeeps, FlushJournalKeeps, StorePageKeeps,
     EndKeeps, RollbackKeeps DEF Writing
<1>3. ASSUME NEW c \in Conns, Crash(c) PROVE IInv'
  BY <1>3, CrashKeeps
<1>4. CASE PowerLoss
  BY <1>4, PowerLossKeeps
<1>5. CASE UNCHANGED journalVars
  <2>1. UNCHANGED <<jrnl, jrnlDisk, old, pager>>
    BY <1>5 DEF journalVars
  <2>2. FilesInv'
    BY <2>1, FilesKept DEF IInv
  <2>3. LocksInv'
    BY <2>1 DEF IInv, LocksInv, Others
  <2>4. PagersInv'
    BY <2>1 DEF IInv, PagersInv
  <2> QED BY <2>2, <2>3, <2>4 DEF IInv
<1> QED BY <1>1, <1>2, <1>3, <1>4, <1>5 DEF JournalNext

\* While a transaction has changed the database file, a hot journal that undoes
\* it is in the file system, for any number of connections, pages, transactions,
\* deaths of processes and power losses.
THEOREM ChangesAreJournalled ==
    ASSUME NoFileDistinct, ~KeepOpen
    PROVE  JournalSpec => []JournalCoversWrites
<1>1. IInv => JournalCoversWrites
  <2> SUFFICES ASSUME IInv, NEW c \in Conns, pager[c].dbMod PROVE Hot(jrnl)
    BY DEF JournalCoversWrites
  <2>1. JournalState(pager[c]) /\ Open(pager[c], jrnl)
    BY OneConn
  <2>2. pager[c].off > 0 /\ pager[c].jfd = "open" /\ pager[c].off \in Nat
    BY <2>1 DEF JournalState
  <2>3. Cells(jrnl) /\ jrnl # NoFile
    BY <2>2, WriterJournal
  <2>4. pager[c].off <= Len(jrnl) /\ HeaderCell(jrnl[1]) /\ jrnl[1].magic = TRUE
    BY <2>1, <2>2 DEF Open
  <2>5. 1 \in DOMAIN jrnl
    BY <2>2, <2>3, <2>4 DEF Cells
  <2>6. jrnl[1].kind = "header" /\ jrnl[1].magic
    BY <2>4 DEF HeaderCell
  <2> QED BY <2>3, <2>5, <2>6 DEF Hot, IsHeader
<1> QED BY <1>1, InitIInv, NextIInv, PTL DEF JournalSpec

\* Nobody reads while a transaction has changed the database file and not
\* finalized its journal.
ChangesAreUnread == \A c \in Conns : \A d \in Others(c) :
    pager[c].dbMod => pager[d].pc = "idle" /\ pager[d].lock = NONE

\* While a transaction has changed the database file, its EXCLUSIVE lock keeps
\* every other connection out: none of them reads the changed pages.
THEOREM ChangesAreLocked ==
    ASSUME NoFileDistinct, ~KeepOpen
    PROVE  JournalSpec => []ChangesAreUnread
<1>1. IInv => ChangesAreUnread
  <2> SUFFICES ASSUME IInv, NEW c \in Conns, NEW d \in Others(c), pager[c].dbMod
      PROVE  pager[d].pc = "idle" /\ pager[d].lock = NONE
    BY DEF ChangesAreUnread
  <2>1. pager[c].lock = EXCLUSIVE
    BY OneConn DEF LockState, LockRules
  <2>2. pager[d].lock = NONE
    BY <2>1 DEF IInv, LocksInv
  <2>3. d \in Conns
    BY DEF Others
  <2>4. pager[d].pc = "idle"
    BY <2>2, <2>3, OneConn DEF LockState, LockRules
  <2> QED BY <2>2, <2>4
<1> QED BY <1>1, InitIInv, NextIInv, PTL DEF JournalSpec

==============================================================================
