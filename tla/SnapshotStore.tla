---------------------------- MODULE SnapshotStore ----------------------------
(***************************************************************************)
(* What the storage layer of SQLite promises to the connections of one     *)
(* database file, whatever the journal mode: a committed image that only a *)
(* whole transaction replaces, readers that see one image from the start   *)
(* of their transaction to its end, one writer at a time, and a bound on   *)
(* what a power loss may leave behind.  WriteAheadLog and RollbackJournal  *)
(* implement this specification.                                           *)
(***************************************************************************)
EXTENDS Naturals

CONSTANTS
    Conns,      \* the connections to the database file
    Pages,      \* the pages of the database
    Stamps,     \* the identities of write transactions
    NoSnap      \* the snapshot of a connection that is not reading

VARIABLES
    image,      \* the committed database: page -> stamp of its last writer
    snap,       \* connection -> the image it reads, or NoSnap
    intent,     \* connection -> the pages its open transaction replaces
    limbo,      \* images whose commit has started and can still be completed
    doubt       \* earlier images to which a power loss may return

storeVars == <<image, snap, intent, limbo, doubt>>

NoIntent == [pages |-> {}, stamp |-> 0]

Applied(w) == [p \in Pages |-> IF p \in w.pages THEN w.stamp ELSE image[p]]

StoreInit ==
    /\ image \in [Pages -> {0} \union Stamps]
    /\ snap = [c \in Conns |-> NoSnap]
    /\ intent = [c \in Conns |-> NoIntent]
    /\ limbo = {} /\ doubt = {}

(* A read transaction starts at the image committed at that moment. *)
BeginRead(c) ==
    /\ UNCHANGED <<intent, limbo, doubt>>
    /\ snap[c] = NoSnap
    /\ snap' = [snap EXCEPT ![c] = image]
    /\ UNCHANGED image

(* It ends, or its process dies, at any moment. *)
Leave(c) ==
    /\ intent' = [intent EXCEPT ![c] = NoIntent]
    /\ UNCHANGED <<limbo, doubt>>
    /\ snap[c] # NoSnap
    /\ snap' = [snap EXCEPT ![c] = NoSnap]
    /\ UNCHANGED image

(* A writer must read the newest image, and be the only writer. *)
Write(c) ==
    /\ \A d \in Conns \ {c} : intent[d] = NoIntent
    /\ \E w \in [pages : SUBSET Pages, stamp : Stamps] :
         /\ intent[c].pages \subseteq w.pages /\ w.pages # {}
         /\ intent[c] # NoIntent => w.stamp = intent[c].stamp
         /\ intent' = [intent EXCEPT ![c] = w]
    /\ UNCHANGED <<limbo, doubt>>
    /\ snap[c] = image
    /\ UNCHANGED <<image, snap>>

Rollback(c) ==
    /\ intent' = [intent EXCEPT ![c] = NoIntent]
    /\ UNCHANGED <<image, snap, limbo, doubt>>

(* The commit starts: its writer may now die and leave it to recovery. *)
Prepare(c) ==
    /\ intent[c] # NoIntent
    /\ limbo' = limbo \union {Applied(intent[c])}
    /\ UNCHANGED <<image, snap, intent, doubt>>

(* The whole transaction becomes the committed image, in one step. *)
Commit(c) ==
    /\ intent[c] # NoIntent
    /\ snap[c] = image
    /\ image' = Applied(intent[c])
    /\ snap' = [snap EXCEPT ![c] = image']
    /\ intent' = [intent EXCEPT ![c] = NoIntent]
    /\ limbo' = {}
    /\ doubt' \in {{}, (doubt \union limbo \union {image}) \ {image'}}

(* Recovery completes the commit of a dead writer; readers keep their image. *)
Recover ==
    /\ limbo # {} /\ limbo' = {}
    /\ image' \in limbo
    /\ doubt' \in {{}, (doubt \union limbo \union {image}) \ {image'}}
    /\ UNCHANGED <<snap, intent>>

(* Something was flushed: fewer images are in doubt. *)
Settle ==
    /\ limbo' \subseteq limbo
    /\ doubt' \subseteq doubt
    /\ UNCHANGED <<intent, image, snap>>

PowerLoss ==
    /\ limbo' = {} /\ doubt' = {}
    /\ intent' = [c \in Conns |-> NoIntent]
    /\ snap' = [c \in Conns |-> NoSnap]
    /\ image' \in {image} \union limbo \union doubt

StoreNext ==
    \/ Settle \/ PowerLoss
    \/ \E c \in Conns : BeginRead(c) \/ Leave(c) \/ Write(c)
    \/ \E c \in Conns : Rollback(c) \/ Prepare(c) \/ Commit(c)
    \/ Recover

StoreSpec == StoreInit /\ [][StoreNext]_storeVars
==============================================================================
