--------------------------------- MODULE Wal --------------------------------
(***************************************************************************)
(* The write-ahead log manager of crates/vexra-storage/src/wal.rs, as      *)
(* Database::open_with_config, maybe_checkpoint and close in               *)
(* crates/vexra-core/src/db.rs drive it.                                   *)
(*                                                                         *)
(* The state is the two files (the database and its -wal file) and one     *)
(* process.  A write_all call is two steps, so that the process can die    *)
(* with the header, a frame or a database page half written.  The file     *)
(* mutex makes each WalManager method exclusive, so `pc' says which method *)
(* holds it and how far it is.  A crash is the death of the process: the   *)
(* code never calls sync_all, so a power loss promises nothing.            *)
(*                                                                         *)
(* A frame's two checksums cover the page number, the page data and the    *)
(* salts of the manager that wrote it.  They are abstracted to what the    *)
(* reader compares: the frame's salt, and whether all its bytes are there. *)
(* Bytes behind a half-written frame are read at the wrong offset and fail *)
(* the checksum, exactly like the half-written frame itself.               *)
(***************************************************************************)
EXTENDS Integers, Sequences, FiniteSets

CONSTANTS
  Pages,            \* page numbers
  Data,             \* page contents
  Torn,             \* the contents of a half-written page
  Salts,            \* the salts a WalManager may draw (two random u32)
  Threshold,        \* checkpoint_threshold, 1000 in the code
  MaxFrames,        \* bound: frames the log may hold
  EmptyLogCrashes,  \* environment: may the process die while the log has a
                    \* header, whole or half written, and no whole frame?
  AppendErrors,     \* environment: may write_all fail half way (disk full)?
  RecoveryErrors    \* environment: may a copy of recover() fail?

ASSUME WalConstants ==
  /\ Torn \notin Data
  /\ Threshold \in Nat
  /\ MaxFrames \in Nat
  /\ EmptyLogCrashes \in BOOLEAN
  /\ AppendErrors \in BOOLEAN
  /\ RecoveryErrors \in BOOLEAN

VARIABLES
  db,          \* database file: page -> contents
  file,        \* -wal file: "missing", "empty" (length 0), "torn" (part of
               \* a header) or "valid" (a header, then `body')
  hdrSalt,     \* salt in the header of a valid log
  body,        \* what follows the header: frames, oldest first
  pc,          \* where the process is; "down" when there is none
  task,        \* the method that is replaying the log
  mgrSalt,     \* WalManager.salt1, salt2
  sequence,    \* WalManager.sequence
  frameCount,  \* WalManager.frame_count
  copied,      \* frames the running replay has written to the database
  committed    \* history: what the acknowledged appends promise

vars == <<db, file, hdrSalt, body, pc, task, mgrSalt, sequence, frameCount,
          copied, committed>>
disk == <<db, file, hdrSalt, body>>
memory == <<mgrSalt, sequence, frameCount>>

\* The process is gone and its memory with it.
Gone ==
  /\ pc' = "down"
  /\ task' = "none"
  /\ sequence' = 0
  /\ frameCount' = 0
  /\ copied' = 0
  /\ UNCHANGED mgrSalt

Frame == [page : Pages, data : Data \cup {Torn}, salt : Salts, whole : BOOLEAN]

PCs == {"down", "created", "opening", "header", "headerHalf", "idle",
        "append", "copy", "copyHalf", "remove", "closed"}
Tasks == {"none", "open", "recover", "checkpoint", "close"}

TypeOK ==
  /\ db \in [Pages -> Data \cup {Torn}]
  /\ file \in {"missing", "empty", "torn", "valid"}
  /\ hdrSalt \in Salts
  /\ body \in Seq(Frame)
  /\ pc \in PCs
  /\ task \in Tasks
  /\ mgrSalt \in Salts
  /\ sequence \in Nat
  /\ frameCount \in Nat
  /\ copied \in Nat
  /\ committed \in [Pages -> Data]
  /\ pc = "copyHalf" => copied + 1 \in DOMAIN body

-----------------------------------------------------------------------------
(* Reading the log.                                                        *)

\* Mutant: the checksums are not verified.
FrameUnverified(f, s) == f.salt = s
\* The stored checksums are those of the bytes read and the manager's salts.
FrameOK(f, s) == f.whole /\ f.salt = s

\* The frames read_all_frames returns to a manager with salt s: it stops at
\* the first frame whose checksums do not match.
Readable(s) == {i \in DOMAIN body : \A j \in 1 .. i : FrameOK(body[j], s)}

\* `store' is what writing the frames in R, in order, over `base' gives.
Replays(store, base, R) ==
  \A p \in Pages :
    /\ (\A i \in R : body[i].page # p) => store[p] = base[p]
    /\ \A i \in R :
         (body[i].page = p /\ \A j \in R : j > i => body[j].page # p)
           => store[p] = body[i].data

\* The frames the next process would replay if this one died now.
Recoverable == IF file = "valid" THEN Readable(hdrSalt) ELSE {}

HasWholeFrame == body # <<>> /\ body[1].whole

-----------------------------------------------------------------------------
(* Starting: WalManager::new, recover, open.                               *)

Init ==
  /\ db \in [Pages -> Data]
  /\ file = "missing"
  /\ hdrSalt \in Salts
  /\ body = <<>>
  /\ pc = "down"
  /\ task = "none"
  /\ mgrSalt = hdrSalt
  /\ sequence = 0
  /\ frameCount = 0
  /\ copied = 0
  /\ committed = db

\* A process opens the database: the manager draws fresh salts.
New ==
  /\ pc = "down"
  /\ pc' = "created"
  /\ mgrSalt' \in Salts
  /\ UNCHANGED <<disk, task, sequence, frameCount, copied, committed>>

\* recover() returns early when there is nothing behind the header; it then
\* leaves the manager's own salts in place.
RecoverNothing ==
  /\ pc = "created"
  /\ file # "valid" \/ body = <<>>
  /\ pc' = "opening"
  /\ UNCHANGED <<disk, memory, task, copied, committed>>

\* read_wal_header: the salts the log was written under.
LogSalt == hdrSalt

\* recover() takes the salts of the header.  When no frame can be read it
\* returns and leaves the log as it is.
RecoverFrames ==
  /\ pc = "created"
  /\ file = "valid" /\ body # <<>>
  /\ mgrSalt' = LogSalt
  /\ IF Readable(LogSalt) = {}
       THEN pc' = "opening" /\ UNCHANGED task
       ELSE pc' = "copy" /\ task' = "recover"
  /\ copied' = 0
  /\ UNCHANGED <<disk, sequence, frameCount, committed>>

\* open() on a new or empty file writes a header with the manager's salts.
OpenFresh ==
  /\ pc = "opening"
  /\ file \in {"missing", "empty"}
  /\ file' = "empty"
  /\ pc' = "header"
  /\ task' = "open"
  /\ UNCHANGED <<db, hdrSalt, body, memory, copied, committed>>

\* open() on any other file only validates magic and version.
OpenExisting ==
  /\ pc = "opening"
  /\ file = "valid"
  /\ pc' = "idle"
  /\ task' = "none"
  /\ UNCHANGED <<disk, memory, copied, committed>>

\* Part of a header cannot be read: open() fails and so does Database::open.
OpenFails ==
  /\ pc = "opening"
  /\ file = "torn"
  /\ Gone
  /\ UNCHANGED <<disk, committed>>

-----------------------------------------------------------------------------
(* append_frame.                                                           *)

\* The frame header reaches the end of the file, the page not yet.
AppendBegin(p) ==
  /\ pc = "idle"
  /\ Len(body) < MaxFrames
  /\ body' = Append(body, [page |-> p, data |-> Torn, salt |-> mgrSalt,
                           whole |-> FALSE])
  /\ sequence' = sequence + 1
  /\ pc' = "append"
  /\ UNCHANGED <<db, file, hdrSalt, task, mgrSalt, frameCount, copied, committed>>

\* The page is written too, the frame is counted and the call returns Ok.
AppendEnd(d) ==
  LET n == Len(body) IN
  /\ pc = "append"
  /\ body' = [body EXCEPT ![n] = [@ EXCEPT !.data = d, !.whole = TRUE]]
  /\ committed' = [committed EXCEPT ![body[n].page] = d]
  /\ frameCount' = frameCount + 1
  /\ pc' = "idle"
  /\ UNCHANGED <<db, file, hdrSalt, task, mgrSalt, sequence, copied>>

\* The second write_all fails: the call returns Err and the bytes stay.
AppendError ==
  /\ AppendErrors
  /\ pc = "append"
  /\ pc' = "idle"
  /\ UNCHANGED <<disk, task, memory, copied, committed>>

-----------------------------------------------------------------------------
(* checkpoint and the replay it shares with recover.                       *)

\* Database::maybe_checkpoint.  Nothing readable: checkpoint() returns Ok.
MaybeCheckpoint ==
  /\ pc = "idle"
  /\ frameCount >= Threshold
  /\ Readable(mgrSalt) # {}
  /\ pc' = "copy"
  /\ task' = "checkpoint"
  /\ copied' = 0
  /\ UNCHANGED <<disk, memory, committed>>

\* Mutant: close removes the log without a checkpoint.
RemoveAtOnce == "remove"
\* close's checkpoint has something to copy, or it goes on to remove.
CheckpointOrRemove == IF Readable(mgrSalt) = {} THEN "remove" ELSE "copy"

\* Database::close: checkpoint, then remove.
Close ==
  /\ pc = "idle"
  /\ task' = "close"
  /\ pc' = CheckpointOrRemove
  /\ copied' = 0
  /\ UNCHANGED <<disk, memory, committed>>

\* The next frame's page is being written to the database file.
CopyBegin ==
  /\ pc = "copy"
  /\ copied + 1 \in Readable(mgrSalt)
  /\ db' = [db EXCEPT ![body[copied + 1].page] = Torn]
  /\ pc' = "copyHalf"
  /\ UNCHANGED <<file, hdrSalt, body, task, memory, copied, committed>>

\* Mutant: the loop does not advance.
SameFrame == UNCHANGED copied
NextFrame == copied' = copied + 1

CopyEnd ==
  /\ pc = "copyHalf"
  /\ db' = [db EXCEPT ![body[copied + 1].page] = body[copied + 1].data]
  /\ NextFrame
  /\ pc' = "copy"
  /\ UNCHANGED <<file, hdrSalt, body, task, memory, committed>>

\* The database file cannot be opened or written, before or within a frame.
\* checkpoint() and close() return the error and the log stays as it is; that
\* of recover() is only logged, and Database::open goes on to open().
CopyError ==
  /\ pc \in {"copy", "copyHalf"}
  /\ task = "recover" => RecoveryErrors
  /\ pc' = IF task = "recover" THEN "opening" ELSE "idle"
  /\ task' = "none"
  /\ UNCHANGED <<disk, memory, copied, committed>>

\* Mutant: the log is cut one frame early.
AllButOneCopied == copied + 2 \notin Readable(mgrSalt)
\* The loop over the frames has ended.
AllCopied == copied + 1 \notin Readable(mgrSalt)

\* Every frame is copied: set_len(0).
CopyDone ==
  /\ pc = "copy"
  /\ AllCopied
  /\ file' = "empty"
  /\ body' = <<>>
  /\ pc' = "header"
  /\ UNCHANGED <<db, hdrSalt, task, memory, copied, committed>>

\* write_wal_header, called by open, recover and checkpoint.
HeaderBegin ==
  /\ pc = "header"
  /\ file' = "torn"
  /\ pc' = "headerHalf"
  /\ UNCHANGED <<db, hdrSalt, body, task, memory, copied, committed>>

\* Mutant: frame_count is only lowered.
LowerCounters ==
  IF task \in {"checkpoint", "close"}
    THEN sequence' = 0 /\ frameCount' = frameCount - Threshold
    ELSE UNCHANGED <<sequence, frameCount>>
\* Only checkpoint() resets the counters.
ResetCounters ==
  IF task \in {"checkpoint", "close"}
    THEN sequence' = 0 /\ frameCount' = 0
    ELSE UNCHANGED <<sequence, frameCount>>

\* The caller goes on: recover() is followed by open(), close() by remove().
HeaderEnd ==
  /\ pc = "headerHalf"
  /\ file' = "valid"
  /\ hdrSalt' = mgrSalt
  /\ pc' = CASE task = "recover" -> "opening"
             [] task = "close"   -> "remove"
             [] OTHER            -> "idle"
  /\ task' = IF task = "close" THEN "close" ELSE "none"
  /\ ResetCounters
  /\ UNCHANGED <<db, body, mgrSalt, copied, committed>>

\* remove() deletes the file.
Remove ==
  /\ pc = "remove"
  /\ file' = "missing"
  /\ body' = <<>>
  /\ pc' = "closed"
  /\ task' = "none"
  /\ UNCHANGED <<db, hdrSalt, memory, copied, committed>>

Exit ==
  /\ pc = "closed"
  /\ Gone
  /\ UNCHANGED <<disk, committed>>

-----------------------------------------------------------------------------
(* The process dies.  EmptyLogCrashes = FALSE is the assumption under      *)
(* which the log keeps its promise.                                        *)
Crash ==
  /\ pc # "down"
  /\ EmptyLogCrashes \/ file \in {"missing", "empty"} \/ HasWholeFrame
  /\ Gone
  /\ UNCHANGED <<disk, committed>>

-----------------------------------------------------------------------------
Start == New \/ RecoverNothing \/ RecoverFrames \/ OpenFresh \/ OpenExisting
           \/ OpenFails

AppendFrame ==
  \/ \E p \in Pages : AppendBegin(p)
  \/ \E d \in Data : AppendEnd(d)
  \/ AppendError

Replay == CopyBegin \/ CopyEnd \/ CopyDone \/ HeaderBegin \/ HeaderEnd

Next == Start \/ AppendFrame \/ MaybeCheckpoint \/ Close \/ Replay
          \/ CopyError \/ Remove \/ Exit \/ Crash

Spec == Init /\ [][Next]_vars

\* Database::open runs recover and open to their end on the calling thread, so
\* once started they are not left waiting.  Nothing obliges a client to append
\* or close, and nothing excludes a crash.
FairSpec == Spec /\ WF_vars(Start /\ pc # "down") /\ WF_vars(Replay)

-----------------------------------------------------------------------------
(* Properties.                                                             *)

\* At every instant, dying and replaying the log gives exactly the pages the
\* acknowledged appends wrote: no acknowledged frame is lost, none is replayed
\* over a newer one, and no half-written page or frame survives.
Durable == Replays(committed, db, Recoverable)

\* The contents a restart would recover, as a function of the files alone.
Recovered ==
  [p \in Pages |->
     LET hits == {i \in Recoverable : body[i].page = p}
         last == CHOOSE i \in hits : \A j \in hits : j <= i
     IN  IF hits = {} THEN db[p] ELSE body[last].data]

Store == INSTANCE DurableStore
           WITH store <- Recovered, serving <- pc \notin {"down", "closed"}

\* The log manager implements the store: seen through recovery, an append takes
\* effect at the moment it is acknowledged, and every step of a checkpoint, a
\* recovery, a close or a crash in any of them is invisible.
ImplementsStore == Store!Spec

\* Frames are thrown away only when the database file already holds the newest
\* readable one of each page, whatever went wrong before.
UncopiedFramesKept ==
  [][Len(body') < Len(body) =>
       \A i \in Readable(mgrSalt) :
         \/ db[body[i].page] = body[i].data
         \/ \E j \in Readable(mgrSalt) : j > i /\ body[j].page = body[i].page]_vars

\* A half-written append is never copied into the database: a page is torn only
\* while the copy of a whole frame is under way, or since one was cut short.
TornOnlyByCopy ==
  [][\A p \in Pages : db'[p] = Torn /\ db[p] # Torn =>
       /\ task \in {"recover", "checkpoint", "close"}
       /\ \E i \in DOMAIN body : body[i].page = p /\ body[i].whole]_vars

\* Starting ends: recovery and open run to a usable store unless the process
\* dies or open reports an error.
StartTerminates == pc = "created" ~> pc \in {"idle", "down"}

\* After a clean close (checkpoint, then remove) the database file holds every
\* acknowledged append.
CloseKeepsAppends == pc = "closed" => db = committed

-----------------------------------------------------------------------------
(* The inductive invariant behind Durable, when a process dies only while  *)
(* the log is missing, empty or holds a whole frame, and no write of an    *)
(* append or of a recovery fails.                                          *)

\* A log at rest can be read from its first frame on, or there is none.
RestingLog == file \in {"missing", "empty"} \/ (file = "valid" /\ HasWholeFrame)

\* Every frame bears the header's salt, and only the last can be half written.
LogShape ==
  /\ body # <<>> => file = "valid"
  /\ \A i \in DOMAIN body :
       /\ body[i].salt = hdrSalt
       /\ i < Len(body) => body[i].whole

\* What each stage of the process knows of the log and of its salts.
StageOfLog ==
  /\ pc \in {"down", "created"} => RestingLog
  /\ pc = "opening" =>
       /\ body = <<>>
       /\ file \in {"missing", "empty"} \/ (file = "valid" /\ mgrSalt = hdrSalt)
  /\ pc \in {"header", "headerHalf", "remove", "closed"} => body = <<>>
  /\ pc = "closed" => file = "missing"
  /\ pc \in {"idle", "append", "copy", "copyHalf"} =>
       file = "valid" /\ mgrSalt = hdrSalt
  /\ pc = "idle" => \A i \in DOMAIN body : body[i].whole
  /\ pc = "append" => body # <<>> /\ ~body[Len(body)].whole
  /\ pc \in {"copy", "copyHalf"} =>
       /\ HasWholeFrame
       /\ task = "recover" \/ \A i \in DOMAIN body : body[i].whole
  /\ pc = "copyHalf" => copied + 1 \in Readable(hdrSalt)

\* During a replay each page is up to date or still has a frame to come.
ReplayProgress ==
  pc \in {"copy", "copyHalf"} =>
    \A p \in Pages :
      \/ db[p] = committed[p]
      \/ \E j \in Readable(hdrSalt) : j > copied /\ body[j].page = p

IndInv ==
  /\ TypeOK
  /\ LogShape
  /\ StageOfLog
  /\ ReplayProgress
  /\ Durable
=============================================================================
