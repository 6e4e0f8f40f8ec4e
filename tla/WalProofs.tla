------------------------------ MODULE WalProofs -----------------------------
(***************************************************************************)
(* Theorems about the write-ahead log, for every set of pages, contents    *)
(* and salts and every length of the log.                                  *)
(***************************************************************************)
EXTENDS Wal, WellFoundedInduction, TLAPS

\* The environment under which the log keeps its promise.
SafeEnvironment ==
  EmptyLogCrashes = FALSE /\ AppendErrors = FALSE /\ RecoveryErrors = FALSE

-----------------------------------------------------------------------------
(* The readable part of a log.                                             *)

\* read_all_frames returns a prefix: with a frame it returns all before it.
LEMMA ReadablePrefix ==
  ASSUME NEW s, NEW i \in Readable(s), NEW k \in 1 .. i, TypeOK
  PROVE  k \in Readable(s)
  BY DEF Readable, TypeOK

\* In a well-shaped log whose first frame is whole, that frame is readable.
LEMMA FirstReadable ==
  ASSUME TypeOK, LogShape, HasWholeFrame
  PROVE  1 \in Readable(hdrSalt)
  BY DEF TypeOK, LogShape, HasWholeFrame, Readable, FrameOK

\* Without an entry in R, the replay of R changes nothing.
LEMMA ReplayNothing ==
  ASSUME TypeOK, Replays(committed, db, {})
  PROVE  db = committed
<1>1. \A p \in Pages : committed[p] = db[p]
  BY DEF Replays
<1>. QED
  BY <1>1 DEF TypeOK

-----------------------------------------------------------------------------
(* Type correctness holds in every environment.                            *)

LEMMA InitTypeOK == Init => TypeOK
  BY WalConstants DEF Init, TypeOK, PCs, Tasks, Frame

LEMMA NextTypeOK == TypeOK /\ [Next]_vars => TypeOK'
<1>. SUFFICES ASSUME TypeOK, [Next]_vars PROVE TypeOK'
  OBVIOUS
<1>. USE DEF TypeOK, PCs, Tasks, disk, memory
<1>1. CASE New
  BY <1>1 DEF New
<1>2. CASE RecoverNothing
  BY <1>2 DEF RecoverNothing
<1>3. CASE RecoverFrames
  BY <1>3 DEF RecoverFrames, LogSalt
<1>4. CASE OpenFresh
  BY <1>4 DEF OpenFresh
<1>5. CASE OpenExisting
  BY <1>5 DEF OpenExisting
<1>6. CASE OpenFails
  BY <1>6 DEF OpenFails, Gone
<1>7. ASSUME NEW p \in Pages, AppendBegin(p) PROVE TypeOK'
  <2>1. [page |-> p, data |-> Torn, salt |-> mgrSalt, whole |-> FALSE] \in Frame
    BY <1>7 DEF Frame
  <2>. QED
    BY <1>7, <2>1 DEF AppendBegin
<1>8. ASSUME NEW d \in Data, AppendEnd(d) PROVE TypeOK'
  <2>. DEFINE n == Len(body)
  <2>. DEFINE b == [body EXCEPT ![n] = [@ EXCEPT !.data = d, !.whole = TRUE]]
  <2>1. b \in Seq(Frame)
    <3>1. \A i \in 1 .. n : body[i] \in Frame
      OBVIOUS
    <3>2. n \in Nat /\ DOMAIN body = 1 .. n
      OBVIOUS
    <3>3. ASSUME NEW i \in 1 .. n PROVE b[i] \in Frame
      <4>1. body[i] \in Frame
        BY <3>1
      <4>2. CASE i = n
        BY <4>1, <4>2, <3>2 DEF Frame
      <4>3. CASE i # n
        BY <4>1, <4>3, <3>2
      <4>. QED
        BY <4>2, <4>3
    <3>4. b \in [1 .. n -> Frame]
      BY <3>2, <3>3
    <3>. QED
      BY <3>2, <3>4
  <2>2. committed' \in [Pages -> Data]
    BY <1>8 DEF AppendEnd
  <2>3. body' = b
    BY <1>8 DEF AppendEnd
  <2>4. frameCount' \in Nat
    BY <1>8 DEF AppendEnd
  <2>. QED
    BY <1>8, <2>1, <2>2, <2>3, <2>4 DEF AppendEnd
<1>9. CASE AppendError
  BY <1>9 DEF AppendError
<1>10. CASE MaybeCheckpoint
  BY <1>10 DEF MaybeCheckpoint
<1>11. CASE Close
  BY <1>11 DEF Close, CheckpointOrRemove
<1>12. CASE CopyBegin
  BY <1>12 DEF CopyBegin, Readable
<1>13. CASE CopyEnd
  <2>1. body[copied + 1].data \in Data \cup {Torn}
    <3>1. copied + 1 \in DOMAIN body
      BY <1>13 DEF CopyEnd
    <3>2. body[copied + 1] \in Frame
      BY <3>1
    <3>. QED
      BY <3>2 DEF Frame
  <2>2. db' \in [Pages -> Data \cup {Torn}]
    BY <1>13, <2>1 DEF CopyEnd
  <2>3. copied' \in Nat
    BY <1>13 DEF CopyEnd, NextFrame
  <2>. QED
    BY <1>13, <2>2, <2>3 DEF CopyEnd
<1>14. CASE CopyDone
  BY <1>14 DEF CopyDone
<1>15. CASE HeaderBegin
  BY <1>15 DEF HeaderBegin
<1>16. CASE HeaderEnd
  BY <1>16 DEF HeaderEnd, ResetCounters
<1>17. CASE Remove
  BY <1>17 DEF Remove
<1>18. CASE Exit
  BY <1>18 DEF Exit, Gone
<1>19. CASE Crash
  BY <1>19 DEF Crash, Gone
<1>20. CASE UNCHANGED vars
  BY <1>20 DEF vars
<1>21. CASE CopyError
  BY <1>21 DEF CopyError
<1>. QED
  BY <1>1, <1>2, <1>3, <1>4, <1>5, <1>6, <1>7, <1>8, <1>9, <1>10, <1>11, <1>12,
     <1>13, <1>14, <1>15, <1>16, <1>17, <1>18, <1>19, <1>20, <1>21
     DEF Next, Start, AppendFrame, Replay

\* The variables keep their types whatever fails and whenever the process dies.
THEOREM TypeCorrect == Spec => []TypeOK
  BY InitTypeOK, NextTypeOK, PTL DEF Spec

-----------------------------------------------------------------------------
(* The inductive invariant.                                                *)

LEMMA InitIndInv == Init => IndInv
<1>. SUFFICES ASSUME Init PROVE IndInv
  OBVIOUS
<1>1. TypeOK
  BY InitTypeOK
<1>2. LogShape /\ StageOfLog /\ ReplayProgress
  BY DEF Init, LogShape, StageOfLog, ReplayProgress, RestingLog
<1>3. Durable
  BY DEF Init, Durable, Replays, Recoverable
<1>. QED
  BY <1>1, <1>2, <1>3 DEF IndInv

\* Steps that leave both files alone leave what can be recovered alone.
LEMMA DiskUnchanged ==
  ASSUME IndInv, TypeOK', UNCHANGED <<disk, committed>>,
         StageOfLog', ReplayProgress'
  PROVE  IndInv'
<1>1. LogShape'
  BY DEF IndInv, LogShape, disk
<1>2. Recoverable' = Recoverable
  BY DEF Recoverable, Readable, FrameOK, disk
<1>3. Durable'
  BY <1>2 DEF IndInv, Durable, Replays, disk
<1>. QED
  BY <1>1, <1>3 DEF IndInv

\* A replay that has copied nothing yet has a frame for every page that is
\* not up to date.
LEMMA StartOfReplay ==
  ASSUME TypeOK, Durable, file = "valid", copied' = 0,
         UNCHANGED <<db, hdrSalt, body, committed>>
  PROVE  ReplayProgress'
<1>1. \A i \in Readable(hdrSalt) : i > 0
  BY DEF Readable, TypeOK
<1>2. Readable(hdrSalt)' = Readable(hdrSalt)
  BY DEF Readable
<1>. QED
  BY <1>1, <1>2 DEF ReplayProgress, Durable, Recoverable, Replays

\* Once nothing is readable the database holds everything that is promised.
LEMMA NothingToReplay ==
  ASSUME IndInv, Recoverable = {}
  PROVE  db = committed
  BY ReplayNothing DEF IndInv, Durable

\* Steps that leave no log behind: the promise is then the database itself.
LEMMA LogGone ==
  ASSUME TypeOK', db' = committed', body' = <<>>, StageOfLog',
         pc' \notin {"copy", "copyHalf"}
  PROVE  IndInv'
<1>1. Readable(hdrSalt)' = {}
  BY DEF Readable
<1>2. Durable'
  BY <1>1 DEF Durable, Replays, Recoverable
<1>3. LogShape'
  BY DEF LogShape
<1>4. ReplayProgress'
  BY DEF ReplayProgress
<1>. QED
  BY <1>2, <1>3, <1>4 DEF IndInv

\* A whole log can be read to its end.
LEMMA WholeLogReadable ==
  TypeOK /\ LogShape /\ (\A i \in DOMAIN body : body[i].whole)
    => Readable(hdrSalt) = DOMAIN body
<1>. SUFFICES ASSUME TypeOK, LogShape, \A i \in DOMAIN body : body[i].whole
     PROVE  Readable(hdrSalt) = DOMAIN body
  OBVIOUS
<1>1. ASSUME NEW i \in DOMAIN body, NEW j \in 1 .. i
      PROVE  FrameOK(body[j], hdrSalt)
  <2>1. j \in DOMAIN body
    BY DEF TypeOK
  <2>. QED
    BY <2>1 DEF FrameOK, LogShape
<1>. QED
  BY <1>1 DEF Readable

\* All but the half-written frame at the end of a log can be read.
LEMMA TornLogReadable ==
  TypeOK /\ LogShape /\ body # <<>> /\ ~body[Len(body)].whole
    => Readable(hdrSalt) = 1 .. Len(body) - 1
<1>. SUFFICES ASSUME TypeOK, LogShape, body # <<>>, ~body[Len(body)].whole
     PROVE  Readable(hdrSalt) = 1 .. Len(body) - 1
  OBVIOUS
<1>. DEFINE n == Len(body)
<1>1. DOMAIN body = 1 .. n /\ n \in Nat \ {0}
  BY DEF TypeOK
<1>2. ASSUME NEW i \in 1 .. n - 1, NEW j \in 1 .. i
      PROVE  FrameOK(body[j], hdrSalt)
  <2>1. j \in DOMAIN body /\ j < n
    BY <1>1
  <2>. QED
    BY <2>1 DEF FrameOK, LogShape
<1>3. n \notin Readable(hdrSalt)
  BY <1>1 DEF Readable, FrameOK
<1>4. ASSUME NEW i \in 1 .. n - 1
      PROVE  i \in Readable(hdrSalt)
  <2>1. i \in DOMAIN body
    BY <1>1
  <2>2. \A j \in 1 .. i : FrameOK(body[j], hdrSalt)
    BY <1>2
  <2>. QED
    BY <2>1, <2>2 DEF Readable
<1>5. Readable(hdrSalt) \subseteq 1 .. n
  BY <1>1 DEF Readable
<1>. HIDE DEF n
<1>6. ASSUME NEW i \in Readable(hdrSalt)
      PROVE  i \in 1 .. n - 1
  <2>1. i \in 1 .. n /\ i # n
    BY <1>3, <1>5
  <2>. QED
    BY <1>1, <2>1
<1>. QED
  BY <1>4, <1>6 DEF n

\* The frame that is being appended cannot be read before it is whole.
LEMMA AppendBeginInv ==
  ASSUME IndInv, TypeOK', NEW p \in Pages, AppendBegin(p)
  PROVE  IndInv'
<1>. DEFINE f == [page |-> p, data |-> Torn, salt |-> mgrSalt, whole |-> FALSE]
<1>. DEFINE n == Len(body)
<1>1. /\ TypeOK /\ LogShape /\ StageOfLog /\ Durable
      /\ pc = "idle" /\ pc' = "append" /\ body' = Append(body, f)
      /\ UNCHANGED <<db, file, hdrSalt, mgrSalt, committed>>
      /\ file = "valid" /\ mgrSalt = hdrSalt
  BY DEF IndInv, AppendBegin, StageOfLog
<1>2. /\ n \in Nat /\ DOMAIN body = 1 .. n
      /\ Len(body') = n + 1 /\ DOMAIN body' = 1 .. n + 1
      /\ body'[n + 1] = f /\ \A i \in 1 .. n : body'[i] = body[i]
  BY <1>1 DEF TypeOK
<1>3. LogShape'
  <2>1. ASSUME NEW i \in 1 .. n + 1
        PROVE  body'[i].salt = hdrSalt' /\ (i < n + 1 => body'[i].whole)
    BY <1>1, <1>2 DEF LogShape, StageOfLog
  <2>. QED
    BY <1>1, <1>2, <2>1 DEF LogShape
<1>4. StageOfLog'
  BY <1>1, <1>2 DEF StageOfLog
<1>5. ReplayProgress'
  BY <1>1 DEF ReplayProgress
<1>6. Readable(hdrSalt) = 1 .. n
  BY <1>1, <1>2, WholeLogReadable DEF StageOfLog
<1>7. Readable(hdrSalt)' = 1 .. n
  <2>1. body' # <<>> /\ ~body'[Len(body')].whole
    BY <1>2
  <2>2. (TypeOK /\ LogShape /\ body # <<>> /\ ~body[Len(body)].whole
           => Readable(hdrSalt) = 1 .. Len(body) - 1)'
    BY TornLogReadable, PTL
  <2>. QED
    BY <1>2, <1>3, <2>1, <2>2
<1>8. Durable'
  BY <1>1, <1>2, <1>6, <1>7 DEF Durable, Recoverable, Replays
<1>. QED
  BY <1>3, <1>4, <1>5, <1>8 DEF IndInv

\* When its last byte is written the frame becomes the newest of its page.
LEMMA AppendEndInv ==
  ASSUME IndInv, TypeOK', NEW d \in Data, AppendEnd(d)
  PROVE  IndInv'
<1>. DEFINE n == Len(body)
<1>1. /\ TypeOK /\ LogShape /\ StageOfLog /\ Durable
      /\ pc = "append" /\ pc' = "idle"
      /\ body' = [body EXCEPT ![n] = [@ EXCEPT !.data = d, !.whole = TRUE]]
      /\ committed' = [committed EXCEPT ![body[n].page] = d]
      /\ UNCHANGED <<db, file, hdrSalt, mgrSalt>>
      /\ file = "valid" /\ mgrSalt = hdrSalt
      /\ body # <<>> /\ ~body[n].whole
  BY DEF IndInv, AppendEnd, StageOfLog
<1>2. n \in Nat \ {0} /\ DOMAIN body = 1 .. n
  BY <1>1 DEF TypeOK
<1>3. \A i \in 1 .. n : body[i] \in Frame
  BY <1>1, <1>2 DEF TypeOK
<1>4. /\ Len(body') = n /\ DOMAIN body' = 1 .. n
      /\ \A i \in 1 .. n - 1 : body'[i] = body[i]
      /\ body'[n].page = body[n].page /\ body'[n].salt = body[n].salt
      /\ body'[n].data = d /\ body'[n].whole
  BY <1>1, <1>2, <1>3 DEF Frame, TypeOK
<1>5. LogShape'
  <2>1. ASSUME NEW i \in 1 .. n
        PROVE  body'[i].salt = hdrSalt' /\ (i < n => body'[i].whole)
    <3>. HIDE DEF n
    <3>1. i = n \/ i \in 1 .. n - 1
      BY <1>2
    <3>2. CASE i = n
      BY <1>1, <1>2, <1>4, <3>2 DEF LogShape, n
    <3>3. CASE i \in 1 .. n - 1
      BY <1>1, <1>2, <1>4, <3>3 DEF LogShape, n
    <3>. QED
      BY <3>1, <3>2, <3>3
  <2>. QED
    BY <1>1, <1>4, <2>1 DEF LogShape
<1>6. \A i \in 1 .. n : body'[i].whole
  <2>1. ASSUME NEW i \in 1 .. n - 1 PROVE body'[i].whole
    BY <1>1, <1>2, <1>4 DEF LogShape
  <2>. QED
    BY <1>2, <1>4, <2>1
<1>7. StageOfLog'
  BY <1>1, <1>4, <1>6 DEF StageOfLog
<1>8. ReplayProgress'
  BY <1>1 DEF ReplayProgress
<1>9. Readable(hdrSalt) = 1 .. n - 1
  BY <1>1, TornLogReadable
<1>10. Readable(hdrSalt)' = 1 .. n
  <2>1. \A i \in DOMAIN body' : body'[i].whole
    BY <1>4, <1>6
  <2>2. (TypeOK /\ LogShape /\ (\A i \in DOMAIN body : body[i].whole)
           => Readable(hdrSalt) = DOMAIN body)'
    BY WholeLogReadable, PTL
  <2>. QED
    BY <1>4, <1>5, <2>1, <2>2
<1>11. Replays(committed, db, 1 .. n - 1)
  BY <1>1, <1>9 DEF Durable, Recoverable
<1>12. Durable'
  <2>. SUFFICES ASSUME NEW q \in Pages
       PROVE  /\ (\A i \in 1 .. n : body'[i].page # q) => committed'[q] = db[q]
              /\ \A i \in 1 .. n :
                   (body'[i].page = q /\ \A j \in 1 .. n : j > i => body'[j].page # q)
                     => committed'[q] = body'[i].data
    BY <1>1, <1>10 DEF Durable, Recoverable, Replays
  <2>0. n \in 1 .. n /\ body[n].page \in Pages
    BY <1>2, <1>3 DEF Frame
  <2>1. CASE q = body[n].page
    <3>1. committed'[q] = d
      BY <1>1, <2>1 DEF TypeOK
    <3>2. ASSUME NEW i \in 1 .. n,
                 \A j \in 1 .. n : j > i => body'[j].page # q
          PROVE  i = n
      <4>1. body'[n].page = q
        BY <1>4, <2>1
      <4>2. ~(n > i)
        BY <2>0, <3>2, <4>1
      <4>. HIDE DEF n
      <4>. QED
        BY <1>2, <4>2
    <3>. QED
      BY <1>4, <2>0, <2>1, <3>1, <3>2
  <2>2. CASE q # body[n].page
    <3>1. committed'[q] = committed[q]
      BY <1>1, <2>2 DEF TypeOK
    <3>2. CASE \A i \in 1 .. n : body'[i].page # q
      <4>1. \A i \in 1 .. n - 1 : body[i].page # q
        BY <1>2, <1>4, <3>2
      <4>. QED
        BY <1>11, <3>1, <3>2, <4>1 DEF Replays
    <3>3. ASSUME NEW i \in 1 .. n, body'[i].page = q,
                 \A j \in 1 .. n : j > i => body'[j].page # q
          PROVE  committed'[q] = body'[i].data
      <4>1. i \in 1 .. n - 1 /\ body[i].page = q /\ body'[i].data = body[i].data
        BY <1>2, <1>4, <2>2, <3>3
      <4>2. \A j \in 1 .. n - 1 : j > i => body[j].page # q
        BY <1>2, <1>4, <3>3
      <4>. QED
        BY <1>11, <3>1, <4>1, <4>2 DEF Replays
    <3>. QED
      BY <3>2, <3>3, <1>11, <3>1
  <2>. QED
    BY <2>1, <2>2
<1>. QED
  BY <1>5, <1>7, <1>8, <1>12 DEF IndInv

\* A page that is half copied still has its frame in the log.
LEMMA CopyBeginInv ==
  ASSUME IndInv, TypeOK', CopyBegin
  PROVE  IndInv'
<1>1. /\ TypeOK /\ LogShape /\ StageOfLog /\ ReplayProgress /\ Durable
      /\ pc = "copy" /\ pc' = "copyHalf"
      /\ copied + 1 \in Readable(hdrSalt)
      /\ db' = [db EXCEPT ![body[copied + 1].page] = Torn]
      /\ UNCHANGED <<file, hdrSalt, body, task, mgrSalt, copied, committed>>
      /\ file = "valid" /\ mgrSalt = hdrSalt
  BY DEF IndInv, CopyBegin, StageOfLog, memory
<1>2. Readable(hdrSalt)' = Readable(hdrSalt)
  BY <1>1 DEF Readable
<1>3. LogShape' /\ StageOfLog'
  BY <1>1, <1>2 DEF LogShape, StageOfLog, HasWholeFrame
<1>4. ReplayProgress'
  <2>. SUFFICES ASSUME NEW p \in Pages
       PROVE  \/ db'[p] = committed[p]
              \/ \E j \in Readable(hdrSalt) : j > copied /\ body[j].page = p
    BY <1>1, <1>2 DEF ReplayProgress
  <2>1. CASE p = body[copied + 1].page
    BY <1>1, <2>1 DEF TypeOK
  <2>2. CASE p # body[copied + 1].page
    BY <1>1, <2>2 DEF ReplayProgress, TypeOK
  <2>. QED
    BY <2>1, <2>2
<1>5. Durable'
  <2>1. \A p \in Pages :
          (\A i \in Readable(hdrSalt) : body[i].page # p) => db'[p] = db[p]
    BY <1>1 DEF TypeOK
  <2>. QED
    BY <1>1, <1>2, <2>1 DEF Durable, Recoverable, Replays
<1>. QED
  BY <1>3, <1>4, <1>5 DEF IndInv

\* The page written last is up to date, or a later frame will overwrite it.
LEMMA CopyEndInv ==
  ASSUME IndInv, TypeOK', CopyEnd
  PROVE  IndInv'
<1>. DEFINE k == copied + 1
<1>1. /\ TypeOK /\ LogShape /\ StageOfLog /\ ReplayProgress /\ Durable
      /\ pc = "copyHalf" /\ pc' = "copy"
      /\ k \in Readable(hdrSalt) /\ k \in DOMAIN body
      /\ db' = [db EXCEPT ![body[k].page] = body[k].data]
      /\ copied' = k
      /\ UNCHANGED <<file, hdrSalt, body, task, mgrSalt, committed>>
      /\ file = "valid" /\ mgrSalt = hdrSalt
  BY DEF IndInv, CopyEnd, NextFrame, StageOfLog, memory, TypeOK
<1>2. Readable(hdrSalt)' = Readable(hdrSalt)
  BY <1>1 DEF Readable
<1>3. LogShape' /\ StageOfLog'
  BY <1>1, <1>2 DEF LogShape, StageOfLog, HasWholeFrame
<1>4. Replays(committed, db, Readable(hdrSalt))
  BY <1>1 DEF Durable, Recoverable
<1>5. Readable(hdrSalt) \subseteq Nat /\ copied \in Nat
  BY <1>1 DEF Readable, TypeOK
<1>6. ReplayProgress'
  <2>. SUFFICES ASSUME NEW p \in Pages
       PROVE  \/ db'[p] = committed[p]
              \/ \E j \in Readable(hdrSalt) : j > k /\ body[j].page = p
    BY <1>1, <1>2 DEF ReplayProgress
  <2>1. CASE p = body[k].page
    <3>1. db'[p] = body[k].data
      BY <1>1, <2>1 DEF TypeOK
    <3>2. CASE \A j \in Readable(hdrSalt) : j > k => body[j].page # p
      BY <1>1, <1>4, <2>1, <3>1, <3>2 DEF Replays
    <3>. QED
      BY <3>2
  <2>2. CASE p # body[k].page
    <3>1. db'[p] = db[p]
      BY <1>1, <2>2 DEF TypeOK
    <3>2. CASE db[p] = committed[p]
      BY <3>1, <3>2
    <3>3. ASSUME NEW j \in Readable(hdrSalt), j > copied, body[j].page = p
          PROVE  j > k
      BY <1>5, <2>2, <3>3
    <3>. QED
      BY <1>1, <3>2, <3>3 DEF ReplayProgress
  <2>. QED
    BY <2>1, <2>2
<1>7. Durable'
  <2>1. \A p \in Pages :
          (\A i \in Readable(hdrSalt) : body[i].page # p) => db'[p] = db[p]
    BY <1>1 DEF TypeOK
  <2>. QED
    BY <1>1, <1>2, <1>4, <2>1 DEF Durable, Recoverable, Replays
<1>. QED
  BY <1>3, <1>6, <1>7 DEF IndInv

\* When the loop has ended no page waits for a frame: the log may go.
LEMMA CopyDoneInv ==
  ASSUME IndInv, TypeOK', CopyDone
  PROVE  IndInv'
<1>1. /\ TypeOK /\ StageOfLog /\ ReplayProgress
      /\ pc = "copy" /\ pc' = "header"
      /\ copied + 1 \notin Readable(hdrSalt)
      /\ file' = "empty" /\ body' = <<>>
      /\ UNCHANGED <<db, hdrSalt, mgrSalt, copied, committed>>
  BY DEF IndInv, CopyDone, AllCopied, StageOfLog, memory
<1>2. ASSUME NEW j \in Readable(hdrSalt), j > copied
      PROVE  FALSE
  <2>1. copied \in Nat /\ j \in Nat
    BY <1>1 DEF TypeOK, Readable
  <2>2. copied + 1 \in 1 .. j
    BY <1>2, <2>1
  <2>. QED
    BY <1>1, <2>2, ReadablePrefix
<1>3. db = committed
  <2>1. \A p \in Pages : db[p] = committed[p]
    BY <1>1, <1>2 DEF ReplayProgress
  <2>. QED
    BY <1>1, <2>1 DEF TypeOK
<1>4. StageOfLog'
  BY <1>1 DEF StageOfLog
<1>. QED
  BY <1>1, <1>3, <1>4, LogGone

\* A new header does not change what is recovered: there is no frame behind it.
LEMMA HeaderInv ==
  ASSUME IndInv, TypeOK', HeaderBegin \/ HeaderEnd
  PROVE  IndInv'
<1>1. /\ StageOfLog /\ pc \in {"header", "headerHalf"} /\ body = <<>>
      /\ UNCHANGED <<db, body, mgrSalt, committed>>
  BY DEF IndInv, HeaderBegin, HeaderEnd, StageOfLog, memory
<1>2. Readable(hdrSalt) = {}
  BY <1>1 DEF Readable
<1>3. db = committed
  BY <1>2, NothingToReplay DEF Recoverable
<1>4. StageOfLog' /\ pc' \notin {"copy", "copyHalf"}
  BY <1>1 DEF HeaderBegin, HeaderEnd, StageOfLog
<1>. QED
  BY <1>1, <1>3, <1>4, LogGone

\* remove() is reached only after a checkpoint left nothing to replay.
LEMMA RemoveInv ==
  ASSUME IndInv, TypeOK', Remove
  PROVE  IndInv'
<1>1. StageOfLog /\ body = <<>> /\ pc' = "closed"
  BY DEF IndInv, Remove, StageOfLog
<1>2. Readable(hdrSalt) = {}
  BY <1>1 DEF Readable
<1>3. db = committed
  BY <1>2, NothingToReplay DEF Recoverable
<1>4. StageOfLog'
  BY <1>1 DEF Remove, StageOfLog
<1>. QED
  BY <1>1, <1>3, <1>4, LogGone DEF Remove

\* recover() takes the salts of the header, under which a resting log reads.
LEMMA RecoverFramesInv ==
  ASSUME IndInv, TypeOK', RecoverFrames
  PROVE  IndInv'
<1>1. /\ TypeOK /\ LogShape /\ StageOfLog /\ Durable
      /\ pc = "created" /\ file = "valid" /\ body # <<>>
      /\ mgrSalt' = hdrSalt /\ copied' = 0
      /\ UNCHANGED <<db, file, hdrSalt, body, committed>>
  BY DEF IndInv, RecoverFrames, LogSalt, disk
<1>2. HasWholeFrame
  BY <1>1 DEF StageOfLog, RestingLog
<1>3. Readable(hdrSalt) # {}
  BY <1>1, <1>2, FirstReadable
<1>4. pc' = "copy" /\ task' = "recover"
  BY <1>3 DEF RecoverFrames, LogSalt
<1>5. StageOfLog'
  BY <1>1, <1>2, <1>4 DEF StageOfLog, HasWholeFrame
<1>6. ReplayProgress'
  BY <1>1, StartOfReplay
<1>. QED
  BY <1>1, <1>5, <1>6, DiskUnchanged DEF disk

\* A checkpoint, on its own or before remove(), replays a whole log.
LEMMA CheckpointInv ==
  ASSUME IndInv, TypeOK', MaybeCheckpoint \/ Close
  PROVE  IndInv'
<1>1. /\ TypeOK /\ LogShape /\ StageOfLog /\ Durable
      /\ pc = "idle" /\ file = "valid" /\ mgrSalt = hdrSalt
      /\ copied' = 0
      /\ UNCHANGED <<db, file, hdrSalt, body, mgrSalt, committed>>
  BY DEF IndInv, StageOfLog, MaybeCheckpoint, Close, disk, memory
<1>2. Readable(hdrSalt) = DOMAIN body
  BY <1>1, WholeLogReadable DEF StageOfLog
<1>3. CASE body = <<>>
  <2>1. pc' = "remove"
    BY <1>1, <1>2, <1>3 DEF MaybeCheckpoint, Close, CheckpointOrRemove
  <2>2. StageOfLog' /\ ReplayProgress'
    BY <1>1, <1>3, <2>1 DEF StageOfLog, ReplayProgress
  <2>. QED
    BY <1>1, <2>2, DiskUnchanged DEF disk
<1>4. CASE body # <<>>
  <2>1. DOMAIN body # {} /\ 1 \in DOMAIN body
    BY <1>1, <1>4 DEF TypeOK
  <2>2. pc' = "copy"
    BY <1>1, <1>2, <2>1 DEF MaybeCheckpoint, Close, CheckpointOrRemove
  <2>3. HasWholeFrame
    BY <1>1, <1>4, <2>1 DEF StageOfLog, HasWholeFrame
  <2>4. StageOfLog'
    BY <1>1, <2>2, <2>3 DEF StageOfLog, HasWholeFrame
  <2>5. ReplayProgress'
    BY <1>1, StartOfReplay
  <2>. QED
    BY <1>1, <2>4, <2>5, DiskUnchanged DEF disk
<1>. QED
  BY <1>3, <1>4

\* A checkpoint that fails leaves a whole log, which covers what it wrote.
LEMMA CopyErrorInv ==
  ASSUME IndInv, TypeOK', SafeEnvironment, CopyError
  PROVE  IndInv'
<1>1. /\ StageOfLog /\ pc \in {"copy", "copyHalf"} /\ task # "recover" /\ pc' = "idle"
      /\ UNCHANGED <<disk, memory, committed>>
  BY DEF IndInv, CopyError, SafeEnvironment
<1>2. StageOfLog'
  BY <1>1 DEF StageOfLog, disk, memory
<1>3. ReplayProgress'
  BY <1>1 DEF ReplayProgress
<1>. QED
  BY <1>1, <1>2, <1>3, DiskUnchanged

\* The remaining steps before and after a session change neither the contents
\* of the log nor the promise.
LEMMA OpenFreshInv ==
  ASSUME IndInv, TypeOK', OpenFresh
  PROVE  IndInv'
<1>1. /\ StageOfLog /\ body = <<>> /\ pc' = "header"
      /\ UNCHANGED <<db, body, committed>>
  BY DEF IndInv, OpenFresh, StageOfLog
<1>2. Recoverable = {}
  BY <1>1 DEF Recoverable, Readable
<1>3. db = committed
  BY <1>2, NothingToReplay
<1>4. StageOfLog'
  BY <1>1 DEF OpenFresh, StageOfLog
<1>. QED
  BY <1>1, <1>3, <1>4, LogGone

LEMMA OtherStepsInv ==
  ASSUME IndInv, TypeOK', SafeEnvironment,
         New \/ RecoverNothing \/ OpenExisting \/ OpenFails \/ Exit \/ Crash
           \/ UNCHANGED vars
  PROVE  IndInv'
<1>. USE DEF IndInv, StageOfLog, ReplayProgress, disk, memory
<1>1. UNCHANGED <<disk, committed>>
  BY DEF New, RecoverNothing, OpenExisting, OpenFails, Exit, Crash, vars
<1>2. RestingLog' = RestingLog /\ HasWholeFrame' = HasWholeFrame
  BY <1>1 DEF RestingLog, HasWholeFrame
<1>3. CASE New
  BY <1>1, <1>2, <1>3, DiskUnchanged DEF New
<1>4. CASE RecoverNothing
  BY <1>1, <1>2, <1>4, DiskUnchanged DEF RecoverNothing, RestingLog, HasWholeFrame, LogShape
<1>5. CASE OpenExisting
  <2>1. StageOfLog'
    BY <1>1, <1>5 DEF OpenExisting
  <2>. QED
    BY <1>1, <1>5, <2>1, DiskUnchanged DEF OpenExisting
<1>6. CASE OpenFails
  BY <1>6 DEF OpenFails
<1>7. CASE Exit
  <2>1. RestingLog
    BY <1>7 DEF Exit, RestingLog
  <2>. QED
    BY <1>1, <1>2, <1>7, <2>1, DiskUnchanged DEF Exit, Gone
<1>8. CASE Crash
  <2>1. RestingLog
    BY <1>8 DEF Crash, SafeEnvironment, RestingLog, HasWholeFrame, LogShape
  <2>. QED
    BY <1>1, <1>2, <1>8, <2>1, DiskUnchanged DEF Crash, Gone
<1>9. CASE UNCHANGED vars
  <2>1. Readable(hdrSalt)' = Readable(hdrSalt)
    BY <1>9 DEF vars, Readable
  <2>. QED
    BY <1>1, <1>2, <1>9, <2>1, DiskUnchanged DEF vars
<1>. QED
  BY <1>3, <1>4, <1>5, <1>6, <1>7, <1>8, <1>9

LEMMA NextIndInv ==
  ASSUME SafeEnvironment
  PROVE  IndInv /\ [Next]_vars => IndInv'
<1>. SUFFICES ASSUME IndInv, [Next]_vars PROVE IndInv'
  OBVIOUS
<1>0. TypeOK'
  BY NextTypeOK DEF IndInv
<1>1. CASE New \/ RecoverNothing \/ OpenExisting \/ OpenFails \/ Exit \/ Crash
             \/ UNCHANGED vars
  BY <1>0, <1>1, OtherStepsInv
<1>2. CASE RecoverFrames
  BY <1>0, <1>2, RecoverFramesInv
<1>3. CASE OpenFresh
  BY <1>0, <1>3, OpenFreshInv
<1>4. ASSUME NEW p \in Pages, AppendBegin(p) PROVE IndInv'
  BY <1>0, <1>4, AppendBeginInv
<1>5. ASSUME NEW d \in Data, AppendEnd(d) PROVE IndInv'
  BY <1>0, <1>5, AppendEndInv
<1>6. CASE AppendError
  BY <1>6 DEF AppendError, SafeEnvironment
<1>7. CASE MaybeCheckpoint \/ Close
  BY <1>0, <1>7, CheckpointInv
<1>8. CASE CopyBegin
  BY <1>0, <1>8, CopyBeginInv
<1>9. CASE CopyEnd
  BY <1>0, <1>9, CopyEndInv
<1>10. CASE CopyDone
  BY <1>0, <1>10, CopyDoneInv
<1>11. CASE HeaderBegin \/ HeaderEnd
  BY <1>0, <1>11, HeaderInv
<1>12. CASE Remove
  BY <1>0, <1>12, RemoveInv
<1>13. CASE CopyError
  BY <1>0, <1>13, CopyErrorInv
<1>. QED
  BY <1>1, <1>2, <1>3, <1>4, <1>5, <1>6, <1>7, <1>8, <1>9, <1>10, <1>11, <1>12, <1>13
     DEF Next, Start, AppendFrame, Replay

\* No acknowledged append is ever lost, duplicated over a newer one or replayed
\* half written, however often the process dies and wherever in a checkpoint or
\* a recovery, provided it does not die over a log without a whole frame and no
\* write of an append or of a recovery fails.
THEOREM AppendsAreDurable == SafeEnvironment => (Spec => []Durable)
<1>. SUFFICES ASSUME SafeEnvironment PROVE Spec => []Durable
  OBVIOUS
<1>1. IndInv /\ [Next]_vars => IndInv'
  BY NextIndInv
<1>2. IndInv => Durable
  BY DEF IndInv
<1>. QED
  BY InitIndInv, <1>1, <1>2, PTL DEF Spec

\* Under the same assumptions a clean close leaves every acknowledged append in
\* the database file.
THEOREM CloseIsComplete == SafeEnvironment => (Spec => []CloseKeepsAppends)
<1>. SUFFICES ASSUME SafeEnvironment PROVE Spec => []CloseKeepsAppends
  OBVIOUS
<1>1. IndInv /\ [Next]_vars => IndInv'
  BY NextIndInv
<1>2. IndInv => CloseKeepsAppends
  <2>. SUFFICES ASSUME IndInv, pc = "closed" PROVE db = committed
    BY DEF CloseKeepsAppends
  <2>1. body = <<>>
    BY DEF IndInv, StageOfLog
  <2>2. Recoverable = {}
    BY <2>1 DEF Recoverable, Readable
  <2>. QED
    BY <2>2, NothingToReplay
<1>. QED
  BY InitIndInv, <1>1, <1>2, PTL DEF Spec
-----------------------------------------------------------------------------
(* The log manager implements the durable store.                           *)

\* A nonempty set of positions of a sequence has a last one.
LEMMA LastPosition ==
  ASSUME NEW n \in Nat, NEW S \in SUBSET (1 .. n), S # {}
  PROVE  \E i \in S : \A j \in S : j <= i
<1>. DEFINE T == {n - i : i \in S}
            R == OpToRel(<, Nat)
<1>. HIDE DEF R
<1>1. T \subseteq Nat /\ T # {}
  <2>1. \A i \in S : n - i \in Nat
    OBVIOUS
  <2>. QED
    BY <2>1
<1>2. PICK t \in T : \A u \in T : ~(<<u, t>> \in R)
  <2>. HIDE DEF T
  <2>1. IsWellFoundedOn(R, Nat)
    BY NatLessThanWellFounded DEF R
  <2>. QED
    BY <1>1, <2>1, WFMin
<1>3. \A u \in T : ~(u < t)
  BY <1>1, <1>2 DEF R, OpToRel
<1>4. PICK i \in S : t = n - i
  OBVIOUS
<1>5. \A j \in S : j <= i
  <2>. SUFFICES ASSUME NEW j \in S PROVE j <= i
    OBVIOUS
  <2>1. n - j \in T
    OBVIOUS
  <2>2. ~(n - j < n - i)
    BY <1>3, <1>4, <2>1
  <2>3. i \in 1 .. n /\ j \in 1 .. n
    OBVIOUS
  <2>. HIDE DEF T
  <2>. QED
    BY <2>2, <2>3
<1>. QED
  BY <1>5

\* What a restart would recover is what the acknowledged appends promise.
LEMMA RecoveredIsCommitted == IndInv => Recovered = committed
<1>. SUFFICES ASSUME IndInv PROVE Recovered = committed
  OBVIOUS
<1>1. TypeOK /\ Durable /\ Recoverable \subseteq DOMAIN body
  BY DEF IndInv, Recoverable, Readable
<1>2. ASSUME NEW p \in Pages
      PROVE  Recovered[p] = committed[p]
  <2>. DEFINE hits == {i \in Recoverable : body[i].page = p}
              last == CHOOSE i \in hits : \A j \in hits : j <= i
  <2>1. Recovered[p] = IF hits = {} THEN db[p] ELSE body[last].data
    BY DEF Recovered
  <2>2. CASE hits = {}
    BY <1>1, <2>1, <2>2 DEF Durable, Replays
  <2>3. CASE hits # {}
    <3>1. Len(body) \in Nat /\ hits \in SUBSET (1 .. Len(body))
      BY <1>1 DEF TypeOK
    <3>2. \E i \in hits : \A j \in hits : j <= i
      <4>. HIDE DEF hits
      <4>. QED
        BY <2>3, <3>1, LastPosition
    <3>3. last \in hits /\ \A j \in hits : j <= last
      <4>. HIDE DEF hits
      <4>. QED
        BY <3>2
    <3>. HIDE DEF last
    <3>4. last \in Recoverable /\ body[last].page = p
      BY <3>3
    <3>5. \A j \in Recoverable : j > last => body[j].page # p
      BY <3>1, <3>3, <1>1
    <3>6. committed[p] = body[last].data
      BY <1>1, <3>4, <3>5 DEF Durable, Replays
    <3>. QED
      BY <2>1, <2>3, <3>6
  <2>. QED
    BY <2>2, <2>3
<1>. QED
  BY <1>1, <1>2 DEF Recovered, TypeOK

\* The promise changes only when an append is acknowledged.
LEMMA OnlyAppendsCommit ==
  ASSUME IndInv, [Next]_vars, committed' # committed
  PROVE  \E p \in Pages, d \in Data :
           /\ committed' = [committed EXCEPT ![p] = d]
           /\ pc = "append" /\ pc' = "idle"
<1>1. \E d \in Data : AppendEnd(d)
  BY DEF Next, vars, Start, New, RecoverNothing, RecoverFrames, OpenFresh,
         OpenExisting, OpenFails, AppendFrame, AppendBegin, AppendError,
         MaybeCheckpoint, Close, Replay, CopyBegin, CopyEnd, CopyDone,
         HeaderBegin, HeaderEnd, Remove, Exit, Crash, CopyError
<1>2. PICK d \in Data : AppendEnd(d)
  BY <1>1
<1>3. body # <<>> /\ body[Len(body)].page \in Pages
  BY <1>2 DEF AppendEnd, IndInv, StageOfLog, TypeOK, Frame
<1>. QED
  BY <1>2, <1>3 DEF AppendEnd

\* The store's contents as a restart would read them are those promised.
RecoversCommitted == Recovered = committed

\* The invariant keeps the recovered pages and the promised ones equal.
LEMMA InvRecovers == IndInv => RecoversCommitted
<1>. QED
  BY RecoveredIsCommitted DEF RecoversCommitted

\* Every step of the log manager is a step of the store or changes nothing there.
LEMMA StepImplementsStore ==
  IndInv /\ RecoversCommitted /\ RecoversCommitted' /\ [Next]_vars
    => [Store!Next]_(Store!vars)
<1>. SUFFICES ASSUME IndInv, RecoversCommitted, RecoversCommitted', [Next]_vars
              PROVE  [Store!Next]_(Store!vars)
  OBVIOUS
<1>. DEFINE serving == pc \notin {"down", "closed"}
<1>1. Recovered = committed /\ Recovered' = committed'
  BY DEF RecoversCommitted
<1>2. CASE committed' = committed
  <2>1. CASE serving' = serving
    BY <1>1, <1>2, <2>1 DEF Store!vars
  <2>2. CASE serving' = ~serving
    BY <1>1, <1>2, <2>2 DEF Store!Next, Store!StartOrStop
  <2>. QED
    BY <2>1, <2>2
<1>3. CASE committed' # committed
  <2>1. PICK p \in Pages, d \in Data :
          /\ committed' = [committed EXCEPT ![p] = d]
          /\ pc = "append" /\ pc' = "idle"
    BY <1>3, OnlyAppendsCommit
  <2>2. Store!Write(p, d)
    BY <1>1, <2>1 DEF Store!Write
  <2>. QED
    BY <2>2 DEF Store!Next
<1>. QED
  BY <1>2, <1>3

\* Without the three faults, the log manager implements the durable store: for
\* every set of pages and contents, each of its steps is an atomic write, a
\* start or a stop of the store, or invisible there.
THEOREM LogImplementsStore == SafeEnvironment => (Spec => ImplementsStore)
<1>. SUFFICES ASSUME SafeEnvironment PROVE Spec => ImplementsStore
  OBVIOUS
<1>1. Init => Store!Init
  <2>. SUFFICES ASSUME Init PROVE Store!Init
    OBVIOUS
  <2>1. Recovered = committed
    BY InitIndInv, RecoveredIsCommitted
  <2>. QED
    BY <2>1 DEF Init, Store!Init
<1>2. IndInv /\ [Next]_vars => IndInv'
  BY NextIndInv
<1>. QED
  BY InitIndInv, InvRecovers, StepImplementsStore, <1>1, <1>2, PTL
  DEF Spec, ImplementsStore, Store!Spec

-----------------------------------------------------------------------------
(* What holds whatever fails and whenever the process dies.                *)

\* A later readable frame writes the page of frame i again.
Overwritten(i) == \E j \in Readable(mgrSalt) : j > i /\ body[j].page = body[i].page

\* A log with frames has a header; only remove(), and only when nothing can be
\* read, drops frames without a copy.  A replay has a task and has copied the
\* frames before its position.
ReplayInv ==
  /\ TypeOK
  /\ body # <<>> => file = "valid"
  /\ \A i \in DOMAIN body : body[i].whole => body[i].data \in Data
  /\ pc \in {"header", "headerHalf"} => body = <<>>
  /\ pc \in {"idle", "append"} => file = "valid"
  /\ pc \in {"copy", "copyHalf"} =>
       /\ file = "valid"
       /\ task \in {"recover", "checkpoint", "close"}
       /\ \A i \in Readable(mgrSalt) :
            i <= copied => db[body[i].page] = body[i].data \/ Overwritten(i)
  /\ pc = "copyHalf" => copied + 1 \in Readable(mgrSalt)
  /\ pc = "remove" => Readable(mgrSalt) = {}

LEMMA InitReplayInv == Init => ReplayInv
  BY InitTypeOK DEF Init, ReplayInv

\* Steps that change neither file leave what a frame stands for alone.
LEMMA FilesUnchanged ==
  ASSUME ReplayInv, TypeOK',
         New \/ RecoverNothing \/ RecoverFrames \/ OpenFresh \/ OpenExisting
           \/ OpenFails \/ AppendError \/ MaybeCheckpoint \/ Close \/ CopyError
           \/ HeaderBegin \/ HeaderEnd \/ Exit \/ Crash \/ UNCHANGED vars
  PROVE  ReplayInv'
<1>. USE DEF ReplayInv, disk, memory, Gone
<1>1. CASE New
  BY <1>1 DEF New
<1>2. CASE RecoverNothing
  BY <1>2 DEF RecoverNothing
<1>3. CASE RecoverFrames
  <2>1. Readable(mgrSalt)' = Readable(LogSalt)
    BY <1>3 DEF RecoverFrames, Readable, FrameOK, LogSalt
  <2>2. \A i \in Readable(LogSalt) : ~(i <= 0)
    BY DEF Readable, TypeOK
  <2>3. copied' = 0 /\ pc' \in {"opening", "copy"} /\ (pc' = "copy" => task' = "recover")
    BY <1>3 DEF RecoverFrames
  <2>. QED
    BY <1>3, <2>1, <2>2, <2>3 DEF RecoverFrames
<1>4. CASE OpenFresh
  BY <1>4 DEF OpenFresh
<1>5. CASE OpenExisting
  BY <1>5 DEF OpenExisting
<1>6. CASE OpenFails \/ Exit \/ Crash
  BY <1>6 DEF OpenFails, Exit, Crash
<1>7. CASE AppendError
  BY <1>7 DEF AppendError
<1>12. CASE CopyError
  BY <1>12 DEF CopyError
<1>8. CASE MaybeCheckpoint \/ Close
  <2>1. Readable(mgrSalt)' = Readable(mgrSalt)
    BY <1>8 DEF MaybeCheckpoint, Close, Readable, FrameOK
  <2>2. \A i \in Readable(mgrSalt) : ~(i <= 0)
    BY DEF Readable, TypeOK
  <2>3. /\ copied' = 0 /\ task' \in {"checkpoint", "close"}
        /\ UNCHANGED <<file, body>> /\ file = "valid"
    BY <1>8 DEF MaybeCheckpoint, Close
  <2>4. pc' = "copy" \/ (pc' = "remove" /\ Readable(mgrSalt) = {})
    BY <1>8 DEF MaybeCheckpoint, Close, CheckpointOrRemove
  <2>5. CASE pc' = "copy"
    BY <2>1, <2>2, <2>3, <2>5
  <2>6. CASE pc' = "remove" /\ Readable(mgrSalt) = {}
    BY <2>1, <2>3, <2>6
  <2>. QED
    BY <2>4, <2>5, <2>6
<1>9. CASE HeaderBegin
  BY <1>9 DEF HeaderBegin
<1>10. CASE HeaderEnd
  <2>1. body = <<>> /\ body' = <<>> /\ file' = "valid"
        /\ pc' \in {"opening", "remove", "idle"}
    BY <1>10 DEF HeaderEnd
  <2>2. Readable(mgrSalt)' = {}
    BY <2>1 DEF Readable
  <2>. QED
    BY <2>1, <2>2
<1>11. CASE UNCHANGED vars
  <2>1. Readable(mgrSalt)' = Readable(mgrSalt)
    BY <1>11 DEF vars, Readable, FrameOK
  <2>2. \A i : Overwritten(i)' = Overwritten(i)
    BY <1>11, <2>1 DEF vars, Overwritten
  <2>. QED
    BY <1>11, <2>1, <2>2 DEF vars
<1>. QED
  BY <1>1, <1>2, <1>3, <1>4, <1>5, <1>6, <1>7, <1>8, <1>9, <1>10, <1>11, <1>12

\* A half-written frame is not whole, and holds a page when it becomes whole.
LEMMA AppendReplayInv ==
  ASSUME ReplayInv, TypeOK',
         \/ \E p \in Pages : AppendBegin(p)
         \/ \E d \in Data : AppendEnd(d)
  PROVE  ReplayInv'
<1>1. CASE \E p \in Pages : AppendBegin(p)
  <2>1. PICK p \in Pages : AppendBegin(p)
    BY <1>1
  <2>2. PICK f : /\ body' = Append(body, f) /\ ~f.whole
                 /\ pc' = "append" /\ file' = "valid"
    BY <2>1 DEF AppendBegin, ReplayInv
  <2>3. ASSUME NEW i \in DOMAIN body', body'[i].whole PROVE body'[i].data \in Data
    <3>1. body \in Seq(Frame)
      BY DEF ReplayInv, TypeOK
    <3>2. /\ DOMAIN body' = 1 .. Len(body) + 1 /\ DOMAIN body = 1 .. Len(body)
          /\ body'[Len(body) + 1] = f /\ Len(body) \in Nat
          /\ \A j \in 1 .. Len(body) : body'[j] = body[j]
      BY <2>2, <3>1
    <3>3. i \in 1 .. Len(body)
      BY <2>2, <2>3, <3>2
    <3>. QED
      BY <2>3, <3>2, <3>3 DEF ReplayInv
  <2>. QED
    BY <2>2, <2>3 DEF ReplayInv
<1>2. CASE \E d \in Data : AppendEnd(d)
  <2>1. PICK d \in Data : AppendEnd(d)
    BY <1>2
  <2>2. /\ body' = [body EXCEPT ![Len(body)] = [@ EXCEPT !.data = d, !.whole = TRUE]]
        /\ pc' = "idle" /\ file' = "valid"
    BY <2>1 DEF AppendEnd, ReplayInv
  <2>3. ASSUME NEW i \in DOMAIN body', body'[i].whole PROVE body'[i].data \in Data
    <3>1. body \in Seq(Frame)
      BY DEF ReplayInv, TypeOK
    <3>2. i \in DOMAIN body /\ body[i] \in Frame
      BY <2>2, <3>1
    <3>3. CASE i = Len(body)
      BY <2>2, <3>2, <3>3 DEF Frame
    <3>4. CASE i # Len(body)
      BY <2>2, <2>3, <3>2, <3>4 DEF ReplayInv
    <3>. QED
      BY <3>3, <3>4
  <2>. QED
    BY <2>2, <2>3 DEF ReplayInv
<1>. QED
  BY <1>1, <1>2

\* The frames already copied are in the database, or another is to come.
LEMMA CopyReplayInv ==
  ASSUME ReplayInv, TypeOK', CopyBegin \/ CopyEnd
  PROVE  ReplayInv'
<1>1. PICK k : k = copied + 1
  OBVIOUS
<1>2. /\ TypeOK /\ UNCHANGED <<file, body, task, mgrSalt>>
      /\ pc \in {"copy", "copyHalf"} /\ pc' \in {"copy", "copyHalf"}
      /\ k \in Readable(mgrSalt) /\ body[k].page \in Pages /\ copied \in Nat
      /\ Readable(mgrSalt) \subseteq Nat
  <2>1. /\ TypeOK /\ UNCHANGED <<file, body, task, mgrSalt>>
        /\ pc \in {"copy", "copyHalf"} /\ pc' \in {"copy", "copyHalf"}
        /\ k \in Readable(mgrSalt)
    BY <1>1 DEF ReplayInv, CopyBegin, CopyEnd, memory
  <2>2. body[k] \in Frame
    BY <2>1 DEF TypeOK, Readable
  <2>. QED
    BY <2>1, <2>2 DEF TypeOK, Readable, Frame
<1>3. Readable(mgrSalt)' = Readable(mgrSalt)
  BY <1>2 DEF Readable, FrameOK
<1>4. \A i : Overwritten(i)' = Overwritten(i)
  BY <1>2, <1>3 DEF Overwritten
<1>5. pc' = "copyHalf" => copied' + 1 \in Readable(mgrSalt)
  BY <1>1, <1>2 DEF CopyBegin, CopyEnd
<1>6. ASSUME NEW i \in Readable(mgrSalt), i <= copied'
      PROVE  db'[body[i].page] = body[i].data \/ Overwritten(i)
  <2>1. CASE i = k /\ CopyEnd
    BY <1>1, <1>2, <2>1 DEF CopyEnd, TypeOK
  <2>2. CASE i <= copied /\ body[i].page = body[k].page
    <3>1. k > i
      BY <1>1, <1>2, <2>2
    <3>. QED
      BY <1>2, <2>2, <3>1 DEF Overwritten
  <2>3. CASE i <= copied /\ body[i].page # body[k].page
    <3>1. body[i] \in Frame
      BY <1>2 DEF TypeOK, Readable
    <3>2. db'[body[i].page] = db[body[i].page]
      BY <1>1, <1>2, <2>3, <3>1 DEF CopyBegin, CopyEnd, TypeOK, Frame
    <3>. QED
      BY <1>2, <2>3, <3>2 DEF ReplayInv
  <2>4. (i = k /\ CopyEnd) \/ i <= copied
    BY <1>1, <1>2, <1>6 DEF CopyBegin, CopyEnd, NextFrame
  <2>. QED
    BY <2>1, <2>2, <2>3, <2>4
<1>. QED
  BY <1>2, <1>3, <1>4, <1>5, <1>6 DEF ReplayInv

LEMMA DropReplayInv ==
  ASSUME ReplayInv, TypeOK', CopyDone \/ Remove
  PROVE  ReplayInv'
<1>1. body' = <<>> /\ pc' \in {"header", "closed"}
  BY DEF CopyDone, Remove
<1>. QED
  BY <1>1 DEF ReplayInv

LEMMA NextReplayInv == ReplayInv /\ [Next]_vars => ReplayInv'
<1>. SUFFICES ASSUME ReplayInv, [Next]_vars PROVE ReplayInv'
  OBVIOUS
<1>1. TypeOK'
  BY NextTypeOK DEF ReplayInv
<1>2. CASE \/ \E p \in Pages : AppendBegin(p)
           \/ \E d \in Data : AppendEnd(d)
  BY <1>1, <1>2, AppendReplayInv
<1>3. CASE CopyBegin \/ CopyEnd
  BY <1>1, <1>3, CopyReplayInv
<1>4. CASE CopyDone \/ Remove
  BY <1>1, <1>4, DropReplayInv
<1>5. CASE New \/ RecoverNothing \/ RecoverFrames \/ OpenFresh \/ OpenExisting
             \/ OpenFails \/ AppendError \/ MaybeCheckpoint \/ Close \/ CopyError
             \/ HeaderBegin \/ HeaderEnd \/ Exit \/ Crash \/ UNCHANGED vars
  BY <1>1, <1>5, FilesUnchanged
<1>. QED
  BY <1>2, <1>3, <1>4, <1>5 DEF Next, Start, AppendFrame, Replay

\* Where frames are dropped, each readable one is in the database file or has
\* a successor there.
LEMMA DropsAreCopied ==
  ASSUME ReplayInv, [Next]_vars, Len(body') < Len(body), NEW i \in Readable(mgrSalt)
  PROVE  db[body[i].page] = body[i].data \/ Overwritten(i)
<1>. USE DEF disk, memory, Gone
<1>1. body \in Seq(Frame) /\ Len(body) \in Nat
  BY DEF ReplayInv, TypeOK
<1>2. CASE CopyDone
  <2>1. /\ pc = "copy" /\ copied + 1 \notin Readable(mgrSalt) /\ copied \in Nat
        /\ Readable(mgrSalt) \subseteq Nat /\ TypeOK
    BY <1>2 DEF CopyDone, AllCopied, ReplayInv, TypeOK, Readable
  <2>2. i <= copied
    <3>1. CASE i > copied
      <4>1. copied + 1 \in 1 .. i
        BY <2>1, <3>1
      <4>. QED
        BY <2>1, <4>1, ReadablePrefix
    <3>. QED
      BY <2>1, <3>1
  <2>. QED
    BY <2>1, <2>2 DEF ReplayInv
<1>3. CASE Remove
  BY <1>3 DEF Remove, ReplayInv
<1>4. ~UNCHANGED body
  BY <1>1
<1>5. ASSUME NEW p \in Pages, AppendBegin(p) PROVE FALSE
  <2>1. PICK f : body' = Append(body, f)
    BY <1>5 DEF AppendBegin
  <2>. QED
    BY <1>1, <2>1
<1>6. ASSUME NEW d \in Data, AppendEnd(d) PROVE FALSE
  <2>1. PICK x : body' = [body EXCEPT ![Len(body)] = x]
    BY <1>6 DEF AppendEnd
  <2>2. Len(body') = Len(body)
    BY <1>1, <2>1
  <2>. QED
    BY <1>1, <2>2
<1>7. CASE New \/ RecoverNothing \/ RecoverFrames \/ OpenFresh \/ OpenExisting
             \/ OpenFails \/ AppendError \/ MaybeCheckpoint \/ Close
  BY <1>4, <1>7 DEF New, RecoverNothing, RecoverFrames, OpenFresh, OpenExisting,
     OpenFails, AppendError, MaybeCheckpoint, Close
<1>8. CASE CopyBegin \/ CopyEnd \/ CopyError \/ HeaderBegin \/ HeaderEnd \/ Exit
             \/ Crash \/ UNCHANGED vars
  BY <1>4, <1>8 DEF CopyBegin, CopyEnd, CopyError, HeaderBegin, HeaderEnd, Exit, Crash, vars
<1>. QED
  BY <1>2, <1>3, <1>5, <1>6, <1>7, <1>8 DEF Next, Start, AppendFrame, Replay

\* Only a copy changes the database file, and what it writes last is a page.
LEMMA TearsAreCopies ==
  ASSUME ReplayInv, [Next]_vars, NEW p \in Pages, db'[p] = Torn, db[p] # Torn
  PROVE  /\ task \in {"recover", "checkpoint", "close"}
         /\ \E i \in DOMAIN body : body[i].page = p /\ body[i].whole
<1>. USE DEF disk, memory, Gone
<1>1. ~UNCHANGED db
  OBVIOUS
<1>2. CASE CopyBegin \/ CopyEnd
  <2>1. PICK k : k = copied + 1
    OBVIOUS
  <2>2. /\ task \in {"recover", "checkpoint", "close"}
        /\ k \in DOMAIN body /\ body[k].whole /\ body[k].data \in Data
    <3>1. k \in Readable(mgrSalt) /\ pc \in {"copy", "copyHalf"}
      BY <1>2, <2>1 DEF CopyBegin, CopyEnd, ReplayInv
    <3>2. k \in DOMAIN body /\ FrameOK(body[k], mgrSalt)
      BY <3>1 DEF Readable, ReplayInv, TypeOK
    <3>. QED
      BY <3>1, <3>2 DEF ReplayInv, FrameOK
  <2>3. db \in [Pages -> Data \cup {Torn}]
    BY DEF ReplayInv, TypeOK
  <2>4. p = body[k].page
    BY <1>2, <2>1, <2>3 DEF CopyBegin, CopyEnd
  <2>. QED
    BY <2>2, <2>4
<1>3. CASE AppendFrame \/ Start \/ MaybeCheckpoint \/ Close \/ CopyDone \/ CopyError
             \/ HeaderBegin \/ HeaderEnd \/ Remove \/ Exit \/ Crash \/ UNCHANGED vars
  BY <1>1, <1>3 DEF AppendFrame, Start, New, RecoverNothing, RecoverFrames,
     OpenFresh, OpenExisting, OpenFails, AppendBegin, AppendEnd, AppendError,
     MaybeCheckpoint, Close, CopyDone, CopyError, HeaderBegin, HeaderEnd, Remove,
     Exit, Crash, vars
<1>. QED
  BY <1>2, <1>3 DEF Next, Replay

\* In every environment, whatever append failed and whenever a process died:
\* frames leave the log only when the database file has the newest readable
\* one of each page.
THEOREM FramesAreCopiedFirst == Spec => UncopiedFramesKept
<1>1. ReplayInv /\ [Next]_vars =>
        [Len(body') < Len(body) =>
           \A i \in Readable(mgrSalt) :
             \/ db[body[i].page] = body[i].data
             \/ \E j \in Readable(mgrSalt) : j > i /\ body[j].page = body[i].page]_vars
  BY DropsAreCopied DEF Overwritten
<1>. QED
  BY InitReplayInv, NextReplayInv, <1>1, PTL DEF Spec, UncopiedFramesKept

\* In every environment a page of the database file is half written only by a
\* replay, and only where the log has a whole frame of it: what an append left
\* unfinished never gets there.
THEOREM TornByReplayOnly == Spec => TornOnlyByCopy
<1>1. ReplayInv /\ [Next]_vars =>
        [\A p \in Pages : db'[p] = Torn /\ db[p] # Torn =>
           /\ task \in {"recover", "checkpoint", "close"}
           /\ \E i \in DOMAIN body : body[i].page = p /\ body[i].whole]_vars
  BY TearsAreCopies
<1>. QED
  BY InitReplayInv, NextReplayInv, <1>1, PTL DEF Spec, TornOnlyByCopy
=============================================================================
