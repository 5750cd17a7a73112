-------------------------- MODULE LinkArchiveProofs --------------------------
(***************************************************************************)
(* Proofs about LinkArchive.  The invariant of interest, FinalizedBound,   *)
(* is about a flag that is set several statements after the check that     *)
(* justifies it.  The argument: a job keeps working on the archive it      *)
(* looked up (a UUID is never handed out twice), every chunk write goes to *)
(* an index of the plan, the first row of an index stays, hence a complete *)
(* set of chunk rows no longer changes, hence what finalize checked is     *)
(* still so when it sets the flag and as long as the row exists.           *)
(*                                                                         *)
(* Each of the three tables has a step relation (RowStep, ChunkStep,       *)
(* JobStep) that says what any step may do to it; the action properties    *)
(* follow from these and the invariant.                                    *)
(*                                                                         *)
(* Three further sections prove AckReady, RowsHaveObjects and              *)
(* SupersedeSparesActive, under every failure and overlap the module has:  *)
(* their exceptions are history variables, and each proof shows that what  *)
(* the history does not record cannot have happened.  The last section     *)
(* proves AdmissionHeld, with the sums over finite sets that it needs.     *)
(***************************************************************************)
EXTENDS LinkArchive, FiniteSetTheorems, WellFoundedInduction, TLAPS

\* The steps at which a job has an archive, an index, an init request.
ArchivePcs == {"objects", "toUploading", "put", "rollback", "stat", "exists",
               "insertChunk", "list", "mark", "toUploaded", "toAvailable",
               "get", "ack", "refresh"}
ChunkPcs == {"put", "rollback", "stat", "exists", "insertChunk", "get"}
InitPcs == {"count", "sum", "insert", "toUploading"}

\* What a job's record holds at each of its steps.
JobOK(j) ==
  /\ j \in Job
  /\ j.pc \in ArchivePcs => j.a \in Archives
  /\ j.pc \in ChunkPcs => j.i \in Idx
  /\ j.pc = "put" => j.body \in Contents /\ j.hash \in Hashes
  /\ j.pc \in {"stat", "insertChunk"} => j.hash \in Hashes /\ j.size \in Sizes
  /\ j.pc \in InitPcs \/ (j.pc \in {"purge", "objects"} /\ j.kind = "init")
       => j.user \in Users /\ j.plan \in Plans

\* Type correctness strengthened by JobOK, which makes it inductive.
TypeInv == TypeOK /\ \A s \in Jobs : JobOK(job[s])

USE DEF Jobs, history

\* The idle record is a well-typed job.
LEMMA IdleOK == JobOK(Idle)
BY DEF JobOK, Job, Idle, Pcs, AllKinds, ArchivePcs, ChunkPcs, InitPcs

\* Replacing one job by a well-typed record keeps all jobs well typed.
LEMMA JobUpdate ==
  ASSUME NEW s \in Jobs, NEW j, TypeInv, JobOK(j), job' = [job EXCEPT ![s] = j]
  PROVE  job' \in [Jobs -> Job] /\ \A t \in Jobs : JobOK(job'[t])
BY DEF TypeInv, TypeOK, JobOK

\* So does ending a handler.
LEMMA DoneOK ==
  ASSUME NEW s \in Jobs, TypeInv, Done(s)
  PROVE  job' \in [Jobs -> Job] /\ \A t \in Jobs : JobOK(job'[t])
BY IdleOK, JobUpdate DEF Done

\* So does moving a handler to a step whose fields it has filled in.
LEMMA GotoOK ==
  ASSUME NEW s \in Jobs, NEW pc \in Pcs, TypeInv, Goto(s, pc),
         pc \in ArchivePcs => job[s].a \in Archives,
         pc \in ChunkPcs => job[s].i \in Idx,
         pc = "put" => job[s].body \in Contents /\ job[s].hash \in Hashes,
         pc \in {"stat", "insertChunk"} => job[s].hash \in Hashes /\ job[s].size \in Sizes,
         pc \in InitPcs \/ (pc \in {"purge", "objects"} /\ job[s].kind = "init")
            => job[s].user \in Users /\ job[s].plan \in Plans
  PROVE  job' \in [Jobs -> Job] /\ \A t \in Jobs : JobOK(job'[t])
<1> DEFINE j == [job[s] EXCEPT !.pc = pc]
<1>1. job[s] \in Job
  BY DEF TypeInv, TypeOK
<1>2. JobOK(j)
  <2>1. j \in Job
    BY <1>1 DEF Job
  <2>2. j.pc = pc /\ j.kind = job[s].kind /\ j.user = job[s].user /\ j.plan = job[s].plan
        /\ j.a = job[s].a /\ j.i = job[s].i /\ j.body = job[s].body /\ j.hash = job[s].hash
        /\ j.size = job[s].size
    BY <1>1 DEF Job
  <2> HIDE DEF j
  <2> QED BY <2>1, <2>2 DEF JobOK
<1>3. job' = [job EXCEPT ![s] = j]
  BY DEF Goto, TypeInv, TypeOK
<1> QED BY <1>2, <1>3, JobUpdate

\* So does starting a handler.
LEMMA StartOK ==
  ASSUME NEW s \in Jobs, NEW kind \in AllKinds, NEW j \in Job, TypeInv,
         Start(s, kind, j), JobOK(j),
         j.pc \in {"purge", "objects"} /\ kind = "init" => j.user \in Users /\ j.plan \in Plans
  PROVE  job' \in [Jobs -> Job] /\ \A t \in Jobs : JobOK(job'[t])
<1> DEFINE k == [j EXCEPT !.kind = kind]
<1>1. k \in Job
  BY DEF Job
<1>2. k.pc = j.pc /\ k.kind = kind /\ k.user = j.user /\ k.plan = j.plan
      /\ k.a = j.a /\ k.i = j.i /\ k.body = j.body /\ k.hash = j.hash /\ k.size = j.size
  BY DEF Job
<1>3. job' = [job EXCEPT ![s] = k]
  BY DEF Start
<1> HIDE DEF k
<1>4. JobOK(k)
  BY <1>1, <1>2 DEF JobOK
<1> QED BY <1>3, <1>4, JobUpdate

\* The jobs' part of TypeInv.
JobsOK == job \in [Jobs -> Job] /\ \A t \in Jobs : JobOK(job[t])

\* InsertLinkArchive makes a well-typed row.
LEMMA FreshRowOK ==
  ASSUME NEW u \in Users, NEW p \in Plans, NEW t \in Nat
  PROVE  InsertLinkArchive(u, p, t) \in LinkArchiveRow
BY StoreAssumption DEF InsertLinkArchive, LinkArchiveRow, States, LinkArchiveActiveStates

\* RefreshLinkArchiveExpiry keeps a row well typed.
LEMMA RefreshOK ==
  ASSUME NEW r \in LinkArchiveRow \cup {None}, NEW t \in Nat
  PROVE  RefreshLinkArchiveExpiry(r, t) \in LinkArchiveRow \cup {None}
BY StoreAssumption DEF RefreshLinkArchiveExpiry, LinkArchiveRow, Least

\* TransitionLinkArchiveState keeps a row well typed.
LEMMA TransitionOK ==
  ASSUME NEW r \in LinkArchiveRow \cup {None}, NEW to \in States, NEW from
  PROVE  TransitionLinkArchiveState(r, to, from) \in LinkArchiveRow \cup {None}
BY StoreAssumption DEF TransitionLinkArchiveState, MayTransition, LinkArchiveRow

\* MarkLinkArchiveFinalized keeps a row well typed.
LEMMA MarkOK ==
  ASSUME NEW r \in LinkArchiveRow \cup {None}
  PROVE  MarkLinkArchiveFinalized(r) \in LinkArchiveRow \cup {None}
BY DEF MarkLinkArchiveFinalized, LinkArchiveRow

\* An advisory transition keeps the rows and the history well typed.
LEMMA AdvisoryOK ==
  ASSUME TypeInv, NEW a \in Archives, NEW to \in States, NEW from, Transition(a, to, from)
  PROVE  row' \in [Archives -> LinkArchiveRow \cup {None}] /\ stalled' \subseteq Archives
<1>1. row \in [Archives -> LinkArchiveRow \cup {None}] /\ stalled \subseteq Archives
  BY DEF TypeInv, TypeOK
<1> QED BY <1>1, TransitionOK DEF Transition

\* Every later statement of a handler keeps the types.
LEMMA ContinueType ==
  ASSUME TypeInv, NEW s \in Workers, Continue(s)
  PROVE  TypeInv'
<1> USE StoreAssumption, LinkArchiveAssumption
<1>a. s \in Jobs /\ JobOK(job[s])
  BY DEF TypeInv
<1>b. now \in Nat /\ row \in [Archives -> LinkArchiveRow \cup {None}]
  BY DEF TypeInv, TypeOK
<1>1. CASE InitQuota(s)
  <2>1. JobsOK'
    BY <1>1, <1>a, DoneOK, GotoOK DEF InitQuota, At, JobOK, JobsOK, Pcs, ArchivePcs, ChunkPcs, InitPcs
  <2> QED BY <1>1, <2>1 DEF InitQuota, TypeInv, TypeOK, JobsOK
<1>2. CASE InitStaging(s)
  <2>1. JobsOK'
    BY <1>2, <1>a, DoneOK, GotoOK DEF InitStaging, At, JobOK, JobsOK, Pcs, ArchivePcs, ChunkPcs, InitPcs
  <2> QED BY <1>2, <2>1 DEF InitStaging, TypeInv, TypeOK, JobsOK
<1>3. CASE InitInsert(s)
  <2>1. PICK a \in Archives \ used :
          /\ row' = [row EXCEPT ![a] = InsertLinkArchive(job[s].user, job[s].plan, now)]
          /\ used' = used \cup {a}
          /\ touched' = [touched EXCEPT ![a] = now]
          /\ job' = [job EXCEPT ![s] = [job[s] EXCEPT !.pc = "toUploading", !.a = a]]
    BY <1>3 DEF InitInsert
  <2>2. JobOK([job[s] EXCEPT !.pc = "toUploading", !.a = a])
    BY <1>3, <1>a DEF InitInsert, At, JobOK, Job, Pcs, ArchivePcs, ChunkPcs, InitPcs
  <2>3. JobsOK'
    BY <2>1, <2>2, <1>a, JobUpdate DEF JobsOK
  <2>4. row' \in [Archives -> LinkArchiveRow \cup {None}]
    BY <1>a, <1>b, <1>3, <2>1, FreshRowOK DEF InitInsert, At, JobOK, InitPcs
  <2> QED BY <1>3, <2>1, <2>3, <2>4 DEF InitInsert, TypeInv, TypeOK, JobsOK
<1>4. CASE InitTransition(s)
  <2>1. JobsOK'
    BY <1>4, <1>a, DoneOK DEF InitTransition, JobsOK
  <2>3. job[s].a \in Archives
    BY <1>4, <1>a DEF InitTransition, At, JobOK, ArchivePcs
  <2>2. row' \in [Archives -> LinkArchiveRow \cup {None}] /\ stalled' \subseteq Archives
    BY <1>4, <2>3, AdvisoryOK DEF InitTransition, States, LinkArchiveActiveStates
  <2>4. putUntil' \in [Archives -> [Idx -> Nat]]
    BY <1>b, <1>4, <2>3 DEF InitTransition, MintUploadWindow, TypeInv, TypeOK
  <2> QED BY <1>4, <2>1, <2>2, <2>3, <2>4 DEF InitTransition, TypeInv, TypeOK, JobsOK
<1>5. CASE UploadPut(s)
  <2> DEFINE pc == IF Sha256(job[s].body) = job[s].hash THEN "insertChunk" ELSE "rollback"
             j == [job[s] EXCEPT !.size = SizeOf[job[s].body], !.pc = pc]
  <2>1. job' = [job EXCEPT ![s] = j]
    BY <1>5 DEF UploadPut
  <2>4. job[s].a \in Archives /\ job[s].i \in Idx /\ job[s].body \in Contents
        /\ job[s].hash \in Hashes /\ job[s] \in Job
    BY <1>5, <1>a DEF UploadPut, At, JobOK, ArchivePcs, ChunkPcs
  <2>2. JobOK(j)
    <3>1. SizeOf[job[s].body] \in Sizes /\ pc \in {"insertChunk", "rollback"}
      BY <2>4
    <3> HIDE DEF pc
    <3>2. j \in Job
      BY <2>4, <3>1 DEF Job, Pcs
    <3>3. j.pc = pc /\ j.a = job[s].a /\ j.i = job[s].i /\ j.hash = job[s].hash
          /\ j.size = SizeOf[job[s].body]
      BY <2>4 DEF Job
    <3> HIDE DEF j
    <3> QED BY <2>4, <3>1, <3>2, <3>3 DEF JobOK, ArchivePcs, ChunkPcs, InitPcs
  <2>3. JobsOK'
    BY <2>1, <2>2, <1>a, JobUpdate DEF JobsOK
  <2>5. blob' \in [Archives -> [Idx -> Contents \cup {None}]]
    BY <1>5, <2>4 DEF UploadPut, PutObject, TypeInv, TypeOK
  <2> QED BY <1>5, <2>3, <2>5 DEF UploadPut, TypeInv, TypeOK, JobsOK
<1>6. CASE Rollback(s)
  <2>1. JobsOK'
    BY <1>6, <1>a, DoneOK DEF Rollback, JobsOK
  <2>2. job[s].a \in Archives /\ job[s].i \in Idx
    BY <1>6, <1>a DEF Rollback, At, JobOK, ArchivePcs, ChunkPcs
  <2> QED BY <1>6, <2>1, <2>2 DEF Rollback, TypeInv, TypeOK, JobsOK
<1>7. CASE InsertChunk(s)
  <2>1. JobsOK'
    BY <1>7, <1>a, DoneOK, GotoOK DEF InsertChunk, At, JobOK, JobsOK, Pcs, ArchivePcs, ChunkPcs, InitPcs
  <2>2. job[s].a \in Archives /\ job[s].i \in Idx /\ job[s].hash \in Hashes /\ job[s].size \in Sizes
    BY <1>7, <1>a DEF InsertChunk, At, JobOK, ArchivePcs, ChunkPcs
  <2>3. \A c \in LinkArchiveChunkRow \cup {None} :
          InsertLinkArchiveChunk(c, job[s].hash, job[s].size) \in LinkArchiveChunkRow \cup {None}
    BY <2>2 DEF InsertLinkArchiveChunk, LinkArchiveChunkRow
  <2>4. chunk' \in [Archives -> [Idx -> LinkArchiveChunkRow \cup {None}]]
    <3> DEFINE a == job[s].a
               i == job[s].i
               c == InsertLinkArchiveChunk(chunk[a][i], job[s].hash, job[s].size)
    <3>1. chunk \in [Archives -> [Idx -> LinkArchiveChunkRow \cup {None}]]
      BY DEF TypeInv, TypeOK
    <3>2. c \in LinkArchiveChunkRow \cup {None}
      BY <2>2, <2>3, <3>1
    <3>3. chunk' = chunk \/ chunk' = [chunk EXCEPT ![a][i] = c]
      BY <1>7 DEF InsertChunk
    <3> HIDE DEF c
    <3> QED BY <2>2, <3>1, <3>2, <3>3
  <2> QED BY <1>7, <2>1, <2>4 DEF InsertChunk, TypeInv, TypeOK, JobsOK
<1>8. CASE ConfirmStat(s)
  <2>1. JobsOK'
    BY <1>8, <1>a, DoneOK, GotoOK DEF ConfirmStat, At, JobOK, JobsOK, Pcs, ArchivePcs, ChunkPcs, InitPcs
  <2> QED BY <1>8, <2>1 DEF ConfirmStat, TypeInv, TypeOK, JobsOK
<1>9. CASE ConfirmExists(s)
  <2>1. JobsOK'
    BY <1>9, <1>a, DoneOK, GotoOK DEF ConfirmExists, At, JobOK, JobsOK, Pcs, ArchivePcs, ChunkPcs, InitPcs
  <2> QED BY <1>9, <2>1 DEF ConfirmExists, TypeInv, TypeOK, JobsOK
<1>10. CASE FinalizeList(s)
  <2>1. JobsOK'
    BY <1>10, <1>a, DoneOK, GotoOK DEF FinalizeList, At, JobOK, JobsOK, Pcs, ArchivePcs, ChunkPcs, InitPcs
  <2> QED BY <1>10, <2>1 DEF FinalizeList, TypeInv, TypeOK, JobsOK
<1>11. CASE FinalizeMark(s)
  <2>1. JobsOK'
    BY <1>11, <1>a, GotoOK DEF FinalizeMark, At, JobOK, JobsOK, Pcs, ArchivePcs, ChunkPcs, InitPcs
  <2>2. row' \in [Archives -> LinkArchiveRow \cup {None}]
    BY <1>11, <1>b, MarkOK DEF FinalizeMark
  <2> QED BY <1>11, <2>1, <2>2 DEF FinalizeMark, TypeInv, TypeOK, JobsOK
<1>12. CASE FinalizeUploaded(s) \/ FinalizeAvailable(s)
  <2>1. JobsOK'
    BY <1>12, <1>a, GotoOK
       DEF FinalizeUploaded, FinalizeAvailable, FinalizeTransition, At, JobOK, JobsOK, Pcs,
           ArchivePcs, ChunkPcs, InitPcs
  <2>3. job[s].a \in Archives
    BY <1>12, <1>a DEF FinalizeUploaded, FinalizeAvailable, FinalizeTransition, At, JobOK,
                       ArchivePcs
  <2>2. row' \in [Archives -> LinkArchiveRow \cup {None}] /\ stalled' \subseteq Archives
    BY <1>12, <2>3, AdvisoryOK
       DEF FinalizeUploaded, FinalizeAvailable, FinalizeTransition, States, LinkArchiveActiveStates
  <2> QED BY <1>12, <2>1, <2>2 DEF FinalizeUploaded, FinalizeAvailable, FinalizeTransition, TypeInv, TypeOK, JobsOK
<1>13. CASE DownloadGet(s)
  <2>1. JobsOK'
    BY <1>13, <1>a, DoneOK, GotoOK DEF DownloadGet, At, JobOK, JobsOK, Pcs, ArchivePcs, ChunkPcs, InitPcs
  <2> QED BY <1>13, <2>1 DEF DownloadGet, TypeInv, TypeOK, JobsOK
<1>14. CASE AckTransition(s)
  <2>1. JobsOK'
    BY <1>14, <1>a, DoneOK DEF AckTransition, JobsOK
  <2>2. row' \in [Archives -> LinkArchiveRow \cup {None}]
    BY <1>14, <1>b, TransitionOK DEF AckTransition, States
  <2> QED BY <1>14, <2>1, <2>2 DEF AckTransition, TypeInv, TypeOK, JobsOK
<1>15. CASE Refresh(s)
  <2>1. JobsOK'
    BY <1>15, <1>a, DoneOK DEF Refresh, JobsOK
  <2>2. row' \in [Archives -> LinkArchiveRow \cup {None}]
    BY <1>15, <1>b, RefreshOK DEF Refresh
  <2>3. touched' \in [Archives -> Nat]
    BY <1>15, <1>b DEF Refresh, TypeInv, TypeOK
  <2>4. job[s].a \in Archives
    BY <1>15, <1>a DEF Refresh, At, JobOK, ArchivePcs
  <2>5. renewed' \subseteq Workers \X Archives
    BY <1>15, <2>4 DEF Refresh, TypeInv, TypeOK
  <2> QED BY <1>15, <2>1, <2>2, <2>3, <2>5 DEF Refresh, TypeInv, TypeOK, JobsOK
<1> QED
  BY <1>1, <1>2, <1>3, <1>4, <1>5, <1>6, <1>7, <1>8, <1>9, <1>10, <1>11, <1>12,
     <1>13, <1>14, <1>15 DEF Continue

\* Every first statement of a handler keeps the types.
LEMMA RequestType ==
  ASSUME TypeInv, NEW s \in Workers, Request(s)
  PROVE  TypeInv'
<1> USE StoreAssumption, LinkArchiveAssumption
<1>a. s \in Jobs
  OBVIOUS
<1>b. \A kind \in Kinds : kind \in AllKinds
  OBVIOUS
<1>1. ASSUME NEW u \in Users, NEW p \in Plans, InitRequest(s, u, p)
      PROVE  TypeInv'
  <2>1. PICK stale \in SUBSET Archives :
          Start(s, "init", [Idle EXCEPT !.user = u, !.plan = p, !.todo = stale,
                              !.pc = IF stale = {} THEN "count" ELSE "purge"])
    BY <1>1 DEF InitRequest
  <2> DEFINE pc == IF stale = {} THEN "count" ELSE "purge"
             j == [Idle EXCEPT !.user = u, !.plan = p, !.todo = stale, !.pc = pc]
  <2>2. JobOK(j) /\ j \in Job /\ j.user \in Users /\ j.plan \in Plans
    BY DEF JobOK, Job, Idle, Pcs, ArchivePcs, ChunkPcs, InitPcs
  <2>3. Start(s, "init", j)
    BY <2>1
  <2> HIDE DEF j
  <2>4. JobsOK'
    BY <2>2, <2>3, <1>a, StartOK DEF JobsOK, AllKinds
  <2> QED BY <1>1, <2>4 DEF InitRequest, TypeInv, TypeOK, JobsOK
<1>2. ASSUME NEW a \in Archives, UploadWindow(s, a)
      PROVE  TypeInv'
  <2> DEFINE j == [Idle EXCEPT !.a = a, !.pc = "refresh"]
  <2>1. JobOK(j) /\ j \in Job /\ j.pc = "refresh"
    BY DEF JobOK, Job, Idle, Pcs, ArchivePcs, ChunkPcs, InitPcs
  <2>2. Start(s, "window", j)
    BY <1>2 DEF UploadWindow
  <2> HIDE DEF j
  <2>3. JobsOK'
    BY <2>1, <2>2, <1>a, StartOK DEF JobsOK, AllKinds
  <2>4. now \in Nat /\ putUntil \in [Archives -> [Idx -> Nat]]
    BY DEF TypeInv, TypeOK
  <2>5. putUntil' \in [Archives -> [Idx -> Nat]]
    BY <1>2, <2>4 DEF UploadWindow, MintUploadWindow
  <2> QED BY <1>2, <2>3, <2>5 DEF UploadWindow, TypeInv, TypeOK, JobsOK
<1>3. ASSUME NEW a \in Archives, Finalize(s, a)
      PROVE  TypeInv'
  <2> DEFINE j == [Idle EXCEPT !.a = a, !.pc = "list"]
  <2>1. JobOK(j) /\ j \in Job /\ j.pc = "list"
    BY DEF JobOK, Job, Idle, Pcs, ArchivePcs, ChunkPcs, InitPcs
  <2>2. Start(s, "finalize", j)
    BY <1>3 DEF Finalize
  <2> HIDE DEF j
  <2>3. JobsOK'
    BY <2>1, <2>2, <1>a, StartOK DEF JobsOK, AllKinds
  <2> QED BY <1>3, <2>3 DEF Finalize, TypeInv, TypeOK, JobsOK
<1>4. ASSUME NEW a \in Archives, Manifest(s, a)
      PROVE  TypeInv'
  <2> DEFINE j == [Idle EXCEPT !.a = a, !.pc = "refresh"]
  <2>1. JobOK(j) /\ j \in Job /\ j.pc = "refresh"
    BY DEF JobOK, Job, Idle, Pcs, ArchivePcs, ChunkPcs, InitPcs
  <2>2. Start(s, "manifest", j)
    BY <1>4 DEF Manifest
  <2> HIDE DEF j
  <2>3. JobsOK'
    BY <2>1, <2>2, <1>a, StartOK DEF JobsOK, AllKinds
  <2> QED BY <1>4, <2>3 DEF Manifest, TypeInv, TypeOK, JobsOK
<1>5. ASSUME NEW a \in Archives, Ack(s, a)
      PROVE  TypeInv'
  <2> DEFINE j == [Idle EXCEPT !.a = a, !.pc = "ack"]
  <2>1. JobOK(j) /\ j \in Job /\ j.pc = "ack"
    BY DEF JobOK, Job, Idle, Pcs, ArchivePcs, ChunkPcs, InitPcs
  <2>2. Start(s, "ack", j)
    BY <1>5 DEF Ack
  <2> HIDE DEF j
  <2>3. JobsOK'
    BY <2>1, <2>2, <1>a, StartOK DEF JobsOK, AllKinds
  <2> QED BY <1>5, <2>3 DEF Ack, TypeInv, TypeOK, JobsOK
<1>6. ASSUME NEW a \in Archives, Delete(s, a)
      PROVE  TypeInv'
  <2> DEFINE j == [Idle EXCEPT !.todo = {a}, !.pc = "purge"]
  <2>1. JobOK(j) /\ j \in Job /\ j.pc = "purge"
    BY DEF JobOK, Job, Idle, Pcs, AllKinds, ArchivePcs, ChunkPcs, InitPcs
  <2>2. Start(s, "delete", j)
    BY <1>6 DEF Delete
  <2> HIDE DEF j
  <2>3. JobsOK'
    BY <2>1, <2>2, <1>a, StartOK DEF JobsOK, AllKinds
  <2> QED BY <1>6, <2>3 DEF Delete, TypeInv, TypeOK, JobsOK
<1>7. ASSUME NEW a \in Archives, NEW i \in Idx, NEW b \in Contents, NEW h \in Hashes,
             UploadChunk(s, a, i, b, h)
      PROVE  TypeInv'
  <2> DEFINE j == [Idle EXCEPT !.a = a, !.i = i, !.body = b, !.hash = h, !.pc = "put"]
  <2>1. JobOK(j) /\ j \in Job /\ j.pc = "put"
    BY DEF JobOK, Job, Idle, Pcs, ArchivePcs, ChunkPcs, InitPcs
  <2>2. Start(s, "upload", j)
    BY <1>7 DEF UploadChunk
  <2> HIDE DEF j
  <2>3. JobsOK'
    BY <2>1, <2>2, <1>a, StartOK DEF JobsOK, AllKinds
  <2> QED BY <1>7, <2>3 DEF UploadChunk, TypeInv, TypeOK, JobsOK
<1>8. ASSUME NEW a \in Archives, NEW i \in Idx, NEW h \in Hashes, NEW n \in Sizes,
             ConfirmChunk(s, a, i, h, n)
      PROVE  TypeInv'
  <2> DEFINE pc == IF Backend = "s3" THEN "stat" ELSE "exists"
             j == [Idle EXCEPT !.a = a, !.i = i, !.hash = h, !.size = n, !.pc = pc]
  <2>1. JobOK(j) /\ j \in Job /\ j.pc \in {"stat", "exists"}
    BY DEF JobOK, Job, Idle, Pcs, ArchivePcs, ChunkPcs, InitPcs
  <2>2. Start(s, "confirm", j)
    BY <1>8 DEF ConfirmChunk
  <2> HIDE DEF j
  <2>3. JobsOK'
    BY <2>1, <2>2, <1>a, StartOK DEF JobsOK, AllKinds
  <2> QED BY <1>8, <2>3 DEF ConfirmChunk, TypeInv, TypeOK, JobsOK
<1>9. ASSUME NEW a \in Archives, NEW i \in Idx, DownloadChunk(s, a, i)
      PROVE  TypeInv'
  <2> DEFINE j == [Idle EXCEPT !.a = a, !.i = i, !.pc = "get"]
  <2>1. JobOK(j) /\ j \in Job /\ j.pc = "get"
    BY DEF JobOK, Job, Idle, Pcs, ArchivePcs, ChunkPcs, InitPcs
  <2>2. Start(s, "download", j)
    BY <1>9 DEF DownloadChunk
  <2> HIDE DEF j
  <2>3. JobsOK'
    BY <2>1, <2>2, <1>a, StartOK DEF JobsOK, AllKinds
  <2> QED BY <1>9, <2>3 DEF DownloadChunk, TypeInv, TypeOK, JobsOK
<1> QED
  BY <1>1, <1>2, <1>3, <1>4, <1>5, <1>6, <1>7, <1>8, <1>9 DEF Request

\* Every step of removing an archive keeps the types.
LEMMA PurgeType ==
  ASSUME TypeInv, NEW s \in Jobs, Purge(s)
  PROVE  TypeInv'
<1> USE StoreAssumption, LinkArchiveAssumption
<1>a. JobOK(job[s]) /\ job[s] \in Job
  BY DEF TypeInv, JobOK
<1>1. CASE PurgeList(s)
  <2>1. PICK a \in job[s].todo, objs \in SUBSET Idx :
          job' = [job EXCEPT ![s] = [job[s] EXCEPT !.pc = "objects", !.a = a,
                                       !.objs = objs, !.todo = job[s].todo \ {a}]]
    <3>1. \A a : {i \in Idx : chunk[a][i] # None} \in SUBSET Idx /\ {} \in SUBSET Idx
      OBVIOUS
    <3>2. PICK a \in job[s].todo :
            \E objs \in {{i \in Idx : chunk[a][i] # None}} \cup (IF Faults THEN {{}} ELSE {}) :
              job' = [job EXCEPT ![s] = [job[s] EXCEPT !.pc = "objects", !.a = a,
                                           !.objs = objs, !.todo = job[s].todo \ {a}]]
      BY <1>1 DEF PurgeList
    <3> QED BY <3>1, <3>2
  <2> DEFINE j == [job[s] EXCEPT !.pc = "objects", !.a = a,
                                 !.objs = objs, !.todo = job[s].todo \ {a}]
  <2>2. j \in Job /\ j.pc = "objects" /\ j.a \in Archives /\ j.kind = job[s].kind
        /\ j.user = job[s].user /\ j.plan = job[s].plan
    BY <1>a DEF Job, Pcs
  <2>3. job' = [job EXCEPT ![s] = j]
    BY <2>1, Zenon
  <2> HIDE DEF j
  <2>4. JobOK(j)
    BY <1>1, <1>a, <2>2 DEF PurgeList, At, JobOK, ArchivePcs, ChunkPcs, InitPcs
  <2>5. JobsOK'
    BY <2>3, <2>4, JobUpdate DEF JobsOK
  <2> QED BY <1>1, <2>5 DEF PurgeList, TypeInv, TypeOK, JobsOK
<1>2. CASE PurgeObject(s)
  <2>1. PICK i \in job[s].objs :
          /\ job' = [job EXCEPT ![s].objs = job[s].objs \ {i}]
          /\ \/ blob' = [blob EXCEPT ![job[s].a][i] = None]
             \/ Faults /\ blob' = blob
    BY <1>2 DEF PurgeObject
  <2> DEFINE j == [job[s] EXCEPT !.objs = job[s].objs \ {i}]
  <2>2. j \in Job /\ j.pc = job[s].pc /\ j.a = job[s].a /\ j.kind = job[s].kind
        /\ j.user = job[s].user /\ j.plan = job[s].plan
    BY <1>a DEF Job
  <2>3. job' = [job EXCEPT ![s] = j]
    BY <2>1 DEF TypeInv, TypeOK
  <2> HIDE DEF j
  <2>4. JobOK(j)
    BY <1>2, <1>a, <2>2 DEF PurgeObject, At, JobOK, ArchivePcs, ChunkPcs, InitPcs
  <2>5. JobsOK'
    BY <2>3, <2>4, JobUpdate DEF JobsOK
  <2>6. blob' \in [Archives -> [Idx -> Contents \cup {None}]]
    <3>1. job[s].a \in Archives /\ i \in Idx
      BY <1>2, <1>a, <2>1 DEF PurgeObject, At, JobOK, Job, ArchivePcs
    <3>2. blob \in [Archives -> [Idx -> Contents \cup {None}]]
      BY DEF TypeInv, TypeOK
    <3>3. [blob EXCEPT ![job[s].a][i] = None] \in [Archives -> [Idx -> Contents \cup {None}]]
      BY <3>1, <3>2
    <3> QED BY <2>1, <3>2, <3>3
  <2> QED BY <1>2, <2>5, <2>6 DEF PurgeObject, TypeInv, TypeOK, JobsOK
<1>3. CASE PurgeRow(s)
  <2>1. JobsOK'
    BY <1>3, <1>a, DoneOK, GotoOK DEF PurgeRow, AfterPurge, At, JobOK, JobsOK, Pcs, ArchivePcs, ChunkPcs, InitPcs
  <2>2. NoChunks \in [Idx -> LinkArchiveChunkRow \cup {None}]
    BY DEF NoChunks
  <2>3. chunk' \in [Archives -> [Idx -> LinkArchiveChunkRow \cup {None}]]
    BY <1>3, <2>2 DEF PurgeRow, TypeInv, TypeOK
  <2>4. row' \in [Archives -> LinkArchiveRow \cup {None}]
    BY <1>3 DEF PurgeRow, TypeInv, TypeOK
  <2>5. job[s].a \in Archives
    BY <1>3, <1>a DEF PurgeRow, At, JobOK, ArchivePcs
  <2>6. dropped' \subseteq Archives \X Idx /\ renewed' \subseteq Workers \X Archives
    BY <1>3, <2>5 DEF PurgeRow, Gone, TypeInv, TypeOK
  <2> QED BY <1>3, <2>1, <2>3, <2>4, <2>6 DEF PurgeRow, TypeInv, TypeOK, JobsOK
<1> QED
  BY <1>1, <1>2, <1>3 DEF Purge

\* Every step keeps the types.
LEMMA NextType ==
  ASSUME TypeInv, [Next]_vars
  PROVE  TypeInv'
<1>1. ASSUME NEW s \in Jobs, Abandon(s)
      PROVE  TypeInv'
  <2>1. JobsOK'
    BY <1>1, DoneOK DEF Abandon, JobsOK
  <2>2. job[s].pc \in ArchivePcs => job[s].a \in Archives
    BY DEF TypeInv, JobOK
  <2>3. renewed' \subseteq Workers \X Archives
    BY <1>1 DEF Abandon, TypeInv, TypeOK
  <2>4. stalled' \subseteq Archives
    BY <1>1, <2>2 DEF Abandon, TypeInv, TypeOK, ArchivePcs
  <2>5. dropped' \subseteq Archives \X Idx
    BY <1>1, <2>2 DEF Abandon, At, Gone, TypeInv, TypeOK, ArchivePcs
  <2> QED BY <1>1, <2>1, <2>3, <2>4, <2>5 DEF Abandon, TypeInv, TypeOK, JobsOK
<1>2. ASSUME NEW a \in Archives, NEW i \in Idx, NEW b \in Contents, PresignedPut(a, i, b)
      PROVE  TypeInv'
  BY <1>2 DEF PresignedPut, TypeInv, TypeOK
<1>3. CASE RunPurgerTick
  <2> DEFINE todo == {a \in Archives : GcEligible(row[a], now)}
             j == [Idle EXCEPT !.kind = "gc", !.pc = "purge", !.todo = todo]
  <2>1. todo \in SUBSET Archives
    OBVIOUS
  <2>2. job' = [job EXCEPT ![Purger] = j]
    BY <1>3 DEF RunPurgerTick
  <2> HIDE DEF todo
  <2>3. JobOK(j)
    BY <2>1 DEF JobOK, Job, Idle, Pcs, ArchivePcs, ChunkPcs, InitPcs
  <2> HIDE DEF j
  <2>4. JobsOK'
    BY <2>2, <2>3, JobUpdate DEF JobsOK
  <2> QED BY <1>3, <2>4 DEF RunPurgerTick, TypeInv, TypeOK, JobsOK
<1>4. CASE Tick
  BY <1>4 DEF Tick, TypeInv, TypeOK
<1>5. CASE UNCHANGED vars
  BY <1>5 DEF vars, TypeInv, TypeOK
<1> QED
  BY <1>1, <1>2, <1>3, <1>4, <1>5, RequestType, ContinueType, PurgeType DEF Next

\* The empty tables are well typed.
LEMMA InitType == Init => TypeInv
BY IdleOK DEF Init, TypeInv, TypeOK, JobOK, NoChunks

(***************************************************************************)
(* What one step may do to a row, to the chunk rows and to a job.          *)
(***************************************************************************)
WrittenStates == {"created", "uploading", "uploaded", "available", "acknowledged"}

RowOK(r) == r.state \in WrittenStates /\ r.expires <= r.hard

\* q is what a statement may make of the row r.
Updates(r, q) ==
  /\ q \in LinkArchiveRow
  /\ q.plan = r.plan /\ q.hard = r.hard /\ q.user = r.user
  /\ Rank(r.state) <= Rank(q.state)
  /\ r.finalized => q.finalized
  /\ RowOK(q)

\* Rank is a number on the states the code writes.
LEMMA RankNat == \A st \in WrittenStates : Rank(st) \in Nat
BY DEF Rank, WrittenStates

\* A row that stays is an update of itself.
LEMMA SameUpdates ==
  ASSUME NEW r \in LinkArchiveRow, RowOK(r)
  PROVE  Updates(r, r)
BY RankNat DEF Updates, RowOK

\* The sliding refresh never passes the hard deadline.
LEMMA RefreshUpdates ==
  ASSUME NEW r \in LinkArchiveRow, RowOK(r), NEW t \in Nat
  PROVE  LET q == RefreshLinkArchiveExpiry(r, t) IN Updates(r, q) /\ q.finalized = r.finalized
<1> DEFINE q == RefreshLinkArchiveExpiry(r, t)
<1>1. q = [r EXCEPT !.expires = Least(t + Ttl, r.hard)]
  BY StoreAssumption DEF RefreshLinkArchiveExpiry
<1>2. Least(t + Ttl, r.hard) \in Nat /\ Least(t + Ttl, r.hard) <= r.hard
  BY StoreAssumption DEF Least, LinkArchiveRow
<1>3. q \in LinkArchiveRow /\ q.plan = r.plan /\ q.hard = r.hard /\ q.user = r.user
      /\ q.state = r.state
      /\ q.finalized = r.finalized /\ q.expires <= q.hard
  BY <1>1, <1>2 DEF LinkArchiveRow
<1> HIDE DEF q
<1>4. Updates(r, q) /\ q.finalized = r.finalized
  BY <1>3, RankNat DEF Updates, RowOK
<1> QED BY <1>4 DEF q

\* Setting finalized_at changes nothing else.
LEMMA MarkUpdates ==
  ASSUME NEW r \in LinkArchiveRow, RowOK(r)
  PROVE  Updates(r, MarkLinkArchiveFinalized(r))
<1> DEFINE q == MarkLinkArchiveFinalized(r)
<1>1. q = [r EXCEPT !.finalized = TRUE]
  BY StoreAssumption DEF MarkLinkArchiveFinalized
<1>2. q \in LinkArchiveRow /\ q.plan = r.plan /\ q.hard = r.hard /\ q.user = r.user
      /\ q.state = r.state
      /\ q.finalized /\ q.expires = r.expires
  BY <1>1 DEF LinkArchiveRow
<1> HIDE DEF q
<1>3. Updates(r, q)
  BY <1>2, RankNat DEF Updates, RowOK
<1> QED BY <1>3 DEF q

\* A transition moves forward when every allowed source state does.
LEMMA TransitionUpdates ==
  ASSUME NEW r \in LinkArchiveRow, RowOK(r), NEW to \in WrittenStates, NEW from,
         \A st \in from \cap WrittenStates : Rank(st) <= Rank(to)
  PROVE  LET q == TransitionLinkArchiveState(r, to, from)
         IN  Updates(r, q) /\ q.finalized = r.finalized
<1> DEFINE q == TransitionLinkArchiveState(r, to, from)
<1> SUFFICES Updates(r, q) /\ q.finalized = r.finalized
  OBVIOUS
<1>1. CASE r.state \in from
  <2>1. q = [r EXCEPT !.state = to]
    BY <1>1, StoreAssumption DEF TransitionLinkArchiveState, MayTransition
  <2>2. q \in LinkArchiveRow /\ q.plan = r.plan /\ q.hard = r.hard /\ q.user = r.user
      /\ q.state = to
        /\ q.finalized = r.finalized /\ q.expires = r.expires
    BY <2>1 DEF LinkArchiveRow, States, LinkArchiveActiveStates, WrittenStates
  <2> HIDE DEF q
  <2> QED BY <1>1, <2>2 DEF Updates, RowOK
<1>2. CASE r.state \notin from
  <2>1. q = r
    BY <1>2 DEF TransitionLinkArchiveState, MayTransition
  <2> HIDE DEF q
  <2> QED BY <2>1, SameUpdates
<1> QED BY <1>1, <1>2

\* A row as inserted expires before its hard deadline and is not finalized.
LEMMA InsertRowOK ==
  ASSUME NEW u \in Users, NEW p \in Plans, NEW t \in Nat
  PROVE  LET q == InsertLinkArchive(u, p, t)
         IN  q \in LinkArchiveRow /\ RowOK(q) /\ ~q.finalized
BY FreshRowOK, StoreAssumption DEF InsertLinkArchive, RowOK, WrittenStates

\* Rows exist only for archives that were handed out, and are as written.
RowsOK == \A a \in Archives : row[a] # None => a \in used /\ RowOK(row[a])

\* The row of a goes, is inserted for a fresh UUID, or is updated; finalized
\* is set only by a job that is about to set it.
RowStep(a) ==
  \/ row'[a] = None
  \/ /\ row[a] = None /\ a \in used' \ used
     /\ row'[a] \in LinkArchiveRow /\ RowOK(row'[a]) /\ ~row'[a].finalized
  \/ /\ row[a] # None /\ Updates(row[a], row'[a])
     /\ row'[a].finalized =>
          row[a].finalized \/ \E s \in Jobs : job[s].pc = "mark" /\ job[s].a = a

\* Every step of the system is a RowStep for every archive.
LEMMA NextRows ==
  ASSUME TypeInv, RowsOK, [Next]_vars, NEW a \in Archives
  PROVE  RowStep(a) /\ used \subseteq used'
<1> USE StoreAssumption
<1>a. row \in [Archives -> LinkArchiveRow \cup {None}] /\ now \in Nat
  BY DEF TypeInv, TypeOK
<1>b. ASSUME UNCHANGED row
      PROVE  RowStep(a)
  BY <1>a, <1>b, SameUpdates DEF RowStep, RowsOK
<1>c. ASSUME NEW b \in Archives, NEW q, row' = [row EXCEPT ![b] = q],
             row[b] = None => q = None,
             row[b] # None => Updates(row[b], q),
             row[b] # None => (q.finalized => row[b].finalized
                               \/ \E s \in Jobs : job[s].pc = "mark" /\ job[s].a = b)
      PROVE  RowStep(a)
  <2>1. CASE a = b
    BY <2>1, <1>a, <1>c DEF RowStep
  <2>2. CASE a # b
    BY <2>2, <1>a, <1>c, SameUpdates DEF RowStep, RowsOK
  <2> QED BY <2>1, <2>2
<1>1. ASSUME NEW s \in Workers, InitInsert(s)
      PROVE  RowStep(a) /\ used \subseteq used'
  <2>1. PICK b \in Archives \ used :
          /\ row' = [row EXCEPT ![b] = InsertLinkArchive(job[s].user, job[s].plan, now)]
          /\ used' = used \cup {b}
    BY <1>1 DEF InitInsert
  <2>2. job[s].user \in Users /\ job[s].plan \in Plans
    BY <1>1 DEF InitInsert, At, TypeInv, JobOK, InitPcs
  <2> DEFINE q == InsertLinkArchive(job[s].user, job[s].plan, now)
  <2>3. q \in LinkArchiveRow /\ RowOK(q) /\ ~q.finalized
    BY <1>a, <2>2, InsertRowOK
  <2> HIDE DEF q
  <2>4. CASE a = b
    BY <1>a, <2>1, <2>3, <2>4 DEF RowStep, RowsOK, q
  <2>5. CASE a # b
    BY <1>a, <2>1, <2>5, SameUpdates DEF RowStep, RowsOK
  <2> QED BY <2>1, <2>4, <2>5
<1>2. ASSUME NEW s \in Workers, InitTransition(s)
      PROVE  RowStep(a) /\ used \subseteq used'
  <2> DEFINE b == job[s].a
             q == TransitionLinkArchiveState(row[b], "uploading", {"created"})
  <2>1. b \in Archives
    BY <1>2 DEF InitTransition, At, TypeInv, JobOK, ArchivePcs
  <2>2. row' = row \/ row' = [row EXCEPT ![b] = q]
    BY <1>2 DEF InitTransition, Transition
  <2>3. row[b] = None => q = None
    BY DEF TransitionLinkArchiveState, MayTransition
  <2>4. row[b] # None => Updates(row[b], q) /\ q.finalized = row[b].finalized
    BY <1>a, <2>1, TransitionUpdates DEF RowsOK, WrittenStates, Rank
  <2> HIDE DEF q
  <2> QED BY <1>b, <1>c, <1>2, <2>1, <2>2, <2>3, <2>4 DEF InitTransition
<1>3. ASSUME NEW s \in Workers, FinalizeMark(s)
      PROVE  RowStep(a) /\ used \subseteq used'
  <2> DEFINE b == job[s].a
             q == MarkLinkArchiveFinalized(row[b])
  <2>1. b \in Archives /\ s \in Jobs /\ job[s].pc = "mark"
    BY <1>3 DEF FinalizeMark, At, TypeInv, JobOK, ArchivePcs
  <2>2. row' = [row EXCEPT ![b] = q]
    BY <1>3 DEF FinalizeMark
  <2>3. row[b] = None => q = None
    BY DEF MarkLinkArchiveFinalized
  <2>4. row[b] # None => Updates(row[b], q)
    BY <1>a, <2>1, MarkUpdates DEF RowsOK
  <2> HIDE DEF q
  <2> QED BY <1>c, <1>3, <2>1, <2>2, <2>3, <2>4 DEF FinalizeMark
<1>4. ASSUME NEW s \in Workers, FinalizeUploaded(s)
      PROVE  RowStep(a) /\ used \subseteq used'
  <2> DEFINE b == job[s].a
             q == TransitionLinkArchiveState(row[b], "uploaded", {"uploading", "upload_paused"})
  <2>1. b \in Archives
    BY <1>4 DEF FinalizeUploaded, FinalizeTransition, At, TypeInv, JobOK, ArchivePcs
  <2>2. row' = row \/ row' = [row EXCEPT ![b] = q]
    BY <1>4 DEF FinalizeUploaded, FinalizeTransition, Transition
  <2>3. row[b] = None => q = None
    BY DEF TransitionLinkArchiveState, MayTransition
  <2>4. row[b] # None => Updates(row[b], q) /\ q.finalized = row[b].finalized
    BY <1>a, <2>1, TransitionUpdates DEF RowsOK, WrittenStates, Rank
  <2> HIDE DEF q
  <2> QED BY <1>b, <1>c, <1>4, <2>1, <2>2, <2>3, <2>4 DEF FinalizeUploaded, FinalizeTransition
<1>5. ASSUME NEW s \in Workers, FinalizeAvailable(s)
      PROVE  RowStep(a) /\ used \subseteq used'
  <2> DEFINE b == job[s].a
             q == TransitionLinkArchiveState(row[b], "available", {"uploaded"})
  <2>1. b \in Archives
    BY <1>5 DEF FinalizeAvailable, FinalizeTransition, At, TypeInv, JobOK, ArchivePcs
  <2>2. row' = row \/ row' = [row EXCEPT ![b] = q]
    BY <1>5 DEF FinalizeAvailable, FinalizeTransition, Transition
  <2>3. row[b] = None => q = None
    BY DEF TransitionLinkArchiveState, MayTransition
  <2>4. row[b] # None => Updates(row[b], q) /\ q.finalized = row[b].finalized
    BY <1>a, <2>1, TransitionUpdates DEF RowsOK, WrittenStates, Rank
  <2> HIDE DEF q
  <2> QED BY <1>b, <1>c, <1>5, <2>1, <2>2, <2>3, <2>4 DEF FinalizeAvailable, FinalizeTransition
<1>6. ASSUME NEW s \in Workers, AckTransition(s)
      PROVE  RowStep(a) /\ used \subseteq used'
  <2> DEFINE b == job[s].a
             q == TransitionLinkArchiveState(row[b], "acknowledged", AckableStates)
  <2>1. b \in Archives
    BY <1>6 DEF AckTransition, At, TypeInv, JobOK, ArchivePcs
  <2>2. row' = [row EXCEPT ![b] = q]
    BY <1>6 DEF AckTransition
  <2>3. row[b] = None => q = None
    BY DEF TransitionLinkArchiveState, MayTransition
  <2>4. row[b] # None => Updates(row[b], q) /\ q.finalized = row[b].finalized
    BY <1>a, <2>1, TransitionUpdates DEF RowsOK, WrittenStates, Rank
  <2> HIDE DEF q
  <2> QED BY <1>c, <1>6, <2>1, <2>2, <2>3, <2>4 DEF AckTransition
<1>7. ASSUME NEW s \in Workers, Refresh(s)
      PROVE  RowStep(a) /\ used \subseteq used'
  <2> DEFINE b == job[s].a
             q == RefreshLinkArchiveExpiry(row[b], now)
  <2>1. b \in Archives
    BY <1>7 DEF Refresh, At, TypeInv, JobOK, ArchivePcs
  <2>2. row' = [row EXCEPT ![b] = q]
    BY <1>7 DEF Refresh
  <2>3. row[b] = None => q = None
    BY DEF RefreshLinkArchiveExpiry
  <2>4. row[b] # None => Updates(row[b], q) /\ q.finalized = row[b].finalized
    BY <1>a, <2>1, RefreshUpdates DEF RowsOK
  <2> HIDE DEF q
  <2> QED BY <1>c, <1>7, <2>1, <2>2, <2>3, <2>4 DEF Refresh
<1>8. ASSUME NEW s \in Jobs, PurgeRow(s)
      PROVE  RowStep(a) /\ used \subseteq used'
  <2>1. row' = row \/ row' = [row EXCEPT ![job[s].a] = None]
    BY <1>8 DEF PurgeRow
  <2>2. CASE row' = row
    BY <1>b, <1>8, <2>2 DEF PurgeRow
  <2>3. CASE row' = [row EXCEPT ![job[s].a] = None]
    BY <1>a, <1>8, <2>3, SameUpdates DEF PurgeRow, RowStep, RowsOK
  <2> QED BY <2>1, <2>2, <2>3
<1>9. ASSUME NEW s \in Workers, Request(s)
      PROVE  UNCHANGED <<row, used>>
  BY <1>9 DEF Request, InitRequest, UploadWindow, Finalize, Manifest, Ack, Delete,
              UploadChunk, ConfirmChunk, DownloadChunk
<1>10. ASSUME NEW s \in Workers,
              InitQuota(s) \/ InitStaging(s) \/ UploadPut(s) \/ Rollback(s) \/ InsertChunk(s)
              \/ ConfirmStat(s) \/ ConfirmExists(s) \/ FinalizeList(s) \/ DownloadGet(s)
       PROVE  UNCHANGED <<row, used>>
  BY <1>10 DEF InitQuota, InitStaging, UploadPut, Rollback, InsertChunk, ConfirmStat,
               ConfirmExists, FinalizeList, DownloadGet
<1>11. ASSUME NEW s \in Jobs, PurgeList(s) \/ PurgeObject(s) \/ Abandon(s)
       PROVE  UNCHANGED <<row, used>>
  BY <1>11 DEF PurgeList, PurgeObject, Abandon
<1>12. ASSUME NEW b \in Archives, NEW i \in Idx, NEW c \in Contents, PresignedPut(b, i, c)
       PROVE  UNCHANGED <<row, used>>
  BY <1>12 DEF PresignedPut
<1>13. CASE RunPurgerTick \/ Tick \/ UNCHANGED vars
  BY <1>b, <1>13 DEF RunPurgerTick, Tick, vars
<1> QED
  BY <1>b, <1>1, <1>2, <1>3, <1>4, <1>5, <1>6, <1>7, <1>8, <1>9, <1>10, <1>11, <1>12, <1>13
     DEF Next, Continue, Purge

\* The chunk rows of a go with it, or are added one by one by uploads.
ChunkStep(a) ==
  \/ row'[a] = None
  \/ \A i \in Idx :
       \/ chunk'[a][i] = chunk[a][i]
       \/ /\ chunk[a][i] = None
          /\ \E s \in Jobs : job[s].pc = "insertChunk" /\ job[s].a = a /\ job[s].i = i

\* Every step of the system is a ChunkStep for every archive.
LEMMA NextChunks ==
  ASSUME TypeInv, [Next]_vars, NEW a \in Archives
  PROVE  ChunkStep(a)
<1>a. chunk \in [Archives -> [Idx -> LinkArchiveChunkRow \cup {None}]]
  BY DEF TypeInv, TypeOK
<1>b. ASSUME UNCHANGED chunk
      PROVE  ChunkStep(a)
  BY <1>b DEF ChunkStep
<1>1. ASSUME NEW s \in Workers, InsertChunk(s)
      PROVE  ChunkStep(a)
  <2> DEFINE b == job[s].a
             i == job[s].i
             c == InsertLinkArchiveChunk(chunk[b][i], job[s].hash, job[s].size)
  <2>1. b \in Archives /\ i \in Idx /\ s \in Jobs /\ job[s].pc = "insertChunk"
    BY <1>1 DEF InsertChunk, At, TypeInv, JobOK, ArchivePcs, ChunkPcs
  <2>2. chunk' = chunk \/ chunk' = [chunk EXCEPT ![b][i] = c]
    BY <1>1 DEF InsertChunk
  <2>3. chunk[b][i] # None => c = chunk[b][i]
    BY DEF InsertLinkArchiveChunk
  <2> HIDE DEF c
  <2>4. CASE chunk' = chunk
    BY <1>b, <1>1, <2>4 DEF InsertChunk
  <2>5. CASE chunk' = [chunk EXCEPT ![b][i] = c]
    <3>1. \A n \in Idx : chunk'[a][n] = IF a = b /\ n = i THEN c ELSE chunk[a][n]
      BY <1>a, <2>1, <2>5
    <3> QED BY <1>1, <2>1, <2>3, <3>1 DEF ChunkStep, InsertChunk
  <2> QED BY <2>2, <2>4, <2>5
<1>2. ASSUME NEW s \in Jobs, PurgeRow(s)
      PROVE  ChunkStep(a)
  <2> DEFINE b == job[s].a
  <2>1. b \in Archives
    BY <1>2 DEF PurgeRow, At, TypeInv, JobOK, ArchivePcs
  <2>2. \/ chunk' = chunk
        \/ row' = [row EXCEPT ![b] = None] /\ chunk' = [chunk EXCEPT ![b] = NoChunks]
    BY <1>2 DEF PurgeRow
  <2>3. CASE chunk' = chunk
    BY <1>b, <2>3
  <2>4. CASE row' = [row EXCEPT ![b] = None] /\ chunk' = [chunk EXCEPT ![b] = NoChunks]
    <3>1. row \in [Archives -> LinkArchiveRow \cup {None}]
      BY DEF TypeInv, TypeOK
    <3> QED BY <1>a, <2>1, <2>4, <3>1 DEF ChunkStep
  <2> QED BY <2>2, <2>3, <2>4
<1>3. ASSUME NEW s \in Workers, Request(s)
      PROVE  UNCHANGED chunk
  BY <1>3 DEF Request, InitRequest, UploadWindow, Finalize, Manifest, Ack, Delete,
              UploadChunk, ConfirmChunk, DownloadChunk
<1>4. ASSUME NEW s \in Workers, Continue(s), ~InsertChunk(s)
      PROVE  UNCHANGED chunk
  BY <1>4 DEF Continue, InitQuota, InitStaging, InitInsert, InitTransition, UploadPut,
              Rollback, ConfirmStat, ConfirmExists, FinalizeList, FinalizeMark,
              FinalizeUploaded, FinalizeAvailable, FinalizeTransition, DownloadGet,
              AckTransition, Refresh
<1>5. ASSUME NEW s \in Jobs, PurgeList(s) \/ PurgeObject(s) \/ Abandon(s)
      PROVE  UNCHANGED chunk
  BY <1>5 DEF PurgeList, PurgeObject, Abandon
<1>6. ASSUME NEW b \in Archives, NEW i \in Idx, NEW c \in Contents, PresignedPut(b, i, c)
      PROVE  UNCHANGED chunk
  BY <1>6 DEF PresignedPut
<1>7. CASE RunPurgerTick \/ Tick \/ UNCHANGED vars
  BY <1>b, <1>7 DEF RunPurgerTick, Tick, vars
<1> QED
  BY <1>b, <1>1, <1>2, <1>3, <1>4, <1>5, <1>6, <1>7 DEF Next, Purge

\* The steps at which a job works on an archive that was handed out, and the
\* ones at which it is bound to write the chunk row of an index.
BoundPcs == ArchivePcs \ {"objects"}
PlanPcs == {"put", "stat", "insertChunk"}

\* A job gets its archive and index from a lookup or keeps them, and comes to
\* set finalized_at only from a check that succeeded.
JobStep(s) ==
  LET j == job[s]
      k == job'[s] IN
  /\ k.pc \in BoundPcs =>
       \/ j.pc \in BoundPcs /\ k.a = j.a
       \/ k.a \in Archives /\ (row[k.a] # None \/ k.a \in used')
  /\ k.pc \in PlanPcs =>
       \/ j.pc \in PlanPcs /\ k.a = j.a /\ k.i = j.i
       \/ k.a \in Archives /\ row[k.a] # None /\ k.i \in DOMAIN row[k.a].plan.chunks
  /\ k.pc = "mark" =>
       /\ k.a = j.a
       /\ \/ j.pc = "mark"
          \/ /\ row[k.a] # None /\ Bound(row[k.a].plan, chunk[k.a])
             /\ UNCHANGED <<row, chunk>>

\* A job that is not bound to an archive afterwards makes a JobStep.
LEMMA JobStepReplace ==
  ASSUME NEW s \in Jobs, NEW t \in Jobs, NEW k, TypeInv, job' = [job EXCEPT ![t] = k],
         k.pc \notin BoundPcs
  PROVE  JobStep(s)
<1>1. job \in [Jobs -> Job]
  BY DEF TypeInv, TypeOK
<1>2. CASE s = t
  BY <1>1, <1>2 DEF JobStep, BoundPcs, ArchivePcs, PlanPcs
<1>3. CASE s # t
  BY <1>1, <1>3 DEF JobStep, BoundPcs, ArchivePcs, PlanPcs
<1> QED BY <1>2, <1>3

\* Ending a handler is a JobStep.
LEMMA JobStepIdle ==
  ASSUME NEW s \in Jobs, NEW t \in Jobs, TypeInv, Done(t)
  PROVE  JobStep(s)
<1>1. Idle.pc \notin BoundPcs
  BY DEF Idle, BoundPcs, ArchivePcs
<1> QED BY <1>1, JobStepReplace DEF Done

\* Starting a handler after a successful lookup is a JobStep.
LEMMA JobStepStart ==
  ASSUME NEW s \in Jobs, NEW t \in Jobs, NEW kind, NEW j \in Job, TypeInv,
         Start(t, kind, j),
         j.pc \in BoundPcs => j.a \in Archives /\ row[j.a] # None,
         j.pc \in PlanPcs => j.i \in DOMAIN row[j.a].plan.chunks,
         j.pc # "mark"
  PROVE  JobStep(s)
<1> DEFINE k == [j EXCEPT !.kind = kind]
<1>1. k.pc = j.pc /\ k.a = j.a /\ k.i = j.i
  BY DEF Job
<1>2. job \in [Jobs -> Job] /\ job' = [job EXCEPT ![t] = k]
  BY DEF Start, TypeInv, TypeOK
<1> HIDE DEF k
<1>3. CASE s = t
  BY <1>1, <1>2, <1>3 DEF JobStep, BoundPcs, ArchivePcs, PlanPcs
<1>4. CASE s # t
  BY <1>2, <1>4 DEF JobStep, BoundPcs, ArchivePcs, PlanPcs
<1> QED BY <1>3, <1>4

\* Moving on with the same archive and index is a JobStep.
LEMMA JobStepGoto ==
  ASSUME NEW s \in Jobs, NEW t \in Jobs, NEW pc, TypeInv, Goto(t, pc),
         pc \in BoundPcs => job[t].pc \in BoundPcs,
         pc \in PlanPcs => job[t].pc \in PlanPcs,
         pc = "mark" => /\ row[job[t].a] # None
                        /\ Bound(row[job[t].a].plan, chunk[job[t].a])
                        /\ UNCHANGED <<row, chunk>>
  PROVE  JobStep(s)
<1> DEFINE k == [job[t] EXCEPT !.pc = pc]
<1>1. job \in [Jobs -> Job]
  BY DEF TypeInv, TypeOK
<1>2. k.pc = pc /\ k.a = job[t].a /\ k.i = job[t].i
  BY <1>1 DEF Job
<1>3. job' = [job EXCEPT ![t] = k]
  BY <1>1 DEF Goto
<1> HIDE DEF k
<1>4. CASE s = t
  BY <1>1, <1>2, <1>3, <1>4 DEF JobStep
<1>5. CASE s # t
  BY <1>1, <1>3, <1>5 DEF JobStep
<1> QED BY <1>4, <1>5

\* Every step of the system is a JobStep for every job.
LEMMA NextJobs ==
  ASSUME TypeInv, [Next]_vars, NEW s \in Jobs
  PROVE  JobStep(s)
<1>a. job \in [Jobs -> Job]
  BY DEF TypeInv, TypeOK
<1> USE DEF BoundPcs, ArchivePcs, PlanPcs
<1>1. ASSUME NEW t \in Workers, NEW u \in Users, NEW p \in Plans, InitRequest(t, u, p)
      PROVE  JobStep(s)
  <2>1. PICK stale \in SUBSET Archives :
          Start(t, "init", [Idle EXCEPT !.user = u, !.plan = p, !.todo = stale,
                              !.pc = IF stale = {} THEN "count" ELSE "purge"])
    BY <1>1 DEF InitRequest
  <2> DEFINE pc == IF stale = {} THEN "count" ELSE "purge"
             j == [Idle EXCEPT !.user = u, !.plan = p, !.todo = stale, !.pc = pc]
  <2>2. j \in Job /\ j.pc \in {"count", "purge"}
    BY DEF Job, Idle, Pcs
  <2>3. Start(t, "init", j)
    BY <2>1
  <2> HIDE DEF j
  <2> QED BY <2>2, <2>3, JobStepStart
<1>2. ASSUME NEW t \in Workers, NEW a \in Archives,
             UploadWindow(t, a) \/ Finalize(t, a) \/ Manifest(t, a) \/ Ack(t, a) \/ Delete(t, a)
      PROVE  JobStep(s)
  <2>1. PICK pc \in {"refresh", "list", "ack"}, kind \in AllKinds :
          \/ Start(t, kind, [Idle EXCEPT !.a = a, !.pc = pc])
          \/ Start(t, kind, [Idle EXCEPT !.todo = {a}, !.pc = "purge"])
    BY <1>2 DEF UploadWindow, Finalize, Manifest, Ack, Delete, AllKinds
  <2>2. row[a] # None
    BY <1>2 DEF UploadWindow, Finalize, Manifest, Ack, Delete, Open, Readable, Lookup, Fresh
  <2> DEFINE j == [Idle EXCEPT !.a = a, !.pc = pc]
             d == [Idle EXCEPT !.todo = {a}, !.pc = "purge"]
  <2>3. j \in Job /\ j.pc = pc /\ j.a = a /\ d \in Job /\ d.pc = "purge"
    BY DEF Job, Idle, Pcs
  <2>4. Start(t, kind, j) \/ Start(t, kind, d)
    BY <2>1
  <2> HIDE DEF j, d
  <2> QED BY <2>2, <2>3, <2>4, JobStepStart
<1>3. ASSUME NEW t \in Workers, NEW a \in Archives, NEW i \in Idx, NEW b \in Contents,
             NEW h \in Hashes, UploadChunk(t, a, i, b, h)
      PROVE  JobStep(s)
  <2> DEFINE j == [Idle EXCEPT !.a = a, !.i = i, !.body = b, !.hash = h, !.pc = "put"]
  <2>1. j \in Job /\ j.pc = "put" /\ j.a = a /\ j.i = i
    BY DEF Job, Idle, Pcs
  <2>2. Start(t, "upload", j) /\ row[a] # None /\ i \in DOMAIN row[a].plan.chunks
    BY <1>3 DEF UploadChunk, HasIdx, Open, Lookup, Fresh
  <2> HIDE DEF j
  <2> QED BY <2>1, <2>2, JobStepStart
<1>4. ASSUME NEW t \in Workers, NEW a \in Archives, NEW i \in Idx, NEW h \in Hashes,
             NEW n \in Sizes, ConfirmChunk(t, a, i, h, n)
      PROVE  JobStep(s)
  <2> DEFINE pc == IF Backend = "s3" THEN "stat" ELSE "exists"
             j == [Idle EXCEPT !.a = a, !.i = i, !.hash = h, !.size = n, !.pc = pc]
  <2>1. j \in Job /\ j.pc \in {"stat", "exists"} /\ j.a = a /\ j.i = i
    BY DEF Job, Idle, Pcs
  <2>2. Start(t, "confirm", j) /\ row[a] # None /\ i \in DOMAIN row[a].plan.chunks
    BY <1>4 DEF ConfirmChunk, HasIdx, Open, Lookup, Fresh
  <2> HIDE DEF j
  <2> QED BY <2>1, <2>2, JobStepStart
<1>5. ASSUME NEW t \in Workers, NEW a \in Archives, NEW i \in Idx, DownloadChunk(t, a, i)
      PROVE  JobStep(s)
  <2> DEFINE j == [Idle EXCEPT !.a = a, !.i = i, !.pc = "get"]
  <2>1. j \in Job /\ j.pc = "get" /\ j.a = a
    BY DEF Job, Idle, Pcs
  <2>2. Start(t, "download", j) /\ row[a] # None
    BY <1>5 DEF DownloadChunk, Readable, Lookup, Fresh
  <2> HIDE DEF j
  <2> QED BY <2>1, <2>2, JobStepStart
<1>6. ASSUME NEW t \in Workers, InitInsert(t)
      PROVE  JobStep(s)
  <2>1. PICK a \in Archives \ used :
          /\ used' = used \cup {a}
          /\ job' = [job EXCEPT ![t] = [job[t] EXCEPT !.pc = "toUploading", !.a = a]]
    BY <1>6 DEF InitInsert
  <2> DEFINE k == [job[t] EXCEPT !.pc = "toUploading", !.a = a]
  <2>2. k.pc = "toUploading" /\ k.a = a
    BY <1>a DEF Job
  <2>3. job' = [job EXCEPT ![t] = k]
    BY <2>1
  <2> HIDE DEF k
  <2> QED BY <1>a, <2>1, <2>2, <2>3 DEF JobStep
<1>7. ASSUME NEW t \in Workers, UploadPut(t)
      PROVE  JobStep(s)
  <2> DEFINE pc == IF Sha256(job[t].body) = job[t].hash THEN "insertChunk" ELSE "rollback"
             k == [job[t] EXCEPT !.size = SizeOf[job[t].body], !.pc = pc]
  <2>1. k.pc \in {"insertChunk", "rollback"} /\ k.a = job[t].a /\ k.i = job[t].i
    BY <1>a DEF Job
  <2>2. job' = [job EXCEPT ![t] = k] /\ job[t].pc = "put"
    BY <1>7 DEF UploadPut, At
  <2> HIDE DEF k
  <2> QED BY <1>a, <2>1, <2>2 DEF JobStep
<1>8. ASSUME NEW t \in Workers,
             InitQuota(t) \/ InitStaging(t) \/ InsertChunk(t) \/ ConfirmStat(t)
             \/ ConfirmExists(t) \/ FinalizeMark(t) \/ DownloadGet(t)
      PROVE  JobStep(s)
  BY <1>8, JobStepIdle, JobStepGoto
     DEF InitQuota, InitStaging, InsertChunk, ConfirmStat, ConfirmExists, FinalizeMark,
         DownloadGet, At
<1>9. ASSUME NEW t \in Workers, FinalizeList(t)
      PROVE  JobStep(s)
  BY <1>9, JobStepIdle, JobStepGoto DEF FinalizeList, At
<1>10. ASSUME NEW t \in Workers, FinalizeUploaded(t) \/ FinalizeAvailable(t)
       PROVE  JobStep(s)
  BY <1>10, JobStepGoto DEF FinalizeUploaded, FinalizeAvailable, FinalizeTransition, At
<1>11. ASSUME NEW t \in Workers,
              InitTransition(t) \/ Rollback(t) \/ AckTransition(t) \/ Refresh(t)
       PROVE  JobStep(s)
  BY <1>11, JobStepIdle DEF InitTransition, Rollback, AckTransition, Refresh
<1>12. ASSUME NEW t \in Jobs, Abandon(t)
       PROVE  JobStep(s)
  BY <1>12, JobStepIdle DEF Abandon
<1>13. ASSUME NEW t \in Jobs, PurgeList(t)
       PROVE  JobStep(s)
  <2>1. PICK a \in job[t].todo, objs \in SUBSET Idx :
          job' = [job EXCEPT ![t] = [job[t] EXCEPT !.pc = "objects", !.a = a,
                                       !.objs = objs, !.todo = job[t].todo \ {a}]]
    BY <1>13 DEF PurgeList
  <2> DEFINE k == [job[t] EXCEPT !.pc = "objects", !.a = a,
                                 !.objs = objs, !.todo = job[t].todo \ {a}]
  <2>2. k.pc = "objects"
    BY <1>a DEF Job
  <2>3. job' = [job EXCEPT ![t] = k]
    BY <2>1
  <2> HIDE DEF k
  <2> QED BY <2>2, <2>3, JobStepReplace
<1>14. ASSUME NEW t \in Jobs, PurgeObject(t)
       PROVE  JobStep(s)
  <2>1. PICK i \in job[t].objs : job' = [job EXCEPT ![t].objs = job[t].objs \ {i}]
    BY <1>14 DEF PurgeObject
  <2> DEFINE k == [job[t] EXCEPT !.objs = job[t].objs \ {i}]
  <2>2. k.pc = "objects"
    BY <1>14, <1>a DEF Job, PurgeObject, At
  <2>3. job' = [job EXCEPT ![t] = k]
    BY <1>a, <2>1
  <2> HIDE DEF k
  <2> QED BY <2>2, <2>3, JobStepReplace
<1>15. ASSUME NEW t \in Jobs, PurgeRow(t)
       PROVE  JobStep(s)
  BY <1>15, JobStepIdle, JobStepGoto DEF PurgeRow, AfterPurge
<1>16. CASE RunPurgerTick
  <2> DEFINE todo == {a \in Archives : GcEligible(row[a], now)}
             k == [Idle EXCEPT !.kind = "gc", !.pc = "purge", !.todo = todo]
  <2>1. k.pc = "purge"
    BY DEF Idle
  <2>2. job' = [job EXCEPT ![Purger] = k]
    BY <1>16 DEF RunPurgerTick
  <2> HIDE DEF k
  <2> QED BY <2>1, <2>2, JobStepReplace
<1>17. ASSUME UNCHANGED job
       PROVE  JobStep(s)
  BY <1>17 DEF JobStep
<1> QED
  BY <1>1, <1>2, <1>3, <1>4, <1>5, <1>6, <1>7, <1>8, <1>9, <1>10, <1>11, <1>12, <1>13,
     <1>14, <1>15, <1>16, <1>17
     DEF Next, Request, Continue, Purge, PresignedPut, Tick, vars

(***************************************************************************)
(* The inductive invariant.                                                *)
(***************************************************************************)
\* A job works on an archive that was handed out, so the archive cannot be
\* inserted a second time under it.
JobsHaveArchives == \A s \in Jobs : job[s].pc \in BoundPcs => job[s].a \in used

\* An upload or confirm that is on its way to insert a chunk row does so for
\* an index of the plan.
WritesInPlan ==
  \A s \in Jobs : job[s].pc \in PlanPcs /\ row[job[s].a] # None
    => job[s].i \in DOMAIN row[job[s].a].plan.chunks

\* What finalize has checked is still so when it sets the flag.
MarksBound ==
  \A s \in Jobs : job[s].pc = "mark" /\ row[job[s].a] # None
    => Bound(row[job[s].a].plan, chunk[job[s].a])

Inv == /\ TypeInv
       /\ RowsOK
       /\ JobsHaveArchives
       /\ WritesInPlan
       /\ MarksBound
       /\ FinalizedBound

\* The empty tables satisfy the invariant.
LEMMA InitInv == Init => Inv
<1> SUFFICES ASSUME Init PROVE Inv
  OBVIOUS
<1>1. TypeInv
  BY InitType
<1>2. \A s \in Jobs : job[s].pc = "idle"
  BY DEF Init, Idle
<1>3. \A a \in Archives : row[a] = None
  BY DEF Init
<1> QED
  BY <1>1, <1>2, <1>3
     DEF Inv, RowsOK, JobsHaveArchives, WritesInPlan, MarksBound, FinalizedBound, BoundPcs,
         ArchivePcs, PlanPcs

\* While an archive exists its complete set of chunk rows does not change.
LEMMA BoundChunksStay ==
  ASSUME Inv, [Next]_vars, NEW a \in Archives, row[a] # None, row'[a] # None,
         Bound(row[a].plan, chunk[a])
  PROVE  chunk'[a] = chunk[a] /\ row'[a].plan = row[a].plan /\ Bound(row'[a].plan, chunk'[a])
<1>1. ChunkStep(a) /\ RowStep(a) /\ TypeInv'
  BY NextChunks, NextRows, NextType DEF Inv
<1>2. \A i \in DOMAIN row[a].plan.chunks : chunk[a][i] # None
  BY DEF Bound, Complete
<1>3. \A i \in Idx : chunk'[a][i] = chunk[a][i]
  BY <1>1, <1>2 DEF ChunkStep, Inv, WritesInPlan, PlanPcs
<1>4. chunk'[a] \in [Idx -> LinkArchiveChunkRow \cup {None}]
      /\ chunk[a] \in [Idx -> LinkArchiveChunkRow \cup {None}]
  BY <1>1 DEF Inv, TypeInv, TypeOK
<1>5. chunk'[a] = chunk[a]
  BY <1>3, <1>4
<1>6. row'[a].plan = row[a].plan
  BY <1>1 DEF RowStep, Updates
<1> QED BY <1>5, <1>6

\* Every step preserves the invariant.
LEMMA NextInv ==
  ASSUME Inv, [Next]_vars
  PROVE  Inv'
<1>1. TypeInv'
  BY NextType DEF Inv
<1>2. \A a \in Archives : RowStep(a) /\ used \subseteq used'
  BY NextRows DEF Inv
<1>3. \A s \in Jobs : JobStep(s)
  BY NextJobs DEF Inv
<1>4. \A s \in Jobs : job[s].pc \in BoundPcs => job[s].a \in Archives /\ job[s].a \in used
  BY DEF Inv, TypeInv, JobOK, JobsHaveArchives, BoundPcs
<1>5. RowsOK'
  BY <1>2 DEF Inv, RowsOK, RowStep, Updates
<1>6. JobsHaveArchives'
  <2> SUFFICES ASSUME NEW s \in Jobs, job'[s].pc \in BoundPcs
               PROVE  job'[s].a \in used'
    BY DEF JobsHaveArchives
  <2>1. \/ job[s].pc \in BoundPcs /\ job'[s].a = job[s].a
        \/ job'[s].a \in Archives /\ (row[job'[s].a] # None \/ job'[s].a \in used')
    BY <1>3 DEF JobStep
  <2>2. \A a \in Archives : row[a] # None => a \in used
    BY DEF Inv, RowsOK
  <2>3. used \subseteq used' \/ Archives = {}
    BY <1>2
  <2> QED BY <1>4, <2>1, <2>2, <2>3
<1>7. WritesInPlan'
  <2> SUFFICES ASSUME NEW s \in Jobs, job'[s].pc \in PlanPcs, row'[job'[s].a] # None
               PROVE  job'[s].i \in DOMAIN row'[job'[s].a].plan.chunks
    BY DEF WritesInPlan
  <2> DEFINE a == job'[s].a
  <2>1. \/ job[s].pc \in PlanPcs /\ a = job[s].a /\ job'[s].i = job[s].i
        \/ a \in Archives /\ row[a] # None /\ job'[s].i \in DOMAIN row[a].plan.chunks
    BY <1>3 DEF JobStep
  <2>2. a \in Archives /\ (row[a] # None \/ a \in used)
    BY <1>4, <2>1 DEF BoundPcs, PlanPcs, ArchivePcs
  <2>3. row[a] # None /\ row'[a].plan = row[a].plan
    BY <1>2, <2>2 DEF RowStep, Updates
  <2>4. job'[s].i \in DOMAIN row[a].plan.chunks
    BY <2>1, <2>3 DEF Inv, WritesInPlan
  <2> QED BY <2>3, <2>4
<1>8. MarksBound'
  <2> SUFFICES ASSUME NEW s \in Jobs, job'[s].pc = "mark", row'[job'[s].a] # None
               PROVE  Bound(row'[job'[s].a].plan, chunk'[job'[s].a])
    BY DEF MarksBound
  <2> DEFINE a == job'[s].a
  <2>1. /\ a = job[s].a
        /\ \/ job[s].pc = "mark"
           \/ /\ row[a] # None /\ Bound(row[a].plan, chunk[a])
              /\ UNCHANGED <<row, chunk>>
    BY <1>3 DEF JobStep
  <2>2. CASE row[a] # None /\ Bound(row[a].plan, chunk[a]) /\ UNCHANGED <<row, chunk>>
    BY <2>2
  <2>3. CASE job[s].pc = "mark"
    <3>1. a \in Archives /\ a \in used
      BY <1>4, <2>1, <2>3 DEF BoundPcs, ArchivePcs
    <3>2. row[a] # None
      BY <1>2, <3>1 DEF RowStep
    <3>3. Bound(row[a].plan, chunk[a])
      BY <2>1, <2>3, <3>2 DEF Inv, MarksBound
    <3> QED BY <3>1, <3>2, <3>3, BoundChunksStay
  <2> QED BY <2>1, <2>2, <2>3
<1>9. FinalizedBound'
  <2> SUFFICES ASSUME NEW a \in Archives, row'[a] # None, row'[a].finalized
               PROVE  Bound(row'[a].plan, chunk'[a])
    BY DEF FinalizedBound
  <2>1. /\ row[a] # None
        /\ row[a].finalized \/ \E s \in Jobs : job[s].pc = "mark" /\ job[s].a = a
    BY <1>2 DEF RowStep
  <2>2. Bound(row[a].plan, chunk[a])
    BY <2>1 DEF Inv, FinalizedBound, MarksBound
  <2> QED BY <2>1, <2>2, BoundChunksStay
<1> QED BY <1>1, <1>5, <1>6, <1>7, <1>8, <1>9 DEF Inv

\* The inductive invariant holds in every state of every instance.
THEOREM Invariance == Spec => []Inv
BY InitInv, NextInv, PTL DEF Spec

\* Type correctness: every row, chunk row, object, expiry and job has its type.
THEOREM TypeCorrect == Spec => []TypeOK
<1>1. Inv => TypeOK
  BY DEF Inv, TypeInv
<1> QED BY <1>1, Invariance, PTL

\* A finalized archive is complete and matches its manifest and its declared
\* size, for any number of archives, chunks, handlers, faults and expiries:
\* the guarantee linkArchiveFinalize gives the downloading device.
THEOREM FinalizedIsBound == Spec => []FinalizedBound
<1>1. Inv => FinalizedBound
  BY DEF Inv
<1> QED BY <1>1, Invariance, PTL

\* The chunk row of an index never changes while the archive exists,
\* whichever uploads and confirms race (InsertLinkArchiveChunk).
THEOREM ChunksFrozen == Spec => ChunkRowsFrozen
<1>1. ASSUME Inv, [Next]_vars
      PROVE  \A a \in Archives, i \in Idx :
               chunk[a][i] # None => chunk'[a][i] = chunk[a][i] \/ row'[a] = None
  <2>1. \A a \in Archives : ChunkStep(a)
    BY <1>1, NextChunks DEF Inv
  <2> QED BY <2>1 DEF ChunkStep
<1> QED BY <1>1, Invariance, PTL DEF Spec, ChunkRowsFrozen

\* No race moves an archive back in its lifecycle, takes back finalized_at or
\* moves an expiry past the hard deadline (TransitionLinkArchiveState,
\* RefreshLinkArchiveExpiry).
THEOREM LifecycleIsMonotone == Spec => LifecycleMonotone
<1>1. ASSUME Inv, [Next]_vars
      PROVE  \A a \in Archives : row[a] # None /\ row'[a] # None =>
               /\ Rank(row[a].state) <= Rank(row'[a].state)
               /\ row[a].finalized => row'[a].finalized
               /\ row'[a].hard = row[a].hard /\ row'[a].expires <= row[a].hard
  <2>1. \A a \in Archives : RowStep(a)
    BY <1>1, NextRows DEF Inv
  <2> QED BY <2>1 DEF RowStep, Updates, RowOK
<1> QED BY <1>1, Invariance, PTL DEF Spec, LifecycleMonotone


(***************************************************************************)
(* Whose step it is.                                                       *)
(***************************************************************************)
\* A statement of job s.
StepOf(s) ==
  \/ s \in Workers /\ (Request(s) \/ Continue(s))
  \/ Purge(s) \/ Abandon(s)
  \/ s = Purger /\ RunPurgerTick

\* A statement of one job leaves the records of the others alone.
LEMMA OthersKept ==
  ASSUME TypeInv, NEW t \in Jobs, StepOf(t), NEW s \in Jobs, s # t
  PROVE  job'[s] = job[s]
<1>a. job \in [Jobs -> Job]
  BY DEF TypeInv, TypeOK
<1>b. \A pc : Goto(t, pc) => job'[s] = job[s]
  BY <1>a DEF Goto
<1>c. Done(t) => job'[s] = job[s]
  BY <1>a DEF Done
<1>d. \A kind, j : Start(t, kind, j) => job'[s] = job[s]
  BY <1>a DEF Start
<1>1. CASE Request(t)
  BY <1>1, <1>d DEF Request, InitRequest, UploadWindow, Finalize, Manifest, Ack, Delete,
                    UploadChunk, ConfirmChunk, DownloadChunk
<1>2. CASE InitQuota(t) \/ InitStaging(t) \/ InitTransition(t) \/ Rollback(t) \/ InsertChunk(t)
           \/ ConfirmStat(t) \/ ConfirmExists(t) \/ FinalizeList(t) \/ FinalizeMark(t)
           \/ FinalizeUploaded(t) \/ FinalizeAvailable(t) \/ DownloadGet(t)
           \/ AckTransition(t) \/ Refresh(t)
  BY <1>2, <1>b, <1>c
     DEF InitQuota, InitStaging, InitTransition, Rollback, InsertChunk, ConfirmStat,
         ConfirmExists, FinalizeList, FinalizeMark, FinalizeUploaded, FinalizeAvailable,
         FinalizeTransition, DownloadGet, AckTransition, Refresh
<1>3. CASE InitInsert(t) \/ UploadPut(t) \/ PurgeList(t)
  BY <1>a, <1>3 DEF InitInsert, UploadPut, PurgeList
<1>4. CASE PurgeObject(t)
  BY <1>a, <1>4 DEF PurgeObject
<1>5. CASE PurgeRow(t) \/ Abandon(t)
  BY <1>b, <1>c, <1>5 DEF PurgeRow, AfterPurge, Abandon
<1>6. CASE t = Purger /\ RunPurgerTick
  BY <1>a, <1>6 DEF RunPurgerTick
<1> QED BY <1>1, <1>2, <1>3, <1>4, <1>5, <1>6 DEF StepOf, Continue, Purge

\* A job's record changes only by a statement of that job.
LEMMA OwnStep ==
  ASSUME TypeInv, [Next]_vars, NEW s \in Jobs, job'[s] # job[s]
  PROVE  StepOf(s)
<1>1. CASE \E t \in Jobs : StepOf(t)
  BY <1>1, OthersKept
<1>2. CASE UNCHANGED job
  BY <1>2
<1>3. (\E t \in Jobs : StepOf(t)) \/ UNCHANGED job
  BY DEF Next, StepOf, PresignedPut, Tick, vars
<1> QED BY <1>1, <1>2, <1>3

\* A job in the middle of a handler takes no first statement.
LEMMA BusyStep ==
  ASSUME NEW s \in Jobs, StepOf(s), job[s].pc # "idle"
  PROVE  \/ s \in Workers /\ Continue(s)
         \/ Purge(s) \/ Abandon(s)
<1>1. job[s] # Idle
  BY DEF Idle
<1>2. \A kind, j : ~Start(s, kind, j)
  BY <1>1 DEF Start
<1>3. ~Request(s)
  BY <1>2 DEF Request, InitRequest, UploadWindow, Finalize, Manifest, Ack, Delete,
              UploadChunk, ConfirmChunk, DownloadChunk
<1> QED BY <1>1, <1>3 DEF StepOf, RunPurgerTick

(***************************************************************************)
(* AckReady.  linkArchiveFinalize sets finalized_at and then moves the     *)
(* state column in two further statements that ignore their errors.  For   *)
(* an archive that lost no transition to a failure the column arrives: the *)
(* upload token exists only once init has left "created", so the first     *)
(* transition finds at least "uploading" and the second at least           *)
(* "uploaded", whichever finalizes, acknowledgements and removals run, and *)
(* whatever fails, at the same time.                                       *)
(***************************************************************************)
FinalPcs == {"list", "mark", "toUploaded", "toAvailable"}

\* The tokens of an archive are out only after init has moved it on.
IssuedBegun ==
  /\ issued \subseteq used
  /\ \A a \in issued \ stalled : row[a] # None => Rank(row[a].state) >= 1

\* A finalize works on an archive whose tokens are out.
FinalizersIssued == \A s \in Jobs : job[s].pc \in FinalPcs => job[s].a \in issued

\* After the first transition of a finalize the archive is at least uploaded.
UploadedFirst ==
  \A s \in Jobs :
    job[s].pc = "toAvailable" /\ row[job[s].a] # None /\ job[s].a \notin stalled
      => Rank(row[job[s].a].state) >= 2

\* A finalized archive is available or a finalize is still moving it.
FinalizedAdvances ==
  \A a \in Archives : row[a] # None /\ row[a].finalized /\ a \notin stalled
    => Finalizing(a) \/ Rank(row[a].state) >= 3

AckInv == IssuedBegun /\ FinalizersIssued /\ UploadedFirst /\ FinalizedAdvances

\* A transition from states that hold every rank just below the target's leaves
\* a row of at least that rank at the target's rank or above.
LEMMA TransitionArrives ==
  ASSUME NEW r \in LinkArchiveRow, RowOK(r), NEW to \in WrittenStates, NEW from,
         \A st \in WrittenStates : Rank(st) = Rank(to) - 1 => st \in from,
         Rank(r.state) >= Rank(to) - 1
  PROVE  Rank(TransitionLinkArchiveState(r, to, from).state) >= Rank(to)
<1> DEFINE q == TransitionLinkArchiveState(r, to, from)
<1>1. r # None
  BY StoreAssumption
<1>2. CASE r.state \in from
  <2>1. q.state = to
    BY <1>1, <1>2 DEF TransitionLinkArchiveState, MayTransition, LinkArchiveRow
  <2> QED BY <2>1, RankNat
<1>3. CASE r.state \notin from
  <2>1. q = r
    BY <1>3 DEF TransitionLinkArchiveState, MayTransition
  <2>2. Rank(r.state) \in Nat /\ Rank(to) \in Nat /\ Rank(r.state) # Rank(to) - 1
    BY <1>3, RankNat DEF RowOK
  <2>3. Rank(r.state) >= Rank(to)
    BY <2>2
  <2> QED BY <2>1, <2>3
<1> QED BY <1>2, <1>3

\* So does an advisory transition, unless its failure stalls the archive.
LEMMA AdvisoryArrives ==
  ASSUME TypeInv, RowsOK, NEW a \in Archives, row[a] # None, NEW to \in WrittenStates, NEW from,
         \A st \in WrittenStates : Rank(st) = Rank(to) - 1 => st \in from,
         Rank(row[a].state) >= Rank(to) - 1, Transition(a, to, from), a \notin stalled'
  PROVE  Rank(row'[a].state) >= Rank(to)
<1> DEFINE q == TransitionLinkArchiveState(row[a], to, from)
<1>1. row \in [Archives -> LinkArchiveRow \cup {None}] /\ row[a] \in LinkArchiveRow
      /\ RowOK(row[a])
  BY DEF TypeInv, TypeOK, RowsOK
<1>2. row'[a] = q
  <2>1. CASE row' = [row EXCEPT ![a] = q]
    BY <1>1, <2>1
  <2>2. CASE row' = row /\ stalled' = IF MayTransition(row[a], from) THEN stalled \cup {a}
                                      ELSE stalled
    BY <2>2 DEF TransitionLinkArchiveState
  <2> QED BY <2>1, <2>2 DEF Transition
<1>3. Rank(q.state) >= Rank(to)
  BY <1>1, TransitionArrives
<1> QED BY <1>2, <1>3

\* An archive that lost a transition stays marked.
LEMMA StalledStay ==
  ASSUME [Next]_vars
  PROVE  stalled \subseteq stalled'
<1>1. ASSUME NEW s \in Workers, Request(s)
      PROVE  UNCHANGED stalled
  BY <1>1 DEF Request, InitRequest, UploadWindow, Finalize, Manifest, Ack, Delete,
              UploadChunk, ConfirmChunk, DownloadChunk
<1>2. ASSUME NEW s \in Workers,
             InitTransition(s) \/ FinalizeUploaded(s) \/ FinalizeAvailable(s)
      PROVE  stalled \subseteq stalled'
  BY <1>2 DEF InitTransition, FinalizeUploaded, FinalizeAvailable, FinalizeTransition, Transition
<1>3. ASSUME NEW s \in Workers, Continue(s),
             ~(InitTransition(s) \/ FinalizeUploaded(s) \/ FinalizeAvailable(s))
      PROVE  UNCHANGED stalled
  BY <1>3 DEF Continue, InitQuota, InitStaging, InitInsert, UploadPut, Rollback, InsertChunk,
              ConfirmStat, ConfirmExists, FinalizeList, FinalizeMark, DownloadGet,
              AckTransition, Refresh
<1>4. ASSUME NEW s \in Jobs, Purge(s) \/ Abandon(s)
      PROVE  stalled \subseteq stalled'
  BY <1>4 DEF Purge, PurgeList, PurgeObject, PurgeRow, Abandon
<1>5. ASSUME (\E b \in Archives, i \in Idx, c \in Contents : PresignedPut(b, i, c))
             \/ RunPurgerTick \/ Tick \/ UNCHANGED vars
      PROVE  UNCHANGED stalled
  BY <1>5 DEF PresignedPut, RunPurgerTick, Tick, vars
<1> QED BY <1>1, <1>2, <1>3, <1>4, <1>5 DEF Next

\* finalized_at of a row is set by the job whose statement it is.
LEMMA MarkedBy ==
  ASSUME TypeInv, RowsOK, [Next]_vars, NEW a \in Archives, row[a] # None, row'[a] # None,
         ~row[a].finalized, row'[a].finalized
  PROVE  \E s \in Workers : FinalizeMark(s) /\ job[s].a = a
<1> USE StoreAssumption
<1>a. row \in [Archives -> LinkArchiveRow \cup {None}] /\ row[a] \in LinkArchiveRow
  BY DEF TypeInv, TypeOK
<1>b. row'[a] # row[a]
  OBVIOUS
<1>c. a \in used
  BY DEF RowsOK
<1>1. ASSUME NEW s \in Workers, InitInsert(s)
      PROVE  FALSE
  BY <1>a, <1>b, <1>c, <1>1 DEF InitInsert
<1>2. ASSUME NEW s \in Workers, NEW to, NEW from,
             row' = row \/ row' = [row EXCEPT ![job[s].a] = TransitionLinkArchiveState(@, to, from)]
      PROVE  FALSE
  <2>1. row'[a] = TransitionLinkArchiveState(row[a], to, from)
    BY <1>a, <1>b, <1>2
  <2>2. TransitionLinkArchiveState(row[a], to, from).finalized = row[a].finalized
    BY <1>a DEF TransitionLinkArchiveState, LinkArchiveRow
  <2> QED BY <2>1, <2>2
<1>3. ASSUME NEW s \in Workers,
             InitTransition(s) \/ FinalizeUploaded(s) \/ FinalizeAvailable(s) \/ AckTransition(s)
      PROVE  FALSE
  BY <1>2, <1>3 DEF InitTransition, FinalizeUploaded, FinalizeAvailable, FinalizeTransition,
                    Transition, AckTransition
<1>4. ASSUME NEW s \in Workers, Refresh(s)
      PROVE  FALSE
  <2>1. row'[a] = RefreshLinkArchiveExpiry(row[a], now)
    BY <1>a, <1>b, <1>4 DEF Refresh
  <2>2. RefreshLinkArchiveExpiry(row[a], now).finalized = row[a].finalized
    BY <1>a DEF RefreshLinkArchiveExpiry, LinkArchiveRow
  <2> QED BY <2>1, <2>2
<1>5. ASSUME NEW s \in Workers, FinalizeMark(s)
      PROVE  job[s].a = a
  BY <1>a, <1>b, <1>5 DEF FinalizeMark
<1>6. ASSUME NEW s \in Jobs, PurgeRow(s)
      PROVE  FALSE
  BY <1>a, <1>b, <1>6 DEF PurgeRow
<1>7. ASSUME NEW s \in Workers, Request(s)
      PROVE  UNCHANGED row
  BY <1>7 DEF Request, InitRequest, UploadWindow, Finalize, Manifest, Ack, Delete,
              UploadChunk, ConfirmChunk, DownloadChunk
<1>8. ASSUME NEW s \in Workers,
              InitQuota(s) \/ InitStaging(s) \/ UploadPut(s) \/ Rollback(s) \/ InsertChunk(s)
              \/ ConfirmStat(s) \/ ConfirmExists(s) \/ FinalizeList(s) \/ DownloadGet(s)
       PROVE  UNCHANGED row
  BY <1>8 DEF InitQuota, InitStaging, UploadPut, Rollback, InsertChunk, ConfirmStat,
              ConfirmExists, FinalizeList, DownloadGet
<1>9. ASSUME NEW s \in Jobs, PurgeList(s) \/ PurgeObject(s) \/ Abandon(s)
      PROVE  UNCHANGED row
  BY <1>9 DEF PurgeList, PurgeObject, Abandon
<1>10. ASSUME (\E b \in Archives, i \in Idx, c \in Contents : PresignedPut(b, i, c))
              \/ RunPurgerTick \/ Tick \/ UNCHANGED vars
       PROVE  UNCHANGED row
  BY <1>10 DEF PresignedPut, RunPurgerTick, Tick, vars
<1> QED
  BY <1>b, <1>1, <1>3, <1>4, <1>5, <1>6, <1>7, <1>8, <1>9, <1>10 DEF Next, Continue, Purge


\* Where the first statement of a handler leaves the job; only finalize comes
\* to its first step, and it has looked its archive up.
LEMMA RequestPcs ==
  ASSUME TypeInv, NEW s \in Workers, Request(s)
  PROVE  \/ job'[s].pc \in {"count", "purge", "refresh", "put", "stat", "exists", "get", "ack"}
         \/ job'[s].pc = "list" /\ job'[s].a \in issued
<1>a. job \in [Jobs -> Job] /\ s \in Jobs
  BY DEF TypeInv, TypeOK
<1>b. ASSUME NEW kind, NEW j \in Job, Start(s, kind, j)
      PROVE  job'[s].pc = j.pc /\ job'[s].a = j.a
  <2>1. job'[s] = [j EXCEPT !.kind = kind]
    BY <1>a, <1>b DEF Start
  <2> QED BY <2>1 DEF Job
<1>1. ASSUME NEW u \in Users, NEW p \in Plans, InitRequest(s, u, p)
      PROVE  job'[s].pc \in {"count", "purge"}
  <2>1. PICK stale \in SUBSET Archives :
          Start(s, "init", [Idle EXCEPT !.user = u, !.plan = p, !.todo = stale,
                              !.pc = IF stale = {} THEN "count" ELSE "purge"])
    BY <1>1 DEF InitRequest
  <2> DEFINE pc == IF stale = {} THEN "count" ELSE "purge"
             j == [Idle EXCEPT !.user = u, !.plan = p, !.todo = stale, !.pc = pc]
  <2>2. j \in Job /\ j.pc \in {"count", "purge"}
    BY DEF Job, Idle, Pcs
  <2>3. Start(s, "init", j)
    BY <2>1
  <2> HIDE DEF j
  <2> QED BY <1>b, <2>2, <2>3
<1>2. ASSUME NEW a \in Archives, UploadWindow(s, a) \/ Manifest(s, a) \/ Ack(s, a) \/ Delete(s, a)
      PROVE  job'[s].pc \in {"refresh", "ack", "purge"}
  <2>1. PICK pc \in {"refresh", "ack"}, kind \in AllKinds :
          \/ Start(s, kind, [Idle EXCEPT !.a = a, !.pc = pc])
          \/ Start(s, kind, [Idle EXCEPT !.todo = {a}, !.pc = "purge"])
    BY <1>2 DEF UploadWindow, Manifest, Ack, Delete, AllKinds
  <2> DEFINE j == [Idle EXCEPT !.a = a, !.pc = pc]
             d == [Idle EXCEPT !.todo = {a}, !.pc = "purge"]
  <2>2. j \in Job /\ j.pc = pc /\ d \in Job /\ d.pc = "purge"
    BY DEF Job, Idle, Pcs
  <2>3. Start(s, kind, j) \/ Start(s, kind, d)
    BY <2>1
  <2> HIDE DEF j, d
  <2> QED BY <1>b, <2>2, <2>3
<1>3. ASSUME NEW a \in Archives, Finalize(s, a)
      PROVE  job'[s].pc = "list" /\ job'[s].a \in issued
  <2> DEFINE j == [Idle EXCEPT !.a = a, !.pc = "list"]
  <2>1. j \in Job /\ j.pc = "list" /\ j.a = a
    BY DEF Job, Idle, Pcs
  <2>2. Start(s, "finalize", j) /\ a \in issued
    BY <1>3 DEF Finalize, Open, Lookup
  <2> HIDE DEF j
  <2> QED BY <1>b, <2>1, <2>2
<1>4. ASSUME NEW a \in Archives, NEW i \in Idx, NEW b \in Contents, NEW h \in Hashes,
             UploadChunk(s, a, i, b, h)
      PROVE  job'[s].pc = "put"
  <2> DEFINE j == [Idle EXCEPT !.a = a, !.i = i, !.body = b, !.hash = h, !.pc = "put"]
  <2>1. j \in Job /\ j.pc = "put"
    BY DEF Job, Idle, Pcs
  <2>2. Start(s, "upload", j)
    BY <1>4 DEF UploadChunk
  <2> HIDE DEF j
  <2> QED BY <1>b, <2>1, <2>2
<1>5. ASSUME NEW a \in Archives, NEW i \in Idx, NEW h \in Hashes, NEW n \in Sizes,
             ConfirmChunk(s, a, i, h, n)
      PROVE  job'[s].pc \in {"stat", "exists"}
  <2> DEFINE pc == IF Backend = "s3" THEN "stat" ELSE "exists"
             j == [Idle EXCEPT !.a = a, !.i = i, !.hash = h, !.size = n, !.pc = pc]
  <2>1. j \in Job /\ j.pc \in {"stat", "exists"}
    BY DEF Job, Idle, Pcs
  <2>2. Start(s, "confirm", j)
    BY <1>5 DEF ConfirmChunk
  <2> HIDE DEF j
  <2> QED BY <1>b, <2>1, <2>2
<1>6. ASSUME NEW a \in Archives, NEW i \in Idx, DownloadChunk(s, a, i)
      PROVE  job'[s].pc = "get"
  <2> DEFINE j == [Idle EXCEPT !.a = a, !.i = i, !.pc = "get"]
  <2>1. j \in Job /\ j.pc = "get"
    BY DEF Job, Idle, Pcs
  <2>2. Start(s, "download", j)
    BY <1>6 DEF DownloadChunk
  <2> HIDE DEF j
  <2> QED BY <1>b, <2>1, <2>2
<1> QED BY <1>1, <1>2, <1>3, <1>4, <1>5, <1>6 DEF Request

\* Where the later statements and the removal of an archive leave the job.
LEMMA ContinuePcs ==
  ASSUME TypeInv, NEW s \in Jobs, Continue(s) \/ Purge(s) \/ Abandon(s)
  PROVE  \/ job'[s].pc \in {"idle", "purge", "objects", "count", "toUploading", "rollback",
                            "refresh"}
         \/ job'[s].pc = "sum" /\ InitQuota(s) /\ job'[s].user = job[s].user
         \/ job'[s].pc = "insert" /\ InitStaging(s) /\ job'[s].user = job[s].user
         \/ job'[s].pc = "insertChunk" /\ (UploadPut(s) \/ ConfirmStat(s))
            /\ job'[s].a = job[s].a /\ job'[s].i = job[s].i
         \/ job'[s].pc = "mark" /\ FinalizeList(s) /\ job'[s].a = job[s].a
         \/ job'[s].pc = "toUploaded" /\ FinalizeMark(s) /\ job'[s].a = job[s].a
         \/ job'[s].pc = "toAvailable" /\ FinalizeUploaded(s) /\ job'[s].a = job[s].a
<1>a. job \in [Jobs -> Job] /\ job[s] \in Job
  BY DEF TypeInv, TypeOK
<1>b. \A pc : Goto(s, pc) => job'[s].pc = pc /\ job'[s].a = job[s].a /\ job'[s].i = job[s].i
                             /\ job'[s].user = job[s].user
  BY <1>a DEF Goto, Job
<1>c. Done(s) => job'[s].pc = "idle"
  BY <1>a DEF Done, Idle
<1>1. CASE InitQuota(s) \/ InitStaging(s) \/ InitTransition(s) \/ Rollback(s) \/ InsertChunk(s)
           \/ ConfirmExists(s) \/ FinalizeAvailable(s) \/ DownloadGet(s)
           \/ AckTransition(s) \/ Refresh(s) \/ Abandon(s) \/ PurgeRow(s)
  BY <1>1, <1>b, <1>c
     DEF InitQuota, InitStaging, InitTransition, Rollback, InsertChunk, ConfirmExists,
         FinalizeAvailable, FinalizeTransition, DownloadGet, AckTransition, Refresh, Abandon,
         PurgeRow, AfterPurge
<1>2. CASE ConfirmStat(s)
  BY <1>2, <1>b, <1>c DEF ConfirmStat
<1>3. CASE FinalizeList(s)
  BY <1>3, <1>b, <1>c DEF FinalizeList
<1>4. CASE FinalizeMark(s) \/ FinalizeUploaded(s)
  BY <1>4, <1>b DEF FinalizeMark, FinalizeUploaded, FinalizeTransition
<1>5. CASE InitInsert(s)
  <2>1. PICK a \in Archives \ used :
          job' = [job EXCEPT ![s] = [job[s] EXCEPT !.pc = "toUploading", !.a = a]]
    BY <1>5 DEF InitInsert
  <2> QED BY <1>a, <2>1 DEF Job
<1>6. CASE UploadPut(s)
  <2> DEFINE pc == IF Sha256(job[s].body) = job[s].hash THEN "insertChunk" ELSE "rollback"
             k == [job[s] EXCEPT !.size = SizeOf[job[s].body], !.pc = pc]
  <2>1. k.pc \in {"insertChunk", "rollback"} /\ k.a = job[s].a /\ k.i = job[s].i
    BY <1>a DEF Job
  <2>2. job'[s] = k
    BY <1>a, <1>6 DEF UploadPut
  <2> HIDE DEF k
  <2> QED BY <1>6, <2>1, <2>2
<1>7. CASE PurgeList(s)
  <2>1. PICK a \in job[s].todo, objs \in SUBSET Idx :
          job' = [job EXCEPT ![s] = [job[s] EXCEPT !.pc = "objects", !.a = a,
                                       !.objs = objs, !.todo = job[s].todo \ {a}]]
    BY <1>7 DEF PurgeList
  <2> QED BY <1>a, <2>1 DEF Job
<1>8. CASE PurgeObject(s)
  <2>1. PICK i \in job[s].objs : job' = [job EXCEPT ![s].objs = job[s].objs \ {i}]
    BY <1>8 DEF PurgeObject
  <2> QED BY <1>a, <1>8, <2>1 DEF Job, PurgeObject, At
<1> QED BY <1>1, <1>2, <1>3, <1>4, <1>5, <1>6, <1>7, <1>8 DEF Continue, Purge

\* The empty tables satisfy AckInv.
LEMMA InitAck == Init => AckInv
<1> SUFFICES ASSUME Init PROVE AckInv
  OBVIOUS
<1>1. \A s \in Jobs : job[s].pc = "idle"
  BY DEF Init, Idle
<1>2. issued = {} /\ \A a \in Archives : row[a] = None
  BY DEF Init
<1> QED BY <1>1, <1>2
  DEF AckInv, IssuedBegun, FinalizersIssued, UploadedFirst, FinalizedAdvances, FinalPcs

\* Every step preserves AckInv.
LEMMA NextAck ==
  ASSUME Inv, AckInv, [Next]_vars
  PROVE  AckInv'
<1>a. TypeInv /\ TypeInv' /\ RowsOK /\ RowsOK'
  BY NextInv DEF Inv
<1>b. \A a \in Archives : row[a] # None => row[a] \in LinkArchiveRow /\ RowOK(row[a])
                                          /\ Rank(row[a].state) \in Nat
  BY <1>a, RankNat DEF TypeInv, TypeOK, RowsOK, RowOK
<1>c. \A a \in used : row'[a] # None =>
        /\ row[a] # None
        /\ Rank(row[a].state) <= Rank(row'[a].state)
        /\ Rank(row'[a].state) \in Nat
  <2>1. \A a \in Archives : RowStep(a)
    BY <1>a, NextRows
  <2>2. used \subseteq Archives
    BY <1>a DEF TypeInv, TypeOK
  <2> QED BY <2>1, <2>2, RankNat DEF RowStep, Updates, RowOK
<1>d. issued \subseteq used /\ used \subseteq used' /\ used \subseteq Archives
      /\ issued \subseteq Archives
  BY <1>a, NextRows DEF AckInv, IssuedBegun, TypeInv, TypeOK
<1>k. stalled \subseteq stalled'
  BY StalledStay
<1>f. \A a \in issued \ stalled' : row'[a] # None => Rank(row'[a].state) >= 1
  BY <1>b, <1>c, <1>d, <1>k DEF AckInv, IssuedBegun
<1>g. issued' = issued \/ \E s \in Workers : InitTransition(s)
  <2>1. ASSUME NEW s \in Workers, Request(s)
        PROVE  issued' = issued
    BY <2>1 DEF Request, InitRequest, UploadWindow, Finalize, Manifest, Ack, Delete,
                UploadChunk, ConfirmChunk, DownloadChunk
  <2>2. ASSUME NEW s \in Workers, Continue(s), ~InitTransition(s)
        PROVE  issued' = issued
    BY <2>2 DEF Continue, InitQuota, InitStaging, InitInsert, UploadPut, Rollback, InsertChunk,
                ConfirmStat, ConfirmExists, FinalizeList, FinalizeMark, FinalizeUploaded,
                FinalizeAvailable, FinalizeTransition, DownloadGet, AckTransition, Refresh
  <2>3. ASSUME NEW s \in Jobs, Purge(s) \/ Abandon(s)
        PROVE  issued' = issued
    BY <2>3 DEF Purge, PurgeList, PurgeObject, PurgeRow, Abandon
  <2>4. ASSUME (\E b \in Archives, i \in Idx, c \in Contents : PresignedPut(b, i, c))
               \/ RunPurgerTick \/ Tick \/ UNCHANGED vars
        PROVE  issued' = issued
    BY <2>4 DEF PresignedPut, RunPurgerTick, Tick, vars
  <2> QED BY <2>1, <2>2, <2>3, <2>4 DEF Next
<1>1. IssuedBegun'
  <2>1. CASE issued' = issued
    BY <1>d, <1>f, <2>1 DEF IssuedBegun
  <2>2. ASSUME NEW s \in Workers, InitTransition(s)
        PROVE  IssuedBegun'
    <3> DEFINE b == job[s].a
    <3>1. b \in Archives /\ b \in used
      BY <1>a, <2>2 DEF InitTransition, At, TypeInv, JobOK, ArchivePcs, Inv, JobsHaveArchives,
                        BoundPcs
    <3>2. Transition(b, "uploading", {"created"}) /\ issued' = issued \cup {b}
      BY <2>2 DEF InitTransition
    <3>3. row'[b] # None /\ b \notin stalled' => Rank(row'[b].state) >= 1
      <4> SUFFICES ASSUME row'[b] # None, b \notin stalled' PROVE Rank(row'[b].state) >= 1
        OBVIOUS
      <4>1. row[b] # None /\ Rank(row[b].state) >= 0
        BY <1>b, <1>c, <3>1
      <4>2. Rank("uploading") = 1 /\ \A st \in WrittenStates : Rank(st) = 0 => st \in {"created"}
        BY DEF Rank, WrittenStates
      <4> QED BY <1>a, <3>1, <3>2, <4>1, <4>2, AdvisoryArrives DEF WrittenStates
    <3> QED BY <1>d, <1>f, <3>1, <3>2, <3>3 DEF IssuedBegun
  <2> QED BY <1>g, <2>1, <2>2
<1>h. issued \subseteq issued'
  BY <1>g DEF InitTransition
<1>i. ASSUME NEW s \in Jobs, job'[s] # job[s], job'[s].pc \in FinalPcs
      PROVE  \/ job'[s].pc = "list" /\ job'[s].a \in issued
             \/ job'[s].pc = "mark" /\ FinalizeList(s) /\ job'[s].a = job[s].a
             \/ job'[s].pc = "toUploaded" /\ FinalizeMark(s) /\ job'[s].a = job[s].a
             \/ job'[s].pc = "toAvailable" /\ FinalizeUploaded(s) /\ job'[s].a = job[s].a
  <2>1. StepOf(s)
    BY <1>a, <1>i, OwnStep
  <2>2. CASE s \in Workers /\ Request(s)
    BY <1>a, <1>i, <2>2, RequestPcs DEF FinalPcs
  <2>3. CASE Continue(s) \/ Purge(s) \/ Abandon(s)
    BY <1>a, <1>i, <2>3, ContinuePcs DEF FinalPcs
  <2>4. CASE s = Purger /\ RunPurgerTick
    <3>1. job \in [Jobs -> Job]
      BY <1>a DEF TypeInv, TypeOK
    <3>2. job'[s].pc = "purge"
      BY <2>4, <3>1 DEF RunPurgerTick, Idle
    <3> QED BY <1>i, <3>2 DEF FinalPcs
  <2> QED BY <2>1, <2>2, <2>3, <2>4 DEF StepOf
<1>2. FinalizersIssued'
  <2> SUFFICES ASSUME NEW s \in Jobs, job'[s].pc \in FinalPcs
               PROVE  job'[s].a \in issued'
    BY DEF FinalizersIssued
  <2>1. CASE job'[s] = job[s]
    BY <1>h, <2>1 DEF AckInv, FinalizersIssued
  <2>2. CASE job'[s] # job[s]
    <3>1. job'[s].a \in issued \/ (job'[s].a = job[s].a /\ job[s].pc \in FinalPcs)
      BY <1>i, <2>2 DEF FinalizeList, FinalizeMark, FinalizeUploaded, FinalizeTransition, At,
                        FinalPcs
    <3> QED BY <1>h, <3>1 DEF AckInv, FinalizersIssued
  <2> QED BY <2>1, <2>2
<1>3. UploadedFirst'
  <2> SUFFICES ASSUME NEW s \in Jobs, job'[s].pc = "toAvailable", row'[job'[s].a] # None,
                      job'[s].a \notin stalled'
               PROVE  Rank(row'[job'[s].a].state) >= 2
    BY DEF UploadedFirst
  <2>1. CASE job'[s] = job[s]
    <3>1. job[s].a \in used
      BY <1>d, <2>1 DEF AckInv, FinalizersIssued, FinalPcs
    <3> QED BY <1>b, <1>c, <1>d, <1>k, <2>1, <3>1 DEF AckInv, UploadedFirst
  <2>2. CASE job'[s] # job[s]
    <3> DEFINE b == job[s].a
    <3>1. FinalizeUploaded(s) /\ job'[s].a = b
      BY <1>i, <2>2 DEF FinalPcs
    <3>2. b \in issued /\ b \in used /\ b \in Archives
      BY <1>d, <3>1 DEF FinalizeUploaded, FinalizeTransition, At, AckInv, FinalizersIssued,
                        FinalPcs
    <3>3. row[b] # None /\ Rank(row[b].state) >= 1 /\ b \notin stalled'
      BY <1>b, <1>c, <1>k, <3>1, <3>2 DEF AckInv, IssuedBegun
    <3>4. Transition(b, "uploaded", {"uploading", "upload_paused"})
      BY <3>1 DEF FinalizeUploaded, FinalizeTransition
    <3>5. Rank("uploaded") = 2
          /\ \A st \in WrittenStates : Rank(st) = 1 => st \in {"uploading", "upload_paused"}
      BY DEF Rank, WrittenStates
    <3>6. Rank(row'[b].state) >= 2
      BY <1>a, <3>2, <3>3, <3>4, <3>5, AdvisoryArrives DEF WrittenStates
    <3> QED BY <3>1, <3>6
  <2> QED BY <2>1, <2>2
<1>4. FinalizedAdvances'
  <2> SUFFICES ASSUME NEW a \in Archives, row'[a] # None, row'[a].finalized, a \notin stalled'
               PROVE  \/ \E s \in Jobs : job'[s].a = a /\ job'[s].pc \in {"toUploaded", "toAvailable"}
                      \/ Rank(row'[a].state) >= 3
    BY DEF FinalizedAdvances, Finalizing
  <2>1. row[a] # None /\ a \in used
    <3>1. RowStep(a)
      BY <1>a, NextRows
    <3> QED BY <1>a, <3>1 DEF RowStep, RowsOK
  <2>2. CASE ~row[a].finalized
    <3>1. PICK s \in Workers : FinalizeMark(s) /\ job[s].a = a
      BY <1>a, <2>1, <2>2, MarkedBy
    <3>2. job[s] \in Job /\ job \in [Jobs -> Job]
      BY <1>a DEF TypeInv, TypeOK
    <3>3. job'[s].a = a /\ job'[s].pc = "toUploaded"
      BY <3>1, <3>2 DEF FinalizeMark, Goto, Job
    <3> QED BY <3>3
  <2>3. CASE row[a].finalized /\ Rank(row[a].state) >= 3
    BY <1>b, <1>c, <2>1, <2>3
  <2>4. ASSUME NEW s \in Jobs, job[s].a = a, job[s].pc \in {"toUploaded", "toAvailable"}
        PROVE  \/ job'[s].a = a /\ job'[s].pc \in {"toUploaded", "toAvailable"}
               \/ Rank(row'[a].state) >= 3
    <3>1. CASE job'[s] = job[s]
      BY <2>4, <3>1
    <3>2. CASE job'[s] # job[s]
      <4>1. StepOf(s)
        BY <1>a, <3>2, OwnStep
      <4>2. FinalizeUploaded(s) \/ FinalizeAvailable(s)
        <5>1. Continue(s) \/ Purge(s) \/ Abandon(s)
          BY <2>4, <4>1, BusyStep
        <5>2. ~Abandon(s)
          BY <2>4 DEF Abandon
        <5> QED BY <2>4, <5>1, <5>2
          DEF Continue, InitQuota, InitStaging, InitInsert, InitTransition, UploadPut, Rollback,
              InsertChunk, ConfirmStat, ConfirmExists, FinalizeList, FinalizeMark, DownloadGet,
              AckTransition, Refresh, Purge, PurgeList, PurgeObject, PurgeRow, At
      <4>3. CASE FinalizeUploaded(s)
        <5>1. job[s] \in Job /\ job \in [Jobs -> Job]
          BY <1>a DEF TypeInv, TypeOK
        <5>2. job'[s].a = a /\ job'[s].pc = "toAvailable"
          BY <2>4, <4>3, <5>1 DEF FinalizeUploaded, FinalizeTransition, Goto, Job
        <5> QED BY <5>2
      <4>4. CASE FinalizeAvailable(s)
        <5>1. Rank(row[a].state) >= 2
          BY <1>b, <1>k, <2>1, <2>4, <4>4
             DEF FinalizeAvailable, FinalizeTransition, At, AckInv, UploadedFirst
        <5>2. Transition(a, "available", {"uploaded"})
          BY <2>4, <4>4 DEF FinalizeAvailable, FinalizeTransition
        <5>3. Rank("available") = 3
              /\ \A st \in WrittenStates : Rank(st) = 2 => st \in {"uploaded"}
          BY DEF Rank, WrittenStates
        <5> QED BY <1>a, <2>1, <5>1, <5>2, <5>3, AdvisoryArrives DEF WrittenStates
      <4> QED BY <4>2, <4>3, <4>4
    <3> QED BY <3>1, <3>2
  <2> QED BY <1>k, <2>1, <2>2, <2>3, <2>4 DEF AckInv, FinalizedAdvances, Finalizing
<1> QED BY <1>1, <1>2, <1>3, <1>4 DEF AckInv

\* Once the finalize of an archive has run, the downloading device can
\* acknowledge it (linkArchiveAck decides on the state column), whatever fails
\* and however many finalizes, acks and deletes race: an archive for which that
\* is not so lost one of its own transitions to a failure.
THEOREM AcksAreReady == Spec => []AckReady
<1>1. Inv /\ AckInv /\ [Next]_vars => AckInv'
  BY NextAck
<1>2. Inv /\ AckInv => AckReady
  <2> SUFFICES ASSUME Inv, AckInv, NEW a \in Archives, Readable(a), ~Finalizing(a),
                      a \notin stalled
               PROVE  row[a].state \in AckableStates \cup {"acknowledged"}
    BY DEF AckReady
  <2>1. row[a] # None /\ RowOK(row[a]) /\ Rank(row[a].state) >= 3
    BY DEF Readable, Lookup, Fresh, AckInv, FinalizedAdvances, Inv, RowsOK
  <2> QED BY <2>1 DEF RowOK, WrittenStates, Rank, AckableStates
<1> QED BY <1>1, <1>2, InitAck, Invariance, PTL DEF Spec


(***************************************************************************)
(* RowsHaveObjects.  A chunk row is inserted some statements after the     *)
(* object it points to was stored, and removing an archive deletes the     *)
(* objects before the rows.  An object that was stored goes only by a      *)
(* rollback, which `dropped' records, or while a job is removing its       *)
(* archive; that job ends with the row gone, or it fails and `dropped'     *)
(* records the objects that are missing by then.                           *)
(***************************************************************************)
\* The object of a key is there, or one of the two failures took it.
Held(a, i) == blob[a][i] # None \/ <<a, i>> \in dropped

\* An upload or confirm about to insert a chunk row has its object in place.
InsertsHaveObjects ==
  \A s \in Jobs : job[s].pc = "insertChunk" /\ row[job[s].a] # None /\ ~Purging(job[s].a)
    => Held(job[s].a, job[s].i)

\* Every chunk row of an archive that no job is removing has its object.
ChunksHaveObjects ==
  \A a \in Archives, i \in Idx :
    row[a] # None /\ chunk[a][i] # None /\ ~Purging(a) => Held(a, i)

\* Chunk rows go with their archive.
NoOrphanRows == \A a \in Archives : row[a] = None => chunk[a] = NoChunks

ObjectInv == InsertsHaveObjects /\ ChunksHaveObjects /\ NoOrphanRows

\* A job that removes an archive goes on until the row is gone, or fails and
\* leaves every object held.
LEMMA RemovalEnds ==
  ASSUME TypeInv, [Next]_vars, NEW a \in Archives, Purging(a), row'[a] # None
  PROVE  Purging(a)' \/ \A i \in Idx : Held(a, i)'
<1>a. job \in [Jobs -> Job] /\ row \in [Archives -> LinkArchiveRow \cup {None}]
  BY DEF TypeInv, TypeOK
<1>1. PICK s \in Jobs : job[s].pc = "objects" /\ job[s].a = a
  BY DEF Purging
<1>2. CASE job'[s] = job[s]
  BY <1>1, <1>2 DEF Purging
<1>3. CASE job'[s] # job[s]
  <2>1. Continue(s) \/ Purge(s) \/ Abandon(s)
    BY <1>1, <1>3, OwnStep, BusyStep
  <2>2. PurgeObject(s) \/ PurgeRow(s) \/ Abandon(s)
    BY <1>1, <2>1
       DEF Continue, InitQuota, InitStaging, InitInsert, InitTransition, UploadPut, Rollback,
           InsertChunk, ConfirmStat, ConfirmExists, FinalizeList, FinalizeMark,
           FinalizeUploaded, FinalizeAvailable, FinalizeTransition, DownloadGet,
           AckTransition, Refresh, Purge, PurgeList, At
  <2>3. CASE PurgeRow(s) \/ Abandon(s)
    <3>1. blob' = blob /\ dropped' = dropped \cup Gone(a)
      BY <1>a, <1>1, <2>3 DEF PurgeRow, Abandon, At
    <3> QED BY <3>1 DEF Gone, Held
  <2>4. CASE PurgeObject(s)
    <3>1. PICK i \in job[s].objs : job' = [job EXCEPT ![s].objs = job[s].objs \ {i}]
      BY <2>4 DEF PurgeObject
    <3>2. job'[s].pc = "objects" /\ job'[s].a = a
      BY <1>a, <1>1, <3>1 DEF Job
    <3> QED BY <3>2 DEF Purging
  <2> QED BY <2>2, <2>3, <2>4
<1> QED BY <1>2, <1>3

\* While no job removes the archive a held object stays held.
LEMMA HeldStays ==
  ASSUME TypeInv, [Next]_vars, NEW a \in Archives, NEW i \in Idx, Held(a, i), ~Purging(a)
  PROVE  Held(a, i)'
<1>a. blob \in [Archives -> [Idx -> Contents \cup {None}]] /\ None \notin Contents
  BY StoreAssumption DEF TypeInv, TypeOK
<1>b. ASSUME UNCHANGED blob, dropped \subseteq dropped'
      PROVE  Held(a, i)'
  BY <1>b DEF Held
<1>c. ASSUME NEW b \in Archives, NEW n \in Idx, NEW o, o # None,
             blob' = [blob EXCEPT ![b][n] = o], dropped' = dropped \ {<<b, n>>}
      PROVE  Held(a, i)'
  <2>1. CASE b = a /\ n = i
    BY <1>a, <1>c, <2>1 DEF Held
  <2>2. CASE ~(b = a /\ n = i)
    <3>1. blob'[a][i] = blob[a][i]
      BY <1>a, <1>c, <2>2
    <3>2. <<a, i>> # <<b, n>>
      BY <2>2
    <3> QED BY <1>c, <3>1, <3>2 DEF Held
  <2> QED BY <2>1, <2>2
<1>1. ASSUME NEW s \in Workers, UploadPut(s)
      PROVE  Held(a, i)'
  <2> DEFINE b == job[s].a
             n == job[s].i
             o == PutObject(blob[b][n], job[s].body)
  <2>1. b \in Archives /\ n \in Idx /\ job[s].body \in Contents
    BY <1>1 DEF UploadPut, At, TypeInv, JobOK, ArchivePcs, ChunkPcs
  <2>2. o # None
    BY <1>a, <2>1 DEF PutObject
  <2>3. blob' = [blob EXCEPT ![b][n] = o] /\ dropped' = dropped \ {<<b, n>>}
    BY <1>1 DEF UploadPut
  <2> HIDE DEF o
  <2> QED BY <1>c, <2>1, <2>2, <2>3
<1>2. ASSUME NEW s \in Workers, Rollback(s)
      PROVE  Held(a, i)'
  <2> DEFINE b == job[s].a
             n == job[s].i
  <2>1. blob' = [blob EXCEPT ![b][n] = None] /\ dropped' = dropped \cup {<<b, n>>}
    BY <1>2 DEF Rollback
  <2>2. CASE b = a /\ n = i
    BY <2>1, <2>2 DEF Held
  <2>3. CASE ~(b = a /\ n = i)
    <3>1. blob'[a][i] = blob[a][i]
      BY <1>a, <2>1, <2>3
    <3> QED BY <2>1, <3>1 DEF Held
  <2> QED BY <2>2, <2>3
<1>3. ASSUME NEW s \in Jobs, PurgeObject(s)
      PROVE  Held(a, i)'
  <2>1. PICK n \in job[s].objs : blob' = blob \/ blob' = [blob EXCEPT ![job[s].a][n] = None]
    BY <1>3 DEF PurgeObject
  <2>2. job[s].a \in Archives /\ job[s].a # a
    BY <1>3 DEF PurgeObject, At, Purging, TypeInv, JobOK, ArchivePcs
  <2>3. blob'[a][i] = blob[a][i] /\ dropped' = dropped
    BY <1>a, <1>3, <2>1, <2>2 DEF PurgeObject
  <2> QED BY <2>3 DEF Held
<1>4. ASSUME NEW b \in Archives, NEW n \in Idx, NEW c \in Contents, PresignedPut(b, n, c)
      PROVE  Held(a, i)'
  BY <1>a, <1>c, <1>4 DEF PresignedPut
<1>5. ASSUME NEW s \in Workers, Request(s)
      PROVE  UNCHANGED <<blob, dropped>>
  BY <1>5 DEF Request, InitRequest, UploadWindow, Finalize, Manifest, Ack, Delete,
              UploadChunk, ConfirmChunk, DownloadChunk
<1>6. ASSUME NEW s \in Workers, Continue(s), ~UploadPut(s), ~Rollback(s)
      PROVE  UNCHANGED <<blob, dropped>>
  BY <1>6 DEF Continue, InitQuota, InitStaging, InitInsert, InitTransition, InsertChunk,
              ConfirmStat, ConfirmExists, FinalizeList, FinalizeMark, FinalizeUploaded,
              FinalizeAvailable, FinalizeTransition, DownloadGet, AckTransition, Refresh
<1>7. ASSUME NEW s \in Jobs, PurgeList(s) \/ PurgeRow(s) \/ Abandon(s)
      PROVE  UNCHANGED blob /\ dropped \subseteq dropped'
  BY <1>7 DEF PurgeList, PurgeRow, Abandon
<1>8. ASSUME RunPurgerTick \/ Tick \/ UNCHANGED vars
      PROVE  UNCHANGED <<blob, dropped>>
  BY <1>8 DEF RunPurgerTick, Tick, vars
<1> QED BY <1>b, <1>1, <1>2, <1>3, <1>4, <1>5, <1>6, <1>7, <1>8 DEF Next, Purge

\* A job comes to insert a chunk row with the object in the store.
LEMMA InsertsAreReady ==
  ASSUME TypeInv, [Next]_vars, NEW s \in Jobs, job'[s] # job[s], job'[s].pc = "insertChunk"
  PROVE  blob'[job'[s].a][job'[s].i] # None
<1>a. blob \in [Archives -> [Idx -> Contents \cup {None}]] /\ None \notin Contents
      /\ job \in [Jobs -> Job]
  BY StoreAssumption DEF TypeInv, TypeOK
<1>1. StepOf(s)
  BY OwnStep
<1>2. ~(s = Purger /\ RunPurgerTick)
  BY <1>a DEF RunPurgerTick, Idle
<1>3. Continue(s) \/ Purge(s) \/ Abandon(s)
  BY <1>1, <1>2, RequestPcs DEF StepOf
<1>4. (UploadPut(s) \/ ConfirmStat(s)) /\ job'[s].a = job[s].a /\ job'[s].i = job[s].i
  BY <1>3, ContinuePcs
<1>5. CASE UploadPut(s)
  <2> DEFINE b == job[s].a
             n == job[s].i
             o == PutObject(blob[b][n], job[s].body)
  <2>1. b \in Archives /\ n \in Idx /\ job[s].body \in Contents
    BY <1>5 DEF UploadPut, At, TypeInv, JobOK, ArchivePcs, ChunkPcs
  <2>2. o # None
    BY <1>a, <2>1 DEF PutObject
  <2>3. blob' = [blob EXCEPT ![b][n] = o]
    BY <1>5 DEF UploadPut
  <2> HIDE DEF o
  <2> QED BY <1>a, <1>4, <2>1, <2>2, <2>3
<1>6. CASE ConfirmStat(s)
  <2>1. ~Done(s)
    BY <1>a DEF Done, Idle
  <2> QED BY <1>4, <1>6, <2>1 DEF ConfirmStat
<1> QED BY <1>4, <1>5, <1>6

\* A row that is inserted or goes has no chunk rows afterwards.
LEMMA RowsGoWithArchive ==
  ASSUME Inv, NoOrphanRows, [Next]_vars
  PROVE  NoOrphanRows'
<1>a. chunk \in [Archives -> [Idx -> LinkArchiveChunkRow \cup {None}]]
      /\ row \in [Archives -> LinkArchiveRow \cup {None}] /\ TypeInv
  BY DEF Inv, TypeInv, TypeOK
<1> SUFFICES ASSUME NEW a \in Archives, row'[a] = None
             PROVE  chunk'[a] = NoChunks
  BY DEF NoOrphanRows
<1>1. ASSUME NEW s \in Jobs, PurgeRow(s)
      PROVE  chunk'[a] = NoChunks
  <2>1. job[s].a \in Archives
    BY <1>a, <1>1 DEF PurgeRow, At, TypeInv, JobOK, ArchivePcs
  <2> QED BY <1>a, <1>1, <2>1 DEF PurgeRow, NoOrphanRows
<1>2. ASSUME NEW s \in Workers, InsertChunk(s)
      PROVE  chunk'[a] = NoChunks
  <2>1. row[a] = None /\ chunk[a] = NoChunks
    BY <1>2 DEF InsertChunk, NoOrphanRows
  <2> DEFINE b == job[s].a
             i == job[s].i
             c == InsertLinkArchiveChunk(chunk[b][i], job[s].hash, job[s].size)
  <2>2. chunk' = chunk \/ (row[b] # None /\ chunk' = [chunk EXCEPT ![b][i] = c])
    BY <1>2 DEF InsertChunk
  <2> HIDE DEF c
  <2>3. chunk'[a] = chunk[a]
    BY <1>a, <2>1, <2>2
  <2> QED BY <2>1, <2>3
<1>3. ASSUME UNCHANGED chunk, row[a] = None
      PROVE  chunk'[a] = NoChunks
  BY <1>3 DEF NoOrphanRows
<1>4. ASSUME NEW s \in Workers, Request(s)
      PROVE  UNCHANGED <<row, chunk>>
  BY <1>4 DEF Request, InitRequest, UploadWindow, Finalize, Manifest, Ack, Delete,
              UploadChunk, ConfirmChunk, DownloadChunk
<1>5. ASSUME NEW s \in Workers, Continue(s), ~InsertChunk(s)
      PROVE  UNCHANGED chunk /\ row[a] = None
  <2>1. UNCHANGED chunk
    BY <1>5 DEF Continue, InitQuota, InitStaging, InitInsert, InitTransition, UploadPut,
                Rollback, ConfirmStat, ConfirmExists, FinalizeList, FinalizeMark,
                FinalizeUploaded, FinalizeAvailable, FinalizeTransition, DownloadGet,
                AckTransition, Refresh
  <2>2. CASE UNCHANGED row
    BY <2>1, <2>2
  <2>3. CASE InitInsert(s)
    <3>1. PICK b \in Archives \ used :
            row' = [row EXCEPT ![b] = InsertLinkArchive(job[s].user, job[s].plan, now)]
      BY <2>3 DEF InitInsert
    <3> DEFINE q == InsertLinkArchive(job[s].user, job[s].plan, now)
    <3>2. q # None
      <4>1. job[s].user \in Users /\ job[s].plan \in Plans /\ now \in Nat
        BY <1>a, <2>3 DEF InitInsert, At, TypeInv, TypeOK, JobOK, InitPcs
      <4> QED BY <4>1, FreshRowOK, StoreAssumption
    <3> HIDE DEF q
    <3> QED BY <1>a, <2>1, <3>1, <3>2 DEF q
  <2>4. ASSUME NEW to \in States, NEW from, NEW b,
               row' = [row EXCEPT ![b] = TransitionLinkArchiveState(@, to, from)]
        PROVE  row[a] = None
    <3>1. row[a] # None => TransitionLinkArchiveState(row[a], to, from) # None
      <4>1. ASSUME row[a] # None
            PROVE  row[a] \in LinkArchiveRow /\ [row[a] EXCEPT !.state = to] \in LinkArchiveRow
        BY <1>a, <4>1 DEF LinkArchiveRow
      <4> QED BY <4>1, StoreAssumption DEF TransitionLinkArchiveState
    <3> QED BY <1>a, <2>4, <3>1
  <2>5. CASE InitTransition(s) \/ FinalizeUploaded(s) \/ FinalizeAvailable(s) \/ AckTransition(s)
    BY <2>1, <2>2, <2>4, <2>5 DEF InitTransition, FinalizeUploaded, FinalizeAvailable,
                                  FinalizeTransition, Transition, AckTransition, States,
                                  LinkArchiveActiveStates
  <2>6. CASE FinalizeMark(s)
    <3>1. ASSUME row[a] # None
          PROVE  MarkLinkArchiveFinalized(row[a]) # None
      <4>1. row[a] \in LinkArchiveRow /\ RowOK(row[a])
        BY <1>a, <3>1 DEF Inv, RowsOK
      <4>2. MarkLinkArchiveFinalized(row[a]) \in LinkArchiveRow
        BY <4>1, MarkUpdates DEF Updates
      <4> QED BY <4>2, StoreAssumption
    <3> QED BY <1>a, <2>1, <2>6, <3>1 DEF FinalizeMark
  <2>7. CASE Refresh(s)
    <3>1. ASSUME row[a] # None
          PROVE  RefreshLinkArchiveExpiry(row[a], now) # None
      <4>1. row[a] \in LinkArchiveRow /\ RowOK(row[a]) /\ now \in Nat
        BY <1>a, <3>1 DEF Inv, TypeInv, TypeOK, RowsOK
      <4>2. RefreshLinkArchiveExpiry(row[a], now) \in LinkArchiveRow
        BY <4>1, RefreshUpdates DEF Updates
      <4> QED BY <4>2, StoreAssumption
    <3> QED BY <1>a, <2>1, <2>7, <3>1 DEF Refresh
  <2> QED BY <1>5, <2>2, <2>3, <2>5, <2>6, <2>7, <2>1
    DEF Continue, InitQuota, InitStaging, UploadPut, Rollback, ConfirmStat, ConfirmExists,
        FinalizeList, DownloadGet
<1>6. ASSUME NEW s \in Jobs, PurgeList(s) \/ PurgeObject(s) \/ Abandon(s)
      PROVE  UNCHANGED <<row, chunk>>
  BY <1>6 DEF PurgeList, PurgeObject, Abandon
<1>7. ASSUME (\E b \in Archives, i \in Idx, c \in Contents : PresignedPut(b, i, c))
             \/ RunPurgerTick \/ Tick \/ UNCHANGED vars
      PROVE  UNCHANGED <<row, chunk>>
  BY <1>7 DEF PresignedPut, RunPurgerTick, Tick, vars
<1> QED BY <1>1, <1>2, <1>3, <1>4, <1>5, <1>6, <1>7 DEF Next, Purge

\* The empty tables satisfy ObjectInv.
LEMMA InitObjects == Init => ObjectInv
<1> SUFFICES ASSUME Init PROVE ObjectInv
  OBVIOUS
<1>1. \A s \in Jobs : job[s].pc = "idle"
  BY DEF Init, Idle
<1>2. \A a \in Archives : row[a] = None /\ chunk[a] = NoChunks
  BY DEF Init
<1> QED BY <1>1, <1>2 DEF ObjectInv, InsertsHaveObjects, ChunksHaveObjects, NoOrphanRows

\* Every step preserves ObjectInv.
LEMMA NextObjects ==
  ASSUME Inv, ObjectInv, [Next]_vars
  PROVE  ObjectInv'
<1>a. TypeInv /\ TypeInv' /\ RowsOK
  BY NextInv DEF Inv
<1>b. \A a \in used : row'[a] # None => row[a] # None
  <2>1. \A a \in Archives : RowStep(a)
    BY <1>a, NextRows
  <2>2. used \subseteq Archives
    BY <1>a DEF TypeInv, TypeOK
  <2> QED BY <2>1, <2>2 DEF RowStep
<1>c. ASSUME NEW a \in Archives, NEW i \in Idx, row'[a] # None, ~Purging(a)',
             ~Purging(a) => Held(a, i)
      PROVE  Held(a, i)'
  <2>1. CASE Purging(a)
    BY <1>a, <1>c, <2>1, RemovalEnds
  <2>2. CASE ~Purging(a)
    BY <1>a, <1>c, <2>2, HeldStays
  <2> QED BY <2>1, <2>2
<1>d. ASSUME NEW s \in Jobs, job[s].pc = "insertChunk", NEW a, NEW i, a = job[s].a, i = job[s].i,
             row'[a] # None, ~Purging(a)'
      PROVE  Held(a, i)'
  <2>1. a \in Archives /\ i \in Idx /\ a \in used
    BY <1>a, <1>d DEF TypeInv, JobOK, ArchivePcs, ChunkPcs, Inv, JobsHaveArchives, BoundPcs
  <2>2. ~Purging(a) => Held(a, i)
    BY <1>b, <1>d, <2>1 DEF ObjectInv, InsertsHaveObjects
  <2> QED BY <1>c, <1>d, <2>1, <2>2
<1>1. InsertsHaveObjects'
  <2> SUFFICES ASSUME NEW s \in Jobs, job'[s].pc = "insertChunk", NEW a, NEW i,
                      a = job'[s].a, i = job'[s].i, row'[a] # None, ~Purging(a)'
               PROVE  Held(a, i)'
    BY DEF InsertsHaveObjects, Purging, Held
  <2>1. CASE job'[s] # job[s]
    BY <1>a, <2>1, InsertsAreReady DEF Held
  <2>2. CASE job'[s] = job[s]
    BY <1>d, <2>2
  <2> QED BY <2>1, <2>2
<1>2. ChunksHaveObjects'
  <2> SUFFICES ASSUME NEW a \in Archives, NEW i \in Idx, row'[a] # None,
                      chunk'[a][i] # None, ~Purging(a)'
               PROVE  Held(a, i)'
    BY DEF ChunksHaveObjects
  <2>1. ChunkStep(a)
    BY <1>a, NextChunks
  <2>2. CASE chunk[a][i] # None
    <3>1. row[a] # None
      BY <2>2 DEF ObjectInv, NoOrphanRows, NoChunks
    <3>2. ~Purging(a) => Held(a, i)
      BY <2>2, <3>1 DEF ObjectInv, ChunksHaveObjects
    <3> QED BY <1>c, <3>2
  <2>3. CASE chunk[a][i] = None
    <3>1. PICK s \in Jobs : job[s].pc = "insertChunk" /\ job[s].a = a /\ job[s].i = i
      BY <2>1, <2>3 DEF ChunkStep
    <3> QED BY <1>d, <3>1
  <2> QED BY <2>2, <2>3
<1>3. NoOrphanRows'
  BY RowsGoWithArchive DEF ObjectInv
<1> QED BY <1>1, <1>2, <1>3 DEF ObjectInv

\* Every chunk row a device can reach has its object while no job removes the
\* archive, whatever fails and whoever uploads what: a download answers 404 for
\* a chunk the manifest lists only after a rollback of the same key or a purge
\* that failed midway, and only until the chunk is put again.
THEOREM ChunksAreServed == Spec => []RowsHaveObjects
<1>1. Inv /\ ObjectInv /\ [Next]_vars => ObjectInv'
  BY NextObjects
<1>2. ObjectInv => RowsHaveObjects
  BY DEF ObjectInv, ChunksHaveObjects, RowsHaveObjects, Held, Lookup, Fresh
<1> QED BY <1>1, <1>2, InitObjects, Invariance, PTL DEF Spec

(***************************************************************************)
(* SupersedeSparesActive.  Init lists the abandoned archives by expires_at *)
(* and removes them in later statements.  Expires_at tells when an archive *)
(* was last touched as long as the hard deadline does not cap it, and what *)
(* was abandoned when it was listed stays so until a refresh, which        *)
(* `renewed' records against every init that holds the archive on its      *)
(* list.                                                                   *)
(***************************************************************************)
\* The archive is gone or abandoned, or was refreshed since s listed it.
Spared(a) == row[a] = None \/ Abandoned(a)
SparedBy(s, a) == Spared(a) \/ <<s, a>> \in renewed

\* expires_at is the last touch plus the default expiry, capped.
ExpiresTouched ==
  \A a \in Archives : row[a] # None => row[a].expires = Least(touched[a] + Ttl, row[a].hard)

\* What an init in flight has listed and is removing was abandoned, and no
\* archive is on its list twice.
ToSpare ==
  \A s \in Workers : job[s].kind = "init" =>
    /\ \A a \in job[s].todo : a \in used /\ SparedBy(s, a)
    /\ job[s].pc = "objects" =>
         /\ job[s].a \in used /\ job[s].a \notin job[s].todo
         /\ SparedBy(s, job[s].a)

SupersedeInv == ExpiresTouched /\ ToSpare

\* The expiry and the time of the last touch of a row that stays or appears.
TouchStep(a) ==
  \/ row'[a] = None /\ touched'[a] = touched[a]
  \/ /\ row[a] # None /\ row'[a] # None
     /\ row'[a].expires = row[a].expires /\ row'[a].hard = row[a].hard
     /\ touched'[a] = touched[a]
  \/ /\ row'[a] # None
     /\ row'[a].expires = Least(touched'[a] + Ttl, row'[a].hard)
     /\ a \notin used \/ \E s \in Workers : Refresh(s) /\ job[s].a = a

\* Every step is a TouchStep for every archive.
LEMMA NextTouch ==
  ASSUME TypeInv, RowsOK, [Next]_vars, NEW a \in Archives
  PROVE  TouchStep(a)
<1> USE StoreAssumption
<1>a. row \in [Archives -> LinkArchiveRow \cup {None}] /\ touched \in [Archives -> Nat]
      /\ now \in Nat
  BY DEF TypeInv, TypeOK
<1>b. ASSUME row'[a] = row[a], touched'[a] = touched[a]
      PROVE  TouchStep(a)
  BY <1>b DEF TouchStep
<1>1. ASSUME NEW s \in Workers, InitInsert(s)
      PROVE  TouchStep(a)
  <2>1. PICK b \in Archives \ used :
          /\ row' = [row EXCEPT ![b] = InsertLinkArchive(job[s].user, job[s].plan, now)]
          /\ touched' = [touched EXCEPT ![b] = now]
    BY <1>1 DEF InitInsert
  <2>2. CASE a # b
    BY <1>a, <1>b, <2>1, <2>2
  <2>3. CASE a = b
    <3> DEFINE q == InsertLinkArchive(job[s].user, job[s].plan, now)
    <3>1. job[s].user \in Users /\ job[s].plan \in Plans
      BY <1>1 DEF InitInsert, At, TypeInv, JobOK, InitPcs
    <3>2. q # None
      BY <1>a, <3>1, FreshRowOK
    <3>3. q.expires = now + Ttl /\ q.hard = now + MaxLifetime
      BY DEF InsertLinkArchive
    <3>4. q.expires = Least(now + Ttl, q.hard)
      BY <1>a, <3>3 DEF Least
    <3> HIDE DEF q
    <3>5. row'[a] = q /\ touched'[a] = now /\ a \notin used
      BY <1>a, <2>1, <2>3 DEF q
    <3> QED BY <3>2, <3>4, <3>5 DEF TouchStep
  <2> QED BY <2>2, <2>3
<1>2. ASSUME NEW s \in Workers, Refresh(s)
      PROVE  TouchStep(a)
  <2>1. CASE a # job[s].a \/ row[a] = None
    <3>1. row'[a] = row[a]
      BY <1>a, <1>2, <2>1 DEF Refresh, RefreshLinkArchiveExpiry
    <3>2. touched'[a] = touched[a]
      BY <1>a, <1>2, <2>1 DEF Refresh
    <3> QED BY <1>b, <3>1, <3>2
  <2>2. CASE a = job[s].a /\ row[a] # None
    <3> DEFINE q == RefreshLinkArchiveExpiry(row[a], now)
    <3>1. row[a] \in LinkArchiveRow /\ RowOK(row[a])
      BY <1>a, <2>2 DEF RowsOK
    <3>2. q = [row[a] EXCEPT !.expires = Least(now + Ttl, row[a].hard)]
      BY <2>2 DEF RefreshLinkArchiveExpiry
    <3>3. q.expires = Least(now + Ttl, row[a].hard) /\ q.hard = row[a].hard
      BY <3>1, <3>2 DEF LinkArchiveRow
    <3>4. q # None
      BY <1>a, <3>1, RefreshUpdates DEF Updates
    <3> HIDE DEF q
    <3>5. row'[a] = q /\ touched'[a] = now
      BY <1>a, <1>2, <2>2 DEF Refresh, q
    <3> QED BY <1>2, <2>2, <3>3, <3>4, <3>5 DEF TouchStep
  <2> QED BY <2>1, <2>2
<1>3. ASSUME NEW to \in WrittenStates, NEW from, NEW b, touched' = touched,
             row' = [row EXCEPT ![b] = TransitionLinkArchiveState(@, to, from)]
      PROVE  TouchStep(a)
  <2>1. CASE a # b \/ row[a] = None
    <3>1. row'[a] = row[a]
      BY <1>a, <1>3, <2>1 DEF TransitionLinkArchiveState, MayTransition
    <3> QED BY <1>b, <1>3, <3>1
  <2>2. CASE a = b /\ row[a] # None
    <3> DEFINE q == TransitionLinkArchiveState(row[a], to, from)
    <3>1. row[a] \in LinkArchiveRow
      BY <1>a, <2>2
    <3>2. q \in LinkArchiveRow /\ q.expires = row[a].expires /\ q.hard = row[a].hard
      BY <3>1 DEF TransitionLinkArchiveState, LinkArchiveRow, WrittenStates, States,
                  LinkArchiveActiveStates
    <3> HIDE DEF q
    <3>3. row'[a] = q
      BY <1>a, <1>3, <2>2 DEF q
    <3> QED BY <1>3, <2>2, <3>2, <3>3 DEF TouchStep
  <2> QED BY <2>1, <2>2
<1>4. ASSUME NEW s \in Workers,
             InitTransition(s) \/ FinalizeUploaded(s) \/ FinalizeAvailable(s) \/ AckTransition(s)
      PROVE  TouchStep(a)
  BY <1>b, <1>3, <1>4 DEF InitTransition, FinalizeUploaded, FinalizeAvailable, FinalizeTransition,
                          Transition, AckTransition, WrittenStates
<1>5. ASSUME NEW s \in Workers, FinalizeMark(s)
      PROVE  TouchStep(a)
  <2>1. CASE a # job[s].a \/ row[a] = None
    <3>1. row'[a] = row[a] /\ touched' = touched
      BY <1>a, <1>5, <2>1 DEF FinalizeMark, MarkLinkArchiveFinalized
    <3> QED BY <1>b, <3>1
  <2>2. CASE a = job[s].a /\ row[a] # None
    <3> DEFINE q == MarkLinkArchiveFinalized(row[a])
    <3>1. row[a] \in LinkArchiveRow
      BY <1>a, <2>2
    <3>2. q \in LinkArchiveRow /\ q.expires = row[a].expires /\ q.hard = row[a].hard
      BY <2>2, <3>1 DEF MarkLinkArchiveFinalized, LinkArchiveRow
    <3> HIDE DEF q
    <3>3. row'[a] = q /\ touched' = touched
      BY <1>a, <1>5, <2>2 DEF FinalizeMark, q
    <3> QED BY <2>2, <3>2, <3>3 DEF TouchStep
  <2> QED BY <2>1, <2>2
<1>6. ASSUME NEW s \in Jobs, PurgeRow(s)
      PROVE  TouchStep(a)
  BY <1>a, <1>b, <1>6 DEF PurgeRow, TouchStep
<1>7. ASSUME NEW s \in Workers, Request(s)
      PROVE  UNCHANGED <<row, touched>>
  BY <1>7 DEF Request, InitRequest, UploadWindow, Finalize, Manifest, Ack, Delete,
              UploadChunk, ConfirmChunk, DownloadChunk
<1>8. ASSUME NEW s \in Workers,
              InitQuota(s) \/ InitStaging(s) \/ UploadPut(s) \/ Rollback(s) \/ InsertChunk(s)
              \/ ConfirmStat(s) \/ ConfirmExists(s) \/ FinalizeList(s) \/ DownloadGet(s)
      PROVE  UNCHANGED <<row, touched>>
  BY <1>8 DEF InitQuota, InitStaging, UploadPut, Rollback, InsertChunk, ConfirmStat,
              ConfirmExists, FinalizeList, DownloadGet
<1>9. ASSUME NEW s \in Jobs, PurgeList(s) \/ PurgeObject(s) \/ Abandon(s)
      PROVE  UNCHANGED <<row, touched>>
  BY <1>9 DEF PurgeList, PurgeObject, Abandon
<1>10. ASSUME (\E b \in Archives, i \in Idx, c \in Contents : PresignedPut(b, i, c))
              \/ RunPurgerTick \/ Tick \/ UNCHANGED vars
       PROVE  UNCHANGED <<row, touched>>
  BY <1>10 DEF PresignedPut, RunPurgerTick, Tick, vars
<1> QED
  BY <1>b, <1>1, <1>2, <1>4, <1>5, <1>6, <1>7, <1>8, <1>9, <1>10 DEF Next, Continue, Purge

\* The clock does not go back.
LEMMA ClockGrows ==
  ASSUME TypeInv, [Next]_vars
  PROVE  now \in Nat /\ now' \in Nat /\ now <= now'
<1>a. now \in Nat
  BY DEF TypeInv, TypeOK
<1>1. ASSUME NEW s \in Workers, Request(s)
      PROVE  UNCHANGED now
  BY <1>1 DEF Request, InitRequest, UploadWindow, Finalize, Manifest, Ack, Delete,
              UploadChunk, ConfirmChunk, DownloadChunk
<1>2. ASSUME NEW s \in Workers, Continue(s)
      PROVE  UNCHANGED now
  BY <1>2 DEF Continue, InitQuota, InitStaging, InitInsert, InitTransition, UploadPut, Rollback,
              InsertChunk, ConfirmStat, ConfirmExists, FinalizeList, FinalizeMark,
              FinalizeUploaded, FinalizeAvailable, FinalizeTransition, DownloadGet,
              AckTransition, Refresh
<1>3. ASSUME NEW s \in Jobs, Purge(s) \/ Abandon(s)
      PROVE  UNCHANGED now
  BY <1>3 DEF Purge, PurgeList, PurgeObject, PurgeRow, Abandon
<1>4. ASSUME (\E b \in Archives, i \in Idx, c \in Contents : PresignedPut(b, i, c))
             \/ RunPurgerTick \/ UNCHANGED vars
      PROVE  UNCHANGED now
  BY <1>4 DEF PresignedPut, RunPurgerTick, vars
<1>5. CASE Tick
  BY <1>a, <1>5 DEF Tick
<1> QED BY <1>a, <1>1, <1>2, <1>3, <1>4, <1>5 DEF Next


\* How an init comes to the archives it removes: from its listing, which it
\* only works off.
LEMMA InitJobStep ==
  ASSUME TypeInv, [Next]_vars, NEW s \in Workers, job'[s] # job[s], job'[s].kind = "init"
  PROVE  \/ /\ \E u \in Users :
                 job'[s].todo \subseteq {a \in Archives : Supersedable(row[a], u, now)}
            /\ job'[s].pc # "objects"
            /\ UNCHANGED <<now, row, used, touched>>
         \/ /\ job[s].kind = "init"
            /\ job'[s].todo \subseteq job[s].todo
            /\ job'[s].pc = "objects" =>
                 \/ job'[s].a \in job[s].todo \ job'[s].todo
                 \/ job[s].pc = "objects" /\ job'[s].a = job[s].a /\ ~PurgeRow(s)
<1>a. job \in [Jobs -> Job] /\ s \in Jobs /\ job[s] \in Job /\ None # "init"
  BY LinkArchiveAssumption DEF TypeInv, TypeOK, AllKinds
<1>b. \A pc : Goto(s, pc) => job'[s].pc = pc /\ job'[s].kind = job[s].kind
                             /\ job'[s].todo = job[s].todo
  BY <1>a DEF Goto, Job
<1>c. ~Done(s)
  BY <1>a DEF Done, Idle
<1>d. ASSUME NEW kind, NEW j, Start(s, kind, j)
      PROVE  job'[s] = [j EXCEPT !.kind = kind]
  BY <1>a, <1>d DEF Start
<1>1. ASSUME NEW u \in Users, NEW p \in Plans, InitRequest(s, u, p)
      PROVE  /\ job'[s].todo \subseteq {a \in Archives : Supersedable(row[a], u, now)}
             /\ job'[s].pc # "objects"
             /\ UNCHANGED <<now, row, used, touched>>
  <2>1. PICK stale \in SUBSET {a \in Archives : Supersedable(row[a], u, now)} :
          Start(s, "init", [Idle EXCEPT !.user = u, !.plan = p, !.todo = stale,
                              !.pc = IF stale = {} THEN "count" ELSE "purge"])
    BY <1>1 DEF InitRequest
  <2> DEFINE pc == IF stale = {} THEN "count" ELSE "purge"
             j == [Idle EXCEPT !.user = u, !.plan = p, !.todo = stale, !.pc = pc]
             k == [j EXCEPT !.kind = "init"]
  <2>2. job'[s] = k
    BY <1>d, <2>1
  <2>3. k.todo = stale /\ k.pc \in {"count", "purge"}
    BY DEF Idle
  <2> HIDE DEF k
  <2> QED BY <1>1, <2>2, <2>3 DEF InitRequest
<1>2. ASSUME NEW kind \in AllKinds \ {"init"}, NEW j \in Job, Start(s, kind, j)
      PROVE  FALSE
  <2>1. job'[s] = [j EXCEPT !.kind = kind]
    BY <1>d, <1>2
  <2>2. [j EXCEPT !.kind = kind].kind = kind
    BY DEF Job
  <2> QED BY <1>2, <2>1, <2>2
<1>3. ASSUME NEW a \in Archives,
             UploadWindow(s, a) \/ Finalize(s, a) \/ Manifest(s, a) \/ Ack(s, a) \/ Delete(s, a)
      PROVE  FALSE
  <2>1. PICK pc \in {"refresh", "list", "ack"}, kind \in AllKinds \ {"init"} :
          \/ Start(s, kind, [Idle EXCEPT !.a = a, !.pc = pc])
          \/ Start(s, kind, [Idle EXCEPT !.todo = {a}, !.pc = "purge"])
    BY <1>3 DEF UploadWindow, Finalize, Manifest, Ack, Delete, AllKinds
  <2>2. /\ [Idle EXCEPT !.a = a, !.pc = pc] \in Job
        /\ [Idle EXCEPT !.todo = {a}, !.pc = "purge"] \in Job
    BY DEF Job, Idle, Pcs
  <2> QED BY <1>2, <2>1, <2>2
<1>4. ASSUME NEW a \in Archives, NEW i \in Idx, NEW b \in Contents, NEW h \in Hashes,
             UploadChunk(s, a, i, b, h)
      PROVE  FALSE
  <2>1. [Idle EXCEPT !.a = a, !.i = i, !.body = b, !.hash = h, !.pc = "put"] \in Job
    BY DEF Job, Idle, Pcs
  <2> QED BY <1>2, <1>4, <2>1 DEF UploadChunk, AllKinds
<1>5. ASSUME NEW a \in Archives, NEW i \in Idx, NEW h \in Hashes, NEW n \in Sizes,
             ConfirmChunk(s, a, i, h, n)
      PROVE  FALSE
  <2>1. [Idle EXCEPT !.a = a, !.i = i, !.hash = h, !.size = n,
                     !.pc = IF Backend = "s3" THEN "stat" ELSE "exists"] \in Job
    BY DEF Job, Idle, Pcs
  <2> QED BY <1>2, <1>5, <2>1 DEF ConfirmChunk, AllKinds
<1>6. ASSUME NEW a \in Archives, NEW i \in Idx, DownloadChunk(s, a, i)
      PROVE  FALSE
  <2>1. [Idle EXCEPT !.a = a, !.i = i, !.pc = "get"] \in Job
    BY DEF Job, Idle, Pcs
  <2> QED BY <1>2, <1>6, <2>1 DEF DownloadChunk, AllKinds
<1> DEFINE WorksOff == /\ job[s].kind = "init"
                       /\ job'[s].todo \subseteq job[s].todo
                       /\ job'[s].pc = "objects" =>
                            \/ job'[s].a \in job[s].todo \ job'[s].todo
                            \/ job[s].pc = "objects" /\ job'[s].a = job[s].a /\ ~PurgeRow(s)
<1>7. ASSUME InitQuota(s) \/ InitStaging(s) \/ InitTransition(s) \/ Rollback(s)
             \/ InsertChunk(s) \/ ConfirmStat(s) \/ ConfirmExists(s) \/ FinalizeList(s)
             \/ FinalizeMark(s) \/ FinalizeUploaded(s) \/ FinalizeAvailable(s)
             \/ DownloadGet(s) \/ AckTransition(s) \/ Refresh(s) \/ Abandon(s) \/ PurgeRow(s)
      PROVE  WorksOff
  BY <1>7, <1>b, <1>c
     DEF InitQuota, InitStaging, InitTransition, Rollback, InsertChunk, ConfirmStat,
         ConfirmExists, FinalizeList, FinalizeMark, FinalizeUploaded, FinalizeAvailable,
         FinalizeTransition, DownloadGet, AckTransition, Refresh, Abandon, PurgeRow, AfterPurge
<1>8. ASSUME InitInsert(s)
      PROVE  WorksOff
  <2>1. PICK a \in Archives \ used :
          job' = [job EXCEPT ![s] = [job[s] EXCEPT !.pc = "toUploading", !.a = a]]
    BY <1>8 DEF InitInsert
  <2> QED BY <1>a, <2>1 DEF Job
<1>9. ASSUME UploadPut(s)
      PROVE  WorksOff
  <2> DEFINE pc == IF Sha256(job[s].body) = job[s].hash THEN "insertChunk" ELSE "rollback"
             k == [job[s] EXCEPT !.size = SizeOf[job[s].body], !.pc = pc]
  <2>1. k.pc # "objects" /\ k.kind = job[s].kind /\ k.todo = job[s].todo
    BY <1>a DEF Job
  <2>2. job'[s] = k
    BY <1>a, <1>9 DEF UploadPut
  <2> HIDE DEF k
  <2> QED BY <2>1, <2>2
<1>10. ASSUME PurgeList(s)
       PROVE  WorksOff
  <2>1. PICK a \in job[s].todo, objs \in SUBSET Idx :
          job' = [job EXCEPT ![s] = [job[s] EXCEPT !.pc = "objects", !.a = a,
                                       !.objs = objs, !.todo = job[s].todo \ {a}]]
    BY <1>10 DEF PurgeList
  <2> DEFINE k == [job[s] EXCEPT !.pc = "objects", !.a = a,
                                 !.objs = objs, !.todo = job[s].todo \ {a}]
  <2>2. k.kind = job[s].kind /\ k.a = a /\ k.todo = job[s].todo \ {a}
    BY <1>a DEF Job
  <2>3. job'[s] = k
    BY <1>a, <2>1
  <2> HIDE DEF k
  <2> QED BY <2>2, <2>3
<1>11. ASSUME PurgeObject(s)
       PROVE  WorksOff
  <2>1. PICK i \in job[s].objs : job' = [job EXCEPT ![s].objs = job[s].objs \ {i}]
    BY <1>11 DEF PurgeObject
  <2>2. ~PurgeRow(s)
    BY <1>11 DEF PurgeObject, PurgeRow
  <2> QED BY <1>a, <1>11, <2>1, <2>2 DEF Job, PurgeObject, At
<1>12. StepOf(s) /\ s # Purger
  BY OwnStep, LinkArchiveAssumption
<1> QED
  BY <1>1, <1>3, <1>4, <1>5, <1>6, <1>7, <1>8, <1>9, <1>10, <1>11, <1>12
     DEF StepOf, Request, Continue, Purge

\* An init forgets a refresh only with the archive it concerns, or ends.
LEMMA RenewedStay ==
  ASSUME TypeInv, [Next]_vars, NEW s \in Workers, NEW a, <<s, a>> \in renewed,
         <<s, a>> \notin renewed'
  PROVE  job'[s] = Idle \/ (PurgeRow(s) /\ job[s].a = a)
<1>a. job \in [Jobs -> Job] /\ a \in Archives
  BY DEF TypeInv, TypeOK
<1>1. ASSUME NEW t \in Workers, Request(t)
      PROVE  UNCHANGED renewed
  BY <1>1 DEF Request, InitRequest, UploadWindow, Finalize, Manifest, Ack, Delete,
              UploadChunk, ConfirmChunk, DownloadChunk
<1>2. ASSUME NEW t \in Workers, Continue(t)
      PROVE  renewed \subseteq renewed'
  BY <1>2 DEF Continue, InitQuota, InitStaging, InitInsert, InitTransition, UploadPut, Rollback,
              InsertChunk, ConfirmStat, ConfirmExists, FinalizeList, FinalizeMark,
              FinalizeUploaded, FinalizeAvailable, FinalizeTransition, DownloadGet,
              AckTransition, Refresh
<1>3. ASSUME NEW t \in Jobs, PurgeList(t) \/ PurgeObject(t)
      PROVE  UNCHANGED renewed
  BY <1>3 DEF PurgeList, PurgeObject
<1>4. ASSUME NEW t \in Jobs, PurgeRow(t)
      PROVE  t = s /\ job[t].a = a
  BY <1>4 DEF PurgeRow
<1>5. ASSUME NEW t \in Jobs, Abandon(t)
      PROVE  job'[s] = Idle
  <2>1. t = s
    BY <1>5 DEF Abandon
  <2> QED BY <1>a, <1>5, <2>1 DEF Abandon, Done
<1>6. ASSUME (\E b \in Archives, i \in Idx, c \in Contents : PresignedPut(b, i, c))
             \/ RunPurgerTick \/ Tick \/ UNCHANGED vars
      PROVE  UNCHANGED renewed
  BY <1>6 DEF PresignedPut, RunPurgerTick, Tick, vars
<1> QED BY <1>1, <1>2, <1>3, <1>4, <1>5, <1>6 DEF Next, Purge

\* Every step preserves SupersedeInv.
LEMMA NextSupersede ==
  ASSUME Inv, SupersedeInv, [Next]_vars
  PROVE  SupersedeInv'
<1>a. TypeInv /\ TypeInv' /\ RowsOK
  BY NextInv DEF Inv
<1>b. row \in [Archives -> LinkArchiveRow \cup {None}] /\ touched \in [Archives -> Nat]
      /\ used \subseteq Archives /\ used \subseteq used'
  <2>1. Archives = {} \/ used \subseteq used'
    BY <1>a, NextRows
  <2> QED BY <1>a, <2>1 DEF TypeInv, TypeOK
<1>c. now \in Nat /\ now' \in Nat /\ now <= now'
  BY <1>a, ClockGrows
<1>d. \A a \in Archives : TouchStep(a) /\ RowStep(a)
  BY <1>a, NextTouch, NextRows
<1>1. ExpiresTouched'
  BY <1>d DEF ExpiresTouched, SupersedeInv, TouchStep
<1>2. ASSUME NEW s \in Workers, job[s].kind = "init", job'[s].kind = "init", NEW a,
             \/ a \in job[s].todo
             \/ job[s].pc = "objects" /\ a = job[s].a /\ ~PurgeRow(s)
      PROVE  a \in used' /\ SparedBy(s, a)'
  <2>1. a \in used /\ a \in Archives /\ SparedBy(s, a) /\ ~(PurgeRow(s) /\ job[s].a = a)
    BY <1>b, <1>2 DEF SupersedeInv, ToSpare, PurgeRow, At
  <2>2. CASE <<s, a>> \in renewed
    <3>1. job'[s] # Idle
      BY <1>2, LinkArchiveAssumption DEF Idle, AllKinds
    <3>2. <<s, a>> \in renewed'
      BY <1>a, <2>1, <2>2, <3>1, RenewedStay
    <3> QED BY <1>b, <2>1, <3>2 DEF SparedBy
  <2>3. CASE row'[a] = None
    BY <1>b, <2>1, <2>3 DEF SparedBy, Spared
  <2>4. ASSUME NEW t \in Workers, Refresh(t), job[t].a = a
        PROVE  <<s, a>> \in renewed'
    BY <1>2, <2>4 DEF Refresh, Listed, At
  <2>5. CASE /\ Spared(a) /\ row'[a] # None
             /\ ~\E t \in Workers : Refresh(t) /\ job[t].a = a
    <3>1. row[a] # None /\ row'[a].hard = row[a].hard /\ touched'[a] = touched[a]
          /\ touched[a] \in Nat
      BY <1>b, <1>d, <2>1, <2>5 DEF TouchStep, RowStep
    <3>2. touched[a] + Grace <= now \/ touched[a] + Ttl > row[a].hard
      BY <2>5, <3>1 DEF Spared, Abandoned
    <3>3. touched'[a] + Grace <= now' \/ touched'[a] + Ttl > row'[a].hard
      BY <1>c, <3>1, <3>2, StoreAssumption
    <3> QED BY <1>b, <2>1, <3>3 DEF SparedBy, Spared, Abandoned
  <2> QED BY <1>b, <2>1, <2>2, <2>3, <2>4, <2>5 DEF SparedBy
<1>3. ToSpare'
  <2> SUFFICES ASSUME NEW s \in Workers, job'[s].kind = "init"
               PROVE  /\ \A a \in job'[s].todo : a \in used' /\ SparedBy(s, a)'
                      /\ job'[s].pc = "objects" => \A a : a = job'[s].a =>
                           a \in used' /\ a \notin job'[s].todo /\ SparedBy(s, a)'
    BY DEF ToSpare, SparedBy, Spared, Abandoned
  <2>1. CASE /\ job[s].kind = "init"
             /\ job'[s].todo \subseteq job[s].todo
             /\ job'[s].pc = "objects" =>
                  \/ job'[s].a \in job[s].todo \ job'[s].todo
                  \/ job[s].pc = "objects" /\ job'[s].a = job[s].a /\ ~PurgeRow(s)
    <3>1. \A a \in job'[s].todo : a \in used' /\ SparedBy(s, a)'
      BY <1>2, <2>1
    <3>2. ASSUME job'[s].pc = "objects", NEW a, a = job'[s].a
          PROVE  a \in used' /\ a \notin job'[s].todo /\ SparedBy(s, a)'
      <4>1. a \notin job'[s].todo
        BY <2>1, <3>2 DEF SupersedeInv, ToSpare
      <4> QED BY <1>2, <2>1, <3>2, <4>1
    <3> QED BY <3>1, <3>2
  <2>2. CASE /\ \E u \in Users :
                  job'[s].todo \subseteq {a \in Archives : Supersedable(row[a], u, now)}
             /\ job'[s].pc # "objects"
             /\ UNCHANGED <<now, row, used, touched>>
    <3>1. ASSUME NEW a \in job'[s].todo
          PROVE  a \in used /\ Spared(a)
      <4>1. PICK u \in Users : a \in Archives /\ Supersedable(row[a], u, now)
        BY <2>2, <3>1
      <4>2. row[a] # None /\ row[a] \in LinkArchiveRow /\ row[a].expires < now + Ttl - Grace
        BY <1>b, <4>1 DEF Supersedable, Active
      <4>3. row[a].expires = Least(touched[a] + Ttl, row[a].hard)
        BY <4>1, <4>2 DEF SupersedeInv, ExpiresTouched
      <4> DEFINE x == row[a].hard
                 y == row[a].expires
                 z == touched[a]
      <4>4. x \in Nat /\ y \in Nat /\ z \in Nat /\ y < now + Ttl - Grace /\ y = Least(z + Ttl, x)
        BY <1>b, <4>1, <4>2, <4>3 DEF LinkArchiveRow
      <4> HIDE DEF x, y, z
      <4>5. z + Grace <= now \/ z + Ttl > x
        BY <1>c, <4>4, StoreAssumption DEF Least
      <4> QED BY <1>a, <4>1, <4>2, <4>5 DEF x, z, Spared, Abandoned, RowsOK
    <3> QED BY <2>2, <3>1 DEF SparedBy, Spared, Abandoned
  <2>3. CASE job'[s] = job[s]
    <3>1. ~PurgeRow(s)
      <4>1. job \in [Jobs -> Job] /\ s \in Jobs
        BY <1>a DEF TypeInv, TypeOK
      <4>2. PurgeRow(s) => job[s].pc = "objects" /\ job'[s].pc # "objects"
        BY <4>1 DEF PurgeRow, AfterPurge, Goto, Done, Idle, At, Job
      <4> QED BY <2>3, <4>2
    <3>2. job'[s].pc = "objects" => job[s].pc = "objects" /\ job'[s].a = job[s].a
      BY <2>3
    <3> QED BY <2>1, <2>3, <3>1, <3>2
  <2> QED BY <1>a, <2>1, <2>2, <2>3, InitJobStep
<1> QED BY <1>1, <1>3 DEF SupersedeInv

\* An init removes an archive only if nobody touched it within the grace
\* window, it is near its hard deadline, or it was refreshed after the init had
\* listed it, whatever other requests, the purger and faults do meanwhile
\* (supersedeAbandonedArchives).
THEOREM SupersedeSpares == Spec => SupersedeSparesActive
<1>1. Init => SupersedeInv
  <2> SUFFICES ASSUME Init PROVE SupersedeInv
    OBVIOUS
  <2>1. \A a \in Archives : row[a] = None
    BY DEF Init
  <2>2. \A s \in Jobs : job[s].kind # "init"
    BY LinkArchiveAssumption DEF Init, Idle, AllKinds
  <2> QED BY <2>1, <2>2 DEF SupersedeInv, ExpiresTouched, ToSpare
<1>2. Inv /\ SupersedeInv /\ [Next]_vars => SupersedeInv'
  BY NextSupersede
<1>3. ASSUME SupersedeInv, [Next]_vars
      PROVE  \A s \in Workers, a \in Archives :
               Supersedes(s, a) => Abandoned(a) \/ <<s, a>> \in renewed
  BY <1>3 DEF Supersedes, SupersedeInv, ToSpare, SparedBy, Spared
<1> QED BY <1>1, <1>2, <1>3, Invariance, PTL DEF Spec, SupersedeSparesActive

(***************************************************************************)
(* Sums over finite sets.  Total(f, S) is the sum of f over S, defined     *)
(* without recursion as the number of pairs of an element i of S and a     *)
(* number from 1 to f[i], so that facts about cardinalities give facts     *)
(* about sums.  SumIsTotal shows that the iterated sum MapThenSumSet is    *)
(* this number: the smallest set on which they differed would have an      *)
(* element whose removal leaves them different.                            *)
(***************************************************************************)
Units(f, S) == UNION {{i} \X (1 .. f[i]) : i \in S}
Total(f, S) == Cardinality(Units(f, S))

\* MapThenSumSet with its operators filled in.
Pick(s) == CHOOSE x \in s : TRUE
IterOf(f, S) == CHOOSE g : g = [s \in SUBSET S |-> IF s = {} THEN 0 ELSE f[Pick(s)] + g[s \ {Pick(s)}]]
Sum(f, S) == IterOf(f, S)[S]

\* A set of numbers has a smallest one.
LEMMA NatMinimum ==
  ASSUME NEW T \in SUBSET Nat, T # {}
  PROVE  \E m \in T : \A n \in T : m <= n
<1>1. \E m \in T : \A n \in T : ~ (<<n, m>> \in OpToRel(<, Nat))
  BY NatLessThanWellFounded, WFMin
<1>2. \A m, n \in T : ~ (<<n, m>> \in OpToRel(<, Nat)) => m <= n
  BY DEF OpToRel
<1> QED
  BY <1>1, <1>2

\* There are n numbers from 1 to n.
LEMMA IntervalCount ==
  \A n \in Nat : IsFiniteSet(1 .. n) /\ Cardinality(1 .. n) = n
<1> SUFFICES ASSUME NEW n \in Nat PROVE IsFiniteSet(1 .. n) /\ Cardinality(1 .. n) = n
  OBVIOUS
<1>1. IsFiniteSet(1 .. n) /\ Cardinality(1 .. n) = IF 1 > n THEN 0 ELSE n - 1 + 1
  BY FS_Interval
<1> QED
  BY <1>1

\* A sum of numbers over a finite set is a number.
LEMMA UnitsFinite ==
  ASSUME NEW S, IsFiniteSet(S), NEW f, \A i \in S : f[i] \in Nat
  PROVE  IsFiniteSet(Units(f, S)) /\ Total(f, S) \in Nat
<1> DEFINE slice(i) == {i} \X (1 .. f[i])
<1> DEFINE h == [i \in S |-> slice(i)]
<1> DEFINE slices == {slice(i) : i \in S}
<1>1. ASSUME NEW i \in S PROVE IsFiniteSet(slice(i))
  <2>1. IsFiniteSet({i}) /\ IsFiniteSet(1 .. f[i])
    BY FS_Singleton, IntervalCount
  <2> QED
    BY <2>1, FS_Product
<1>2. h \in Surjection(S, slices)
  BY DEF Surjection
<1>3. IsFiniteSet(slices)
  <2> HIDE DEF h, slices
  <2> QED BY <1>2, FS_Surjection
<1>4. \A t \in slices : IsFiniteSet(t)
  BY <1>1
<1>5. IsFiniteSet(UNION slices)
  <2> HIDE DEF slices
  <2> QED BY <1>3, <1>4, FS_UNION
<1>6. IsFiniteSet(Units(f, S))
  BY <1>5 DEF Units
<1> QED
  BY <1>6, FS_CardinalityType DEF Total

\* The empty sum is zero.
LEMMA TotalEmpty == \A f : Total(f, {}) = 0
<1>1. \A f : Units(f, {}) = {}
  BY DEF Units
<1> QED
  BY <1>1, FS_EmptySet DEF Total

\* The sum over one element.
LEMMA TotalOne ==
  ASSUME NEW f, NEW i, f[i] \in Nat
  PROVE  Total(f, {i}) = f[i]
<1>1. Units(f, {i}) = {i} \X (1 .. f[i])
  BY DEF Units
<1>2. IsFiniteSet({i}) /\ Cardinality({i}) = 1
  BY FS_Singleton
<1>3. IsFiniteSet(1 .. f[i]) /\ Cardinality(1 .. f[i]) = f[i]
  BY IntervalCount
<1>4. Cardinality({i} \X (1 .. f[i])) = 1 * f[i]
  <2>1. Cardinality({i} \X (1 .. f[i])) = Cardinality({i}) * Cardinality(1 .. f[i])
    BY <1>2, <1>3, FS_Product, Zenon
  <2> QED BY <1>2, <1>3, <2>1, Zenon
<1>5. Total(f, {i}) = 1 * f[i]
  <2>1. Total(f, {i}) = Cardinality(Units(f, {i}))
    BY DEF Total
  <2> QED BY <1>1, <1>4, <2>1
<1> DEFINE k == f[i]
<1>6. k \in Nat /\ Total(f, {i}) = 1 * k
  BY <1>5
<1>7. Total(f, {i}) = k
  <2> HIDE DEF k
  <2> QED BY <1>6
<1> QED
  BY <1>7

\* The sum over a set is the sum over a part and over the rest.
LEMMA TotalSplit ==
  ASSUME NEW S, IsFiniteSet(S), NEW T \in SUBSET S, NEW f, \A i \in S : f[i] \in Nat
  PROVE  /\ Total(f, S) = Total(f, T) + Total(f, S \ T)
         /\ Total(f, S) \in Nat /\ Total(f, T) \in Nat /\ Total(f, S \ T) \in Nat
         /\ Total(f, T) <= Total(f, S)
<1>1. IsFiniteSet(T) /\ IsFiniteSet(S \ T)
  BY FS_Subset, FS_Difference
<1>2. /\ IsFiniteSet(Units(f, T)) /\ Total(f, T) \in Nat
      /\ IsFiniteSet(Units(f, S \ T)) /\ Total(f, S \ T) \in Nat /\ Total(f, S) \in Nat
  BY <1>1, UnitsFinite
<1>3. Units(f, S) = Units(f, T) \cup Units(f, S \ T)
  BY DEF Units
<1>4. Units(f, T) \cap Units(f, S \ T) = {}
  BY DEF Units
<1>5. Cardinality(Units(f, S)) =
        Cardinality(Units(f, T)) + Cardinality(Units(f, S \ T)) - Cardinality({})
  BY <1>2, <1>3, <1>4, FS_Union
<1>6. Total(f, S) = Total(f, T) + Total(f, S \ T)
  BY <1>2, <1>5, FS_EmptySet DEF Total
<1> QED
  BY <1>2, <1>6

\* A sum depends on the values in its set only.
LEMMA TotalSame ==
  ASSUME NEW S, NEW f, NEW h, \A i \in S : f[i] = h[i]
  PROVE  Total(f, S) = Total(h, S)
<1>1. Units(f, S) = Units(h, S)
  BY DEF Units
<1> QED
  BY <1>1 DEF Total

\* The iterated sum is the total.
LEMMA SumIsTotal ==
  ASSUME NEW S, IsFiniteSet(S), NEW f, \A i \in S : f[i] \in Nat
  PROVE  Sum(f, S) = Total(f, S)
<1> DEFINE body(g, s) == IF s = {} THEN 0 ELSE f[Pick(s)] + g[s \ {Pick(s)}]
<1> DEFINE tot == [s \in SUBSET S |-> Total(f, s)]
<1> DEFINE iter == IterOf(f, S)
<1>1. ASSUME NEW s \in SUBSET S, s # {}
      PROVE  /\ Pick(s) \in s /\ IsFiniteSet(s)
             /\ Total(f, s) = f[Pick(s)] + Total(f, s \ {Pick(s)})
  <2>1. Pick(s) \in s
    BY <1>1 DEF Pick
  <2>2. IsFiniteSet(s)
    BY FS_Subset
  <2>3. Total(f, s) = Total(f, {Pick(s)}) + Total(f, s \ {Pick(s)})
    BY <2>1, <2>2, TotalSplit
  <2>4. Total(f, {Pick(s)}) = f[Pick(s)]
    BY <2>1, TotalOne
  <2> QED
    BY <2>1, <2>2, <2>3, <2>4
<1>2. \A s \in SUBSET S : tot[s] = body(tot, s)
  <2> SUFFICES ASSUME NEW s \in SUBSET S PROVE tot[s] = body(tot, s)
    OBVIOUS
  <2>1. CASE s = {}
    BY <2>1, TotalEmpty
  <2>2. CASE s # {}
    BY <2>2, <1>1
  <2> QED
    BY <2>1, <2>2
<1>3. tot = [s \in SUBSET S |-> IF s = {} THEN 0 ELSE f[Pick(s)] + tot[s \ {Pick(s)}]]
  BY <1>2
<1>4. iter = [s \in SUBSET S |-> IF s = {} THEN 0 ELSE f[Pick(s)] + iter[s \ {Pick(s)}]]
  <2> HIDE DEF tot
  <2> QED BY <1>3, Zenon DEF IterOf
<1>5. \A s \in SUBSET S : iter[s] = body(iter, s)
  <2> HIDE DEF iter
  <2> QED BY <1>4
<1> HIDE DEF iter
<1> DEFINE bad == {s \in SUBSET S : iter[s] # Total(f, s)}
<1>6. ASSUME bad # {} PROVE FALSE
  <2> DEFINE sizes == {Cardinality(s) : s \in bad}
  <2>1. sizes \in SUBSET Nat /\ sizes # {}
    BY <1>6, FS_Subset, FS_CardinalityType
  <2>2. PICK m \in sizes : \A n \in sizes : m <= n
    <3> HIDE DEF sizes
    <3> QED BY <2>1, NatMinimum
  <2>3. PICK s \in bad : Cardinality(s) = m
    BY <2>2
  <2>4. s # {}
    BY <2>3, <1>5, TotalEmpty
  <2>5. IsFiniteSet(s) /\ Pick(s) \in s /\ Total(f, s) = f[Pick(s)] + Total(f, s \ {Pick(s)})
    BY <1>1, <2>3, <2>4
  <2>6. Cardinality(s \ {Pick(s)}) = Cardinality(s) - 1 /\ Cardinality(s) \in Nat
    BY <2>5, FS_RemoveElement, FS_CardinalityType
  <2>7. s \ {Pick(s)} \notin bad
    BY <2>2, <2>3, <2>6
  <2>8. iter[s \ {Pick(s)}] = Total(f, s \ {Pick(s)})
    BY <2>3, <2>7
  <2>9. iter[s] = Total(f, s)
    BY <1>5, <2>3, <2>4, <2>5, <2>8
  <2> QED
    BY <2>3, <2>9
<1>7. iter[S] = Total(f, S)
  BY <1>6
<1> QED
  BY <1>7 DEF Sum, iter

\* A larger set weighs no less.
LEMMA TotalGrows ==
  ASSUME NEW X, IsFiniteSet(X), NEW Y \in SUBSET X, NEW f, \A i \in X : f[i] \in Nat
  PROVE  Total(f, Y) <= Total(f, X) /\ Total(f, X) \in Nat /\ Total(f, Y) \in Nat
BY TotalSplit

(***************************************************************************)
(* AdmissionHeld.  Init counts the rows, then sums their bytes, then       *)
(* inserts, and other inits may insert in between.  The invariants count   *)
(* the inits that have passed a check along with the rows: the passed ones *)
(* may bring their user, or the staging area, over the limit, by at most   *)
(* the inits that are not the one the check has just admitted.  An insert  *)
(* moves its row from one side of the sum to the other, no other statement *)
(* makes an archive active again or changes what it declared, and an init  *)
(* that passes a check finds the rows below the limit and at most all the  *)
(* other workers passed.                                                   *)
(***************************************************************************)
ActiveOf(u) == {a \in Archives : Active(row[a]) /\ row[a].user = u}
Passed(u) == {s \in Workers : job[s].pc \in {"sum", "insert"} /\ job[s].user = u}

QuotaInv == \A u \in Users :
  CountActive(u) + Cardinality(Passed(u)) <= UserQuota + Overtaking

ActiveArchives == {a \in Archives : Active(row[a])}
Declared == [a \in Archives |-> row[a].plan.bytes]
Inserting == {s \in Workers : job[s].pc = "insert"}
Asked == [s \in Workers |-> job[s].plan.bytes]
Largest(p) == \A q \in Plans : q.bytes <= p.bytes

StagingInv == \A p \in Plans : Largest(p) =>
  Total(Declared, ActiveArchives) + Total(Asked, Inserting) <= StagingCap + Overtaking * p.bytes

\* The number of active archives is a number, and one that follows the set.
LEMMA CountedBy ==
  \A S \in SUBSET Archives, T \in SUBSET Archives :
    /\ Cardinality(S) \in Nat
    /\ S \subseteq T => Cardinality(S) <= Cardinality(T)
    /\ \A a \in Archives : S \subseteq T \cup {a} => Cardinality(S) <= Cardinality(T) + 1
<1> SUFFICES ASSUME NEW S \in SUBSET Archives, NEW T \in SUBSET Archives
             PROVE  /\ Cardinality(S) \in Nat
                    /\ S \subseteq T => Cardinality(S) <= Cardinality(T)
                    /\ \A a \in Archives : S \subseteq T \cup {a} =>
                         Cardinality(S) <= Cardinality(T) + 1
  OBVIOUS
<1>1. IsFiniteSet(S) /\ IsFiniteSet(T)
  BY FS_Subset, LinkArchiveAssumption
<1>2. Cardinality(S) \in Nat /\ Cardinality(T) \in Nat
  BY <1>1, FS_CardinalityType
<1>3. S \subseteq T => Cardinality(S) <= Cardinality(T)
  BY <1>1, FS_Subset
<1>4. ASSUME NEW a \in Archives, S \subseteq T \cup {a}
      PROVE  Cardinality(S) <= Cardinality(T) + 1
  <2>1. IsFiniteSet(T \cup {a}) /\ (Cardinality(T \cup {a}) = Cardinality(T)
                                    \/ Cardinality(T \cup {a}) = Cardinality(T) + 1)
    BY <1>1, FS_AddElement
  <2>2. Cardinality(S) <= Cardinality(T \cup {a})
    BY <1>4, <2>1, FS_Subset
  <2> QED BY <1>2, <2>1, <2>2
<1> QED BY <1>2, <1>3, <1>4

\* Only the insert of an init hands out a UUID.
LEMMA UsedBy ==
  ASSUME [Next]_vars, \A s \in Workers : ~InitInsert(s)
  PROVE  used' = used
<1>1. ASSUME NEW s \in Workers, Request(s)
      PROVE  used' = used
  BY <1>1 DEF Request, InitRequest, UploadWindow, Finalize, Manifest, Ack, Delete,
              UploadChunk, ConfirmChunk, DownloadChunk
<1>2. ASSUME NEW s \in Workers, Continue(s)
      PROVE  used' = used
  BY <1>2 DEF Continue, InitQuota, InitStaging, InitTransition, UploadPut, Rollback, InsertChunk,
              ConfirmStat, ConfirmExists, FinalizeList, FinalizeMark, FinalizeUploaded,
              FinalizeAvailable, FinalizeTransition, DownloadGet, AckTransition, Refresh
<1>3. ASSUME NEW s \in Jobs, Purge(s) \/ Abandon(s)
      PROVE  used' = used
  BY <1>3 DEF Purge, PurgeList, PurgeObject, PurgeRow, Abandon
<1>4. ASSUME (\E b \in Archives, i \in Idx, c \in Contents : PresignedPut(b, i, c))
             \/ RunPurgerTick \/ Tick \/ UNCHANGED vars
      PROVE  used' = used
  BY <1>4 DEF PresignedPut, RunPurgerTick, Tick, vars
<1> QED BY <1>1, <1>2, <1>3, <1>4 DEF Next

\* Of the workers, all but one can overtake.
LEMMA Overtakers ==
  /\ Overtaking \in Nat /\ Cardinality(Workers) = Overtaking + 1
  /\ \A s \in Workers : IsFiniteSet(Workers \ {s}) /\ Cardinality(Workers \ {s}) = Overtaking
<1>1. Cardinality(Workers) \in Nat /\ Cardinality(Workers) # 0
  BY LinkArchiveAssumption, FS_CardinalityType, FS_EmptySet
<1>2. \A s \in Workers : IsFiniteSet(Workers \ {s})
                         /\ Cardinality(Workers \ {s}) = Cardinality(Workers) - 1
  BY LinkArchiveAssumption, FS_RemoveElement
<1> QED BY <1>1, <1>2 DEF Overtaking

\* A sum of numbers up to n over a part of Y is at most n for each of Y.
LEMMA TotalBounded ==
  ASSUME NEW Y, IsFiniteSet(Y), NEW X \in SUBSET Y, NEW n \in Nat, NEW f,
         \A i \in X : f[i] \in Nat /\ f[i] <= n
  PROVE  Total(f, X) \in Nat /\ Total(f, X) <= Cardinality(Y) * n
<1>1. IsFiniteSet(1 .. n) /\ Cardinality(1 .. n) = n
  BY IntervalCount
<1>2. IsFiniteSet(Y \X (1 .. n)) /\ Cardinality(Y \X (1 .. n)) = Cardinality(Y) * Cardinality(1 .. n)
  BY <1>1, FS_Product
<1>3. Units(f, X) \subseteq Y \X (1 .. n)
  BY DEF Units
<1>4. Cardinality(Units(f, X)) <= Cardinality(Y \X (1 .. n))
  BY <1>2, <1>3, FS_Subset
<1>5. IsFiniteSet(X)
  BY FS_Subset
<1>6. Total(f, X) \in Nat
  BY <1>5, UnitsFinite
<1> QED BY <1>1, <1>2, <1>4, <1>6, Zenon DEF Total

\* Where the staging check's sum comes from.
LEMMA ActiveSum ==
  SumActiveBytes = Sum([a \in ActiveArchives |-> row[a].plan.bytes], ActiveArchives)
BY Zenon DEF SumActiveBytes, ActiveArchives, MapThenSumSet, MapThenFoldSet, Sum, IterOf, Pick

\* The staging check's sum is the total of what the active archives declare.
LEMMA StagedTotal ==
  TypeInv => /\ SumActiveBytes = Total(Declared, ActiveArchives)
             /\ Total(Declared, ActiveArchives) \in Nat
             /\ \A a \in ActiveArchives : Declared[a] = row[a].plan.bytes /\ Declared[a] \in Nat
             /\ IsFiniteSet(ActiveArchives) /\ ActiveArchives \subseteq Archives
<1> SUFFICES ASSUME TypeInv
             PROVE  /\ SumActiveBytes = Total(Declared, ActiveArchives)
                    /\ Total(Declared, ActiveArchives) \in Nat
                    /\ \A a \in ActiveArchives : Declared[a] = row[a].plan.bytes /\ Declared[a] \in Nat
                    /\ IsFiniteSet(ActiveArchives) /\ ActiveArchives \subseteq Archives
  OBVIOUS
<1> DEFINE S == ActiveArchives
           h == [a \in S |-> row[a].plan.bytes]
<1>1. \A a \in S : row[a] \in LinkArchiveRow /\ a \in Archives
  BY DEF TypeInv, TypeOK, ActiveArchives, Active
<1>2. \A a \in S : row[a].plan.bytes \in Nat
  BY <1>1, StoreAssumption DEF LinkArchiveRow
<1>3. \A a \in S : /\ h[a] = row[a].plan.bytes /\ Declared[a] = row[a].plan.bytes
                   /\ h[a] = Declared[a] /\ h[a] \in Nat /\ Declared[a] \in Nat
  BY <1>1, <1>2 DEF Declared
<1>4. S \subseteq Archives /\ IsFiniteSet(S)
  BY <1>1, LinkArchiveAssumption, FS_Subset
<1>5. SumActiveBytes = Sum(h, S)
  BY ActiveSum
<1> HIDE DEF h
<1>6. Sum(h, S) = Total(h, S) /\ Total(h, S) = Total(Declared, S)
  BY <1>3, <1>4, SumIsTotal, TotalSame
<1>7. Total(Declared, S) \in Nat
  BY <1>3, <1>4, UnitsFinite
<1> QED BY <1>3, <1>4, <1>5, <1>6, <1>7

\* What the inits about to insert ask for.
LEMMA AskedNat ==
  TypeInv => /\ \A s \in Inserting : Asked[s] = job[s].plan.bytes /\ Asked[s] \in Nat
                                     /\ job[s].plan \in Plans
             /\ IsFiniteSet(Inserting) /\ Inserting \subseteq Workers
             /\ Total(Asked, Inserting) \in Nat
<1> SUFFICES ASSUME TypeInv
             PROVE  /\ \A s \in Inserting : Asked[s] = job[s].plan.bytes /\ Asked[s] \in Nat
                                            /\ job[s].plan \in Plans
                    /\ IsFiniteSet(Inserting) /\ Inserting \subseteq Workers
                    /\ Total(Asked, Inserting) \in Nat
  OBVIOUS
<1>1. \A s \in Inserting : s \in Workers /\ job[s].plan \in Plans
  BY DEF TypeInv, JobOK, Inserting, InitPcs
<1>2. \A s \in Inserting : Asked[s] = job[s].plan.bytes /\ Asked[s] \in Nat
  BY <1>1, StoreAssumption DEF Asked
<1>3. IsFiniteSet(Inserting) /\ Inserting \subseteq Workers
  BY <1>1, LinkArchiveAssumption, FS_Subset
<1>4. Total(Asked, Inserting) \in Nat
  BY <1>2, <1>3, UnitsFinite
<1> QED BY <1>1, <1>2, <1>3, <1>4

\* A statement other than the insert makes no archive active, and leaves what
\* an active archive declares and whose it is.
LEMMA ActiveShrinks ==
  ASSUME TypeInv, RowsOK, [Next]_vars, \A s \in Workers : ~InitInsert(s),
         NEW a \in Archives, Active(row'[a])
  PROVE  Active(row[a]) /\ row'[a].user = row[a].user /\ row'[a].plan = row[a].plan
<1>1. row[a] # None /\ Updates(row[a], row'[a]) /\ RowOK(row[a])
  BY NextRows, UsedBy DEF RowStep, Active, RowsOK
<1>2. Rank(row[a].state) <= Rank(row'[a].state) /\ row[a].state \in WrittenStates
      /\ row'[a].state \in WrittenStates
  BY <1>1 DEF Updates, RowOK
<1>3. row[a].state \in LinkArchiveActiveStates
  BY <1>2 DEF Active, WrittenStates, LinkArchiveActiveStates, Rank
<1> QED BY <1>1, <1>3 DEF Active, Updates

\* An insert adds one row, with the user and the plan of its job.
LEMMA Inserts ==
  ASSUME TypeInv, RowsOK, NEW s \in Workers, InitInsert(s)
  PROVE  \E b \in Archives :
           /\ row[b] = None /\ row'[b] # None
           /\ row'[b].user = job[s].user /\ row'[b].plan = job[s].plan
           /\ \A a \in Archives : a # b => row'[a] = row[a]
           /\ job[s].pc = "insert" /\ job'[s].pc = "toUploading"
           /\ \A t \in Workers : t # s => job'[t] = job[t]
<1>a. row \in [Archives -> LinkArchiveRow \cup {None}] /\ job \in [Jobs -> Job]
      /\ job[s].pc = "insert" /\ job[s].user \in Users /\ job[s].plan \in Plans
  BY DEF TypeInv, TypeOK, JobOK, InitPcs, InitInsert, At
<1>1. PICK b \in Archives \ used :
        /\ row' = [row EXCEPT ![b] = InsertLinkArchive(job[s].user, job[s].plan, now)]
        /\ job' = [job EXCEPT ![s] = [job[s] EXCEPT !.pc = "toUploading", !.a = b]]
  BY DEF InitInsert
<1> DEFINE q == InsertLinkArchive(job[s].user, job[s].plan, now)
<1>2. q.user = job[s].user /\ q.plan = job[s].plan
  BY DEF InsertLinkArchive
<1>3. q \in LinkArchiveRow
  BY <1>a, FreshRowOK DEF TypeInv, TypeOK
<1>4. q # None
  BY <1>3, StoreAssumption
<1> HIDE DEF q
<1>5. row'[b] = q /\ \A a \in Archives : a # b => row'[a] = row[a]
  BY <1>a, <1>1 DEF q
<1>6. row[b] = None
  BY <1>1 DEF RowsOK
<1>7. job'[s].pc = "toUploading" /\ \A t \in Workers : t # s => job'[t] = job[t]
  BY <1>a, <1>1 DEF Job
<1> QED BY <1>a, <1>1, <1>2, <1>4, <1>5, <1>6, <1>7

\* An init is past a check because it was, or because the check admits it.
LEMMA Passing ==
  ASSUME TypeInv, [Next]_vars, NEW s \in Workers, job'[s].pc \in {"sum", "insert"}
  PROVE  \/ job'[s] = job[s]
         \/ /\ job[s].pc = "count" /\ job'[s].pc = "sum" /\ job'[s].user = job[s].user
            /\ ~(CountActive(job[s].user) >= UserQuota)
         \/ /\ job[s].pc = "sum" /\ job'[s].pc = "insert" /\ job'[s].user = job[s].user
            /\ job'[s].plan = job[s].plan /\ job[s].plan \in Plans
            /\ ~(SumActiveBytes + job[s].plan.bytes > StagingCap)
<1>a. job \in [Jobs -> Job] /\ s \in Jobs
  BY DEF TypeInv, TypeOK
<1>1. CASE job'[s] = job[s]
  BY <1>1
<1>2. CASE job'[s] # job[s]
  <2>1. StepOf(s)
    BY <1>a, <1>2, OwnStep
  <2>2. ~Request(s)
    BY <1>a, RequestPcs
  <2>3. s # Purger
    BY LinkArchiveAssumption
  <2>4. Continue(s) \/ Purge(s) \/ Abandon(s)
    BY <2>1, <2>2, <2>3 DEF StepOf
  <2>5. \/ job'[s].pc = "sum" /\ InitQuota(s) /\ job'[s].user = job[s].user
        \/ job'[s].pc = "insert" /\ InitStaging(s) /\ job'[s].user = job[s].user
    BY <1>a, <2>4, ContinuePcs
  <2>6. ~Done(s)
    BY <1>a DEF Done, Idle
  <2>7. CASE job'[s].pc = "sum" /\ InitQuota(s) /\ job'[s].user = job[s].user
    BY <2>6, <2>7 DEF InitQuota, At
  <2>8. CASE job'[s].pc = "insert" /\ InitStaging(s) /\ job'[s].user = job[s].user
    <3>1. Goto(s, "insert") /\ job[s].pc = "sum" /\ ~(SumActiveBytes + job[s].plan.bytes > StagingCap)
      BY <2>6, <2>8 DEF InitStaging, At
    <3>2. job'[s].plan = job[s].plan
      BY <1>a, <3>1 DEF Goto, Job
    <3>3. job[s].plan \in Plans
      BY <1>a, <3>1 DEF TypeInv, JobOK, InitPcs
    <3> QED BY <2>8, <3>1, <3>2, <3>3
  <2> QED BY <2>5, <2>7, <2>8
<1> QED BY <1>1, <1>2

\* Every step preserves QuotaInv.
LEMMA NextQuota ==
  ASSUME Inv, TypeInv', QuotaInv, [Next]_vars
  PROVE  QuotaInv'
<1> SUFFICES ASSUME NEW u \in Users
             PROVE  (CountActive(u) + Cardinality(Passed(u)) <= UserQuota + Overtaking)'
  BY DEF QuotaInv
<1> DEFINE A == ActiveOf(u)
           A2 == ActiveOf(u)'
           P == Passed(u)
           P2 == Passed(u)'
           W == Cardinality(Workers)
<1>a. TypeInv /\ RowsOK
  BY DEF Inv
<1>b. CountActive(u) = Cardinality(A) /\ CountActive(u)' = Cardinality(A2)
  BY DEF CountActive, ActiveOf
<1>c. A \in SUBSET Archives /\ A2 \in SUBSET Archives
  BY DEF ActiveOf
<1>d. P \in SUBSET Workers /\ P2 \in SUBSET Workers
  BY DEF Passed
<1>e. W \in Nat /\ Overtaking \in Nat /\ W = Overtaking + 1 /\ UserQuota \in Nat
  BY Overtakers, LinkArchiveAssumption
<1>f. /\ IsFiniteSet(P) /\ Cardinality(P) \in Nat /\ Cardinality(P2) \in Nat
      /\ P2 \subseteq P => Cardinality(P2) <= Cardinality(P)
      /\ Cardinality(P2) <= W
  BY <1>d, LinkArchiveAssumption, FS_Subset, FS_CardinalityType
<1>g. Cardinality(A) \in Nat /\ Cardinality(A2) \in Nat
  BY <1>c, CountedBy
<1>h. Cardinality(A) + Cardinality(P) <= UserQuota + Overtaking
  BY <1>b DEF QuotaInv
<1>i. SUFFICES Cardinality(A2) + Cardinality(P2) <= UserQuota + Overtaking
  BY <1>b
<1>1. CASE \A s \in Workers : ~InitInsert(s)
  <2>1. A2 \subseteq A
    BY <1>1, <1>a, ActiveShrinks DEF ActiveOf
  <2> HIDE DEF A, A2, W
  <2>2. Cardinality(A2) <= Cardinality(A)
    BY <1>c, <2>1, CountedBy
  <2>3. CASE P2 \subseteq P
    <3> HIDE DEF P, P2
    <3> QED BY <1>e, <1>f, <1>g, <1>h, <2>2, <2>3
  <2>4. CASE ~(P2 \subseteq P)
    <3>1. PICK s \in Workers : s \in P2 /\ s \notin P
      BY <1>d, <2>4
    <3>2. job'[s].pc \in {"sum", "insert"} /\ job'[s].user = u
      BY <3>1 DEF Passed
    <3>3. job'[s] # job[s] /\ ~(job[s].pc = "sum" /\ job[s].user = u)
      BY <3>1, <3>2 DEF Passed
    <3>4. ~(CountActive(u) >= UserQuota)
      BY <1>a, <3>2, <3>3, Passing
    <3> HIDE DEF P, P2
    <3> QED BY <1>b, <1>e, <1>f, <1>g, <2>2, <3>4
  <2> QED BY <2>3, <2>4
<1>2. ASSUME NEW s \in Workers, InitInsert(s)
      PROVE  Cardinality(A2) + Cardinality(P2) <= UserQuota + Overtaking
  <2>1. PICK b \in Archives :
           /\ row[b] = None /\ row'[b] # None
           /\ row'[b].user = job[s].user /\ row'[b].plan = job[s].plan
           /\ \A a \in Archives : a # b => row'[a] = row[a]
           /\ job[s].pc = "insert" /\ job'[s].pc = "toUploading"
           /\ \A t \in Workers : t # s => job'[t] = job[t]
    BY <1>2, <1>a, Inserts
  <2>2. CASE job[s].user = u
    <3>1. A2 \subseteq A \cup {b}
      BY <2>1 DEF ActiveOf
    <3>2. s \in P /\ P2 \subseteq P \ {s}
      BY <2>1, <2>2 DEF Passed
    <3> HIDE DEF A, A2, P, P2, W
    <3>3. Cardinality(A2) <= Cardinality(A) + 1
      BY <1>c, <3>1, CountedBy
    <3>4. IsFiniteSet(P \ {s}) /\ Cardinality(P \ {s}) = Cardinality(P) - 1
      BY <1>f, <3>2, FS_RemoveElement
    <3>5. Cardinality(P2) <= Cardinality(P \ {s})
      BY <3>2, <3>4, FS_Subset
    <3> QED BY <1>e, <1>f, <1>g, <1>h, <3>3, <3>4, <3>5
  <2>3. CASE job[s].user # u
    <3>1. A2 \subseteq A
      BY <2>1, <2>3 DEF ActiveOf
    <3>2. P2 \subseteq P
      BY <2>1 DEF Passed
    <3> HIDE DEF A, A2, P, P2, W
    <3>3. Cardinality(A2) <= Cardinality(A)
      BY <1>c, <3>1, CountedBy
    <3> QED BY <1>e, <1>f, <1>g, <1>h, <3>2, <3>3
  <2> QED BY <2>2, <2>3
<1> QED BY <1>1, <1>2

\* Every step preserves StagingInv.
LEMMA NextStaging ==
  ASSUME Inv, TypeInv', StagingInv, [Next]_vars
  PROVE  StagingInv'
<1> SUFFICES ASSUME NEW p \in Plans, Largest(p)
             PROVE  (Total(Declared, ActiveArchives) + Total(Asked, Inserting)
                      <= StagingCap + Overtaking * p.bytes)'
  BY DEF StagingInv, Largest
<1>0. PICK m : m = Overtaking * p.bytes
  OBVIOUS
<1> DEFINE d == Declared
           d2 == Declared'
           A == ActiveArchives
           A2 == ActiveArchives'
           k == Asked
           k2 == Asked'
           P == Inserting
           P2 == Inserting'
<1>a. TypeInv /\ RowsOK
  BY DEF Inv
<1>b. p.bytes \in Nat /\ Overtaking \in Nat /\ m \in Nat /\ StagingCap \in Nat
  <2>1. p.bytes \in Nat
    BY StoreAssumption
  <2>2. Overtaking \in Nat
    BY Overtakers
  <2>3. \A x, y \in Nat : x * y \in Nat
    OBVIOUS
  <2> QED BY <1>0, <2>1, <2>2, <2>3, LinkArchiveAssumption
<1>c. /\ SumActiveBytes = Total(d, A) /\ Total(d, A) \in Nat
      /\ \A a \in A : d[a] = row[a].plan.bytes /\ d[a] \in Nat
      /\ IsFiniteSet(A) /\ A \subseteq Archives
  BY <1>a, StagedTotal
<1>d. /\ \A s \in P : k[s] = job[s].plan.bytes /\ k[s] \in Nat /\ job[s].plan \in Plans
      /\ IsFiniteSet(P) /\ P \subseteq Workers /\ Total(k, P) \in Nat
  BY <1>a, AskedNat
<1>x. (SumActiveBytes = Total(Declared, ActiveArchives)
       /\ Total(Declared, ActiveArchives) \in Nat
       /\ (\A a \in ActiveArchives : Declared[a] = row[a].plan.bytes /\ Declared[a] \in Nat)
       /\ IsFiniteSet(ActiveArchives) /\ ActiveArchives \subseteq Archives)'
  BY StagedTotal, PTL
<1>y. ((\A s \in Inserting : Asked[s] = job[s].plan.bytes /\ Asked[s] \in Nat
                             /\ job[s].plan \in Plans)
       /\ IsFiniteSet(Inserting) /\ Inserting \subseteq Workers
       /\ Total(Asked, Inserting) \in Nat)'
  BY AskedNat, PTL
<1>e. /\ Total(d2, A2) \in Nat
      /\ \A a \in A2 : d2[a] = row'[a].plan.bytes /\ d2[a] \in Nat
      /\ IsFiniteSet(A2) /\ A2 \subseteq Archives
  BY <1>x
<1>f. /\ \A s \in P2 : k2[s] = job'[s].plan.bytes /\ k2[s] \in Nat /\ job'[s].plan \in Plans
      /\ IsFiniteSet(P2) /\ P2 \subseteq Workers /\ Total(k2, P2) \in Nat
  BY <1>y
<1>h. Total(d, A) + Total(k, P) <= StagingCap + m
  BY <1>0 DEF StagingInv
<1>i. SUFFICES Total(d2, A2) + Total(k2, P2) <= StagingCap + m
  BY <1>0
<1>1. CASE \A s \in Workers : ~InitInsert(s)
  <2>1. \A a \in A2 : a \in A /\ d2[a] = d[a]
    <3>1. \A a \in A2 : a \in Archives /\ Active(row'[a])
      BY DEF ActiveArchives
    <3>2. \A a \in A2 : Active(row[a]) /\ row'[a].plan = row[a].plan
      BY <1>1, <1>a, <3>1, ActiveShrinks
    <3>3. \A a \in A2 : a \in A
      BY <3>1, <3>2 DEF ActiveArchives
    <3> QED BY <1>c, <1>e, <3>2, <3>3
  <2> HIDE DEF d, d2, A, A2
  <2>2. Total(d2, A2) <= Total(d, A)
    <3>1. Total(d2, A2) = Total(d, A2)
      BY <2>1, TotalSame
    <3>2. A2 \in SUBSET A
      BY <2>1
    <3>3. Total(d, A2) <= Total(d, A)
      BY <1>c, <3>2, TotalGrows
    <3> QED BY <3>1, <3>3
  <2>3. CASE \A s \in P2 : job'[s] = job[s]
    <3>1. \A s \in P2 : s \in P
      BY <2>3 DEF Inserting
    <3>2. \A s \in P2 : k2[s] = k[s]
      BY <1>d, <1>f, <2>3, <3>1
    <3> HIDE DEF k, k2, P, P2
    <3>3. Total(k2, P2) = Total(k, P2)
      BY <3>2, TotalSame
    <3>4. P2 \in SUBSET P
      BY <3>1
    <3>5. Total(k, P2) <= Total(k, P)
      BY <1>d, <3>4, TotalGrows
    <3> QED BY <1>b, <1>c, <1>d, <1>e, <1>f, <1>h, <2>2, <3>3, <3>5
  <2>4. CASE ~(\A s \in P2 : job'[s] = job[s])
    <3>1. PICK s \in P2 : job'[s] # job[s]
      BY <2>4
    <3>2. s \in Workers /\ job'[s].pc = "insert"
      BY <3>1 DEF Inserting
    <3>3. job'[s].plan = job[s].plan /\ ~(SumActiveBytes + job[s].plan.bytes > StagingCap)
      BY <1>a, <3>1, <3>2, Passing
    <3> DEFINE R == P2 \ {s}
               V == Workers \ {s}
    <3>4. R \in SUBSET V /\ IsFiniteSet(V) /\ Cardinality(V) = Overtaking
      BY <1>f, <3>2, Overtakers
    <3>5. \A t \in R : k2[t] \in Nat /\ k2[t] <= p.bytes
      BY <1>f DEF Largest
    <3>6. k2[s] \in Nat /\ k2[s] = job[s].plan.bytes
      BY <1>f, <3>1, <3>3
    <3>7. {s} \in SUBSET P2
      BY <3>1
    <3> HIDE DEF k, k2, P, P2, V
    <3>8. Total(k2, P2) = Total(k2, {s}) + Total(k2, R) /\ Total(k2, {s}) = k2[s]
      BY <1>f, <3>6, <3>7, TotalSplit, TotalOne
    <3> HIDE DEF R
    <3>9. Total(k2, R) \in Nat /\ Total(k2, R) <= m
      BY <1>0, <1>b, <3>4, <3>5, TotalBounded
    <3>10. ~(Total(d, A) + k2[s] > StagingCap)
      BY <1>c, <3>3, <3>6
    <3> QED BY <1>b, <1>c, <1>e, <2>2, <3>6, <3>8, <3>9, <3>10
  <2> QED BY <2>3, <2>4
<1>2. ASSUME NEW s \in Workers, InitInsert(s)
      PROVE  Total(d2, A2) + Total(k2, P2) <= StagingCap + m
  <2>1. PICK b \in Archives :
           /\ row[b] = None /\ row'[b] # None
           /\ row'[b].user = job[s].user /\ row'[b].plan = job[s].plan
           /\ \A a \in Archives : a # b => row'[a] = row[a]
           /\ job[s].pc = "insert" /\ job'[s].pc = "toUploading"
           /\ \A t \in Workers : t # s => job'[t] = job[t]
    BY <1>2, <1>a, Inserts
  <2>2. s \in P /\ P2 = P \ {s}
    BY <2>1 DEF Inserting
  <2>3. \A t \in P2 : k2[t] = k[t]
    BY <1>d, <1>f, <2>1, <2>2
  <2>4. k[s] = job[s].plan.bytes /\ k[s] \in Nat
    BY <1>d, <2>2
  <2>5. \A a \in A2 : a = b \/ (a \in A /\ d2[a] = d[a])
    <3>1. \A a \in A2 : a # b => a \in A /\ row'[a] = row[a]
      BY <2>1 DEF ActiveArchives
    <3> QED BY <1>c, <1>e, <3>1
  <2>6. b \in A2 => d2[b] = k[s]
    BY <1>e, <2>1, <2>4
  <2> DEFINE B == A2 \ {b}
  <2>7. B \in SUBSET A /\ \A a \in B : d2[a] = d[a]
    BY <2>5
  <2> HIDE DEF d, d2, A, A2, k, k2, P, P2
  <2>8. Total(k, P) = k[s] + Total(k2, P2)
    <3>1. {s} \in SUBSET P
      BY <2>2
    <3>2. Total(k, P) = Total(k, {s}) + Total(k, P \ {s})
      BY <1>d, <3>1, TotalSplit
    <3>3. Total(k, {s}) = k[s]
      BY <2>4, TotalOne
    <3>4. Total(k2, P2) = Total(k, P2)
      BY <2>3, TotalSame
    <3> QED BY <2>2, <3>2, <3>3, <3>4
  <2>9. Total(d2, B) <= Total(d, A) /\ Total(d2, B) \in Nat
    <3>1. Total(d2, B) = Total(d, B)
      BY <2>7, TotalSame
    <3> HIDE DEF B
    <3>2. Total(d, B) <= Total(d, A) /\ Total(d, B) \in Nat
      BY <1>c, <2>7, TotalGrows
    <3> QED BY <3>1, <3>2
  <2>10. Total(d2, A2) <= k[s] + Total(d2, B)
    <3>1. CASE b \in A2
      <4>1. {b} \in SUBSET A2
        BY <3>1
      <4>2. Total(d2, A2) = Total(d2, {b}) + Total(d2, B)
        BY <1>e, <4>1, TotalSplit
      <4>3. Total(d2, {b}) = d2[b]
        BY <1>e, <3>1, TotalOne
      <4> HIDE DEF B
      <4> QED BY <1>e, <2>4, <2>6, <2>9, <3>1, <4>2, <4>3
    <3>2. CASE b \notin A2
      <4>1. B = A2
        BY <3>2
      <4> HIDE DEF B
      <4> QED BY <1>e, <2>4, <4>1
    <3> QED BY <3>1, <3>2
  <2> HIDE DEF B
  <2> QED BY <1>b, <1>c, <1>e, <1>f, <1>h, <2>4, <2>8, <2>9, <2>10
<1> QED BY <1>1, <1>2

\* Neither an account nor the staging area holds more than its limit and what
\* the inits that overtake each other add, for any number of workers, whatever
\* fails and whatever the purger removes in between (linkArchiveInit).  With
\* one request at a time both limits are kept.
THEOREM AdmissionHolds == Spec => []AdmissionHeld
<1>1. Init => QuotaInv /\ StagingInv
  <2> SUFFICES ASSUME Init PROVE QuotaInv /\ StagingInv
    OBVIOUS
  <2>1. \A a \in Archives : row[a] = None
    BY DEF Init
  <2>2. \A s \in Workers : job[s].pc = "idle"
    BY DEF Init, Idle
  <2>3. \A u : {a \in Archives : Active(row[a]) /\ row[a].user = u} = {} /\ Passed(u) = {}
    BY <2>1, <2>2 DEF Active, Passed
  <2>4. ActiveArchives = {} /\ Inserting = {}
    BY <2>1, <2>2 DEF Active, ActiveArchives, Inserting
  <2>5. Overtaking \in Nat /\ UserQuota \in Nat /\ StagingCap \in Nat
    BY Overtakers, LinkArchiveAssumption
  <2>6. QuotaInv
    <3>1. \A u : CountActive(u) = 0 /\ Cardinality(Passed(u)) = 0
      BY <2>3, FS_EmptySet DEF CountActive
    <3> QED BY <2>5, <3>1 DEF QuotaInv
  <2>7. StagingInv
    <3>1. Total(Declared, ActiveArchives) = 0 /\ Total(Asked, Inserting) = 0
      BY <2>4, TotalEmpty
    <3>2. \A x, y \in Nat : x * y \in Nat
      OBVIOUS
    <3>3. \A p \in Plans : Overtaking * p.bytes \in Nat
      BY <2>5, <3>2, StoreAssumption
    <3> QED BY <2>5, <3>1, <3>3 DEF StagingInv
  <2> QED BY <2>6, <2>7
<1>2. Inv /\ Inv' /\ QuotaInv /\ StagingInv /\ [Next]_vars => QuotaInv' /\ StagingInv'
  <2>1. Inv' => TypeInv'
    BY DEF Inv
  <2> QED BY <2>1, NextQuota, NextStaging
<1>3. Inv /\ QuotaInv /\ StagingInv => AdmissionHeld
  <2> SUFFICES ASSUME Inv, QuotaInv, StagingInv PROVE AdmissionHeld
    OBVIOUS
  <2>1. QuotaHeld
    <3>1. \A u \in Users : ActiveOf(u) \in SUBSET Archives /\ CountActive(u) = Cardinality(ActiveOf(u))
                           /\ Passed(u) \in SUBSET Workers
      BY DEF ActiveOf, CountActive, Passed
    <3>2. \A u \in Users : CountActive(u) \in Nat
      BY <3>1, CountedBy
    <3>3. \A u \in Users : Cardinality(Passed(u)) \in Nat
      BY <3>1, LinkArchiveAssumption, FS_Subset, FS_CardinalityType
    <3>4. Overtaking \in Nat /\ UserQuota \in Nat
      BY Overtakers, LinkArchiveAssumption
    <3>5. \A u \in Users : CountActive(u) + Cardinality(Passed(u)) <= UserQuota + Overtaking
      BY DEF QuotaInv
    <3>6. ASSUME NEW u \in Users PROVE CountActive(u) <= UserQuota + Overtaking
      <4> DEFINE x == CountActive(u)
                 y == Cardinality(Passed(u))
      <4>1. x \in Nat /\ y \in Nat /\ x + y <= UserQuota + Overtaking
        BY <3>2, <3>3, <3>5
      <4> HIDE DEF x, y
      <4>2. x <= UserQuota + Overtaking
        BY <3>4, <4>1
      <4> QED BY <4>2 DEF x
    <3> QED BY <3>6 DEF QuotaHeld
  <2>2. ASSUME NEW p \in Plans, Largest(p)
        PROVE  SumActiveBytes <= StagingCap + Overtaking * p.bytes
    <3>1. SumActiveBytes = Total(Declared, ActiveArchives) /\ SumActiveBytes \in Nat
          /\ Total(Asked, Inserting) \in Nat
      BY StagedTotal, AskedNat DEF Inv
    <3>2. PICK m : m = Overtaking * p.bytes
      OBVIOUS
    <3>3. \A x, y \in Nat : x * y \in Nat
      OBVIOUS
    <3>4. m \in Nat /\ StagingCap \in Nat
      BY <3>2, <3>3, Overtakers, StoreAssumption, LinkArchiveAssumption
    <3>5. SumActiveBytes + Total(Asked, Inserting) <= StagingCap + m
      BY <2>2, <3>1, <3>2 DEF StagingInv
    <3>6. SumActiveBytes <= StagingCap + m
      BY <3>1, <3>4, <3>5
    <3> QED BY <3>2, <3>6
  <2> QED BY <2>1, <2>2 DEF AdmissionHeld, Largest
<1> QED BY <1>1, <1>2, <1>3, Invariance, PTL DEF Spec
=============================================================================
