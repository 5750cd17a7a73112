----------------------------- MODULE LinkArchive -----------------------------
(***************************************************************************)
(* The chunked device-link transfer plane (internal/api/link_archives.go): *)
(* HTTP handlers that run concurrently against the archive and chunk       *)
(* tables and an object store, and the supervised purger.                  *)
(*                                                                         *)
(* A handler is a job.  One step of a job is one SQL statement or one      *)
(* object-store call; between two steps any other job may run, and what a  *)
(* job has read stays in its record while the tables move on.  The first   *)
(* step of a handler is its token lookup: a request that the lookup        *)
(* refuses changes nothing and is not a step.                              *)
(***************************************************************************)
EXTENDS LinkArchiveStore, FiniteSets, FiniteSetsExt

CONSTANTS
  Archives,    \* archive UUIDs the database can hand out
  Workers,     \* requests that can be in flight at once
  Purger,      \* the purger goroutine
  Backend,     \* "postgres_bytea" or "s3"
  Kinds,       \* the endpoints the clients call
  UserQuota,   \* archiveQuotaForUser()
  StagingCap,  \* instanceStagingBytesCap()
  PresignTtl,  \* linkArchivePresignTTL
  Faults,      \* whether a statement, an object call or the process may fail
  MaxNow       \* bound of the clock

VARIABLES
  now,       \* the clock, which the database and the process share
  row,       \* link_archives: a row or None for every UUID
  used,      \* UUIDs handed out so far; gen_random_uuid() never repeats one
  chunk,     \* link_archive_chunks: a row or None for every archive and index
  blob,      \* the object store, keyed by "archive/idx"
  issued,    \* archives whose tokens init has returned to the device
  putUntil,  \* s3: when the presigned PUT URL of a key expires, 0 before
  job,       \* what every handler and the purger are doing
  \* History: what the properties ask of the past.  No action reads them.
  touched,   \* when the archive was last inserted or refreshed
  renewed,   \* <<s, a>>: a was refreshed after the init of s listed it
  stalled,   \* archives that lost a lifecycle transition to a failure
  dropped    \* <<a, i>>: a rollback or a purge that failed deleted the object,
             \* and it was not put again

history == <<touched, renewed, stalled, dropped>>
vars == <<now, row, used, chunk, blob, issued, putUntil, job, history>>

Jobs == Workers \cup {Purger}

AllKinds == {"init", "window", "upload", "confirm", "finalize", "manifest",
             "download", "ack", "delete"}

Pcs == {"idle", "purge", "objects", "count", "sum", "insert", "toUploading",
        "put", "rollback", "stat", "exists", "insertChunk", "list", "mark",
        "toUploaded", "toAvailable", "get", "ack", "refresh"}

ASSUME LinkArchiveAssumption ==
  /\ Purger \notin Workers
  /\ Backend \in {"postgres_bytea", "s3"}
  /\ Kinds \subseteq AllKinds /\ None \notin AllKinds
  /\ UserQuota \in Nat /\ StagingCap \in Nat /\ PresignTtl \in Nat
  /\ Faults \in BOOLEAN
  /\ MaxNow \in Nat
  /\ IsFiniteSet(Archives) /\ IsFiniteSet(Idx)
  /\ IsFiniteSet(Workers) /\ Workers # {}

Idle == [pc |-> "idle", kind |-> None, user |-> None, plan |-> None,
         a |-> None, i |-> None, body |-> None, hash |-> None,
         size |-> None, objs |-> {}, todo |-> {}]

Job == [pc : Pcs, kind : AllKinds \cup {"gc", None}, user : Users \cup {None},
        plan : Plans \cup {None}, a : Archives \cup {None},
        i : Idx \cup {None}, body : Contents \cup {None},
        hash : Hashes \cup {None}, size : Sizes \cup {None},
        objs : SUBSET Idx, todo : SUBSET Archives]

Init ==
  /\ now = 0
  /\ row = [a \in Archives |-> None]
  /\ used = {}
  /\ chunk = [a \in Archives |-> NoChunks]
  /\ blob = [a \in Archives |-> NoChunks]
  /\ issued = {}
  /\ putUntil = [a \in Archives |-> [i \in Idx |-> 0]]
  /\ job = [s \in Jobs |-> Idle]
  /\ touched = [a \in Archives |-> 0]
  /\ renewed = {}
  /\ stalled = {}
  /\ dropped = {}

(***************************************************************************)
(* Jobs.                                                                   *)
(***************************************************************************)
At(s, pc) == job[s].pc = pc
Goto(s, pc) == job' = [job EXCEPT ![s].pc = pc]
Done(s) == job' = [job EXCEPT ![s] = Idle]
Start(s, kind, j) ==
  /\ kind \in Kinds
  /\ job[s] = Idle
  /\ job' = [job EXCEPT ![s] = [j EXCEPT !.kind = kind]]

\* requireTokenHash, lookupArchiveBy{Upload,Download}Hash, archiveOrError.
Lookup(a) == a \in issued /\ Fresh(row[a], now)
Open(a) == Lookup(a) /\ ~row[a].finalized      \* the upload plane's gate
Readable(a) == Lookup(a) /\ row[a].finalized   \* the download plane's gate
HasIdx(a, i) == i \in DOMAIN row[a].plan.chunks

\* The archives an init has listed and not yet removed.
Listed(s) == job[s].todo \cup (IF At(s, "objects") THEN {job[s].a} ELSE {})

\* The objects of a that are gone when a purge of a ends without its row.
Gone(a) == {a} \X {i \in Idx : blob[a][i] = None}

\* A DB error, an object-store error, a cancelled request context or a crash
\* of the process ends the job; whatever it already wrote stays.
Abandon(s) ==
  /\ Faults
  /\ job[s] # Idle
  /\ Done(s)
  /\ renewed' = renewed \ ({s} \X Archives)
  /\ stalled' = IF job[s].pc \in {"toUploaded", "toAvailable"}
                THEN stalled \cup {job[s].a} ELSE stalled
  /\ dropped' = IF At(s, "objects") THEN dropped \cup Gone(job[s].a) ELSE dropped
  /\ UNCHANGED <<now, row, used, chunk, blob, issued, putUntil, touched>>

(***************************************************************************)
(* Removing an archive: the body of purgeArchive and of the purger's loop. *)
(* The chunk rows are listed, their objects deleted one by one, the        *)
(* archive row deleted last; chunk rows go with it by cascade.             *)
(***************************************************************************)
PurgeList(s) ==
  /\ At(s, "purge")
  /\ \E a \in job[s].todo :
       \* a failed listing is logged and the row is deleted all the same
       \E objs \in {{i \in Idx : chunk[a][i] # None}}
                    \cup (IF Faults THEN {{}} ELSE {}) :
         job' = [job EXCEPT ![s] = [job[s] EXCEPT !.pc = "objects", !.a = a,
                                      !.objs = objs, !.todo = job[s].todo \ {a}]]
  /\ UNCHANGED <<now, row, used, chunk, blob, issued, putUntil, history>>

PurgeObject(s) ==
  /\ At(s, "objects")
  /\ \E i \in job[s].objs :
       /\ job' = [job EXCEPT ![s].objs = @ \ {i}]
       /\ \/ blob' = [blob EXCEPT ![job[s].a][i] = None]
          \/ Faults /\ blob' = blob       \* logged, the loop goes on
  /\ UNCHANGED <<now, row, used, chunk, issued, putUntil, history>>

\* What follows the last archive of the list: the quota check in init,
\* the response in DELETE, the end of the tick in the purger.
AfterPurge(s) ==
  IF job[s].todo # {} THEN Goto(s, "purge")
  ELSE IF job[s].kind = "init" THEN Goto(s, "count")
  ELSE Done(s)

PurgeRow(s) ==
  /\ At(s, "objects")
  /\ job[s].objs = {}
  /\ \/ /\ row' = [row EXCEPT ![job[s].a] = None]
        /\ chunk' = [chunk EXCEPT ![job[s].a] = NoChunks]
        /\ dropped' = dropped
     \/ /\ Faults                           \* logged, the loop goes on
        /\ UNCHANGED <<row, chunk>>
        /\ dropped' = dropped \cup Gone(job[s].a)
  /\ AfterPurge(s)
  /\ renewed' = renewed \ {<<s, job[s].a>>}
  /\ UNCHANGED <<now, used, blob, issued, putUntil, touched, stalled>>

(***************************************************************************)
(* POST /link-archive-init.                                                *)
(***************************************************************************)
InitRequest(s, u, p) ==
  /\ \E stale \in {{a \in Archives : Supersedable(row[a], u, now)}}
                   \cup (IF Faults THEN {{}} ELSE {}) :
       Start(s, "init", [Idle EXCEPT !.user = u, !.plan = p, !.todo = stale,
                           !.pc = IF stale = {} THEN "count" ELSE "purge"])
  /\ UNCHANGED <<now, row, used, chunk, blob, issued, putUntil, history>>

CountActive(u) == Cardinality({a \in Archives : Active(row[a]) /\ row[a].user = u})
SumActiveBytes ==
  MapThenSumSet(LAMBDA a : row[a].plan.bytes, {a \in Archives : Active(row[a])})

InitQuota(s) ==
  /\ At(s, "count")
  /\ IF CountActive(job[s].user) >= UserQuota THEN Done(s) ELSE Goto(s, "sum")
  /\ UNCHANGED <<now, row, used, chunk, blob, issued, putUntil, history>>

InitStagingWithoutRequest(s) ==    \* mutant
  /\ At(s, "sum")
  /\ IF SumActiveBytes > StagingCap THEN Done(s) ELSE Goto(s, "insert")
  /\ UNCHANGED <<now, row, used, chunk, blob, issued, putUntil, history>>

InitStaging(s) ==
  /\ At(s, "sum")
  /\ IF SumActiveBytes + job[s].plan.bytes > StagingCap
     THEN Done(s) ELSE Goto(s, "insert")
  /\ UNCHANGED <<now, row, used, chunk, blob, issued, putUntil, history>>

InitInsert(s) ==
  /\ At(s, "insert")
  /\ \E a \in Archives \ used :
       /\ row' = [row EXCEPT ![a] = InsertLinkArchive(job[s].user, job[s].plan, now)]
       /\ used' = used \cup {a}
       /\ touched' = [touched EXCEPT ![a] = now]
       /\ job' = [job EXCEPT ![s] = [@ EXCEPT !.pc = "toUploading", !.a = a]]
  /\ UNCHANGED <<now, chunk, blob, issued, putUntil, renewed, stalled, dropped>>

\* mintUploadWindow for every chunk of the plan; the cap of eight URLs per
\* window is left out.  postgres_bytea's URL is the in-API endpoint itself.
MintUploadWindow(a, plan) ==
  putUntil' = [putUntil EXCEPT ![a] =
                 [i \in Idx |-> IF Backend = "s3" /\ i \in DOMAIN plan.chunks
                                THEN now + PresignTtl ELSE @[i]]]

\* An advisory transition: its error is logged or ignored, the handler goes on.
Transition(a, to, from) ==
  \/ /\ row' = [row EXCEPT ![a] = TransitionLinkArchiveState(@, to, from)]
     /\ stalled' = stalled
  \/ /\ Faults
     /\ row' = row
     /\ stalled' = IF MayTransition(row[a], from) THEN stalled \cup {a} ELSE stalled

\* The first upload window is minted whatever became of the transition.
InitTransition(s) ==
  /\ At(s, "toUploading")
  /\ LET a == job[s].a IN
       /\ Transition(a, "uploading", {"created"})
       /\ MintUploadWindow(a, job[s].plan)
       /\ issued' = issued \cup {a}
  /\ Done(s)
  /\ UNCHANGED <<now, used, chunk, blob, touched, renewed, dropped>>

(***************************************************************************)
(* The upload plane.                                                       *)
(***************************************************************************)
UploadWindow(s, a) ==
  /\ Open(a)
  /\ MintUploadWindow(a, row[a].plan)
  /\ Start(s, "window", [Idle EXCEPT !.a = a, !.pc = "refresh"])
  /\ UNCHANGED <<now, row, used, chunk, blob, issued, history>>

UploadChunk(s, a, i, body, hash) ==
  /\ Open(a) /\ HasIdx(a, i)
  /\ Start(s, "upload", [Idle EXCEPT !.a = a, !.i = i, !.body = body,
                           !.hash = hash, !.pc = "put"])
  /\ UNCHANGED <<now, row, used, chunk, blob, issued, putUntil, history>>

\* postgres_bytea keeps the first writer (ON CONFLICT DO NOTHING), s3 the last.
PutObject(old, body) == IF Backend = "s3" \/ old = None THEN body ELSE old

\* backend.Put, then the hash of the body it was given against the header.
UploadPut(s) ==
  /\ At(s, "put")
  /\ LET j == job[s] IN
       /\ blob' = [blob EXCEPT ![j.a][j.i] = PutObject(@, j.body)]
       /\ dropped' = dropped \ {<<j.a, j.i>>}
       /\ job' = [job EXCEPT ![s] = [@ EXCEPT !.size = SizeOf[j.body],
                    !.pc = IF Sha256(j.body) = j.hash THEN "insertChunk"
                           ELSE "rollback"]]
  /\ UNCHANGED <<now, row, used, chunk, issued, putUntil, touched, renewed, stalled>>

\* The hash-mismatch branch of upload-chunk and confirm-chunk.
Rollback(s) ==
  /\ At(s, "rollback")
  /\ blob' = [blob EXCEPT ![job[s].a][job[s].i] = None]
  /\ dropped' = dropped \cup {<<job[s].a, job[s].i>>}
  /\ Done(s)
  /\ UNCHANGED <<now, row, used, chunk, issued, putUntil, touched, renewed, stalled>>

InsertChunkUpsert(s) ==    \* mutant: ON CONFLICT DO UPDATE
  /\ At(s, "insertChunk")
  /\ LET j == job[s] IN
       IF row[j.a] = None THEN chunk' = chunk /\ Done(s)
       ELSE /\ chunk' = [chunk EXCEPT ![j.a][j.i] = [hash |-> j.hash, size |-> j.size]]
            /\ Goto(s, "refresh")
  /\ UNCHANGED <<now, row, used, blob, issued, putUntil, history>>

\* The foreign key refuses a chunk of an archive that is gone.
InsertChunk(s) ==
  /\ At(s, "insertChunk")
  /\ LET j == job[s] IN
       IF row[j.a] = None \/ ChunkConflict(chunk[j.a][j.i], j.hash)
       THEN chunk' = chunk /\ Done(s)
       ELSE /\ chunk' = [chunk EXCEPT ![j.a][j.i] =
                           InsertLinkArchiveChunk(@, j.hash, j.size)]
            /\ Goto(s, "refresh")
  /\ UNCHANGED <<now, row, used, blob, issued, putUntil, history>>

ConfirmChunk(s, a, i, hash, size) ==
  /\ Open(a) /\ HasIdx(a, i)
  /\ Start(s, "confirm", [Idle EXCEPT !.a = a, !.i = i, !.hash = hash,
              !.size = size,
              !.pc = IF Backend = "s3" THEN "stat" ELSE "exists"])
  /\ UNCHANGED <<now, row, used, chunk, blob, issued, putUntil, history>>

ConfirmStatUnread(s) ==    \* mutant: a missing object is not refused
  /\ At(s, "stat")
  /\ Goto(s, IF blob[job[s].a][job[s].i] = None \/ Sha256(blob[job[s].a][job[s].i]) = job[s].hash
             THEN "insertChunk" ELSE "rollback")
  /\ UNCHANGED <<now, row, used, chunk, blob, issued, putUntil, history>>

\* s3: the object's own checksum decides.  An object without one is refused.
ConfirmStat(s) ==
  /\ At(s, "stat")
  /\ LET j == job[s]
         object == blob[j.a][j.i] IN
       \/ Done(s)                            \* stored without a checksum
       \/ /\ object = None /\ Done(s)
       \/ /\ object # None
          /\ Goto(s, IF Sha256(object) = j.hash THEN "insertChunk" ELSE "rollback")
  /\ UNCHANGED <<now, row, used, chunk, blob, issued, putUntil, history>>

ConfirmExists(s) ==
  /\ At(s, "exists")
  /\ IF blob[job[s].a][job[s].i] = None THEN Done(s) ELSE Goto(s, "refresh")
  /\ UNCHANGED <<now, row, used, chunk, blob, issued, putUntil, history>>

\* The device writes to the bucket through a presigned URL; the API process
\* is not involved and nothing but the URL's expiry limits it.
PresignedPut(a, i, body) ==
  /\ Backend = "s3"
  /\ now < putUntil[a][i]
  /\ blob[a][i] # body
  /\ blob' = [blob EXCEPT ![a][i] = body]
  /\ dropped' = dropped \ {<<a, i>>}
  /\ UNCHANGED <<now, row, used, chunk, issued, putUntil, job, touched, renewed,
                 stalled>>

(***************************************************************************)
(* POST /link-archive-finalize.                                            *)
(***************************************************************************)
Finalize(s, a) ==
  /\ Open(a)          \* an archive already finalized is answered at once
  /\ Start(s, "finalize", [Idle EXCEPT !.a = a, !.pc = "list"])
  /\ UNCHANGED <<now, row, used, chunk, blob, issued, putUntil, history>>

\* The plan fixes the manifest hash: the digest of the chunk hashes in order.
SumSizes(c, D) == MapThenSumSet(LAMBDA i : c[i].size, D)
Complete(plan, c) == \A i \in DOMAIN plan.chunks : c[i] # None
ManifestMatches(plan, c) ==
  \A i \in DOMAIN plan.chunks : c[i].hash = Sha256(plan.chunks[i])
Bound(plan, c) == /\ Complete(plan, c)
                  /\ ManifestMatches(plan, c)
                  /\ SumSizes(c, DOMAIN plan.chunks) = plan.bytes

FinalizeListCountOnly(s) ==    \* mutant: the manifest hash is not compared
  /\ At(s, "list")
  /\ LET a == job[s].a IN
       IF row[a] # None /\ Complete(row[a].plan, chunk[a]) THEN Goto(s, "mark") ELSE Done(s)
  /\ UNCHANGED <<now, row, used, chunk, blob, issued, putUntil, history>>

FinalizeList(s) ==
  /\ At(s, "list")
  /\ LET a == job[s].a IN
       \* archive.TotalChunks and the hashes are the lookup's; they never change
       IF row[a] # None /\ Bound(row[a].plan, chunk[a])
       THEN Goto(s, "mark") ELSE Done(s)
  /\ UNCHANGED <<now, row, used, chunk, blob, issued, putUntil, history>>

FinalizeMark(s) ==
  /\ At(s, "mark")
  /\ row' = [row EXCEPT ![job[s].a] = MarkLinkArchiveFinalized(@)]
  /\ Goto(s, "toUploaded")
  /\ UNCHANGED <<now, used, chunk, blob, issued, putUntil, history>>

FinalizeTransition(s, pc, from, to, next) ==
  /\ At(s, pc)
  /\ Transition(job[s].a, to, from)
  /\ Goto(s, next)
  /\ UNCHANGED <<now, used, chunk, blob, issued, putUntil, touched, renewed, dropped>>

FinalizeUploaded(s) ==
  FinalizeTransition(s, "toUploaded", {"uploading", "upload_paused"},
                     "uploaded", "toAvailable")
FinalizeAvailableFromUploading(s) ==    \* mutant
  FinalizeTransition(s, "toAvailable", {"uploading"}, "available", "refresh")
FinalizeAvailable(s) ==
  FinalizeTransition(s, "toAvailable", {"uploaded"}, "available", "refresh")

(***************************************************************************)
(* The download plane.                                                     *)
(***************************************************************************)
Manifest(s, a) ==     \* GET manifest and POST download-window
  /\ Readable(a)
  /\ Start(s, "manifest", [Idle EXCEPT !.a = a, !.pc = "refresh"])
  /\ UNCHANGED <<now, row, used, chunk, blob, issued, putUntil, history>>

DownloadChunk(s, a, i) ==
  /\ Readable(a) /\ HasIdx(a, i)
  /\ Start(s, "download", [Idle EXCEPT !.a = a, !.i = i, !.pc = "get"])
  /\ UNCHANGED <<now, row, used, chunk, blob, issued, putUntil, history>>

\* The chunk pointer and the object; either missing is a 404.
DownloadGet(s) ==
  /\ At(s, "get")
  /\ LET j == job[s] IN
       IF chunk[j.a][j.i] = None \/ blob[j.a][j.i] = None
       THEN Done(s) ELSE Goto(s, "refresh")
  /\ UNCHANGED <<now, row, used, chunk, blob, issued, putUntil, history>>

Ack(s, a) ==
  /\ Lookup(a)
  /\ Start(s, "ack", [Idle EXCEPT !.a = a, !.pc = "ack"])
  /\ UNCHANGED <<now, row, used, chunk, blob, issued, putUntil, history>>

AckableStates == {"available", "importing", "import_paused", "imported"}

AckTransition(s) ==
  /\ At(s, "ack")
  /\ row' = [row EXCEPT ![job[s].a] =
               TransitionLinkArchiveState(@, "acknowledged", AckableStates)]
  /\ Done(s)
  /\ UNCHANGED <<now, used, chunk, blob, issued, putUntil, history>>

Delete(s, a) ==
  /\ Lookup(a)
  /\ Start(s, "delete", [Idle EXCEPT !.todo = {a}, !.pc = "purge"])
  /\ UNCHANGED <<now, row, used, chunk, blob, issued, putUntil, history>>

\* refreshArchive, the last step of every successful touch.
Refresh(s) ==
  /\ At(s, "refresh")
  /\ LET a == job[s].a IN
       /\ row' = [row EXCEPT ![a] = RefreshLinkArchiveExpiry(@, now)]
       /\ touched' = IF row[a] = None THEN touched
                     ELSE [touched EXCEPT ![a] = now]
       /\ renewed' = renewed \cup
            ({t \in Workers : job[t].kind = "init" /\ a \in Listed(t)} \X {a})
  /\ Done(s)
  /\ UNCHANGED <<now, used, chunk, blob, issued, putUntil, stalled, dropped>>

(***************************************************************************)
(* The purger tick and the clock.                                          *)
(***************************************************************************)
RunPurgerTick ==
  /\ job[Purger] = Idle
  /\ LET eligible == {a \in Archives : GcEligible(row[a], now)} IN
       /\ eligible # {}
       /\ job' = [job EXCEPT ![Purger] =
                    [Idle EXCEPT !.kind = "gc", !.pc = "purge", !.todo = eligible]]
  /\ UNCHANGED <<now, row, used, chunk, blob, issued, putUntil, history>>

Tick ==
  /\ now < MaxNow
  /\ now' = now + 1
  /\ UNCHANGED <<row, used, chunk, blob, issued, putUntil, job, history>>

(***************************************************************************)
(* The next-state relation.                                                *)
(***************************************************************************)
Request(s) ==
  \/ \E u \in Users, p \in Plans : InitRequest(s, u, p)
  \/ \E a \in Archives :
       \/ UploadWindow(s, a)
       \/ Finalize(s, a)
       \/ Manifest(s, a)
       \/ Ack(s, a)
       \/ Delete(s, a)
       \/ \E i \in Idx :
            \/ \E b \in Contents, h \in Hashes : UploadChunk(s, a, i, b, h)
            \/ \E h \in Hashes, n \in Sizes : ConfirmChunk(s, a, i, h, n)
            \/ DownloadChunk(s, a, i)

Continue(s) ==
  \/ InitQuota(s) \/ InitStaging(s) \/ InitInsert(s) \/ InitTransition(s)
  \/ UploadPut(s) \/ Rollback(s) \/ InsertChunk(s)
  \/ ConfirmStat(s) \/ ConfirmExists(s)
  \/ FinalizeList(s) \/ FinalizeMark(s) \/ FinalizeUploaded(s) \/ FinalizeAvailable(s)
  \/ DownloadGet(s) \/ AckTransition(s) \/ Refresh(s)

Purge(s) == PurgeList(s) \/ PurgeObject(s) \/ PurgeRow(s)

Next ==
  \/ \E s \in Workers : Request(s) \/ Continue(s)
  \/ \E s \in Jobs : Purge(s) \/ Abandon(s)
  \/ \E a \in Archives, i \in Idx, b \in Contents : PresignedPut(a, i, b)
  \/ RunPurgerTick
  \/ Tick

Spec == Init /\ [][Next]_vars

\* The clock advances, the purger's ticker fires and its loop runs.  Nothing
\* is assumed of the handlers.
FairSpec == /\ Spec
            /\ WF_vars(Tick)
            /\ WF_vars(RunPurgerTick)
            /\ WF_vars(Purge(Purger))

(***************************************************************************)
(* Properties.                                                             *)
(***************************************************************************)
TypeOK ==
  /\ now \in Nat
  /\ row \in [Archives -> LinkArchiveRow \cup {None}]
  /\ used \subseteq Archives
  /\ chunk \in [Archives -> [Idx -> LinkArchiveChunkRow \cup {None}]]
  /\ blob \in [Archives -> [Idx -> Contents \cup {None}]]
  /\ issued \subseteq Archives
  /\ putUntil \in [Archives -> [Idx -> Nat]]
  /\ job \in [Jobs -> Job]
  /\ touched \in [Archives -> Nat]
  /\ renewed \subseteq Workers \X Archives
  /\ stalled \subseteq Archives
  /\ dropped \subseteq Archives \X Idx

\* An archive marked finalized has a chunk row for every index it declared,
\* their hashes in order are its manifest and their sizes add up to
\* total_bytes, although the check (linkArchiveFinalize), the inserts of other
\* uploads and the UPDATE that sets the flag are separate statements.
FinalizedBound ==
  \A a \in Archives :
    row[a] # None /\ row[a].finalized => Bound(row[a].plan, chunk[a])

\* InsertLinkArchiveChunk's contract: as long as the archive exists the chunk
\* row of an index never changes, whichever uploads and confirms race.
ChunkRowsFrozen ==
  [][\A a \in Archives, i \in Idx :
       chunk[a][i] # None => chunk'[a][i] = chunk[a][i] \/ row'[a] = None]_vars

\* The order of the lifecycle states the code writes.
Rank(state) == CASE state = "created" -> 0 [] state = "uploading" -> 1
                 [] state = "uploaded" -> 2 [] state = "available" -> 3
                 [] state = "acknowledged" -> 4 [] OTHER -> 5

\* TransitionLinkArchiveState's contract: no race of finalize, a repeated
\* finalize and ack moves an archive back in its lifecycle, takes back the
\* finalized flag or moves the hard deadline.
LifecycleMonotone ==
  [][\A a \in Archives : row[a] # None /\ row'[a] # None =>
       /\ Rank(row[a].state) <= Rank(row'[a].state)
       /\ row[a].finalized => row'[a].finalized
       /\ row'[a].hard = row[a].hard /\ row'[a].expires <= row[a].hard]_vars

Purging(a) == \E s \in Jobs : job[s].pc = "objects" /\ job[s].a = a

\* Every chunk row of a reachable archive that no job is removing has its
\* object: a download does not fail silently (the purger's comment).  Two
\* things alone take the object and leave the row: the rollback of an upload or
\* confirm whose hash did not match, which deletes whatever lies under the key,
\* and a purge that failed or died after it deleted objects.  The exception
\* ends when the object is put again.
RowsHaveObjects ==
  \A a \in Archives, i \in Idx :
    Lookup(a) /\ chunk[a][i] # None /\ ~Purging(a)
      => blob[a][i] # None \/ <<a, i>> \in dropped

Finalizing(a) == \E s \in Jobs :
  job[s].a = a /\ job[s].pc \in {"toUploaded", "toAvailable"}

\* A finalized archive whose finalize has run can be acknowledged: the state
\* column, advisory elsewhere, is what linkArchiveAck decides on.  The exception
\* is an archive that lost a transition: init's or finalize's UPDATE failed
\* while it would have moved the row, or a finalize died before its second one.
AckReady ==
  \A a \in Archives : Readable(a) /\ ~Finalizing(a) /\ a \notin stalled
     => row[a].state \in AckableStates \cup {"acknowledged"}

\* The inits that can pass a check before the first of them inserts, not
\* counting that one.
Overtaking == Cardinality(Workers) - 1

\* archiveQuotaForUser: init counts the rows two statements before it inserts
\* one, and the rows it supersedes go in between, yet a user's active archives
\* exceed the quota by no more than the inits that overtake each other: when
\* inits come one after the other, never.
QuotaHeld == \A u \in Users : CountActive(u) <= UserQuota + Overtaking

\* Admission: the quota, and with instanceStagingBytesCap that the active
\* archives of all users declare no more bytes than the cap and one largest
\* plan for each init that overtakes another.
AdmissionHeld ==
  /\ QuotaHeld
  /\ \A p \in Plans : (\A q \in Plans : q.bytes <= p.bytes) =>
       SumActiveBytes <= StagingCap + Overtaking * p.bytes

\* The init of s removes the archive a in this step.
Supersedes(s, a) ==
  /\ job[s].kind = "init" /\ job[s].pc = "objects" /\ job[s].a = a
  /\ row[a] # None /\ row'[a] = None /\ job'[s] # job[s]

\* Not touched within the grace window; near the hard deadline the capped
\* expiry no longer tells when an archive was last touched.
Abandoned(a) == touched[a] + Grace <= now \/ touched[a] + Ttl > row[a].hard

\* supersedeAbandonedArchives removes only abandoned archives, whatever other
\* requests do between its listing and its DELETE, except those refreshed in
\* that window: the DELETE does not look at the row again.
SupersedeSparesActive ==
  [][\A s \in Workers, a \in Archives :
       Supersedes(s, a) => Abandoned(a) \/ <<s, a>> \in renewed]_vars

\* Every archive whose hard deadline the clock passes is removed, however
\* often handlers refresh it: stuck archives never outlive the deadline.
EventuallyCollected ==
  \A a \in Archives :
    row[a] # None /\ row[a].hard < MaxNow ~> row[a] = None

(***************************************************************************)
(* Statements the comments of the code make that its behaviour does not    *)
(* meet; README.md, "Known deviations", gives the constants that show it.  *)
(***************************************************************************)
\* What a download serves has the hash the chunk row and the manifest give it.
ReadableBytesMatch ==
  \A a \in Archives, i \in Idx :
    Readable(a) /\ chunk[a][i] # None /\ blob[a][i] # None
      => Sha256(blob[a][i]) = chunk[a][i].hash

\* "so a genuinely-active session is never preempted" (the comment on
\* linkArchiveDefaultSupersedeGrace).
NeverPreempted ==
  [][\A s \in Workers, a \in Archives : Supersedes(s, a) => Abandoned(a)]_vars

\* A row is unreachable once its expires_at has passed (migration 000031).
ExpiredStaysExpired ==
  [][\A a \in Archives : row[a] # None /\ row[a].expires <= now
       => row'[a] = None \/ ~Fresh(row'[a], now')]_vars

\* The object of an archive that was removed is itself removed in the end:
\* the supervised purger retries orphans on its next tick.
OrphansRetried ==
  \A a \in Archives, i \in Idx :
    a \in used /\ row[a] = None /\ blob[a][i] # None ~> blob[a][i] = None
=============================================================================
