---------------------------- MODULE IdentityProofs ----------------------------
(***************************************************************************)
(* Proofs about the device keys of an account: DeviceLink, in which a      *)
(* claim token adds a device at most once and a result is delivered only   *)
(* after the registration it announces, and the key transparency log that  *)
(* the same handlers append to.                                            *)
(*                                                                         *)
(* A claim is in one of four phases: not minted, stored, in the hands of   *)
(* the one handler that consumed it, used up.  ClaimStep says that every   *)
(* step of the system moves a claim forward in these phases or leaves it;  *)
(* ClaimInv, that it is in one phase at a time, follows.  The argument for *)
(* the log is at its section below.                                        *)
(***************************************************************************)
EXTENDS DeviceLink, TransparencyLog, RFC6962, FiniteSetTheorems,
        SequenceTheorems, WellFoundedInduction, TLAPS

\* The steps at which a job has a request, a user, a claim, a key.
RequestPcs == {"insertCode", "takeBack", "companion", "mint", "certificate",
               "register", "result"}
UserPcs == {"companion", "mint", "certificate", "register", "result",
            "certifyInsert"}
ClaimPcs == {"certificate", "register"}
KeyPcs == {"certificate", "register", "certifyInsert"}
CertifyPcs == {"certifyInsert"}

\* What a job's record holds at each of its steps; reqs is the table of
\* link requests.
JobOK(j, reqs) ==
  /\ j \in Job
  /\ j.pc \in RequestPcs => j.r \in Requests /\ reqs[j.r] # None
  /\ j.pc \in UserPcs => j.user \in Users
  /\ j.pc \in ClaimPcs => j.c \in Claims
  /\ j.pc \in KeyPcs => j.key \in Keys /\ j.dev \in Devices
  /\ j.pc \in CertifyPcs => j.newKey \in Keys /\ j.newDev \in Devices

\* Type correctness, strengthened to be inductive: a stored nonce, a shown
\* code and a running handler refer to a request that was made.
TypeInv ==
  /\ TypeOK
  /\ \A s \in Workers : JobOK(job[s], request)
  /\ \A n \in Nonces : nonce[n] # None => request[nonce[n].request] # None
  /\ \A r \in shown : request[r] # None

\* A worker without a request is well typed.
LEMMA IdleOK == \A reqs : JobOK(Idle, reqs)
BY DEF JobOK, Job, Idle, Pcs, RequestPcs, UserPcs, ClaimPcs, KeyPcs, CertifyPcs

\* Replacing one job by a well-typed one keeps the types when the other
\* tables do and no request is forgotten.
LEMMA JobUpdate ==
  ASSUME NEW s \in Workers, NEW j, TypeInv, JobOK(j, request'), job' = [job EXCEPT ![s] = j],
         \A r \in Requests : request[r] # None => request'[r] # None
  PROVE  job' \in [Workers -> Job] /\ \A t \in Workers : JobOK(job'[t], request')
<1>1. job \in [Workers -> Job] /\ \A t \in Workers : JobOK(job[t], request)
  BY DEF TypeInv, TypeOK
<1>2. j \in Job
  BY DEF JobOK
<1>3. job' \in [Workers -> Job] /\ job'[s] = j /\ \A t \in Workers \ {s} : job'[t] = job[t]
  BY <1>1, <1>2
<1>4. \A t \in Workers \ {s} : JobOK(job'[t], request')
  BY <1>1, <1>3 DEF JobOK, RequestPcs
<1>5. JobOK(job'[s], request')
  BY <1>3 DEF JobOK
<1> QED BY <1>3, <1>4, <1>5

\* Every nonce of the table has one of the four shapes.
LEMMA NonceShapes ==
  /\ \A r \in Requests : RequestNonce(r) \in Nonces /\ ResultNonce(r) \in Nonces
  /\ \A c \in Codes : CodeNonce(c) \in Nonces
  /\ \A c \in Claims : ClaimNonce(c) \in Nonces
BY DEF Nonces

\* The four kinds of nonce are kept apart by their prefix.
LEMMA NoncesApart ==
  /\ \A r, q : RequestNonce(r) # ResultNonce(q)
  /\ \A r, c : RequestNonce(r) # ClaimNonce(c) /\ RequestNonce(r) # CodeNonce(c)
  /\ \A r, c : ResultNonce(r) # ClaimNonce(c) /\ ResultNonce(r) # CodeNonce(c)
  /\ \A c, d : ClaimNonce(c) # CodeNonce(d)
  /\ \A c, d : ClaimNonce(c) = ClaimNonce(d) => c = d
  /\ \A r, q : ResultNonce(r) = ResultNonce(q) => r = q
BY DEF RequestNonce, ResultNonce, ClaimNonce, CodeNonce

\* The jobs' part of the type invariant, after a step.
JobsOKNext == job' \in [Workers -> Job] /\ \A t \in Workers : JobOK(job'[t], request')

\* Ending a handler keeps the jobs well typed.
LEMMA DoneOK ==
  ASSUME NEW s \in Workers, TypeInv, Done(s),
         \A r \in Requests : request[r] # None => request'[r] # None
  PROVE  JobsOKNext
BY IdleOK, JobUpdate DEF Done, JobsOKNext

\* So does moving it to a step whose fields it has filled in.
LEMMA GotoOK ==
  ASSUME NEW s \in Workers, NEW pc \in Pcs, TypeInv, Goto(s, pc), UNCHANGED request,
         pc \in RequestPcs => job[s].r \in Requests /\ request[job[s].r] # None,
         pc \in UserPcs => job[s].user \in Users,
         pc \in ClaimPcs => job[s].c \in Claims,
         pc \in KeyPcs => job[s].key \in Keys /\ job[s].dev \in Devices,
         pc \in CertifyPcs => job[s].newKey \in Keys /\ job[s].newDev \in Devices
  PROVE  JobsOKNext
<1> DEFINE j == [job[s] EXCEPT !.pc = pc]
<1>1. job[s] \in Job /\ job' = [job EXCEPT ![s] = j]
  BY DEF TypeInv, TypeOK, Goto
<1>2. j \in Job /\ j.pc = pc /\ j.r = job[s].r /\ j.user = job[s].user /\ j.c = job[s].c
      /\ j.key = job[s].key /\ j.dev = job[s].dev /\ j.newKey = job[s].newKey
      /\ j.newDev = job[s].newDev
  BY <1>1 DEF Job
<1> HIDE DEF j
<1>3. JobOK(j, request')
  BY <1>2 DEF JobOK
<1> QED BY <1>1, <1>3, JobUpdate DEF JobsOKNext

\* So does starting one.
LEMMA StartOK ==
  ASSUME NEW s \in Workers, NEW j, TypeInv, Start(s, j), JobOK(j, request'),
         \A r \in Requests : request[r] # None => request'[r] # None
  PROVE  JobsOKNext
BY JobUpdate DEF Start, JobsOKNext

\* What InsertAuthNonce, ConsumeAuthNonce and DeleteAuthNonce do to the table.
LEMMA InsertOK ==
  ASSUME NEW n \in Nonces, NEW r \in Requests, NEW by \in Users \cup {None}, NEW e \in Nat,
         TypeInv, InsertAuthNonce(n, r, by, e)
  PROVE  /\ nonce' \in [Nonces -> NonceRow \cup {None}]
         /\ \A m \in Nonces : m # n => nonce'[m] = nonce[m]
         /\ nonce'[n] # None /\ nonce'[n].request = r /\ nonce'[n].by = by
<1> DEFINE row == [request |-> r, by |-> by, expires |-> e]
<1>1. row \in NonceRow /\ row # None /\ row.request = r /\ row.by = by
  BY DeviceLinkAssumption DEF NonceRow
<1>2. nonce \in [Nonces -> NonceRow \cup {None}] /\ nonce' = [nonce EXCEPT ![n] = row]
  BY DEF TypeInv, TypeOK, InsertAuthNonce
<1> HIDE DEF row
<1> QED BY <1>1, <1>2

\* A delete leaves every other nonce alone.
LEMMA DeleteOK ==
  ASSUME NEW n, TypeInv, nonce' = [nonce EXCEPT ![n] = None]
  PROVE  /\ nonce' \in [Nonces -> NonceRow \cup {None}]
         /\ \A m \in Nonces : nonce'[m] = nonce[m] \/ (m = n /\ nonce'[m] = None)
BY DEF TypeInv, TypeOK

\* Every step keeps the types.
LEMMA NextType ==
  ASSUME TypeInv, [Next]_vars
  PROVE  TypeInv'
<1> USE DeviceLinkAssumption
<1>a. \A s \in Workers : JobOK(job[s], request) /\ job[s] \in Job
  BY DEF TypeInv, JobOK
<1>b. now \in Nat /\ request \in [Requests -> LinkPayload \cup {None}]
  BY DEF TypeInv, TypeOK
<1>c. \A n \in Nonces : nonce[n] # None =>
        nonce[n].request \in Requests /\ request[nonce[n].request] # None
  BY DEF TypeInv, TypeOK, NonceRow
<1>1. ASSUME NEW s \in Workers, NEW r \in Requests, NEW d \in Devices, NEW code \in Codes,
             LinkRequest(s, r, d, code)
      PROVE  TypeInv'
  <2> DEFINE p == [dev |-> d, code |-> code, expires |-> now + Expiry]
             j == [Idle EXCEPT !.pc = "insertCode", !.r = r]
  <2>1. p \in LinkPayload /\ p # None
    BY <1>b DEF LinkPayload
  <2>2. request' = [request EXCEPT ![r] = p] /\ Start(s, j)
        /\ InsertAuthNonce(RequestNonce(r), r, None, now + Expiry)
    BY <1>1 DEF LinkRequest
  <2> HIDE DEF p
  <2>3. /\ request' \in [Requests -> LinkPayload \cup {None}]
        /\ request'[r] # None
        /\ \A q \in Requests : request[q] # None => request'[q] # None
    BY <1>b, <2>1, <2>2
  <2>4. JobOK(j, request')
    BY <2>3 DEF JobOK, Job, Idle, Pcs, RequestPcs, UserPcs, ClaimPcs, KeyPcs, CertifyPcs
  <2> HIDE DEF j
  <2>5. JobsOKNext
    BY <2>2, <2>3, <2>4, StartOK
  <2>6. /\ nonce' \in [Nonces -> NonceRow \cup {None}]
        /\ \A m \in Nonces : m # RequestNonce(r) => nonce'[m] = nonce[m]
        /\ nonce'[RequestNonce(r)].request = r
    BY <1>b, <2>2, InsertOK, NonceShapes
  <2>7. \A n \in Nonces : nonce'[n] # None => request'[nonce'[n].request] # None
    BY <1>c, <2>3, <2>6
  <2> QED BY <1>1, <2>3, <2>5, <2>6, <2>7 DEF LinkRequest, TypeInv, TypeOK, JobsOKNext
<1>2. ASSUME NEW s \in Workers, LinkRequestCode(s)
      PROVE  TypeInv'
  <2> DEFINE r == job[s].r
             n == CodeNonce(request[r].code)
  <2>1. r \in Requests /\ request[r] # None /\ n \in Nonces /\ request[r].expires \in Nat
    BY <1>a, <1>b, <1>2, NonceShapes DEF LinkRequestCode, At, JobOK, RequestPcs, LinkPayload
  <2>2. JobsOKNext
    BY <1>2, <1>a, DoneOK, GotoOK
       DEF LinkRequestCode, At, JobOK, Pcs, RequestPcs, UserPcs, ClaimPcs, KeyPcs, CertifyPcs
  <2>3. CASE UNCHANGED <<nonce, shown>>
    BY <1>2, <2>2, <2>3 DEF LinkRequestCode, TypeInv, TypeOK, JobsOKNext
  <2>4. CASE InsertAuthNonce(n, r, None, request[r].expires) /\ shown' = shown \cup {r}
    <3>1. /\ nonce' \in [Nonces -> NonceRow \cup {None}]
          /\ \A m \in Nonces : m # n => nonce'[m] = nonce[m]
          /\ nonce'[n].request = r
      BY <2>1, <2>4, InsertOK
    <3> QED BY <1>2, <1>c, <2>1, <2>2, <2>4, <3>1 DEF LinkRequestCode, TypeInv, TypeOK, JobsOKNext
  <2> QED BY <1>2, <2>3, <2>4 DEF LinkRequestCode
<1>3. ASSUME NEW s \in Workers, LinkRequestTakeBack(s)
      PROVE  TypeInv'
  <2>1. JobsOKNext
    BY <1>3, DoneOK DEF LinkRequestTakeBack
  <2>2. /\ nonce' \in [Nonces -> NonceRow \cup {None}]
        /\ \A m \in Nonces : nonce'[m] = nonce[m] \/ nonce'[m] = None
    BY <1>3, DeleteOK DEF LinkRequestTakeBack, DeleteAuthNonce
  <2> QED BY <1>3, <1>c, <2>1, <2>2 DEF LinkRequestTakeBack, TypeInv, TypeOK, JobsOKNext
<1>4. ASSUME NEW s \in Workers, NEW u \in Users, NEW r \in Requests, NEW route \in Routes,
             LinkResolve(s, u, r, route)
      PROVE  TypeInv'
  <2> DEFINE n == IF route = "code" THEN CodeNonce(request[r].code) ELSE RequestNonce(r)
             j == [Idle EXCEPT !.pc = "companion", !.user = u, !.r = nonce[n].request,
                               !.route = route]
  <2>1. r \in shown /\ ConsumeAuthNonce(n) /\ Start(s, j)
    BY <1>4 DEF LinkResolve
  <2>2. request[r] # None /\ request[r].code \in Codes
    BY <1>b, <2>1 DEF TypeInv, LinkPayload
  <2>3. n \in Nonces
    BY <2>2, NonceShapes
  <2>4. nonce[n] # None /\ nonce' = [nonce EXCEPT ![n] = None]
    BY <2>1 DEF ConsumeAuthNonce, Live
  <2>5. nonce[n].request \in Requests /\ request[nonce[n].request] # None
    BY <1>c, <2>3, <2>4
  <2> HIDE DEF n
  <2>6. JobOK(j, request')
    BY <1>4, <2>5 DEF LinkResolve, JobOK, Job, Idle, Pcs, RequestPcs, UserPcs, ClaimPcs, KeyPcs, CertifyPcs
  <2> HIDE DEF j
  <2>7. JobsOKNext
    BY <1>4, <2>1, <2>6, StartOK DEF LinkResolve
  <2>8. /\ nonce' \in [Nonces -> NonceRow \cup {None}]
        /\ \A m \in Nonces : nonce'[m] = nonce[m] \/ nonce'[m] = None
    BY <2>4, DeleteOK
  <2> QED BY <1>4, <1>c, <2>7, <2>8 DEF LinkResolve, TypeInv, TypeOK, JobsOKNext
<1>5. ASSUME NEW s \in Workers, LinkResolveCompanion(s)
      PROVE  TypeInv'
  <2>1. JobsOKNext
    BY <1>5, <1>a, GotoOK
       DEF LinkResolveCompanion, At, JobOK, Pcs, RequestPcs, UserPcs, ClaimPcs, KeyPcs, CertifyPcs
  <2>2. /\ nonce' \in [Nonces -> NonceRow \cup {None}]
        /\ \A m \in Nonces : nonce'[m] = nonce[m] \/ nonce'[m] = None
    BY <1>5, DeleteOK DEF LinkResolveCompanion, DeleteAuthNonce, TypeInv, TypeOK
  <2> QED BY <1>5, <1>c, <2>1, <2>2 DEF LinkResolveCompanion, TypeInv, TypeOK, JobsOKNext
<1>6. ASSUME NEW s \in Workers, LinkResolveMint(s)
      PROVE  TypeInv'
  <2>1. PICK c \in Claims :
          /\ claimOf' = [claimOf EXCEPT ![c] = job[s].r]
          /\ holder' = [holder EXCEPT ![c] = job[s].user]
          /\ InsertAuthNonce(ClaimNonce(c), job[s].r, None, now + Expiry)
    BY <1>6 DEF LinkResolveMint
  <2>2. job[s].r \in Requests /\ request[job[s].r] # None /\ job[s].user \in Users
    BY <1>6, <1>a DEF LinkResolveMint, At, JobOK, RequestPcs, UserPcs
  <2>3. /\ nonce' \in [Nonces -> NonceRow \cup {None}]
        /\ \A m \in Nonces : m # ClaimNonce(c) => nonce'[m] = nonce[m]
        /\ nonce'[ClaimNonce(c)].request = job[s].r
    BY <1>b, <2>1, <2>2, InsertOK, NonceShapes
  <2>4. JobsOKNext
    BY <1>6, DoneOK DEF LinkResolveMint
  <2>5. \A n \in Nonces : nonce'[n] # None => request[nonce'[n].request] # None
    BY <1>c, <2>2, <2>3
  <2> QED BY <1>6, <2>1, <2>2, <2>3, <2>4, <2>5 DEF LinkResolveMint, TypeInv, TypeOK, JobsOKNext
<1>7. ASSUME NEW s \in Workers, NEW c \in Claims, NEW d \in Devices, NEW k \in Keys,
             LinkVerify(s, c, d, k)
      PROVE  TypeInv'
  <2> DEFINE n == ClaimNonce(c)
             j == [Idle EXCEPT !.pc = "certificate", !.user = holder[c], !.c = c,
                               !.r = nonce[n].request, !.dev = d, !.key = k]
  <2>1. ConsumeAuthNonce(n) /\ Start(s, j) /\ holder[c] \in Users
    BY <1>7 DEF LinkVerify, TypeInv, TypeOK
  <2>2. n \in Nonces /\ nonce[n] # None /\ nonce' = [nonce EXCEPT ![n] = None]
    BY <2>1, NonceShapes DEF ConsumeAuthNonce, Live
  <2>3. nonce[n].request \in Requests /\ request[nonce[n].request] # None
    BY <1>c, <2>2
  <2> HIDE DEF n
  <2>4. JobOK(j, request')
    BY <1>7, <2>1, <2>3 DEF LinkVerify, JobOK, Job, Idle, Pcs, RequestPcs, UserPcs, ClaimPcs, KeyPcs, CertifyPcs
  <2> HIDE DEF j
  <2>5. JobsOKNext
    BY <1>7, <2>1, <2>4, StartOK DEF LinkVerify
  <2>6. /\ nonce' \in [Nonces -> NonceRow \cup {None}]
        /\ \A m \in Nonces : nonce'[m] = nonce[m] \/ nonce'[m] = None
    BY <2>2, DeleteOK
  <2> QED BY <1>7, <1>c, <2>5, <2>6 DEF LinkVerify, TypeInv, TypeOK, JobsOKNext
<1>8. ASSUME NEW s \in Workers, LinkVerifyCertificate(s)
      PROVE  TypeInv'
  <2>1. JobsOKNext
    BY <1>8, <1>a, DoneOK, GotoOK
       DEF LinkVerifyCertificate, CheckCertificate, At, JobOK, Pcs,
           RequestPcs, UserPcs, ClaimPcs, KeyPcs, CertifyPcs
  <2> QED BY <1>8, <2>1 DEF LinkVerifyCertificate, TypeInv, TypeOK, JobsOKNext
<1>9. ASSUME NEW s \in Workers, LinkVerifyRegister(s)
      PROVE  TypeInv'
  <2>1. JobsOKNext
    BY <1>9, <1>a, GotoOK
       DEF LinkVerifyRegister, At, JobOK, Pcs, RequestPcs, UserPcs, ClaimPcs, KeyPcs, CertifyPcs
  <2>2. job[s].user \in Users /\ job[s].r \in Requests /\ job[s].c \in Claims /\ job[s].key \in Keys
    BY <1>9, <1>a DEF LinkVerifyRegister, At, JobOK, RequestPcs, UserPcs, ClaimPcs, KeyPcs
  <2>3. deviceKey' \in [Users -> [Devices -> Keys \cup {None}]]
    BY <1>9, <2>2 DEF LinkVerifyRegister, TypeInv, TypeOK
  <2>4. approved' \in [Claims -> Nat] /\ linked' \subseteq Users \X Requests
    BY <1>9, <2>2 DEF LinkVerifyRegister, TypeInv, TypeOK
  <2> QED BY <1>9, <2>1, <2>3, <2>4 DEF LinkVerifyRegister, TypeInv, TypeOK, JobsOKNext
<1>10. ASSUME NEW s \in Workers, LinkVerifyResult(s)
       PROVE  TypeInv'
  <2> DEFINE n == ResultNonce(job[s].r)
  <2>1. JobsOKNext
    BY <1>10, DoneOK DEF LinkVerifyResult
  <2>2. job[s].user \in Users /\ job[s].r \in Requests /\ request[job[s].r] # None /\ n \in Nonces
    BY <1>10, <1>a, NonceShapes DEF LinkVerifyResult, At, JobOK, RequestPcs, UserPcs
  <2>3. CASE UNCHANGED nonce
    BY <1>10, <2>1, <2>3 DEF LinkVerifyResult, TypeInv, TypeOK, JobsOKNext
  <2>4. CASE InsertAuthNonce(n, job[s].r, job[s].user, now + Expiry)
    <3>1. /\ nonce' \in [Nonces -> NonceRow \cup {None}]
          /\ \A m \in Nonces : m # n => nonce'[m] = nonce[m]
          /\ nonce'[n].request = job[s].r
      BY <1>b, <2>2, <2>4, InsertOK
    <3> QED BY <1>10, <1>c, <2>1, <2>2, <3>1 DEF LinkVerifyResult, TypeInv, TypeOK, JobsOKNext
  <2> QED BY <1>10, <2>3, <2>4 DEF LinkVerifyResult
<1>11. ASSUME NEW r \in Requests, LinkResult(r)
       PROVE  TypeInv'
  <2>1. /\ nonce' \in [Nonces -> NonceRow \cup {None}]
        /\ \A m \in Nonces : nonce'[m] = nonce[m] \/ nonce'[m] = None
    BY <1>11, DeleteOK DEF LinkResult, ConsumeAuthNonce
  <2>2. nonce[ResultNonce(r)].by \in Users \cup {None}
    BY <1>11, NonceShapes DEF LinkResult, ConsumeAuthNonce, Live, TypeInv, TypeOK, NonceRow
  <2>3. delivered' \in [Requests -> SUBSET (Users \cup {None})]
    BY <1>11, <2>2 DEF LinkResult, TypeInv, TypeOK
  <2> QED BY <1>11, <1>c, <2>1, <2>3 DEF LinkResult, TypeInv, TypeOK
<1>12. ASSUME NEW s \in Workers, NEW u \in Users, NEW d \in Devices, NEW nd \in Devices,
              NEW k \in Keys, NEW nk \in Keys, CertifyDevice(s, u, d, k, nd, nk)
       PROVE  TypeInv'
  <2> DEFINE j == [Idle EXCEPT !.pc = "certifyInsert", !.user = u, !.dev = d, !.key = k,
                               !.newDev = nd, !.newKey = nk]
  <2>1. JobOK(j, request') /\ Start(s, j)
    BY <1>12 DEF CertifyDevice, JobOK, Job, Idle, Pcs, RequestPcs, UserPcs, ClaimPcs, KeyPcs, CertifyPcs
  <2> HIDE DEF j
  <2>2. JobsOKNext
    BY <1>12, <2>1, StartOK DEF CertifyDevice
  <2> QED BY <1>12, <2>2 DEF CertifyDevice, TypeInv, TypeOK, JobsOKNext
<1>13. ASSUME NEW s \in Workers, CertifyInsert(s)
       PROVE  TypeInv'
  <2>1. JobsOKNext
    BY <1>13, DoneOK DEF CertifyInsert
  <2>2. job[s].newKey \in Keys
    BY <1>13, <1>a DEF CertifyInsert, At, JobOK, CertifyPcs
  <2> QED BY <1>13, <2>1, <2>2 DEF CertifyInsert, TypeInv, TypeOK, JobsOKNext
<1>14. ASSUME NEW s \in Workers, Abandon(s)
       PROVE  TypeInv'
  BY <1>14, DoneOK DEF Abandon, TypeInv, TypeOK, JobsOKNext
<1>15. ASSUME NEW u \in Users, NEW d \in Devices, RevokeDevice(u, d)
       PROVE  TypeInv'
  BY <1>15 DEF RevokeDevice, TypeInv, TypeOK
<1>16. ASSUME NEW u \in Users, RevokeAllDevices(u)
       PROVE  TypeInv'
  BY <1>16 DEF RevokeAllDevices, TypeInv, TypeOK
<1>17. CASE PurgeExpiredNonces
  <2>1. /\ nonce' \in [Nonces -> NonceRow \cup {None}]
        /\ \A m \in Nonces : nonce'[m] = nonce[m] \/ nonce'[m] = None
    BY <1>17 DEF PurgeExpiredNonces, TypeInv, TypeOK
  <2> QED BY <1>17, <1>c, <2>1 DEF PurgeExpiredNonces, TypeInv, TypeOK
<1>18. CASE Tick
  BY <1>18 DEF Tick, TypeInv, TypeOK
<1>19. CASE UNCHANGED vars
  BY <1>19 DEF vars, TypeInv, TypeOK
<1> QED
  BY <1>1, <1>2, <1>3, <1>4, <1>5, <1>6, <1>7, <1>8, <1>9, <1>10, <1>11, <1>12, <1>13,
     <1>14, <1>15, <1>16, <1>17, <1>18, <1>19 DEF Next

(***************************************************************************)
(* Claims.                                                                 *)
(***************************************************************************)
\* Job j holds the consumed claim c and has not registered a device with it.
Using(j, c) == j.pc \in ClaimPcs /\ j.c = c

\* What a step may do to claim c: nothing or drop its nonce; mint it; consume
\* it into one job; use it up in the job that holds it.
ClaimStep(c) ==
  LET n == ClaimNonce(c) IN
  \/ /\ nonce'[n] \in {nonce[n], None} /\ approved'[c] = approved[c]
     /\ claimOf'[c] = claimOf[c]
     /\ \A s \in Workers : Using(job'[s], c) => Using(job[s], c)
  \/ /\ claimOf[c] = None /\ claimOf'[c] # None /\ approved'[c] = approved[c]
     /\ \A s \in Workers : Using(job'[s], c) => Using(job[s], c)
  \/ /\ nonce[n] # None /\ nonce'[n] = None /\ approved'[c] = approved[c]
     /\ claimOf'[c] = claimOf[c]
     /\ \E t \in Workers : \A s \in Workers : Using(job'[s], c) => Using(job[s], c) \/ s = t
  \/ /\ nonce'[n] = nonce[n] /\ approved'[c] = approved[c] + 1
     /\ claimOf'[c] = claimOf[c]
     /\ \E t \in Workers : /\ Using(job[t], c)
                           /\ ~Using(job'[t], c)
                           /\ \A s \in Workers : Using(job'[s], c) => Using(job[s], c)

\* A job that is replaced by one without a claim.
LEMMA NoNewUse ==
  ASSUME TypeInv, NEW c, NEW t \in Workers, NEW j, job' = [job EXCEPT ![t] = j],
         Using(j, c) => Using(job[t], c)
  PROVE  \A s \in Workers : Using(job'[s], c) => Using(job[s], c)
<1>1. job \in [Workers -> Job]
  BY DEF TypeInv, TypeOK
<1>2. job'[t] = j /\ \A s \in Workers \ {t} : job'[s] = job[s]
  BY <1>1
<1> QED BY <1>2

\* Ending a handler gives no job a claim.
LEMMA DoneNoUse ==
  ASSUME TypeInv, NEW c, NEW t \in Workers, Done(t)
  PROVE  \A s \in Workers : Using(job'[s], c) => Using(job[s], c)
<1>1. ~Using(Idle, c)
  BY DEF Using, Idle, ClaimPcs
<1> QED BY <1>1, NoNewUse DEF Done

\* Nor does moving a handler within link-verify or outside it.
LEMMA GotoNoUse ==
  ASSUME TypeInv, NEW c, NEW t \in Workers, NEW pc, Goto(t, pc),
         pc \in ClaimPcs => job[t].pc \in ClaimPcs
  PROVE  \A s \in Workers : Using(job'[s], c) => Using(job[s], c)
<1> DEFINE j == [job[t] EXCEPT !.pc = pc]
<1>1. job \in [Workers -> Job]
  BY DEF TypeInv, TypeOK
<1>2. j.pc = pc /\ j.c = job[t].c /\ job' = [job EXCEPT ![t] = j]
  BY <1>1 DEF Job, Goto
<1> HIDE DEF j
<1> QED BY <1>2, NoNewUse DEF Using

\* Nor does starting any handler but link-verify.
LEMMA StartNoUse ==
  ASSUME TypeInv, NEW c, NEW t \in Workers, NEW j, Start(t, j), j.pc \notin ClaimPcs
  PROVE  \A s \in Workers : Using(job'[s], c) => Using(job[s], c)
BY NoNewUse DEF Start, Using

\* Every step of the system is a ClaimStep for every claim.
LEMMA NextClaim ==
  ASSUME TypeInv, [Next]_vars, NEW c \in Claims
  PROVE  ClaimStep(c)
<1> USE DeviceLinkAssumption
<1> DEFINE n == ClaimNonce(c)
<1>a. n \in Nonces /\ nonce \in [Nonces -> NonceRow \cup {None}] /\ job \in [Workers -> Job]
  BY NonceShapes DEF TypeInv, TypeOK
<1>b. ASSUME nonce'[n] \in {nonce[n], None}, approved'[c] = approved[c],
             claimOf'[c] = claimOf[c],
             \A s \in Workers : Using(job'[s], c) => Using(job[s], c)
      PROVE  ClaimStep(c)
  BY <1>b DEF ClaimStep
<1>1. ASSUME NEW s \in Workers, NEW r \in Requests, NEW d \in Devices, NEW code \in Codes,
             LinkRequest(s, r, d, code)
      PROVE  ClaimStep(c)
  <2>1. nonce'[n] = nonce[n]
    BY <1>a, <1>1, NoncesApart DEF LinkRequest, InsertAuthNonce
  <2> DEFINE j == [Idle EXCEPT !.pc = "insertCode", !.r = r]
  <2>2. Start(s, j) /\ j.pc \notin ClaimPcs
    BY <1>1 DEF LinkRequest, Idle, ClaimPcs
  <2> HIDE DEF j
  <2> QED BY <1>b, <1>1, <2>1, <2>2, StartNoUse DEF LinkRequest
<1>2. ASSUME NEW s \in Workers, LinkRequestCode(s)
      PROVE  ClaimStep(c)
  <2>1. nonce'[n] = nonce[n]
    BY <1>a, <1>2, NoncesApart DEF LinkRequestCode, InsertAuthNonce
  <2> QED BY <1>b, <1>2, <2>1, DoneNoUse, GotoNoUse DEF LinkRequestCode, ClaimPcs
<1>3. ASSUME NEW s \in Workers, LinkRequestTakeBack(s)
      PROVE  ClaimStep(c)
  <2>1. nonce'[n] \in {nonce[n], None}
    BY <1>a, <1>3 DEF LinkRequestTakeBack, DeleteAuthNonce
  <2> QED BY <1>b, <1>3, <2>1, DoneNoUse DEF LinkRequestTakeBack
<1>4. ASSUME NEW s \in Workers, NEW u \in Users, NEW r \in Requests, NEW route \in Routes,
             LinkResolve(s, u, r, route)
      PROVE  ClaimStep(c)
  <2>1. nonce'[n] \in {nonce[n], None}
    BY <1>a, <1>4 DEF LinkResolve, ConsumeAuthNonce
  <2> DEFINE m == IF route = "code" THEN CodeNonce(request[r].code) ELSE RequestNonce(r)
             j == [Idle EXCEPT !.pc = "companion", !.user = u, !.r = nonce[m].request,
                               !.route = route]
  <2>2. Start(s, j) /\ j.pc \notin ClaimPcs
    BY <1>4 DEF LinkResolve, Idle, ClaimPcs
  <2> HIDE DEF j
  <2> QED BY <1>b, <1>4, <2>1, <2>2, StartNoUse DEF LinkResolve
<1>5. ASSUME NEW s \in Workers, LinkResolveCompanion(s)
      PROVE  ClaimStep(c)
  <2>1. nonce'[n] \in {nonce[n], None}
    BY <1>a, <1>5 DEF LinkResolveCompanion, DeleteAuthNonce
  <2> QED BY <1>b, <1>5, <2>1, GotoNoUse DEF LinkResolveCompanion, ClaimPcs
<1>6. ASSUME NEW s \in Workers, LinkResolveMint(s)
      PROVE  ClaimStep(c)
  <2>1. PICK d \in Claims :
          /\ claimOf[d] = None
          /\ claimOf' = [claimOf EXCEPT ![d] = job[s].r]
          /\ InsertAuthNonce(ClaimNonce(d), job[s].r, None, now + Expiry)
    BY <1>6 DEF LinkResolveMint
  <2>2. claimOf \in [Claims -> Requests \cup {None}] /\ job[s].r \in Requests /\ job[s].r # None
    BY <1>6 DEF LinkResolveMint, At, TypeInv, TypeOK, JobOK, RequestPcs
  <2>3. approved'[c] = approved[c] /\ \A t \in Workers : Using(job'[t], c) => Using(job[t], c)
    BY <1>6, DoneNoUse DEF LinkResolveMint
  <2>4. CASE c = d
    BY <2>1, <2>2, <2>3, <2>4 DEF ClaimStep
  <2>5. CASE c # d
    <3>1. nonce'[n] = nonce[n] /\ claimOf'[c] = claimOf[c]
      BY <1>a, <2>1, <2>2, <2>5, NoncesApart DEF InsertAuthNonce
    <3> QED BY <1>b, <2>3, <3>1
  <2> QED BY <2>4, <2>5
<1>7. ASSUME NEW s \in Workers, NEW d \in Claims, NEW dev \in Devices, NEW k \in Keys,
             LinkVerify(s, d, dev, k)
      PROVE  ClaimStep(c)
  <2> DEFINE m == ClaimNonce(d)
             j == [Idle EXCEPT !.pc = "certificate", !.user = holder[d], !.c = d,
                               !.r = nonce[m].request, !.dev = dev, !.key = k]
  <2>1. nonce[m] # None /\ nonce' = [nonce EXCEPT ![m] = None]
        /\ job' = [job EXCEPT ![s] = j] /\ UNCHANGED <<approved, claimOf>>
    BY <1>7 DEF LinkVerify, ConsumeAuthNonce, Live, Start
  <2>2. j.c = d
    BY DEF Idle
  <2> HIDE DEF j
  <2>3. CASE c = d
    <3>1. nonce'[n] = None /\ nonce[n] # None
      BY <1>a, <2>1, <2>3
    <3>2. \A t \in Workers : t # s => job'[t] = job[t]
      BY <1>a, <2>1
    <3> QED BY <2>1, <3>1, <3>2 DEF ClaimStep
  <2>4. CASE c # d
    <3>1. nonce'[n] = nonce[n]
      BY <1>a, <2>1, <2>4, NoncesApart
    <3>2. \A t \in Workers : Using(job'[t], c) => Using(job[t], c)
      BY <2>1, <2>2, <2>4, NoNewUse DEF Using
    <3> QED BY <1>b, <2>1, <3>1, <3>2
  <2> QED BY <2>3, <2>4
<1>8. ASSUME NEW s \in Workers, LinkVerifyCertificate(s)
      PROVE  ClaimStep(c)
  BY <1>b, <1>8, DoneNoUse, GotoNoUse
     DEF LinkVerifyCertificate, CheckCertificate, At, ClaimPcs
<1>9. ASSUME NEW s \in Workers, LinkVerifyRegister(s)
      PROVE  ClaimStep(c)
  <2>1. \A t \in Workers : Using(job'[t], c) => Using(job[t], c)
    BY <1>9, GotoNoUse DEF LinkVerifyRegister, ClaimPcs
  <2>2. job[s].pc = "register" /\ job[s].c \in Claims /\ job'[s].pc = "result"
    BY <1>a, <1>9 DEF LinkVerifyRegister, At, Goto, TypeInv, JobOK, ClaimPcs, Job
  <2>3. approved \in [Claims -> Nat] /\ approved' = [approved EXCEPT ![job[s].c] = @ + 1]
        /\ UNCHANGED <<nonce, claimOf>>
    BY <1>9 DEF LinkVerifyRegister, TypeInv, TypeOK
  <2>4. CASE c = job[s].c
    <3>1. Using(job[s], c) /\ ~Using(job'[s], c)
      BY <2>2, <2>4 DEF Using, ClaimPcs
    <3>2. approved'[c] = approved[c] + 1
      BY <2>3, <2>4
    <3> QED BY <2>1, <2>3, <3>1, <3>2 DEF ClaimStep
  <2>5. CASE c # job[s].c
    BY <1>b, <2>1, <2>3, <2>5
  <2> QED BY <2>4, <2>5
<1>10. ASSUME NEW s \in Workers, LinkVerifyResult(s)
       PROVE  ClaimStep(c)
  <2>1. nonce'[n] = nonce[n]
    BY <1>a, <1>10, NoncesApart DEF LinkVerifyResult, InsertAuthNonce
  <2> QED BY <1>b, <1>10, <2>1, DoneNoUse DEF LinkVerifyResult
<1>11. ASSUME NEW r \in Requests, LinkResult(r)
       PROVE  ClaimStep(c)
  <2>1. nonce'[n] \in {nonce[n], None}
    BY <1>a, <1>11 DEF LinkResult, ConsumeAuthNonce
  <2> QED BY <1>b, <1>11, <2>1 DEF LinkResult
<1>12. ASSUME NEW s \in Workers, NEW u \in Users, NEW d \in Devices, NEW nd \in Devices,
              NEW k \in Keys, NEW nk \in Keys, CertifyDevice(s, u, d, k, nd, nk)
       PROVE  ClaimStep(c)
  <2> DEFINE j == [Idle EXCEPT !.pc = "certifyInsert", !.user = u, !.dev = d, !.key = k,
                               !.newDev = nd, !.newKey = nk]
  <2>1. Start(s, j) /\ j.pc \notin ClaimPcs
    BY <1>12 DEF CertifyDevice, Idle, ClaimPcs
  <2> HIDE DEF j
  <2> QED BY <1>b, <1>12, <2>1, StartNoUse DEF CertifyDevice
<1>13. ASSUME NEW s \in Workers, CertifyInsert(s) \/ Abandon(s)
       PROVE  ClaimStep(c)
  BY <1>b, <1>13, DoneNoUse DEF CertifyInsert, Abandon
<1>14. CASE PurgeExpiredNonces
  <2>1. nonce'[n] \in {nonce[n], None}
    BY <1>a, <1>14 DEF PurgeExpiredNonces
  <2> QED BY <1>b, <1>14, <2>1 DEF PurgeExpiredNonces
<1>15. ASSUME UNCHANGED <<nonce, claimOf, approved, job>>
       PROVE  ClaimStep(c)
  BY <1>b, <1>15
<1> QED
  BY <1>1, <1>2, <1>3, <1>4, <1>5, <1>6, <1>7, <1>8, <1>9, <1>10, <1>11, <1>12, <1>13,
     <1>14, <1>15 DEF Next, RevokeDevice, RevokeAllDevices, Tick, vars

\* A claim that is not minted is nowhere; a stored one is unused and in no
\* handler's hands; a consumed one is in one handler's hands, unused.
ClaimInv(c) ==
  LET n == ClaimNonce(c) IN
  /\ claimOf[c] = None => nonce[n] = None /\ approved[c] = 0
                          /\ \A s \in Workers : ~Using(job[s], c)
  /\ nonce[n] # None => approved[c] = 0 /\ \A s \in Workers : ~Using(job[s], c)
  /\ \A s \in Workers : Using(job[s], c) =>
       approved[c] = 0 /\ \A t \in Workers : Using(job[t], c) => t = s
  /\ approved[c] \in {0, 1}

\* A handler about to store a result has registered the device, and so had
\* whoever stored or delivered one.
ResultInv ==
  /\ \A s \in Workers : job[s].pc = "result" => <<job[s].user, job[s].r>> \in linked
  /\ ResultAfterRegistration

\* The inductive invariant.
Inv == TypeInv /\ (\A c \in Claims : ClaimInv(c)) /\ ResultInv

\* The invariant holds of empty tables.
LEMMA InitInv == Init => Inv
<1> USE DeviceLinkAssumption
<1> SUFFICES ASSUME Init PROVE Inv
  OBVIOUS
<1>1. TypeInv
  BY IdleOK DEF Init, TypeInv, TypeOK, JobOK
<1>2. \A s \in Workers : job[s].pc = "idle"
  BY DEF Init, Idle
<1>3. \A n \in Nonces : nonce[n] = None
  BY DEF Init
<1>4. \A c \in Claims : ClaimInv(c)
  BY <1>2, <1>3, NonceShapes DEF Init, ClaimInv, Using, ClaimPcs
<1>5. ResultInv
  BY <1>2, <1>3, NonceShapes DEF Init, ResultInv, ResultAfterRegistration
<1> QED BY <1>1, <1>4, <1>5 DEF Inv

\* Every step preserves the phases of a claim.
LEMMA NextClaimInv ==
  ASSUME Inv, [Next]_vars, NEW c \in Claims
  PROVE  ClaimInv(c)'
<1>1. ClaimStep(c) /\ ClaimInv(c)
  BY NextClaim DEF Inv
<1> QED BY <1>1 DEF ClaimStep, ClaimInv

\* A job that comes to the last step of link-verify has just inserted the
\* device key, and the pairs recorded in linked stay.
LEMMA NextResultJob ==
  ASSUME TypeInv, [Next]_vars, NEW s \in Workers, job'[s].pc = "result"
  PROVE  \/ job[s].pc = "result" /\ job'[s].user = job[s].user /\ job'[s].r = job[s].r
         \/ <<job'[s].user, job'[s].r>> \in linked'
<1>a. job \in [Workers -> Job]
  BY DEF TypeInv, TypeOK
<1>b. ASSUME NEW t \in Workers, NEW j, job' = [job EXCEPT ![t] = j], j.pc # "result"
      PROVE  job'[s] = job[s]
  BY <1>a, <1>b
<1>c. ASSUME NEW t \in Workers, NEW pc, Goto(t, pc), pc # "result"
      PROVE  job'[s] = job[s]
  <2> DEFINE j == [job[t] EXCEPT !.pc = pc]
  <2>1. j.pc # "result" /\ job' = [job EXCEPT ![t] = j]
    BY <1>a, <1>c DEF Job, Goto
  <2> HIDE DEF j
  <2> QED BY <1>b, <2>1
<1>d. ASSUME NEW t \in Workers, Done(t)
      PROVE  job'[s] = job[s]
  BY <1>b, <1>d DEF Done, Idle
<1>e. ASSUME NEW t \in Workers, NEW j, Start(t, j), j.pc # "result"
      PROVE  job'[s] = job[s]
  BY <1>b, <1>e DEF Start
<1>1. ASSUME NEW t \in Workers, LinkVerifyRegister(t)
      PROVE  \/ job[s].pc = "result" /\ job'[s].user = job[s].user /\ job'[s].r = job[s].r
             \/ <<job'[s].user, job'[s].r>> \in linked'
  BY <1>a, <1>1 DEF LinkVerifyRegister, Goto, Job
<1>2. ASSUME NEW t \in Workers,
             \/ \E r \in Requests, d \in Devices, c \in Codes : LinkRequest(t, r, d, c)
             \/ \E u \in Users, r \in Requests, route \in Routes : LinkResolve(t, u, r, route)
             \/ \E c \in Claims, d \in Devices, k \in Keys : LinkVerify(t, c, d, k)
             \/ \E u \in Users, d, nd \in Devices, k, nk \in Keys :
                  CertifyDevice(t, u, d, k, nd, nk)
      PROVE  job'[s] = job[s]
  <2>1. ASSUME NEW r \in Requests, NEW d \in Devices, NEW c \in Codes, LinkRequest(t, r, d, c)
        PROVE  job'[s] = job[s]
    <3> DEFINE j == [Idle EXCEPT !.pc = "insertCode", !.r = r]
    <3>1. Start(t, j) /\ j.pc # "result"
      BY <2>1 DEF LinkRequest, Idle
    <3> HIDE DEF j
    <3> QED BY <1>e, <3>1
  <2>2. ASSUME NEW u \in Users, NEW r \in Requests, NEW route \in Routes,
               LinkResolve(t, u, r, route)
        PROVE  job'[s] = job[s]
    <3> DEFINE n == IF route = "code" THEN CodeNonce(request[r].code) ELSE RequestNonce(r)
               j == [Idle EXCEPT !.pc = "companion", !.user = u, !.r = nonce[n].request,
                                 !.route = route]
    <3>1. Start(t, j) /\ j.pc # "result"
      BY <2>2 DEF LinkResolve, Idle
    <3> HIDE DEF j
    <3> QED BY <1>e, <3>1
  <2>3. ASSUME NEW c \in Claims, NEW d \in Devices, NEW k \in Keys, LinkVerify(t, c, d, k)
        PROVE  job'[s] = job[s]
    <3> DEFINE j == [Idle EXCEPT !.pc = "certificate", !.user = holder[c], !.c = c,
                       !.r = nonce[ClaimNonce(c)].request, !.dev = d, !.key = k]
    <3>1. Start(t, j) /\ j.pc # "result"
      BY <2>3 DEF LinkVerify, Idle
    <3> HIDE DEF j
    <3> QED BY <1>e, <3>1
  <2>4. ASSUME NEW u \in Users, NEW d \in Devices, NEW nd \in Devices, NEW k \in Keys,
               NEW nk \in Keys, CertifyDevice(t, u, d, k, nd, nk)
        PROVE  job'[s] = job[s]
    <3> DEFINE j == [Idle EXCEPT !.pc = "certifyInsert", !.user = u, !.dev = d, !.key = k,
                                 !.newDev = nd, !.newKey = nk]
    <3>1. Start(t, j) /\ j.pc # "result"
      BY <2>4 DEF CertifyDevice, Idle
    <3> HIDE DEF j
    <3> QED BY <1>e, <3>1
  <2> QED BY <1>2, <2>1, <2>2, <2>3, <2>4
<1>3. ASSUME NEW t \in Workers,
             LinkRequestCode(t) \/ LinkRequestTakeBack(t) \/ LinkResolveCompanion(t)
             \/ LinkResolveMint(t) \/ LinkVerifyCertificate(t) \/ LinkVerifyResult(t)
             \/ CertifyInsert(t) \/ Abandon(t)
      PROVE  job'[s] = job[s]
  BY <1>3, <1>c, <1>d
     DEF LinkRequestCode, LinkRequestTakeBack, LinkResolveCompanion, LinkResolveMint,
         LinkVerifyCertificate, CheckCertificate, LinkVerifyResult,
         CertifyInsert, Abandon
<1> QED
  BY <1>1, <1>2, <1>3
     DEF Next, LinkResult, RevokeDevice, RevokeAllDevices, PurgeExpiredNonces, Tick, vars

\* Only link-verify stores a result, for a pair that is already linked.
LEMMA NextResultNonce ==
  ASSUME Inv, [Next]_vars, NEW r \in Requests
  PROVE  LET n == ResultNonce(r) IN
         /\ linked \subseteq linked'
         /\ \/ nonce'[n] \in {nonce[n], None}
            \/ <<nonce'[n].by, r>> \in linked
         /\ \A u \in delivered'[r] : u \in delivered[r] \/ <<u, r>> \in linked
<1> USE DeviceLinkAssumption
<1> DEFINE n == ResultNonce(r)
           Goal == /\ linked \subseteq linked'
                   /\ \/ nonce'[n] \in {nonce[n], None}
                      \/ <<nonce'[n].by, r>> \in linked
                   /\ \A u \in delivered'[r] : u \in delivered[r] \/ <<u, r>> \in linked
<1> SUFFICES Goal
  OBVIOUS
<1>a. n \in Nonces /\ nonce \in [Nonces -> NonceRow \cup {None}]
  BY NonceShapes DEF Inv, TypeInv, TypeOK
<1>1. ASSUME NEW q \in Requests, LinkResult(q)
      PROVE  Goal
  <2>1. nonce[ResultNonce(q)] # None /\ nonce' = [nonce EXCEPT ![ResultNonce(q)] = None]
        /\ delivered' = [delivered EXCEPT ![q] = @ \cup {nonce[ResultNonce(q)].by}]
        /\ linked' = linked
    BY <1>1 DEF LinkResult, ConsumeAuthNonce, Live
  <2>2. <<nonce[ResultNonce(q)].by, q>> \in linked
    BY <2>1 DEF Inv, ResultInv, ResultAfterRegistration
  <2>3. delivered \in [Requests -> SUBSET (Users \cup {None})]
    BY DEF Inv, TypeInv, TypeOK
  <2> QED BY <1>a, <2>1, <2>2, <2>3
<1>2. ASSUME NEW s \in Workers, LinkVerifyResult(s)
      PROVE  Goal
  <2> DEFINE m == ResultNonce(job[s].r)
  <2>1. <<job[s].user, job[s].r>> \in linked /\ UNCHANGED <<linked, delivered>>
    BY <1>2 DEF LinkVerifyResult, At, Inv, ResultInv
  <2>2. UNCHANGED nonce \/ InsertAuthNonce(m, job[s].r, job[s].user, now + Expiry)
    BY <1>2 DEF LinkVerifyResult
  <2>3. CASE n = m /\ InsertAuthNonce(m, job[s].r, job[s].user, now + Expiry)
    <3>1. nonce'[n].by = job[s].user /\ r = job[s].r
      BY <1>a, <2>3, NoncesApart DEF InsertAuthNonce
    <3> QED BY <2>1, <3>1
  <2>4. CASE n # m /\ InsertAuthNonce(m, job[s].r, job[s].user, now + Expiry)
    BY <1>a, <2>1, <2>4 DEF InsertAuthNonce
  <2> QED BY <2>1, <2>2, <2>3, <2>4
<1>3. ASSUME NEW s \in Workers, LinkVerifyRegister(s)
      PROVE  Goal
  BY <1>3 DEF LinkVerifyRegister
<1>4. ASSUME UNCHANGED <<linked, delivered>>, nonce'[n] \in {nonce[n], None}
      PROVE  Goal
  BY <1>4
<1>5. ASSUME NEW s \in Workers,
             \/ \E q \in Requests, d \in Devices, c \in Codes : LinkRequest(s, q, d, c)
             \/ LinkRequestCode(s) \/ LinkResolveMint(s)
      PROVE  Goal
  <2>1. \E m : m # n /\ (nonce' = nonce \/ \E q, by, e : InsertAuthNonce(m, q, by, e))
    <3>1. CASE \E q \in Requests, d \in Devices, c \in Codes : LinkRequest(s, q, d, c)
      BY <3>1, NoncesApart DEF LinkRequest
    <3>2. CASE LinkRequestCode(s)
      BY <3>2, NoncesApart DEF LinkRequestCode
    <3>3. CASE LinkResolveMint(s)
      BY <3>3, NoncesApart DEF LinkResolveMint
    <3> QED BY <1>5, <3>1, <3>2, <3>3
  <2>2. nonce'[n] = nonce[n]
    BY <1>a, <2>1 DEF InsertAuthNonce
  <2> QED BY <1>4, <1>5, <2>2 DEF LinkRequest, LinkRequestCode, LinkResolveMint
<1>6. ASSUME NEW s \in Workers,
             \/ \E u \in Users, q \in Requests, route \in Routes : LinkResolve(s, u, q, route)
             \/ \E c \in Claims, d \in Devices, k \in Keys : LinkVerify(s, c, d, k)
             \/ LinkRequestTakeBack(s) \/ LinkResolveCompanion(s)
      PROVE  Goal
  <2>1. UNCHANGED nonce \/ \E m : nonce' = [nonce EXCEPT ![m] = None]
    BY <1>6 DEF LinkResolve, LinkVerify, LinkRequestTakeBack, LinkResolveCompanion,
                ConsumeAuthNonce, DeleteAuthNonce
  <2>2. nonce'[n] \in {nonce[n], None}
    BY <1>a, <2>1
  <2> QED BY <1>4, <1>6, <2>2 DEF LinkResolve, LinkVerify, LinkRequestTakeBack, LinkResolveCompanion
<1>7. CASE PurgeExpiredNonces
  <2>1. nonce'[n] \in {nonce[n], None}
    BY <1>a, <1>7 DEF PurgeExpiredNonces
  <2> QED BY <1>4, <1>7, <2>1 DEF PurgeExpiredNonces
<1>8. ASSUME NEW s \in Workers,
             \/ \E u \in Users, d, nd \in Devices, k, nk \in Keys :
                  CertifyDevice(s, u, d, k, nd, nk)
             \/ LinkVerifyCertificate(s) \/ CertifyInsert(s)
             \/ Abandon(s)
      PROVE  UNCHANGED <<linked, delivered, nonce>>
  BY <1>8 DEF CertifyDevice, LinkVerifyCertificate, CertifyInsert, Abandon
<1> HIDE DEF Goal
<1> QED
  BY <1>1, <1>2, <1>3, <1>4, <1>5, <1>6, <1>7, <1>8
     DEF Next, RevokeDevice, RevokeAllDevices, Tick, vars

\* Every step preserves ResultInv.
LEMMA NextResultInv ==
  ASSUME Inv, [Next]_vars
  PROVE  ResultInv'
<1>1. \A r \in Requests :
        /\ linked \subseteq linked'
        /\ \/ nonce'[ResultNonce(r)] \in {nonce[ResultNonce(r)], None}
           \/ <<nonce'[ResultNonce(r)].by, r>> \in linked
        /\ \A u \in delivered'[r] : u \in delivered[r] \/ <<u, r>> \in linked
  BY NextResultNonce
<1>2. ResultAfterRegistration'
  BY <1>1 DEF Inv, ResultInv, ResultAfterRegistration
<1>3. ASSUME NEW s \in Workers, job'[s].pc = "result"
      PROVE  <<job'[s].user, job'[s].r>> \in linked'
  <2>1. \/ job[s].pc = "result" /\ job'[s].user = job[s].user /\ job'[s].r = job[s].r
        \/ <<job'[s].user, job'[s].r>> \in linked'
    BY <1>3, NextResultJob DEF Inv
  <2>2. job[s].pc = "result" => <<job[s].user, job[s].r>> \in linked /\ job[s].r \in Requests
    BY DEF Inv, TypeInv, JobOK, RequestPcs, ResultInv
  <2> QED BY <1>1, <2>1, <2>2
<1> QED BY <1>2, <1>3 DEF ResultInv

\* The inductive invariant holds in every state of every instance.
THEOREM Invariance == Spec => []Inv
<1>1. ASSUME Inv, [Next]_vars
      PROVE  Inv'
  BY <1>1, NextType, NextClaimInv, NextResultInv DEF Inv
<1> QED BY <1>1, InitInv, PTL DEF Spec

\* Type correctness of the linking tables and handlers.
THEOREM TypeCorrect == Spec => []TypeOK
<1>1. Inv => TypeOK
  BY DEF Inv, TypeInv
<1> QED BY <1>1, Invariance, PTL

\* A claim token leads to at most one device key, for any number of accounts,
\* devices, retries and interleavings, and with handlers that stop anywhere
\* (linkVerify consumes the claim before anything else).
THEOREM ClaimsAreSingleUse == Spec => []ClaimSingleUse
<1>1. Inv => ClaimSingleUse
  BY DEF Inv, ClaimInv, ClaimSingleUse
<1> QED BY <1>1, Invariance, PTL

\* A new device is told it is linked only by an account that has registered its
\* key (the order of statements in linkVerify), whatever interleaves.
THEOREM ResultsAfterRegistration == Spec => []ResultAfterRegistration
<1>1. Inv => ResultAfterRegistration
  BY DEF Inv, ResultInv
<1> QED BY <1>1, Invariance, PTL

(***************************************************************************)
(* Induction, powers of two and halving.                                   *)
(***************************************************************************)
\* Induction over the natural numbers, for a set of numbers.
LEMMA NatClosed ==
  ASSUME NEW S \in SUBSET Nat, 0 \in S, \A n \in S : n + 1 \in S
  PROVE  \A n \in Nat : n \in S
<1> DEFINE bad == Nat \ S
<1>1. CASE bad = {}
  BY <1>1
<1>2. CASE bad # {}
  <2>1. bad \in SUBSET Nat
    OBVIOUS
  <2>2. \E m \in bad : \A n \in bad : ~ (<<n, m>> \in OpToRel(<, Nat))
    <3> HIDE DEF bad
    <3> QED BY <1>2, <2>1, NatLessThanWellFounded, WFMin
  <2>3. PICK m \in bad : \A n \in bad : ~ (<<n, m>> \in OpToRel(<, Nat))
    BY <2>2
  <2>4. m \in Nat /\ m # 0 /\ m - 1 \in Nat /\ m - 1 < m
    OBVIOUS
  <2>5. m - 1 \in bad
    BY <2>4
  <2> QED BY <2>3, <2>4, <2>5 DEF OpToRel
<1> QED BY <1>1, <1>2

\* Of a non-empty set of numbers one is the least.
LEMMA NatLeast ==
  ASSUME NEW T \in SUBSET Nat, T # {}
  PROVE  \E m \in T : \A n \in T : m <= n
<1>1. \E m \in T : \A n \in T : ~ (<<n, m>> \in OpToRel(<, Nat))
  BY NatLessThanWellFounded, WFMin
<1>2. \A m, n \in T : ~ (<<n, m>> \in OpToRel(<, Nat)) => m <= n
  BY DEF OpToRel
<1> QED BY <1>1, <1>2

\* Powers of two, from the number of subsets of a set.
LEMMA Powers ==
  /\ 2^0 = 1
  /\ \A k \in Nat : 2^k \in Nat /\ 2^k > 0 /\ 2^(k + 1) = 2 * 2^k
<1>1. 2^0 = 1
  OBVIOUS
<1>2. ASSUME NEW k \in Nat
      PROVE  2^k \in Nat /\ 2^(k + 1) = 2 * 2^k
  <2> DEFINE A == 1 .. k
             B == 1 .. (k + 1)
             with == {s \in SUBSET B : k + 1 \in s}
             h == [s \in SUBSET A |-> s \cup {k + 1}]
  <2>1. IsFiniteSet(A) /\ Cardinality(A) = k /\ IsFiniteSet(B) /\ Cardinality(B) = k + 1
    <3>1. \A n \in Nat : IsFiniteSet(1 .. n) /\ Cardinality(1 .. n) = IF 1 > n THEN 0 ELSE n - 1 + 1
      BY FS_Interval
    <3>2. \A n \in Nat : (IF 1 > n THEN 0 ELSE n - 1 + 1) = n
      OBVIOUS
    <3> QED BY <3>1, <3>2
  <2>2. /\ IsFiniteSet(SUBSET A) /\ Cardinality(SUBSET A) = 2^k
        /\ IsFiniteSet(SUBSET B) /\ Cardinality(SUBSET B) = 2^(k + 1)
    <3> HIDE DEF A, B
    <3> QED BY <2>1, FS_SUBSET
  <2>3. Cardinality(SUBSET A) \in Nat /\ Cardinality(SUBSET B) \in Nat
    BY <2>2, FS_CardinalityType
  <2>4. B = A \cup {k + 1} /\ k + 1 \notin A
    OBVIOUS
  <2>5. h \in Bijection(SUBSET A, with)
    <3> HIDE DEF A, B
    <3>1. \A s \in SUBSET A : h[s] \in with
      BY <2>4
    <3>2. \A s, t \in SUBSET A : h[s] = h[t] => s = t
      <4> SUFFICES ASSUME NEW s \in SUBSET A, NEW t \in SUBSET A, s \cup {k + 1} = t \cup {k + 1}
                   PROVE  s = t
        OBVIOUS
      <4> QED BY <2>4
    <3>3. \A w \in with : \E s \in SUBSET A : h[s] = w
      <4> SUFFICES ASSUME NEW w \in with PROVE \E s \in SUBSET A : h[s] = w
        OBVIOUS
      <4>1. w \ {k + 1} \in SUBSET A /\ (w \ {k + 1}) \cup {k + 1} = w
        BY <2>4
      <4>2. h[w \ {k + 1}] = w
        BY <4>1
      <4> QED BY <4>1, <4>2
    <3>4. h \in [SUBSET A -> with]
      BY <3>1
    <3> HIDE DEF h, with
    <3> QED BY <3>2, <3>3, <3>4 DEF Bijection, Injection, Surjection, IsInjective
  <2>6. IsFiniteSet(with) /\ Cardinality(with) = Cardinality(SUBSET A)
    <3>1. ExistsBijection(SUBSET A, with)
      <4> HIDE DEF h, with, A
      <4> QED BY <2>5 DEF ExistsBijection
    <3> HIDE DEF h, with, A
    <3> QED BY <2>2, <3>1, FS_Bijection
  <2>7. SUBSET B = (SUBSET A) \cup with /\ (SUBSET A) \cap with = {}
    <3> HIDE DEF A, B
    <3> QED BY <2>4
  <2>8. Cardinality(SUBSET B) = Cardinality(SUBSET A) + Cardinality(with) - Cardinality({})
    <3> HIDE DEF A, B, with
    <3> QED BY <2>2, <2>6, <2>7, FS_Union
  <2> HIDE DEF A, B, with
  <2> QED BY <2>2, <2>3, <2>6, <2>8, FS_EmptySet
<1>3. \A k \in Nat : 2^k > 0
  <2> DEFINE S == {k \in Nat : 2^k > 0}
  <2>1. 0 \in S
    BY <1>1
  <2>2. \A k \in S : k + 1 \in S
    BY <1>2
  <2>3. \A k \in Nat : k \in S
    <3> HIDE DEF S
    <3>1. S \in SUBSET Nat
      BY DEF S
    <3> QED BY <2>1, <2>2, <3>1, NatClosed
  <2> QED BY <2>3
<1> QED BY <1>1, <1>2, <1>3

\* Division by a positive number.
LEMMA Division ==
  \A n \in Nat, p \in Nat \ {0} :
    /\ n \div p \in Nat /\ n % p \in Nat /\ n % p < p /\ n = p * (n \div p) + (n % p)
    /\ \A q, r \in Nat : n = p * q + r /\ r < p => q = n \div p /\ r = n % p
<1>1. \A n \in Nat, p \in Nat \ {0} : n \div p \in Nat /\ n % p \in 0 .. p - 1
  OBVIOUS
<1>2. \A n \in Nat, p \in Nat \ {0} : n = p * (n \div p) + (n % p)
  OBVIOUS
<1>3. \A n \in Nat, p \in Nat \ {0} :
        \A q, r \in Nat : n = p * q + r /\ r < p => q = n \div p /\ r = n % p
  OBVIOUS
<1> QED BY <1>1, <1>2, <1>3

\* The number of the complete blocks of 2^k among the first n.
Quot(n, k) == n \div 2^k

\* Halving, level by level.
LEMMA Halving ==
  \A n \in Nat :
    /\ Quot(n, 0) = n
    /\ \A k \in Nat : Quot(n, k) \in Nat /\ Quot(n, k + 1) = Quot(n, k) \div 2
<1> SUFFICES ASSUME NEW n \in Nat
             PROVE  /\ Quot(n, 0) = n
                    /\ \A k \in Nat : Quot(n, k) \in Nat /\ Quot(n, k + 1) = Quot(n, k) \div 2
  OBVIOUS
<1>1. Quot(n, 0) = n
  BY Powers DEF Quot
<1>2. ASSUME NEW k \in Nat PROVE Quot(n, k) \in Nat /\ Quot(n, k + 1) = Quot(n, k) \div 2
  <2> DEFINE p == 2^k
             a == n \div p
             b == n % p
             c == a \div 2
             d == a % 2
  <2>1. p \in Nat \ {0} /\ 2^(k + 1) = 2 * p
    BY Powers
  <2> HIDE DEF p
  <2>2. a \in Nat /\ b \in Nat /\ b < p /\ n = p * a + b
    BY <2>1, Division
  <2> HIDE DEF a, b
  <2>3. c \in Nat /\ d \in Nat /\ d < 2 /\ a = 2 * c + d
    BY <2>2
  <2> HIDE DEF c, d
  <2>4. n = (2 * p) * c + (p * d + b) /\ p * d + b \in Nat /\ p * d + b < 2 * p /\ 2 * p \in Nat \ {0}
    <3>1. CASE d = 0
      BY <2>1, <2>2, <2>3, <3>1
    <3>2. CASE d = 1
      BY <2>1, <2>2, <2>3, <3>2
    <3> QED BY <2>3, <3>1, <3>2
  <2> DEFINE r == p * d + b
             pp == 2 * p
  <2>5. n = pp * c + r /\ r \in Nat /\ r < pp /\ pp \in Nat \ {0}
    BY <2>4
  <2> HIDE DEF r, pp
  <2>6. c = n \div pp
    BY <2>3, <2>5, Division
  <2> QED BY <2>1, <2>2, <2>6 DEF Quot, a, p, c, pp
<1> QED BY <1>1, <1>2

\* The number of blocks of 2^k that the first n are in: the length of row k.
Width(n, k) == IF n = 0 THEN 0 ELSE Quot(n - 1, k) + 1

\* The complete blocks, and at most one more.
LEMMA Blocks ==
  \A n, k \in Nat :
    /\ Width(n, k) \in Nat /\ Width(n, 0) = n /\ Width(n, k + 1) = (Width(n, k) + 1) \div 2
    /\ Quot(n, k) <= Width(n, k) /\ Width(n, k) <= Quot(n, k) + 1
<1> SUFFICES ASSUME NEW n \in Nat
             PROVE  \A k \in Nat :
                      /\ Width(n, k) \in Nat /\ Width(n, 0) = n /\ Width(n, k + 1) = (Width(n, k) + 1) \div 2
                      /\ Quot(n, k) <= Width(n, k) /\ Width(n, k) <= Quot(n, k) + 1
  OBVIOUS
<1>1. Width(n, 0) = n
  BY Halving DEF Width
<1>2. \A k \in Nat : Width(n, k) \in Nat /\ Width(n, k + 1) = (Width(n, k) + 1) \div 2
  <2>1. CASE n = 0
    BY <2>1 DEF Width
  <2>2. CASE n # 0
    <3>1. n - 1 \in Nat
      BY <2>2
    <3>2. \A k \in Nat : Quot(n - 1, k) \in Nat /\ Quot(n - 1, k + 1) = Quot(n - 1, k) \div 2
      BY <3>1, Halving
    <3>3. \A k \in Nat : Width(n, k) = Quot(n - 1, k) + 1
      BY <2>2 DEF Width
    <3> QED BY <3>2, <3>3
  <2> QED BY <2>1, <2>2
<1> DEFINE S == {k \in Nat : Quot(n, k) <= Width(n, k) /\ Width(n, k) <= Quot(n, k) + 1}
<1>3. 0 \in S
  <2>1. Quot(n, 0) = n /\ Width(n, 0) = n
    BY <1>1, Halving
  <2> QED BY <2>1
<1>4. ASSUME NEW k \in S PROVE k + 1 \in S
  <2>a. Quot(n, k) <= Width(n, k) /\ Width(n, k) <= Quot(n, k) + 1
    OBVIOUS
  <2>b. /\ Quot(n, k) \in Nat /\ Quot(n, k + 1) = Quot(n, k) \div 2
        /\ Width(n, k) \in Nat /\ Width(n, k + 1) = (Width(n, k) + 1) \div 2
    <3>1. k \in Nat
      OBVIOUS
    <3> HIDE DEF S
    <3> QED BY <1>2, <3>1, Halving
  <2>1. /\ Quot(n, k) \in Nat /\ Quot(n, k + 1) = Quot(n, k) \div 2
        /\ Width(n, k) \in Nat /\ Width(n, k + 1) = (Width(n, k) + 1) \div 2
        /\ Width(n, k) = Quot(n, k) \/ Width(n, k) = Quot(n, k) + 1
    <3> HIDE DEF S
    <3> QED BY <2>a, <2>b
  <2>2. Quot(n, k + 1) <= Width(n, k + 1) /\ Width(n, k + 1) <= Quot(n, k + 1) + 1
    BY <2>1
  <2> QED BY <2>2
<1>5. \A k \in Nat : k \in S
  <2> HIDE DEF S
  <2>1. S \in SUBSET Nat
    BY DEF S
  <2> QED BY <1>3, <1>4, <2>1, NatClosed
<1> QED BY <1>1, <1>2, <1>5

\* Fewer have no more blocks.
LEMMA QuotGrows == \A i, j, k \in Nat : i <= j => Quot(i, k) <= Quot(j, k)
<1> SUFFICES ASSUME NEW i \in Nat, NEW j \in Nat, i <= j
             PROVE  \A k \in Nat : Quot(i, k) <= Quot(j, k)
  OBVIOUS
<1> DEFINE S == {k \in Nat : Quot(i, k) <= Quot(j, k)}
<1>1. 0 \in S
  BY Halving
<1>2. ASSUME NEW k \in S PROVE k + 1 \in S
  <2>1. /\ Quot(i, k) \in Nat /\ Quot(i, k + 1) = Quot(i, k) \div 2
        /\ Quot(j, k) \in Nat /\ Quot(j, k + 1) = Quot(j, k) \div 2 /\ Quot(i, k) <= Quot(j, k)
    BY Halving
  <2>2. Quot(i, k + 1) <= Quot(j, k + 1)
    BY <2>1
  <2> QED BY <2>2
<1>3. \A k \in Nat : k \in S
  <2> HIDE DEF S
  <2>1. S \in SUBSET Nat
    BY DEF S
  <2> QED BY <1>1, <1>2, <2>1, NatClosed
<1> QED BY <1>3

\* No block is complete when the blocks are large.
LEMMA QuotEnds == \A n, k \in Nat : k >= n => Quot(n, k) = 0
<1> SUFFICES ASSUME NEW n \in Nat PROVE \A k \in Nat : k >= n => Quot(n, k) = 0
  OBVIOUS
<1> DEFINE S == {k \in Nat : Quot(n, k) = 0 \/ Quot(n, k) + k <= n}
<1>1. 0 \in S
  BY Halving
<1>2. ASSUME NEW k \in S PROVE k + 1 \in S
  <2>1. /\ Quot(n, k) \in Nat /\ Quot(n, k + 1) = Quot(n, k) \div 2
        /\ Quot(n, k) = 0 \/ Quot(n, k) + k <= n
    BY Halving
  <2>2. Quot(n, k + 1) = 0 \/ Quot(n, k + 1) + (k + 1) <= n
    BY <2>1
  <2> QED BY <2>2
<1>3. \A k \in Nat : k \in S
  <2> HIDE DEF S
  <2>1. S \in SUBSET Nat
    BY DEF S
  <2> QED BY <1>1, <1>2, <2>1, NatClosed
<1>4. \A k \in Nat : Quot(n, k) \in Nat
  BY Halving
<1> QED BY <1>3, <1>4

\* One block is enough when it is as large as the whole.
LEMMA OneBlock == \A n \in Nat \ {0}, k \in Nat : n <= 2^k => Width(n, k) = 1
<1> SUFFICES ASSUME NEW n \in Nat \ {0}, NEW k \in Nat, n <= 2^k PROVE Width(n, k) = 1
  OBVIOUS
<1> DEFINE p == 2^k
<1>1. p \in Nat \ {0} /\ n <= p
  BY Powers
<1> HIDE DEF p
<1>2. n - 1 \in Nat /\ n - 1 = p * 0 + (n - 1) /\ n - 1 < p
  BY <1>1
<1>3. (n - 1) \div p = 0
  BY <1>1, <1>2, Division
<1> QED BY <1>3 DEF Width, Quot, p

\* TreeDepth is defined, and gives a level at which one block is enough.
LEMMA Depth ==
  \A n \in Nat \ {0} : TreeDepth(n) \in Nat /\ TreeDepth(n) <= n
                     /\ n <= 2^TreeDepth(n) /\ Width(n, TreeDepth(n)) = 1
<1> SUFFICES ASSUME NEW n \in Nat \ {0} PROVE TreeDepth(n) \in Nat /\ TreeDepth(n) <= n /\ n <= 2^TreeDepth(n)
  BY OneBlock
<1>1. CASE n <= 1
  BY <1>1, Powers DEF TreeDepth
<1>2. CASE n > 1
  <2> DEFINE T == {k \in Nat : n <= 2^k}
  <2>1. n \in T
    <3>1. n \div 2^n = 0 /\ 2^n \in Nat \ {0}
      BY QuotEnds, Powers DEF Quot
    <3> DEFINE p == 2^n
    <3>2. p \in Nat \ {0} /\ n \div p = 0
      BY <3>1
    <3> HIDE DEF p
    <3>3. n = p * (n \div p) + (n % p) /\ n % p < p /\ n % p \in Nat
      BY <3>2, Division
    <3>4. n <= p
      BY <3>2, <3>3
    <3> QED BY <3>4 DEF p
  <2>2. PICK d \in T : \A k \in T : d <= k
    <3> HIDE DEF T
    <3>1. T \in SUBSET Nat
      BY DEF T
    <3> QED BY <2>1, <3>1, NatLeast
  <2>3. d # 0
    <3>1. n <= 2^d /\ 2^0 = 1
      BY Powers
    <3>2. ASSUME d = 0 PROVE FALSE
      <4>1. n <= 2^0
        BY <3>1, <3>2
      <4> QED BY <1>2, <3>1, <4>1
    <3> QED BY <3>2
  <2>4. d - 1 \in Nat /\ d - 1 \notin T
    BY <2>2, <2>3
  <2>5. 2^(d - 1) \in Nat
    BY <2>4, Powers
  <2>6. d \in 1 .. n /\ 2^(d - 1) < n /\ n <= 2^d
    BY <2>1, <2>2, <2>3, <2>4, <2>5
  <2> DEFINE P(k) == 2^(k - 1) < n /\ n <= 2^k
  <2>7. \E k \in 1 .. n : P(k)
    BY <2>6
  <2>8. TreeDepth(n) = CHOOSE k \in 1 .. n : P(k)
    <3>1. ~(n <= 1)
      BY <1>2
    <3> QED BY <3>1, Zenon DEF TreeDepth
  <2> HIDE DEF P
  <2>9. TreeDepth(n) \in 1 .. n /\ P(TreeDepth(n))
    BY <2>7, <2>8
  <2> QED BY <2>9 DEF P
<1> QED BY <1>1, <1>2

\* Level k has a complete block without a partner, and how many such levels
\* there are below k: the hashes of the fringe, one for each binary digit one.
Odd(n, k) == Quot(n, k) % 2 = 1
Ones(n, k) == Cardinality({b \in 0 .. k - 1 : Odd(n, b)})

\* Ones counts level by level.
LEMMA OnesStep ==
  \A n, k \in Nat :
    /\ Ones(n, k) \in Nat /\ Ones(n, 0) = 0
    /\ Ones(n, k + 1) = IF Odd(n, k) THEN Ones(n, k) + 1 ELSE Ones(n, k)
<1> SUFFICES ASSUME NEW n \in Nat, NEW k \in Nat
             PROVE  /\ Ones(n, k) \in Nat /\ Ones(n, 0) = 0
                    /\ Ones(n, k + 1) = IF Odd(n, k) THEN Ones(n, k) + 1 ELSE Ones(n, k)
  OBVIOUS
<1> DEFINE A == {b \in 0 .. k - 1 : Odd(n, b)}
           B == {b \in 0 .. (k + 1) - 1 : Odd(n, b)}
<1>1. IsFiniteSet(A) /\ k \notin A
  <2>1. IsFiniteSet(0 .. k - 1)
    BY FS_Interval
  <2> QED BY <2>1, FS_Subset
<1>2. Ones(n, 0) = 0
  <2>1. {b \in 0 .. 0 - 1 : Odd(n, b)} = {}
    OBVIOUS
  <2> QED BY <2>1, FS_EmptySet DEF Ones
<1>3. Odd(n, k) => B = A \cup {k}
  OBVIOUS
<1>4. ~Odd(n, k) => B = A
  OBVIOUS
<1>5. Ones(n, k) = Cardinality(A) /\ Ones(n, k + 1) = Cardinality(B)
  BY DEF Ones
<1> HIDE DEF A, B
<1>6. Cardinality(A \cup {k}) = Cardinality(A) + 1 /\ Cardinality(A) \in Nat
  BY <1>1, FS_AddElement, FS_CardinalityType
<1> QED BY <1>2, <1>3, <1>4, <1>5, <1>6

\* Ones grows with the levels, and strictly over a level that counts.
LEMMA OnesGrow ==
  \A n, j, k \in Nat : j <= k => Ones(n, j) <= Ones(n, k)
<1> SUFFICES ASSUME NEW n \in Nat, NEW j \in Nat, NEW k \in Nat, j <= k
             PROVE  Ones(n, j) <= Ones(n, k)
  OBVIOUS
<1>1. IsFiniteSet({b \in 0 .. k - 1 : Odd(n, b)})
  <2>1. IsFiniteSet(0 .. k - 1)
    BY FS_Interval
  <2> QED BY <2>1, FS_Subset
<1>2. {b \in 0 .. j - 1 : Odd(n, b)} \subseteq {b \in 0 .. k - 1 : Odd(n, b)}
  OBVIOUS
<1> QED BY <1>1, <1>2, FS_Subset DEF Ones

\* All of the ones are below level n.
LEMMA OnesEnd ==
  \A n, k \in Nat : k >= n => Ones(n, k) = Ones(n, n) /\ ~Odd(n, k)
<1> SUFFICES ASSUME NEW n \in Nat, NEW k \in Nat, k >= n
             PROVE  Ones(n, k) = Ones(n, n) /\ ~Odd(n, k)
  OBVIOUS
<1>1. \A b \in Nat : b >= n => ~Odd(n, b)
  BY QuotEnds DEF Odd
<1>2. {b \in 0 .. k - 1 : Odd(n, b)} = {b \in 0 .. n - 1 : Odd(n, b)}
  BY <1>1
<1> QED BY <1>1, <1>2 DEF Ones

\* A hash of the fringe is not beyond its end.
LEMMA OnesBelow ==
  \A n, k \in Nat : Odd(n, k) => Ones(n, k) + 1 <= Ones(n, n)
<1> SUFFICES ASSUME NEW n \in Nat, NEW k \in Nat, Odd(n, k)
             PROVE  Ones(n, k) + 1 <= Ones(n, n)
  OBVIOUS
<1>1. k < n
  BY OnesEnd
<1>2. Ones(n, k + 1) = Ones(n, k) + 1 /\ k + 1 \in Nat /\ k + 1 <= n
  BY <1>1, OnesStep
<1>3. Ones(n, k + 1) <= Ones(n, n)
  BY <1>2, OnesGrow
<1> QED BY <1>2, <1>3

(***************************************************************************)
(* Append's loop runs as often as there are ones at the low end of the     *)
(* size.                                                                   *)
(***************************************************************************)
Full(n, k) == n % 2^k = 2^k - 1

\* All ones below k + 1 means all ones below k and a one at k.
LEMMA FullStep ==
  \A n, k \in Nat : Full(n, 0) /\ (Full(n, k + 1) <=> Full(n, k) /\ Odd(n, k))
<1> SUFFICES ASSUME NEW n \in Nat, NEW k \in Nat
             PROVE  Full(n, 0) /\ (Full(n, k + 1) <=> Full(n, k) /\ Odd(n, k))
  OBVIOUS
<1>1. Full(n, 0)
  BY Powers DEF Full
<1> DEFINE p == 2^k
           a == n \div p
           b == n % p
           c == a \div 2
           d == a % 2
           r == p * d + b
           pp == 2 * p
<1>2. p \in Nat \ {0} /\ 2^(k + 1) = pp
  BY Powers
<1>3. (Full(n, k) <=> b = p - 1) /\ (Full(n, k + 1) <=> n % pp = pp - 1) /\ (Odd(n, k) <=> d = 1)
  BY <1>2 DEF Full, Odd, Quot
<1> HIDE DEF p
<1>4. a \in Nat /\ b \in Nat /\ b < p /\ n = p * a + b
  BY <1>2, Division
<1> HIDE DEF a, b
<1>5. c \in Nat /\ d \in {0, 1} /\ a = 2 * c + d
  BY <1>4
<1> HIDE DEF c, d
<1>6. n = pp * c + r /\ r \in Nat /\ r < pp /\ pp \in Nat \ {0}
      /\ (r = pp - 1 <=> b = p - 1 /\ d = 1)
  <2>1. CASE d = 0
    BY <1>2, <1>4, <1>5, <2>1
  <2>2. CASE d = 1
    BY <1>2, <1>4, <1>5, <2>2
  <2> QED BY <1>5, <2>1, <2>2
<1> HIDE DEF r, pp
<1>7. r = n % pp
  BY <1>5, <1>6, Division
<1> QED BY <1>1, <1>3, <1>6, <1>7

\* With all ones below k, one more completes a block of level k.
LEMMA FullNext ==
  \A n, k \in Nat : Full(n, k) => Quot(n + 1, k) = Quot(n, k) + 1
<1> SUFFICES ASSUME NEW n \in Nat, NEW k \in Nat, Full(n, k)
             PROVE  Quot(n + 1, k) = Quot(n, k) + 1
  OBVIOUS
<1> DEFINE p == 2^k
           a == n \div p
           b == n % p
<1>1. p \in Nat \ {0} /\ b = p - 1
  BY Powers DEF Full
<1> HIDE DEF p
<1>2. a \in Nat /\ n = p * a + b
  BY <1>1, Division
<1> HIDE DEF a, b
<1> DEFINE e == a + 1
<1>3. n + 1 = p * e + 0 /\ 0 < p /\ e \in Nat /\ n + 1 \in Nat
  BY <1>1, <1>2
<1> HIDE DEF e
<1>4. e = (n + 1) \div p
  BY <1>1, <1>3, Division
<1> QED BY <1>4 DEF Quot, p, a, e

\* What Merges finds: below it every level has an odd number of complete
\* blocks, at it an even number; the next element completes a block on every
\* level up to it and on no other.
LEMMA MergesAt ==
  ASSUME NEW n \in Nat
  PROVE  LET m == Merges(n) IN
         /\ m \in Nat /\ m <= n /\ ~Odd(n, m) /\ Odd(n + 1, m)
         /\ \A j \in Nat : j < m => Odd(n, j) /\ ~Odd(n + 1, j)
         /\ \A j \in Nat : j <= m => Quot(n + 1, j) = Quot(n, j) + 1
         /\ \A j \in Nat : j > m => Quot(n + 1, j) = Quot(n, j)
<1> DEFINE P(k) == n % 2^k = 2^k - 1 /\ (n \div 2^k) % 2 = 0
           T == {k \in Nat : ~Odd(n, k)}
<1>a. \A k \in Nat : P(k) <=> Full(n, k) /\ ~Odd(n, k)
  <2>a. \A x \in Nat : ((x % 2) = 0) <=> ~((x % 2) = 1)
    OBVIOUS
  <2>1. \A k \in Nat : ((Quot(n, k) % 2) = 0) <=> ~((Quot(n, k) % 2) = 1)
    BY <2>a, Halving
  <2> QED BY <2>1 DEF Full, Odd, Quot
<1>b. T \in SUBSET Nat /\ n \in T /\ \A k \in Nat : k \in T <=> ~Odd(n, k)
  BY OnesEnd
<1>1. \E k \in 0 .. n : P(k)
  <2> HIDE DEF T, P
  <2>1. PICK l \in T : \A k \in T : l <= k
    BY <1>b, NatLeast
  <2>2. l \in Nat /\ l <= n /\ \A j \in Nat : j < l => Odd(n, j)
    BY <1>b, <2>1
  <2> DEFINE S == {k \in Nat : k <= l => Full(n, k)}
  <2>3. 0 \in S
    BY FullStep
  <2>4. ASSUME NEW k \in S PROVE k + 1 \in S
    BY <2>2, FullStep
  <2>5. l \in S
    <3> HIDE DEF S
    <3>1. S \in SUBSET Nat
      BY DEF S
    <3> QED BY <2>2, <2>3, <2>4, <3>1, NatClosed
  <2>6. P(l)
    BY <1>a, <1>b, <2>1, <2>5
  <2> QED BY <2>2, <2>6
<1> DEFINE m == Merges(n)
<1>2. m \in 0 .. n /\ P(m)
  <2>1. m = CHOOSE k \in 0 .. n : P(k)
    BY DEF Merges
  <2> HIDE DEF m, P
  <2> QED BY <1>1, <2>1
<1> HIDE DEF m, P
<1>3. m \in Nat /\ m <= n /\ Full(n, m) /\ ~Odd(n, m)
  BY <1>2, <1>a
<1>4. \A j \in Nat : j <= m => Full(n, j)
  <2> DEFINE S == {i \in Nat : i <= m => Full(n, m - i)}
  <2>1. 0 \in S
    BY <1>3
  <2>2. ASSUME NEW i \in S PROVE i + 1 \in S
    <3> SUFFICES ASSUME i + 1 <= m PROVE Full(n, m - (i + 1))
      OBVIOUS
    <3>1. Full(n, m - i)
      BY <1>3
    <3> DEFINE l == m - (i + 1)
    <3>2. l \in Nat /\ m - i = l + 1
      BY <1>3
    <3> HIDE DEF l
    <3>3. Full(n, l)
      BY <3>1, <3>2, FullStep
    <3> QED BY <3>3 DEF l
  <2>3. \A i \in Nat : i \in S
    <3> HIDE DEF S
    <3>1. S \in SUBSET Nat
      BY DEF S
    <3> QED BY <2>1, <2>2, <3>1, NatClosed
  <2>4. ASSUME NEW j \in Nat, j <= m PROVE Full(n, j)
    <3>1. m - j \in S
      BY <1>3, <2>3, <2>4
    <3>2. m - j <= m /\ m - (m - j) = j
      BY <1>3, <2>4
    <3> QED BY <3>1, <3>2
  <2> QED BY <2>4
<1>5. \A j \in Nat : j < m => Odd(n, j)
  <2> TAKE j \in Nat
  <2> HAVE j < m
  <2>1. j + 1 \in Nat /\ j + 1 <= m
    BY <1>3
  <2> QED BY <1>4, <2>1, FullStep
<1>6. \A j \in Nat : j <= m => Quot(n + 1, j) = Quot(n, j) + 1
  BY <1>4, FullNext
<1>7. \A j \in Nat : Quot(n, j) \in Nat
  BY Halving
<1>8. Odd(n + 1, m)
  BY <1>3, <1>6, <1>7 DEF Odd
<1>9. \A j \in Nat : j < m => ~Odd(n + 1, j)
  <2> TAKE j \in Nat
  <2> HAVE j < m
  <2>1. Quot(n + 1, j) = Quot(n, j) + 1 /\ Quot(n, j) % 2 = 1 /\ Quot(n, j) \in Nat
    BY <1>3, <1>5, <1>6, <1>7 DEF Odd
  <2> QED BY <2>1 DEF Odd
<1>10. \A j \in Nat : j > m => Quot(n + 1, j) = Quot(n, j)
  <2> DEFINE S == {i \in Nat : Quot(n + 1, m + 1 + i) = Quot(n, m + 1 + i)}
  <2>1. 0 \in S
    <3>1. Quot(n + 1, m + 1) = Quot(n + 1, m) \div 2 /\ Quot(n, m + 1) = Quot(n, m) \div 2
          /\ Quot(n, m) \in Nat
      BY <1>3, Halving
    <3>2. Quot(n + 1, m) = Quot(n, m) + 1 /\ ~(Quot(n, m) % 2 = 1)
      BY <1>3, <1>6 DEF Odd
    <3>3. Quot(n + 1, m + 1) = Quot(n, m + 1)
      BY <3>1, <3>2
    <3>4. m + 1 + 0 = m + 1
      BY <1>3
    <3> QED BY <3>3, <3>4
  <2>2. ASSUME NEW i \in S PROVE i + 1 \in S
    <3> DEFINE l == m + 1 + i
    <3>1. l \in Nat /\ m + 1 + (i + 1) = l + 1 /\ Quot(n + 1, l) = Quot(n, l)
      BY <1>3
    <3> HIDE DEF l
    <3>2. Quot(n + 1, l + 1) = Quot(n, l + 1)
      BY <3>1, Halving
    <3> QED BY <3>1, <3>2
  <2>3. \A i \in Nat : i \in S
    <3> HIDE DEF S
    <3>1. S \in SUBSET Nat
      BY DEF S
    <3> QED BY <2>1, <2>2, <3>1, NatClosed
  <2>4. ASSUME NEW j \in Nat, j > m PROVE Quot(n + 1, j) = Quot(n, j)
    <3> DEFINE i == j - (m + 1)
    <3>1. i \in Nat /\ m + 1 + i = j
      BY <1>3, <2>4
    <3> HIDE DEF i
    <3>2. i \in S
      BY <2>3, <3>1
    <3> QED BY <3>1, <3>2
  <2> QED BY <2>4
<1> QED BY <1>3, <1>5, <1>6, <1>8, <1>9, <1>10 DEF m

(***************************************************************************)
(* Rows, the sequences of the tree, and the folds and recursive functions  *)
(* the library gives no theorem about.                                     *)
(***************************************************************************)

\* s is a sequence of n elements, whatever they are.
IsRow(s, n) == s = [i \in 1 .. n |-> s[i]]

\* A row is a sequence over its elements, with the length and the domain it
\* should have.
LEMMA RowIsSeq ==
  ASSUME NEW n \in Nat, NEW s, IsRow(s, n), NEW T, \A i \in 1 .. n : s[i] \in T
  PROVE  s \in Seq(T) /\ Len(s) = n /\ DOMAIN s = 1 .. n
<1>1. DOMAIN s = 1 .. n /\ s \in [1 .. n -> T]
  BY DEF IsRow
<1>2. s \in Seq(T)
  BY <1>1, SeqDef
<1>3. Len(s) \in Nat /\ DOMAIN s = 1 .. Len(s)
  BY <1>2, LenProperties
<1>4. 1 .. n = 1 .. Len(s)
  BY <1>1, <1>3, Zenon
<1>5. n = Len(s)
  <2> DEFINE m == Len(s)
             A == 1 .. n
             B == 1 .. m
  <2>1. m \in Nat /\ A = B
    BY <1>3, <1>4, Zenon
  <2> HIDE DEF m
  <2>2. m > n => m \in B /\ m \notin A
    BY <2>1
  <2>3. n > m => n \in A /\ n \notin B
    BY <2>1
  <2> HIDE DEF A, B
  <2>4. m = n
    BY <2>1, <2>2, <2>3
  <2> QED BY <2>4, Zenon DEF m
<1> QED BY <1>1, <1>2, <1>5

\* A row of n has length n.
LEMMA RowLen ==
  ASSUME NEW n \in Nat, NEW s, IsRow(s, n)
  PROVE  Len(s) = n /\ DOMAIN s = 1 .. n
<1>1. \A i \in 1 .. n : s[i] \in {s[j] : j \in 1 .. n}
  OBVIOUS
<1> QED BY <1>1, RowIsSeq

\* Sequences have rows.
LEMMA SeqIsRow ==
  ASSUME NEW T, NEW s \in Seq(T)
  PROVE  IsRow(s, Len(s))
<1>1. s \in [1 .. Len(s) -> T]
  BY LenProperties
<1> QED BY <1>1 DEF IsRow

\* Rows are equal when their elements are.
LEMMA RowEqual ==
  ASSUME NEW n, NEW s, NEW t, IsRow(s, n), IsRow(t, n), \A i \in 1 .. n : s[i] = t[i]
  PROVE  s = t
<1>1. [i \in 1 .. n |-> s[i]] = [i \in 1 .. n |-> t[i]]
  OBVIOUS
<1> QED BY <1>1 DEF IsRow

\* The operators on sequences, element by element.
Grown(s, x) == Append(s, x)

\* Append adds one element at the end.
LEMMA RowAppend ==
  ASSUME NEW n \in Nat, NEW s, IsRow(s, n), NEW x
  PROVE  /\ IsRow(Grown(s, x), n + 1)
         /\ Grown(s, x)[n + 1] = x
         /\ \A i \in 1 .. n : Grown(s, x)[i] = s[i]
<1> DEFINE T == {s[i] : i \in 1 .. n} \cup {x}
<1>1. s \in Seq(T) /\ Len(s) = n /\ x \in T
  <2>1. \A i \in 1 .. n : s[i] \in T
    OBVIOUS
  <2> HIDE DEF T
  <2>2. s \in Seq(T) /\ Len(s) = n
    BY <2>1, RowIsSeq
  <2> QED BY <2>2 DEF T
<1> HIDE DEF T
<1>2. /\ Append(s, x) \in Seq(T) /\ Len(Append(s, x)) = n + 1
      /\ \A i \in 1 .. n : Append(s, x)[i] = s[i]
      /\ Append(s, x)[n + 1] = x
  BY <1>1, AppendProperties
<1>3. IsRow(Append(s, x), n + 1)
  BY <1>2, SeqIsRow
<1> QED BY <1>2, <1>3 DEF Grown

\* SubSeq is the row of the elements it names.
LEMMA RowSub ==
  ASSUME NEW n \in Nat, NEW s, IsRow(s, n),
         NEW a \in Nat \ {0}, NEW b \in Nat, a <= b + 1, b <= n
  PROVE  /\ IsRow(SubSeq(s, a, b), b + 1 - a)
         /\ \A i \in 1 .. (b + 1 - a) : SubSeq(s, a, b)[i] = s[a + i - 1]
<1> DEFINE T == {s[i] : i \in 1 .. n}
<1>1. s \in Seq(T) /\ Len(s) = n
  <2>1. \A i \in 1 .. n : s[i] \in T
    OBVIOUS
  <2> HIDE DEF T
  <2> QED BY <2>1, RowIsSeq
<1> HIDE DEF T
<1>2. /\ SubSeq(s, a, b) \in Seq(T)
      /\ Len(SubSeq(s, a, b)) = b + 1 - a
      /\ \A i \in 1 .. (b + 1 - a) : SubSeq(s, a, b)[i] = s[a + i - 1]
  <2>1. a \in 1 .. Len(s) + 1 /\ b \in a - 1 .. Len(s)
    BY <1>1
  <2>2. /\ SubSeq(s, a, b) \in Seq(T)
        /\ Len(SubSeq(s, a, b)) = IF a <= b THEN b - a + 1 ELSE 0
        /\ \A i \in 1 .. b - a + 1 : SubSeq(s, a, b)[i] = s[a + i - 1]
    BY <1>1, <2>1, SubSeqProperties
  <2>3. b - a + 1 = b + 1 - a /\ (~(a <= b) => b - a + 1 = 0)
    OBVIOUS
  <2> QED BY <2>2, <2>3
<1>3. IsRow(SubSeq(s, a, b), b + 1 - a)
  BY <1>2, SeqIsRow
<1> QED BY <1>2, <1>3

\* Concatenation under a name the provers do not look into.
Cat(s, t) == s \o t

\* The elements of a concatenation.
LEMMA RowConcat ==
  ASSUME NEW m \in Nat, NEW n \in Nat, NEW s, NEW t, IsRow(s, m), IsRow(t, n)
  PROVE  /\ IsRow(Cat(s, t), m + n)
         /\ \A i \in 1 .. m : Cat(s, t)[i] = s[i]
         /\ \A i \in 1 .. n : Cat(s, t)[m + i] = t[i]
<1> DEFINE T == {s[i] : i \in 1 .. m} \cup {t[i] : i \in 1 .. n}
<1>1. s \in Seq(T) /\ Len(s) = m /\ t \in Seq(T) /\ Len(t) = n
  <2>1. (\A i \in 1 .. m : s[i] \in T) /\ (\A i \in 1 .. n : t[i] \in T)
    OBVIOUS
  <2> HIDE DEF T
  <2> QED BY <2>1, RowIsSeq
<1> HIDE DEF T
<1>2. /\ s \o t \in Seq(T) /\ Len(s \o t) = m + n
      /\ \A i \in 1 .. m + n : (s \o t)[i] = IF i <= m THEN s[i] ELSE t[i - m]
  BY <1>1, ConcatProperties
<1>3. IsRow(s \o t, m + n)
  BY <1>2, SeqIsRow
<1>4. ASSUME NEW i \in 1 .. m PROVE (s \o t)[i] = s[i]
  BY <1>2
<1>5. ASSUME NEW i \in 1 .. n PROVE (s \o t)[m + i] = t[i]
  <2>1. m + i \in 1 .. m + n /\ ~(m + i <= m) /\ m + i - m = i
    OBVIOUS
  <2> QED BY <1>2, <2>1
<1> QED BY <1>3, <1>4, <1>5 DEF Cat

\* Head and Tail take the first element off.
LEMMA RowTail ==
  ASSUME NEW n \in Nat \ {0}, NEW s, IsRow(s, n)
  PROVE  /\ s # <<>> /\ Head(s) = s[1]
         /\ IsRow(Tail(s), n - 1)
         /\ \A i \in 1 .. n - 1 : Tail(s)[i] = s[i + 1]
<1> DEFINE T == {s[i] : i \in 1 .. n}
<1>1. s \in Seq(T) /\ Len(s) = n
  <2>1. \A i \in 1 .. n : s[i] \in T
    OBVIOUS
  <2> HIDE DEF T
  <2> QED BY <2>1, RowIsSeq
<1> HIDE DEF T
<1>2. s # <<>>
  BY <1>1, EmptySeq
<1>3. /\ Head(s) = s[1] /\ Tail(s) \in Seq(T) /\ Len(Tail(s)) = n - 1
      /\ \A i \in 1 .. n - 1 : Tail(s)[i] = s[i + 1]
  BY <1>1, <1>2, HeadTailProperties
<1>4. IsRow(Tail(s), n - 1)
  BY <1>3, SeqIsRow
<1> QED BY <1>2, <1>3, <1>4

\* A row of none is the empty sequence,
LEMMA RowEmpty == ASSUME NEW s, IsRow(s, 0) PROVE s = <<>>
<1>1. IsRow(<<>>, 0)
  <2>1. <<>> \in Seq({}) /\ Len(<<>>) = 0
    BY EmptySeq
  <2>2. IsRow(<<>>, Len(<<>>))
    BY <2>1, SeqIsRow
  <2> QED BY <2>1, <2>2
<1>2. \A i \in 1 .. 0 : s[i] = (<<>>)[i]
  OBVIOUS
<1> QED BY <1>1, <1>2, RowEqual

\* and the empty sequence is a row of none.
LEMMA EmptyRow == IsRow(<<>>, 0)
<1>1. <<>> \in Seq({}) /\ Len(<<>>) = 0
  BY EmptySeq
<1>2. IsRow(<<>>, Len(<<>>))
  BY <1>1, SeqIsRow
<1> QED BY <1>1, <1>2

\* The loop body of VerifyProof and the value it starts from.
VStep(leafIndex, acc, k) ==
  LET idx == leafIndex \div 2^k
      next == (acc.n + 1) \div 2
  IN  IF ~acc.ok \/ Promoted(idx, acc.n) THEN [acc EXCEPT !.n = next]
      ELSE IF acc.rest = <<>> THEN [acc EXCEPT !.ok = FALSE]
      ELSE [ok |-> TRUE, n |-> next, rest |-> Tail(acc.rest),
            hash |-> IF idx % 2 = 0 THEN NodeHash(acc.hash, Head(acc.rest))
                     ELSE NodeHash(Head(acc.rest), acc.hash)]
VStart(data, treeSize, path) ==
  [ok |-> TRUE, n |-> treeSize, rest |-> path, hash |-> LeafHash(data)]

Top(s) == CHOOSE x \in s : \A y \in s : x >= y
Bot(s) == CHOOSE x \in s : \A y \in s : x <= y

\* RunHashes and RunPaths for n data, from those for fewer.
HashRow(D, hash, n) ==
  [i \in 0 .. Len(D) - n |->
     IF n = 0 THEN ZeroHash
     ELSE IF n = 1 THEN LeafHash(D[i + 1])
     ELSE NodeHash(hash[Split(n)][i], hash[n - Split(n)][i + Split(n)])]
PathRow(D, m, path, n) ==
  [i \in 0 .. Len(D) - n |->
     IF n <= 1 THEN <<>>
     ELSE IF m < i + Split(n)
       THEN Append(path[Split(n)][i], RunHashes(D)[n - Split(n)][i + Split(n)])
       ELSE Append(path[n - Split(n)][i + Split(n)], RunHashes(D)[Split(n)][i])]

\* The recursive functions of the model, as one: what p.kind's function g is
\* at x.
Body(p, g, x) ==
  IF p.kind = "append" THEN
    IF x = {} THEN p.base ELSE Append1(g[x \ {Top(x)}], p.seq[Top(x)])
  ELSE IF p.kind = "verify" THEN
    IF x = {} THEN p.base ELSE VStep(p.leaf, g[x \ {Top(x)}], p.seq[Top(x)])
  ELSE IF p.kind = "node" THEN
    IF x = {} THEN p.base ELSE NodeHash(p.seq[Bot(x)], g[x \ {Bot(x)}])
  ELSE IF p.kind = "flatten" THEN
    IF x = 1 THEN p.seq[x] ELSE g[x - 1] \o p.seq[x]
  ELSE IF p.kind = "levels" THEN
    IF x = 0 THEN p.base ELSE Parents(g[x - 1])
  ELSE IF p.kind = "hashes" THEN HashRow(p.seq, g, x) ELSE PathRow(p.seq, p.leaf, g, x)

\* What Body computes at x reads a function only where the measure is less.
ReadsBelow(p, X, mu) ==
  \A g, h : \A x \in X :
    (\A y \in X : mu[y] < mu[x] => g[y] = h[y]) => Body(p, g, x) = Body(p, h, x)

\* A function defined by recursion over a bounded measure exists.
LEMMA Recursion ==
  ASSUME NEW X, NEW mu \in [X -> Nat], NEW M \in Nat, \A x \in X : mu[x] <= M, NEW p,
         ReadsBelow(p, X, mu)
  PROVE  \E g : g = [x \in X |-> Body(p, g, x)]
<1> USE DEF ReadsBelow
<1> DEFINE Upto(m, g) == \A x \in X : mu[x] < m => g[x] = Body(p, g, x)
           S == {m \in Nat : \E g : Upto(m, g)}
<1>1. 0 \in S
  <2>1. Upto(0, [x \in X |-> 0])
    OBVIOUS
  <2> HIDE DEF Upto
  <2> QED BY <2>1
<1>2. ASSUME NEW m \in S PROVE m + 1 \in S
  <2>1. PICK g : Upto(m, g)
    OBVIOUS
  <2> DEFINE h == [x \in X |-> Body(p, g, x)]
  <2>2. \A x \in X : h[x] = Body(p, g, x)
    OBVIOUS
  <2> HIDE DEF h
  <2>3. \A y \in X : mu[y] < m => g[y] = h[y]
    BY <2>1, <2>2
  <2>4. ASSUME NEW x \in X, mu[x] < m + 1 PROVE h[x] = Body(p, h, x)
    <3>1. \A y \in X : mu[y] < mu[x] => mu[y] < m
      BY <2>4
    <3>2. \A y \in X : mu[y] < mu[x] => g[y] = h[y]
      BY <2>3, <3>1
    <3>3. Body(p, g, x) = Body(p, h, x)
      BY <3>2
    <3> QED BY <2>2, <3>3
  <2>5. Upto(m + 1, h)
    BY <2>4
  <2> HIDE DEF Upto
  <2> QED BY <2>5
<1>3. M + 1 \in S
  <2> HIDE DEF S
  <2>1. S \in SUBSET Nat
    BY DEF S
  <2> QED BY <1>1, <1>2, <2>1, NatClosed
<1>4. PICK g : Upto(M + 1, g)
  BY <1>3
<1>5. \A x \in X : g[x] = Body(p, g, x)
  <2>1. \A x \in X : mu[x] < M + 1
    OBVIOUS
  <2> QED BY <1>4, <2>1
<1> DEFINE h == [x \in X |-> Body(p, g, x)]
<1>6. \A x \in X : h[x] = g[x]
  BY <1>5
<1>7. \A x \in X : Body(p, g, x) = Body(p, h, x)
  <2> HIDE DEF h
  <2> QED BY <1>6
<1>8. h = [x \in X |-> Body(p, h, x)]
  <2>1. h = [x \in X |-> Body(p, g, x)]
    OBVIOUS
  <2> HIDE DEF h
  <2> QED BY <1>7, <2>1
<1> QED BY <1>8

\* The greatest and the least element of a set of positions.
LEMMA TopBot ==
  \A n \in Nat :
    /\ \A s \in SUBSET (1 .. n) : s # {} => Top(s) \in s /\ Bot(s) \in s
    /\ \A k \in 0 .. n - 1 : Top(1 .. k + 1) = k + 1
    /\ \A k \in 1 .. n : Bot(k .. n) = k
<1> SUFFICES ASSUME NEW n \in Nat
             PROVE  /\ \A s \in SUBSET (1 .. n) : s # {} => Top(s) \in s /\ Bot(s) \in s
                    /\ \A k \in 0 .. n - 1 : Top(1 .. k + 1) = k + 1
                    /\ \A k \in 1 .. n : Bot(k .. n) = k
  OBVIOUS
<1>1. ASSUME NEW s \in SUBSET (1 .. n), s # {} PROVE Top(s) \in s /\ Bot(s) \in s
  <2>1. \E x \in s : \A y \in s : x <= y
    BY <1>1, NatLeast
  <2>2. \E x \in s : \A y \in s : x >= y
    <3> DEFINE T == {m \in Nat : n - m \in s}
    <3>1. PICK x \in s : TRUE
      BY <1>1
    <3>2. n - x \in T
      OBVIOUS
    <3>3. T \in SUBSET Nat /\ T # {}
      BY <3>2
    <3>4. PICK m \in T : \A l \in T : m <= l
      <4> HIDE DEF T
      <4> QED BY <3>3, NatLeast
    <3>5. \A y \in s : n - y \in T
      OBVIOUS
    <3>6. \A y \in s : n - m >= y
      BY <3>4, <3>5
    <3> QED BY <3>4, <3>6
  <2> QED BY <2>1, <2>2 DEF Top, Bot
<1>2. ASSUME NEW k \in 0 .. n - 1 PROVE Top(1 .. k + 1) = k + 1
  BY DEF Top
<1>3. ASSUME NEW k \in 1 .. n PROVE Bot(k .. n) = k
  BY DEF Bot
<1> QED BY <1>1, <1>2, <1>3

\* What the folds of the library recurse over.
Sets(n) == SUBSET (1 .. n)

\* A recursion over the subsets of 1 .. n that takes an element off.
LEMMA SubsetRecursion ==
  ASSUME NEW n \in Nat, NEW p, p.kind \in {"append", "verify", "node"}
  PROVE  \E g : g = [x \in Sets(n) |-> Body(p, g, x)]
<1> DEFINE X == Sets(n)
           mu == [x \in X |-> Cardinality(x)]
<1>0. \A x \in X : x \subseteq 1 .. n /\ \A e \in x : x \ {e} \in X
  BY DEF Sets
<1>1. ASSUME NEW x \in X PROVE IsFiniteSet(x) /\ Cardinality(x) \in Nat /\ Cardinality(x) <= n
  <2>1. IsFiniteSet(1 .. n) /\ Cardinality(1 .. n) = n
    <3>1. IsFiniteSet(1 .. n) /\ Cardinality(1 .. n) = IF 1 > n THEN 0 ELSE n - 1 + 1
      BY FS_Interval
    <3> QED BY <3>1
  <2> QED BY <1>0, <2>1, FS_Subset, FS_CardinalityType
<1>2. ASSUME NEW x \in X, NEW e \in x
      PROVE  x \ {e} \in X /\ Cardinality(x \ {e}) < Cardinality(x)
  <2>1. Cardinality(x \ {e}) = Cardinality(x) - 1
    BY <1>1, FS_RemoveElement
  <2>2. x \ {e} \in X
    BY <1>0
  <2>3. Cardinality(x) - 1 < Cardinality(x)
    BY <1>1
  <2> QED BY <2>1, <2>2, <2>3
<1>3. mu \in [X -> Nat] /\ (\A x \in X : mu[x] <= n /\ mu[x] = Cardinality(x))
  BY <1>1
<1>4. \A x \in X : x # {} => Top(x) \in x /\ Bot(x) \in x
  BY <1>0, TopBot
<1> HIDE DEF mu, X
<1>5. ASSUME NEW g, NEW h, NEW x \in X, \A y \in X : mu[y] < mu[x] => g[y] = h[y]
      PROVE  Body(p, g, x) = Body(p, h, x)
  <2>1. \A e \in x : x \ {e} \in X /\ mu[x \ {e}] < mu[x]
    BY <1>2, <1>3
  <2>2. \A e \in x : g[x \ {e}] = h[x \ {e}]
    BY <1>5, <2>1
  <2>3. CASE x = {}
    BY <2>3, Zenon DEF Body
  <2>4. CASE x # {}
    <3>1. g[x \ {Top(x)}] = h[x \ {Top(x)}] /\ g[x \ {Bot(x)}] = h[x \ {Bot(x)}]
      BY <1>4, <2>2, <2>4
    <3> QED BY <3>1, <2>4, Zenon DEF Body
  <2> QED BY <2>3, <2>4
<1>6. ReadsBelow(p, X, mu)
  BY <1>5, Zenon DEF ReadsBelow
<1>7. \E g : g = [x \in X |-> Body(p, g, x)]
  BY <1>3, <1>6, Recursion
<1> QED BY <1>7 DEF X

\* A recursion over an interval that goes down by one.
LEMMA IntervalRecursion ==
  ASSUME NEW n \in Nat, NEW p, NEW l \in {0, 1},
         (p.kind = "flatten" /\ l = 1) \/ (p.kind = "levels" /\ l = 0)
  PROVE  \E g : g = [x \in l .. n |-> Body(p, g, x)]
<1> DEFINE X == l .. n
           mu == [x \in X |-> x]
<1>1. mu \in [X -> Nat] /\ (\A x \in X : mu[x] <= n /\ mu[x] = x)
  OBVIOUS
<1>2. \A x \in X : x # l => x - 1 \in X /\ mu[x - 1] < mu[x]
  OBVIOUS
<1> HIDE DEF X, mu
<1>5. ASSUME NEW g, NEW h, NEW x \in X, \A y \in X : mu[y] < mu[x] => g[y] = h[y]
      PROVE  Body(p, g, x) = Body(p, h, x)
  <2>1. x # l => g[x - 1] = h[x - 1]
    BY <1>2, <1>5
  <2>2. CASE p.kind = "flatten" /\ l = 1
    <3>1. Body(p, g, x) = IF x = 1 THEN p.seq[x] ELSE g[x - 1] \o p.seq[x]
      BY <2>2 DEF Body
    <3>2. Body(p, h, x) = IF x = 1 THEN p.seq[x] ELSE h[x - 1] \o p.seq[x]
      BY <2>2 DEF Body
    <3>3. CASE x = 1
      BY <3>1, <3>2, <3>3, Zenon
    <3>4. CASE x # 1
      <4>1. g[x - 1] = h[x - 1]
        BY <2>1, <2>2, <3>4
      <4> QED BY <3>1, <3>2, <3>4, <4>1, Zenon
    <3> QED BY <3>3, <3>4
  <2>3. CASE p.kind = "levels" /\ l = 0
    <3>1. Body(p, g, x) = IF x = 0 THEN p.base ELSE Parents(g[x - 1])
      BY <2>3 DEF Body
    <3>2. Body(p, h, x) = IF x = 0 THEN p.base ELSE Parents(h[x - 1])
      BY <2>3 DEF Body
    <3>3. CASE x = 0
      BY <3>1, <3>2, <3>3, Zenon
    <3>4. CASE x # 0
      <4>1. g[x - 1] = h[x - 1]
        BY <2>1, <2>3, <3>4
      <4> QED BY <3>1, <3>2, <3>4, <4>1, Zenon
    <3> QED BY <3>3, <3>4
  <2> QED BY <2>2, <2>3
<1>6. ReadsBelow(p, X, mu)
  BY <1>5, Zenon DEF ReadsBelow
<1>7. \E g : g = [x \in X |-> Body(p, g, x)]
  BY <1>1, <1>6, Recursion
<1> QED BY <1>7 DEF X

\* The folds of the model step by step.
NodesOver(seq, base) == FoldRight(NodeHash, seq, base)
LeavesOver(base, seq) == FoldLeft(Append1, base, seq)

\* h holds the trees that appending the n data of seq to base goes through.
Appended(h, base, seq, n) ==
  /\ h[0] = base
  /\ \A k \in 0 .. n - 1 : h[k + 1] = Append1(h[k], seq[k + 1])
  /\ LeavesOver(base, seq) = h[n]

\* Appending data one after the other, step by step.
LEMMA AppendFold ==
  ASSUME NEW n \in Nat, NEW seq, IsRow(seq, n), NEW base
  PROVE  \E h : Appended(h, base, seq, n)
<1> DEFINE X == Sets(n)
           E(g, s) == IF s = {} THEN base ELSE Append1(g[s \ {Top(s)}], seq[Top(s)])
           P(g) == g = [s \in X |-> E(g, s)]
           p == [kind |-> "append", base |-> base, seq |-> seq, leaf |-> 0]
           G == CHOOSE g : P(g)
           h == [k \in 0 .. n |-> G[1 .. k]]
<1>1. FoldLeft(Append1, base, seq) = G[1 .. n]
  <2>1. DOMAIN seq = 1 .. n
    BY RowLen
  <2>2. FoldLeft(Append1, base, seq) =
          (CHOOSE g : g = [s \in SUBSET (DOMAIN seq) |->
             IF s = {} THEN base ELSE Append1(g[s \ {Top(s)}], seq[Top(s)])])[DOMAIN seq]
    BY Zenon DEF FoldLeft, MapThenFoldSet, Top, Max
  <2> QED BY <2>1, <2>2, Zenon DEF Sets
<1>2. P(G)
  <2>1. \A g, s : Body(p, g, s) = E(g, s)
    BY DEF Body
  <2>2. \E g : g = [s \in X |-> Body(p, g, s)]
    <3>1. p.kind \in {"append", "verify", "node"}
      OBVIOUS
    <3> HIDE DEF p
    <3> QED BY <3>1, SubsetRecursion
  <2>3. \E g : P(g)
    <3> HIDE DEF p, X, E
    <3>1. PICK g : g = [s \in X |-> Body(p, g, s)]
      BY <2>2
    <3>2. [s \in X |-> Body(p, g, s)] = [s \in X |-> E(g, s)]
      BY <2>1
    <3>3. P(g)
      BY <3>1, <3>2
    <3> QED BY <3>3
  <2> HIDE DEF P
  <2> QED BY <2>3
<1> HIDE DEF G
<1>3. G[{}] = base /\ \A s \in X : s # {} => G[s] = Append1(G[s \ {Top(s)}], seq[Top(s)])
  <2>1. {} \in X
    BY DEF Sets
  <2> HIDE DEF X
  <2>2. G[{}] = base
    BY <1>2, <2>1, Zenon
  <2>3. \A s \in X : s # {} => G[s] = Append1(G[s \ {Top(s)}], seq[Top(s)])
    BY <1>2, Zenon
  <2> QED BY <2>2, <2>3
<1>4. ASSUME NEW k \in 0 .. n - 1 PROVE G[1 .. k + 1] = Append1(G[1 .. k], seq[k + 1])
  <2>1. 1 .. k + 1 \in X /\ 1 .. k + 1 # {} /\ (1 .. k + 1) \ {k + 1} = 1 .. k
    BY DEF Sets
  <2>2. Top(1 .. k + 1) = k + 1
    BY TopBot
  <2> HIDE DEF X
  <2> QED BY <1>3, <2>1, <2>2
<1>5. h[0] = base
  <2>1. 1 .. 0 = {} /\ 0 \in 0 .. n
    OBVIOUS
  <2>2. h[0] = G[1 .. 0]
    BY <2>1, Zenon
  <2>3. h[0] = G[{}]
    BY <2>1, <2>2, Zenon
  <2> HIDE DEF h, X
  <2> QED BY <1>3, <2>3
<1>6. ASSUME NEW k \in 0 .. n - 1 PROVE h[k + 1] = Append1(h[k], seq[k + 1])
  <2>1. h[k + 1] = G[1 .. k + 1] /\ h[k] = G[1 .. k]
    OBVIOUS
  <2> HIDE DEF h
  <2> QED BY <1>4, <2>1
<1>7. h[n] = G[1 .. n]
  OBVIOUS
<1> HIDE DEF h
<1>8. Appended(h, base, seq, n)
  BY <1>1, <1>5, <1>6, <1>7, Zenon DEF LeavesOver, Appended
<1> QED BY <1>8

\* Hashing from the last of a row to its first, step by step.
LEMMA NodeFold ==
  ASSUME NEW n \in Nat, NEW seq, IsRow(seq, n), NEW base
  PROVE  \E h : /\ h[n + 1] = base
                /\ \A k \in 1 .. n : h[k] = NodeHash(seq[k], h[k + 1])
                /\ NodesOver(seq, base) = h[1]
<1> DEFINE X == Sets(n)
           E(g, s) == IF s = {} THEN base ELSE NodeHash(seq[Bot(s)], g[s \ {Bot(s)}])
           P(g) == g = [s \in X |-> E(g, s)]
           p == [kind |-> "node", base |-> base, seq |-> seq, leaf |-> 0]
           G == CHOOSE g : P(g)
           h == [k \in 1 .. n + 1 |-> G[k .. n]]
<1>1. FoldRight(NodeHash, seq, base) = G[1 .. n]
  <2>1. DOMAIN seq = 1 .. n
    BY RowLen
  <2>2. FoldRight(NodeHash, seq, base) =
          (CHOOSE g : g = [s \in SUBSET (DOMAIN seq) |->
             IF s = {} THEN base ELSE NodeHash(seq[Bot(s)], g[s \ {Bot(s)}])])[DOMAIN seq]
    BY Zenon DEF FoldRight, MapThenFoldSet, Bot, Min
  <2> QED BY <2>1, <2>2, Zenon DEF Sets
<1>2. P(G)
  <2>1. \A g, s : Body(p, g, s) = E(g, s)
    BY DEF Body
  <2>2. \E g : g = [s \in X |-> Body(p, g, s)]
    <3>1. p.kind \in {"append", "verify", "node"}
      OBVIOUS
    <3> HIDE DEF p
    <3> QED BY <3>1, SubsetRecursion
  <2>3. \E g : P(g)
    <3> HIDE DEF p, X, E
    <3>1. PICK g : g = [s \in X |-> Body(p, g, s)]
      BY <2>2
    <3>2. [s \in X |-> Body(p, g, s)] = [s \in X |-> E(g, s)]
      BY <2>1
    <3>3. P(g)
      BY <3>1, <3>2
    <3> QED BY <3>3
  <2> HIDE DEF P
  <2> QED BY <2>3
<1> HIDE DEF G
<1>3. G[{}] = base /\ \A s \in X : s # {} => G[s] = NodeHash(seq[Bot(s)], G[s \ {Bot(s)}])
  <2>1. {} \in X
    BY DEF Sets
  <2> HIDE DEF X
  <2>2. G[{}] = base
    BY <1>2, <2>1, Zenon
  <2>3. \A s \in X : s # {} => G[s] = NodeHash(seq[Bot(s)], G[s \ {Bot(s)}])
    BY <1>2, Zenon
  <2> QED BY <2>2, <2>3
<1>4. ASSUME NEW k \in 1 .. n PROVE G[k .. n] = NodeHash(seq[k], G[k + 1 .. n])
  <2>1. k .. n \in X /\ k .. n # {} /\ (k .. n) \ {k} = k + 1 .. n
    BY DEF Sets
  <2>2. Bot(k .. n) = k
    BY TopBot
  <2> HIDE DEF X
  <2> QED BY <1>3, <2>1, <2>2
<1>5. h[n + 1] = base
  <2>1. n + 1 .. n = {}
    OBVIOUS
  <2> QED BY <1>3, <2>1
<1>6. \A k \in 1 .. n : h[k] = NodeHash(seq[k], h[k + 1])
  BY <1>4
<1>7. h[1] = G[1 .. n]
  OBVIOUS
<1> HIDE DEF h
<1> QED BY <1>1, <1>5, <1>6, <1>7, Zenon DEF NodesOver

\* VerifyProof walks up level by level.
LEMMA VerifyFold ==
  ASSUME NEW data, NEW leafIndex, NEW treeSize, NEW path, NEW expectedRoot,
         TreeDepth(treeSize) \in Nat
  PROVE  \E h : /\ h[0] = VStart(data, treeSize, path)
                /\ \A k \in 0 .. TreeDepth(treeSize) - 1 : h[k + 1] = VStep(leafIndex, h[k], k)
                /\ VerifyProof(data, leafIndex, treeSize, path, expectedRoot)
                     <=> (leafIndex < treeSize /\ Accepts(h[TreeDepth(treeSize)], expectedRoot))
<1> DEFINE n == TreeDepth(treeSize)
           seq == [k \in 1 .. n |-> k - 1]
           base == VStart(data, treeSize, path)
           X == Sets(n)
           E(g, s) == IF s = {} THEN base ELSE VStep(leafIndex, g[s \ {Top(s)}], seq[Top(s)])
           P(g) == g = [s \in X |-> E(g, s)]
           p == [kind |-> "verify", base |-> base, seq |-> seq, leaf |-> leafIndex]
           G == CHOOSE g : P(g)
           h == [k \in 0 .. n |-> G[1 .. k]]
<1>0. n \in Nat
  OBVIOUS
<1>1. VerifyProof(data, leafIndex, treeSize, path, expectedRoot)
        <=> (leafIndex < treeSize /\ Accepts(G[1 .. n], expectedRoot))
  <2>1. DOMAIN seq = 1 .. n
    OBVIOUS
  <2>2. VerifyProof(data, leafIndex, treeSize, path, expectedRoot)
        <=> /\ leafIndex < treeSize
            /\ Accepts((CHOOSE g : g = [s \in SUBSET (DOMAIN seq) |->
                 IF s = {} THEN VStart(data, treeSize, path)
                 ELSE VStep(leafIndex, g[s \ {Top(s)}], seq[Top(s)])])[DOMAIN seq], expectedRoot)
    BY Zenon DEF FoldLeft, MapThenFoldSet, Top, Max, VerifyProof, VStep, VStart
  <2> HIDE DEF seq, n
  <2> QED BY <2>1, <2>2, Zenon DEF Sets
<1>2. P(G)
  <2> HIDE DEF seq, base
  <2>1. \A g, s : Body(p, g, s) = E(g, s)
    BY DEF Body
  <2>2. \E g : g = [s \in X |-> Body(p, g, s)]
    <3>1. p.kind \in {"append", "verify", "node"}
      OBVIOUS
    <3> HIDE DEF p, n
    <3> QED BY <1>0, <3>1, SubsetRecursion
  <2>3. \E g : P(g)
    <3> HIDE DEF p, X, E
    <3>1. PICK g : g = [s \in X |-> Body(p, g, s)]
      BY <2>2
    <3>2. [s \in X |-> Body(p, g, s)] = [s \in X |-> E(g, s)]
      BY <2>1
    <3>3. P(g)
      BY <3>1, <3>2
    <3> QED BY <3>3
  <2> HIDE DEF P
  <2> QED BY <2>3
<1> HIDE DEF G
<1>3. G[{}] = base /\ \A s \in X : s # {} => G[s] = VStep(leafIndex, G[s \ {Top(s)}], seq[Top(s)])
  <2>1. {} \in X
    BY DEF Sets
  <2> HIDE DEF X, seq, base
  <2>2. G[{}] = base
    BY <1>2, <2>1, Zenon
  <2>3. \A s \in X : s # {} => G[s] = VStep(leafIndex, G[s \ {Top(s)}], seq[Top(s)])
    BY <1>2, Zenon
  <2> QED BY <2>2, <2>3
<1>4. ASSUME NEW k \in 0 .. n - 1 PROVE G[1 .. k + 1] = VStep(leafIndex, G[1 .. k], k)
  <2> HIDE DEF n
  <2>1. 1 .. k + 1 \in X /\ 1 .. k + 1 # {} /\ (1 .. k + 1) \ {k + 1} = 1 .. k
    BY <1>0 DEF Sets
  <2>2. Top(1 .. k + 1) = k + 1
    BY <1>0, TopBot
  <2>3. seq[k + 1] = k
    BY <1>0
  <2> HIDE DEF X, seq
  <2> QED BY <1>3, <2>1, <2>2, <2>3
<1> HIDE DEF n, base
<1>5. h[0] = base
  <2>1. 1 .. 0 = {} /\ 0 \in 0 .. n
    BY <1>0
  <2> QED BY <1>3, <2>1
<1>6. \A k \in 0 .. n - 1 : h[k + 1] = VStep(leafIndex, h[k], k)
  BY <1>0, <1>4
<1>7. h[n] = G[1 .. n]
  BY <1>0
<1> HIDE DEF h
<1> QED BY <1>1, <1>5, <1>6, <1>7, Zenon DEF n, base

\* FlattenSeq of a non-empty sequence, step by step.
LEMMA Flatten ==
  ASSUME NEW n \in Nat \ {0}, NEW seq, IsRow(seq, n)
  PROVE  \E h : /\ h[1] = seq[1]
                /\ \A k \in 1 .. n - 1 : h[k + 1] = h[k] \o seq[k + 1]
                /\ FlattenSeq(seq) = h[n]
<1> DEFINE X == 1 .. n
           E(g, i) == IF i = 1 THEN seq[i] ELSE g[i - 1] \o seq[i]
           P(g) == g = [i \in X |-> E(g, i)]
           p == [kind |-> "flatten", base |-> 0, seq |-> seq, leaf |-> 0]
           G == CHOOSE g : P(g)
<1>1. FlattenSeq(seq) = G[n]
  <2>1. Len(seq) = n /\ Len(seq) # 0
    BY RowLen
  <2>2. FlattenSeq(seq) =
          (CHOOSE f : f = [i \in 1 .. Len(seq) |->
             IF i = 1 THEN seq[i] ELSE f[i - 1] \o seq[i]])[Len(seq)]
    BY <2>1, Zenon DEF FlattenSeq
  <2> QED BY <2>1, <2>2, Zenon DEF Sets
<1>2. P(G)
  <2>1. \A g, i : Body(p, g, i) = E(g, i)
    BY DEF Body
  <2>2. \E g : g = [i \in X |-> Body(p, g, i)]
    <3>1. p.kind = "flatten"
      OBVIOUS
    <3> HIDE DEF p
    <3>2. \E g : g = [i \in 1 .. n |-> Body(p, g, i)]
      BY <3>1, IntervalRecursion
    <3> QED BY <3>2
  <2>3. \E g : P(g)
    <3> HIDE DEF p, X, E
    <3>1. PICK g : g = [i \in X |-> Body(p, g, i)]
      BY <2>2
    <3>2. [i \in X |-> Body(p, g, i)] = [i \in X |-> E(g, i)]
      BY <2>1
    <3>3. P(g)
      BY <3>1, <3>2
    <3> QED BY <3>3
  <2> HIDE DEF P
  <2> QED BY <2>3
<1> HIDE DEF G
<1>3. \A i \in X : G[i] = IF i = 1 THEN seq[i] ELSE G[i - 1] \o seq[i]
  <2> HIDE DEF X
  <2> QED BY <1>2, Zenon
<1>4. G[1] = seq[1]
  BY <1>3
<1>5. ASSUME NEW k \in 1 .. n - 1 PROVE G[k + 1] = G[k] \o seq[k + 1]
  <2>1. k + 1 \in X /\ k + 1 # 1 /\ k + 1 - 1 = k
    OBVIOUS
  <2> DEFINE m == k + 1
  <2>2. m \in X /\ m # 1 /\ m - 1 = k
    BY <2>1
  <2> HIDE DEF X, m
  <2>3. G[m] = G[m - 1] \o seq[m]
    BY <1>3, <2>2, Zenon
  <2> QED BY <2>2, <2>3, Zenon DEF m
<1> QED BY <1>1, <1>4, <1>5, Zenon

\* The levels that buildTree makes, step by step.
LEMMA Levels ==
  ASSUME NEW leaves, NEW size, TreeDepth(size) \in Nat
  PROVE  /\ BuildTree(leaves, size)[0] = Row(leaves, size)
         /\ \A k \in 0 .. TreeDepth(size) - 1 :
              BuildTree(leaves, size)[k + 1] = Parents(BuildTree(leaves, size)[k])
<1> DEFINE n == TreeDepth(size)
           X == 0 .. n
           E(g, k) == IF k = 0 THEN Row(leaves, size) ELSE Parents(g[k - 1])
           P(g) == g = [k \in X |-> E(g, k)]
           p == [kind |-> "levels", base |-> Row(leaves, size), seq |-> <<>>, leaf |-> 0]
           G == CHOOSE g : P(g)
<1>0. n \in Nat
  OBVIOUS
<1>1. BuildTree(leaves, size) = G
  BY Zenon DEF BuildTree
<1>2. P(G)
  <2>1. \A g, k : Body(p, g, k) = E(g, k)
    BY DEF Body
  <2>2. \E g : g = [k \in X |-> Body(p, g, k)]
    <3>1. p.kind = "levels"
      OBVIOUS
    <3> HIDE DEF p, n
    <3>2. \E g : g = [k \in 0 .. n |-> Body(p, g, k)]
      BY <1>0, <3>1, IntervalRecursion
    <3> QED BY <3>2
  <2>3. \E g : P(g)
    <3> HIDE DEF p, X, E
    <3>1. PICK g : g = [k \in X |-> Body(p, g, k)]
      BY <2>2
    <3>2. [k \in X |-> Body(p, g, k)] = [k \in X |-> E(g, k)]
      BY <2>1
    <3>3. P(g)
      BY <3>1, <3>2
    <3> QED BY <3>3
  <2> HIDE DEF P
  <2> QED BY <2>3
<1> HIDE DEF G
<1>3. \A k \in X : G[k] = IF k = 0 THEN Row(leaves, size) ELSE Parents(G[k - 1])
  <2> HIDE DEF X
  <2> QED BY <1>2, Zenon
<1> HIDE DEF n
<1>4. G[0] = Row(leaves, size)
  BY <1>0, <1>3
<1>5. ASSUME NEW k \in 0 .. n - 1 PROVE G[k + 1] = Parents(G[k])
  <2>1. k + 1 \in X /\ k + 1 # 0 /\ k + 1 - 1 = k
    BY <1>0
  <2> HIDE DEF X
  <2>2. G[k + 1] = Parents(G[k + 1 - 1])
    BY <1>3, <2>1
  <2> QED BY <2>1, <2>2
<1> QED BY <1>1, <1>4, <1>5 DEF n

(***************************************************************************)
(* The rows of the tree over a row of leaf hashes, level by level, and the *)
(* fringe: after n appends it holds the top of one complete subtree for    *)
(* every one in the binary expansion of n.                                 *)
(***************************************************************************)

\* Row k of the tree over the leaves L, as buildTree computes it.
Levels0(L, m) == CHOOSE g : g = [k \in 0 .. m |-> IF k = 0 THEN L ELSE Parents(g[k - 1])]
Lev(L, k) == Levels0(L, k)[k]

\* The recursion of the levels holds.
LEMMA Levels0Steps ==
  ASSUME NEW L, NEW m \in Nat
  PROVE  /\ Levels0(L, m)[0] = L
         /\ \A k \in 0 .. m - 1 : Levels0(L, m)[k + 1] = Parents(Levels0(L, m)[k])
<1> DEFINE X == 0 .. m
           E(g, k) == IF k = 0 THEN L ELSE Parents(g[k - 1])
           P(g) == g = [k \in X |-> E(g, k)]
           p == [kind |-> "levels", base |-> L, seq |-> <<>>, leaf |-> 0]
           G == CHOOSE g : P(g)
<1>1. Levels0(L, m) = G
  BY Zenon DEF Levels0
<1>2. P(G)
  <2>1. \A g, k : Body(p, g, k) = E(g, k)
    BY DEF Body
  <2>2. \E g : g = [k \in X |-> Body(p, g, k)]
    <3>1. p.kind = "levels"
      OBVIOUS
    <3> HIDE DEF p
    <3>2. \E g : g = [k \in 0 .. m |-> Body(p, g, k)]
      BY <3>1, IntervalRecursion
    <3> QED BY <3>2
  <2>3. \E g : P(g)
    <3> HIDE DEF p, X, E
    <3>1. PICK g : g = [k \in X |-> Body(p, g, k)]
      BY <2>2
    <3>2. [k \in X |-> Body(p, g, k)] = [k \in X |-> E(g, k)]
      BY <2>1
    <3>3. P(g)
      BY <3>1, <3>2
    <3> QED BY <3>3
  <2> HIDE DEF P
  <2> QED BY <2>3
<1> HIDE DEF G
<1>3. \A k \in X : G[k] = IF k = 0 THEN L ELSE Parents(G[k - 1])
  <2> HIDE DEF X
  <2> QED BY <1>2, Zenon
<1>4. G[0] = L
  BY <1>3
<1>5. ASSUME NEW k \in 0 .. m - 1 PROVE G[k + 1] = Parents(G[k])
  <2>1. k + 1 \in X /\ k + 1 # 0 /\ k + 1 - 1 = k
    OBVIOUS
  <2> HIDE DEF X
  <2>2. G[k + 1] = Parents(G[k + 1 - 1])
    BY <1>3, <2>1
  <2> QED BY <2>1, <2>2
<1> QED BY <1>1, <1>4, <1>5

\* f holds, from L up, m rows of parents.
Rises(f, L, m) == f[0] = L /\ \A k \in 0 .. m - 1 : f[k + 1] = Parents(f[k])

\* A function that steps like the rows is the rows.
LEMMA LevUnique ==
  ASSUME NEW L, NEW m \in Nat, NEW f, Rises(f, L, m)
  PROVE  \A k \in 0 .. m : f[k] = Lev(L, k)
<1> SUFFICES ASSUME NEW j \in 0 .. m PROVE f[j] = Lev(L, j)
  OBVIOUS
<1> USE DEF Rises
<1> DEFINE g == Levels0(L, j)
           S == {k \in Nat : k <= j => f[k] = g[k]}
<1>1. g[0] = L /\ \A k \in 0 .. j - 1 : g[k + 1] = Parents(g[k])
  BY Levels0Steps
<1> HIDE DEF g
<1>2. 0 \in S
  BY <1>1
<1>3. ASSUME NEW k \in S PROVE k + 1 \in S
  <2> SUFFICES ASSUME k + 1 <= j PROVE f[k + 1] = g[k + 1]
    OBVIOUS
  <2>1. k \in 0 .. j - 1 /\ k \in 0 .. m - 1 /\ f[k] = g[k]
    OBVIOUS
  <2> QED BY <1>1, <2>1
<1>4. j \in S
  <2> HIDE DEF S
  <2>1. S \in SUBSET Nat
    BY DEF S
  <2> QED BY <1>2, <1>3, <2>1, NatClosed
<1> QED BY <1>4 DEF Lev, g

\* Every level is the parents of the one below.
LEMMA LevStep ==
  ASSUME NEW L, NEW k \in Nat
  PROVE  Lev(L, 0) = L /\ Lev(L, k + 1) = Parents(Lev(L, k))
<1> DEFINE g == Levels0(L, k + 1)
<1>1. g[0] = L /\ \A j \in 0 .. (k + 1) - 1 : g[j + 1] = Parents(g[j])
  BY Levels0Steps
<1> HIDE DEF g
<1>2. \A j \in 0 .. k + 1 : g[j] = Lev(L, j)
  <2>1. k + 1 \in Nat /\ Rises(g, L, k + 1)
    BY <1>1 DEF Rises
  <2> QED BY <2>1, LevUnique
<1>3. g[0] = Lev(L, 0) /\ g[k] = Lev(L, k) /\ g[k + 1] = Lev(L, k + 1)
  BY <1>2
<1>4. g[k + 1] = Parents(g[k])
  BY <1>1
<1> QED BY <1>1, <1>3, <1>4

\* One level up.
LEMMA ParentsRow ==
  ASSUME NEW n \in Nat, NEW row, IsRow(row, n)
  PROVE  /\ IsRow(Parents(row), (n + 1) \div 2)
         /\ \A i \in 1 .. (n + 1) \div 2 :
              Parents(row)[i] = IF 2 * i <= n THEN NodeHash(row[2*i - 1], row[2*i])
                                ELSE row[2*i - 1]
<1>1. Len(row) = n
  BY RowLen
<1>2. Parents(row) = [i \in 1 .. (n + 1) \div 2 |->
        IF 2 * i <= n THEN NodeHash(row[2*i - 1], row[2*i]) ELSE row[2*i - 1]]
  BY <1>1 DEF Parents
<1> QED BY <1>2 DEF IsRow

\* Row k has the length Width(n, k).
LEMMA LevRow ==
  ASSUME NEW n \in Nat, NEW L, IsRow(L, n)
  PROVE  \A k \in Nat : IsRow(Lev(L, k), Width(n, k))
<1> DEFINE S == {k \in Nat : IsRow(Lev(L, k), Width(n, k))}
<1>1. 0 \in S
  BY LevStep, Blocks
<1>2. ASSUME NEW k \in S PROVE k + 1 \in S
  <2>1. Width(n, k) \in Nat /\ Width(n, k + 1) = (Width(n, k) + 1) \div 2
    BY Blocks
  <2>2. IsRow(Lev(L, k), Width(n, k)) /\ Lev(L, k + 1) = Parents(Lev(L, k))
    BY LevStep
  <2>3. IsRow(Parents(Lev(L, k)), (Width(n, k) + 1) \div 2)
    BY <2>1, <2>2, ParentsRow
  <2> QED BY <2>1, <2>2, <2>3
<1>3. \A k \in Nat : k \in S
  <2> HIDE DEF S
  <2>1. S \in SUBSET Nat
    BY DEF S
  <2> QED BY <1>1, <1>2, <2>1, NatClosed
<1> QED BY <1>3

\* A node is the hash of its two children, or its only child.
LEMMA LevNode ==
  ASSUME NEW n \in Nat, NEW L, IsRow(L, n), NEW k \in Nat, NEW i \in Nat \ {0},
         2 * i <= Width(n, k) + 1
  PROVE  Lev(L, k + 1)[i] = IF 2 * i <= Width(n, k) THEN NodeHash(Lev(L, k)[2*i - 1], Lev(L, k)[2*i])
                            ELSE Lev(L, k)[2*i - 1]
<1>1. Width(n, k) \in Nat
  BY Blocks
<1>2. IsRow(Lev(L, k), Width(n, k)) /\ Lev(L, k + 1) = Parents(Lev(L, k))
  BY LevStep, LevRow
<1>3. i \in 1 .. (Width(n, k) + 1) \div 2
  BY <1>1
<1> QED BY <1>1, <1>2, <1>3, ParentsRow

\* Complete blocks do not change when leaves are added.
LEMMA LevPrefix ==
  ASSUME NEW n \in Nat, NEW L, IsRow(L, n), NEW m \in Nat, NEW M, IsRow(M, m), n <= m,
         \A i \in 1 .. n : M[i] = L[i]
  PROVE  \A k \in Nat : \A i \in 1 .. Quot(n, k) : Lev(M, k)[i] = Lev(L, k)[i]
<1> DEFINE S == {k \in Nat : \A i \in 1 .. Quot(n, k) : Lev(M, k)[i] = Lev(L, k)[i]}
<1>1. 0 \in S
  <2>1. Quot(n, 0) = n /\ Lev(M, 0) = M /\ Lev(L, 0) = L
    BY Halving, LevStep
  <2> QED BY <2>1
<1>2. ASSUME NEW k \in S PROVE k + 1 \in S
  <2> SUFFICES ASSUME NEW i \in 1 .. Quot(n, k + 1)
               PROVE  Lev(M, k + 1)[i] = Lev(L, k + 1)[i]
    OBVIOUS
  <2>1. /\ Quot(n, k) \in Nat /\ Quot(n, k + 1) = Quot(n, k) \div 2 /\ Quot(n, k) <= Width(n, k)
        /\ Width(n, k) \in Nat /\ Quot(m, k) \in Nat /\ Width(m, k) \in Nat
        /\ Quot(n, k) <= Quot(m, k) /\ Quot(m, k) <= Width(m, k)
    BY Halving, Blocks, QuotGrows
  <2>2. i \in Nat \ {0} /\ 2 * i <= Quot(n, k)
    BY <2>1
  <2>3. 2 * i <= Width(n, k) /\ 2 * i <= Width(m, k) /\ 2*i - 1 \in 1 .. Quot(n, k) /\ 2*i \in 1 .. Quot(n, k)
        /\ 2 * i <= Width(n, k) + 1 /\ 2 * i <= Width(m, k) + 1
    BY <2>1, <2>2
  <2>4. Lev(M, k)[2*i - 1] = Lev(L, k)[2*i - 1] /\ Lev(M, k)[2*i] = Lev(L, k)[2*i]
    BY <2>3
  <2>5. Lev(L, k + 1)[i] = NodeHash(Lev(L, k)[2*i - 1], Lev(L, k)[2*i])
    BY <2>2, <2>3, LevNode
  <2>6. Lev(M, k + 1)[i] = NodeHash(Lev(M, k)[2*i - 1], Lev(M, k)[2*i])
    BY <2>2, <2>3, LevNode
  <2> QED BY <2>4, <2>5, <2>6
<1>3. \A k \in Nat : k \in S
  <2> HIDE DEF S
  <2>1. S \in SUBSET Nat
    BY DEF S
  <2> QED BY <1>1, <1>2, <2>1, NatClosed
<1> QED BY <1>3

\* Above the top there is only the top.
LEMMA LevTop ==
  ASSUME NEW n \in Nat \ {0}, NEW L, IsRow(L, n)
  PROVE  \A k \in Nat : Lev(L, TreeDepth(n) + k)[1] = Lev(L, TreeDepth(n))[1]
                        /\ Width(n, TreeDepth(n) + k) = 1
<1> DEFINE d == TreeDepth(n)
           S == {k \in Nat : Lev(L, d + k)[1] = Lev(L, d)[1] /\ Width(n, d + k) = 1}
<1>0. d \in Nat /\ Width(n, d) = 1
  BY Depth
<1> HIDE DEF d
<1>1. 0 \in S
  <2>1. d + 0 = d
    BY <1>0
  <2> QED BY <1>0, <2>1
<1>2. ASSUME NEW k \in S PROVE k + 1 \in S
  <2> DEFINE l == d + k
  <2>1. l \in Nat /\ d + (k + 1) = l + 1 /\ Width(n, l) = 1 /\ Lev(L, l)[1] = Lev(L, d)[1]
    BY <1>0
  <2> HIDE DEF l
  <2>2. Width(n, l + 1) = (1 + 1) \div 2
    BY <2>1, Blocks
  <2>3. Lev(L, l + 1)[1] = Lev(L, l)[1]
    <3>1. 2 * 1 <= Width(n, l) + 1 /\ ~(2 * 1 <= Width(n, l)) /\ 2*1 - 1 = 1
      BY <2>1
    <3>2. Lev(L, l + 1)[1] = Lev(L, l)[2*1 - 1]
      BY <2>1, <3>1, LevNode
    <3> QED BY <3>1, <3>2
  <2> QED BY <2>1, <2>2, <2>3
<1>3. \A k \in Nat : k \in S
  <2> HIDE DEF S
  <2>1. S \in SUBSET Nat
    BY DEF S
  <2> QED BY <1>1, <1>2, <2>1, NatClosed
<1> QED BY <1>3 DEF d

\* The fringe holds the tops of the complete subtrees, largest first.
FringeOK(fringe, L, n) ==
  /\ IsRow(fringe, Ones(n, n))
  /\ \A k \in Nat : Odd(n, k) => fringe[Ones(n, n) - Ones(n, k)] = Lev(L, k)[Quot(n, k)]

\* A tree over n leaves: what Append builds and Root and Proof rely on.
TreeOK(t, n) ==
  /\ t = [leaves |-> t.leaves, fringe |-> t.fringe, size |-> n]
  /\ IsRow(t.leaves, n)
  /\ FringeOK(t.fringe, t.leaves, n)

\* NewMerkleTree is a tree over no leaves.
LEMMA EmptyOK == TreeOK(NewMerkleTree, 0)
<1>1. Ones(0, 0) = 0 /\ \A k \in Nat : ~Odd(0, k)
  BY OnesStep, OnesEnd
<1> QED BY <1>1, EmptyRow DEF TreeOK, FringeOK, NewMerkleTree

\* Below the level Append's loop ends at there are only ones, so the next
\* size has none there and one at it.
LEMMA OnesMerged ==
  ASSUME NEW n \in Nat
  PROVE  LET m == Merges(n) IN
         /\ \A j \in Nat : j <= m => Ones(n, j) = j /\ Ones(n + 1, j) = 0
         /\ \A j \in Nat : j > m => Ones(n + 1, j) = Ones(n, j) - m + 1 /\ Ones(n, j) >= m
         /\ \A j \in Nat : j > m => (Odd(n + 1, j) <=> Odd(n, j))
         /\ Ones(n + 1, n + 1) = Ones(n, n) - m + 1 /\ Ones(n, n) >= m
<1> DEFINE m == Merges(n)
<1>1. /\ m \in Nat /\ m <= n /\ ~Odd(n, m) /\ Odd(n + 1, m)
      /\ \A j \in Nat : j < m => Odd(n, j) /\ ~Odd(n + 1, j)
      /\ \A j \in Nat : j > m => Quot(n + 1, j) = Quot(n, j)
  BY MergesAt
<1> HIDE DEF m
<1>2. \A j \in Nat : j <= m => Ones(n, j) = j /\ Ones(n + 1, j) = 0
  <2> DEFINE S == {j \in Nat : j <= m => Ones(n, j) = j /\ Ones(n + 1, j) = 0}
  <2>1. 0 \in S
    <3>1. n + 1 \in Nat
      OBVIOUS
    <3> QED BY <3>1, OnesStep
  <2>2. ASSUME NEW j \in S PROVE j + 1 \in S
    <3> SUFFICES ASSUME j + 1 <= m PROVE Ones(n, j + 1) = j + 1 /\ Ones(n + 1, j + 1) = 0
      OBVIOUS
    <3>1. j < m /\ Ones(n, j) = j /\ Ones(n + 1, j) = 0
      BY <1>1
    <3>2. Odd(n, j) /\ ~Odd(n + 1, j)
      BY <1>1, <3>1
    <3> QED BY <3>1, <3>2, OnesStep
  <2>3. \A j \in Nat : j \in S
    <3> HIDE DEF S
    <3>1. S \in SUBSET Nat
      BY DEF S
    <3> QED BY <2>1, <2>2, <3>1, NatClosed
  <2> QED BY <2>3
<1>3. \A j \in Nat : j > m => (Odd(n + 1, j) <=> Odd(n, j))
  BY <1>1 DEF Odd
<1>4. \A j \in Nat : j > m => Ones(n + 1, j) = Ones(n, j) - m + 1 /\ Ones(n, j) >= m
  <2> DEFINE S == {i \in Nat : Ones(n + 1, m + 1 + i) = Ones(n, m + 1 + i) - m + 1
                               /\ Ones(n, m + 1 + i) >= m}
  <2>1. 0 \in S
    <3>1. Ones(n, m) = m /\ Ones(n + 1, m) = 0
      BY <1>1, <1>2
    <3>2. Ones(n, m + 1) = m /\ Ones(n + 1, m + 1) = 1
      BY <1>1, <3>1, OnesStep
    <3>3. m + 1 + 0 = m + 1
      BY <1>1
    <3>4. 1 = m - m + 1 /\ m >= m
      BY <1>1
    <3> QED BY <3>2, <3>3, <3>4
  <2>2. ASSUME NEW i \in S PROVE i + 1 \in S
    <3> DEFINE l == m + 1 + i
    <3>1. /\ l \in Nat /\ l > m /\ m + 1 + (i + 1) = l + 1
          /\ Ones(n + 1, l) = Ones(n, l) - m + 1 /\ Ones(n, l) >= m
      BY <1>1
    <3> HIDE DEF l
    <3>2. /\ Ones(n, l) \in Nat
          /\ Ones(n, l + 1) = IF Odd(n, l) THEN Ones(n, l) + 1 ELSE Ones(n, l)
          /\ Ones(n + 1, l + 1) = IF Odd(n + 1, l) THEN Ones(n + 1, l) + 1 ELSE Ones(n + 1, l)
      BY <3>1, OnesStep
    <3>3. Ones(n + 1, l + 1) = Ones(n, l + 1) - m + 1 /\ Ones(n, l + 1) >= m
      BY <1>1, <1>3, <3>1, <3>2
    <3> QED BY <3>1, <3>3
  <2>3. \A i \in Nat : i \in S
    <3> HIDE DEF S
    <3>1. S \in SUBSET Nat
      BY DEF S
    <3> QED BY <2>1, <2>2, <3>1, NatClosed
  <2>4. ASSUME NEW j \in Nat, j > m
        PROVE  Ones(n + 1, j) = Ones(n, j) - m + 1 /\ Ones(n, j) >= m
    <3> DEFINE i == j - (m + 1)
    <3>1. i \in Nat /\ m + 1 + i = j
      BY <1>1, <2>4
    <3> HIDE DEF i
    <3>2. i \in S
      BY <2>3, <3>1
    <3> QED BY <3>1, <3>2
  <2> QED BY <2>4
<1>5. Ones(n + 1, n + 1) = Ones(n, n) - m + 1 /\ Ones(n, n) >= m
  <2>1. n + 1 \in Nat /\ n + 1 > m /\ n + 1 >= n
    BY <1>1
  <2>2. Ones(n, n + 1) = Ones(n, n)
    BY <2>1, OnesEnd
  <2> QED BY <1>4, <2>1, <2>2
<1> QED BY <1>2, <1>3, <1>4, <1>5 DEF m

\* Append keeps the fringe the tops of the complete subtrees.
LEMMA AppendOK ==
  ASSUME NEW n \in Nat, NEW t, TreeOK(t, n), NEW data
  PROVE  /\ TreeOK(Append1(t, data), n + 1)
         /\ Append1(t, data).leaves = Append(t.leaves, LeafHash(data))
<1> DEFINE L == t.leaves
           leaf == LeafHash(data)
           M == Grown(L, leaf)
           fr == t.fringe
           len == Ones(n, n)
           m == Merges(n)
           keep == len - m
           seq == SubSeq(fr, keep + 1, len)
           carry == NodesOver(seq, leaf)
           new == Grown(SubSeq(fr, 1, keep), carry)
<1>1. t.size = n /\ IsRow(L, n) /\ IsRow(fr, len)
      /\ \A k \in Nat : Odd(n, k) => fr[len - Ones(n, k)] = Lev(L, k)[Quot(n, k)]
  <2>1. t.size = n
    BY DEF TreeOK
  <2> QED BY <2>1 DEF TreeOK, FringeOK
<1>2. len \in Nat /\ Len(fr) = len
  <2>1. len \in Nat
    BY OnesStep
  <2> HIDE DEF len
  <2> QED BY <1>1, <2>1, RowLen
<1>3. Append1(t, data) = [leaves |-> M, fringe |-> new, size |-> n + 1]
  BY <1>1, <1>2, Zenon DEF Append1, NodesOver, Grown
<1>4. /\ m \in Nat /\ m <= n /\ ~Odd(n, m) /\ Odd(n + 1, m)
      /\ \A j \in Nat : j < m => Odd(n, j) /\ ~Odd(n + 1, j)
      /\ \A j \in Nat : j <= m => Quot(n + 1, j) = Quot(n, j) + 1
      /\ \A j \in Nat : j > m => Quot(n + 1, j) = Quot(n, j)
  BY MergesAt
<1>5. /\ \A j \in Nat : j <= m => Ones(n, j) = j /\ Ones(n + 1, j) = 0
      /\ \A j \in Nat : j > m => Ones(n + 1, j) = Ones(n, j) - m + 1 /\ Ones(n, j) >= m
      /\ \A j \in Nat : j > m => (Odd(n + 1, j) <=> Odd(n, j))
      /\ Ones(n + 1, n + 1) = len - m + 1 /\ len >= m
  BY OnesMerged
<1> HIDE DEF L, fr, len, m, leaf
<1>6. keep \in Nat /\ keep + 1 \in Nat \ {0} /\ keep + 1 <= len + 1 /\ len + 1 - (keep + 1) = m
      /\ keep <= len /\ keep + m = len
  BY <1>2, <1>4, <1>5
<1> HIDE DEF keep
<1>7. /\ IsRow(M, n + 1) /\ M[n + 1] = leaf /\ \A i \in 1 .. n : M[i] = L[i]
  <2>1. IsRow(L, n)
    BY <1>1
  <2> QED BY <2>1, RowAppend
<1> HIDE DEF M
<1>8. IsRow(seq, m) /\ \A i \in 1 .. m : seq[i] = fr[keep + 1 + i - 1]
  <2>1. /\ IsRow(seq, len + 1 - (keep + 1))
        /\ \A i \in 1 .. (len + 1 - (keep + 1)) : seq[i] = fr[keep + 1 + i - 1]
    BY <1>1, <1>2, <1>6, RowSub
  <2> HIDE DEF seq
  <2> QED BY <1>6, <2>1
<1> HIDE DEF seq
<1>9. \A k \in Nat : \A i \in 1 .. Quot(n, k) : Lev(M, k)[i] = Lev(L, k)[i]
  <2>1. n + 1 \in Nat /\ n <= n + 1
    OBVIOUS
  <2> QED BY <1>1, <1>7, <2>1, LevPrefix
<1>10. carry = Lev(M, m)[Quot(n + 1, m)]
  <2>1. PICK h : /\ h[m + 1] = leaf
                 /\ \A k \in 1 .. m : h[k] = NodeHash(seq[k], h[k + 1])
                 /\ carry = h[1]
    <3>1. m \in Nat /\ IsRow(seq, m)
      BY <1>4, <1>8
    <3> QED BY <3>1, NodeFold
  <2> HIDE DEF carry
  <2> DEFINE S == {j \in Nat : j <= m => h[m + 1 - j] = Lev(M, j)[Quot(n, j) + 1]}
  <2>2. 0 \in S
    <3>1. Quot(n, 0) = n /\ Lev(M, 0) = M /\ m + 1 - 0 = m + 1
      BY <1>4, Halving, LevStep
    <3> QED BY <1>7, <2>1, <3>1
  <2>3. ASSUME NEW j \in S PROVE j + 1 \in S
    <3> SUFFICES ASSUME j + 1 <= m PROVE h[m + 1 - (j + 1)] = Lev(M, j + 1)[Quot(n, j + 1) + 1]
      OBVIOUS
    <3> DEFINE q == Quot(n, j)
    <3>1. j \in Nat /\ j < m /\ j <= m /\ h[m + 1 - j] = Lev(M, j)[q + 1]
      BY <1>4
    <3>2. /\ q \in Nat /\ q % 2 = 1 /\ Quot(n, j + 1) = q \div 2 /\ Quot(n + 1, j) = q + 1
          /\ Quot(n + 1, j) <= Width(n + 1, j) /\ Width(n + 1, j) \in Nat
      <4>1. Odd(n, j) /\ Quot(n + 1, j) = q + 1 /\ n + 1 \in Nat
        BY <1>4, <3>1
      <4>2. q \in Nat /\ Quot(n, j + 1) = q \div 2
        BY <3>1, Halving
      <4>3. q % 2 = 1
        BY <4>1 DEF Odd
      <4>4. Quot(n + 1, j) <= Width(n + 1, j) /\ Width(n + 1, j) \in Nat
        BY <3>1, <4>1, Blocks
      <4> QED BY <4>1, <4>2, <4>3, <4>4
    <3>3. seq[m - j] = Lev(M, j)[q]
      <4>1. m - j \in 1 .. m /\ keep + 1 + (m - j) - 1 = len - j
        <5>1. m \in Nat /\ len \in Nat /\ keep \in Nat /\ keep + m = len
          BY <1>2, <1>4, <1>6
        <5>2. j \in Nat /\ j < m
          BY <3>1
        <5> HIDE DEF q, S
        <5> QED BY <5>1, <5>2
      <4>2. seq[m - j] = fr[len - j]
        <5> DEFINE v == m - j
        <5>1. v \in 1 .. m /\ keep + 1 + v - 1 = len - j
          BY <4>1
        <5> HIDE DEF v
        <5>2. seq[v] = fr[keep + 1 + v - 1]
          BY <1>8, <5>1
        <5> QED BY <5>1, <5>2 DEF v
      <4>3. Ones(n, j) = j /\ Odd(n, j)
        BY <1>4, <1>5, <3>1
      <4>4. fr[len - j] = Lev(L, j)[q]
        BY <1>1, <3>1, <4>3
      <4>5. q \in 1 .. Quot(n, j)
        BY <3>2
      <4>6. Lev(M, j)[q] = Lev(L, j)[q]
        BY <1>9, <3>1, <4>5
      <4> QED BY <4>2, <4>4, <4>6
    <3> DEFINE i == Quot(n, j + 1) + 1
    <3> HIDE DEF q
    <3>4. i \in Nat \ {0} /\ 2 * i = q + 1 /\ 2*i - 1 = q
      BY <3>2
    <3> HIDE DEF i
    <3>5. Lev(M, j + 1)[i] = NodeHash(Lev(M, j)[2*i - 1], Lev(M, j)[2*i])
      <4>1. 2 * i <= Width(n + 1, j) /\ 2 * i <= Width(n + 1, j) + 1 /\ n + 1 \in Nat
        BY <3>2, <3>4
      <4> QED BY <1>7, <3>1, <3>4, <4>1, LevNode
    <3>6. h[m - j] = NodeHash(seq[m - j], h[m + 1 - j])
      <4>1. m - j \in 1 .. m /\ m - j + 1 = m + 1 - j
        BY <1>4, <3>1
      <4> QED BY <2>1, <4>1
    <3>7. m + 1 - (j + 1) = m - j
      BY <1>4, <3>1
    <3> QED BY <3>1, <3>3, <3>4, <3>5, <3>6, <3>7 DEF i
  <2>4. m \in S
    <3> HIDE DEF S
    <3>1. S \in SUBSET Nat
      BY DEF S
    <3> QED BY <1>4, <2>2, <2>3, <3>1, NatClosed
  <2>5. h[m + 1 - m] = Lev(M, m)[Quot(n, m) + 1] /\ m + 1 - m = 1 /\ Quot(n + 1, m) = Quot(n, m) + 1
    BY <1>4, <2>4
  <2> QED BY <2>1, <2>5
<1>11. /\ IsRow(new, keep + 1) /\ new[keep + 1] = carry
       /\ \A i \in 1 .. keep : new[i] = fr[i]
  <2> HIDE DEF carry
  <2> DEFINE front == SubSeq(fr, 1, keep)
  <2>1. IsRow(front, keep) /\ \A i \in 1 .. keep : front[i] = fr[i]
    <3>1. 1 <= keep + 1 /\ 1 \in Nat \ {0} /\ keep + 1 - 1 = keep
      BY <1>6
    <3>2. /\ IsRow(front, keep + 1 - 1)
          /\ \A i \in 1 .. (keep + 1 - 1) : front[i] = fr[1 + i - 1]
      <4>1. IsRow(fr, len) /\ len \in Nat /\ keep \in Nat /\ keep <= len
        BY <1>1, <1>2, <1>6
      <4> QED BY <3>1, <4>1, RowSub
    <3> HIDE DEF front
    <3>3. \A i \in 1 .. keep : 1 + i - 1 = i
      OBVIOUS
    <3> QED BY <3>1, <3>2, <3>3
  <2> HIDE DEF front
  <2>2. /\ IsRow(Grown(front, carry), keep + 1)
        /\ Grown(front, carry)[keep + 1] = carry
        /\ \A i \in 1 .. keep : Grown(front, carry)[i] = front[i]
    <3>1. keep \in Nat /\ IsRow(front, keep)
      BY <1>6, <2>1
    <3> QED BY <3>1, RowAppend
  <2> QED BY <2>1, <2>2 DEF front
<1> HIDE DEF new, carry
<1>12. Ones(n + 1, n + 1) = keep + 1
  BY <1>5 DEF keep
<1>13. ASSUME NEW k \in Nat, Odd(n + 1, k)
       PROVE  new[Ones(n + 1, n + 1) - Ones(n + 1, k)] = Lev(M, k)[Quot(n + 1, k)]
  <2>1. CASE k < m
    BY <1>4, <1>13, <2>1
  <2>2. CASE k = m
    <3>1. Ones(n + 1, k) = 0
      <4>1. m <= m
        BY <1>4
      <4> QED BY <1>4, <1>5, <2>2, <4>1
    <3>2. Ones(n + 1, n + 1) - Ones(n + 1, k) = keep + 1
      BY <1>6, <1>12, <3>1
    <3> QED BY <1>10, <1>11, <1>12, <2>2, <3>1, <3>2
  <2>3. CASE k > m
    <3>1. /\ Odd(n, k) /\ Quot(n + 1, k) = Quot(n, k) /\ Quot(n, k) \in Nat /\ Quot(n, k) % 2 = 1
          /\ Ones(n + 1, k) = Ones(n, k) - m + 1 /\ Ones(n, k) >= m /\ Ones(n, k) \in Nat
          /\ Ones(n, k) + 1 <= len
      <4>1. Odd(n, k)
        BY <1>5, <1>13, <2>3
      <4>2. Quot(n + 1, k) = Quot(n, k) /\ Quot(n, k) \in Nat /\ Quot(n, k) % 2 = 1
        BY <1>4, <2>3, <4>1, Halving DEF Odd
      <4>3. Ones(n + 1, k) = Ones(n, k) - m + 1 /\ Ones(n, k) >= m
        BY <1>5, <2>3
      <4>4. Ones(n, k) \in Nat /\ Ones(n, k) + 1 <= len
        BY <4>1, OnesStep, OnesBelow DEF len
      <4> QED BY <4>1, <4>2, <4>3, <4>4
    <3> DEFINE o == Ones(n, k)
               w == len - o
    <3>2. (keep + 1) - Ones(n + 1, k) = w /\ w \in 1 .. keep
      <4> DEFINE p == Ones(n + 1, k)
      <4>1. /\ keep \in Nat /\ len \in Nat /\ m \in Nat /\ keep + m = len
            /\ p = o - m + 1 /\ o >= m /\ o \in Nat /\ o + 1 <= len
        BY <1>2, <1>4, <1>6, <3>1
      <4> HIDE DEF o, p
      <4>2. (keep + 1) - p = len - o /\ len - o \in 1 .. keep
        BY <4>1
      <4> QED BY <4>2 DEF p
    <3>3. new[w] = fr[w]
      <4> HIDE DEF w
      <4> QED BY <1>11, <3>2
    <3>4. fr[w] = Lev(L, k)[Quot(n, k)]
      BY <1>1, <3>1
    <3>5. Quot(n, k) \in 1 .. Quot(n, k)
      BY <3>1
    <3>6. Lev(M, k)[Quot(n, k)] = Lev(L, k)[Quot(n, k)]
      BY <1>9, <3>5
    <3> HIDE DEF w
    <3> QED BY <1>12, <3>1, <3>2, <3>3, <3>4, <3>6
  <2> QED BY <1>4, <2>1, <2>2, <2>3
<1>14. FringeOK(new, M, n + 1)
  BY <1>11, <1>12, <1>13 DEF FringeOK
<1>15. TreeOK(Append1(t, data), n + 1)
  BY <1>3, <1>7, <1>14 DEF TreeOK
<1>16. Append1(t, data).leaves = M
  BY <1>3
<1> QED BY <1>15, <1>16 DEF M, L, leaf, Grown

(***************************************************************************)
(* The root folded from the fringe is the top of the rows, and a proof     *)
(* leads from a leaf to it.                                                *)
(***************************************************************************)

\* Folding the fringe from its small end walks up the tree: Root is the top.
LEMMA RootIsTop ==
  ASSUME NEW n \in Nat \ {0}, NEW t, TreeOK(t, n)
  PROVE  Root(t) = Lev(t.leaves, TreeDepth(n))[1]
<1> DEFINE L == t.leaves
           fr == t.fringe
           len == Ones(n, n)
           base == fr[len]
           seq == SubSeq(fr, 1, len - 1)
<1>1. t.size = n /\ IsRow(L, n) /\ IsRow(fr, len)
      /\ \A k \in Nat : Odd(n, k) => fr[len - Ones(n, k)] = Lev(L, k)[Quot(n, k)]
  <2>1. t.size = n
    BY DEF TreeOK
  <2> QED BY <2>1 DEF TreeOK, FringeOK
<1>2. len \in Nat /\ Len(fr) = len
  <2>1. len \in Nat
    BY OnesStep
  <2> HIDE DEF len
  <2> QED BY <1>1, <2>1, RowLen
<1>3. Root(t) = NodesOver(seq, base)
  <2>1. Root(t) = FoldRight(NodeHash, SubSeq(fr, 1, Len(fr) - 1), fr[Len(fr)])
    BY <1>1, Zenon DEF Root, Front, Last
  <2> QED BY <1>2, <2>1, Zenon DEF NodesOver
<1>4. ASSUME NEW k \in Nat
      PROVE  /\ Quot(n, k) \in Nat /\ Width(n, k) \in Nat /\ Ones(n, k) \in Nat
             /\ Quot(n, k + 1) = Quot(n, k) \div 2 /\ Width(n, k + 1) = (Width(n, k) + 1) \div 2
             /\ Ones(n, k + 1) = IF Odd(n, k) THEN Ones(n, k) + 1 ELSE Ones(n, k)
             /\ Odd(n, k) <=> Quot(n, k) % 2 = 1
             /\ Odd(n, k) => Ones(n, k) + 1 <= len
  BY Halving, Blocks, OnesStep, OnesBelow DEF Odd
<1>5. Quot(n, n) = 0 /\ Width(n, n) # 0 /\ Ones(n, 0) = 0 /\ Width(n, 0) = n /\ Quot(n, 0) = n
  <2>1. Quot(n, n) = 0 /\ Ones(n, 0) = 0 /\ Width(n, 0) = n /\ Quot(n, 0) = n
    BY QuotEnds, OnesStep, Blocks, Halving
  <2>2. Width(n, n) # 0
    <3>1. n - 1 \in Nat /\ n # 0
      OBVIOUS
    <3>2. Quot(n - 1, n) \in Nat
      BY <3>1, Halving
    <3> QED BY <3>1, <3>2 DEF Width
  <2> QED BY <2>1, <2>2
<1>6. ASSUME NEW k \in Nat, NEW i \in Nat \ {0}, 2 * i <= Width(n, k) + 1
      PROVE  Lev(L, k + 1)[i] = IF 2 * i <= Width(n, k) THEN NodeHash(Lev(L, k)[2*i - 1], Lev(L, k)[2*i])
                                ELSE Lev(L, k)[2*i - 1]
  BY <1>1, <1>6, LevNode
<1> HIDE DEF L, fr, len, base
<1> DEFINE none(k) == Ones(n, k) = 0 /\ Width(n, k) = Quot(n, k)
           some(h, k) == /\ Ones(n, k) >= 1 /\ Width(n, k) = Quot(n, k) + 1
                         /\ Ones(n, k) <= len
                         /\ h[len + 1 - Ones(n, k)] = Lev(L, k)[Width(n, k)]
<1>7. len >= 1
  <2> SUFFICES ASSUME len = 0 PROVE FALSE
    BY <1>2
  <2> DEFINE S == {k \in Nat : none(k)}
  <2>1. 0 \in S
    BY <1>5
  <2>2. ASSUME NEW k \in S PROVE k + 1 \in S
    <3>1. ~Odd(n, k)
      BY <1>4
    <3>2. /\ Quot(n, k) \in Nat /\ Quot(n, k) % 2 # 1 /\ Width(n, k) = Quot(n, k)
          /\ Quot(n, k + 1) = Quot(n, k) \div 2 /\ Width(n, k + 1) = (Width(n, k) + 1) \div 2
          /\ Ones(n, k + 1) = 0
      BY <1>4, <3>1
    <3>3. Width(n, k + 1) = Quot(n, k + 1)
      BY <3>2
    <3> QED BY <3>2, <3>3
  <2>3. n \in S
    <3> HIDE DEF S
    <3>1. S \in SUBSET Nat
      BY DEF S
    <3> QED BY <2>1, <2>2, <3>1, NatClosed
  <2> QED BY <1>5, <2>3
<1>8. PICK h : /\ h[len] = base
               /\ \A k \in 1 .. len - 1 : h[k] = NodeHash(fr[k], h[k + 1])
               /\ Root(t) = h[1]
  <2> DEFINE l == len - 1
  <2>1. l \in Nat /\ l + 1 = len /\ l <= len /\ 1 \in Nat \ {0} /\ 1 <= l + 1 /\ l + 1 - 1 = l
    BY <1>2, <1>7
  <2> HIDE DEF l
  <2>2. IsRow(SubSeq(fr, 1, l), l) /\ \A i \in 1 .. l : SubSeq(fr, 1, l)[i] = fr[i]
    <3>1. /\ IsRow(SubSeq(fr, 1, l), l + 1 - 1)
          /\ \A i \in 1 .. (l + 1 - 1) : SubSeq(fr, 1, l)[i] = fr[1 + i - 1]
      BY <1>1, <1>2, <2>1, RowSub
    <3>2. \A i \in 1 .. l : 1 + i - 1 = i
      OBVIOUS
    <3> QED BY <2>1, <3>1, <3>2
  <2> DEFINE sq == SubSeq(fr, 1, l)
  <2>3. seq = sq
    BY DEF l
  <2> HIDE DEF sq, seq
  <2>4. IsRow(sq, l) /\ \A i \in 1 .. l : sq[i] = fr[i]
    BY <2>2 DEF sq
  <2>5. PICK g : /\ g[l + 1] = base
                 /\ \A k \in 1 .. l : g[k] = NodeHash(sq[k], g[k + 1])
                 /\ NodesOver(sq, base) = g[1]
    BY <2>1, <2>4, NodeFold
  <2>6. Root(t) = g[1]
    BY <1>3, <2>3, <2>5
  <2>7. \A k \in 1 .. l : g[k] = NodeHash(fr[k], g[k + 1])
    BY <2>4, <2>5
  <2> QED BY <2>1, <2>5, <2>6, <2>7 DEF l
<1> HIDE DEF seq
<1> DEFINE S == {k \in Nat : none(k) \/ some(h, k)}
<1>9. 0 \in S
  BY <1>5
<1>10. ASSUME NEW k \in S PROVE k + 1 \in S
  <2> DEFINE q == Quot(n, k)
             c == Width(n, k)
             o == Ones(n, k)
             qq == Quot(n, k + 1)
             cc == Width(n, k + 1)
             oo == Ones(n, k + 1)
             row == Lev(L, k)
             up == Lev(L, k + 1)
  <2>1. /\ k \in Nat /\ q \in Nat /\ c \in Nat /\ o \in Nat
        /\ qq = q \div 2 /\ cc = (c + 1) \div 2
        /\ oo = IF q % 2 = 1 THEN o + 1 ELSE o
        /\ q % 2 = 1 => o + 1 <= len /\ fr[len - o] = row[q]
    <3>1. k \in Nat
      OBVIOUS
    <3> HIDE DEF S
    <3> QED BY <1>1, <1>4, <3>1
  <2>2. \A i \in Nat \ {0} : 2 * i <= c + 1 =>
          up[i] = IF 2 * i <= c THEN NodeHash(row[2*i - 1], row[2*i]) ELSE row[2*i - 1]
    <3> HIDE DEF S
    <3> QED BY <1>6, <2>1
  <2>3. (o = 0 /\ c = q) \/ (o >= 1 /\ c = q + 1 /\ o <= len /\ h[len + 1 - o] = row[c])
    OBVIOUS
  <2> SUFFICES (oo = 0 /\ cc = qq)
               \/ (oo >= 1 /\ cc = qq + 1 /\ oo <= len /\ h[len + 1 - oo] = up[cc])
    BY <2>1
  <2> HIDE DEF S, q, c, o, qq, cc, oo, row, up
  <2>4. CASE o = 0 /\ c = q /\ ~(q % 2 = 1)
    <3>1. oo = 0 /\ cc = qq
      BY <2>1, <2>4
    <3> QED BY <3>1
  <2>5. CASE o = 0 /\ c = q /\ q % 2 = 1
    <3>1. /\ oo = 1 /\ cc = qq + 1 /\ 2 * cc <= c + 1 /\ ~(2 * cc <= c) /\ 2*cc - 1 = q
          /\ cc \in Nat \ {0}
      BY <2>1, <2>5
    <3>2. up[cc] = row[q]
      <4>1. up[cc] = row[2*cc - 1]
        BY <2>2, <3>1
      <4> QED BY <3>1, <4>1
    <3>3. len - o = len /\ len + 1 - oo = len /\ oo <= len
      BY <1>2, <1>7, <2>5, <3>1
    <3>4. h[len] = row[q]
      <4>1. fr[len - o] = row[q]
        BY <2>1, <2>5
      <4> QED BY <1>8, <3>3, <4>1 DEF base
    <3> QED BY <3>1, <3>2, <3>3, <3>4
  <2>6. CASE o >= 1 /\ c = q + 1 /\ o <= len /\ h[len + 1 - o] = row[c] /\ ~(q % 2 = 1)
    <3>1. /\ oo = o /\ cc = qq + 1 /\ 2 * cc <= c + 1 /\ ~(2 * cc <= c) /\ 2*cc - 1 = c
          /\ cc \in Nat \ {0}
      BY <2>1, <2>6
    <3>2. up[cc] = row[c]
      <4>1. up[cc] = row[2*cc - 1]
        BY <2>2, <3>1
      <4> QED BY <3>1, <4>1
    <3> QED BY <2>6, <3>1, <3>2
  <2>7. CASE o >= 1 /\ c = q + 1 /\ o <= len /\ h[len + 1 - o] = row[c] /\ q % 2 = 1
    <3>1. /\ oo = o + 1 /\ cc = qq + 1 /\ 2 * cc <= c + 1 /\ 2 * cc <= c /\ 2*cc - 1 = q
          /\ 2*cc = c /\ cc \in Nat \ {0} /\ o + 1 <= len
      BY <2>1, <2>7
    <3>2. up[cc] = NodeHash(row[q], row[c])
      <4>1. up[cc] = NodeHash(row[2*cc - 1], row[2*cc])
        BY <2>2, <3>1
      <4> QED BY <3>1, <4>1
    <3>3. len - o \in 1 .. len - 1 /\ len - o + 1 = len + 1 - o /\ len + 1 - oo = len - o
      BY <1>2, <2>1, <2>7, <3>1
    <3>4. h[len - o] = NodeHash(fr[len - o], h[len + 1 - o])
      BY <1>8, <3>3
    <3>5. fr[len - o] = row[q]
      BY <2>1, <2>7
    <3>6. h[len + 1 - oo] = up[cc]
      BY <2>7, <3>2, <3>3, <3>4, <3>5
    <3> QED BY <2>1, <3>1, <3>6
  <2> QED BY <2>3, <2>4, <2>5, <2>6, <2>7
<1>11. n \in S
  <2> HIDE DEF S
  <2>1. S \in SUBSET Nat
    BY DEF S
  <2> QED BY <1>9, <1>10, <2>1, NatClosed
<1>12. h[1] = Lev(L, n)[1]
  <2>1. some(h, n) /\ Width(n, n) = 1
    BY <1>5, <1>11
  <2>2. len + 1 - Ones(n, n) = 1
    BY <1>2 DEF len
  <2> QED BY <2>1, <2>2
<1>13. Lev(L, n)[1] = Lev(L, TreeDepth(n))[1]
  <2> DEFINE d == TreeDepth(n)
  <2>1. d \in Nat /\ d <= n
    BY Depth
  <2> HIDE DEF d
  <2>2. n - d \in Nat /\ d + (n - d) = n
    BY <2>1
  <2>3. \A k \in Nat : Lev(L, d + k)[1] = Lev(L, d)[1]
    BY <1>1, LevTop DEF d
  <2>4. Lev(L, d + (n - d))[1] = Lev(L, d)[1]
    BY <2>2, <2>3
  <2> QED BY <2>2, <2>4 DEF d
<1> QED BY <1>8, <1>12, <1>13 DEF L

\* Flattening appends one row after the other.
LEMMA FlattenSteps ==
  ASSUME NEW n \in Nat, NEW seq, IsRow(seq, n), NEW w \in [1 .. n -> {0, 1}],
         \A k \in 1 .. n : IsRow(seq[k], w[k])
  PROVE  \E g : /\ g[0] = <<>>
                /\ \A k \in 0 .. n - 1 : g[k + 1] = g[k] \o seq[k + 1]
                /\ FlattenSeq(seq) = g[n]
<1>1. CASE n = 0
  <2>1. Len(seq) = 0 /\ seq = <<>>
    BY <1>1, RowLen, RowEmpty
  <2>2. FlattenSeq(seq) = <<>>
    BY <2>1, Zenon DEF FlattenSeq
  <2> DEFINE g == [k \in 0 .. 0 |-> <<>>]
  <2>3. g[0] = <<>>
    OBVIOUS
  <2> HIDE DEF g
  <2>4. FlattenSeq(seq) = g[n]
    BY <1>1, <2>2, <2>3
  <2>5. \A k \in 0 .. n - 1 : FALSE
    BY <1>1
  <2> QED BY <2>3, <2>4, <2>5
<1>2. CASE n # 0
  <2>1. PICK f : /\ f[1] = seq[1]
                 /\ \A k \in 1 .. n - 1 : f[k + 1] = f[k] \o seq[k + 1]
                 /\ FlattenSeq(seq) = f[n]
    BY <1>2, Flatten
  <2> DEFINE g == [k \in 0 .. n |-> IF k = 0 THEN <<>> ELSE f[k]]
  <2>2. g[0] = <<>> /\ \A k \in 1 .. n : g[k] = f[k]
    OBVIOUS
  <2> HIDE DEF g
  <2>3. ASSUME NEW k \in 0 .. n - 1 PROVE g[k + 1] = g[k] \o seq[k + 1]
    <3>1. CASE k = 0
      <4>1. 1 \in 1 .. n
        BY <1>2
      <4>2. w[1] \in Nat /\ IsRow(seq[1], w[1])
        BY <4>1
      <4> DEFINE s == seq[1]
                 m == w[1]
      <4>3. m \in Nat /\ IsRow(s, m) /\ 0 \in Nat /\ IsRow(<<>>, 0)
        BY <4>2, EmptyRow
      <4> HIDE DEF s, m
      <4>4. IsRow(Cat(<<>>, s), 0 + m) /\ \A i \in 1 .. m : Cat(<<>>, s)[0 + i] = s[i]
        BY <4>3, RowConcat
      <4> DEFINE c == Cat(<<>>, s)
      <4>5. IsRow(c, m) /\ \A i \in 1 .. m : c[i] = s[i]
        <5>1. 0 + m = m /\ \A i \in 1 .. m : 0 + i = i
          BY <4>3
        <5> HIDE DEF c
        <5>2. IsRow(c, 0 + m) /\ \A i \in 1 .. m : c[0 + i] = s[i]
          BY <4>4 DEF c
        <5> QED BY <5>1, <5>2
      <4> HIDE DEF c
      <4>6. c = s
        BY <4>3, <4>5, RowEqual
      <4>7. g[0 + 1] = s /\ g[0] = <<>>
        BY <2>1, <2>2, <4>1 DEF s
      <4>8. g[0 + 1] = g[0] \o seq[0 + 1]
        BY <4>6, <4>7 DEF c, s, Cat
      <4> QED BY <3>1, <4>8
    <3>2. CASE k # 0
      <4>1. k \in 1 .. n - 1 /\ k \in 1 .. n /\ k + 1 \in 1 .. n
        BY <3>2
      <4> QED BY <2>1, <2>2, <4>1
    <3> QED BY <3>1, <3>2
  <2>4. FlattenSeq(seq) = g[n]
    BY <1>2, <2>1, <2>2
  <2> QED BY <2>2, <2>3, <2>4
<1> QED BY <1>1, <1>2

\* Flattening rows of none or one element: where each element ends up.
Offsets(o, n, seq, w, flat) ==
  /\ o[0] = 0
  /\ \A k \in 0 .. n : o[k] \in Nat /\ o[k] <= o[n]
  /\ \A k \in 0 .. n - 1 : o[k + 1] = o[k] + w[k + 1]
  /\ IsRow(flat, o[n])
  /\ \A k \in 0 .. n - 1 : w[k + 1] = 1 => flat[o[k] + 1] = seq[k + 1][1]

\* Where the elements of rows of at most one element go when they are flattened.
LEMMA FlattenRows ==
  ASSUME NEW n \in Nat, NEW seq, IsRow(seq, n), NEW w \in [1 .. n -> {0, 1}],
         \A k \in 1 .. n : IsRow(seq[k], w[k])
  PROVE  \E o : Offsets(o, n, seq, w, FlattenSeq(seq))
<1>1. PICK g : /\ g[0] = <<>>
               /\ \A k \in 0 .. n - 1 : g[k + 1] = g[k] \o seq[k + 1]
               /\ FlattenSeq(seq) = g[n]
  BY FlattenSteps
<1> DEFINE o == [k \in 0 .. n |-> Len(g[k])]
<1>2. \A k \in 0 .. n : o[k] = Len(g[k])
  OBVIOUS
<1> HIDE DEF o
<1> DEFINE T(k) == /\ IsRow(g[k], o[k])
                   /\ \A i \in 0 .. k : o[i] \in Nat /\ o[i] <= o[k]
                   /\ \A i \in 0 .. k - 1 :
                        /\ o[i + 1] = o[i] + w[i + 1]
                        /\ w[i + 1] = 1 => g[k][o[i] + 1] = seq[i + 1][1]
           S == {k \in Nat : k <= n => T(k)}
<1>3. o[0] = 0
  <2>1. Len(<<>>) = 0 /\ 0 \in 0 .. n
    OBVIOUS
  <2> QED BY <1>1, <1>2, <2>1
<1>4. 0 \in S
  <2>1. IsRow(g[0], o[0])
    BY <1>1, <1>3, EmptyRow
  <2>2. \A i \in 0 .. 0 : o[i] \in Nat /\ o[i] <= o[0]
    BY <1>3
  <2>3. \A i \in 0 .. 0 - 1 : FALSE
    OBVIOUS
  <2>4. T(0)
    BY <2>1, <2>2, <2>3
  <2> HIDE DEF T
  <2> QED BY <2>4
<1>5. ASSUME NEW k \in S PROVE k + 1 \in S
  <2> SUFFICES ASSUME k + 1 <= n PROVE T(k + 1)
    OBVIOUS
  <2>1. k \in Nat /\ k \in 0 .. n - 1 /\ k + 1 \in 0 .. n /\ k + 1 \in 1 .. n
    OBVIOUS
  <2>2. /\ IsRow(g[k], o[k])
        /\ \A i \in 0 .. k : o[i] \in Nat /\ o[i] <= o[k]
        /\ \A i \in 0 .. k - 1 :
             /\ o[i + 1] = o[i] + w[i + 1]
             /\ w[i + 1] = 1 => g[k][o[i] + 1] = seq[i + 1][1]
    OBVIOUS
  <2> HIDE DEF S
  <2>3. w[k + 1] \in {0, 1} /\ IsRow(seq[k + 1], w[k + 1]) /\ o[k] \in Nat
    BY <2>1, <2>2
  <2>4. g[k + 1] = g[k] \o seq[k + 1]
    BY <1>1, <2>1
  <2> DEFINE a == g[k]
             b == seq[k + 1]
             m == o[k]
             v == w[k + 1]
             c == g[k + 1]
  <2>5. c = Cat(a, b) /\ IsRow(a, m) /\ IsRow(b, v) /\ m \in Nat /\ v \in {0, 1} /\ v \in Nat
    BY <2>2, <2>3, <2>4 DEF Cat
  <2> HIDE DEF a, b, m, v, c
  <2>6. /\ IsRow(c, m + v)
        /\ \A i \in 1 .. m : c[i] = a[i]
        /\ \A i \in 1 .. v : c[m + i] = b[i]
    BY <2>5, RowConcat
  <2>7. o[k + 1] = m + v
    <3>1. Len(c) = m + v
      BY <2>5, <2>6, RowLen
    <3> QED BY <1>2, <2>1, <3>1 DEF c
  <2>8. ASSUME NEW i \in 0 .. k + 1 PROVE o[i] \in Nat /\ o[i] <= o[k + 1]
    <3>1. CASE i = k + 1
      BY <2>5, <2>7, <3>1
    <3>2. CASE i # k + 1
      <4>1. i \in 0 .. k
        BY <2>1, <3>2
      <4>2. o[i] \in Nat /\ o[i] <= m
        BY <2>2, <4>1 DEF m
      <4> QED BY <2>5, <2>7, <4>2
    <3> QED BY <3>1, <3>2
  <2>9. ASSUME NEW i \in 0 .. (k + 1) - 1
        PROVE  /\ o[i + 1] = o[i] + w[i + 1]
               /\ w[i + 1] = 1 => g[k + 1][o[i] + 1] = seq[i + 1][1]
    <3>1. CASE i = k
      <4>1. v = 1 => c[m + 1] = b[1]
        BY <2>6
      <4> QED BY <2>7, <3>1, <4>1 DEF m, v, c, b
    <3>2. CASE i # k
      <4>1. i \in 0 .. k - 1 /\ i + 1 \in 0 .. k /\ i \in 0 .. k
        BY <2>1, <3>2
      <4>2. /\ o[i + 1] = o[i] + w[i + 1]
            /\ w[i + 1] = 1 => a[o[i] + 1] = seq[i + 1][1]
            /\ o[i + 1] \in Nat /\ o[i + 1] <= m /\ o[i] \in Nat
        BY <2>2, <4>1 DEF a, m
      <4>3. w[i + 1] = 1 => o[i] + 1 \in 1 .. m
        BY <2>5, <4>2
      <4>4. w[i + 1] = 1 => c[o[i] + 1] = seq[i + 1][1]
        BY <2>6, <4>2, <4>3
      <4> QED BY <4>2, <4>4 DEF c
    <3> QED BY <3>1, <3>2
  <2>10. IsRow(g[k + 1], o[k + 1])
    BY <2>6, <2>7 DEF c
  <2> QED BY <2>8, <2>9, <2>10
<1>6. T(n)
  <2>1. n \in S
    <3> HIDE DEF S
    <3>1. S \in SUBSET Nat
      BY DEF S
    <3> QED BY <1>4, <1>5, <3>1, NatClosed
  <2> QED BY <2>1
<1>7. Offsets(o, n, seq, w, FlattenSeq(seq))
  BY <1>1, <1>3, <1>6 DEF Offsets
<1> QED BY <1>7

\* The sibling on level k of the path from leaf i, and whether there is one.
HasSib(i, n, k) == Quot(i, k) % 2 = 1 \/ Quot(i, k) + 1 < Width(n, k)
Sib(L, n, i, k) ==
  IF Quot(i, k) % 2 = 1 THEN <<Lev(L, k)[Quot(i, k)]>>
  ELSE IF Quot(i, k) + 1 < Width(n, k) THEN <<Lev(L, k)[Quot(i, k) + 2]>> ELSE <<>>

\* A sequence of one is a row of one.
LEMMA OneRow == \A x : IsRow(<<x>>, 1) /\ (<<x>>)[1] = x
<1> SUFFICES ASSUME NEW x PROVE IsRow(<<x>>, 1) /\ (<<x>>)[1] = x
  OBVIOUS
<1>1. <<x>> \in Seq({x}) /\ Len(<<x>>) = 1
  OBVIOUS
<1>2. IsRow(<<x>>, Len(<<x>>))
  BY <1>1, SeqIsRow
<1> QED BY <1>1, <1>2

\* Proof collects the siblings from the leaf up.
LEMMA ProofIsSiblings ==
  ASSUME NEW n \in Nat \ {0}, NEW t, TreeOK(t, n), NEW i
  PROVE  Proof(t, i) = FlattenSeq([k \in 1 .. TreeDepth(n) |-> Sib(t.leaves, n, i, k - 1)])
<1> DEFINE L == t.leaves
           d == TreeDepth(n)
           levels == BuildTree(t.leaves, t.size)
           sib(k) == LET idx == i \div 2^k
                         row == levels[k]
                     IN  IF idx % 2 = 1 THEN <<row[idx]>>
                         ELSE IF idx + 1 < Len(row) THEN <<row[idx + 2]>> ELSE <<>>
<1>1. t.size = n /\ IsRow(L, n)
  <2>1. t.size = n
    BY DEF TreeOK
  <2> QED BY <2>1 DEF TreeOK
<1>2. d \in Nat
  BY Depth
<1>3. Proof(t, i) = FlattenSeq([k \in 1 .. d |-> sib(k - 1)])
  BY <1>1, Zenon DEF Proof
<1>4. Row(L, n) = L
  <2>1. Len(L) = n
    BY <1>1, RowLen
  <2>2. Row(L, n) = [k \in 1 .. n |-> L[k]]
    BY <2>1 DEF Row
  <2> QED BY <1>1, <2>2 DEF IsRow
<1>5. \A k \in 0 .. d : levels[k] = Lev(L, k)
  <2>1. levels[0] = L /\ \A k \in 0 .. d - 1 : levels[k + 1] = Parents(levels[k])
    <3>1. levels = BuildTree(L, n)
      BY <1>1
    <3> HIDE DEF levels, L
    <3>2. /\ BuildTree(L, n)[0] = Row(L, n)
          /\ \A k \in 0 .. TreeDepth(n) - 1 :
               BuildTree(L, n)[k + 1] = Parents(BuildTree(L, n)[k])
      BY <1>2, Levels
    <3> QED BY <1>4, <3>1, <3>2
  <2> HIDE DEF levels, L, d
  <2>2. d \in Nat /\ Rises(levels, L, d)
    BY <1>2, <2>1 DEF Rises
  <2> QED BY <2>2, LevUnique
<1>6. ASSUME NEW k \in 1 .. d PROVE sib(k - 1) = Sib(L, n, i, k - 1)
  <2> DEFINE j == k - 1
  <2>1. j \in 0 .. d /\ j \in Nat
    BY <1>2
  <2> HIDE DEF j
  <2>2. levels[j] = Lev(L, j)
    BY <1>5, <2>1
  <2>3. Width(n, j) \in Nat /\ IsRow(Lev(L, j), Width(n, j))
    BY <1>1, <2>1, Blocks, LevRow
  <2>4. Len(levels[j]) = Width(n, j)
    BY <2>2, <2>3, RowLen
  <2> HIDE DEF levels, L
  <2>5. sib(j) = Sib(L, n, i, j)
    BY <2>2, <2>4, Zenon DEF Sib, Quot
  <2> QED BY <2>5 DEF j
<1>7. [k \in 1 .. d |-> sib(k - 1)] = [k \in 1 .. d |-> Sib(L, n, i, k - 1)]
  <2> HIDE DEF sib, d, L
  <2> QED BY <1>6
<1> HIDE DEF sib
<1> QED BY <1>3, <1>7

\* None or one sibling on every level.
LEMMA SibRow ==
  \A L, n, i, k : IsRow(Sib(L, n, i, k), IF HasSib(i, n, k) THEN 1 ELSE 0)
<1> SUFFICES ASSUME NEW L, NEW n, NEW i, NEW k
             PROVE  IsRow(Sib(L, n, i, k), IF HasSib(i, n, k) THEN 1 ELSE 0)
  OBVIOUS
<1>1. CASE Quot(i, k) % 2 = 1
  BY <1>1, OneRow DEF Sib, HasSib
<1>2. CASE ~(Quot(i, k) % 2 = 1) /\ Quot(i, k) + 1 < Width(n, k)
  BY <1>2, OneRow DEF Sib, HasSib
<1>3. CASE ~(Quot(i, k) % 2 = 1) /\ ~(Quot(i, k) + 1 < Width(n, k))
  BY <1>3, EmptyRow DEF Sib, HasSib
<1> QED BY <1>1, <1>2, <1>3

\* What VerifyProof finds left of a proof on every level: on a level with a
\* sibling it takes one element off, which is the sibling.
RestsOf(R, len, path, L, n, i) ==
  /\ R[0] = path /\ R[TreeDepth(n)] = <<>>
  /\ \A k \in 0 .. TreeDepth(n) : len[k] \in Nat /\ IsRow(R[k], len[k])
  /\ \A k \in 0 .. TreeDepth(n) - 1 :
       /\ HasSib(i, n, k) => /\ len[k] # 0
                             /\ Head(R[k]) = Sib(L, n, i, k)[1] /\ Tail(R[k]) = R[k + 1]
       /\ ~HasSib(i, n, k) => R[k + 1] = R[k]

\* A proof is taken off element by element.
LEMMA ProofRests ==
  ASSUME NEW n \in Nat \ {0}, NEW t, TreeOK(t, n), NEW i
  PROVE  \E R, len : RestsOf(R, len, Proof(t, i), t.leaves, n, i)
<1> DEFINE L == t.leaves
           d == TreeDepth(n)
           seq == [k \in 1 .. d |-> Sib(L, n, i, k - 1)]
           w == [k \in 1 .. d |-> IF HasSib(i, n, k - 1) THEN 1 ELSE 0]
           path == Proof(t, i)
<1>1. d \in Nat
  BY Depth
<1>2. path = FlattenSeq(seq)
  BY ProofIsSiblings
<1> HIDE DEF d, L, path
<1>3. ASSUME NEW k \in 0 .. d - 1
      PROVE  /\ k + 1 \in 1 .. d /\ seq[k + 1] = Sib(L, n, i, k)
             /\ w[k + 1] = IF HasSib(i, n, k) THEN 1 ELSE 0
  <2>1. k + 1 \in 1 .. d /\ k + 1 - 1 = k
    BY <1>1
  <2> QED BY <2>1
<1>4. IsRow(seq, d) /\ w \in [1 .. d -> {0, 1}]
  BY DEF IsRow
<1>5. ASSUME NEW k \in 1 .. d PROVE IsRow(seq[k], w[k])
  <2> DEFINE j == k - 1
  <2>1. seq[k] = Sib(L, n, i, j) /\ w[k] = IF HasSib(i, n, j) THEN 1 ELSE 0
    OBVIOUS
  <2> HIDE DEF j, seq, w
  <2> QED BY <2>1, SibRow
<1> HIDE DEF seq, w
<1>6. PICK o : /\ o[0] = 0
               /\ \A k \in 0 .. d : o[k] \in Nat /\ o[k] <= o[d]
               /\ \A k \in 0 .. d - 1 : o[k + 1] = o[k] + w[k + 1]
               /\ IsRow(path, o[d])
               /\ \A k \in 0 .. d - 1 : w[k + 1] = 1 => path[o[k] + 1] = seq[k + 1][1]
  <2>1. \A k \in 1 .. d : IsRow(seq[k], w[k])
    BY <1>5
  <2>2. PICK o : Offsets(o, d, seq, w, FlattenSeq(seq))
    BY <1>1, <1>4, <2>1, FlattenRows
  <2> QED BY <1>2, <2>2 DEF Offsets
<1> DEFINE N == o[d]
           R == [k \in 0 .. d |-> SubSeq(path, o[k] + 1, N)]
           len == [k \in 0 .. d |-> N - o[k]]
<1>7. N \in Nat
  BY <1>1, <1>6
<1>8. ASSUME NEW k \in 0 .. d
      PROVE  /\ len[k] \in Nat /\ len[k] = N - o[k] /\ IsRow(R[k], len[k])
             /\ \A j \in 1 .. len[k] : R[k][j] = path[o[k] + j]
  <2> DEFINE a == o[k] + 1
             r == R[k]
             l == len[k]
  <2>1. o[k] \in Nat /\ o[k] <= N /\ r = SubSeq(path, a, N) /\ l = N - o[k] /\ IsRow(path, N)
    BY <1>6
  <2> HIDE DEF N, R, len, r, l
  <2>2. a \in Nat \ {0} /\ a <= N + 1 /\ N <= N /\ N + 1 - a = l /\ l \in Nat
    BY <1>7, <2>1
  <2>3. \A j \in Nat : a + j - 1 = o[k] + j
    BY <2>1
  <2> HIDE DEF a
  <2>4. /\ IsRow(SubSeq(path, a, N), N + 1 - a)
        /\ \A j \in 1 .. (N + 1 - a) : SubSeq(path, a, N)[j] = path[a + j - 1]
    BY <1>7, <2>1, <2>2, RowSub
  <2>5. IsRow(r, l) /\ \A j \in 1 .. l : r[j] = path[o[k] + j]
    <3>1. \A j \in 1 .. l : j \in Nat /\ j \in 1 .. (N + 1 - a)
      BY <2>2
    <3> QED BY <2>1, <2>2, <2>3, <2>4, <3>1
  <2> QED BY <2>1, <2>2, <2>5 DEF r, l
<1> HIDE DEF R, len
<1>9. R[0] = path
  <2> DEFINE r == R[0]
             l == len[0]
  <2>1. l = N - 0 /\ IsRow(r, l) /\ \A j \in 1 .. l : r[j] = path[0 + j]
    BY <1>1, <1>6, <1>8
  <2> HIDE DEF N, r, l
  <2>2. l = N /\ (\A j \in 1 .. N : 0 + j = j) /\ IsRow(path, N)
    BY <1>6, <1>7, <2>1 DEF N
  <2>3. r = path
    BY <2>1, <2>2, RowEqual
  <2> QED BY <2>3 DEF r
<1>10. R[d] = <<>>
  <2>1. IsRow(R[d], len[d]) /\ len[d] = N - N
    BY <1>1, <1>8
  <2>2. IsRow(R[d], 0)
    BY <1>7, <2>1
  <2> QED BY <2>2, RowEmpty
<1>11. ASSUME NEW k \in 0 .. d - 1
       PROVE  /\ HasSib(i, n, k) => /\ len[k] # 0
                                    /\ Head(R[k]) = Sib(L, n, i, k)[1] /\ Tail(R[k]) = R[k + 1]
              /\ ~HasSib(i, n, k) => R[k + 1] = R[k]
  <2> DEFINE a == R[k]
             b == R[k + 1]
             l == len[k]
             m == len[k + 1]
             v == w[k + 1]
             x == o[k]
             y == o[k + 1]
             sib == Sib(L, n, i, k)
  <2>1. k \in 0 .. d /\ k + 1 \in 0 .. d
    BY <1>1
  <2>2. /\ l \in Nat /\ l = N - x /\ IsRow(a, l) /\ \A j \in 1 .. l : a[j] = path[x + j]
        /\ m \in Nat /\ m = N - y /\ IsRow(b, m) /\ \A j \in 1 .. m : b[j] = path[y + j]
    BY <1>8, <2>1
  <2>3. /\ x \in Nat /\ y \in Nat /\ y = x + v /\ v = IF HasSib(i, n, k) THEN 1 ELSE 0
        /\ v = 1 => path[x + 1] = sib[1]
    BY <1>3, <1>6, <2>1
  <2> HIDE DEF a, b, l, m, v, x, y, sib, N
  <2>4. CASE HasSib(i, n, k)
    <3>1. v = 1 /\ y = x + 1 /\ m = l - 1 /\ l \in Nat \ {0} /\ 1 \in 1 .. l /\ l # 0
      BY <1>7, <2>2, <2>3, <2>4
    <3>2. /\ Head(a) = a[1] /\ IsRow(Tail(a), m)
          /\ \A j \in 1 .. m : Tail(a)[j] = a[j + 1]
      <4>1. IsRow(Tail(a), l - 1) /\ Head(a) = a[1] /\ \A j \in 1 .. l - 1 : Tail(a)[j] = a[j + 1]
        <5>1. l \in Nat \ {0} /\ IsRow(a, l)
          BY <2>2, <3>1
        <5> QED BY <5>1, RowTail
      <4> QED BY <3>1, <4>1
    <3>3. ASSUME NEW j \in 1 .. m PROVE Tail(a)[j] = b[j]
      <4>1. j + 1 \in 1 .. l /\ x + (j + 1) = y + j
        BY <2>2, <2>3, <3>1
      <4> QED BY <2>2, <3>2, <4>1
    <3>4. Tail(a) = b
      <4> DEFINE c == Tail(a)
      <4>1. IsRow(c, m) /\ \A j \in 1 .. m : c[j] = b[j]
        BY <3>2, <3>3
      <4> HIDE DEF c
      <4>2. c = b
        BY <2>2, <4>1, RowEqual
      <4> QED BY <4>2 DEF c
    <3>5. Head(a) = sib[1]
      <4>1. a[1] = path[x + 1]
        BY <2>2, <3>1
      <4> QED BY <2>3, <3>1, <3>2, <4>1
    <3> QED BY <2>4, <3>1, <3>4, <3>5 DEF a, b, l, sib
  <2>5. CASE ~HasSib(i, n, k)
    <3>1. y = x /\ m = l
      BY <1>7, <2>2, <2>3, <2>5
    <3>2. a = b
      BY <2>2, <3>1, RowEqual
    <3> QED BY <2>5, <3>2 DEF a, b
  <2> QED BY <2>4, <2>5
<1>12. RestsOf(R, len, path, L, n, i)
  BY <1>8, <1>9, <1>10, <1>11 DEF RestsOf, d
<1> QED BY <1>12 DEF L, path

\* The node above leaf i is in its row.
LEMMA NodeInRow ==
  ASSUME NEW n \in Nat \ {0}, NEW i \in Nat, i < n, NEW k \in Nat
  PROVE  Quot(i, k) < Width(n, k)
<1>1. n - 1 \in Nat /\ i <= n - 1
  OBVIOUS
<1>2. Quot(i, k) <= Quot(n - 1, k) /\ Quot(n - 1, k) \in Nat /\ Quot(i, k) \in Nat
  BY <1>1, QuotGrows, Halving
<1>3. Width(n, k) = Quot(n - 1, k) + 1
  BY DEF Width
<1> QED BY <1>2, <1>3

\* One level up from the node above leaf i: it is promoted, or hashed with its
\* sibling.
LEMMA Climb ==
  ASSUME NEW n \in Nat \ {0}, NEW L, IsRow(L, n), NEW i \in Nat, i < n, NEW k \in Nat
  PROVE  LET q == Quot(i, k)
             node == Lev(L, k)[q + 1]
             sib == Sib(L, n, i, k)[1]
             up == Lev(L, k + 1)[Quot(i, k + 1) + 1]
         IN  /\ Width(n, k) \in Nat /\ Width(n, k + 1) = (Width(n, k) + 1) \div 2
             /\ q % 2 = 0 \/ q % 2 = 1
             /\ HasSib(i, n, k) <=> ~Promoted(q, Width(n, k))
             /\ Promoted(q, Width(n, k)) => up = node
             /\ ~Promoted(q, Width(n, k)) => up = IF q % 2 = 0 THEN NodeHash(node, sib)
                                              ELSE NodeHash(sib, node)
<1> DEFINE q == Quot(i, k)
           c == Width(n, k)
           row == Lev(L, k)
           next == Lev(L, k + 1)
           sib == Sib(L, n, i, k)[1]
           j == Quot(i, k + 1) + 1
<1>1. q \in Nat /\ c \in Nat /\ Width(n, k + 1) = (c + 1) \div 2 /\ Quot(i, k + 1) = q \div 2
  BY Halving, Blocks
<1>2. q < c
  BY NodeInRow
<1>3. /\ HasSib(i, n, k) <=> q % 2 = 1 \/ q + 1 < c
      /\ q % 2 = 1 => sib = row[q]
      /\ ~(q % 2 = 1) /\ q + 1 < c => sib = row[q + 2]
  BY OneRow DEF HasSib, Sib
<1>4. Promoted(q, c) <=> q % 2 = 0 /\ q + 1 >= c
  BY DEF Promoted
<1>5. 2 * j <= c + 1 /\ j \in Nat \ {0} =>
        next[j] = IF 2 * j <= c THEN NodeHash(row[2*j - 1], row[2*j]) ELSE row[2*j - 1]
  BY LevNode
<1> HIDE DEF q, c, row, next, sib
<1>6. j = (q \div 2) + 1
  BY <1>1
<1> HIDE DEF j
<1>7. q % 2 = 0 \/ q % 2 = 1
  BY <1>1
<1>8. CASE Promoted(q, c)
  <2>1. q % 2 = 0 /\ ~(q % 2 = 1) /\ ~(q + 1 < c) /\ q + 1 = c
    BY <1>1, <1>2, <1>4, <1>8
  <2>2. j \in Nat \ {0} /\ 2 * j <= c + 1 /\ ~(2 * j <= c) /\ 2*j - 1 = q + 1
    BY <1>1, <1>6, <2>1
  <2>3. next[j] = row[q + 1]
    BY <1>5, <2>2
  <2> QED BY <1>1, <1>3, <1>8, <2>1, <2>3 DEF q, c, row, next, j
<1>9. CASE ~Promoted(q, c) /\ q % 2 = 0
  <2>1. ~(q % 2 = 1) /\ q + 1 < c
    BY <1>1, <1>4, <1>9
  <2>2. j \in Nat \ {0} /\ 2 * j <= c + 1 /\ 2 * j <= c /\ 2*j - 1 = q + 1 /\ 2*j = q + 2
    BY <1>1, <1>6, <1>9, <2>1
  <2>3. next[j] = NodeHash(row[q + 1], sib)
    BY <1>3, <1>5, <2>1, <2>2
  <2>4. HasSib(i, n, k)
    BY <1>3, <2>1
  <2> QED BY <1>1, <1>9, <2>3, <2>4 DEF q, c, row, next, j, sib
<1>10. CASE ~Promoted(q, c) /\ q % 2 = 1
  <2>1. ~(q % 2 = 0)
    BY <1>10
  <2>2. j \in Nat \ {0} /\ 2 * j <= c + 1 /\ 2 * j <= c /\ 2*j - 1 = q /\ 2*j = q + 1
    BY <1>1, <1>2, <1>6, <1>10
  <2>3. next[j] = NodeHash(sib, row[q + 1])
    BY <1>3, <1>5, <1>10, <2>2
  <2>4. HasSib(i, n, k)
    BY <1>3, <1>10
  <2> QED BY <1>1, <1>10, <2>1, <2>3, <2>4 DEF q, c, row, next, j, sib
<1> QED BY <1>7, <1>8, <1>9, <1>10

\* A step of VerifyProof with the quotient under its name.
LEMMA VStepIs ==
  \A i, acc, k :
    VStep(i, acc, k) =
      IF ~acc.ok \/ Promoted(Quot(i, k), acc.n) THEN [acc EXCEPT !.n = (acc.n + 1) \div 2]
      ELSE IF acc.rest = <<>> THEN [acc EXCEPT !.ok = FALSE]
      ELSE [ok |-> TRUE, n |-> (acc.n + 1) \div 2, rest |-> Tail(acc.rest),
            hash |-> IF Quot(i, k) % 2 = 0 THEN NodeHash(acc.hash, Head(acc.rest))
                     ELSE NodeHash(Head(acc.rest), acc.hash)]
BY Zenon DEF VStep, Quot

\* A proof of any leaf verifies against the root.
THEOREM ProofVerifies ==
  ASSUME NEW n \in Nat \ {0}, NEW t, TreeOK(t, n), NEW i \in Nat, i < n,
         NEW data, t.leaves[i + 1] = LeafHash(data)
  PROVE  VerifyProof(data, i, n, Proof(t, i), Root(t))
<1> DEFINE L == t.leaves
           d == TreeDepth(n)
           path == Proof(t, i)
           root == Root(t)
<1>1. IsRow(L, n) /\ d \in Nat /\ Width(n, d) = 1 /\ root = Lev(L, d)[1] /\ L[i + 1] = LeafHash(data)
  BY Depth, RootIsTop DEF TreeOK
<1>2. PICK R, len : RestsOf(R, len, path, L, n, i)
  BY ProofRests
<1>3. PICK h : /\ h[0] = VStart(data, n, path)
               /\ \A k \in 0 .. d - 1 : h[k + 1] = VStep(i, h[k], k)
               /\ VerifyProof(data, i, n, path, root) <=> (i < n /\ Accepts(h[d], root))
  BY <1>1, VerifyFold
<1> DEFINE Val(k) == [ok |-> TRUE, n |-> Width(n, k), rest |-> R[k],
                      hash |-> Lev(L, k)[Quot(i, k) + 1]]
           S == {k \in Nat : k <= d => h[k] = Val(k)}
<1> HIDE DEF L, d, path, root
<1>4. 0 \in S
  <2>1. Width(n, 0) = n /\ Lev(L, 0) = L /\ Quot(i, 0) = i
    BY Blocks, LevStep, Halving
  <2>2. h[0] = [ok |-> TRUE, n |-> n, rest |-> path, hash |-> LeafHash(data)] /\ R[0] = path
    BY <1>2, <1>3 DEF VStart, RestsOf
  <2>3. h[0] = Val(0)
    BY <1>1, <2>1, <2>2
  <2> QED BY <2>3
<1>5. ASSUME NEW k \in S PROVE k + 1 \in S
  <2> SUFFICES ASSUME k + 1 <= d PROVE h[k + 1] = Val(k + 1)
    OBVIOUS
  <2>1. k \in Nat /\ k \in 0 .. d - 1 /\ k \in 0 .. d /\ h[k] = Val(k)
    BY <1>1
  <2> HIDE DEF S
  <2> DEFINE q == Quot(i, k)
             c == Width(n, k)
             cc == Width(n, k + 1)
             node == Lev(L, k)[q + 1]
             sib == Sib(L, n, i, k)[1]
             up == Lev(L, k + 1)[Quot(i, k + 1) + 1]
             acc == h[k]
             rest == R[k]
             tail == R[k + 1]
             l == len[k]
  <2>2. acc = [ok |-> TRUE, n |-> c, rest |-> rest, hash |-> node]
        /\ Val(k + 1) = [ok |-> TRUE, n |-> cc, rest |-> tail, hash |-> up]
    BY <2>1
  <2>3. h[k + 1] = VStep(i, acc, k)
    BY <1>3, <2>1
  <2>4. /\ c \in Nat /\ cc = (c + 1) \div 2
        /\ HasSib(i, n, k) <=> ~Promoted(q, c)
        /\ Promoted(q, c) => up = node
        /\ ~Promoted(q, c) => up = IF q % 2 = 0 THEN NodeHash(node, sib) ELSE NodeHash(sib, node)
    <3>1. n \in Nat \ {0} /\ IsRow(L, n) /\ i \in Nat /\ i < n /\ k \in Nat
      BY <1>1, <2>1
    <3> HIDE DEF acc, rest, tail, l
    <3> QED BY <3>1, Climb
  <2>5. /\ l \in Nat /\ IsRow(rest, l)
        /\ HasSib(i, n, k) => l # 0 /\ Head(rest) = sib /\ Tail(rest) = tail
        /\ ~HasSib(i, n, k) => tail = rest
    BY <1>2, <2>1 DEF RestsOf, d
  <2>6. VStep(i, acc, k) =
          IF ~acc.ok \/ Promoted(q, acc.n) THEN [acc EXCEPT !.n = (acc.n + 1) \div 2]
          ELSE IF acc.rest = <<>> THEN [acc EXCEPT !.ok = FALSE]
          ELSE [ok |-> TRUE, n |-> (acc.n + 1) \div 2, rest |-> Tail(acc.rest),
                hash |-> IF q % 2 = 0 THEN NodeHash(acc.hash, Head(acc.rest))
                         ELSE NodeHash(Head(acc.rest), acc.hash)]
    BY VStepIs
  <2> DEFINE want == Val(k + 1)
             end == VStep(i, acc, k)
  <2> HIDE DEF q, c, cc, node, sib, up, acc, rest, tail, l, want, end
  <2>7. acc.ok /\ acc.n = c /\ acc.rest = rest /\ acc.hash = node
    BY <2>2
  <2>8. CASE Promoted(q, c)
    <3>1. end = [acc EXCEPT !.n = (acc.n + 1) \div 2]
      BY <2>6, <2>7, <2>8, Zenon DEF end
    <3>2. end = [ok |-> TRUE, n |-> cc, rest |-> rest, hash |-> node]
      BY <2>2, <2>4, <2>7, <3>1
    <3>3. end = want
      BY <2>2, <2>4, <2>5, <2>8, <3>2 DEF want
    <3> QED BY <2>3, <3>3 DEF end, want
  <2>9. CASE ~Promoted(q, c)
    <3>1. HasSib(i, n, k) /\ l \in Nat \ {0}
      BY <2>4, <2>5, <2>9
    <3>2. rest # <<>>
      BY <2>5, <3>1, RowTail
    <3>3. end = [ok |-> TRUE, n |-> (acc.n + 1) \div 2, rest |-> Tail(acc.rest),
                 hash |-> IF q % 2 = 0 THEN NodeHash(acc.hash, Head(acc.rest))
                          ELSE NodeHash(Head(acc.rest), acc.hash)]
      BY <2>6, <2>7, <2>9, <3>2, Zenon DEF end
    <3>4. end = [ok |-> TRUE, n |-> cc, rest |-> tail,
                 hash |-> IF q % 2 = 0 THEN NodeHash(node, sib) ELSE NodeHash(sib, node)]
      BY <2>4, <2>5, <2>7, <3>1, <3>3, Zenon
    <3>5. end = want
      BY <2>2, <2>4, <2>9, <3>4, Zenon DEF want
    <3> QED BY <2>3, <3>5 DEF end, want
  <2> QED BY <2>8, <2>9
<1>6. h[d] = Val(d)
  <2>1. d \in S
    <3> HIDE DEF S
    <3>1. S \in SUBSET Nat
      BY DEF S
    <3> QED BY <1>1, <1>4, <1>5, <3>1, NatClosed
  <2> QED BY <1>1, <2>1
<1>7. Accepts(h[d], root)
  <2>1. Quot(i, d) = 0
    <3>1. Quot(i, d) \in Nat /\ Quot(i, d) < Width(n, d)
      BY <1>1, Halving, NodeInRow
    <3> QED BY <1>1, <3>1
  <2>2. R[d] = <<>>
    BY <1>2 DEF RestsOf, d
  <2>3. h[d].ok /\ h[d].rest = <<>> /\ h[d].hash = Lev(L, d)[0 + 1]
    BY <1>6, <2>1, <2>2
  <2> QED BY <1>1, <2>3 DEF Accepts
<1> QED BY <1>3, <1>7 DEF path, root

(***************************************************************************)
(* RFC 6962: what the tree computes level by level is what the RFC defines *)
(* by splitting, every row a row of hashes of runs of data.                *)
(***************************************************************************)

\* Greater exponents give greater powers, which exceed their exponents.
LEMMA PowersGrow ==
  /\ \A k \in Nat : k < 2^k
  /\ \A i, j \in Nat : i <= j => 2^i <= 2^j
<1> DEFINE S == {k \in Nat : k < 2^k}
<1>1. 0 \in S
  BY Powers
<1>2. ASSUME NEW k \in S PROVE k + 1 \in S
  BY Powers
<1>3. \A k \in Nat : k \in S
  <2> HIDE DEF S
  <2>1. S \in SUBSET Nat
    BY DEF S
  <2> QED BY <1>1, <1>2, <2>1, NatClosed
<1>4. ASSUME NEW i \in Nat, NEW j \in Nat, i <= j PROVE 2^i <= 2^j
  <2> DEFINE T == {k \in Nat : 2^i <= 2^(i + k)}
             m == j - i
  <2>1. 0 \in T
    <3>1. i + 0 = i /\ 2^i \in Nat
      BY Powers
    <3> QED BY <3>1
  <2>2. ASSUME NEW k \in T PROVE k + 1 \in T
    <3> DEFINE l == i + k
    <3>1. l \in Nat /\ i + (k + 1) = l + 1 /\ 2^i <= 2^l
      OBVIOUS
    <3> HIDE DEF l
    <3>2. 2^i <= 2^(l + 1)
      <4>1. 2^i \in Nat /\ 2^l \in Nat /\ 2^(l + 1) = 2 * 2^l
        BY <3>1, Powers
      <4> QED BY <3>1, <4>1
    <3> QED BY <3>1, <3>2
  <2>3. m \in Nat /\ i + m = j
    BY <1>4
  <2>4. m \in T
    <3> HIDE DEF T, m
    <3>1. T \in SUBSET Nat
      BY DEF T
    <3> QED BY <2>1, <2>2, <2>3, <3>1, NatClosed
  <2> QED BY <2>3, <2>4
<1> QED BY <1>3, <1>4

\* Split is what RFC 6962 says, and its only value.
LEMMA SplitPower ==
  ASSUME NEW n \in Nat, NEW e \in Nat, 2^e < n, n <= 2 * 2^e
  PROVE  Split(n) = 2^e
<1> DEFINE P(k) == k < n /\ n <= 2 * k
           X == {2^i : i \in 0 .. n}
<1>1. 2^e \in X /\ P(2^e)
  <2>1. e < 2^e /\ 2^e \in Nat
    BY PowersGrow, Powers
  <2>2. e \in 0 .. n
    BY <2>1
  <2> QED BY <2>2
<1>2. ASSUME NEW i \in Nat, P(2^i) PROVE 2^i = 2^e
  <2>1. 2^i \in Nat /\ 2^e \in Nat /\ 2^(i + 1) = 2 * 2^i /\ 2^(e + 1) = 2 * 2^e
    BY Powers
  <2>2. CASE i < e
    <3>1. 2^(i + 1) <= 2^e
      <4>1. i + 1 \in Nat /\ i + 1 <= e
        BY <2>2
      <4> QED BY <4>1, PowersGrow
    <3> QED BY <1>2, <2>1, <3>1
  <2>3. CASE e < i
    <3>1. 2^(e + 1) <= 2^i
      <4>1. e + 1 \in Nat /\ e + 1 <= i
        BY <2>3
      <4> QED BY <4>1, PowersGrow
    <3> QED BY <1>2, <2>1, <3>1
  <2>4. CASE i = e
    BY <2>4
  <2> QED BY <2>2, <2>3, <2>4
<1>3. \A k \in X : P(k) => k = 2^e
  BY <1>2
<1>4. Split(n) = CHOOSE k \in X : P(k)
  BY DEF Split
<1> HIDE DEF X, P
<1> QED BY <1>1, <1>3, <1>4

\* Every run of two or more data has such a split.
LEMMA SplitPart ==
  ASSUME NEW n \in Nat, n > 1
  PROVE  \E e \in Nat : Split(n) = 2^e /\ 2^e \in Nat /\ 2^e >= 1 /\ 2^e < n /\ n <= 2 * 2^e
<1> DEFINE T == {k \in Nat : n <= 2 * 2^k}
<1>1. n \in T
  BY PowersGrow, Powers
<1>2. PICK e \in T : \A k \in T : e <= k
  <2> HIDE DEF T
  <2>1. T \in SUBSET Nat
    BY DEF T
  <2> QED BY <1>1, <2>1, NatLeast
<1>3. e \in Nat /\ n <= 2 * 2^e /\ 2^e \in Nat /\ 2^e >= 1
  BY Powers
<1>4. 2^e < n
  <2>1. CASE e = 0
    <3>1. 2^e = 1
      BY <2>1, Powers
    <3> QED BY <3>1
  <2>2. CASE e # 0
    <3> DEFINE f == e - 1
    <3>1. f \in Nat /\ f + 1 = e /\ ~(e <= f)
      BY <1>3, <2>2
    <3>2. f \notin T
      BY <1>2, <3>1
    <3>3. ~(n <= 2 * 2^f)
      BY <3>1, <3>2
    <3> HIDE DEF f, T
    <3>4. 2^e = 2 * 2^f /\ 2^f \in Nat
      BY <3>1, Powers
    <3> QED BY <1>3, <3>3, <3>4
  <2> QED BY <2>1, <2>2
<1>5. Split(n) = 2^e
  BY <1>3, <1>4, SplitPower
<1> QED BY <1>3, <1>4, <1>5

\* The recursions of RFC 6962 are well founded.
LEMMA RunRecursion ==
  ASSUME NEW n \in Nat, NEW p, p.kind \in {"hashes", "paths"}, Len(p.seq) = n
  PROVE  \E g : g = [x \in 0 .. n |-> Body(p, g, x)]
<1> DEFINE X == 0 .. n
           mu == [x \in X |-> x]
<1>1. mu \in [X -> Nat] /\ (\A x \in X : mu[x] <= n /\ mu[x] = x)
  OBVIOUS
<1>2. ASSUME NEW x \in X, x > 1
      PROVE  /\ Split(x) \in X /\ mu[Split(x)] < mu[x]
             /\ x - Split(x) \in X /\ mu[x - Split(x)] < mu[x]
  <2>1. PICK e \in Nat : Split(x) = 2^e /\ 2^e \in Nat /\ 2^e >= 1 /\ 2^e < x
    BY <1>2, SplitPart
  <2> DEFINE k == Split(x)
  <2>2. k \in Nat /\ k >= 1 /\ k < x
    BY <2>1
  <2> HIDE DEF k
  <2>3. k \in X /\ x - k \in X /\ mu[k] < mu[x] /\ mu[x - k] < mu[x]
    BY <2>2
  <2> QED BY <2>3 DEF k
<1>3. \A x \in X : x = 0 \/ x = 1 \/ (x > 1 /\ x # 0 /\ x # 1 /\ ~(x <= 1))
  OBVIOUS
<1>4. \A x \in X : x = 0 \/ x = 1 => x <= 1
  OBVIOUS
<1> HIDE DEF X, mu
<1>5. ASSUME NEW g, NEW h, NEW x \in X, \A y \in X : mu[y] < mu[x] => g[y] = h[y]
      PROVE  Body(p, g, x) = Body(p, h, x)
  <2>1. x > 1 => g[Split(x)] = h[Split(x)] /\ g[x - Split(x)] = h[x - Split(x)]
    BY <1>2, <1>5
  <2>2. HashRow(p.seq, g, x) = HashRow(p.seq, h, x)
    <3>1. CASE x = 0
      BY <3>1, Zenon DEF HashRow
    <3>2. CASE x = 1
      BY <3>2 DEF HashRow
    <3>3. CASE x > 1
      BY <1>3, <2>1, <3>3 DEF HashRow
    <3> QED BY <1>3, <3>1, <3>2, <3>3
  <2>3. PathRow(p.seq, p.leaf, g, x) = PathRow(p.seq, p.leaf, h, x)
    <3>1. CASE x <= 1
      BY <3>1, Zenon DEF PathRow
    <3>2. CASE x > 1
      BY <1>3, <2>1, <3>2, Zenon DEF PathRow
    <3> QED BY <1>3, <1>4, <3>1, <3>2
  <2>4. CASE p.kind = "hashes"
    <3>1. Body(p, g, x) = HashRow(p.seq, g, x) /\ Body(p, h, x) = HashRow(p.seq, h, x)
      BY <2>4 DEF Body
    <3> QED BY <2>2, <3>1
  <2>5. CASE p.kind = "paths"
    <3>1. Body(p, g, x) = PathRow(p.seq, p.leaf, g, x) /\ Body(p, h, x) = PathRow(p.seq, p.leaf, h, x)
      BY <2>5 DEF Body
    <3> QED BY <2>3, <3>1
  <2> QED BY <2>4, <2>5
<1>6. ReadsBelow(p, X, mu)
  BY <1>5, Zenon DEF ReadsBelow
<1>7. \E g : g = [x \in X |-> Body(p, g, x)]
  BY <1>1, <1>6, Recursion
<1> QED BY <1>7 DEF X

\* The hash of a run: nothing, a leaf, or two runs.
LEMMA HashSteps ==
  ASSUME NEW N \in Nat, NEW D, IsRow(D, N), NEW n \in 0 .. N, NEW i \in 0 .. N - n
  PROVE  LET H == RunHashes(D) IN
         H[n][i] = IF n = 0 THEN ZeroHash
                   ELSE IF n = 1 THEN LeafHash(D[i + 1])
                   ELSE NodeHash(H[Split(n)][i], H[n - Split(n)][i + Split(n)])
<1> DEFINE X == 0 .. Len(D)
           P(g) == g = [x \in X |-> HashRow(D, g, x)]
           p == [kind |-> "hashes", base |-> 0, seq |-> D, leaf |-> 0]
           G == CHOOSE g : P(g)
<1>1. Len(D) = N
  BY RowLen
<1>2. RunHashes(D) = G
  BY Zenon DEF RunHashes, HashRow
<1>3. P(G)
  <2>1. \A g, x : Body(p, g, x) = HashRow(D, g, x)
    BY DEF Body
  <2>2. \E g : g = [x \in X |-> Body(p, g, x)]
    <3>1. p.kind \in {"hashes", "paths"} /\ Len(p.seq) = N
      BY <1>1
    <3> HIDE DEF p
    <3>2. \E g : g = [x \in 0 .. N |-> Body(p, g, x)]
      BY <3>1, RunRecursion
    <3> QED BY <1>1, <3>2
  <2>3. \E g : P(g)
    <3> HIDE DEF p, X
    <3>1. PICK g : g = [x \in X |-> Body(p, g, x)]
      BY <2>2
    <3>2. [x \in X |-> Body(p, g, x)] = [x \in X |-> HashRow(D, g, x)]
      BY <2>1
    <3>3. P(g)
      BY <3>1, <3>2
    <3> QED BY <3>3
  <2> HIDE DEF P
  <2> QED BY <2>3
<1> HIDE DEF G
<1>4. G[n] = HashRow(D, G, n)
  <2>1. n \in X
    BY <1>1
  <2> HIDE DEF X
  <2> QED BY <1>3, <2>1, Zenon
<1>5. HashRow(D, G, n)[i] =
        IF n = 0 THEN ZeroHash ELSE IF n = 1 THEN LeafHash(D[i + 1])
        ELSE NodeHash(G[Split(n)][i], G[n - Split(n)][i + Split(n)])
  BY <1>1, Zenon DEF HashRow
<1> QED BY <1>2, <1>4, <1>5, Zenon

\* The audit path in a run: none, or that in one half and the hash of the other.
LEMMA PathSteps ==
  ASSUME NEW N \in Nat, NEW D, IsRow(D, N), NEW m \in Nat, NEW n \in 0 .. N, NEW i \in 0 .. N - n
  PROVE  LET H == RunHashes(D)
             R == RunPaths(D, m)
             p == Split(n)
         IN  /\ n <= 1 => R[n][i] = <<>>
             /\ n > 1 /\ m < i + p => R[n][i] = Grown(R[p][i], H[n - p][i + p])
             /\ n > 1 /\ ~(m < i + p) => R[n][i] = Grown(R[n - p][i + p], H[p][i])
<1> DEFINE X == 0 .. Len(D)
           P(g) == g = [x \in X |-> PathRow(D, m, g, x)]
           p == [kind |-> "paths", base |-> 0, seq |-> D, leaf |-> m]
           G == CHOOSE g : P(g)
<1>1. Len(D) = N
  BY RowLen
<1>2. RunPaths(D, m) = G
  BY Zenon DEF RunPaths, PathRow
<1>3. P(G)
  <2>1. \A g, x : Body(p, g, x) = PathRow(D, m, g, x)
    BY DEF Body
  <2>2. \E g : g = [x \in X |-> Body(p, g, x)]
    <3>1. p.kind \in {"hashes", "paths"} /\ Len(p.seq) = N
      BY <1>1
    <3> HIDE DEF p
    <3>2. \E g : g = [x \in 0 .. N |-> Body(p, g, x)]
      BY <3>1, RunRecursion
    <3> QED BY <1>1, <3>2
  <2>3. \E g : P(g)
    <3> HIDE DEF p, X
    <3>1. PICK g : g = [x \in X |-> Body(p, g, x)]
      BY <2>2
    <3>2. [x \in X |-> Body(p, g, x)] = [x \in X |-> PathRow(D, m, g, x)]
      BY <2>1
    <3>3. P(g)
      BY <3>1, <3>2
    <3> QED BY <3>3
  <2> HIDE DEF P
  <2> QED BY <2>3
<1> HIDE DEF G
<1>4. G[n] = PathRow(D, m, G, n)
  <2>1. n \in X
    BY <1>1
  <2> HIDE DEF X
  <2> QED BY <1>3, <2>1, Zenon
<1>5. PathRow(D, m, G, n)[i] =
        IF n <= 1 THEN <<>>
        ELSE IF m < i + Split(n)
          THEN Append(G[Split(n)][i], RunHashes(D)[n - Split(n)][i + Split(n)])
          ELSE Append(G[n - Split(n)][i + Split(n)], RunHashes(D)[Split(n)][i])
  BY <1>1, Zenon DEF PathRow
<1>6. n > 1 => ~(n <= 1)
  OBVIOUS
<1> QED BY <1>2, <1>4, <1>5, <1>6, Zenon DEF Grown

\* Where block i of 2^k leaves begins.
BlockStart(i, k) == i * 2^k

\* Blocks follow one another, and one splits into two on the level below.
LEMMA StartSteps ==
  \A i, k \in Nat :
    /\ BlockStart(i, k) \in Nat /\ BlockStart(i, 0) = i /\ BlockStart(0, k) = 0
    /\ BlockStart(i + 1, k) = BlockStart(i, k) + 2^k
    /\ BlockStart(2 * i, k) = BlockStart(i, k + 1) /\ BlockStart(2 * i + 1, k) = BlockStart(i, k + 1) + 2^k
<1> SUFFICES ASSUME NEW i \in Nat, NEW k \in Nat
             PROVE  /\ BlockStart(i, k) \in Nat /\ BlockStart(i, 0) = i /\ BlockStart(0, k) = 0
                    /\ BlockStart(i + 1, k) = BlockStart(i, k) + 2^k
                    /\ BlockStart(2 * i, k) = BlockStart(i, k + 1)
                    /\ BlockStart(2 * i + 1, k) = BlockStart(i, k + 1) + 2^k
  OBVIOUS
<1> DEFINE p == 2^k
<1>1. p \in Nat /\ 2^(k + 1) = 2 * p /\ 2^0 = 1
  BY Powers
<1> HIDE DEF p
<1>2. i * p \in Nat /\ 0 * p = 0 /\ (i + 1) * p = i * p + p
      /\ (2 * i) * p = i * (2 * p) /\ (2 * i + 1) * p = i * (2 * p) + p
  BY <1>1
<1> QED BY <1>1, <1>2 DEF BlockStart, p

\* Later blocks begin later.
LEMMA StartGrows == \A i, j, k \in Nat : i <= j => BlockStart(i, k) <= BlockStart(j, k)
<1> SUFFICES ASSUME NEW i \in Nat, NEW j \in Nat, NEW k \in Nat, i <= j
             PROVE  BlockStart(i, k) <= BlockStart(j, k)
  OBVIOUS
<1> DEFINE p == 2^k
           e == j - i
<1>1. p \in Nat /\ e \in Nat /\ j = i + e
  BY Powers
<1> HIDE DEF p, e
<1>2. (i + e) * p = i * p + e * p /\ i * p \in Nat /\ e * p \in Nat
  BY <1>1
<1>3. i * p <= j * p
  BY <1>1, <1>2
<1> QED BY <1>3 DEF BlockStart, p

\* Leaf a is in block Quot(a, k), and the row has the blocks that begin.
LEMMA StartQuot ==
  \A a, k \in Nat : BlockStart(Quot(a, k), k) <= a /\ a < BlockStart(Quot(a, k), k) + 2^k
<1> SUFFICES ASSUME NEW a \in Nat, NEW k \in Nat
             PROVE  BlockStart(Quot(a, k), k) <= a /\ a < BlockStart(Quot(a, k), k) + 2^k
  OBVIOUS
<1> DEFINE p == 2^k
           q == a \div p
           r == a % p
<1>1. p \in Nat \ {0}
  BY Powers
<1> HIDE DEF p
<1>2. q \in Nat /\ r \in Nat /\ r < p /\ a = p * q + r
  BY <1>1, Division
<1> HIDE DEF q, r
<1>3. q * p = p * q /\ q * p \in Nat
  BY <1>1, <1>2
<1>4. q * p <= a /\ a < q * p + p
  BY <1>1, <1>2, <1>3
<1> QED BY <1>4 DEF BlockStart, Quot, q, p

\* A row has the blocks that begin before the last leaf.
LEMMA StartWidth ==
  \A n, i, k \in Nat : i < Width(n, k) <=> BlockStart(i, k) < n
<1> SUFFICES ASSUME NEW n \in Nat, NEW i \in Nat, NEW k \in Nat
             PROVE  i < Width(n, k) <=> BlockStart(i, k) < n
  OBVIOUS
<1>1. BlockStart(i, k) \in Nat /\ 2^k \in Nat
  BY StartSteps, Powers
<1>2. CASE n = 0
  <2>1. Width(n, k) = 0
    BY <1>2 DEF Width
  <2> QED BY <1>1, <1>2, <2>1
<1>3. CASE n # 0
  <2> DEFINE q == Quot(n - 1, k)
  <2>1. n - 1 \in Nat /\ q \in Nat /\ Width(n, k) = q + 1
    BY <1>3, Halving DEF Width
  <2>2. BlockStart(q, k) <= n - 1 /\ n - 1 < BlockStart(q, k) + 2^k /\ BlockStart(q, k) \in Nat
        /\ BlockStart(q + 1, k) = BlockStart(q, k) + 2^k
    BY <2>1, StartQuot, StartSteps
  <2> HIDE DEF q
  <2>3. CASE i <= q
    <3>1. BlockStart(i, k) <= BlockStart(q, k)
      BY <2>1, <2>3, StartGrows
    <3> QED BY <1>1, <2>1, <2>2, <2>3, <3>1
  <2>4. CASE ~(i <= q)
    <3>1. q + 1 \in Nat /\ q + 1 <= i
      BY <2>1, <2>4
    <3>2. BlockStart(q + 1, k) <= BlockStart(i, k)
      BY <3>1, StartGrows
    <3> QED BY <1>1, <2>1, <2>2, <2>4, <3>2
  <2> QED BY <2>3, <2>4
<1> QED BY <1>2, <1>3

\* How many of n leaves are in block i.
BlockSize(n, i, k) == IF BlockStart(i, k) + 2^k <= n THEN 2^k ELSE n - BlockStart(i, k)

\* A block that begins has a leaf; it is the left half of the block above, or
\* all of it.
LEMMA BlockSteps ==
  ASSUME NEW n \in Nat, NEW k \in Nat, NEW i \in Nat, BlockStart(i, k + 1) < n
  PROVE  LET s == BlockStart(i, k + 1)
             p == 2^k
             b == BlockSize(n, i, k + 1)
             left == BlockSize(n, 2 * i, k)
             right == BlockSize(n, 2 * i + 1, k)
         IN  /\ s \in Nat /\ p \in Nat /\ b \in 1 .. n /\ s + b <= n
             /\ s + p < n => /\ left = p /\ right \in Nat /\ 1 <= right /\ right <= p
                             /\ b = p + right /\ Split(b) = p /\ b > 1
             /\ ~(s + p < n) => left = b
<1> DEFINE s == BlockStart(i, k + 1)
           p == 2^k
           b == BlockSize(n, i, k + 1)
           left == BlockSize(n, 2 * i, k)
           right == BlockSize(n, 2 * i + 1, k)
<1>1. s \in Nat /\ s < n /\ p \in Nat /\ p > 0 /\ 2^(k + 1) = 2 * p
  <2>1. k + 1 \in Nat
    OBVIOUS
  <2>2. s \in Nat
    BY <2>1, StartSteps
  <2>3. p \in Nat /\ p > 0 /\ 2^(k + 1) = 2 * p
    BY Powers
  <2> QED BY <2>2, <2>3
<1>2. /\ b = IF s + 2 * p <= n THEN 2 * p ELSE n - s
      /\ left = IF s + p <= n THEN p ELSE n - s
      /\ right = IF (s + p) + p <= n THEN p ELSE n - (s + p)
  <2>1. BlockStart(2 * i, k) = s /\ BlockStart(2 * i + 1, k) = s + p
    BY StartSteps
  <2>2. 2^(k + 1) = 2 * p
    BY <1>1
  <2>3. b = IF s + 2^(k + 1) <= n THEN 2^(k + 1) ELSE n - s
    BY Zenon DEF BlockSize
  <2>4. left = IF BlockStart(2 * i, k) + p <= n THEN p ELSE n - BlockStart(2 * i, k)
    BY Zenon DEF BlockSize
  <2>5. right = IF BlockStart(2 * i + 1, k) + p <= n THEN p ELSE n - BlockStart(2 * i + 1, k)
    BY Zenon DEF BlockSize
  <2> HIDE DEF s, p, b, left, right
  <2> QED BY <2>1, <2>2, <2>3, <2>4, <2>5, Zenon
<1> HIDE DEF s, b, left, right
<1>3. /\ b \in 1 .. n /\ s + b <= n
      /\ s + p < n => /\ left = p /\ right \in Nat /\ 1 <= right /\ right <= p
                      /\ b = p + right /\ b > 1
      /\ ~(s + p < n) => left = b
  <2> HIDE DEF p
  <2> QED BY <1>1, <1>2
<1>4. s + p < n => Split(b) = p
  <2> SUFFICES ASSUME s + p < n PROVE Split(b) = p
    OBVIOUS
  <2>1. b \in Nat /\ p < b /\ b <= 2 * p
    <3> HIDE DEF p
    <3> QED BY <1>1, <1>3
  <2> QED BY <2>1, SplitPower
<1> QED BY <1>1, <1>3, <1>4 DEF s, b, left, right

\* L holds the leaf hashes of the first n data of D.
LeavesOf(L, D, n) == IsRow(L, n) /\ \A i \in 1 .. n : L[i] = LeafHash(D[i])

\* Every node of every row is the Merkle tree hash of its block.
LEMMA NodeIsRun ==
  ASSUME NEW N \in Nat, NEW D, IsRow(D, N), NEW n \in 1 .. N, NEW L, LeavesOf(L, D, n)
  PROVE  \A k \in Nat : \A i \in Nat : BlockStart(i, k) < n =>
           Lev(L, k)[i + 1] = RunHashes(D)[BlockSize(n, i, k)][BlockStart(i, k)]
<1> DEFINE H == RunHashes(D)
           S == {k \in Nat : \A i \in Nat : BlockStart(i, k) < n =>
                   Lev(L, k)[i + 1] = H[BlockSize(n, i, k)][BlockStart(i, k)]}
<1>0. n \in Nat /\ IsRow(L, n)
  BY DEF LeavesOf
<1>1. 0 \in S
  <2> SUFFICES ASSUME NEW i \in Nat, BlockStart(i, 0) < n
               PROVE  Lev(L, 0)[i + 1] = H[BlockSize(n, i, 0)][BlockStart(i, 0)]
    OBVIOUS
  <2>1. BlockStart(i, 0) = i /\ 2^0 = 1
    BY StartSteps, Powers
  <2>2. BlockSize(n, i, 0) = 1
    <3>1. i + 1 <= n
      BY <2>1
    <3> QED BY <2>1, <3>1, Zenon DEF BlockSize
  <2>3. 1 \in 0 .. N /\ i \in 0 .. N - 1 /\ i + 1 \in 1 .. n
    BY <2>1
  <2>4. H[1][i] = LeafHash(D[i + 1])
    <3> DEFINE one == 1
    <3>1. one \in 0 .. N /\ i \in 0 .. N - one /\ one = 1 /\ one # 0
      BY <2>3
    <3> HIDE DEF one
    <3>2. H[one][i] = LeafHash(D[i + 1])
      BY <3>1, HashSteps
    <3> QED BY <3>1, <3>2
  <2>5. Lev(L, 0) = L
    BY LevStep
  <2> QED BY <2>1, <2>2, <2>3, <2>4, <2>5 DEF LeavesOf
<1>2. ASSUME NEW k \in S PROVE k + 1 \in S
  <2> SUFFICES ASSUME NEW i \in Nat, BlockStart(i, k + 1) < n
               PROVE  Lev(L, k + 1)[i + 1] = H[BlockSize(n, i, k + 1)][BlockStart(i, k + 1)]
    OBVIOUS
  <2> DEFINE s == BlockStart(i, k + 1)
             p == 2^k
             b == BlockSize(n, i, k + 1)
             right == BlockSize(n, 2 * i + 1, k)
             row == Lev(L, k)
             c == Width(n, k)
             j == i + 1
             l == 2 * i
             r == 2 * i + 1
  <2>1. k \in Nat /\ l \in Nat /\ r \in Nat /\ j \in Nat \ {0} /\ BlockStart(l, k) = s /\ BlockStart(r, k) = s + p
    <3>1. k \in Nat /\ i \in Nat
      OBVIOUS
    <3>2. BlockStart(2 * i, k) = s /\ BlockStart(2 * i + 1, k) = s + p
      BY <3>1, StartSteps
    <3> HIDE DEF s, p, S
    <3> QED BY <3>1, <3>2
  <2>2. /\ s \in Nat /\ p \in Nat /\ b \in 1 .. n /\ s + b <= n
        /\ s + p < n => /\ BlockSize(n, l, k) = p /\ right \in Nat /\ 1 <= right /\ right <= p
                        /\ b = p + right /\ Split(b) = p /\ b > 1
        /\ ~(s + p < n) => BlockSize(n, l, k) = b
    BY <1>0, <2>1, BlockSteps
  <2>3. \A m \in Nat : BlockStart(m, k) < n => row[m + 1] = H[BlockSize(n, m, k)][BlockStart(m, k)]
    OBVIOUS
  <2>4. /\ c \in Nat /\ Width(n, k + 1) = (c + 1) \div 2
        /\ i < Width(n, k + 1)
        /\ r < c <=> s + p < n
    <3>1. k + 1 \in Nat /\ s < n
      BY <2>1
    <3>2. i < Width(n, k + 1)
      BY <1>0, <3>1, StartWidth
    <3>3. r < c <=> s + p < n
      BY <1>0, <2>1, StartWidth
    <3> QED BY <1>0, <2>1, <3>2, <3>3, Blocks
  <2>5. s < n
    OBVIOUS
  <2> HIDE DEF S, s, p, b, right, row, c
  <2>6. 2 * j <= c + 1 /\ (2 * j <= c <=> s + p < n) /\ 2*j - 1 = l + 1 /\ 2*j = r + 1
    BY <2>4
  <2> HIDE DEF j, l, r
  <2>7. Lev(L, k + 1)[j] = IF 2 * j <= c THEN NodeHash(row[2*j - 1], row[2*j]) ELSE row[2*j - 1]
    BY <1>0, <2>1, <2>6, LevNode DEF row, c
  <2>8. row[l + 1] = H[BlockSize(n, l, k)][s]
    BY <2>1, <2>3, <2>5
  <2>9. CASE s + p < n
    <3>1. row[r + 1] = H[right][s + p]
      <4>1. row[r + 1] = H[BlockSize(n, r, k)][s + p]
        BY <2>1, <2>3, <2>9
      <4> QED BY <4>1 DEF right, r
    <3>2. Lev(L, k + 1)[j] = NodeHash(H[p][s], H[right][s + p])
      BY <2>2, <2>6, <2>7, <2>8, <2>9, <3>1
    <3>3. b \in 0 .. N /\ s \in 0 .. N - b /\ b # 0 /\ b # 1
      BY <2>2, <2>9
    <3>4. H[b][s] = NodeHash(H[Split(b)][s], H[b - Split(b)][s + Split(b)])
      BY <3>3, HashSteps
    <3>5. Split(b) = p /\ b - p = right
      BY <2>2, <2>9
    <3>6. H[b][s] = NodeHash(H[p][s], H[right][s + p])
      BY <3>4, <3>5
    <3> QED BY <3>2, <3>6 DEF j, b, s
  <2>10. CASE ~(s + p < n)
    <3>1. Lev(L, k + 1)[j] = H[b][s]
      BY <2>2, <2>6, <2>7, <2>8, <2>10
    <3> QED BY <3>1 DEF j, b, s
  <2> QED BY <2>9, <2>10
<1>3. \A k \in Nat : k \in S
  <2> HIDE DEF S
  <2>1. S \in SUBSET Nat
    BY DEF S
  <2> QED BY <1>1, <1>2, <2>1, NatClosed
<1> QED BY <1>3

\* The whole is one block at the top.
LEMMA TopBlock ==
  ASSUME NEW n \in Nat \ {0}
  PROVE  BlockStart(0, TreeDepth(n)) = 0 /\ BlockSize(n, 0, TreeDepth(n)) = n
<1> DEFINE p == 2^TreeDepth(n)
<1>1. BlockStart(0, TreeDepth(n)) = 0 /\ n <= p /\ p \in Nat
  BY Depth, StartSteps, Powers
<1>2. BlockSize(n, 0, TreeDepth(n)) = IF 0 + p <= n THEN p ELSE n - 0
  BY <1>1, Zenon DEF BlockSize
<1> HIDE DEF p
<1> QED BY <1>1, <1>2

\* The root that Root folds from the fringe, which Append maintained without
\* the leaves, is RFC 6962's Merkle tree hash of the data.
THEOREM RootIsMTH ==
  ASSUME NEW n \in Nat, NEW D, IsRow(D, n), NEW t, TreeOK(t, n), LeavesOf(t.leaves, D, n)
  PROVE  Root(t) = MTH(D)
<1> DEFINE H == RunHashes(D)
<1>1. MTH(D) = H[n][0]
  <2>1. Len(D) = n
    BY RowLen
  <2> QED BY <2>1, Zenon DEF MTH
<1>2. CASE n = 0
  <2>1. Root(t) = ZeroHash
    <3>1. t.size = 0
      BY <1>2 DEF TreeOK
    <3> QED BY <3>1, Zenon DEF Root
  <2>2. n \in 0 .. n /\ 0 \in 0 .. n - n
    BY <1>2
  <2>3. H[n][0] = ZeroHash
    BY <1>2, <2>2, HashSteps
  <2> QED BY <1>1, <2>1, <2>3
<1>3. CASE n # 0
  <2> DEFINE d == TreeDepth(n)
             L == t.leaves
  <2>1. n \in Nat \ {0} /\ n \in 1 .. n /\ d \in Nat
    BY <1>3, Depth
  <2>2. BlockStart(0, d) = 0 /\ BlockSize(n, 0, d) = n
    BY <2>1, TopBlock
  <2>3. Root(t) = Lev(L, d)[1]
    BY <2>1, RootIsTop
  <2> HIDE DEF d
  <2>4. BlockStart(0, d) < n
    BY <2>1, <2>2
  <2>5. Lev(L, d)[0 + 1] = H[BlockSize(n, 0, d)][BlockStart(0, d)]
    <3>1. \A k \in Nat : \A i \in Nat : BlockStart(i, k) < n =>
            Lev(L, k)[i + 1] = H[BlockSize(n, i, k)][BlockStart(i, k)]
      BY <2>1, NodeIsRun
    <3> QED BY <2>1, <2>4, <3>1
  <2> QED BY <1>1, <2>2, <2>3, <2>5
<1> QED BY <1>2, <1>3

\* Appending an element is appending a row of one.
LEMMA CatOne ==
  ASSUME NEW n \in Nat, NEW s, IsRow(s, n), NEW x
  PROVE  IsRow(Cat(s, <<x>>), n + 1) /\ Cat(s, <<x>>) = Grown(s, x)
<1> DEFINE a == Cat(s, <<x>>)
           b == Grown(s, x)
           e == <<x>>
<1>1. IsRow(e, 1) /\ e[1] = x
  BY OneRow
<1>2. IsRow(b, n + 1) /\ (\A i \in 1 .. n : b[i] = s[i]) /\ b[n + 1] = x
  BY RowAppend
<1>3. a = Cat(s, e)
  OBVIOUS
<1> HIDE DEF a, b, e
<1>4. IsRow(a, n + 1) /\ (\A i \in 1 .. n : a[i] = s[i]) /\ a[n + 1] = e[1]
  <2>1. 1 \in Nat /\ 1 \in 1 .. 1
    OBVIOUS
  <2>2. IsRow(Cat(s, e), n + 1) /\ (\A i \in 1 .. n : Cat(s, e)[i] = s[i])
        /\ (\A i \in 1 .. 1 : Cat(s, e)[n + i] = e[i])
    BY <1>1, <2>1, RowConcat
  <2> QED BY <1>3, <2>1, <2>2
<1>5. \A i \in 1 .. n + 1 : a[i] = b[i]
  <2> SUFFICES ASSUME NEW i \in 1 .. n + 1 PROVE a[i] = b[i]
    OBVIOUS
  <2>1. i \in 1 .. n \/ i = n + 1
    OBVIOUS
  <2> QED BY <1>1, <1>2, <1>4, <2>1
<1>6. a = b
  <2> DEFINE l == n + 1
  <2>1. IsRow(a, l) /\ IsRow(b, l) /\ \A i \in 1 .. l : a[i] = b[i]
    BY <1>2, <1>4, <1>5
  <2> HIDE DEF l
  <2> QED BY <2>1, RowEqual
<1> QED BY <1>4, <1>6 DEF a, b, e

\* Appending nothing.
LEMMA CatNone ==
  ASSUME NEW n \in Nat, NEW s, IsRow(s, n)
  PROVE  Cat(s, <<>>) = s
<1> DEFINE e == <<>>
           a == Cat(s, e)
<1>1. IsRow(e, 0)
  BY EmptyRow
<1> HIDE DEF e, a
<1>2. IsRow(a, n) /\ \A i \in 1 .. n : a[i] = s[i]
  <2>1. 0 \in Nat /\ n + 0 = n
    OBVIOUS
  <2>2. IsRow(Cat(s, e), n + 0) /\ \A i \in 1 .. n : Cat(s, e)[i] = s[i]
    BY <1>1, <2>1, RowConcat
  <2> QED BY <2>1, <2>2 DEF a
<1>3. a = s
  BY <1>2, RowEqual
<1> QED BY <1>3 DEF a, e

\* Proof, which walks rows that promote an odd last node, returns RFC 6962's
\* audit path of every leaf.
THEOREM ProofIsPATH ==
  ASSUME NEW N \in Nat, NEW D, IsRow(D, N), NEW n \in 1 .. N,
         NEW t, TreeOK(t, n), LeavesOf(t.leaves, D, n), NEW m \in 0 .. n - 1
  PROVE  /\ Proof(t, m) = RunPaths(D, m)[n][0]
         /\ \E l \in Nat : IsRow(Proof(t, m), l)
<1> DEFINE L == t.leaves
           H == RunHashes(D)
           R == RunPaths(D, m)
           d == TreeDepth(n)
           seq == [k \in 1 .. d |-> Sib(L, n, m, k - 1)]
           w == [k \in 1 .. d |-> IF HasSib(m, n, k - 1) THEN 1 ELSE 0]
<1>1. n \in Nat /\ n \in Nat \ {0} /\ d \in Nat /\ m \in Nat /\ m < n
  BY Depth
<1>2. Proof(t, m) = FlattenSeq(seq)
  BY <1>1, ProofIsSiblings
<1>3. PICK g : /\ g[0] = <<>>
               /\ \A k \in 0 .. d - 1 : g[k + 1] = g[k] \o Sib(L, n, m, k)
               /\ Proof(t, m) = g[d]
  <2> HIDE DEF d, L
  <2>1. IsRow(seq, d) /\ w \in [1 .. d -> {0, 1}]
    BY DEF IsRow
  <2>2. ASSUME NEW k \in 1 .. d PROVE IsRow(seq[k], w[k])
    <3> DEFINE j == k - 1
    <3>1. seq[k] = Sib(L, n, m, j) /\ w[k] = IF HasSib(m, n, j) THEN 1 ELSE 0
      OBVIOUS
    <3> HIDE DEF j, seq, w
    <3> QED BY <3>1, SibRow
  <2>3. ASSUME NEW k \in 0 .. d - 1 PROVE seq[k + 1] = Sib(L, n, m, k)
    <3>1. k + 1 \in 1 .. d /\ k + 1 - 1 = k
      BY <1>1
    <3> QED BY <3>1
  <2> HIDE DEF seq, w
  <2>4. PICK g : /\ g[0] = <<>>
                 /\ \A k \in 0 .. d - 1 : g[k + 1] = g[k] \o seq[k + 1]
                 /\ FlattenSeq(seq) = g[d]
    BY <1>1, <2>1, <2>2, FlattenSteps
  <2>5. \A k \in 0 .. d - 1 : g[k + 1] = g[k] \o Sib(L, n, m, k)
    BY <2>3, <2>4, Zenon
  <2> QED BY <1>2, <2>4, <2>5
<1>4. \A k \in Nat : \A i \in Nat : BlockStart(i, k) < n =>
        Lev(L, k)[i + 1] = H[BlockSize(n, i, k)][BlockStart(i, k)]
  <2>1. LeavesOf(L, D, n)
    OBVIOUS
  <2> HIDE DEF L
  <2> QED BY <2>1, NodeIsRun
<1> DEFINE T(k) == /\ g[k] = R[BlockSize(n, Quot(m, k), k)][BlockStart(Quot(m, k), k)]
                   /\ \E l \in Nat : IsRow(g[k], l)
           S == {k \in Nat : k <= d => T(k)}
<1> HIDE DEF L, H, R, d, seq, w
<1>5. 0 \in S
  <2>1. BlockStart(m, 0) = m /\ 2^0 = 1 /\ Quot(m, 0) = m
    BY <1>1, StartSteps, Powers, Halving
  <2>2. BlockSize(n, m, 0) = 1
    <3>1. m + 1 <= n
      BY <1>1
    <3> QED BY <2>1, <3>1, Zenon DEF BlockSize
  <2>3. R[1][m] = <<>>
    <3> DEFINE one == 1
    <3>1. one \in 0 .. N /\ m \in 0 .. N - one /\ one <= 1
      BY <1>1
    <3> HIDE DEF one
    <3>2. R[one][m] = <<>>
      BY <3>1, PathSteps DEF R
    <3> QED BY <3>2 DEF one
  <2>4. T(0)
    BY <1>3, <2>1, <2>2, <2>3, EmptyRow
  <2> HIDE DEF T
  <2> QED BY <2>4
<1>6. ASSUME NEW k \in S PROVE k + 1 \in S
  <2> SUFFICES ASSUME k + 1 <= d PROVE T(k + 1)
    OBVIOUS
  <2>1. k \in Nat /\ k + 1 \in Nat /\ k \in 0 .. d - 1 /\ T(k)
    BY <1>1
  <2> HIDE DEF S
  <2> DEFINE q == Quot(m, k)
             i == Quot(m, k + 1)
             s == BlockStart(i, k + 1)
             p == 2^k
             b == BlockSize(n, i, k + 1)
             l == 2 * i
             r == 2 * i + 1
             right == BlockSize(n, r, k)
             row == Lev(L, k)
             path == g[k]
  <2>2. q \in Nat /\ i \in Nat /\ i = q \div 2 /\ Width(n, k) \in Nat
    BY <1>1, <2>1, Halving, Blocks
  <2>3. /\ l \in Nat /\ r \in Nat /\ BlockStart(l, k) = s /\ BlockStart(r, k) = s + p
    <3>1. BlockStart(2 * i, k) = s /\ BlockStart(2 * i + 1, k) = s + p
      BY <2>1, <2>2, StartSteps
    <3> HIDE DEF i, s, p
    <3> QED BY <2>2, <3>1
  <2>4. s \in Nat /\ s <= m /\ s < n
    <3>1. s \in Nat
      BY <2>1, <2>2, StartSteps
    <3>2. s <= m
      BY <1>1, <2>1, StartQuot
    <3> HIDE DEF s
    <3> QED BY <1>1, <3>1, <3>2
  <2>5. BlockStart(q, k) <= m /\ m < BlockStart(q, k) + p
    BY <1>1, <2>1, StartQuot
  <2>6. /\ s \in Nat /\ p \in Nat /\ b \in 1 .. n /\ s + b <= n
        /\ s + p < n => /\ BlockSize(n, l, k) = p /\ right \in Nat /\ 1 <= right /\ right <= p
                        /\ b = p + right /\ Split(b) = p /\ b > 1
        /\ ~(s + p < n) => BlockSize(n, l, k) = b
    <3>1. n \in Nat /\ k \in Nat /\ i \in Nat /\ BlockStart(i, k + 1) < n
      BY <1>1, <2>1, <2>2, <2>4
    <3> HIDE DEF i, q, row, path
    <3> QED BY <3>1, BlockSteps
  <2>7. Width(n, k) > r <=> s + p < n
    <3>1. r < Width(n, k) <=> BlockStart(r, k) < n
      BY <1>1, <2>1, <2>3, StartWidth
    <3> HIDE DEF r, s, p, right
    <3> QED BY <2>2, <2>3, <3>1
  <2>8. g[k + 1] = Cat(path, Sib(L, n, m, k))
    BY <1>3, <2>1, Zenon DEF Cat
  <2>9. /\ path = R[BlockSize(n, q, k)][BlockStart(q, k)]
    BY <2>1
  <2>10. PICK len \in Nat : IsRow(path, len)
    BY <2>1
  <2>11. /\ BlockStart(l, k) < n => row[l + 1] = H[BlockSize(n, l, k)][s]
         /\ BlockStart(r, k) < n => row[r + 1] = H[right][s + p]
    BY <1>4, <2>1, <2>3
  <2> HIDE DEF T
  <2>12. SUFFICES /\ g[k + 1] = R[b][s]
                  /\ \E x \in Nat : IsRow(g[k + 1], x)
    BY DEF T
  <2>13. Sib(L, n, m, k) = IF q % 2 = 1 THEN <<row[q]>>
                           ELSE IF q + 1 < Width(n, k) THEN <<row[q + 2]>> ELSE <<>>
    BY Zenon DEF Sib
  <2> DEFINE c == Width(n, k)
             sib == Sib(L, n, m, k)
             left == BlockSize(n, l, k)
             end == g[k + 1]
  <2>14. ASSUME s + p < n
         PROVE  /\ m < s + p => R[b][s] = Grown(R[p][s], H[right][s + p])
                /\ ~(m < s + p) => R[b][s] = Grown(R[right][s + p], H[p][s])
    <3> DEFINE v == Split(b)
    <3>1. b \in 0 .. N /\ s \in 0 .. N - b /\ ~(b <= 1) /\ v = p /\ b - v = right
      <4> HIDE DEF b, s, p, right, r, l
      <4> QED BY <1>1, <2>4, <2>6, <2>14
    <3>2. /\ b > 1 /\ m < s + v => R[b][s] = Grown(R[v][s], H[b - v][s + v])
          /\ b > 1 /\ ~(m < s + v) => R[b][s] = Grown(R[b - v][s + v], H[v][s])
      <4> HIDE DEF b, s, p, right, r, l
      <4>1. n \in 1 .. N /\ IsRow(D, N) /\ m \in Nat
        BY <1>1
      <4> QED BY <3>1, <4>1, PathSteps DEF R, H
    <3>3. b > 1
      BY <2>6, <2>14
    <3> HIDE DEF b, s, p, right, r, l, v
    <3> QED BY <3>1, <3>2, <3>3, Zenon
  <2>15. ASSUME NEW x, sib = <<x>>
         PROVE  end = Grown(path, x) /\ \E y \in Nat : IsRow(end, y)
    <3> HIDE DEF path, sib, end
    <3>1. IsRow(Cat(path, <<x>>), len + 1) /\ Cat(path, <<x>>) = Grown(path, x) /\ len + 1 \in Nat
      BY <2>10, CatOne
    <3>2. end = Cat(path, <<x>>)
      BY <2>8, <2>15 DEF end, sib
    <3> QED BY <3>1, <3>2
  <2>16. q = l \/ q = r
    <3> HIDE DEF i, q
    <3> QED BY <2>2
  <2>17. l + 1 = r
    BY <2>2
  <2>18. CASE q % 2 = 1
    <3>1. q = r
      <4> HIDE DEF q, i
      <4> QED BY <2>2, <2>18
    <3>2. s + p <= m
      BY <2>3, <2>5, <3>1
    <3>3. sib = <<row[r]>> /\ row[r] = row[l + 1]
      BY <2>13, <2>17, <2>18, <3>1
    <3>4. s + p < n /\ ~(m < s + p)
      <4> HIDE DEF s, p
      <4> QED BY <1>1, <2>4, <2>6, <3>2
    <3>5. row[l + 1] = H[p][s]
      <4>1. left = p
        BY <2>6, <3>4
      <4> QED BY <2>3, <2>4, <2>11, <4>1
    <3>6. path = R[right][s + p]
      BY <2>3, <2>9, <3>1
    <3>7. R[b][s] = Grown(path, row[r])
      <4>1. R[b][s] = Grown(R[right][s + p], H[p][s])
        BY <2>14, <3>4
      <4> HIDE DEF b, s, p, right, r, l, path, row
      <4> QED BY <3>3, <3>5, <3>6, <4>1
    <3>8. end = Grown(path, row[r]) /\ \E y \in Nat : IsRow(end, y)
      <4> HIDE DEF sib, end, path, row, r
      <4> QED BY <2>15, <3>3
    <3> QED BY <3>7, <3>8
  <2>19. CASE q % 2 # 1 /\ q + 1 < c
    <3>1. q = l
      <4> HIDE DEF q, i
      <4> QED BY <2>2, <2>19
    <3>2. s + p < n /\ m < s + p
      <4>1. r < c
        BY <2>17, <2>19, <3>1
      <4>2. s + p < n
        <5> HIDE DEF c, r, s, p
        <5> QED BY <2>2, <2>3, <2>7, <4>1 DEF c
      <4> QED BY <2>3, <2>5, <3>1, <4>2
    <3>3. sib = <<row[q + 2]>>
      BY <2>13, <2>19, Zenon
    <3>4. row[q + 2] = H[right][s + p]
      <4>1. q + 2 = r + 1
        BY <2>2, <3>1
      <4> QED BY <2>3, <2>11, <3>2, <4>1
    <3>5. path = R[p][s]
      BY <2>3, <2>6, <2>9, <3>1, <3>2
    <3>6. R[b][s] = Grown(path, row[q + 2])
      <4>1. R[b][s] = Grown(R[p][s], H[right][s + p])
        BY <2>14, <3>2
      <4> HIDE DEF b, s, p, right, r, l, path, row, q
      <4> QED BY <3>4, <3>5, <4>1
    <3>7. end = Grown(path, row[q + 2]) /\ \E y \in Nat : IsRow(end, y)
      <4> HIDE DEF sib, end, path, row, r, q
      <4> QED BY <2>15, <3>3
    <3> QED BY <3>6, <3>7
  <2>20. CASE q % 2 # 1 /\ ~(q + 1 < c)
    <3>1. q = l
      <4> HIDE DEF q, i
      <4> QED BY <2>2, <2>20
    <3>2. ~(s + p < n)
      <4>1. ~(r < c)
        BY <2>17, <2>20, <3>1
      <4> HIDE DEF c, r, s, p
      <4> QED BY <2>2, <2>3, <2>7, <4>1 DEF c
    <3>3. sib = <<>>
      BY <2>13, <2>20, Zenon
    <3>4. path = R[b][s]
      BY <2>3, <2>6, <2>9, <3>1, <3>2
    <3>5. end = path
      <4> HIDE DEF path, sib, end
      <4>1. Cat(path, <<>>) = path
        BY <2>10, CatNone
      <4> QED BY <2>8, <3>3, <4>1 DEF end, sib
    <3> QED BY <2>10, <3>4, <3>5
  <2> QED BY <2>18, <2>19, <2>20
<1>7. T(d)
  <2>1. d \in S
    <3> HIDE DEF S
    <3>1. S \in SUBSET Nat
      BY DEF S
    <3> QED BY <1>1, <1>5, <1>6, <3>1, NatClosed
  <2> QED BY <1>1, <2>1
<1>8. BlockStart(0, d) = 0 /\ BlockSize(n, 0, d) = n /\ Quot(m, d) = 0
  <2>1. BlockStart(0, d) = 0 /\ BlockSize(n, 0, d) = n
    BY <1>1, TopBlock DEF d
  <2>2. Quot(m, d) = 0
    <3>1. n <= 2^d /\ 2^d \in Nat \ {0}
      BY <1>1, Depth, Powers DEF d
    <3> DEFINE p == 2^d
    <3>2. m < p /\ p \in Nat \ {0}
      BY <1>1, <3>1
    <3> HIDE DEF p
    <3>3. m \div p = 0
      BY <1>1, <3>2
    <3> QED BY <3>3 DEF Quot, p
  <2> QED BY <2>1, <2>2
<1> QED BY <1>3, <1>7, <1>8 DEF R

(***************************************************************************)
(* What VerifyProof rejects: the state of its loop is determined from the  *)
(* root down, and the audit path of a leaf is another in every other tree. *)
(***************************************************************************)

\* Hashes of leaves and nodes are injective and apart.
LEMMA HashesApart ==
  /\ \A x, y : LeafHash(x) = LeafHash(y) => x = y
  /\ \A a, b, c, e : NodeHash(a, b) = NodeHash(c, e) => a = c /\ b = e
  /\ \A x, a, b : LeafHash(x) # NodeHash(a, b)
<1>1. \A x, y : LeafHash(x) = LeafHash(y) => x = y
  BY DEF LeafHash
<1>2. \A a, b, c, e : NodeHash(a, b) = NodeHash(c, e) => a = c /\ b = e
  BY DEF NodeHash
<1>3. \A x, a, b : LeafHash(x) # NodeHash(a, b)
  <2> TAKE x, a, b
  <2>1. LeafHash(x)[1] = "leaf" /\ NodeHash(a, b)[1] = "node"
    BY DEF LeafHash, NodeHash
  <2> QED BY <2>1
<1> QED BY <1>1, <1>2, <1>3

\* A row is its head and its tail.
LEMMA HeadTail ==
  ASSUME NEW m \in Nat \ {0}, NEW n \in Nat \ {0}, NEW s, NEW t, IsRow(s, m), IsRow(t, n),
         Head(s) = Head(t), Tail(s) = Tail(t)
  PROVE  s = t
<1> DEFINE a == Tail(s)
           b == Tail(t)
           k == m - 1
           l == n - 1
<1>1. IsRow(a, k) /\ Head(s) = s[1] /\ \A i \in 1 .. k : a[i] = s[i + 1]
  BY RowTail
<1>2. IsRow(b, l) /\ Head(t) = t[1] /\ \A i \in 1 .. l : b[i] = t[i + 1]
  BY RowTail
<1>3. k \in Nat /\ l \in Nat /\ a = b /\ m = k + 1 /\ n = l + 1
  OBVIOUS
<1> HIDE DEF a, b, k, l
<1>4. k = l
  BY <1>1, <1>2, <1>3, RowLen
<1>5. ASSUME NEW i \in 1 .. m PROVE s[i] = t[i]
  <2>1. CASE i = 1
    BY <1>1, <1>2, <2>1
  <2>2. CASE i # 1
    <3> DEFINE j == i - 1
    <3>1. j \in 1 .. k /\ i = j + 1
      BY <1>3, <2>2
    <3> HIDE DEF j
    <3> QED BY <1>1, <1>2, <1>3, <1>4, <3>1
  <2> QED BY <2>1, <2>2
<1> QED BY <1>3, <1>4, <1>5, RowEqual

\* Appending is one to one.
LEMMA SnocApart ==
  ASSUME NEW m \in Nat, NEW n \in Nat, NEW s, NEW t, NEW x, NEW y, IsRow(s, m), IsRow(t, n),
         Grown(s, x) = Grown(t, y)
  PROVE  m = n /\ s = t /\ x = y
<1> DEFINE a == Grown(s, x)
           k == m + 1
           l == n + 1
<1>1. IsRow(a, k) /\ a[k] = x /\ \A i \in 1 .. m : a[i] = s[i]
  BY RowAppend
<1>2. IsRow(a, l) /\ a[l] = y /\ \A i \in 1 .. n : a[i] = t[i]
  BY RowAppend
<1>3. k \in Nat /\ l \in Nat
  OBVIOUS
<1> HIDE DEF a, k, l
<1>4. k = l
  <2>1. Len(a) = k /\ Len(a) = l
    BY <1>1, <1>2, <1>3, RowLen
  <2> QED BY <2>1
<1>5. m = n
  BY <1>4 DEF k, l
<1>6. s = t
  BY <1>1, <1>2, <1>5, RowEqual
<1> QED BY <1>1, <1>2, <1>4, <1>5, <1>6

\* VerifyProof accepts nothing but the data of the leaf with the proof that
\* Proof returns for it, whatever path of hashes it is given.
THEOREM VerifyUnique ==
  ASSUME NEW n \in Nat \ {0}, NEW t, TreeOK(t, n), NEW i \in Nat, i < n,
         NEW data, NEW x \in Nat, NEW path, IsRow(path, x),
         VerifyProof(data, i, n, path, Root(t))
  PROVE  t.leaves[i + 1] = LeafHash(data) /\ path = Proof(t, i)
<1> DEFINE L == t.leaves
           d == TreeDepth(n)
           root == Root(t)
<1>1. IsRow(L, n) /\ d \in Nat /\ Width(n, d) = 1 /\ root = Lev(L, d)[1]
  BY Depth, RootIsTop DEF TreeOK
<1>2. PICK R, len : RestsOf(R, len, Proof(t, i), L, n, i)
  BY ProofRests
<1>3. PICK h : /\ h[0] = VStart(data, n, path)
               /\ \A k \in 0 .. d - 1 : h[k + 1] = VStep(i, h[k], k)
               /\ VerifyProof(data, i, n, path, root) <=> (i < n /\ Accepts(h[d], root))
  BY <1>1, VerifyFold
<1>4. Accepts(h[d], root)
  BY <1>3
<1> HIDE DEF L, d, root
\* The shape of the loop's state.
<1> DEFINE Shape(a) == a = [ok |-> a.ok, n |-> a.n, rest |-> a.rest, hash |-> a.hash]
           Pre(k) == Shape(h[k]) /\ (h[k].ok => h[k].n = Width(n, k) /\ \E y \in Nat : IsRow(h[k].rest, y))
           S == {k \in Nat : k <= d => Pre(k)}
<1>5. 0 \in S
  <2>1. Width(n, 0) = n
    BY Blocks
  <2>2. h[0] = [ok |-> TRUE, n |-> n, rest |-> path, hash |-> LeafHash(data)]
    BY <1>3 DEF VStart
  <2>3. Pre(0)
    BY <2>1, <2>2
  <2> HIDE DEF Pre
  <2> QED BY <2>3
<1>6. ASSUME NEW k \in 0 .. d - 1
      PROVE  LET q == Quot(i, k)
                 c == Width(n, k)
                 acc == h[k]
             IN  /\ Promoted(q, acc.n) => h[k + 1] = [acc EXCEPT !.n = (acc.n + 1) \div 2]
                 /\ ~acc.ok => h[k + 1] = [acc EXCEPT !.n = (acc.n + 1) \div 2]
                 /\ acc.ok /\ ~Promoted(q, acc.n) /\ acc.rest = <<>> => h[k + 1] = [acc EXCEPT !.ok = FALSE]
                 /\ acc.ok /\ ~Promoted(q, acc.n) /\ acc.rest # <<>> =>
                      h[k + 1] = [ok |-> TRUE, n |-> (acc.n + 1) \div 2, rest |-> Tail(acc.rest),
                                  hash |-> IF q % 2 = 0 THEN NodeHash(acc.hash, Head(acc.rest))
                                           ELSE NodeHash(Head(acc.rest), acc.hash)]
  <2> DEFINE acc == h[k]
             end == h[k + 1]
             q == Quot(i, k)
  <2>1. end = VStep(i, acc, k)
    BY <1>3
  <2>2. end = IF ~acc.ok \/ Promoted(q, acc.n) THEN [acc EXCEPT !.n = (acc.n + 1) \div 2]
              ELSE IF acc.rest = <<>> THEN [acc EXCEPT !.ok = FALSE]
              ELSE [ok |-> TRUE, n |-> (acc.n + 1) \div 2, rest |-> Tail(acc.rest),
                    hash |-> IF q % 2 = 0 THEN NodeHash(acc.hash, Head(acc.rest))
                             ELSE NodeHash(Head(acc.rest), acc.hash)]
    BY <2>1, VStepIs, Zenon
  <2> HIDE DEF acc, end, q
  <2>3. /\ Promoted(q, acc.n) => end = [acc EXCEPT !.n = (acc.n + 1) \div 2]
        /\ ~acc.ok => end = [acc EXCEPT !.n = (acc.n + 1) \div 2]
        /\ acc.ok /\ ~Promoted(q, acc.n) /\ acc.rest = <<>> => end = [acc EXCEPT !.ok = FALSE]
        /\ acc.ok /\ ~Promoted(q, acc.n) /\ acc.rest # <<>> =>
             end = [ok |-> TRUE, n |-> (acc.n + 1) \div 2, rest |-> Tail(acc.rest),
                    hash |-> IF q % 2 = 0 THEN NodeHash(acc.hash, Head(acc.rest))
                             ELSE NodeHash(Head(acc.rest), acc.hash)]
    BY <2>2, Zenon
  <2> QED BY <2>3, Zenon DEF acc, end, q
<1>7. ASSUME NEW k \in S PROVE k + 1 \in S
  <2> SUFFICES ASSUME k + 1 <= d PROVE Pre(k + 1)
    OBVIOUS
  <2>1. k \in Nat /\ k \in 0 .. d - 1 /\ Pre(k)
    BY <1>1
  <2> HIDE DEF S
  <2> DEFINE q == Quot(i, k)
             c == Width(n, k)
             cc == Width(n, k + 1)
             acc == h[k]
             end == h[k + 1]
  <2>2. Shape(acc) /\ (acc.ok => acc.n = c /\ \E y \in Nat : IsRow(acc.rest, y))
    BY <2>1
  <2>3. cc = (c + 1) \div 2
    BY <2>1, Blocks
  <2>4. /\ Promoted(q, acc.n) => end = [acc EXCEPT !.n = (acc.n + 1) \div 2]
        /\ ~acc.ok => end = [acc EXCEPT !.n = (acc.n + 1) \div 2]
        /\ acc.ok /\ ~Promoted(q, acc.n) /\ acc.rest = <<>> => end = [acc EXCEPT !.ok = FALSE]
        /\ acc.ok /\ ~Promoted(q, acc.n) /\ acc.rest # <<>> =>
             end = [ok |-> TRUE, n |-> (acc.n + 1) \div 2, rest |-> Tail(acc.rest),
                    hash |-> IF q % 2 = 0 THEN NodeHash(acc.hash, Head(acc.rest))
                             ELSE NodeHash(Head(acc.rest), acc.hash)]
    BY <1>6, <2>1
  <2> HIDE DEF q, c, cc, acc, end
  <2>5. CASE Promoted(q, acc.n) \/ ~acc.ok
    <3>1. end = [acc EXCEPT !.n = (acc.n + 1) \div 2]
      BY <2>4, <2>5
    <3> DEFINE nn == (acc.n + 1) \div 2
    <3>2. end = [acc EXCEPT !.n = nn] /\ (acc.ok => nn = cc)
      BY <2>2, <2>3, <3>1
    <3> HIDE DEF nn
    <3>3. end = [ok |-> acc.ok, n |-> nn, rest |-> acc.rest, hash |-> acc.hash]
      BY <2>2, <3>2
    <3>4. Shape(end) /\ end.ok = acc.ok /\ end.n = nn /\ end.rest = acc.rest
      BY <3>3
    <3>5. end.ok => end.n = cc /\ \E y \in Nat : IsRow(end.rest, y)
      BY <2>2, <3>2, <3>4
    <3> QED BY <3>4, <3>5 DEF end, cc
  <2>6. CASE acc.ok /\ ~Promoted(q, acc.n) /\ acc.rest = <<>>
    <3>1. end = [acc EXCEPT !.ok = FALSE]
      BY <2>4, <2>6
    <3>2. end = [ok |-> FALSE, n |-> acc.n, rest |-> acc.rest, hash |-> acc.hash]
      BY <2>2, <3>1
    <3>3. Shape(end) /\ ~end.ok
      BY <3>2
    <3> QED BY <3>3 DEF end
  <2>7. CASE acc.ok /\ ~Promoted(q, acc.n) /\ acc.rest # <<>>
    <3> DEFINE hash == IF q % 2 = 0 THEN NodeHash(acc.hash, Head(acc.rest))
                       ELSE NodeHash(Head(acc.rest), acc.hash)
               nn == (acc.n + 1) \div 2
    <3>1. end = [ok |-> TRUE, n |-> nn, rest |-> Tail(acc.rest), hash |-> hash] /\ nn = cc
      BY <2>2, <2>3, <2>4, <2>7
    <3> HIDE DEF hash, nn
    <3>2. Shape(end) /\ end.n = cc /\ end.rest = Tail(acc.rest)
      BY <3>1
    <3>3. \E y \in Nat : IsRow(end.rest, y)
      <4>1. PICK y \in Nat : IsRow(acc.rest, y)
        BY <2>2, <2>7
      <4>2. y # 0
        BY <2>7, <4>1, RowEmpty
      <4>3. y - 1 \in Nat /\ IsRow(Tail(acc.rest), y - 1)
        <5>1. y \in Nat \ {0} /\ y - 1 \in Nat
          BY <4>2
        <5> QED BY <4>1, <5>1, RowTail
      <4> QED BY <3>2, <4>3
    <3> QED BY <3>2, <3>3 DEF end, cc
  <2> QED BY <2>5, <2>6, <2>7
<1>8. \A k \in 0 .. d : Pre(k)
  <2>1. \A k \in Nat : k \in S
    <3> HIDE DEF S
    <3>1. S \in SUBSET Nat
      BY DEF S
    <3> QED BY <1>5, <1>7, <3>1, NatClosed
  <2>2. \A k \in 0 .. d : k \in Nat /\ k <= d
    BY <1>1
  <2> HIDE DEF Pre
  <2> QED BY <2>1, <2>2
\* Down from the root: on every level the state is that of the true proof.
<1> DEFINE Match(k) == h[k].ok /\ h[k].rest = R[k] /\ h[k].hash = Lev(L, k)[Quot(i, k) + 1]
           T == {j \in Nat : j <= d => Match(d - j)}
<1>9. 0 \in T
  <2>1. Quot(i, d) = 0
    <3>1. Quot(i, d) \in Nat /\ Quot(i, d) < Width(n, d)
      BY <1>1, Halving, NodeInRow
    <3> QED BY <1>1, <3>1
  <2>2. R[d] = <<>>
    BY <1>2 DEF RestsOf, d
  <2>3. Match(d)
    BY <1>1, <1>4, <2>1, <2>2 DEF Accepts
  <2>4. d - 0 = d
    BY <1>1
  <2> HIDE DEF Match
  <2> QED BY <2>3, <2>4
<1>10. ASSUME NEW j \in T PROVE j + 1 \in T
  <2> SUFFICES ASSUME j + 1 <= d PROVE Match(d - (j + 1))
    OBVIOUS
  <2> DEFINE k == d - (j + 1)
  <2>1. k \in Nat /\ k \in 0 .. d - 1 /\ k \in 0 .. d /\ k + 1 = d - j /\ Match(k + 1)
    BY <1>1
  <2> HIDE DEF T, k
  <2> SUFFICES Match(k)
    BY DEF k
  <2> DEFINE q == Quot(i, k)
             c == Width(n, k)
             acc == h[k]
             end == h[k + 1]
             node == Lev(L, k)[q + 1]
             sib == Sib(L, n, i, k)[1]
             up == Lev(L, k + 1)[Quot(i, k + 1) + 1]
             rest == R[k]
             tail == R[k + 1]
             l == len[k]
  <2>2. end.ok /\ end.rest = tail /\ end.hash = up
    BY <2>1
  <2>3. Shape(acc) /\ (acc.ok => acc.n = c /\ \E y \in Nat : IsRow(acc.rest, y))
    BY <1>8, <2>1
  <2>4. /\ c \in Nat /\ Width(n, k + 1) = (c + 1) \div 2
        /\ HasSib(i, n, k) <=> ~Promoted(q, c)
        /\ Promoted(q, c) => up = node
        /\ ~Promoted(q, c) => up = IF q % 2 = 0 THEN NodeHash(node, sib) ELSE NodeHash(sib, node)
    <3>1. n \in Nat \ {0} /\ IsRow(L, n) /\ i \in Nat /\ i < n /\ k \in Nat
      BY <1>1, <2>1
    <3> HIDE DEF acc, end, rest, tail, l
    <3> QED BY <3>1, Climb
  <2>5. /\ l \in Nat /\ IsRow(rest, l)
        /\ HasSib(i, n, k) => l # 0 /\ Head(rest) = sib /\ Tail(rest) = tail
        /\ ~HasSib(i, n, k) => tail = rest
    BY <1>2, <2>1 DEF RestsOf, d
  <2>6. /\ Promoted(q, acc.n) => end = [acc EXCEPT !.n = (acc.n + 1) \div 2]
        /\ ~acc.ok => end = [acc EXCEPT !.n = (acc.n + 1) \div 2]
        /\ acc.ok /\ ~Promoted(q, acc.n) /\ acc.rest = <<>> => end = [acc EXCEPT !.ok = FALSE]
        /\ acc.ok /\ ~Promoted(q, acc.n) /\ acc.rest # <<>> =>
             end = [ok |-> TRUE, n |-> (acc.n + 1) \div 2, rest |-> Tail(acc.rest),
                    hash |-> IF q % 2 = 0 THEN NodeHash(acc.hash, Head(acc.rest))
                             ELSE NodeHash(Head(acc.rest), acc.hash)]
    BY <1>6, <2>1
  <2> SUFFICES acc.ok /\ acc.rest = rest /\ acc.hash = node
    OBVIOUS
  <2> HIDE DEF q, c, acc, end, node, sib, up, rest, tail, l
  <2> DEFINE nn == (acc.n + 1) \div 2
  <2>7. acc.ok
    <3> SUFFICES ASSUME ~acc.ok PROVE FALSE
      OBVIOUS
    <3>1. end = [acc EXCEPT !.n = nn]
      BY <2>6
    <3> HIDE DEF nn
    <3>2. end.ok = acc.ok
      BY <2>3, <3>1
    <3> QED BY <2>2, <3>2
  <2>8. CASE Promoted(q, c)
    <3>1. end = [acc EXCEPT !.n = nn]
      BY <2>3, <2>6, <2>7, <2>8
    <3> HIDE DEF nn
    <3>2. end.rest = acc.rest /\ end.hash = acc.hash
      BY <2>3, <3>1
    <3> QED BY <2>2, <2>4, <2>5, <2>7, <2>8, <3>2
  <2>9. CASE ~Promoted(q, c)
    <3>1. ~Promoted(q, acc.n)
      BY <2>3, <2>7, <2>9
    <3>2. acc.rest # <<>>
      <4> SUFFICES ASSUME acc.rest = <<>> PROVE FALSE
        OBVIOUS
      <4>1. end = [acc EXCEPT !.ok = FALSE]
        BY <2>6, <2>7, <3>1
      <4>2. end.ok = FALSE
        BY <2>3, <4>1
      <4> QED BY <2>2, <4>2
    <3> DEFINE hash == IF q % 2 = 0 THEN NodeHash(acc.hash, Head(acc.rest))
                       ELSE NodeHash(Head(acc.rest), acc.hash)
    <3>3. end = [ok |-> TRUE, n |-> nn, rest |-> Tail(acc.rest), hash |-> hash]
      BY <2>6, <2>7, <3>1, <3>2
    <3> HIDE DEF nn, hash
    <3>4. Tail(acc.rest) = tail /\ hash = up
      BY <2>2, <3>3
    <3>5. acc.hash = node /\ Head(acc.rest) = sib
      <4>1. CASE q % 2 = 0
        <5>1. NodeHash(acc.hash, Head(acc.rest)) = NodeHash(node, sib)
          BY <2>4, <2>9, <3>4, <4>1, Zenon DEF hash
        <5> QED BY <5>1, HashesApart
      <4>2. CASE ~(q % 2 = 0)
        <5>1. NodeHash(Head(acc.rest), acc.hash) = NodeHash(sib, node)
          BY <2>4, <2>9, <3>4, <4>2, Zenon DEF hash
        <5> QED BY <5>1, HashesApart
      <4> QED BY <4>1, <4>2
    <3>6. acc.rest = rest
      <4>1. PICK y \in Nat : IsRow(acc.rest, y)
        BY <2>3, <2>7
      <4>2. y # 0
        BY <3>2, <4>1, RowEmpty
      <4>3. l # 0 /\ Head(rest) = sib /\ Tail(rest) = tail
        BY <2>4, <2>5, <2>9
      <4> DEFINE a == acc.rest
      <4>4. /\ y \in Nat \ {0} /\ l \in Nat \ {0} /\ IsRow(a, y) /\ IsRow(rest, l)
            /\ Head(a) = Head(rest) /\ Tail(a) = Tail(rest)
        BY <2>5, <3>4, <3>5, <4>1, <4>2, <4>3
      <4> HIDE DEF a
      <4>5. a = rest
        BY <4>4, HeadTail
      <4> QED BY <4>5 DEF a
    <3> QED BY <2>7, <3>5, <3>6
  <2> QED BY <2>8, <2>9
<1>11. Match(0)
  <2>1. d \in T
    <3> HIDE DEF T
    <3>1. T \in SUBSET Nat
      BY DEF T
    <3> QED BY <1>1, <1>9, <1>10, <3>1, NatClosed
  <2>2. d - d = 0 /\ d <= d
    BY <1>1
  <2> HIDE DEF Match
  <2> QED BY <2>1, <2>2
<1>12. h[0].rest = path /\ h[0].hash = LeafHash(data)
  BY <1>3 DEF VStart
<1>13. Lev(L, 0) = L /\ Quot(i, 0) = i /\ R[0] = Proof(t, i)
  BY <1>2, LevStep, Halving DEF RestsOf
<1> QED BY <1>11, <1>12, <1>13 DEF L

\* The two runs that RFC 6962 splits a run of data into.
LEMMA SplitRun ==
  ASSUME NEW N \in Nat, NEW n \in 0 .. N, n > 1, NEW i \in 0 .. N - n
  PROVE  LET p == Split(n) IN
         /\ p \in Nat /\ p >= 1 /\ p < n /\ n <= 2 * p
         /\ p \in 0 .. N /\ i \in 0 .. N - p
         /\ n - p \in 0 .. N /\ n - p >= 1 /\ n - p < n /\ i + p \in 0 .. N - (n - p)
<1> DEFINE p == Split(n)
<1>1. p \in Nat /\ p >= 1 /\ p < n /\ n <= 2 * p
  <2>1. n \in Nat
    OBVIOUS
  <2>2. PICK e \in Nat : Split(n) = 2^e /\ 2^e \in Nat /\ 2^e >= 1 /\ 2^e < n /\ n <= 2 * 2^e
    BY <2>1, SplitPart
  <2> DEFINE y == 2^e
  <2>3. p = y /\ y \in Nat /\ y >= 1 /\ y < n /\ n <= 2 * y
    BY <2>2
  <2> HIDE DEF p, y
  <2> QED BY <2>3
<1> HIDE DEF p
<1>2. /\ p \in 0 .. N /\ i \in 0 .. N - p
      /\ n - p \in 0 .. N /\ n - p >= 1 /\ n - p < n /\ i + p \in 0 .. N - (n - p)
  BY <1>1
<1> QED BY <1>1, <1>2 DEF p

\* The hash of a run is that of two.
LEMMA HashSplit ==
  ASSUME NEW N \in Nat, NEW D, IsRow(D, N), NEW n \in 0 .. N, NEW i \in 0 .. N - n
  PROVE  LET H == RunHashes(D)
             p == Split(n)
         IN  /\ n = 1 => H[n][i] = LeafHash(D[i + 1])
             /\ n > 1 => H[n][i] = NodeHash(H[p][i], H[n - p][i + p])
<1> DEFINE H == RunHashes(D)
           p == Split(n)
<1>1. H[n][i] = IF n = 0 THEN ZeroHash
                ELSE IF n = 1 THEN LeafHash(D[i + 1])
                ELSE NodeHash(H[p][i], H[n - p][i + p])
  BY HashSteps
<1> HIDE DEF H, p
<1>2. (n = 1 => n # 0) /\ (n > 1 => n # 0 /\ n # 1)
  OBVIOUS
<1>3. /\ n = 1 => H[n][i] = LeafHash(D[i + 1])
      /\ n > 1 => H[n][i] = NodeHash(H[p][i], H[n - p][i + p])
  BY <1>1, <1>2, Zenon
<1> QED BY <1>3 DEF H, p

\* A hash tells how many leaves it is over.
LEMMA HashSize ==
  ASSUME NEW N \in Nat, NEW D, IsRow(D, N)
  PROVE  \A a, b \in 1 .. N : \A i \in 0 .. N - a, j \in 0 .. N - b :
           RunHashes(D)[a][i] = RunHashes(D)[b][j] => a = b
<1> DEFINE H == RunHashes(D)
           P(a) == \A b \in 1 .. N : \A i \in 0 .. N - a, j \in 0 .. N - b :
                     H[a][i] = H[b][j] => a = b
           S == {k \in Nat : \A a \in 1 .. N : a <= k => P(a)}
<1>1. 0 \in S
  <2>1. \A a \in 1 .. N : ~(a <= 0)
    OBVIOUS
  <2> HIDE DEF P
  <2> QED BY <2>1
<1>2. ASSUME NEW k \in S PROVE k + 1 \in S
  <2> SUFFICES ASSUME NEW a \in 1 .. N, a <= k + 1 PROVE P(a)
    <3> HIDE DEF P
    <3> QED OBVIOUS
  <2>1. k \in Nat /\ \A c \in 1 .. N : c <= k => P(c)
    <3> HIDE DEF P
    <3> QED OBVIOUS
  <2> SUFFICES ASSUME NEW b \in 1 .. N, NEW i \in 0 .. N - a, NEW j \in 0 .. N - b, H[a][i] = H[b][j]
               PROVE  a = b
    OBVIOUS
  <2> HIDE DEF S
  <2> DEFINE p == Split(a)
             q == Split(b)
  <2>2. a \in 0 .. N /\ b \in 0 .. N
    OBVIOUS
  <2>3. /\ a = 1 => H[a][i] = LeafHash(D[i + 1])
        /\ a > 1 => H[a][i] = NodeHash(H[p][i], H[a - p][i + p])
    BY <2>2, HashSplit
  <2>4. /\ b = 1 => H[b][j] = LeafHash(D[j + 1])
        /\ b > 1 => H[b][j] = NodeHash(H[q][j], H[b - q][j + q])
    BY <2>2, HashSplit
  <2>5. a > 1 => /\ p \in Nat /\ p >= 1 /\ p < a /\ i \in 0 .. N - p
                 /\ a - p >= 1 /\ a - p < a /\ i + p \in 0 .. N - (a - p)
    BY <2>2, SplitRun
  <2>6. b > 1 => /\ q \in Nat /\ q >= 1 /\ q < b /\ j \in 0 .. N - q
                 /\ b - q >= 1 /\ b - q < b /\ j + q \in 0 .. N - (b - q)
    BY <2>2, SplitRun
  <2>7. H[a][i] = H[b][j]
    OBVIOUS
  <2> HIDE DEF p, q, H, P
  <2>8. CASE a = 1 /\ b = 1
    BY <2>8
  <2>9. CASE a = 1 /\ b > 1
    <3>1. LeafHash(D[i + 1]) = NodeHash(H[q][j], H[b - q][j + q])
      BY <2>3, <2>4, <2>7, <2>9
    <3> QED BY <3>1, HashesApart
  <2>10. CASE a > 1 /\ b = 1
    <3>1. LeafHash(D[j + 1]) = NodeHash(H[p][i], H[a - p][i + p])
      BY <2>3, <2>4, <2>7, <2>10
    <3> QED BY <3>1, HashesApart
  <2>11. CASE a > 1 /\ b > 1
    <3> DEFINE x == a - p
               y == b - q
               u == i + p
               v == j + q
    <3>1. NodeHash(H[p][i], H[x][u]) = NodeHash(H[q][j], H[y][v])
      BY <2>3, <2>4, <2>7, <2>11
    <3>2. H[p][i] = H[q][j] /\ H[x][u] = H[y][v]
      <4> HIDE DEF x, y, u, v
      <4> QED BY <3>1, HashesApart
    <3>3. /\ p \in 1 .. N /\ p <= k /\ x \in 1 .. N /\ x <= k
          /\ q \in 1 .. N /\ y \in 1 .. N
          /\ i \in 0 .. N - p /\ u \in 0 .. N - x /\ j \in 0 .. N - q /\ v \in 0 .. N - y
      BY <2>1, <2>5, <2>6, <2>11
    <3>4. P(p) /\ P(x)
      BY <2>1, <3>3
    <3>5. a = p + x /\ b = q + y
      BY <2>5, <2>6, <2>11
    <3> HIDE DEF x, y, u, v
    <3>6. p = q
      BY <3>2, <3>3, <3>4 DEF P
    <3>7. x = y
      BY <3>2, <3>3, <3>4 DEF P
    <3> QED BY <3>5, <3>6, <3>7
  <2> QED BY <2>8, <2>9, <2>10, <2>11
<1>3. N \in S
  <2> HIDE DEF S
  <2>1. S \in SUBSET Nat
    BY DEF S
  <2> QED BY <1>1, <1>2, <2>1, NatClosed
<1>4. \A a \in 1 .. N : P(a)
  <2>1. \A a \in 1 .. N : a <= N
    OBVIOUS
  <2> HIDE DEF P
  <2> QED BY <1>3, <2>1
<1> QED BY <1>4

\* Audit paths are rows.
LEMMA PathRows ==
  ASSUME NEW N \in Nat, NEW D, IsRow(D, N), NEW m \in Nat
  PROVE  \A n \in 0 .. N : \A i \in 0 .. N - n : \E l \in Nat : IsRow(RunPaths(D, m)[n][i], l)
<1> DEFINE H == RunHashes(D)
           R == RunPaths(D, m)
           P(n) == \A i \in 0 .. N - n : \E l \in Nat : IsRow(R[n][i], l)
           S == {k \in Nat : \A n \in 0 .. N : n <= k => P(n)}
<1>1. ASSUME NEW n \in 0 .. N, n <= 1 PROVE P(n)
  <2> SUFFICES ASSUME NEW i \in 0 .. N - n PROVE \E l \in Nat : IsRow(R[n][i], l)
    OBVIOUS
  <2>1. R[n][i] = <<>>
    BY <1>1, PathSteps
  <2> HIDE DEF R
  <2> QED BY <2>1, EmptyRow
<1>2. 0 \in S
  <2>1. \A n \in 0 .. N : n <= 0 => n <= 1
    OBVIOUS
  <2> HIDE DEF P
  <2> QED BY <1>1, <2>1
<1>3. ASSUME NEW k \in S PROVE k + 1 \in S
  <2> SUFFICES ASSUME NEW n \in 0 .. N, n <= k + 1 PROVE P(n)
    <3> HIDE DEF P
    <3> QED OBVIOUS
  <2>1. k \in Nat /\ \A c \in 0 .. N : c <= k => P(c)
    <3> HIDE DEF P
    <3> QED OBVIOUS
  <2> HIDE DEF S
  <2>2. CASE n > 1
    <3> SUFFICES ASSUME NEW i \in 0 .. N - n PROVE \E l \in Nat : IsRow(R[n][i], l)
      OBVIOUS
    <3> DEFINE p == Split(n)
    <3>1. /\ p \in Nat /\ p \in 0 .. N /\ p < n /\ i \in 0 .. N - p
          /\ n - p \in 0 .. N /\ n - p < n /\ i + p \in 0 .. N - (n - p)
      BY <2>2, SplitRun
    <3>2. /\ m < i + p => R[n][i] = Grown(R[p][i], H[n - p][i + p])
          /\ ~(m < i + p) => R[n][i] = Grown(R[n - p][i + p], H[p][i])
      BY <2>2, PathSteps
    <3> HIDE DEF p, R, H, P
    <3>3. P(p) /\ P(n - p)
      <4>1. p <= k /\ n - p <= k
        BY <2>1, <3>1
      <4> QED BY <2>1, <3>1, <4>1
    <3>4. PICK x \in Nat : IsRow(R[p][i], x)
      BY <3>1, <3>3 DEF P
    <3>5. PICK y \in Nat : IsRow(R[n - p][i + p], y)
      BY <3>1, <3>3 DEF P
    <3>6. IsRow(Grown(R[p][i], H[n - p][i + p]), x + 1)
      BY <3>4, RowAppend
    <3>7. IsRow(Grown(R[n - p][i + p], H[p][i]), y + 1)
      BY <3>5, RowAppend
    <3>8. x + 1 \in Nat /\ y + 1 \in Nat
      OBVIOUS
    <3> QED BY <3>2, <3>6, <3>7, <3>8, Zenon
  <2>3. n <= 1 \/ n > 1
    OBVIOUS
  <2> HIDE DEF P
  <2> QED BY <1>1, <2>2, <2>3
<1>4. N \in S
  <2> HIDE DEF S
  <2>1. S \in SUBSET Nat
    BY DEF S
  <2> QED BY <1>2, <1>3, <2>1, NatClosed
<1>5. \A n \in 0 .. N : P(n)
  <2>1. \A n \in 0 .. N : n <= N
    OBVIOUS
  <2> HIDE DEF P
  <2> QED BY <1>4, <2>1
<1> QED BY <1>5

\* One leaf more is split at the same place, or where all the others end.
LEMMA SplitNext ==
  ASSUME NEW n \in Nat, n > 1
  PROVE  LET p == Split(n) IN
         \/ n + 1 <= 2 * p /\ Split(n + 1) = p
         \/ n = 2 * p /\ Split(n + 1) = n
<1>1. PICK e \in Nat : Split(n) = 2^e /\ 2^e \in Nat /\ 2^e >= 1 /\ 2^e < n /\ n <= 2 * 2^e
  BY SplitPart
<1> DEFINE p == 2^e
           m == n + 1
<1>2. m \in Nat /\ m = n + 1 /\ e + 1 \in Nat /\ 2^(e + 1) = 2 * p
  BY Powers
<1>3. p \in Nat /\ p >= 1 /\ p < n /\ n <= 2 * p /\ Split(n) = p
  BY <1>1
<1>4. CASE m <= 2 * p
  <2>1. p < m
    <3> HIDE DEF p, m
    <3> QED BY <1>2, <1>3
  <2>2. Split(m) = p
    <3> HIDE DEF m
    <3> QED BY <1>2, <1>4, <2>1, SplitPower
  <2> HIDE DEF p
  <2> QED BY <1>3, <1>4, <2>2
<1>5. CASE ~(m <= 2 * p)
  <2> HIDE DEF p, m
  <2>1. n = 2 * p /\ 2^(e + 1) = n /\ 2^(e + 1) < m /\ m <= 2 * 2^(e + 1)
    <3>1. n = 2 * p
      BY <1>2, <1>3, <1>5
    <3>2. n < m /\ m <= 2 * n
      BY <1>2, <1>3
    <3> QED BY <1>2, <3>1, <3>2
  <2>2. Split(m) = n
    <3> DEFINE f == e + 1
    <3>1. f \in Nat /\ 2^f < m /\ m <= 2 * 2^f /\ 2^f = n
      BY <1>2, <2>1
    <3> HIDE DEF f
    <3>2. Split(m) = 2^f
      BY <1>2, <3>1, SplitPower
    <3> QED BY <3>1, <3>2
  <2> QED BY <1>2, <1>3, <2>1, <2>2
<1> QED BY <1>4, <1>5

\* The audit path of a leaf changes with every leaf added behind it.
LEMMA PathGrows ==
  ASSUME NEW N \in Nat, NEW D, IsRow(D, N), NEW m \in Nat
  PROVE  \A n \in 1 .. N - 1 : \A i \in 0 .. N - (n + 1) :
           i <= m /\ m < i + n => RunPaths(D, m)[n][i] # RunPaths(D, m)[n + 1][i]
<1> DEFINE H == RunHashes(D)
           R == RunPaths(D, m)
           P(n) == \A i \in 0 .. N - (n + 1) : i <= m /\ m < i + n => R[n][i] # R[n + 1][i]
           S == {k \in Nat : \A n \in 1 .. N - 1 : n <= k => P(n)}
<1>1. 0 \in S
  <2>1. \A n \in 1 .. N - 1 : ~(n <= 0)
    OBVIOUS
  <2> HIDE DEF P
  <2> QED BY <2>1
<1>2. ASSUME NEW k \in S PROVE k + 1 \in S
  <2> SUFFICES ASSUME NEW n \in 1 .. N - 1, n <= k + 1 PROVE P(n)
    <3> HIDE DEF P
    <3> QED OBVIOUS
  <2>1. k \in Nat /\ \A c \in 1 .. N - 1 : c <= k => P(c)
    <3> HIDE DEF P
    <3> QED OBVIOUS
  <2> SUFFICES ASSUME NEW i \in 0 .. N - (n + 1), i <= m, m < i + n, R[n][i] = R[n + 1][i]
               PROVE  FALSE
    OBVIOUS
  <2> HIDE DEF S
  <2> DEFINE b == n + 1
             p == Split(n)
             q == Split(b)
  <2>2. /\ n \in Nat /\ n \in 0 .. N /\ i \in 0 .. N - n /\ n >= 1
        /\ b \in 0 .. N /\ i \in 0 .. N - b /\ b > 1 /\ b = n + 1 /\ R[n][i] = R[b][i]
    OBVIOUS
  <2> HIDE DEF b
  <2>3. /\ q \in Nat /\ q >= 1 /\ q < b /\ q \in 0 .. N /\ i \in 0 .. N - q
        /\ b - q \in 0 .. N /\ b - q >= 1 /\ i + q \in 0 .. N - (b - q)
    BY <2>2, SplitRun
  <2>4. /\ m < i + q => R[b][i] = Grown(R[q][i], H[b - q][i + q])
        /\ ~(m < i + q) => R[b][i] = Grown(R[b - q][i + q], H[q][i])
    BY <2>2, PathSteps
  <2>5. n > 1 => /\ p \in Nat /\ p >= 1 /\ p < n /\ n <= 2 * p /\ p \in 0 .. N /\ i \in 0 .. N - p
                 /\ n - p \in 0 .. N /\ n - p >= 1 /\ n - p < n /\ i + p \in 0 .. N - (n - p)
    BY <2>2, SplitRun
  <2>6. /\ n <= 1 => R[n][i] = <<>>
        /\ n > 1 /\ m < i + p => R[n][i] = Grown(R[p][i], H[n - p][i + p])
        /\ n > 1 /\ ~(m < i + p) => R[n][i] = Grown(R[n - p][i + p], H[p][i])
    BY <2>2, PathSteps
  <2>7. n > 1 => (b <= 2 * p /\ q = p) \/ (n = 2 * p /\ q = n)
    <3> SUFFICES ASSUME n > 1 PROVE (b <= 2 * p /\ q = p) \/ (n = 2 * p /\ q = n)
      OBVIOUS
    <3>1. (n + 1 <= 2 * p /\ Split(n + 1) = p) \/ (n = 2 * p /\ Split(n + 1) = n)
      BY <2>2, SplitNext
    <3> HIDE DEF p
    <3> QED BY <2>2, <3>1
  <2>8. \A c \in 0 .. N : \A j \in 0 .. N - c : \E l \in Nat : IsRow(R[c][j], l)
    BY PathRows
  <2>9. \A x, y \in 1 .. N : \A j \in 0 .. N - x, l \in 0 .. N - y : H[x][j] = H[y][l] => x = y
    BY HashSize
  <2> HIDE DEF p, q, R, H, P
  <2>10. CASE n <= 1
    <3>1. PICK x \in Nat : IsRow(R[q][i], x)
      BY <2>3, <2>8
    <3>2. PICK y \in Nat : IsRow(R[b - q][i + q], y)
      BY <2>3, <2>8
    <3>3. \E z \in Nat \ {0} : IsRow(<<>>, z)
      <4>1. IsRow(Grown(R[q][i], H[b - q][i + q]), x + 1)
        BY <3>1, RowAppend
      <4>2. IsRow(Grown(R[b - q][i + q], H[q][i]), y + 1)
        BY <3>2, RowAppend
      <4>3. R[b][i] = <<>>
        BY <2>2, <2>6, <2>10
      <4>4. x + 1 \in Nat \ {0} /\ y + 1 \in Nat \ {0}
        OBVIOUS
      <4> QED BY <2>4, <4>1, <4>2, <4>3, <4>4, Zenon
    <3>4. PICK z \in Nat \ {0} : IsRow(<<>>, z)
      BY <3>3
    <3> DEFINE e == <<>>
    <3>5. IsRow(e, 0) /\ IsRow(e, z) /\ 0 \in Nat /\ z \in Nat /\ z # 0
      BY <3>4, EmptyRow
    <3> HIDE DEF e
    <3>6. Len(e) = 0 /\ Len(e) = z
      BY <3>5, RowLen
    <3> QED BY <3>5, <3>6
  <2>11. CASE n > 1 /\ q = p /\ m < i + p
    <3> DEFINE s == R[p][i]
               v == n - p
               w == b - p
               j == i + p
    <3>1. v \in 1 .. N /\ w \in 1 .. N /\ v # w /\ j \in 0 .. N - v /\ j \in 0 .. N - w
      BY <2>2, <2>3, <2>5, <2>11
    <3>2. PICK x \in Nat : IsRow(s, x)
      BY <2>5, <2>8, <2>11
    <3>3. Grown(s, H[v][j]) = Grown(s, H[w][j])
      BY <2>2, <2>4, <2>6, <2>11, Zenon
    <3> HIDE DEF s, v, w, j
    <3> DEFINE a == H[v][j]
               c == H[w][j]
    <3>4. a = c
      <4> HIDE DEF a, c
      <4>1. Grown(s, a) = Grown(s, c)
        BY <3>3 DEF a, c
      <4> QED BY <3>2, <4>1, SnocApart
    <3> QED BY <2>9, <3>1, <3>4
  <2>12. CASE n > 1 /\ q = p /\ ~(m < i + p)
    <3> DEFINE v == n - p
               w == b - p
               j == i + p
               s == R[v][j]
               t == R[w][j]
    <3>1. /\ v \in 0 .. N /\ w \in 0 .. N /\ j \in 0 .. N - v /\ j \in 0 .. N - w /\ w = v + 1
          /\ v \in 1 .. N - 1 /\ j \in 0 .. N - (v + 1) /\ v <= k /\ j <= m /\ m < j + v
      BY <2>1, <2>2, <2>3, <2>5, <2>12
    <3>2. PICK x \in Nat : IsRow(s, x)
      <4> HIDE DEF v, w, j
      <4> QED BY <2>8, <3>1
    <3>3. PICK y \in Nat : IsRow(t, y)
      <4> HIDE DEF v, w, j
      <4> QED BY <2>8, <3>1
    <3>4. Grown(s, H[p][i]) = Grown(t, H[p][i])
      BY <2>2, <2>4, <2>6, <2>12, Zenon
    <3> HIDE DEF v, w, j
    <3>5. s = t
      <4> HIDE DEF s, t
      <4> QED BY <3>2, <3>3, <3>4, SnocApart
    <3>6. P(v)
      BY <2>1, <3>1
    <3>7. R[v][j] # R[v + 1][j]
      BY <3>1, <3>6 DEF P
    <3> QED BY <3>1, <3>5, <3>7
  <2>13. CASE n > 1 /\ q = n
    <3>1. m < i + q
      BY <2>13
    <3> DEFINE s == R[n][i]
    <3>2. PICK x \in Nat : IsRow(s, x)
      BY <2>2, <2>8
    <3>3. s = Grown(s, H[b - q][i + q])
      BY <2>2, <2>4, <2>13, <3>1
    <3> HIDE DEF s
    <3>4. IsRow(s, x + 1)
      BY <3>2, <3>3, RowAppend
    <3>5. x + 1 \in Nat /\ x # x + 1
      OBVIOUS
    <3> DEFINE z == x + 1
    <3>6. z \in Nat /\ IsRow(s, z) /\ x # z
      BY <3>4, <3>5
    <3> HIDE DEF z
    <3>7. Len(s) = x /\ Len(s) = z
      BY <3>2, <3>6, RowLen
    <3> QED BY <3>6, <3>7
  <2>14. n <= 1 \/ n > 1
    BY <2>2
  <2> QED BY <2>7, <2>10, <2>11, <2>12, <2>13, <2>14
<1>3. N \in S
  <2> HIDE DEF S
  <2>1. S \in SUBSET Nat
    BY DEF S
  <2> QED BY <1>1, <1>2, <2>1, NatClosed
<1>4. \A n \in 1 .. N - 1 : P(n)
  <2>1. \A n \in 1 .. N - 1 : n <= N
    OBVIOUS
  <2> HIDE DEF P
  <2> QED BY <1>3, <2>1
<1> QED BY <1>4

(***************************************************************************)
(* The transparency log, with state of its own: with every fault allowed,  *)
(* the entry of a receipt stays in the log at its index.  A recovery from  *)
(* an old head makes the tree hand out indices that are taken; the UNIQUE  *)
(* leaf_index turns each of these appends into an error, so that the entry *)
(* an append reports is always the one that is stored.                     *)
(***************************************************************************)
\* Between its two inserts an append has its entry in the table.
AppendStored ==
  append.phase = "head" =>
    append.index \in DOMAIN entries /\ entries[append.index] = append.entry

\* The inductive invariant.
LogInv == AppendStored /\ ReceiptsKept

\* Stored entries stay where they are.
EntriesStay ==
  \A i \in DOMAIN entries : i \in DOMAIN entries' /\ entries'[i] = entries[i]

\* Inserting at a free key keeps what the table had.
LEMMA InsertFree ==
  ASSUME NEW table, NEW key, NEW value
  PROVE  LET new == Insert(table, key, value) IN
         /\ key \in DOMAIN new /\ new[key] = value
         /\ \A k \in DOMAIN table : k # key => k \in DOMAIN new /\ new[k] = table[k]
BY DEF Insert

\* The empty log satisfies the invariant.
LEMMA InitLog == LogInit => LogInv
BY DEF LogInit, LogInv, AppendStored, ReceiptsKept, Free

\* No step removes or replaces a stored entry.
LEMMA NextEntries ==
  ASSUME [LogNext]_logVars
  PROVE  EntriesStay
<1>1. CASE InsertLogEntry
  <2>1. \/ entries' = entries
        \/ /\ append.index \notin DOMAIN entries
           /\ entries' = Insert(entries, append.index, append.entry)
    BY <1>1 DEF InsertLogEntry
  <2> QED BY <2>1, InsertFree DEF EntriesStay
<1>2. CASE UNCHANGED entries
  BY <1>2 DEF EntriesStay
<1> QED
  BY <1>1, <1>2
     DEF LogNext, AppendToTree, InsertTreeHead, Restart, GetLogEntriesByPubKey, ReadRoot,
         ReadPath, Respond, logVars

\* Every step preserves the invariant.
LEMMA NextLog ==
  ASSUME LogInv, [LogNext]_logVars
  PROVE  LogInv'
<1>1. EntriesStay
  BY NextEntries
<1>2. ASSUME UNCHANGED receipts
      PROVE  ReceiptsKept'
  BY <1>1, <1>2 DEF LogInv, ReceiptsKept, EntriesStay
<1>3. ASSUME NEW e \in Entries, AppendToTree(e)
      PROVE  LogInv'
  BY <1>2, <1>3 DEF AppendToTree, LogInv, AppendStored
<1>4. CASE InsertLogEntry
  <2>1. AppendStored'
    <3>1. CASE append' = Free
      BY <3>1 DEF AppendStored, Free
    <3>2. CASE /\ entries' = Insert(entries, append.index, append.entry)
               /\ append' = [append EXCEPT !.phase = "head"]
      <4>1. append'.index = append.index /\ append'.entry = append.entry
        BY <3>2
      <4>2. append.index \in DOMAIN entries' /\ entries'[append.index] = append.entry
        BY <3>2, InsertFree
      <4> QED BY <4>1, <4>2 DEF AppendStored
    <3> QED BY <1>4, <3>1, <3>2 DEF InsertLogEntry
  <2> QED BY <1>2, <1>4, <2>1 DEF InsertLogEntry, LogInv
<1>5. CASE InsertTreeHead
  <2>1. append.index \in DOMAIN entries /\ entries[append.index] = append.entry
    BY <1>5 DEF InsertTreeHead, LogInv, AppendStored
  <2> DEFINE r == [entry |-> append.entry, index |-> append.index, size |-> tree.size,
                   root |-> Root(tree), path |-> Proof(tree, append.index)]
  <2>2. r.entry = append.entry /\ r.index = append.index
    OBVIOUS
  <2>3. receipts' = receipts \cup {r} /\ entries' = entries /\ append' = Free
    BY <1>5 DEF InsertTreeHead
  <2> HIDE DEF r
  <2>4. ReceiptsKept'
    BY <2>1, <2>2, <2>3 DEF LogInv, ReceiptsKept
  <2>5. AppendStored'
    BY <2>3 DEF AppendStored, Free
  <2> QED BY <2>4, <2>5 DEF LogInv
<1>6. CASE Restart
  <2>1. AppendStored'
    BY <1>6 DEF Restart, AppendStored, Free
  <2> QED BY <1>2, <1>6, <2>1 DEF Restart, LogInv
<1>7. CASE UNCHANGED <<append, entries, receipts>>
  BY <1>7 DEF LogInv, AppendStored, ReceiptsKept
<1> QED
  BY <1>3, <1>4, <1>5, <1>6, <1>7
     DEF LogNext, GetLogEntriesByPubKey, ReadRoot, ReadPath, Respond, logVars

\* An entry that AppendEntry has acknowledged stays in the log at the index of
\* the receipt, through failed inserts, lost tree heads, crashes and recovery
\* (AppendEntry, InsertTransparencyLogEntry, RecoverFromDB).
THEOREM ReceiptsAreKept == LogSpec => []ReceiptsKept
<1>1. LogInv => ReceiptsKept
  BY DEF LogInv
<1> QED BY <1>1, InitLog, NextLog, PTL DEF LogSpec

\* The tree of the first n entries of a table E: LogTree with the table as a
\* parameter.
TreeOf(E, n) == LeavesOver(NewMerkleTree, [i \in 1 .. n |-> E[i - 1]])

\* LogTree is the tree of the entries table.
LEMMA LogTreeIsTreeOf == \A n : LogTree(n) = TreeOf(entries, n)
BY Zenon DEF LogTree, TreeOf, LeavesOver

\* Only the first n entries matter.
LEMMA TreeOfAgree ==
  ASSUME NEW n \in Nat, NEW E, NEW F, \A i \in 0 .. n - 1 : E[i] = F[i]
  PROVE  TreeOf(E, n) = TreeOf(F, n)
<1>1. \A i \in 1 .. n : E[i - 1] = F[i - 1]
  <2> TAKE i \in 1 .. n
  <2>1. i - 1 \in 0 .. n - 1
    OBVIOUS
  <2> QED BY <2>1
<1>2. [i \in 1 .. n |-> E[i - 1]] = [i \in 1 .. n |-> F[i - 1]]
  BY <1>1
<1> QED BY <1>2, Zenon DEF TreeOf

\* One more entry is one more Append.
LEMMA TreeOfStep ==
  ASSUME NEW E, NEW n \in Nat
  PROVE  TreeOf(E, 0) = NewMerkleTree /\ TreeOf(E, n + 1) = Append1(TreeOf(E, n), E[n])
<1> DEFINE s(m) == [i \in 1 .. m |-> E[i - 1]]
<1>0. ASSUME NEW m \in Nat PROVE IsRow(s(m), m) /\ \A i \in 1 .. m : s(m)[i] = E[i - 1]
  BY DEF IsRow
<1>1. TreeOf(E, 0) = NewMerkleTree
  <2> DEFINE t == s(0)
  <2>1. IsRow(t, 0) /\ 0 \in Nat
    BY <1>0
  <2>2. TreeOf(E, 0) = LeavesOver(NewMerkleTree, t)
    BY Zenon DEF TreeOf
  <2> HIDE DEF t
  <2>3. PICK h : Appended(h, NewMerkleTree, t, 0)
    BY <2>1, AppendFold
  <2> QED BY <2>2, <2>3 DEF Appended
<1>2. TreeOf(E, n + 1) = Append1(TreeOf(E, n), E[n])
  <2> DEFINE t == s(n)
             u == s(n + 1)
  <2>1. /\ IsRow(t, n) /\ IsRow(u, n + 1) /\ n + 1 \in Nat
        /\ (\A i \in 1 .. n : t[i] = E[i - 1]) /\ (\A i \in 1 .. n + 1 : u[i] = E[i - 1])
    BY <1>0
  <2>2. TreeOf(E, n) = LeavesOver(NewMerkleTree, t) /\ TreeOf(E, n + 1) = LeavesOver(NewMerkleTree, u)
    BY Zenon DEF TreeOf
  <2> HIDE DEF t, u
  <2>3. PICK g : Appended(g, NewMerkleTree, t, n)
    BY <2>1, AppendFold
  <2> DEFINE m == n + 1
  <2>4. PICK h : Appended(h, NewMerkleTree, u, m)
    <3>1. m \in Nat /\ IsRow(u, m)
      BY <2>1
    <3> HIDE DEF m
    <3> QED BY <3>1, AppendFold
  <2> USE DEF Appended
  <2> DEFINE S == {k \in Nat : k <= n => g[k] = h[k]}
  <2>5. 0 \in S
    BY <2>3, <2>4
  <2>6. ASSUME NEW k \in S PROVE k + 1 \in S
    <3> SUFFICES ASSUME k + 1 <= n PROVE g[k + 1] = h[k + 1]
      OBVIOUS
    <3>1. k \in 0 .. n - 1 /\ k \in 0 .. m - 1 /\ g[k] = h[k] /\ k + 1 \in 1 .. n /\ k + 1 \in 1 .. n + 1
      OBVIOUS
    <3>2. t[k + 1] = u[k + 1]
      BY <2>1, <3>1
    <3> QED BY <2>3, <2>4, <3>1, <3>2
  <2>7. n \in S
    <3> HIDE DEF S
    <3>1. S \in SUBSET Nat
      BY DEF S
    <3> QED BY <2>5, <2>6, <3>1, NatClosed
  <2>8. h[n + 1] = Append1(h[n], u[n + 1])
    BY <2>4
  <2>9. u[n + 1] = E[n]
    BY <2>1
  <2> QED BY <2>2, <2>3, <2>4, <2>7, <2>8, <2>9
<1> QED BY <1>1, <1>2

\* The tree of n entries is a tree over their hashes.
LEMMA TreeOfOK ==
  ASSUME NEW E, NEW n \in Nat
  PROVE  TreeOK(TreeOf(E, n), n) /\ \A i \in 1 .. n : TreeOf(E, n).leaves[i] = LeafHash(E[i - 1])
<1> DEFINE P(m) == TreeOK(TreeOf(E, m), m) /\ \A i \in 1 .. m : TreeOf(E, m).leaves[i] = LeafHash(E[i - 1])
           S == {m \in Nat : P(m)}
<1>1. 0 \in S
  BY TreeOfStep, EmptyOK
<1>2. ASSUME NEW m \in S PROVE m + 1 \in S
  <2> DEFINE t == TreeOf(E, m)
             u == TreeOf(E, m + 1)
             leaf == LeafHash(E[m])
  <2>1. m \in Nat /\ TreeOK(t, m) /\ \A i \in 1 .. m : t.leaves[i] = LeafHash(E[i - 1])
    OBVIOUS
  <2>2. u = Append1(t, E[m])
    BY TreeOfStep
  <2> HIDE DEF t, u, S
  <2>3. TreeOK(u, m + 1) /\ u.leaves = Grown(t.leaves, leaf)
    BY <2>1, <2>2, AppendOK DEF Grown
  <2> HIDE DEF leaf
  <2>4. IsRow(t.leaves, m)
    BY <2>1 DEF TreeOK
  <2>5. u.leaves[m + 1] = leaf /\ \A i \in 1 .. m : u.leaves[i] = t.leaves[i]
    BY <2>1, <2>3, <2>4, RowAppend
  <2>6. ASSUME NEW i \in 1 .. m + 1 PROVE u.leaves[i] = LeafHash(E[i - 1])
    <3>1. CASE i = m + 1
      <4>1. i - 1 = m
        BY <2>1, <3>1
      <4> QED BY <2>5, <3>1, <4>1 DEF leaf
    <3>2. CASE i # m + 1
      <4>1. i \in 1 .. m
        BY <2>1, <3>2
      <4> QED BY <2>1, <2>5, <4>1
    <3> QED BY <3>1, <3>2
  <2>7. P(m + 1)
    BY <2>3, <2>6 DEF u
  <2> QED BY <2>1, <2>7 DEF S
<1>3. n \in S
  <2> HIDE DEF S
  <2>1. S \in SUBSET Nat
    BY DEF S
  <2> QED BY <1>1, <1>2, <2>1, NatClosed
<1> QED BY <1>3

(***************************************************************************)
(* The log while nothing failed.                                           *)
(***************************************************************************)
\* How many entries and how many heads are stored: all, except while an
\* append is between its steps.
EntriesStored == IF append.phase = "entry" THEN append.index ELSE tree.size
HeadsStored == IF append.phase = "free" THEN tree.size ELSE append.index

\* The append that holds the mutex has grown the tree by its entry.
AppendShape ==
  /\ tree.size \in Nat
  /\ append = [phase |-> append.phase, entry |-> append.entry, index |-> append.index]
  /\ append.phase \in {"free", "entry", "head"}
  /\ append.phase # "free" => append.index \in Nat /\ tree.size = append.index + 1

\* No index and no size is missing, and a head is the fringe of its entries.
TableShape ==
  /\ DOMAIN entries = 0 .. EntriesStored - 1
  /\ DOMAIN heads = 1 .. HeadsStored
  /\ \A m \in 1 .. HeadsStored : heads[m] = TreeOf(entries, m).fringe

\* The tree against the table, in every phase of an append.
TreeShape ==
  /\ append.phase = "free" => tree = TreeOf(entries, tree.size)
  /\ append.phase = "entry" => tree = Append1(TreeOf(entries, append.index), append.entry)
  /\ append.phase = "head" => /\ tree = TreeOf(entries, tree.size)
                              /\ entries[append.index] = append.entry

\* What a receipt, and what a proof of a reader, was made from.
ReceiptOf(r, E, n) ==
  /\ r.index \in Nat /\ r.size = r.index + 1 /\ r.size <= n
  /\ r.entry = E[r.index]
  /\ r.root = Root(TreeOf(E, r.size))
  /\ r.path = Proof(TreeOf(E, r.size), r.index)
ProofOf(f, E, n) ==
  /\ f.index \in Nat /\ f.at \in Nat /\ f.index < f.at /\ f.at <= n
  /\ f.entry = E[f.index]
  /\ f.path = Proof(TreeOf(E, f.at), f.index)
ReaderOf(q, E, n) ==
  /\ q = [pc |-> q.pc, found |-> q.found, root |-> q.root, size |-> q.size, proofs |-> q.proofs]
  /\ q.found \subseteq 0 .. n - 1
  /\ q.pc = "paths" => q.size \in Nat /\ q.size <= n /\ q.root = Root(TreeOf(E, q.size))
  /\ q.pc # "paths" => q.proofs = {}
  /\ \A f \in q.proofs : ProofOf(f, E, n)

\* The invariant of a log in which nothing has failed.
CleanInv ==
  /\ AppendShape
  /\ TableShape
  /\ TreeShape
  /\ \A r \in receipts : ReceiptOf(r, entries, EntriesStored)
  /\ reader = [p \in Readers |-> reader[p]]
  /\ \A p \in Readers : ReaderOf(reader[p], entries, EntriesStored)

\* The inductive invariant: the log is clean until something fails.
CleanLog == faults = {} => CleanInv

\* Receipts and proofs stay what they are when entries are added.
LEMMA MoreEntries ==
  ASSUME NEW n \in Nat, NEW m \in Nat, n <= m, NEW E, NEW F, \A i \in 0 .. n - 1 : F[i] = E[i]
  PROVE  /\ \A r : ReceiptOf(r, E, n) => ReceiptOf(r, F, m)
         /\ \A q : ReaderOf(q, E, n) => ReaderOf(q, F, m)
<1>1. ASSUME NEW k \in Nat, k <= n PROVE TreeOf(F, k) = TreeOf(E, k)
  <2>1. \A i \in 0 .. k - 1 : F[i] = E[i]
    BY <1>1
  <2> QED BY <2>1, TreeOfAgree
<1>2. ASSUME NEW r, ReceiptOf(r, E, n) PROVE ReceiptOf(r, F, m)
  <2>1. r.index \in Nat /\ r.size \in Nat /\ r.size <= n /\ r.index \in 0 .. n - 1 /\ r.size <= m
    BY <1>2 DEF ReceiptOf
  <2>2. TreeOf(F, r.size) = TreeOf(E, r.size) /\ F[r.index] = E[r.index]
    BY <1>1, <2>1
  <2> QED BY <1>2, <2>1, <2>2 DEF ReceiptOf
<1>3. ASSUME NEW f, ProofOf(f, E, n) PROVE ProofOf(f, F, m)
  <2>1. f.index \in Nat /\ f.at \in Nat /\ f.at <= n /\ f.index \in 0 .. n - 1 /\ f.at <= m
    BY <1>3 DEF ProofOf
  <2>2. TreeOf(F, f.at) = TreeOf(E, f.at) /\ F[f.index] = E[f.index]
    BY <1>1, <2>1
  <2> QED BY <1>3, <2>1, <2>2 DEF ProofOf
<1>4. ASSUME NEW q, ReaderOf(q, E, n) PROVE ReaderOf(q, F, m)
  <2>1. q.found \subseteq 0 .. m - 1
    BY <1>4 DEF ReaderOf
  <2>2. q.pc = "paths" => q.size \in Nat /\ q.size <= m /\ q.root = Root(TreeOf(F, q.size))
    <3> SUFFICES ASSUME q.pc = "paths"
                 PROVE  q.size \in Nat /\ q.size <= m /\ q.root = Root(TreeOf(F, q.size))
      OBVIOUS
    <3>1. q.size \in Nat /\ q.size <= n /\ q.root = Root(TreeOf(E, q.size))
      BY <1>4 DEF ReaderOf
    <3>2. TreeOf(F, q.size) = TreeOf(E, q.size)
      BY <1>1, <3>1
    <3> QED BY <3>1, <3>2
  <2> QED BY <1>3, <1>4, <2>1, <2>2 DEF ReaderOf
<1> QED BY <1>2, <1>4

\* The leaf hashes of a gapless table are the leaves of its tree.
LEMMA LeafHashesOfTable ==
  ASSUME NEW n \in Nat, DOMAIN entries = 0 .. n - 1
  PROVE  GetAllLeafHashes = TreeOf(entries, n).leaves
<1> DEFINE D == DOMAIN entries
           Before(k) == Cardinality({j \in D : j < k})
           Nth(i) == CHOOSE k \in D : Before(k) = i - 1
           t == TreeOf(entries, n)
<1>1. ASSUME NEW k \in D PROVE Before(k) = k
  <2>1. {j \in D : j < k} = 0 .. k - 1 /\ k \in Nat
    OBVIOUS
  <2>2. Cardinality(0 .. k - 1) = k
    <3>1. 0 \in Int /\ k - 1 \in Int
      BY <2>1
    <3>2. Cardinality(0 .. k - 1) = IF 0 > k - 1 THEN 0 ELSE (k - 1) - 0 + 1
      BY <3>1, FS_Interval
    <3> QED BY <2>1, <3>2
  <2> QED BY <2>1, <2>2
<1>2. Cardinality(D) = n
  <2>1. 0 \in Int /\ n - 1 \in Int
    OBVIOUS
  <2>2. Cardinality(0 .. n - 1) = IF 0 > n - 1 THEN 0 ELSE (n - 1) - 0 + 1
    BY <2>1, FS_Interval
  <2> QED BY <2>2
<1>3. ASSUME NEW i \in 1 .. n PROVE Nth(i) = i - 1
  <2>1. i - 1 \in D
    OBVIOUS
  <2>2. \A k \in D : k \in Nat
    OBVIOUS
  <2> HIDE DEF Before, D
  <2>3. Before(i - 1) = i - 1
    BY <1>1, <2>1
  <2>4. Nth(i) \in D /\ Before(Nth(i)) = i - 1
    BY <2>1, <2>3
  <2>5. Before(Nth(i)) = Nth(i)
    BY <1>1, <2>4
  <2> QED BY <2>4, <2>5
<1>4. GetAllLeafHashes = [i \in 1 .. n |-> LeafHash(entries[Nth(i)])]
  <2>1. GetAllLeafHashes = [i \in 1 .. Cardinality(D) |-> LeafHash(entries[Nth(i)])]
    BY Zenon DEF GetAllLeafHashes
  <2> HIDE DEF D, Nth
  <2> QED BY <1>2, <2>1
<1> HIDE DEF Nth
<1>5. GetAllLeafHashes = [i \in 1 .. n |-> LeafHash(entries[i - 1])]
  BY <1>3, <1>4
<1>6. TreeOK(t, n) /\ \A i \in 1 .. n : t.leaves[i] = LeafHash(entries[i - 1])
  BY TreeOfOK
<1>7. IsRow(t.leaves, n)
  BY <1>6 DEF TreeOK
<1> HIDE DEF t
<1>8. t.leaves = [i \in 1 .. n |-> LeafHash(entries[i - 1])]
  BY <1>6, <1>7 DEF IsRow
<1> QED BY <1>5, <1>8 DEF t

\* Recovery from tables of the same length without gaps gives the tree of the
\* table.
LEMMA RecoveredTree ==
  ASSUME NEW n \in Nat, DOMAIN entries = 0 .. n - 1, DOMAIN heads = 1 .. n,
         \A m \in 1 .. n : heads[m] = TreeOf(entries, m).fringe
  PROVE  RecoverFromDB = TreeOf(entries, n)
<1>1. CASE n = 0
  <2>1. DOMAIN heads = {}
    BY <1>1
  <2> QED BY <1>1, <2>1, TreeOfStep DEF RecoverFromDB
<1>2. CASE n # 0
  <2> DEFINE size == CHOOSE k \in DOMAIN heads : \A m \in DOMAIN heads : m <= k
  <2>1. size = n
    <3> DEFINE D == DOMAIN heads
    <3>1. D = 1 .. n /\ n \in D
      BY <1>2
    <3>2. size = CHOOSE k \in D : \A m \in D : m <= k
      OBVIOUS
    <3> HIDE DEF D, size
    <3>3. \A m \in D : m <= n
      BY <3>1
    <3>4. \A k \in D : (\A m \in D : m <= k) => k = n
      <4> TAKE k \in D
      <4> HAVE \A m \in D : m <= k
      <4>1. n <= k /\ k <= n /\ k \in Nat
        BY <3>1
      <4> QED BY <4>1
    <3> QED BY <3>1, <3>2, <3>3, <3>4
  <2>2. RecoverFromDB = SetLeaves(FromFringe(heads[size], size), GetAllLeafHashes)
    <3>1. DOMAIN heads # {}
      <4>1. 1 \in 1 .. n
        BY <1>2
      <4> QED BY <4>1
    <3> QED BY <3>1, Zenon DEF RecoverFromDB
  <2> HIDE DEF size
  <2> DEFINE t == TreeOf(entries, n)
  <2>3. t = [leaves |-> t.leaves, fringe |-> t.fringe, size |-> n]
    BY TreeOfOK DEF TreeOK
  <2>4. heads[n] = t.fringe
    BY <1>2
  <2>5. GetAllLeafHashes = t.leaves
    BY LeafHashesOfTable
  <2> HIDE DEF t
  <2>6. RecoverFromDB = [leaves |-> t.leaves, fringe |-> t.fringe, size |-> n]
    BY <2>1, <2>2, <2>4, <2>5 DEF SetLeaves, FromFringe
  <2> QED BY <2>3, <2>6 DEF t
<1> QED BY <1>1, <1>2

\* A request that is not running is consistent with every table.
LEMMA QuietOf == \A E, n : ReaderOf(Quiet, E, n)
BY DEF ReaderOf, Quiet

\* The empty log is clean.
LEMMA InitClean == LogInit => CleanInv
<1> SUFFICES ASSUME LogInit PROVE CleanInv
  OBVIOUS
<1>1. /\ tree = NewMerkleTree /\ append = Free /\ entries = <<>> /\ heads = <<>>
      /\ receipts = {} /\ reader = [p \in Readers |-> Quiet]
  BY DEF LogInit
<1>2. tree.size = 0 /\ append.phase = "free" /\ AppendShape
  BY <1>1 DEF NewMerkleTree, Free, AppendShape
<1>3. EntriesStored = 0 /\ HeadsStored = 0
  BY <1>2 DEF EntriesStored, HeadsStored
<1>4. TableShape
  <2>1. DOMAIN entries = 0 .. 0 - 1 /\ DOMAIN heads = 1 .. 0
    BY <1>1
  <2>2. \A m \in 1 .. 0 : heads[m] = TreeOf(entries, m).fringe
    OBVIOUS
  <2> QED BY <1>3, <2>1, <2>2 DEF TableShape
<1>5. TreeShape
  BY <1>1, <1>2, TreeOfStep DEF TreeShape
<1>6. \A p \in Readers : ReaderOf(reader[p], entries, EntriesStored)
  BY <1>1, QuietOf
<1> QED BY <1>1, <1>2, <1>4, <1>5, <1>6 DEF CleanInv

\* How much is stored, while nothing failed.
LEMMA StoredSizes ==
  ASSUME CleanInv
  PROVE  /\ tree.size \in Nat /\ EntriesStored \in Nat /\ HeadsStored \in Nat
         /\ append.phase = "free" => EntriesStored = tree.size /\ HeadsStored = tree.size
         /\ append.phase = "entry" => /\ append.index \in Nat
                                      /\ EntriesStored = append.index /\ HeadsStored = append.index
         /\ append.phase = "head" => /\ append.index \in Nat /\ EntriesStored = append.index + 1
                                     /\ EntriesStored = tree.size /\ HeadsStored = append.index
<1>1. AppendShape
  BY DEF CleanInv
<1>2. /\ tree.size \in Nat
      /\ append.phase \in {"free", "entry", "head"}
      /\ append.phase # "free" => append.index \in Nat /\ tree.size = append.index + 1
  BY <1>1 DEF AppendShape
<1> QED BY <1>2 DEF EntriesStored, HeadsStored

\* Receipts and requests are still right when no stored entry changes.
LEMMA HandedOutKept ==
  ASSUME CleanInv, NEW m \in Nat, EntriesStored <= m,
         \A i \in 0 .. EntriesStored - 1 : entries'[i] = entries[i]
  PROVE  /\ \A r \in receipts : ReceiptOf(r, entries', m)
         /\ \A p \in Readers : ReaderOf(reader[p], entries', m)
<1> DEFINE n == EntriesStored
           E == entries
           F == entries'
<1>1. n \in Nat /\ n <= m /\ \A i \in 0 .. n - 1 : F[i] = E[i]
  BY StoredSizes
<1>2. /\ \A r \in receipts : ReceiptOf(r, E, n)
      /\ \A p \in Readers : ReaderOf(reader[p], E, n)
  BY DEF CleanInv
<1> HIDE DEF n, E, F
<1>3. /\ \A r : ReceiptOf(r, E, n) => ReceiptOf(r, F, m)
      /\ \A q : ReaderOf(q, E, n) => ReaderOf(q, F, m)
  BY <1>1, MoreEntries
<1> QED BY <1>2, <1>3 DEF F

\* AppendToTree.
LEMMA CleanAppend ==
  ASSUME CleanInv, NEW e, AppendToTree(e)
  PROVE  CleanInv'
<1> DEFINE n == tree.size
<1>1. append.phase = "free" /\ n \in Nat /\ EntriesStored = n /\ HeadsStored = n
  BY StoredSizes DEF AppendToTree, Free
<1>2. /\ append' = [phase |-> "entry", entry |-> e, index |-> n]
      /\ tree' = Append1(tree, e)
      /\ entries' = entries /\ heads' = heads /\ receipts' = receipts /\ reader' = reader
  BY DEF AppendToTree
<1>3. append'.phase = "entry" /\ append'.index = n /\ append'.entry = e
  BY <1>2
<1>4. tree'.size = n + 1
  BY <1>2, Zenon DEF Append1
<1>5. tree = TreeOf(entries, n)
  BY <1>1 DEF CleanInv, TreeShape
<1> HIDE DEF n
<1>6. EntriesStored' = n /\ HeadsStored' = n
  BY <1>3 DEF EntriesStored, HeadsStored
<1>7. AppendShape'
  BY <1>1, <1>2, <1>3, <1>4 DEF AppendShape
<1>8. TableShape'
  BY <1>1, <1>2, <1>6 DEF CleanInv, TableShape
<1>9. TreeShape'
  BY <1>2, <1>3, <1>5 DEF TreeShape
<1>10. /\ \A r \in receipts : ReceiptOf(r, entries', n)
       /\ \A p \in Readers : ReaderOf(reader[p], entries', n)
  BY <1>1, <1>2 DEF CleanInv
<1> QED BY <1>2, <1>6, <1>7, <1>8, <1>9, <1>10 DEF CleanInv

\* InsertLogEntry.
LEMMA CleanInsertEntry ==
  ASSUME CleanInv, InsertLogEntry, faults' = {}
  PROVE  CleanInv'
<1> DEFINE k == append.index
           e == append.entry
<1>1. /\ append.phase = "entry" /\ k \in Nat /\ EntriesStored = k /\ HeadsStored = k
  BY StoredSizes DEF InsertLogEntry
<1>2. DOMAIN entries = 0 .. k - 1 /\ DOMAIN heads = 1 .. k
      /\ \A m \in 1 .. k : heads[m] = TreeOf(entries, m).fringe
  BY <1>1 DEF CleanInv, TableShape
<1>3. k \notin DOMAIN entries
  BY <1>1, <1>2
<1>4. /\ entries' = Insert(entries, k, e)
      /\ append' = [append EXCEPT !.phase = "head"]
      /\ tree' = tree /\ heads' = heads /\ receipts' = receipts /\ reader' = reader
  BY <1>3 DEF InsertLogEntry
<1>5. /\ tree.size = k + 1 /\ tree = Append1(TreeOf(entries, k), e)
      /\ append = [phase |-> append.phase, entry |-> e, index |-> k]
  BY <1>1 DEF CleanInv, AppendShape, TreeShape
<1> HIDE DEF k, e
<1>6. append' = [phase |-> "head", entry |-> e, index |-> k]
  BY <1>4, <1>5
<1>7. append'.phase = "head" /\ append'.entry = e /\ append'.index = k
  BY <1>6
<1>8. /\ DOMAIN entries' = 0 .. k /\ entries'[k] = e
      /\ \A i \in 0 .. k - 1 : entries'[i] = entries[i]
  <2> DEFINE D == DOMAIN entries
  <2>1. entries' = [i \in D \cup {k} |-> IF i = k THEN e ELSE entries[i]]
    BY <1>4, Zenon DEF Insert
  <2>2. D \cup {k} = 0 .. k /\ \A i \in 0 .. k - 1 : i # k /\ i \in D
    BY <1>1, <1>2
  <2> HIDE DEF D
  <2> QED BY <2>1, <2>2
<1>9. \A m \in 0 .. k : TreeOf(entries', m) = TreeOf(entries, m)
  <2> TAKE m \in 0 .. k
  <2>1. m \in Nat /\ \A i \in 0 .. m - 1 : entries'[i] = entries[i]
    BY <1>1, <1>8
  <2> QED BY <2>1, TreeOfAgree
<1>10. EntriesStored' = k + 1 /\ HeadsStored' = k
  BY <1>4, <1>5, <1>7 DEF EntriesStored, HeadsStored
<1>11. AppendShape'
  BY <1>1, <1>4, <1>5, <1>6, <1>7 DEF AppendShape
<1>12. TableShape'
  <2>1. DOMAIN entries' = 0 .. (k + 1) - 1 /\ DOMAIN heads' = 1 .. k
    BY <1>1, <1>2, <1>4, <1>8
  <2>2. \A m \in 1 .. k : heads'[m] = TreeOf(entries', m).fringe
    BY <1>1, <1>2, <1>4, <1>9
  <2> QED BY <1>10, <2>1, <2>2 DEF TableShape
<1>13. TreeShape'
  <2>1. TreeOf(entries', k) = TreeOf(entries, k)
    BY <1>1, <1>9
  <2>2. TreeOf(entries', k + 1) = Append1(TreeOf(entries', k), entries'[k])
    BY <1>1, TreeOfStep
  <2>3. tree' = TreeOf(entries', k + 1) /\ tree'.size = k + 1
    BY <1>4, <1>5, <1>8, <2>1, <2>2
  <2> QED BY <1>7, <1>8, <2>3 DEF TreeShape
<1>14. /\ \A r \in receipts : ReceiptOf(r, entries', k + 1)
       /\ \A p \in Readers : ReaderOf(reader[p], entries', k + 1)
  <2>1. k + 1 \in Nat /\ EntriesStored <= k + 1
        /\ \A i \in 0 .. EntriesStored - 1 : entries'[i] = entries[i]
    BY <1>1, <1>8
  <2> QED BY <2>1, HandedOutKept
<1>15. reader' = [p \in Readers |-> reader'[p]]
  BY <1>4 DEF CleanInv
<1> QED BY <1>4, <1>10, <1>11, <1>12, <1>13, <1>14, <1>15 DEF CleanInv

\* InsertTreeHead.
LEMMA CleanInsertHead ==
  ASSUME CleanInv, InsertTreeHead, faults' = {}
  PROVE  CleanInv'
<1> DEFINE k == append.index
           n == tree.size
           r == [entry |-> append.entry, index |-> k, size |-> n,
                 root |-> Root(tree), path |-> Proof(tree, k)]
<1>1. /\ append.phase = "head" /\ k \in Nat /\ n \in Nat /\ n = k + 1
      /\ EntriesStored = n /\ HeadsStored = k
  BY StoredSizes DEF InsertTreeHead
<1>2. /\ DOMAIN entries = 0 .. n - 1 /\ DOMAIN heads = 1 .. k
      /\ \A m \in 1 .. k : heads[m] = TreeOf(entries, m).fringe
  BY <1>1 DEF CleanInv, TableShape
<1>3. tree = TreeOf(entries, n) /\ entries[k] = append.entry
  BY <1>1 DEF CleanInv, TreeShape
<1>4. /\ heads' = Insert(heads, n, tree.fringe)
      /\ receipts' = receipts \cup {r} /\ append' = Free
      /\ tree' = tree /\ entries' = entries /\ reader' = reader
  BY DEF InsertTreeHead
<1>5. /\ r.entry = append.entry /\ r.index = k /\ r.size = n
      /\ r.root = Root(tree) /\ r.path = Proof(tree, k)
  OBVIOUS
<1> HIDE DEF k, n, r
<1>6. append'.phase = "free" /\ append' = [phase |-> "free", entry |-> append'.entry, index |-> append'.index]
  BY <1>4 DEF Free
<1>7. EntriesStored' = n /\ HeadsStored' = n
  BY <1>4, <1>6 DEF EntriesStored, HeadsStored, n
<1>8. AppendShape'
  BY <1>1, <1>4, <1>6 DEF AppendShape, n
<1>9. TableShape'
  <2> DEFINE D == DOMAIN heads
  <2>1. heads' = [m \in D \cup {n} |-> IF m = n THEN tree.fringe ELSE heads[m]]
    BY <1>4, Zenon DEF Insert
  <2>2. D \cup {n} = 1 .. n /\ \A m \in 1 .. n : m # n => m \in 1 .. k
    BY <1>1, <1>2
  <2>3. n \in 1 .. n
    BY <1>1
  <2> HIDE DEF D
  <2>4. DOMAIN heads' = 1 .. n
    BY <2>1, <2>2
  <2>5. \A m \in 1 .. n : heads'[m] = TreeOf(entries, m).fringe
    BY <1>2, <1>3, <2>1, <2>2
  <2> QED BY <1>2, <1>4, <1>7, <2>4, <2>5 DEF TableShape
<1>10. TreeShape'
  BY <1>3, <1>4, <1>6 DEF TreeShape, n
<1>11. /\ \A q \in receipts : ReceiptOf(q, entries, n)
       /\ \A p \in Readers : ReaderOf(reader[p], entries, n)
       /\ reader = [p \in Readers |-> reader[p]]
  BY <1>1 DEF CleanInv
<1>12. ReceiptOf(r, entries, n)
  BY <1>1, <1>3, <1>5 DEF ReceiptOf
<1> QED BY <1>4, <1>7, <1>8, <1>9, <1>10, <1>11, <1>12 DEF CleanInv

\* Restart: between the two inserts it would lose the head.
LEMMA CleanRestart ==
  ASSUME CleanInv, Restart, faults' = {}
  PROVE  CleanInv'
<1> DEFINE n == EntriesStored
<1>1. append.phase # "head"
  BY DEF Restart
<1>2. n \in Nat /\ EntriesStored = n /\ HeadsStored = n
  <2>1. append.phase \in {"free", "entry", "head"}
    BY DEF CleanInv, AppendShape
  <2> QED BY <1>1, <2>1, StoredSizes
<1>3. /\ DOMAIN entries = 0 .. n - 1 /\ DOMAIN heads = 1 .. n
      /\ \A m \in 1 .. n : heads[m] = TreeOf(entries, m).fringe
  BY <1>2 DEF CleanInv, TableShape
<1>4. /\ tree' = RecoverFromDB /\ append' = Free /\ reader' = [p \in Readers |-> Quiet]
      /\ entries' = entries /\ heads' = heads /\ receipts' = receipts
  BY DEF Restart
<1>5. \A q \in receipts : ReceiptOf(q, entries, n)
  BY DEF CleanInv
<1> HIDE DEF n
<1>6. tree' = TreeOf(entries, n)
  BY <1>2, <1>3, <1>4, RecoveredTree
<1>7. tree'.size = n
  BY <1>2, <1>6, TreeOfOK DEF TreeOK
<1>8. append'.phase = "free" /\ append' = [phase |-> "free", entry |-> append'.entry, index |-> append'.index]
  BY <1>4 DEF Free
<1>9. EntriesStored' = n /\ HeadsStored' = n
  BY <1>7, <1>8 DEF EntriesStored, HeadsStored
<1>10. AppendShape'
  BY <1>2, <1>7, <1>8 DEF AppendShape
<1>11. TableShape'
  BY <1>3, <1>4, <1>9 DEF TableShape
<1>12. TreeShape'
  BY <1>4, <1>6, <1>7, <1>8 DEF TreeShape
<1>13. /\ reader' = [p \in Readers |-> reader'[p]]
       /\ \A p \in Readers : ReaderOf(reader'[p], entries, n)
  BY <1>4, QuietOf
<1> QED BY <1>4, <1>5, <1>9, <1>10, <1>11, <1>12, <1>13 DEF CleanInv

\* A step of one proof request.
LEMMA CleanReader ==
  ASSUME CleanInv, NEW p \in Readers, NEW q, ReaderOf(q, entries, EntriesStored),
         reader' = [x \in Readers |-> IF x = p THEN q ELSE reader[x]],
         UNCHANGED <<tree, append, entries, heads, receipts>>
  PROVE  CleanInv'
<1>1. EntriesStored' = EntriesStored /\ HeadsStored' = HeadsStored
  BY DEF EntriesStored, HeadsStored
<1>2. AppendShape' /\ TableShape' /\ TreeShape'
  BY <1>1 DEF CleanInv, AppendShape, TableShape, TreeShape
<1>3. /\ reader' = [x \in Readers |-> reader'[x]]
      /\ \A x \in Readers : ReaderOf(reader'[x], entries, EntriesStored)
  BY DEF CleanInv
<1> QED BY <1>1, <1>2, <1>3 DEF CleanInv

\* The steps of GetProof.
LEMMA CleanGetProof ==
  ASSUME CleanInv, NEW p \in Readers,
         (\E k \in PubKeys : GetLogEntriesByPubKey(p, k)) \/ ReadRoot(p) \/ ReadPath(p) \/ Respond(p)
  PROVE  CleanInv'
<1> DEFINE n == EntriesStored
           old == reader[p]
           R(q) == [x \in Readers |-> IF x = p THEN q ELSE reader[x]]
<1>1. /\ n \in Nat /\ reader = [x \in Readers |-> reader[x]] /\ ReaderOf(old, entries, n)
      /\ DOMAIN entries = 0 .. n - 1
  BY StoredSizes DEF CleanInv, TableShape
<1>2. /\ old = [pc |-> old.pc, found |-> old.found, root |-> old.root, size |-> old.size,
                proofs |-> old.proofs]
      /\ old.found \subseteq 0 .. n - 1
      /\ old.pc = "paths" => old.size \in Nat /\ old.size <= n /\ old.root = Root(TreeOf(entries, old.size))
      /\ old.pc # "paths" => old.proofs = {}
      /\ \A f \in old.proofs : ProofOf(f, entries, n)
  BY <1>1 DEF ReaderOf
<1>3. append = Free => n = tree.size /\ tree = TreeOf(entries, n)
  BY StoredSizes DEF CleanInv, TreeShape, Free
<1>4. UNCHANGED <<tree, append, entries, heads, receipts>>
  BY DEF GetLogEntriesByPubKey, ReadRoot, ReadPath, Respond
<1>5. SUFFICES \E q : ReaderOf(q, entries, n) /\ reader' = R(q)
  <2>1. PICK q : ReaderOf(q, entries, n) /\ reader' = R(q)
    BY <1>5
  <2> QED BY <1>4, <2>1, CleanReader
<1> HIDE DEF n, old
<1>6. DOMAIN reader = Readers /\ reader[p] = old
  BY <1>1 DEF old
<1>7. ASSUME NEW q, DOMAIN reader' = Readers, reader' = [x \in Readers |-> reader'[x]],
              reader'[p] = q, \A x \in Readers \ {p} : reader'[x] = reader[x]
       PROVE  reader' = R(q)
  BY <1>7
<1>8. ASSUME NEW k \in PubKeys, GetLogEntriesByPubKey(p, k)
      PROVE  \E q : ReaderOf(q, entries, n) /\ reader' = R(q)
  <2> DEFINE found == {i \in DOMAIN entries : Owner[entries[i]] = k}
             q == [pc |-> "root", found |-> found, root |-> old.root, size |-> old.size,
                   proofs |-> old.proofs]
  <2>1. /\ old = Quiet
        /\ reader' = [reader EXCEPT ![p].pc = "root", ![p].found = found]
    BY <1>8 DEF GetLogEntriesByPubKey, old
  <2>2. found \subseteq 0 .. n - 1
    BY <1>1
  <2> HIDE DEF found
  <2>3. reader' = R(q)
    <3> DEFINE h == [reader EXCEPT ![p].pc = "root"]
    <3>a. /\ h[p] = [pc |-> "root", found |-> old.found, root |-> old.root, size |-> old.size,
                     proofs |-> old.proofs]
          /\ DOMAIN h = Readers /\ h = [x \in Readers |-> h[x]]
      BY <1>2, <1>6
    <3>b. reader' = [h EXCEPT ![p].found = found]
      BY <2>1
    <3> HIDE DEF h
    <3>1. reader'[p] = q
      BY <3>a, <3>b
    <3>2. /\ DOMAIN reader' = Readers /\ reader' = [x \in Readers |-> reader'[x]]
          /\ \A x \in Readers \ {p} : reader'[x] = reader[x]
      BY <1>6, <2>1
    <3> HIDE DEF q
    <3> QED BY <1>7, <3>1, <3>2
  <2>4. old.proofs = {}
    BY <2>1 DEF Quiet
  <2>5. ReaderOf(q, entries, n)
    BY <2>2, <2>4 DEF ReaderOf
  <2> QED BY <2>3, <2>5
<1>9. CASE ReadRoot(p)
  <2> DEFINE q == [pc |-> "paths", found |-> old.found, root |-> Root(tree), size |-> tree.size,
                   proofs |-> old.proofs]
  <2>1. /\ old.pc = "root" /\ append = Free
        /\ reader' = [reader EXCEPT ![p].pc = "paths", ![p].root = Root(tree), ![p].size = tree.size]
    BY <1>9 DEF ReadRoot, old
  <2>2. reader' = R(q)
    <3>1. reader'[p] = q
      BY <1>2, <1>6, <2>1
    <3>2. /\ DOMAIN reader' = Readers /\ reader' = [x \in Readers |-> reader'[x]]
          /\ \A x \in Readers \ {p} : reader'[x] = reader[x]
      BY <1>6, <2>1
    <3> HIDE DEF q
    <3> QED BY <1>7, <3>1, <3>2
  <2>3. ReaderOf(q, entries, n)
    <3>1. n = tree.size /\ Root(tree) = Root(TreeOf(entries, n)) /\ old.proofs = {}
      BY <1>2, <1>3, <2>1
    <3>2. /\ q.pc = "paths" /\ q.found = old.found /\ q.root = Root(tree) /\ q.size = tree.size
          /\ q.proofs = old.proofs
          /\ q = [pc |-> q.pc, found |-> q.found, root |-> q.root, size |-> q.size, proofs |-> q.proofs]
      OBVIOUS
    <3> HIDE DEF q
    <3> QED BY <1>1, <1>2, <3>1, <3>2 DEF ReaderOf
  <2> QED BY <2>2, <2>3
<1>10. CASE ReadPath(p)
  <2>1. PICK i \in old.found :
          /\ old.pc = "paths" /\ append = Free
          /\ reader' = [reader EXCEPT ![p].found = @ \ {i},
               ![p].proofs = @ \cup (IF i >= tree.size THEN {} ELSE
                  {[index |-> i, entry |-> entries[i], path |-> Proof(tree, i), at |-> tree.size]})]
    BY <1>10 DEF ReadPath, old
  <2> DEFINE f == [index |-> i, entry |-> entries[i], path |-> Proof(tree, i), at |-> tree.size]
             found == old.found \ {i}
             proofs == old.proofs \cup {f}
             q == [pc |-> old.pc, found |-> found, root |-> old.root, size |-> old.size, proofs |-> proofs]
  <2>2. n = tree.size /\ tree = TreeOf(entries, n) /\ i \in 0 .. n - 1
    BY <1>2, <1>3, <2>1
  <2>3. ~(i >= tree.size)
    BY <1>1, <2>2
  <2>4. f.index = i /\ f.entry = entries[i] /\ f.path = Proof(tree, i) /\ f.at = tree.size
    OBVIOUS
  <2>5. reader' = [reader EXCEPT ![p].found = @ \ {i}, ![p].proofs = @ \cup {f}]
    BY <2>1, <2>3
  <2> HIDE DEF f
  <2>6. reader' = R(q)
    <3>1. reader'[p] = q
      BY <1>2, <1>6, <2>5
    <3>2. /\ DOMAIN reader' = Readers /\ reader' = [x \in Readers |-> reader'[x]]
          /\ \A x \in Readers \ {p} : reader'[x] = reader[x]
      BY <1>6, <2>5
    <3> HIDE DEF q
    <3> QED BY <1>7, <3>1, <3>2
  <2>7. ProofOf(f, entries, n)
    <3>1. i \in Nat /\ n \in Nat /\ i < n /\ n <= n
      BY <1>1, <2>2
    <3>2. f.index = i /\ f.at = n /\ f.path = Proof(TreeOf(entries, n), i)
      BY <2>2, <2>4
    <3> QED BY <2>4, <3>1, <3>2 DEF ProofOf
  <2>8. \A g \in proofs : ProofOf(g, entries, n)
    BY <1>2, <2>7
  <2>9. found \subseteq 0 .. n - 1
    BY <1>2
  <2>10. /\ q.pc = old.pc /\ q.found = found /\ q.root = old.root /\ q.size = old.size
         /\ q.proofs = proofs
         /\ q = [pc |-> q.pc, found |-> q.found, root |-> q.root, size |-> q.size, proofs |-> q.proofs]
    OBVIOUS
  <2> HIDE DEF q, found, proofs
  <2>11. ReaderOf(q, entries, n)
    BY <1>2, <2>1, <2>8, <2>9, <2>10 DEF ReaderOf
  <2> QED BY <2>6, <2>11
<1>11. CASE Respond(p)
  <2>1. reader' = R(Quiet)
    BY <1>1, <1>11 DEF Respond
  <2> QED BY <2>1, QuietOf
<1> QED BY <1>8, <1>9, <1>10, <1>11

\* Every step of the log that leaves faults empty keeps the clean log clean.
LEMMA NextClean ==
  ASSUME CleanLog, [LogNext]_logVars
  PROVE  CleanLog'
<1> SUFFICES ASSUME faults' = {} PROVE CleanInv'
  BY DEF CleanLog
<1>1. faults = {}
  BY DEF LogNext, AppendToTree, InsertLogEntry, InsertTreeHead, Restart, GetLogEntriesByPubKey,
         ReadRoot, ReadPath, Respond, logVars
<1>2. CleanInv
  BY <1>1 DEF CleanLog
<1>3. CASE UNCHANGED logVars
  <2>1. UNCHANGED <<tree, append, entries, heads, receipts, reader>>
    BY <1>3 DEF logVars
  <2>2. EntriesStored' = EntriesStored /\ HeadsStored' = HeadsStored
    BY <2>1 DEF EntriesStored, HeadsStored
  <2>3. AppendShape' /\ TableShape' /\ TreeShape'
    BY <1>2, <2>1, <2>2 DEF CleanInv, AppendShape, TableShape, TreeShape
  <2> QED BY <1>2, <2>1, <2>2, <2>3 DEF CleanInv
<1> QED
  BY <1>2, <1>3, CleanAppend, CleanInsertEntry, CleanInsertHead, CleanRestart, CleanGetProof
     DEF LogNext

\* The proof of entry i in the tree of the first n entries.
LEMMA LogProofVerifies ==
  ASSUME NEW E, NEW n \in Nat, NEW i \in Nat, i < n
  PROVE  VerifyProof(E[i], i, n, Proof(TreeOf(E, n), i), Root(TreeOf(E, n)))
<1> DEFINE t == TreeOf(E, n)
<1>1. TreeOK(t, n) /\ \A j \in 1 .. n : t.leaves[j] = LeafHash(E[j - 1])
  BY TreeOfOK
<1> HIDE DEF t
<1>2. n \in Nat \ {0} /\ i + 1 \in 1 .. n /\ (i + 1) - 1 = i
  OBVIOUS
<1>3. t.leaves[i + 1] = LeafHash(E[i])
  BY <1>1, <1>2
<1>4. VerifyProof(E[i], i, n, Proof(t, i), Root(t))
  <2> DEFINE e == E[i]
  <2>1. t.leaves[i + 1] = LeafHash(e)
    BY <1>3
  <2> HIDE DEF e
  <2>2. VerifyProof(e, i, n, Proof(t, i), Root(t))
    BY <1>1, <1>2, <2>1, ProofVerifies
  <2> QED BY <2>2 DEF e
<1> QED BY <1>4 DEF t

\* A clean log is sound: the tree is the tree of the table, and what was
\* handed out verifies.
LEMMA CleanSound == CleanLog => SoundUnlessFaulted
<1> SUFFICES ASSUME CleanInv
             PROVE  /\ TreeMatchesLog
                    /\ \A r \in receipts : ReceiptCommits(r)
                    /\ \A p \in Readers : \A proof \in reader[p].proofs :
                         proof.at = reader[p].size => Verifies(p, proof)
  BY DEF CleanLog, SoundUnlessFaulted
<1> DEFINE n == EntriesStored
<1>1. n \in Nat /\ DOMAIN entries = 0 .. n - 1
  BY StoredSizes DEF CleanInv, TableShape
<1>2. TreeMatchesLog
  <2> SUFFICES ASSUME append = Free
               PROVE  DOMAIN entries = 0 .. tree.size - 1 /\ tree = LogTree(tree.size)
    BY DEF TreeMatchesLog
  <2>1. append.phase = "free"
    BY DEF Free
  <2>2. n = tree.size /\ tree = TreeOf(entries, tree.size)
    BY <2>1, StoredSizes DEF CleanInv, TreeShape
  <2> HIDE DEF n
  <2>3. LogTree(tree.size) = TreeOf(entries, tree.size)
    BY LogTreeIsTreeOf
  <2> QED BY <1>1, <2>2, <2>3
<1>3. ASSUME NEW r \in receipts PROVE ReceiptCommits(r)
  <2>1. ReceiptOf(r, entries, n)
    BY DEF CleanInv
  <2> HIDE DEF n
  <2>2. /\ r.index \in Nat /\ r.size \in Nat /\ r.index < r.size /\ r.size <= n
        /\ r.entry = entries[r.index] /\ r.root = Root(TreeOf(entries, r.size))
        /\ r.path = Proof(TreeOf(entries, r.size), r.index)
    BY <2>1 DEF ReceiptOf
  <2>3. VerifyProof(entries[r.index], r.index, r.size, Proof(TreeOf(entries, r.size), r.index),
                    Root(TreeOf(entries, r.size)))
    BY <2>2, LogProofVerifies
  <2>4. VerifyProof(r.entry, r.index, r.size, r.path, r.root)
    BY <2>2, <2>3
  <2>5. (0 .. r.size - 1) \subseteq DOMAIN entries
    BY <1>1, <2>2
  <2>6. r.root = Root(LogTree(r.size))
    BY <2>2, LogTreeIsTreeOf
  <2> QED BY <2>4, <2>5, <2>6 DEF ReceiptCommits
<1>4. ASSUME NEW p \in Readers, NEW proof \in reader[p].proofs, proof.at = reader[p].size
      PROVE  Verifies(p, proof)
  <2> DEFINE q == reader[p]
  <2>1. ReaderOf(q, entries, n)
    BY DEF CleanInv
  <2>2. proof \in q.proofs /\ proof.at = q.size
    BY <1>4
  <2> HIDE DEF n, q
  <2>3. q.size \in Nat /\ q.root = Root(TreeOf(entries, q.size)) /\ ProofOf(proof, entries, n)
    BY <2>1, <2>2 DEF ReaderOf
  <2>4. /\ proof.index \in Nat /\ proof.index < q.size /\ proof.entry = entries[proof.index]
        /\ proof.path = Proof(TreeOf(entries, q.size), proof.index)
    BY <2>2, <2>3 DEF ProofOf
  <2>5. VerifyProof(entries[proof.index], proof.index, q.size, Proof(TreeOf(entries, q.size), proof.index),
                    Root(TreeOf(entries, q.size)))
    BY <2>3, <2>4, LogProofVerifies
  <2>6. VerifyProof(proof.entry, proof.index, q.size, proof.path, q.root)
    BY <2>3, <2>4, <2>5
  <2> QED BY <2>6 DEF Verifies, q
<1> QED BY <1>2, <1>3, <1>4

\* As long as no insert failed and no crash fell between the two inserts, the
\* tree is the tree of the stored entries, through every number of appends and
\* restarts (RecoverFromDB), every receipt proves its entry against the stored
\* log (AppendEntry, Proof, VerifyProof), and so does every proof of GetProof
\* whose path was read at the size of its root.
THEOREM LogIsSound == LogSpec => []SoundUnlessFaulted
<1>1. LogInit => CleanLog
  BY InitClean DEF CleanLog
<1> QED BY <1>1, NextClean, CleanSound, PTL DEF LogSpec

(***************************************************************************)
(* The tree of everything that was appended, without the log: scenario     *)
(* "tree" of MCTransparencyLog for every number of leaves.                 *)
(***************************************************************************)

\* The tree built from a row of data.
LEMMA BuiltOK ==
  ASSUME NEW n \in Nat, NEW D, IsRow(D, n)
  PROVE  TreeOK(Built(D), n) /\ LeavesOf(Built(D).leaves, D, n)
<1> DEFINE E == [j \in 0 .. n - 1 |-> D[j + 1]]
           s == [i \in 1 .. n |-> E[i - 1]]
<1>1. \A i \in 1 .. n : E[i - 1] = D[i]
  <2> TAKE i \in 1 .. n
  <2>1. i - 1 \in 0 .. n - 1 /\ (i - 1) + 1 = i
    OBVIOUS
  <2> QED BY <2>1
<1>2. s = D
  <2> HIDE DEF E
  <2>1. s = [i \in 1 .. n |-> D[i]]
    BY <1>1
  <2> QED BY <2>1 DEF IsRow
<1>3. Built(D) = TreeOf(E, n)
  <2> HIDE DEF E
  <2>1. TreeOf(E, n) = LeavesOver(NewMerkleTree, s)
    BY Zenon DEF TreeOf
  <2> HIDE DEF s
  <2> QED BY <1>2, <2>1, Zenon DEF Built, LeavesOver
<1> HIDE DEF E, s
<1> DEFINE t == Built(D)
<1>4. TreeOK(t, n) /\ \A i \in 1 .. n : t.leaves[i] = LeafHash(E[i - 1])
  <2>1. TreeOK(TreeOf(E, n), n) /\ \A i \in 1 .. n : TreeOf(E, n).leaves[i] = LeafHash(E[i - 1])
    BY TreeOfOK
  <2> QED BY <1>3, <2>1
<1> HIDE DEF t
<1>5. LeavesOf(t.leaves, D, n)
  <2>1. IsRow(t.leaves, n)
    BY <1>4 DEF TreeOK
  <2> QED BY <1>1, <1>4, <2>1 DEF LeavesOf
<1> QED BY <1>4, <1>5 DEF t

\* What was appended is a row of data.
AddedInv == \E n \in Nat : IsRow(added, n)

\* Appending keeps it a row.
LEMMA AddedIsRow == TreeSpec => []AddedInv
<1>1. TreeInit => AddedInv
  BY EmptyRow DEF TreeInit, AddedInv
<1>2. AddedInv /\ [TreeNext]_added => AddedInv'
  <2> SUFFICES ASSUME AddedInv, [TreeNext]_added PROVE AddedInv'
    OBVIOUS
  <2>1. PICK n \in Nat : IsRow(added, n)
    BY DEF AddedInv
  <2>2. CASE TreeNext
    <3>1. PICK d \in Data : added' = Append(added, d)
      BY <2>2, Zenon DEF TreeNext, AppendLeaf
    <3> DEFINE s == added
               u == added'
    <3>2. u = Grown(s, d)
      BY <3>1, Zenon DEF Grown
    <3>3. n + 1 \in Nat /\ IsRow(s, n)
      BY <2>1
    <3> HIDE DEF s, u
    <3>4. IsRow(u, n + 1)
      BY <3>2, <3>3, RowAppend
    <3>5. \E k \in Nat : IsRow(u, k)
      BY <3>3, <3>4
    <3> QED BY <3>5 DEF AddedInv, u, IsRow
  <2>3. CASE UNCHANGED added
    BY <2>1, <2>3 DEF AddedInv, IsRow
  <2> QED BY <2>2, <2>3
<1> QED BY <1>1, <1>2, PTL DEF TreeSpec

\* Whatever data is appended (Append), Root is RFC 6962's Merkle tree hash of
\* all of it and Proof returns the audit path of every leaf.
THEOREM TreeMatchesRFC6962 == TreeSpec => []TreeIsRFC6962
<1>1. AddedInv => TreeIsRFC6962
  <2> SUFFICES ASSUME NEW n \in Nat, IsRow(added, n) PROVE TreeIsRFC6962
    BY DEF AddedInv
  <2> DEFINE D == added
             t == Built(D)
  <2>1. IsRow(D, n) /\ TreeOK(t, n) /\ LeavesOf(t.leaves, D, n)
    BY BuiltOK
  <2>2. t.size = n
    <3> HIDE DEF t
    <3> QED BY <2>1 DEF TreeOK
  <2>3. Root(t) = MTH(D)
    <3> HIDE DEF D, t
    <3> QED BY <2>1, RootIsMTH
  <2>4. ASSUME NEW m \in 0 .. n - 1 PROVE Proof(t, m) = PATH(m, D)
    <3> HIDE DEF D, t
    <3>1. n \in 1 .. n
      OBVIOUS
    <3>2. Proof(t, m) = RunPaths(D, m)[n][0]
      BY <2>1, <3>1, ProofIsPATH
    <3>3. Len(D) = n
      BY <2>1, RowLen
    <3> QED BY <3>2, <3>3, Zenon DEF PATH
  <2>5. \A m \in 0 .. t.size - 1 : Proof(t, m) = PATH(m, D)
    BY <2>2, <2>4
  <2> HIDE DEF t
  <2> QED BY <2>3, <2>5, Zenon DEF TreeIsRFC6962, t
<1> QED BY <1>1, AddedIsRow, PTL

\* The tree before the last append has the same data but the last.
LEMMA BeforeOK ==
  ASSUME NEW n \in Nat, NEW k \in Nat, n = k + 1, NEW D, IsRow(D, n)
  PROVE  TreeOK(Built(Front(D)), k) /\ LeavesOf(Built(Front(D)).leaves, D, k)
<1> DEFINE F == Front(D)
           b == Built(F)
<1>1. IsRow(F, k) /\ \A i \in 1 .. k : F[i] = D[i]
  <2>1. Len(D) = n
    BY RowLen
  <2>2. F = SubSeq(D, 1, n - 1)
    BY <2>1, Zenon DEF Front
  <2> DEFINE s == SubSeq(D, 1, k)
             one == 1
  <2>3. F = s
    <3>1. n - 1 = k
      OBVIOUS
    <3> QED BY <2>2, <3>1
  <2>4. one \in Nat \ {0} /\ one <= k + 1 /\ k <= n /\ k + 1 - one = k
        /\ \A i \in Nat : one + i - 1 = i
    OBVIOUS
  <2>5. s = SubSeq(D, one, k)
    OBVIOUS
  <2> HIDE DEF s, one
  <2>6. IsRow(s, k) /\ \A i \in 1 .. k : s[i] = D[i]
    <3>1. /\ IsRow(SubSeq(D, one, k), k + 1 - one)
          /\ \A i \in 1 .. (k + 1 - one) : SubSeq(D, one, k)[i] = D[one + i - 1]
      BY <2>4, RowSub
    <3>2. \A i \in 1 .. k : i \in 1 .. (k + 1 - one) /\ i \in Nat
      BY <2>4
    <3> QED BY <2>4, <2>5, <3>1, <3>2
  <2> QED BY <2>3, <2>6
<1> HIDE DEF F
<1>2. TreeOK(b, k) /\ LeavesOf(b.leaves, F, k)
  BY <1>1, BuiltOK
<1> HIDE DEF b
<1>3. LeavesOf(b.leaves, D, k)
  BY <1>1, <1>2 DEF LeavesOf
<1> QED BY <1>2, <1>3 DEF b, F

\* Whatever data is appended, VerifyProof accepts the proof of every leaf, does
\* not accept a proof of the tree with other data, and accepts no proof and root
\* of which one was read before the last append and the other after it.
THEOREM VerifyIsExact == TreeSpec => []VerifyExact
<1>1. AddedInv => VerifyExact
  <2> SUFFICES ASSUME NEW n \in Nat, IsRow(added, n) PROVE VerifyExact
    BY DEF AddedInv
  <2> DEFINE D == added
             t == Built(D)
             before == Built(Front(D))
  <2>1. IsRow(D, n) /\ TreeOK(t, n) /\ LeavesOf(t.leaves, D, n)
    BY BuiltOK
  <2>2. t.size = n
    <3> HIDE DEF t
    <3> QED BY <2>1 DEF TreeOK
  <2>3. ASSUME NEW m \in 0 .. n - 1
        PROVE  /\ Proof(t, m) = RunPaths(D, m)[n][0]
               /\ \E l \in Nat : IsRow(Proof(t, m), l)
    <3>1. n \in 1 .. n
      OBVIOUS
    <3> HIDE DEF D, t
    <3> QED BY <2>1, <3>1, ProofIsPATH
  <2>4. ASSUME NEW j \in 0 .. n - 1, NEW x PROVE t.leaves[j + 1] = LeafHash(x) <=> x = D[j + 1]
    <3>1. j + 1 \in 1 .. n
      OBVIOUS
    <3> HIDE DEF D, t
    <3>2. t.leaves[j + 1] = LeafHash(D[j + 1])
      BY <2>1, <3>1 DEF LeavesOf
    <3> QED BY <3>2, HashesApart
  <2>5. ASSUME NEW m \in 0 .. n - 1
        PROVE  VerifyProof(D[m + 1], m, n, Proof(t, m), Root(t))
    <3>1. n \in Nat \ {0} /\ m \in Nat /\ m < n
      OBVIOUS
    <3> DEFINE x == D[m + 1]
    <3>2. t.leaves[m + 1] = LeafHash(x)
      BY <2>4
    <3> HIDE DEF t, x
    <3>3. VerifyProof(x, m, n, Proof(t, m), Root(t))
      BY <2>1, <3>1, <3>2, ProofVerifies
    <3> QED BY <3>3 DEF x
  <2>6. ASSUME NEW m \in 0 .. n - 1, NEW j \in 0 .. n - 1, NEW x,
               VerifyProof(x, j, n, Proof(t, m), Root(t))
        PROVE  x = D[j + 1]
    <3>1. n \in Nat \ {0} /\ j \in Nat /\ j < n
      OBVIOUS
    <3> DEFINE path == Proof(t, m)
    <3>2. PICK l \in Nat : IsRow(path, l)
      BY <2>3
    <3>3. VerifyProof(x, j, n, path, Root(t))
      BY <2>6
    <3> HIDE DEF t, path
    <3>4. t.leaves[j + 1] = LeafHash(x)
      BY <2>1, <3>1, <3>2, <3>3, VerifyUnique
    <3> QED BY <2>4, <3>4
  <2>7. ASSUME NEW m \in 0 .. n - 2
        PROVE  /\ ~VerifyProof(D[m + 1], m, n, Proof(before, m), Root(t))
               /\ ~VerifyProof(D[m + 1], m, before.size, Proof(t, m), Root(before))
    <3> DEFINE k == n - 1
               x == D[m + 1]
               old == Proof(before, m)
               new == Proof(t, m)
    <3>1. /\ k \in Nat \ {0} /\ k \in 1 .. n - 1 /\ k \in 1 .. n /\ n = k + 1 /\ k + 1 = n /\ k \in Nat
          /\ m \in Nat /\ m < k /\ m < n /\ m \in 0 .. k - 1 /\ m \in 0 .. n - 1 /\ n \in Nat \ {0}
      OBVIOUS
    <3> HIDE DEF k
    <3>2. TreeOK(before, k) /\ LeavesOf(before.leaves, D, k)
      BY <2>1, <3>1, BeforeOK
    <3>3. before.size = k
      <4> HIDE DEF before
      <4> QED BY <3>2 DEF TreeOK
    <3>4. old = RunPaths(D, m)[k][0] /\ \E l \in Nat : IsRow(old, l)
      <4> HIDE DEF D, before
      <4> QED BY <2>1, <3>1, <3>2, ProofIsPATH
    <3>5. new = RunPaths(D, m)[n][0] /\ \E l \in Nat : IsRow(new, l)
      BY <2>3, <3>1
    <3>6. RunPaths(D, m)[k][0] # RunPaths(D, m)[n][0]
      <4> DEFINE z == 0
      <4>1. z \in 0 .. n - (k + 1) /\ z <= m /\ m < z + k
        BY <3>1
      <4> HIDE DEF z, D
      <4>2. RunPaths(D, m)[k][z] # RunPaths(D, m)[k + 1][z]
        BY <2>1, <3>1, <4>1, PathGrows
      <4> QED BY <3>1, <4>2 DEF z
    <3>7. PICK a \in Nat : IsRow(old, a)
      BY <3>4
    <3>8. PICK c \in Nat : IsRow(new, c)
      BY <3>5
    <3> HIDE DEF D, t, before, x, old, new
    <3>9. ~VerifyProof(x, m, n, old, Root(t))
      <4> SUFFICES ASSUME VerifyProof(x, m, n, old, Root(t)) PROVE FALSE
        OBVIOUS
      <4>1. old = Proof(t, m)
        <5>1. n \in Nat \ {0} /\ TreeOK(t, n) /\ m \in Nat /\ m < n /\ a \in Nat /\ IsRow(old, a)
          BY <2>1, <3>1, <3>7
        <5>2. t.leaves[m + 1] = LeafHash(x) /\ old = Proof(t, m)
          BY <5>1, VerifyUnique
        <5> QED BY <5>2
      <4> QED BY <3>4, <3>5, <3>6, <4>1 DEF new
    <3>10. ~VerifyProof(x, m, k, new, Root(before))
      <4> SUFFICES ASSUME VerifyProof(x, m, k, new, Root(before)) PROVE FALSE
        OBVIOUS
      <4>1. new = Proof(before, m)
        <5>1. k \in Nat \ {0} /\ TreeOK(before, k) /\ m \in Nat /\ m < k /\ c \in Nat /\ IsRow(new, c)
          BY <3>1, <3>2, <3>8
        <5>2. before.leaves[m + 1] = LeafHash(x) /\ new = Proof(before, m)
          BY <5>1, VerifyUnique
        <5> QED BY <5>2
      <4> QED BY <3>4, <3>5, <3>6, <4>1 DEF old
    <3> QED BY <3>3, <3>9, <3>10 DEF x, old, new
  <2>8. /\ \A m, j \in 0 .. t.size - 1, d \in Data :
             /\ VerifyProof(D[m + 1], m, t.size, Proof(t, m), Root(t))
             /\ VerifyProof(d, j, t.size, Proof(t, m), Root(t)) => d = D[j + 1]
        /\ \A m \in 0 .. t.size - 2 :
             /\ ~VerifyProof(D[m + 1], m, t.size, Proof(before, m), Root(t))
             /\ ~VerifyProof(D[m + 1], m, before.size, Proof(t, m), Root(before))
    <3> HIDE DEF t, before, D
    <3> QED BY <2>2, <2>5, <2>6, <2>7
  <2> HIDE DEF t, before
  <2> QED BY <2>8, Zenon DEF VerifyExact, t, before
<1> QED BY <1>1, AddedIsRow, PTL
===============================================================================
