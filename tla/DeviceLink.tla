------------------------------ MODULE DeviceLink ------------------------------
(***************************************************************************)
(* Multi-device linking (internal/api/devices.go): a new device asks for a *)
(* link, an existing device resolves the request by its QR handle or by    *)
(* its short code, approves it with a certificate, and the new device      *)
(* polls for the relayed result.  Every hand-over is a one-time row of     *)
(* auth_nonces (internal/db/auth_nonces.go).                               *)
(*                                                                         *)
(* A handler is a job of one or more SQL statements; jobs interleave       *)
(* between statements.  A request that its first statement refuses changes *)
(* nothing and is not a step.  Labels, relay ciphertexts, the approval     *)
(* rate warning and the transparency append (TransparencyLog.tla) are left *)
(* out.                                                                    *)
(***************************************************************************)
EXTENDS Integers, FiniteSets

CONSTANTS
  Users, Devices,
  Keys,       \* Ed25519 public keys
  RootKey,    \* the key every account registered with
  RootDevice, \* the device it registered on
  Requests,   \* requestId + secret of a link request
  Codes,      \* 8-character fallback codes
  Claims,     \* claim tokens
  Workers,    \* requests that can be in flight at once
  Kinds,      \* besides linking, clients call "certify" and "revoke"
  Routes,     \* how existing devices resolve: {"qr", "code"} or a part of it
  Expiry,     \* linkCodeExpiry
  Faults,     \* whether a handler may stop between two statements
  MaxNow,     \* bound of the clock
  None

VARIABLES
  now,
  nonce,      \* auth_nonces: [request, expires] or None for every nonce
  request,    \* the payload of a link request: device, code, expiry
  shown,      \* requests whose QR handle and code the new device displays
  deviceKey,  \* device_keys: the stored public key or None
  holder,     \* history: the user that received a claim token
  claimOf,    \* history: the request a claim token was minted for
  linked,     \* history: [user, request] pairs whose device key was inserted
  approved,   \* history: how often a claim token led to a device key
  delivered,  \* history: the approver of every result handed out, in a set
  job

vars == <<now, nonce, request, shown, deviceKey, holder, claimOf, linked,
          approved, delivered, job>>

\* linkRequestNonce, linkCodeNonce, linkClaimNonce, linkResultNonce: four
\* prefixes keep the four kinds of nonce apart in one table.
RequestNonce(r) == <<"request", r>>
CodeNonce(c) == <<"code", c>>
ClaimNonce(c) == <<"claim", c>>
ResultNonce(r) == <<"result", r>>
Nonces == {RequestNonce(r) : r \in Requests} \cup {CodeNonce(c) : c \in Codes}
          \cup {ClaimNonce(c) : c \in Claims} \cup {ResultNonce(r) : r \in Requests}

LinkPayload == [dev : Devices, code : Codes, expires : Nat]
NonceRow == [request : Requests, by : Users \cup {None}, expires : Nat]

ASSUME DeviceLinkAssumption ==
  /\ RootKey \in [Users -> Keys] /\ RootDevice \in [Users -> Devices]
  /\ Routes \subseteq {"qr", "code"} /\ Kinds \subseteq {"certify", "revoke"}
  /\ Expiry \in Nat /\ Expiry > 0 /\ MaxNow \in Nat /\ Faults \in BOOLEAN
  /\ None \notin Users \cup Devices \cup Keys \cup Requests \cup Codes \cup Claims
  /\ None \notin NonceRow /\ None \notin LinkPayload

Idle == [pc |-> "idle", user |-> None, r |-> None, c |-> None, key |-> None,
         dev |-> None, newDev |-> None, newKey |-> None, route |-> None]

Pcs == {"idle", "insertCode", "takeBack", "companion", "mint", "certificate",
        "register", "result", "certifyInsert"}

Job == [pc : Pcs, user : Users \cup {None}, r : Requests \cup {None},
        c : Claims \cup {None}, key : Keys \cup {None},
        dev : Devices \cup {None}, newDev : Devices \cup {None},
        newKey : Keys \cup {None}, route : {"qr", "code", None}]

Init ==
  /\ now = 0
  /\ nonce = [n \in Nonces |-> None]
  /\ request = [r \in Requests |-> None]
  /\ shown = {}
  /\ deviceKey = [u \in Users |-> [d \in Devices |->
                    IF d = RootDevice[u] THEN RootKey[u] ELSE None]]
  /\ holder = [c \in Claims |-> None]
  /\ claimOf = [c \in Claims |-> None]
  /\ linked = {}
  /\ approved = [c \in Claims |-> 0]
  /\ delivered = [r \in Requests |-> {}]
  /\ job = [s \in Workers |-> Idle]

At(s, pc) == job[s].pc = pc
Goto(s, pc) == job' = [job EXCEPT ![s].pc = pc]
Done(s) == job' = [job EXCEPT ![s] = Idle]
Start(s, j) == job[s] = Idle /\ job' = [job EXCEPT ![s] = j]

(***************************************************************************)
(* auth_nonces.                                                            *)
(***************************************************************************)
\* ConsumeAuthNonce: one DELETE ... RETURNING, refused when absent or expired.
Live(n) == nonce[n] # None /\ nonce[n].expires > now
ConsumeWithoutDelete(n) == Live(n) /\ UNCHANGED nonce    \* mutant: a SELECT
ConsumeAuthNonce(n) == Live(n) /\ nonce' = [nonce EXCEPT ![n] = None]

\* InsertAuthNonce fails on a primary-key conflict, expired row or not.
MayInsert(n) == nonce[n] = None
InsertAuthNonce(n, r, by, expires) ==
  nonce' = [nonce EXCEPT ![n] = [request |-> r, by |-> by, expires |-> expires]]

DeleteAuthNonce(n) == nonce' = [nonce EXCEPT ![n] = None]

\* purgeNoncesLoop.
PurgeExpiredNonces ==
  /\ \E n \in Nonces : nonce[n] # None /\ nonce[n].expires < now
  /\ nonce' = [n \in Nonces |-> IF nonce[n] # None /\ nonce[n].expires < now
                                THEN None ELSE nonce[n]]
  /\ UNCHANGED <<now, request, shown, deviceKey, holder, claimOf, linked, approved,
                 delivered, job>>

(***************************************************************************)
(* POST /link-request: the QR nonce, then the code nonce.  A code that is  *)
(* taken makes the second insert fail and the first is taken back.         *)
(***************************************************************************)
LinkRequest(s, r, d, code) ==
  /\ request[r] = None
  /\ request' = [request EXCEPT ![r] =
                   [dev |-> d, code |-> code, expires |-> now + Expiry]]
  /\ InsertAuthNonce(RequestNonce(r), r, None, now + Expiry)
  /\ Start(s, [Idle EXCEPT !.pc = "insertCode", !.r = r])
  /\ UNCHANGED <<now, shown, deviceKey, holder, claimOf, linked, approved, delivered>>

LinkRequestCode(s) ==
  /\ At(s, "insertCode")
  /\ LET r == job[s].r
         n == CodeNonce(request[r].code) IN
       IF MayInsert(n)
       THEN /\ InsertAuthNonce(n, r, None, request[r].expires)
            /\ shown' = shown \cup {r}
            /\ Done(s)
       ELSE Goto(s, "takeBack") /\ UNCHANGED <<nonce, shown>>
  /\ UNCHANGED <<now, request, deviceKey, holder, claimOf, linked, approved, delivered>>

LinkRequestTakeBack(s) ==
  /\ At(s, "takeBack")
  /\ DeleteAuthNonce(RequestNonce(job[s].r))
  /\ Done(s)
  /\ UNCHANGED <<now, request, shown, deviceKey, holder, claimOf, linked, approved, delivered>>

(***************************************************************************)
(* POST /link-resolve: consume by QR handle or by code, delete the other   *)
(* nonce, mint the claim.                                                  *)
(***************************************************************************)
LinkResolve(s, u, r, route) ==
  /\ route \in Routes
  /\ LET n == IF route = "code" THEN CodeNonce(request[r].code)
              ELSE RequestNonce(r) IN
       /\ r \in shown
       /\ ConsumeAuthNonce(n)
       \* a code leads to the request whose payload is stored under it
       /\ Start(s, [Idle EXCEPT !.pc = "companion", !.user = u,
                      !.r = nonce[n].request, !.route = route])
  /\ UNCHANGED <<now, request, shown, deviceKey, holder, claimOf, linked, approved, delivered>>

\* A failure is logged and the claim is minted all the same.
LinkResolveCompanion(s) ==
  /\ At(s, "companion")
  /\ LET r == job[s].r IN
       \/ DeleteAuthNonce(IF job[s].route = "code" THEN RequestNonce(r)
                          ELSE CodeNonce(request[r].code))
       \/ Faults /\ UNCHANGED nonce
  /\ Goto(s, "mint")
  /\ UNCHANGED <<now, request, shown, deviceKey, holder, claimOf, linked, approved, delivered>>

LinkResolveMint(s) ==
  /\ At(s, "mint")
  /\ \E c \in Claims :
       /\ claimOf[c] = None                          \* a fresh UUID
       /\ claimOf' = [claimOf EXCEPT ![c] = job[s].r]
       /\ holder' = [holder EXCEPT ![c] = job[s].user]
       /\ InsertAuthNonce(ClaimNonce(c), job[s].r, None, now + Expiry)
  /\ Done(s)
  /\ UNCHANGED <<now, request, shown, deviceKey, linked, approved, delivered>>

(***************************************************************************)
(* POST /link-verify: consume the claim, check the certificate against the *)
(* stored key of the signing device, insert the new device under that same *)
(* key, store the result.                                                  *)
(***************************************************************************)
LinkVerify(s, c, d, key) ==
  /\ holder[c] # None
  /\ ConsumeAuthNonce(ClaimNonce(c))
  /\ Start(s, [Idle EXCEPT !.pc = "certificate", !.user = holder[c], !.c = c,
                 !.r = nonce[ClaimNonce(c)].request, !.dev = d, !.key = key])
  /\ UNCHANGED <<now, request, shown, deviceKey, holder, claimOf, linked, approved, delivered>>

\* findDevicePublicKey and ed25519.Verify: key is the one the certificate
\* was made with.  A device that is not registered and a bad signature are
\* refused alike.
CheckCertificate(s, next) ==
  LET j == job[s] IN
  IF deviceKey[j.user][j.dev] # None /\ deviceKey[j.user][j.dev] = j.key
  THEN Goto(s, next) ELSE Done(s)

LinkVerifyResultFirst(s) ==    \* mutant: the result is stored before the key
  /\ At(s, "certificate")
  /\ CheckCertificate(s, "result")
  /\ UNCHANGED <<now, nonce, request, shown, deviceKey, holder, claimOf, linked, approved, delivered>>

LinkVerifyCertificate(s) ==
  /\ At(s, "certificate")
  /\ CheckCertificate(s, "register")
  /\ UNCHANGED <<now, nonce, request, shown, deviceKey, holder, claimOf, linked, approved, delivered>>

\* InsertDeviceKey overwrites a row of the same user and device.
LinkVerifyRegister(s) ==
  /\ At(s, "register")
  /\ LET j == job[s] IN
       /\ deviceKey' = [deviceKey EXCEPT ![j.user][request[j.r].dev] = j.key]
       /\ linked' = linked \cup {<<j.user, j.r>>}
       /\ approved' = [approved EXCEPT ![j.c] = @ + 1]
  /\ Goto(s, "result")
  /\ UNCHANGED <<now, nonce, request, shown, holder, claimOf, delivered>>

\* A result already stored for the request makes the insert, and with it the
\* handler, fail; the device key stays.
LinkVerifyResult(s) ==
  /\ At(s, "result")
  /\ LET n == ResultNonce(job[s].r) IN
       IF MayInsert(n) THEN InsertAuthNonce(n, job[s].r, job[s].user, now + Expiry)
       ELSE UNCHANGED nonce
  /\ Done(s)
  /\ UNCHANGED <<now, request, shown, deviceKey, holder, claimOf, linked, approved, delivered>>

(***************************************************************************)
(* POST /link-result, one statement; no result yet is answered "pending".  *)
(***************************************************************************)
LinkResult(r) ==
  /\ ConsumeAuthNonce(ResultNonce(r))
  /\ delivered' = [delivered EXCEPT ![r] = @ \cup {nonce[ResultNonce(r)].by}]
  /\ UNCHANGED <<now, request, shown, deviceKey, holder, claimOf, linked, approved, job>>

(***************************************************************************)
(* POST /devices (certifyDevice) and the two revocations.                  *)
(***************************************************************************)
CertifyDevice(s, u, d, key, newDev, newKey) ==
  /\ "certify" \in Kinds
  /\ deviceKey[u][d] = key                 \* findDevicePublicKey, ed25519.Verify
  /\ Start(s, [Idle EXCEPT !.pc = "certifyInsert", !.user = u, !.dev = d, !.key = key,
                 !.newDev = newDev, !.newKey = newKey])
  /\ UNCHANGED <<now, nonce, request, shown, deviceKey, holder, claimOf, linked, approved, delivered>>

CertifyInsert(s) ==
  /\ At(s, "certifyInsert")
  /\ LET j == job[s] IN
       deviceKey' = [deviceKey EXCEPT ![j.user][j.newDev] = j.newKey]
  /\ Done(s)
  /\ UNCHANGED <<now, nonce, request, shown, holder, claimOf, linked, approved, delivered>>

RevokeDevice(u, d) ==
  /\ "revoke" \in Kinds
  /\ deviceKey[u][d] # None
  /\ deviceKey' = [deviceKey EXCEPT ![u][d] = None]
  /\ UNCHANGED <<now, nonce, request, shown, holder, claimOf, linked, approved, delivered, job>>

RevokeAllDevices(u) ==
  /\ "revoke" \in Kinds
  /\ \E d \in Devices : deviceKey[u][d] # None
  /\ deviceKey' = [deviceKey EXCEPT ![u] = [d \in Devices |-> None]]
  /\ UNCHANGED <<now, nonce, request, shown, holder, claimOf, linked, approved, delivered, job>>

\* An error, a cancelled request or a crash ends the handler where it is.
Abandon(s) ==
  /\ Faults
  /\ job[s] # Idle
  /\ Done(s)
  /\ UNCHANGED <<now, nonce, request, shown, deviceKey, holder, claimOf, linked, approved, delivered>>

Tick ==
  /\ now < MaxNow
  /\ now' = now + 1
  /\ UNCHANGED <<nonce, request, shown, deviceKey, holder, claimOf, linked, approved, delivered, job>>

Next ==
  \/ \E s \in Workers :
       \/ \E r \in Requests, d \in Devices, c \in Codes : LinkRequest(s, r, d, c)
       \/ LinkRequestCode(s) \/ LinkRequestTakeBack(s)
       \/ \E u \in Users, r \in Requests, route \in Routes : LinkResolve(s, u, r, route)
       \/ LinkResolveCompanion(s) \/ LinkResolveMint(s)
       \/ \E c \in Claims, d \in Devices, k \in Keys : LinkVerify(s, c, d, k)
       \/ LinkVerifyCertificate(s) \/ LinkVerifyRegister(s) \/ LinkVerifyResult(s)
       \/ \E u \in Users, d, nd \in Devices, k, nk \in Keys :
            CertifyDevice(s, u, d, k, nd, nk)
       \/ CertifyInsert(s)
       \/ Abandon(s)
  \/ \E r \in Requests : LinkResult(r)
  \/ \E u \in Users, d \in Devices : RevokeDevice(u, d)
  \/ \E u \in Users : RevokeAllDevices(u)
  \/ PurgeExpiredNonces
  \/ Tick

Spec == Init /\ [][Next]_vars

(***************************************************************************)
(* Properties.                                                             *)
(***************************************************************************)
TypeOK ==
  /\ now \in Nat
  /\ nonce \in [Nonces -> NonceRow \cup {None}]
  /\ request \in [Requests -> LinkPayload \cup {None}]
  /\ shown \subseteq Requests
  /\ deviceKey \in [Users -> [Devices -> Keys \cup {None}]]
  /\ holder \in [Claims -> Users \cup {None}]
  /\ claimOf \in [Claims -> Requests \cup {None}]
  /\ linked \subseteq Users \X Requests
  /\ approved \in [Claims -> Nat]
  /\ delivered \in [Requests -> SUBSET (Users \cup {None})]
  /\ job \in [Workers -> Job]

\* A claim token adds a device at most once, although linkVerify consumes it
\* and inserts the device key in separate statements and may be retried.
ClaimSingleUse == \A c \in Claims : approved[c] <= 1

\* The new device is told that it is linked only by an account under which
\* its device key was inserted before (linkVerify's order of statements).
ResultAfterRegistration ==
  \A r \in Requests :
    /\ nonce[ResultNonce(r)] # None => <<nonce[ResultNonce(r)].by, r>> \in linked
    /\ \A u \in delivered[r] : <<u, r>> \in linked

(***************************************************************************)
(* Statements the comments of the code make that its behaviour does not    *)
(* meet; README.md, "Known deviations", gives the constants that show it.  *)
(***************************************************************************)
\* linkResolve: the request is consumed immediately so the first scan wins;
\* a request yields one claim token, whoever resolves it and however often.
FirstScanWins ==
  \A r \in Requests : \A c, d \in Claims : claimOf[c] = r /\ claimOf[d] = r => c = d
=============================================================================
