-------------------------- MODULE LinkArchiveStore --------------------------
(***************************************************************************)
(* The rows of link_archives and link_archive_chunks and the SQL that      *)
(* reads and writes one row (internal/db/link_archives.go).  A row is a    *)
(* value here; LinkArchive.tla holds the tables and interleaves the        *)
(* statements.                                                             *)
(*                                                                         *)
(* Token hashes are left out (a request names the archive whose token it   *)
(* carries), as are archive_sha256, which the server stores and never      *)
(* compares, and created_at, which is hard - MaxLifetime.                  *)
(***************************************************************************)
EXTENDS Integers

CONSTANTS
  Users,        \* accounts
  Idx,          \* chunk indices, 0 .. n-1
  Contents,     \* what a chunk body can be
  Plans,        \* [chunks : [0..k -> Contents], bytes : Nat], what init declares
  Sizes,        \* lengths of a chunk body
  SizeOf,       \* the length of every body
  Ttl,          \* linkArchiveDefaultExpiry
  MaxLifetime,  \* linkArchiveMaxLifetime
  Grace,        \* archiveSupersedeGrace()
  None          \* no row, no object, no field

\* A SHA-256 digest: injective, and never equal to the bytes it digests.
Sha256(c) == <<"sha256", c>>
Hashes == {Sha256(c) : c \in Contents}

LinkArchiveActiveStates ==
  {"created", "uploading", "upload_paused", "uploaded", "available",
   "importing", "import_paused", "imported"}

States == LinkArchiveActiveStates \cup
  {"acknowledged", "aborted", "expired", "terminal_failure"}

LinkArchiveRow ==
  [user : Users, plan : Plans, state : States, finalized : BOOLEAN,
   expires : Nat, hard : Nat]

LinkArchiveChunkRow == [hash : Hashes, size : Sizes]

NoChunks == [i \in Idx |-> None]

ASSUME StoreAssumption ==
  /\ Ttl \in Nat /\ MaxLifetime \in Nat /\ Grace \in Nat
  /\ Ttl > 0 /\ MaxLifetime >= Ttl /\ Grace <= Ttl
  /\ Idx \subseteq Nat
  /\ Sizes \subseteq Nat /\ SizeOf \in [Contents -> Sizes]
  /\ \A p \in Plans : p.bytes \in Nat /\ DOMAIN p.chunks \subseteq Idx
                      /\ \A i \in DOMAIN p.chunks : p.chunks[i] \in Contents
  /\ None \notin LinkArchiveRow
  /\ None \notin LinkArchiveChunkRow
  /\ None \notin Contents

\* The earlier of two times: SQL's LEAST.
Least(s, t) == IF s <= t THEN s ELSE t

InsertLinkArchive(u, p, now) ==
  [user |-> u, plan |-> p, state |-> "created", finalized |-> FALSE,
   expires |-> now + Ttl, hard |-> now + MaxLifetime]

\* scanLinkArchive: every lookup by token goes through this freshness gate.
\* The state column is not consulted.
Fresh(r, now) == r # None /\ r.expires > now /\ r.hard > now

\* UPDATE ... WHERE id = $1: no row, no effect; freshness is not rechecked.
RefreshLinkArchiveExpiry(r, now) ==
  IF r = None THEN None ELSE [r EXCEPT !.expires = Least(now + Ttl, r.hard)]

\* UPDATE ... WHERE id = $1 AND state = ANY(allowedFrom).
MayTransition(r, allowedFrom) == r # None /\ r.state \in allowedFrom
TransitionFromAnyState(r, nextState, allowedFrom) ==    \* mutant
  IF r = None THEN r ELSE [r EXCEPT !.state = nextState]
TransitionLinkArchiveState(r, nextState, allowedFrom) ==
  IF MayTransition(r, allowedFrom) THEN [r EXCEPT !.state = nextState] ELSE r

MarkLinkArchiveFinalized(r) ==
  IF r = None THEN None ELSE [r EXCEPT !.finalized = TRUE]

Active(r) == r # None /\ r.state \in LinkArchiveActiveStates

\* ListSupersedableLinkArchivesForUser with the threshold its caller passes.
SupersedableAtAnyAge(r, u, now) == Active(r) /\ r.user = u    \* mutant
Supersedable(r, u, now) ==
  Active(r) /\ r.user = u /\ r.expires < now + Ttl - Grace

\* ListGcEligibleLinkArchives.  The 24-hour clause for terminal_failure and
\* imported is subsumed by the third disjunct, as it is in the query.
GcEligibleDoneOnly(r, now) == r # None /\ r.state \in {"acknowledged", "aborted"}    \* mutant
GcEligible(r, now) ==
  /\ r # None
  /\ \/ r.state \in {"acknowledged", "aborted"}
     \/ r.expires < now
     \/ r.hard < now

\* InsertLinkArchiveChunk on the chunk row c found for (archive, idx):
\* ON CONFLICT DO NOTHING, then the hashes are compared.
ChunkConflict(c, hash) == c # None /\ c.hash # hash
InsertLinkArchiveChunk(c, hash, size) ==
  IF c = None THEN [hash |-> hash, size |-> size] ELSE c
=============================================================================
