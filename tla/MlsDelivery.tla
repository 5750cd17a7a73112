---------------------------- MODULE MlsDelivery ----------------------------
(***************************************************************************)
(* The MLS delivery service (internal/api/mls.go on the tables of          *)
(* internal/db/mls.go and mls_groups.go): the key packages of one device,  *)
(* and the group info and commits of one channel.                          *)
(*                                                                         *)
(* A statement is a step, and a handler of several statements is a job     *)
(* that other requests interleave with.  Blobs are opaque to the server    *)
(* and to the model; a package is named by its row.  Rows of an earlier    *)
(* ciphersuite are invisible to every statement and left out.  Nothing in  *)
(* the server stores a pending welcome or purges commits, so that neither  *)
(* is here.  The broadcast that ends postCommit is in Hub.tla.             *)
(***************************************************************************)
EXTENDS Integers, Sequences, FiniteSets

CONSTANTS
  Packages,     \* key package rows of the device
  Workers,      \* requests that can be in flight at once
  LowWater,     \* KeyPackageLowThreshold
  PackageTtl,   \* lifetime the device gives its packages
  RetainFor,    \* age at which consumed rows are purged
  PageLimit,    \* limit of getCommitsSinceEpoch
  MaxEpoch,     \* bound of the epochs that requests name
  MaxCommits,   \* bound of the commits
  MaxWrites,    \* bound of the writes of group info
  MaxLows,      \* bound of the goroutines that count what is left
  MaxNow,       \* bound of the clock
  Faults,       \* whether statements may fail and the process may restart
  None

VARIABLES
  now,
  pkg,       \* mls_key_packages: None, or a row, which a purge marks as gone
  handed,    \* how often a regular package was sent to a requester
  lows,      \* pending maybeSendKeyPackagesLow goroutines
  supply,    \* history since the last upload: drawn from, owner told, count failed
  info,      \* mls_group_info: the epoch and the number of its write
  writes,    \* history: writes of group info so far
  commit,    \* mls_commits in the order of created_at
  reader,    \* a client that pages through the commits
  job

packages == <<pkg, handed, lows, supply>>
groups == <<info, writes, commit, reader>>
vars == <<now, packages, groups, job>>

\* A row of mls_key_packages.
PackageRow ==
  [last : BOOLEAN, gone : BOOLEAN, consumed : BOOLEAN, made : Nat, expires : Nat]

ASSUME MlsAssumption ==
  /\ LowWater \in Nat /\ PackageTtl \in Nat /\ RetainFor \in Nat
  /\ PageLimit \in Nat \ {0} /\ MaxEpoch \in Nat /\ MaxCommits \in Nat
  /\ MaxWrites \in Nat /\ MaxLows \in Nat /\ MaxNow \in Nat /\ Faults \in BOOLEAN
  /\ IsFiniteSet(Packages)
  /\ None \notin Packages \cup PackageRow \cup [epoch : Nat, write : Nat]

ChannelGroups == {"text", "voice"}           \* resolveGroupType
Groups == ChannelGroups \cup {"metadata"}    \* the guild's metadata group
Epochs == 0..MaxEpoch

Idle == [pc |-> "idle", group |-> "text", epoch |-> 0, write |-> 0]

Init ==
  /\ now = 0
  /\ pkg = [p \in Packages |-> None]
  /\ handed = [p \in Packages |-> 0]
  /\ lows = 0
  /\ supply = [drawn |-> FALSE, told |-> FALSE, failed |-> FALSE]
  /\ info = [g \in Groups |-> None]
  /\ writes = 0
  /\ commit = <<>>
  /\ reader = [since |-> 0, got |-> {}, late |-> {}]
  /\ job = [s \in Workers |-> Idle]

At(s, pc) == job[s].pc = pc
Done(s) == job' = [job EXCEPT ![s] = Idle]
Start(s, j) == job[s] = Idle /\ job' = [job EXCEPT ![s] = j]

(***************************************************************************)
(* Key packages.                                                           *)
(***************************************************************************)
Regular(p) == pkg[p] # None /\ ~pkg[p].last
Unconsumed(p) == Regular(p) /\ ~pkg[p].gone /\ ~pkg[p].consumed
Usable(p) == Unconsumed(p) /\ pkg[p].expires > now
Unused == {p \in Packages : Usable(p)}     \* CountUnusedMLSKeyPackages

\* InsertMLSKeyPackages: the batch is one implicit transaction.
UploadKeyPackages(P) ==
  /\ P # {} /\ \A p \in P : pkg[p] = None
  /\ pkg' = [p \in Packages |->
               IF p \in P THEN [last |-> FALSE, gone |-> FALSE, consumed |-> FALSE,
                                made |-> now, expires |-> now + PackageTtl]
               ELSE pkg[p]]
  /\ supply' = [drawn |-> FALSE, told |-> FALSE, failed |-> FALSE]
  /\ UNCHANGED <<now, handed, lows, groups, job>>

\* InsertMLSLastResortKeyPackage: one transaction replaces the previous one.
LastResort == {p \in Packages : pkg[p] # None /\ pkg[p].last /\ ~pkg[p].gone}

UploadLastResort(q) ==
  /\ pkg[q] = None
  /\ pkg' = [p \in Packages |->
               IF p = q THEN [last |-> TRUE, gone |-> FALSE, consumed |-> FALSE,
                              made |-> now, expires |-> now + PackageTtl]
               ELSE IF p \in LastResort THEN [pkg[p] EXCEPT !.gone = TRUE] ELSE pkg[p]]
  /\ UNCHANGED <<now, handed, lows, supply, groups, job>>

\* After the response, a goroutine counts what is left.
GoCount ==
  /\ lows < MaxLows
  /\ lows' = lows + 1
  /\ supply' = [supply EXCEPT !.drawn = TRUE]

HandOut(p) ==
  /\ handed' = [handed EXCEPT ![p] = @ + 1]
  /\ GoCount

ConsumeBySelect(p) ==    \* mutant: the row is read and not marked
  /\ Usable(p) /\ HandOut(p)
  /\ UNCHANGED <<now, pkg, groups, job>>

\* ConsumeMLSKeyPackage: one UPDATE that skips locked rows.
ConsumeRegular(p) ==
  /\ Usable(p)
  /\ pkg' = [pkg EXCEPT ![p].consumed = TRUE]
  /\ HandOut(p)
  /\ UNCHANGED <<now, groups, job>>

\* No row was left; a second statement reads the last resort.
ConsumeMiss(s) ==
  /\ Unused = {}
  /\ Start(s, [Idle EXCEPT !.pc = "lastResort"])
  /\ UNCHANGED <<now, packages, groups>>

ConsumeLastResort(s) ==
  /\ At(s, "lastResort")
  /\ IF LastResort # {} THEN GoCount ELSE UNCHANGED <<lows, supply>>
  /\ Done(s)
  /\ UNCHANGED <<now, pkg, handed, groups>>

LowOffByOne ==    \* mutant: the threshold is off by one
  /\ lows > 0
  /\ lows' = lows - 1
  /\ supply' = [supply EXCEPT !.told = @ \/ Cardinality(Unused) + 1 < LowWater]
  /\ UNCHANGED <<now, pkg, handed, groups, job>>

MaybeSendKeyPackagesLow ==
  /\ lows > 0
  /\ lows' = lows - 1
  /\ \/ supply' = [supply EXCEPT !.told = @ \/ Cardinality(Unused) < LowWater]
     \/ Faults /\ supply' = [supply EXCEPT !.failed = TRUE]
  /\ UNCHANGED <<now, pkg, handed, groups, job>>

Purgeable(p) ==
  /\ pkg[p] # None /\ ~pkg[p].gone
  /\ \/ pkg[p].consumed /\ pkg[p].made + RetainFor < now
     \/ ~pkg[p].consumed /\ pkg[p].expires < now /\ ~pkg[p].last

PurgeExpiredMLSKeyPackages ==
  /\ \E p \in Packages : Purgeable(p)
  /\ pkg' = [p \in Packages |-> IF Purgeable(p) THEN [pkg[p] EXCEPT !.gone = TRUE] ELSE pkg[p]]
  /\ UNCHANGED <<now, handed, lows, supply, groups, job>>

(***************************************************************************)
(* Group info and commits.  The epoch is the one the client names.         *)
(***************************************************************************)
InsertOnly(g, e) ==    \* mutant: ON CONFLICT DO NOTHING
  /\ writes < MaxWrites
  /\ writes' = writes + 1
  /\ info' = IF info[g] = None THEN [info EXCEPT ![g] = [epoch |-> e, write |-> writes + 1]]
             ELSE info

UpsertMLSGroupInfo(g, e) ==
  /\ writes < MaxWrites
  /\ writes' = writes + 1
  /\ info' = [info EXCEPT ![g] = [epoch |-> e, write |-> writes + 1]]

\* putGroupInfo, and putGuildGroupInfo of a member.
PutGroupInfo(g, e) ==
  /\ UpsertMLSGroupInfo(g, e)
  /\ UNCHANGED <<now, packages, commit, reader, job>>

\* deleteGuildGroupInfo of an admin.
DeleteGuildGroupInfo ==
  /\ info["metadata"] # None
  /\ info' = [info EXCEPT !["metadata"] = None]
  /\ UNCHANGED <<now, packages, writes, commit, reader, job>>

\* postCommit: the group info if there is one, then the commit.
PostCommit(s, g, e, withInfo) ==
  /\ Start(s, [Idle EXCEPT !.pc = IF withInfo THEN "info" ELSE "append",
                 !.group = g, !.epoch = e])
  /\ UNCHANGED <<now, packages, groups>>

PostInfo(s) ==
  /\ At(s, "info")
  /\ UpsertMLSGroupInfo(job[s].group, job[s].epoch)
  /\ job' = [job EXCEPT ![s].pc = "append", ![s].write = writes + 1]
  /\ UNCHANGED <<now, packages, commit, reader>>

\* A commit without an epoch counts as the number of its row.
Effective(c, i) == IF c[i].epoch > 0 THEN c[i].epoch ELSE i

AppendMLSCommit(s) ==
  /\ At(s, "append") /\ Len(commit) < MaxCommits
  /\ LET j == job[s]
         i == Len(commit) + 1 IN
       /\ commit' = Append(commit, [group |-> j.group, epoch |-> j.epoch, write |-> j.write])
       /\ reader' = IF Effective(commit', i) <= reader.since
                    THEN [reader EXCEPT !.late = @ \cup {i}] ELSE reader
  /\ Done(s)
  /\ UNCHANGED <<now, packages, info, writes>>

PageUnordered(S) ==    \* mutant: no ORDER BY
  /\ S \subseteq {i \in DOMAIN commit : Effective(commit, i) > reader.since}
  /\ Cardinality(S) = 1

\* GetMLSCommitsSinceEpoch: the lowest epochs first, ties in any order.
IsPage(S) ==
  LET found == {i \in DOMAIN commit : Effective(commit, i) > reader.since} IN
    /\ S \subseteq found
    /\ S = found \/ Cardinality(S) = PageLimit
    /\ Cardinality(S) <= PageLimit
    /\ \A i \in S, k \in found \ S : Effective(commit, i) <= Effective(commit, k)

\* The client asks for what follows the last epoch it has got.
GetCommitsSinceEpoch(S) ==
  /\ IsPage(S) /\ S # {}
  /\ reader' = [reader EXCEPT !.got = @ \cup S,
                  !.since = CHOOSE e \in {Effective(commit, i) : i \in S} :
                              \A i \in S : Effective(commit, i) <= e]
  /\ UNCHANGED <<now, packages, info, writes, commit, job>>

(***************************************************************************)
(* Failures and time.                                                      *)
(***************************************************************************)
Abandon(s) ==
  /\ Faults /\ job[s] # Idle
  /\ Done(s)
  /\ UNCHANGED <<now, packages, groups>>

\* The process restarts, and forgets the goroutines.
Restart ==
  /\ Faults /\ lows > 0
  /\ lows' = 0
  /\ supply' = [supply EXCEPT !.failed = TRUE]
  /\ job' = [s \in Workers |-> Idle]
  /\ UNCHANGED <<now, pkg, handed, groups>>

Tick ==
  /\ now < MaxNow
  /\ now' = now + 1
  /\ UNCHANGED <<packages, groups, job>>

PackageNext ==
  \/ \E P \in SUBSET Packages : UploadKeyPackages(P)
  \/ \E p \in Packages : UploadLastResort(p) \/ ConsumeRegular(p)
  \/ \E s \in Workers : ConsumeMiss(s) \/ ConsumeLastResort(s)
  \/ MaybeSendKeyPackagesLow \/ PurgeExpiredMLSKeyPackages \/ Tick

GroupNext ==
  \/ \E g \in Groups, e \in Epochs : PutGroupInfo(g, e)
  \/ DeleteGuildGroupInfo
  \/ \E s \in Workers, g \in ChannelGroups, e \in Epochs, b \in BOOLEAN : PostCommit(s, g, e, b)
  \/ \E s \in Workers : PostInfo(s) \/ AppendMLSCommit(s)
  \/ \E S \in SUBSET (DOMAIN commit) : GetCommitsSinceEpoch(S)

Next == PackageNext \/ GroupNext \/ Restart \/ \E s \in Workers : Abandon(s)

Spec == Init /\ [][Next]_vars

(***************************************************************************)
(* Properties.                                                             *)
(***************************************************************************)
\* The promise: the regular packages are a pool, of which consumeKeyPackage
\* gives every package to one requester at most, however requests, uploads,
\* purges and restarts interleave.  A last resort is reusable and no part of it.
Pool == INSTANCE KeyPackagePool WITH
  offered <- {p \in Packages : Regular(p)},
  available <- {p \in Packages : Unconsumed(p)},
  given <- handed
GivenOnce == Pool!PoolSpec

\* When packages were taken since the last upload and fewer than the threshold
\* are left, the owner has been told, or the goroutine of the last consumer is
\* still to run, or a count failed or was lost in a restart.
LowIsTold ==
  supply.drawn /\ lows = 0 /\ Cardinality({p \in Packages : Regular(p) /\ ~pkg[p].consumed}) < LowWater
    => supply.told \/ supply.failed

\* A client that pages through the commits has got every commit up to the epoch
\* it has reached, but those that were appended behind it and those of an epoch
\* that a page ended in.
PagingComplete ==
  \A i \in DOMAIN commit : Effective(commit, i) <= reader.since =>
    \/ i \in reader.got \cup reader.late
    \/ \E k \in reader.got : Effective(commit, k) = Effective(commit, i)

\* Whoever has a commit that came with group info gets that info or one that
\* was written after it, whichever order racing committers store theirs in;
\* only the info of a voice group is ever removed.
InfoCoversCommits ==
  \A i \in DOMAIN commit : commit[i].write > 0 =>
    IF info[commit[i].group] = None THEN commit[i].group = "voice"
    ELSE info[commit[i].group].write >= commit[i].write
=============================================================================
