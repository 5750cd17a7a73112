--------------------------- MODULE VoiceRoomProofs ---------------------------
(***************************************************************************)
(* Proofs about VoiceRoom and the delivery service that it composes with.  *)
(*   - The refinement of the pool needs only that rows are rows            *)
(*     (PackagesOK); LowIsTold counts what is left of the packages.        *)
(*   - PagingComplete is inductive with ReaderOK: what is appended is      *)
(*     ahead of the reader, or late.                                       *)
(*   - CoverInv extends InfoCoversCommits to requests that have stored     *)
(*     their info and not yet their commit.                                *)
(*   - GateInv follows a bar through the checks of a token request: one    *)
(*     that a request has passed is known as slipped.                      *)
(*   - RoomInv reads the webhooks under way as the future of the tracker:  *)
(*     In(T, H, u, i) says whether u will be in it after the first i.  In  *)
(*     the end the tracker holds the room, so no departure of the present  *)
(*     session looks like the last one; and an old group has a goroutine,  *)
(*     or a webhook that will start one, to delete it.                     *)
(***************************************************************************)
EXTENDS VoiceRoom, SequenceTheorems, FiniteSetTheorems, WellFoundedInduction, TLAPS

\* The rows are rows, and the clock and the counts are numbers.
PackagesOK ==
  /\ now \in Nat
  /\ pkg \in [Packages -> PackageRow \cup {None}]
  /\ handed \in [Packages -> Nat]

\* The state of the abstract pool.
Offered == {p \in Packages : Regular(p)}
Available == {p \in Packages : Unconsumed(p)}

\* The tables start empty.
LEMMA InitPackages == Init => PackagesOK
BY DEF Init, PackagesOK

\* A row is not None, so that an uploaded package is there.
LEMMA RowsAreRows == ASSUME NEW r \in PackageRow PROVE r # None
BY MlsAssumption DEF MlsAssumption

\* A row stays a row when a column is set.
LEMMA SetColumn ==
  ASSUME NEW r \in PackageRow
  PROVE  /\ [r EXCEPT !.gone = TRUE] \in PackageRow
         /\ [r EXCEPT !.consumed = TRUE] \in PackageRow
BY DEF PackageRow

\* UploadKeyPackages is an Offer: the rows are new and usable.
LEMMA UploadOffers ==
  ASSUME PackagesOK, NEW P \in SUBSET Packages, UploadKeyPackages(P)
  PROVE  PackagesOK' /\ Pool!Offer(P)
<1> DEFINE new == [last |-> FALSE, gone |-> FALSE, consumed |-> FALSE,
                   made |-> now, expires |-> now + PackageTtl]
<1>1. new \in PackageRow
  BY MlsAssumption DEF PackagesOK, PackageRow, MlsAssumption
<1>2. new # None /\ ~new.last /\ ~new.gone /\ ~new.consumed
  BY <1>1, RowsAreRows
<1>3. pkg' = [p \in Packages |-> IF p \in P THEN new ELSE pkg[p]]
  BY DEF UploadKeyPackages
<1>4. handed' = handed /\ now' = now /\ \A p \in P : pkg[p] = None
  BY DEF UploadKeyPackages
<1> HIDE DEF new
<1>5. PackagesOK'
  BY <1>1, <1>3, <1>4 DEF PackagesOK
<1>6. P \subseteq Packages \ Offered
  BY <1>4 DEF Offered, Regular
<1>7. ASSUME NEW p \in Packages
      PROVE  /\ Regular(p)' <=> Regular(p) \/ p \in P
             /\ Unconsumed(p)' <=> Unconsumed(p) \/ p \in P
  BY <1>2, <1>3, <1>4 DEF Regular, Unconsumed
<1>8. Offered' = Offered \cup P /\ Available' = Available \cup P
  BY <1>7 DEF Offered, Available
<1> QED
  BY <1>4, <1>5, <1>6, <1>8 DEF Pool!Offer, Offered, Available

\* UploadLastResort marks last resorts and adds one: the pool is the same.
LEMMA LastResortStutters ==
  ASSUME PackagesOK, NEW q \in Packages, UploadLastResort(q)
  PROVE  PackagesOK' /\ UNCHANGED <<Offered, Available, handed>>
<1> DEFINE new == [last |-> TRUE, gone |-> FALSE, consumed |-> FALSE,
                   made |-> now, expires |-> now + PackageTtl]
<1>1. new \in PackageRow /\ new.last
  BY MlsAssumption DEF PackagesOK, PackageRow, MlsAssumption
<1>2. /\ pkg' = [p \in Packages |->
                   IF p = q THEN new
                   ELSE IF p \in LastResort THEN [pkg[p] EXCEPT !.gone = TRUE] ELSE pkg[p]]
      /\ pkg[q] = None /\ handed' = handed /\ now' = now
  BY DEF UploadLastResort
<1> HIDE DEF new
<1>3. ASSUME NEW p \in LastResort
      PROVE  pkg[p] \in PackageRow /\ pkg[p].last /\ [pkg[p] EXCEPT !.gone = TRUE] \in PackageRow
  BY SetColumn DEF LastResort, PackagesOK
<1>4. ASSUME NEW p \in LastResort
      PROVE  [pkg[p] EXCEPT !.gone = TRUE].last
  BY <1>3 DEF PackageRow
<1>5. PackagesOK'
  BY <1>1, <1>2, <1>3 DEF PackagesOK
<1>6. ASSUME NEW p \in Packages
      PROVE  (Regular(p)' <=> Regular(p)) /\ (Unconsumed(p)' <=> Unconsumed(p))
  <2>1. CASE p = q
    BY <1>1, <1>2, <2>1 DEF Regular, Unconsumed
  <2>2. CASE p # q /\ p \in LastResort
    BY <1>2, <1>3, <1>4, <2>2 DEF Regular, Unconsumed
  <2>3. CASE p # q /\ p \notin LastResort
    BY <1>2, <2>3 DEF Regular, Unconsumed
  <2> QED BY <2>1, <2>2, <2>3
<1> QED
  BY <1>2, <1>5, <1>6 DEF Offered, Available

\* ConsumeRegular is a Give: it marks the row it hands out.
LEMMA ConsumeGives ==
  ASSUME PackagesOK, NEW q \in Packages, ConsumeRegular(q)
  PROVE  PackagesOK' /\ Pool!Give(q)
<1>1. /\ Unconsumed(q)
      /\ pkg' = [pkg EXCEPT ![q].consumed = TRUE]
      /\ handed' = [handed EXCEPT ![q] = @ + 1]
      /\ now' = now
  BY DEF ConsumeRegular, Usable, HandOut
<1>2. pkg[q] \in PackageRow /\ ~pkg[q].last
  BY <1>1 DEF PackagesOK, Unconsumed, Regular
<1>3. pkg'[q] \in PackageRow /\ pkg'[q].consumed /\ ~pkg'[q].last
  BY <1>1, <1>2 DEF PackagesOK, PackageRow
<1>4. \A p \in Packages : p # q => pkg'[p] = pkg[p]
  BY <1>1 DEF PackagesOK
<1>5. PackagesOK'
  BY <1>1, <1>3, <1>4 DEF PackagesOK
<1>6. /\ Regular(q) /\ Regular(q)' /\ ~Unconsumed(q)'
      /\ \A p \in Packages : p # q => /\ Regular(p)' <=> Regular(p)
                                      /\ Unconsumed(p)' <=> Unconsumed(p)
  BY <1>1, <1>3, <1>4, RowsAreRows DEF Regular, Unconsumed
<1>7. Offered' = Offered /\ Available' = Available \ {q} /\ q \in Available
  BY <1>1, <1>6 DEF Offered, Available
<1> QED
  BY <1>1, <1>5, <1>7 DEF Pool!Give, Offered, Available

\* The purge is a Drop of the rows it deletes that nobody was given.
LEMMA PurgeDrops ==
  ASSUME PackagesOK, PurgeExpiredMLSKeyPackages
  PROVE  PackagesOK' /\ \E P \in SUBSET Packages : Pool!Drop(P)
<1> DEFINE D == {p \in Packages : Purgeable(p) /\ Unconsumed(p)}
<1>1. /\ pkg' = [p \in Packages |->
                   IF Purgeable(p) THEN [pkg[p] EXCEPT !.gone = TRUE] ELSE pkg[p]]
      /\ handed' = handed /\ now' = now
  BY DEF PurgeExpiredMLSKeyPackages
<1>2. ASSUME NEW p \in Packages, Purgeable(p)
      PROVE  /\ pkg[p] \in PackageRow /\ pkg'[p] \in PackageRow
             /\ pkg'[p].gone /\ pkg'[p].last = pkg[p].last
  <2>1. pkg[p] \in PackageRow
    BY <1>2 DEF Purgeable, PackagesOK
  <2>2. pkg'[p] = [pkg[p] EXCEPT !.gone = TRUE]
    BY <1>1, <1>2
  <2> QED BY <2>1, <2>2 DEF PackageRow
<1>3. PackagesOK'
  BY <1>1, <1>2 DEF PackagesOK
<1>4. ASSUME NEW p \in Packages
      PROVE  /\ Regular(p)' <=> Regular(p)
             /\ Unconsumed(p)' <=> Unconsumed(p) /\ ~Purgeable(p)
  <2>1. CASE Purgeable(p)
    BY <1>2, <2>1, RowsAreRows DEF Regular, Unconsumed
  <2>2. CASE ~Purgeable(p)
    BY <1>1, <2>2 DEF Regular, Unconsumed
  <2> QED BY <2>1, <2>2
<1>5. Offered' = Offered /\ Available' = Available \ D /\ D \subseteq Available
  BY <1>4 DEF Offered, Available
<1>6. Pool!Drop(D)
  BY <1>1, <1>5 DEF Pool!Drop, Offered, Available
<1> QED BY <1>3, <1>6

\* Every other step leaves rows and counts alone.
LEMMA OthersStutter ==
  ASSUME PackagesOK,
         \/ \E s \in Workers : ConsumeMiss(s) \/ ConsumeLastResort(s) \/ Abandon(s)
         \/ MaybeSendKeyPackagesLow \/ Tick \/ GroupNext \/ Restart \/ UNCHANGED vars
  PROVE  PackagesOK' /\ UNCHANGED <<pkg, handed>>
<1>1. UNCHANGED <<pkg, handed>> /\ (now' = now \/ now' = now + 1)
  BY DEF ConsumeMiss, ConsumeLastResort, Abandon, MaybeSendKeyPackagesLow, Tick, GroupNext,
         Restart, PutGroupInfo, DeleteGuildGroupInfo, PostCommit, PostInfo, AppendMLSCommit,
         GetCommitsSinceEpoch, packages, groups, vars
<1> QED BY <1>1 DEF PackagesOK

\* A step of the service is a step of the pool.
LEMMA StepOfPool ==
  ASSUME PackagesOK, [Next]_vars
  PROVE  PackagesOK' /\ [Pool!PoolNext]_(Pool!pool)
<1>1. CASE \E P \in SUBSET Packages : UploadKeyPackages(P)
  <2>1. PICK P \in SUBSET Packages : UploadKeyPackages(P)
    BY <1>1
  <2> QED BY <2>1, UploadOffers DEF Pool!PoolNext
<1>2. CASE \E q \in Packages : UploadLastResort(q)
  <2>1. PICK q \in Packages : UploadLastResort(q)
    BY <1>2
  <2> QED BY <2>1, LastResortStutters DEF Pool!pool, Offered, Available
<1>3. CASE \E q \in Packages : ConsumeRegular(q)
  <2>1. PICK q \in Packages : ConsumeRegular(q)
    BY <1>3
  <2> QED BY <2>1, ConsumeGives DEF Pool!PoolNext
<1>4. CASE PurgeExpiredMLSKeyPackages
  BY <1>4, PurgeDrops DEF Pool!PoolNext
<1>5. CASE \/ \E s \in Workers : ConsumeMiss(s) \/ ConsumeLastResort(s) \/ Abandon(s)
           \/ MaybeSendKeyPackagesLow \/ Tick \/ GroupNext \/ Restart \/ UNCHANGED vars
  BY <1>5, OthersStutter DEF Pool!pool, Regular, Unconsumed
<1> QED
  BY <1>1, <1>2, <1>3, <1>4, <1>5 DEF Next, PackageNext

\* What the rest of the server does to the delivery service: nothing, the
\* deletion of a voice group, or a restart.
LEMMA VoiceSteps ==
  ASSUME [VoiceNext \/ Deliver]_<<vars, voice_vars>>
  PROVE  \/ [Next]_vars
         \/ \E i \in DOMAIN cleaners : DeleteMLSGroupInfo(i)
         \/ VoiceRestart
BY DEF VoiceNext, Deliver, Token, TokenCheck, TokenIssue, JoinRoom, LeaveRoom, RemoveParticipant,
     Lift, Bar, Webhook

\* Neither concerns the packages.
LEMMA VoiceStutters ==
  ASSUME PackagesOK, VoiceRestart \/ \E i \in DOMAIN cleaners : DeleteMLSGroupInfo(i)
  PROVE  PackagesOK' /\ UNCHANGED <<pkg, handed>>
BY DEF VoiceRestart, DeleteMLSGroupInfo, packages, groups, PackagesOK

\* The delivery service implements the pool, for any packages, requests in
\* flight, lifetimes and failures (ConsumeMLSKeyPackage).
THEOREM ImplementsPool == VoiceSpec => GivenOnce
<1>1. VoiceInit => Pool!PoolInit /\ PackagesOK
  BY InitPackages DEF VoiceInit, Init, Pool!PoolInit, Regular, Unconsumed
<1>2. PackagesOK /\ [VoiceNext \/ Deliver]_<<vars, voice_vars>>
        => PackagesOK' /\ [Pool!PoolNext]_(Pool!pool)
  <2> SUFFICES ASSUME PackagesOK, [VoiceNext \/ Deliver]_<<vars, voice_vars>>
               PROVE  PackagesOK' /\ [Pool!PoolNext]_(Pool!pool)
    OBVIOUS
  <2>1. CASE [Next]_vars
    BY <2>1, StepOfPool
  <2>2. CASE VoiceRestart \/ \E i \in DOMAIN cleaners : DeleteMLSGroupInfo(i)
    BY <2>2, VoiceStutters DEF Pool!pool, Regular, Unconsumed
  <2> QED BY <2>1, <2>2, VoiceSteps
<1> QED BY <1>1, <1>2, PTL DEF VoiceSpec, GivenOnce, Pool!PoolSpec


-----------------------------------------------------------------------------
(***************************************************************************)
(* The warning that packages run low.                                      *)
(***************************************************************************)
SuppliesOK == lows \in Nat /\ supply \in [drawn : BOOLEAN, told : BOOLEAN, failed : BOOLEAN]

\* The rows that were not given to anyone, purged and expired ones included.
Left == {p \in Packages : Regular(p) /\ ~pkg[p].consumed}

\* What is usable is left, and both are finitely many.
LEMMA UnusedAreLeft ==
  /\ Cardinality(Unused) <= Cardinality(Left)
  /\ Cardinality(Unused) \in Nat /\ Cardinality(Left) \in Nat
<1>1. Unused \subseteq Left /\ Left \subseteq Packages
  BY DEF Unused, Left, Usable, Unconsumed
<1>2. IsFiniteSet(Packages)
  BY MlsAssumption
<1> QED BY <1>1, <1>2, FS_Subset, FS_CardinalityType

\* Rows that keep being regular and consumed or not leave the same packages.
LEMMA LeftStays ==
  ASSUME PackagesOK,
         \A p \in Packages : \/ pkg'[p] = pkg[p]
                             \/ pkg[p] = None /\ pkg'[p].last
                             \/ /\ pkg[p] # None /\ pkg'[p] # None
                                /\ pkg'[p].last = pkg[p].last /\ pkg'[p].consumed = pkg[p].consumed
  PROVE  Left' = Left
BY DEF Left, Regular

\* The last resort's upload and the purge leave them.
LEMMA QuietRows ==
  ASSUME PackagesOK, PurgeExpiredMLSKeyPackages \/ \E q \in Packages : UploadLastResort(q)
  PROVE  Left' = Left /\ UNCHANGED <<lows, supply>>
<1>1. ASSUME NEW p \in Packages, pkg[p] # None, pkg'[p] = [pkg[p] EXCEPT !.gone = TRUE]
      PROVE  /\ pkg'[p] # None /\ pkg'[p].last = pkg[p].last /\ pkg'[p].consumed = pkg[p].consumed
  <2>1. pkg[p] \in PackageRow
    BY <1>1 DEF PackagesOK
  <2>2. pkg'[p] \in PackageRow
    BY <1>1, <2>1, SetColumn
  <2>3. pkg'[p].last = pkg[p].last
    BY <1>1, <2>1 DEF PackageRow
  <2>4. pkg'[p].consumed = pkg[p].consumed
    BY <1>1, <2>1 DEF PackageRow
  <2> QED BY <2>2, <2>3, <2>4, RowsAreRows
<1>2. CASE PurgeExpiredMLSKeyPackages
  <2>1. \A p \in Packages : pkg'[p] = pkg[p] \/ (pkg[p] # None /\ pkg'[p] = [pkg[p] EXCEPT !.gone = TRUE])
    BY <1>2 DEF PurgeExpiredMLSKeyPackages, Purgeable
  <2>2. UNCHANGED <<lows, supply>>
    BY <1>2 DEF PurgeExpiredMLSKeyPackages
  <2> QED BY <1>1, <2>1, <2>2, LeftStays
<1>3. ASSUME NEW q \in Packages, UploadLastResort(q) PROVE Left' = Left /\ UNCHANGED <<lows, supply>>
  <2> DEFINE new == [last |-> TRUE, gone |-> FALSE, consumed |-> FALSE,
                     made |-> now, expires |-> now + PackageTtl]
  <2>1. pkg[q] = None /\ UNCHANGED <<lows, supply>>
        /\ pkg' = [p \in Packages |->
             IF p = q THEN new
             ELSE IF p \in LastResort THEN [pkg[p] EXCEPT !.gone = TRUE] ELSE pkg[p]]
    BY <1>3 DEF UploadLastResort
  <2>2. new.last
    OBVIOUS
  <2> HIDE DEF new
  <2>3. \A p \in Packages \ {q} :
          pkg'[p] = pkg[p] \/ (pkg[p] # None /\ pkg'[p] = [pkg[p] EXCEPT !.gone = TRUE])
    BY <2>1 DEF LastResort
  <2>4. pkg'[q].last
    BY <2>1, <2>2
  <2> QED BY <1>1, <2>1, <2>3, <2>4, LeftStays
<1> QED BY <1>2, <1>3

\* The goroutine that counts either tells the owner or finds enough.
LEMMA CountTells ==
  ASSUME SuppliesOK, MaybeSendKeyPackagesLow PROVE (SuppliesOK /\ LowIsTold)'
<1>1. lows \in Nat /\ lows > 0 /\ lows' = lows - 1 /\ pkg' = pkg
  BY DEF SuppliesOK, MaybeSendKeyPackagesLow
<1>2. Left' = Left
  BY <1>1 DEF Left, Regular
<1>3. CASE supply' = [supply EXCEPT !.failed = TRUE]
  <2>1. supply'.failed /\ supply' \in [drawn : BOOLEAN, told : BOOLEAN, failed : BOOLEAN]
    BY <1>3 DEF SuppliesOK
  <2>2. lows' \in Nat
    BY <1>1
  <2>3. LowIsTold'
    BY <2>1 DEF LowIsTold
  <2> QED BY <2>1, <2>2, <2>3 DEF SuppliesOK
<1>4. CASE supply' = [supply EXCEPT !.told = @ \/ Cardinality(Unused) < LowWater]
  <2> DEFINE low == Cardinality(Unused) < LowWater
             told == supply.told \/ low
  <2>1. supply' = [supply EXCEPT !.told = told] /\ told \in BOOLEAN
    BY <1>4
  <2>2. low => told
    OBVIOUS
  <2>3. ~low => ~(Cardinality(Left) < LowWater)
    BY UnusedAreLeft, MlsAssumption
  <2> HIDE DEF told
  <2>4. supply'.told = told /\ supply' \in [drawn : BOOLEAN, told : BOOLEAN, failed : BOOLEAN]
    BY <2>1 DEF SuppliesOK
  <2>5. LowIsTold'
    <3>1. ~low => ~(Cardinality(Left') < LowWater)
      BY <1>2, <2>3
    <3> HIDE DEF low
    <3> QED BY <2>2, <2>4, <3>1 DEF LowIsTold, Left
  <2> QED BY <1>1, <2>4, <2>5 DEF SuppliesOK
<1> QED BY <1>3, <1>4 DEF MaybeSendKeyPackagesLow

\* A step of the delivery service keeps the warning.
LEMMA NextLow ==
  ASSUME PackagesOK, SuppliesOK, LowIsTold, [Next]_vars PROVE (SuppliesOK /\ LowIsTold)'
<1>1. CASE UNCHANGED <<pkg, lows, supply>>
  BY <1>1 DEF SuppliesOK, LowIsTold, Regular
<1>2. CASE Left' = Left /\ UNCHANGED <<lows, supply>>
  BY <1>2 DEF SuppliesOK, LowIsTold, Left
<1>3. CASE GoCount
  <2>1. lows' \in Nat /\ lows' # 0
    BY <1>3 DEF GoCount, SuppliesOK
  <2> QED BY <1>3, <2>1 DEF GoCount, SuppliesOK, LowIsTold
<1>4. CASE supply' = [drawn |-> FALSE, told |-> FALSE, failed |-> FALSE] /\ lows' = lows
  BY <1>4 DEF SuppliesOK, LowIsTold
<1>5. CASE Restart
  BY <1>5 DEF Restart, SuppliesOK, LowIsTold
<1>6. CASE MaybeSendKeyPackagesLow
  BY <1>6, CountTells
<1>7. CASE PackageNext
  <2>1. CASE \E P \in SUBSET Packages : UploadKeyPackages(P)
    BY <1>4, <2>1 DEF UploadKeyPackages
  <2>2. CASE PurgeExpiredMLSKeyPackages \/ \E q \in Packages : UploadLastResort(q)
    BY <1>2, <2>2, QuietRows
  <2>3. CASE \E q \in Packages : ConsumeRegular(q)
    BY <1>3, <2>3 DEF ConsumeRegular, HandOut
  <2>4. CASE \E s \in Workers : ConsumeMiss(s) \/ ConsumeLastResort(s)
    BY <1>1, <1>3, <2>4 DEF ConsumeMiss, ConsumeLastResort, packages
  <2>5. CASE Tick
    BY <1>1, <2>5 DEF Tick, packages
  <2> QED BY <1>6, <1>7, <2>1, <2>2, <2>3, <2>4, <2>5 DEF PackageNext
<1>8. CASE GroupNext \/ (\E s \in Workers : Abandon(s)) \/ UNCHANGED vars
  BY <1>1, <1>8 DEF GroupNext, PutGroupInfo, DeleteGuildGroupInfo, PostCommit, PostInfo,
       AppendMLSCommit, GetCommitsSinceEpoch, Abandon, vars, packages
<1> QED BY <1>5, <1>7, <1>8 DEF Next

\* For every number of packages, consumers and counts in flight: when packages
\* were taken since the last upload and too few are left, the owner has been
\* told, or a count is still to run, or one failed or was lost.
THEOREM OwnerIsTold == VoiceSpec => []LowIsTold
<1> DEFINE LowInv == PackagesOK /\ SuppliesOK /\ LowIsTold
<1>1. VoiceInit => LowInv
  BY InitPackages DEF VoiceInit, Init, SuppliesOK, LowIsTold
<1>2. LowInv /\ [VoiceNext \/ Deliver]_<<vars, voice_vars>> => LowInv'
  <2> SUFFICES ASSUME LowInv, [VoiceNext \/ Deliver]_<<vars, voice_vars>> PROVE LowInv'
    OBVIOUS
  <2>1. CASE [Next]_vars
    BY <2>1, NextLow, StepOfPool
  <2>2. CASE \E i \in DOMAIN cleaners : DeleteMLSGroupInfo(i)
    <3>1. UNCHANGED <<pkg, lows, supply>>
      BY <2>2 DEF DeleteMLSGroupInfo, packages
    <3> QED BY <2>2, <3>1, VoiceStutters DEF SuppliesOK, LowIsTold, Regular
  <2>3. CASE VoiceRestart
    <3>1. pkg' = pkg /\ lows' = 0 /\ supply' = [supply EXCEPT !.failed = @ \/ lows > 0]
      BY <2>3 DEF VoiceRestart
    <3>2. supply'.failed = (supply.failed \/ lows > 0) /\ supply'.told = supply.told
          /\ supply'.drawn = supply.drawn /\ SuppliesOK'
      BY <3>1 DEF SuppliesOK
    <3>3. lows = 0 \/ lows > 0
      BY DEF SuppliesOK
    <3>4. LowIsTold'
      BY <3>1, <3>2, <3>3 DEF LowIsTold, Regular
    <3> QED BY <2>3, <3>2, <3>4, VoiceStutters
  <2> QED BY <2>1, <2>2, <2>3, VoiceSteps
<1> QED BY <1>1, <1>2, PTL DEF VoiceSpec


-----------------------------------------------------------------------------
(***************************************************************************)
(* Group info and commits.                                                 *)
(***************************************************************************)
InfoRow == [epoch : Nat, write : Nat]
CommitRow == [group : ChannelGroups, epoch : Epochs, write : Nat]
Stages == {"idle", "lastResort", "info", "append"}
JobRow == [pc : Stages, group : ChannelGroups, epoch : Epochs, write : Nat]

\* The tables hold rows, and the reader has numbers of rows.
GroupsOK ==
  /\ writes \in Nat
  /\ info \in [Groups -> InfoRow \cup {None}]
  /\ commit \in Seq(CommitRow)
  /\ reader \in [since : Nat, got : SUBSET Nat, late : SUBSET Nat]
  /\ job \in [Workers -> JobRow]

\* An info row is not None.
LEMMA InfoIsThere == ASSUME NEW r \in InfoRow PROVE r # None
BY MlsAssumption DEF InfoRow

\* A worker without a request has a row like any other.
LEMMA IdleIsRow == Idle \in JobRow /\ Idle.write = 0
<1>1. 0 \in Epochs /\ "text" \in ChannelGroups /\ "idle" \in Stages
  BY MlsAssumption DEF ChannelGroups, Epochs, Stages
<1>2. Idle \in JobRow
  BY <1>1 DEF Idle, JobRow
<1> QED BY <1>2 DEF Idle

\* The service starts with empty tables.
LEMMA InitGroups == Init => GroupsOK
<1> SUFFICES ASSUME Init PROVE GroupsOK
  OBVIOUS
<1>1. reader \in [since : Nat, got : SUBSET Nat, late : SUBSET Nat]
  BY DEF Init
<1>2. commit \in Seq(CommitRow) /\ writes \in Nat
  BY DEF Init
<1>3. job \in [Workers -> JobRow]
  BY IdleIsRow DEF Init
<1>4. info \in [Groups -> InfoRow \cup {None}]
  BY DEF Init
<1> QED BY <1>1, <1>2, <1>3, <1>4 DEF GroupsOK

\* Any request in flight may move on or end without touching the tables.
LEMMA JobMoves ==
  ASSUME GroupsOK, UNCHANGED <<writes, info, commit, reader>>, NEW s \in Workers, NEW j \in JobRow,
         job' = [job EXCEPT ![s] = j]
  PROVE  GroupsOK'
BY DEF GroupsOK

\* The row of a request with new fields is a row.
LEMMA RowsOfRequests ==
  ASSUME NEW g \in ChannelGroups, NEW e \in Epochs, NEW pc \in Stages
  PROVE  /\ [Idle EXCEPT !.pc = pc] \in JobRow
         /\ [Idle EXCEPT !.pc = pc, !.group = g, !.epoch = e] \in JobRow
         /\ [Idle EXCEPT !.pc = pc].write = 0
         /\ [Idle EXCEPT !.pc = pc, !.group = g, !.epoch = e].write = 0
<1> DEFINE j == [Idle EXCEPT !.pc = pc]
           k == [Idle EXCEPT !.pc = pc, !.group = g, !.epoch = e]
<1>1. j \in JobRow
  BY IdleIsRow DEF JobRow
<1>2. k \in JobRow
  BY IdleIsRow DEF JobRow
<1>3. j.write = 0
  BY IdleIsRow DEF JobRow
<1>4. k.write = 0
  BY IdleIsRow DEF JobRow
<1> QED BY <1>1, <1>2, <1>3, <1>4

\* A write of group info stores a row with the next number.
LEMMA Upserts ==
  ASSUME GroupsOK, NEW g \in Groups, NEW e \in Epochs, UpsertMLSGroupInfo(g, e)
  PROVE  /\ writes' = writes + 1 /\ writes' \in Nat
         /\ info' \in [Groups -> InfoRow \cup {None}]
         /\ info'[g] \in InfoRow /\ info'[g].write = writes + 1
         /\ \A f \in Groups : f # g => info'[f] = info[f]
<1> DEFINE r == [epoch |-> e, write |-> writes + 1]
<1>1. r \in InfoRow /\ r.write = writes + 1 /\ writes + 1 \in Nat
  BY MlsAssumption DEF InfoRow, Epochs, GroupsOK
<1>2. info' = [info EXCEPT ![g] = r] /\ writes' = writes + 1
  BY DEF UpsertMLSGroupInfo
<1> HIDE DEF r
<1> QED BY <1>1, <1>2 DEF GroupsOK

\* The commit's row goes to the end of the table.
LEMMA Appends ==
  ASSUME GroupsOK, NEW s \in Workers, AppendMLSCommit(s)
  PROVE  /\ commit' \in Seq(CommitRow) /\ Len(commit') = Len(commit) + 1
         /\ \A i \in 1..Len(commit) : commit'[i] = commit[i]
         /\ commit'[Len(commit) + 1].group = job[s].group
         /\ commit'[Len(commit) + 1].write = job[s].write
         /\ reader'.since = reader.since /\ reader'.got = reader.got
         /\ reader.late \subseteq reader'.late
         /\ Effective(commit', Len(commit) + 1) <= reader.since => Len(commit) + 1 \in reader'.late
         /\ reader' \in [since : Nat, got : SUBSET Nat, late : SUBSET Nat]
<1> DEFINE c == [group |-> job[s].group, epoch |-> job[s].epoch, write |-> job[s].write]
           n == Len(commit) + 1
<1>1. /\ commit' = Append(commit, c)
      /\ reader' = IF Effective(commit', n) <= reader.since
                   THEN [reader EXCEPT !.late = @ \cup {n}] ELSE reader
  BY DEF AppendMLSCommit
<1>2. c \in CommitRow /\ c.group = job[s].group /\ c.write = job[s].write
  BY DEF CommitRow, JobRow, GroupsOK
<1>3. commit \in Seq(CommitRow) /\ n \in Nat /\ reader \in [since : Nat, got : SUBSET Nat, late : SUBSET Nat]
  BY DEF GroupsOK
<1> HIDE DEF c
<1>4. /\ commit' \in Seq(CommitRow) /\ Len(commit') = Len(commit) + 1 /\ commit'[n] = c
      /\ \A i \in 1..Len(commit) : commit'[i] = commit[i]
  BY <1>1, <1>2, <1>3, AppendProperties
<1> DEFINE b == Effective(commit', n) <= reader.since
<1>5. reader' = IF b THEN [reader EXCEPT !.late = @ \cup {n}] ELSE reader
  BY <1>1
<1>6. /\ reader'.since = reader.since /\ reader'.got = reader.got
      /\ reader.late \subseteq reader'.late
      /\ b => n \in reader'.late
      /\ reader' \in [since : Nat, got : SUBSET Nat, late : SUBSET Nat]
  <2> HIDE DEF b, n
  <2> QED BY <1>3, <1>5
<1> QED BY <1>2, <1>4, <1>6

\* The epoch that a row counts as is a number, and bounded.
LEMMA EffectiveIsNumber ==
  ASSUME GroupsOK, NEW i \in DOMAIN commit
  PROVE  Effective(commit, i) \in Nat /\ Effective(commit, i) <= MaxEpoch + Len(commit)
<1>1. commit[i] \in CommitRow /\ i \in 1..Len(commit) /\ Len(commit) \in Nat
  BY DEF GroupsOK
<1>2. commit[i].epoch \in 0..MaxEpoch /\ MaxEpoch \in Nat
  BY <1>1, MlsAssumption DEF CommitRow, Epochs
<1> QED BY <1>1, <1>2 DEF Effective

\* A set of numbers that is not empty has a least one.
LEMMA Least == ASSUME NEW T \in SUBSET Nat, T # {} PROVE \E x \in T : \A y \in T : x <= y
<1> DEFINE R == OpToRel(<, Nat)
<1>1. IsWellFoundedOn(R, Nat)
  BY NatLessThanWellFounded
<1>2. \A x, y \in Nat : y < x => <<y, x>> \in R
  BY DEF OpToRel
<1> HIDE DEF R
<1>3. PICK x \in T : \A y \in T : ~ (<<y, x>> \in R)
  BY <1>1, WFMin
<1>4. ASSUME NEW y \in T PROVE x <= y
  <2>1. x \in Nat /\ y \in Nat
    OBVIOUS
  <2>2. ~(y < x)
    BY <1>2, <1>3, <2>1
  <2> QED BY <2>1, <2>2
<1> QED BY <1>4

\* A bounded one has a greatest.
LEMMA Greatest ==
  ASSUME NEW E \in SUBSET Nat, E # {}, NEW B \in Nat, \A e \in E : e <= B
  PROVE  \E x \in E : \A y \in E : y <= x
<1> DEFINE T == {B - e : e \in E}
<1>1. T \in SUBSET Nat
  <2>1. \A e \in E : B - e \in Nat
    OBVIOUS
  <2> QED BY <2>1
<1>5. T # {}
  OBVIOUS
<1>2. PICK x \in T : \A y \in T : x <= y
  <2> HIDE DEF T
  <2> QED BY <1>1, <1>5, Least
<1>3. PICK e \in E : x = B - e
  BY <1>2
<1>4. ASSUME NEW y \in E PROVE y <= e
  <2>1. x <= B - y /\ y \in Nat /\ e \in Nat
    BY <1>2
  <2> QED BY <1>3, <2>1
<1> QED BY <1>4

\* A page moves the reader to the greatest epoch that it holds.
LEMMA PageMoves ==
  ASSUME GroupsOK, NEW S \in SUBSET (DOMAIN commit), GetCommitsSinceEpoch(S)
  PROVE  /\ reader' \in [since : Nat, got : SUBSET Nat, late : SUBSET Nat]
         /\ reader'.got = reader.got \cup S /\ reader'.late = reader.late
         /\ \E k \in S : reader'.since = Effective(commit, k)
         /\ \A i \in S : Effective(commit, i) <= reader'.since
<1> DEFINE E == {Effective(commit, i) : i \in S}
           mx == CHOOSE e \in E : \A i \in S : Effective(commit, i) <= e
<1>1. /\ reader' = [reader EXCEPT !.got = @ \cup S, !.since = mx]
      /\ S # {}
  BY DEF GetCommitsSinceEpoch
<1>2. E \in SUBSET Nat /\ E # {} /\ \A e \in E : e <= MaxEpoch + Len(commit)
  BY <1>1, EffectiveIsNumber
<1>3. MaxEpoch + Len(commit) \in Nat
  BY MlsAssumption DEF GroupsOK
<1>4. \E x \in E : \A y \in E : y <= x
  <2> HIDE DEF E
  <2> QED BY <1>2, <1>3, Greatest
<1>5. \E e \in E : \A i \in S : Effective(commit, i) <= e
  BY <1>4
<1>6. mx \in E /\ \A i \in S : Effective(commit, i) <= mx
  <2> HIDE DEF E
  <2> QED BY <1>5
<1>7. (\E k \in S : mx = Effective(commit, k)) /\ mx \in Nat
  <2> HIDE DEF mx
  <2> QED BY <1>2, <1>6
<1>8. S \subseteq Nat
  BY DEF GroupsOK
<1> HIDE DEF mx
<1>9. reader \in [since : Nat, got : SUBSET Nat, late : SUBSET Nat]
  BY DEF GroupsOK
<1>10. /\ reader' \in [since : Nat, got : SUBSET Nat, late : SUBSET Nat]
       /\ reader'.got = reader.got \cup S /\ reader'.late = reader.late
       /\ reader'.since = mx
  BY <1>1, <1>7, <1>8, <1>9
<1> QED BY <1>6, <1>7, <1>10


\* What a request or a package's step does to the tables: nothing, while the
\* request starts, moves on or ends.
LEMMA QuietGroups ==
  ASSUME GroupsOK,
         \/ PackageNext \/ Restart \/ UNCHANGED vars \/ (\E s \in Workers : Abandon(s))
         \/ \E s \in Workers, g \in ChannelGroups, e \in Epochs, b \in BOOLEAN : PostCommit(s, g, e, b)
  PROVE  /\ UNCHANGED <<writes, info, commit, reader>> /\ GroupsOK'
         /\ \A s \in Workers : job'[s] = job[s] \/ job'[s].write = 0
<1> DEFINE Goal == /\ UNCHANGED <<writes, info, commit, reader>> /\ GroupsOK'
                   /\ \A s \in Workers : job'[s] = job[s] \/ job'[s].write = 0
<1>1. ASSUME UNCHANGED <<groups, job>> PROVE Goal
  BY <1>1 DEF GroupsOK, groups
<1>2. ASSUME NEW s \in Workers, NEW j \in JobRow, j.write = 0, UNCHANGED groups,
             job' = [job EXCEPT ![s] = j]
      PROVE  Goal
  <2>1. UNCHANGED <<writes, info, commit, reader>>
    BY <1>2 DEF groups
  <2>2. GroupsOK'
    BY <1>2, <2>1, JobMoves
  <2> QED BY <1>2, <2>1, <2>2 DEF GroupsOK
<1> SUFFICES Goal
  OBVIOUS
<1> HIDE DEF Goal
<1>3. ASSUME NEW s \in Workers, job' = [job EXCEPT ![s] = Idle], UNCHANGED groups PROVE Goal
  BY <1>2, <1>3, IdleIsRow
<1>4. CASE PackageNext
  <2>1. ASSUME NEW s \in Workers, ConsumeMiss(s) PROVE Goal
    <3> DEFINE j == [Idle EXCEPT !.pc = "lastResort"]
    <3>1. "lastResort" \in Stages /\ "text" \in ChannelGroups /\ 0 \in Epochs
      BY MlsAssumption DEF Stages, ChannelGroups, Epochs
    <3>3. j \in JobRow /\ j.write = 0
      BY <3>1, RowsOfRequests
    <3>2. job' = [job EXCEPT ![s] = j] /\ UNCHANGED groups
      BY <2>1 DEF ConsumeMiss, Start
    <3> HIDE DEF j
    <3> QED BY <1>2, <3>2, <3>3
  <2>2. ASSUME NEW s \in Workers, ConsumeLastResort(s) PROVE Goal
    BY <1>3, <2>2 DEF ConsumeLastResort, Done
  <2>3. CASE UNCHANGED <<groups, job>>
    BY <1>1, <2>3
  <2> QED BY <1>4, <2>1, <2>2, <2>3 DEF PackageNext, UploadKeyPackages, UploadLastResort,
            ConsumeRegular, MaybeSendKeyPackagesLow, PurgeExpiredMLSKeyPackages, Tick
<1>5. CASE Restart
  BY <1>5, IdleIsRow DEF Goal, Restart, groups, GroupsOK
<1>6. CASE \E s \in Workers : Abandon(s)
  BY <1>3, <1>6 DEF Abandon, Done
<1>7. ASSUME NEW s \in Workers, NEW g \in ChannelGroups, NEW e \in Epochs, NEW b \in BOOLEAN,
             PostCommit(s, g, e, b)
      PROVE  Goal
  <2> DEFINE pc == IF b THEN "info" ELSE "append"
             j == [Idle EXCEPT !.pc = pc, !.group = g, !.epoch = e]
  <2>1. job' = [job EXCEPT ![s] = j] /\ UNCHANGED groups
    BY <1>7 DEF PostCommit, Start
  <2>2. pc \in Stages
    BY DEF Stages
  <2>3. j \in JobRow /\ j.write = 0
    <3> HIDE DEF pc
    <3> QED BY <2>2, RowsOfRequests
  <2> HIDE DEF j
  <2> QED BY <1>2, <2>1, <2>3
<1> QED BY <1>1, <1>4, <1>5, <1>6, <1>7 DEF Goal, vars

\* postCommit stores the group info that came with the commit.
LEMMA PostInfoStores ==
  ASSUME GroupsOK, NEW s \in Workers, PostInfo(s)
  PROVE  /\ UNCHANGED <<commit, reader>> /\ GroupsOK'
         /\ UpsertMLSGroupInfo(job[s].group, job[s].epoch)
         /\ job'[s].group = job[s].group /\ job'[s].write = writes + 1
         /\ \A t \in Workers : t # s => job'[t] = job[t]
<1>1. job[s] \in JobRow /\ job[s].group \in Groups /\ job[s].epoch \in Epochs
  BY DEF GroupsOK, JobRow, Groups
<1>2. UpsertMLSGroupInfo(job[s].group, job[s].epoch) /\ UNCHANGED <<commit, reader>>
  BY DEF PostInfo
<1>3. writes' \in Nat /\ writes' = writes + 1 /\ info' \in [Groups -> InfoRow \cup {None}]
  BY <1>1, <1>2, Upserts
<1> DEFINE k == writes + 1
           j == [job[s] EXCEPT !.pc = "append", !.write = k]
<1>4. k \in Nat
  BY <1>3
<1>5. job' = [job EXCEPT ![s] = j]
  BY DEF PostInfo, GroupsOK
<1>6. j \in JobRow
  <2>1. "append" \in Stages
    BY DEF Stages
  <2> HIDE DEF k
  <2> QED BY <1>1, <1>4, <2>1 DEF JobRow
<1>7. j.group = job[s].group
  BY <1>1 DEF JobRow
<1>8. j.write = k
  <2> HIDE DEF k
  <2> QED BY <1>1 DEF JobRow
<1> HIDE DEF j
<1>9. job'[s] = j /\ (\A t \in Workers : t # s => job'[t] = job[t]) /\ job' \in [Workers -> JobRow]
  BY <1>5, <1>6 DEF GroupsOK
<1>10. GroupsOK'
  BY <1>2, <1>3, <1>9 DEF GroupsOK
<1> QED BY <1>2, <1>7, <1>8, <1>9, <1>10

\* A step of the service keeps the types of the tables.
LEMMA NextGroups == ASSUME GroupsOK, [Next]_vars PROVE GroupsOK'
<1>1. ASSUME NEW g \in Groups, NEW e \in Epochs, PutGroupInfo(g, e) PROVE GroupsOK'
  <2>1. UpsertMLSGroupInfo(g, e) /\ UNCHANGED <<commit, reader, job>>
    BY <1>1 DEF PutGroupInfo
  <2> QED BY <2>1, Upserts DEF GroupsOK
<1>2. CASE DeleteGuildGroupInfo
  BY <1>2 DEF DeleteGuildGroupInfo, GroupsOK
<1>3. ASSUME NEW s \in Workers, AppendMLSCommit(s) PROVE GroupsOK'
  <2>1. job' = [job EXCEPT ![s] = Idle] /\ UNCHANGED <<info, writes>>
    BY <1>3 DEF AppendMLSCommit, Done
  <2>2. /\ commit' \in Seq(CommitRow)
        /\ reader' \in [since : Nat, got : SUBSET Nat, late : SUBSET Nat]
    BY <1>3, Appends
  <2> QED BY <2>1, <2>2, IdleIsRow DEF GroupsOK
<1>4. ASSUME NEW S \in SUBSET (DOMAIN commit), GetCommitsSinceEpoch(S) PROVE GroupsOK'
  <2>1. UNCHANGED <<info, writes, commit, job>>
    BY <1>4 DEF GetCommitsSinceEpoch
  <2>2. reader' \in [since : Nat, got : SUBSET Nat, late : SUBSET Nat]
    BY <1>4, PageMoves
  <2> QED BY <2>1, <2>2 DEF GroupsOK
<1> QED BY <1>1, <1>2, <1>3, <1>4, QuietGroups, PostInfoStores DEF Next, GroupNext

\* The rest of the server keeps them too.
LEMMA VoiceGroups ==
  ASSUME GroupsOK, VoiceRestart \/ \E i \in DOMAIN cleaners : DeleteMLSGroupInfo(i)
  PROVE  GroupsOK' /\ UNCHANGED <<commit, reader, writes>>
<1>1. CASE VoiceRestart
  BY <1>1, IdleIsRow DEF VoiceRestart, groups, GroupsOK
<1>2. CASE \E i \in DOMAIN cleaners : DeleteMLSGroupInfo(i)
  BY <1>2 DEF DeleteMLSGroupInfo, GroupsOK
<1> QED BY <1>1, <1>2

-----------------------------------------------------------------------------
\* What the reader has got are rows of the table.
ReaderOK == reader.got \subseteq DOMAIN commit

\* An appended row is ahead of the reader or counted as late.
LEMMA AppendPaging ==
  ASSUME GroupsOK, ReaderOK, PagingComplete, NEW s \in Workers, AppendMLSCommit(s)
  PROVE  (ReaderOK /\ PagingComplete)'
<1> DEFINE n == Len(commit) + 1
<1>1. /\ commit' \in Seq(CommitRow) /\ Len(commit') = n
      /\ \A i \in 1..Len(commit) : commit'[i] = commit[i]
      /\ reader'.since = reader.since /\ reader'.got = reader.got
      /\ reader.late \subseteq reader'.late
      /\ Effective(commit', n) <= reader.since => n \in reader'.late
  BY Appends
<1>2. DOMAIN commit = 1..Len(commit) /\ DOMAIN commit' = 1..n /\ Len(commit) \in Nat
  BY <1>1 DEF GroupsOK
<1>3. \A i \in DOMAIN commit : Effective(commit', i) = Effective(commit, i)
  BY <1>1, <1>2 DEF Effective
<1>4. DOMAIN commit' = DOMAIN commit \cup {n}
  BY <1>2
<1>5. ReaderOK'
  BY <1>1, <1>4 DEF ReaderOK
<1>6. ASSUME NEW i \in DOMAIN commit', Effective(commit', i) <= reader'.since
      PROVE  \/ i \in reader'.got \cup reader'.late
             \/ \E k \in reader'.got : Effective(commit', k) = Effective(commit', i)
  <2>1. CASE i = n
    BY <1>1, <1>6, <2>1
  <2>2. CASE i \in DOMAIN commit
    <3>1. \/ i \in reader.got \cup reader.late
          \/ \E k \in reader.got : Effective(commit, k) = Effective(commit, i)
      BY <1>1, <1>3, <1>6, <2>2 DEF PagingComplete
    <3> QED BY <1>1, <1>3, <2>2, <3>1 DEF ReaderOK
  <2> QED BY <1>4, <2>1, <2>2
<1> QED BY <1>5, <1>6 DEF PagingComplete

\* What a page leaves out below its last epoch is of that epoch.
LEMMA PagePaging ==
  ASSUME GroupsOK, ReaderOK, PagingComplete, NEW S \in SUBSET (DOMAIN commit), GetCommitsSinceEpoch(S)
  PROVE  (ReaderOK /\ PagingComplete)'
<1>1. /\ reader'.got = reader.got \cup S /\ reader'.late = reader.late
      /\ \A i \in S : Effective(commit, i) <= reader'.since
      /\ reader'.since \in Nat /\ reader.since \in Nat
  BY PageMoves DEF GroupsOK
<1>2. PICK m \in S : reader'.since = Effective(commit, m)
  BY PageMoves
<1>3. commit' = commit
  BY DEF GetCommitsSinceEpoch
<1>4. \A i \in S, k \in DOMAIN commit \ S :
        Effective(commit, k) > reader.since => Effective(commit, i) <= Effective(commit, k)
  BY DEF GetCommitsSinceEpoch, IsPage
<1>5. ASSUME NEW i \in DOMAIN commit, Effective(commit, i) <= reader'.since
      PROVE  \/ i \in reader'.got \cup reader'.late
             \/ \E k \in reader'.got : Effective(commit, k) = Effective(commit, i)
  <2>1. Effective(commit, i) \in Nat /\ Effective(commit, m) \in Nat
    BY EffectiveIsNumber
  <2>2. CASE Effective(commit, i) <= reader.since
    BY <1>1, <2>2 DEF PagingComplete
  <2>3. CASE i \in S
    BY <1>1, <2>3
  <2>4. CASE Effective(commit, i) > reader.since /\ i \notin S
    <3>1. Effective(commit, m) <= Effective(commit, i)
      BY <1>4, <2>4
    <3>2. Effective(commit, m) = Effective(commit, i)
      BY <1>2, <1>5, <2>1, <3>1
    <3> QED BY <1>1, <3>2
  <2> QED BY <1>1, <2>1, <2>2, <2>3, <2>4
<1> QED BY <1>1, <1>3, <1>5 DEF PagingComplete, ReaderOK

\* For every length of the table, epochs that clients name, page limit and
\* order of requests: a client that pages has got every commit up to the epoch
\* that it has reached, but late ones and those of an epoch a page ended in.
THEOREM PagesAreComplete == VoiceSpec => []PagingComplete
<1> DEFINE PagingInv == GroupsOK /\ ReaderOK /\ PagingComplete
<1>1. VoiceInit => PagingInv
  BY InitGroups DEF VoiceInit, Init, ReaderOK, PagingComplete
<1>2. PagingInv /\ [VoiceNext \/ Deliver]_<<vars, voice_vars>> => PagingInv'
  <2> SUFFICES ASSUME PagingInv, [VoiceNext \/ Deliver]_<<vars, voice_vars>> PROVE PagingInv'
    OBVIOUS
  <2>1. CASE UNCHANGED <<commit, reader>>
    <3>1. (ReaderOK /\ PagingComplete)'
      BY <2>1 DEF ReaderOK, PagingComplete
    <3> QED BY <3>1, NextGroups, VoiceGroups, VoiceSteps
  <2>2. CASE [Next]_vars
    <3>1. CASE \E s \in Workers : AppendMLSCommit(s)
      BY <2>2, <3>1, AppendPaging, NextGroups
    <3>2. CASE \E S \in SUBSET (DOMAIN commit) : GetCommitsSinceEpoch(S)
      BY <2>2, <3>2, PagePaging, NextGroups
    <3> QED BY <2>1, <2>2, <3>1, <3>2, QuietGroups, PostInfoStores
          DEF Next, GroupNext, PutGroupInfo, DeleteGuildGroupInfo
  <2> QED BY <2>1, <2>2, VoiceGroups, VoiceSteps
<1> QED BY <1>1, <1>2, PTL DEF VoiceSpec


-----------------------------------------------------------------------------
\* The info F of a group is at least as new as the write w, or was a voice
\* group's and is deleted.
Covers(F, g, w) == IF F[g] = None THEN g = "voice" ELSE F[g].write >= w

\* Writes are numbered in their order, and both the commits and the requests
\* that have stored their info and not yet their commit are covered.
CoverInv ==
  /\ GroupsOK
  /\ \A g \in Groups : info[g] # None => info[g].write <= writes
  /\ \A i \in DOMAIN commit : /\ commit[i].write <= writes
                              /\ commit[i].write > 0 => Covers(info, commit[i].group, commit[i].write)
  /\ \A s \in Workers : /\ job[s].write <= writes
                        /\ job[s].write > 0 => Covers(info, job[s].group, job[s].write)

\* Whatever happens to the info, an older write stays covered.
LEMMA CoverStays ==
  ASSUME GroupsOK, NEW F \in [Groups -> InfoRow \cup {None}], NEW g \in ChannelGroups,
         NEW w \in Nat, w <= writes, Covers(info, g, w),
         \/ F[g] = info[g]
         \/ g = "voice" /\ F[g] = None
         \/ F[g] \in InfoRow /\ F[g].write = writes + 1
  PROVE  Covers(F, g, w)
<1>1. writes \in Nat
  BY DEF GroupsOK
<1>2. CASE F[g] \in InfoRow /\ F[g].write = writes + 1
  BY <1>1, <1>2, InfoIsThere DEF Covers
<1>3. CASE F[g] = info[g] \/ (g = "voice" /\ F[g] = None)
  BY <1>3 DEF Covers
<1> QED BY <1>2, <1>3

\* A step that changes info only in these ways keeps the commits covered, and
\* the requests that it leaves alone.
LEMMA CoverStep ==
  ASSUME CoverInv, GroupsOK', commit' = commit,
         NEW N \in SUBSET Workers,
         \A s \in N : job'[s] = job[s] \/ job'[s].write = 0,
         \A s \in Workers \ N : job'[s].write <= writes'
                                /\ Covers(info', job'[s].group, job'[s].write),
         writes' >= writes,
         \A g \in Groups : \/ info'[g] = info[g]
                           \/ g = "voice" /\ info'[g] = None
                           \/ g = "metadata" /\ info'[g] = None
                           \/ info'[g] \in InfoRow /\ info'[g].write = writes + 1 /\ writes' = writes + 1
  PROVE  CoverInv'
<1>1. writes \in Nat /\ writes' \in Nat /\ info' \in [Groups -> InfoRow \cup {None}]
  BY DEF CoverInv, GroupsOK
<1>2. \A g \in ChannelGroups : g \in Groups /\ g # "metadata"
  BY DEF ChannelGroups, Groups
<1>3. ASSUME NEW g \in ChannelGroups, NEW w \in Nat, w <= writes, Covers(info, g, w)
      PROVE  Covers(info', g, w)
  BY <1>1, <1>2, <1>3, CoverStays DEF CoverInv
<1>4. ASSUME NEW i \in DOMAIN commit
      PROVE  /\ commit[i].write <= writes'
             /\ commit[i].write > 0 => Covers(info', commit[i].group, commit[i].write)
  <2>1. commit[i].group \in ChannelGroups /\ commit[i].write \in Nat
    <3>1. commit \in Seq(CommitRow)
      BY DEF CoverInv, GroupsOK
    <3>2. commit[i] \in CommitRow
      BY <3>1
    <3> QED BY <3>2 DEF CommitRow
  <2> QED BY <1>1, <1>3, <2>1 DEF CoverInv
<1>5. ASSUME NEW s \in Workers
      PROVE  /\ job'[s].write <= writes'
             /\ job'[s].write > 0 => Covers(info', job'[s].group, job'[s].write)
  <2>1. CASE s \in N /\ job'[s] = job[s]
    <3>1. job[s].group \in ChannelGroups /\ job[s].write \in Nat
      BY DEF CoverInv, GroupsOK, JobRow
    <3>2. job[s].write <= writes /\ (job[s].write > 0 => Covers(info, job[s].group, job[s].write))
      BY DEF CoverInv
    <3>3. job[s].write > 0 => Covers(info', job[s].group, job[s].write)
      BY <1>3, <3>1, <3>2
    <3>4. job[s].write <= writes'
      BY <1>1, <3>1, <3>2
    <3> QED BY <2>1, <3>3, <3>4
  <2>2. CASE s \in N /\ job'[s].write = 0
    <3>1. job'[s].write <= writes' /\ ~(job'[s].write > 0)
      BY <1>1, <2>2
    <3> QED BY <3>1
  <2>3. CASE s \in Workers \ N
    BY <2>3
  <2> QED BY <2>1, <2>2, <2>3
<1>6. ASSUME NEW g \in Groups, info'[g] # None PROVE info'[g].write <= writes'
  <2>1. info[g] # None => info[g] \in InfoRow /\ info[g].write \in Nat /\ info[g].write <= writes
    BY DEF CoverInv, GroupsOK, InfoRow
  <2> QED BY <1>1, <1>6, <2>1
<1> QED BY <1>4, <1>5, <1>6 DEF CoverInv

\* The commit takes over what its request was covered by.
LEMMA AppendCovers ==
  ASSUME CoverInv, GroupsOK', NEW s \in Workers, AppendMLSCommit(s) PROVE CoverInv'
<1> DEFINE n == Len(commit) + 1
<1>1. UNCHANGED <<info, writes>> /\ job' = [job EXCEPT ![s] = Idle]
  BY DEF AppendMLSCommit, Done
<1>2. /\ Len(commit') = n /\ \A i \in 1..Len(commit) : commit'[i] = commit[i]
      /\ commit'[n].group = job[s].group /\ commit'[n].write = job[s].write
  BY Appends DEF CoverInv
<1>3. DOMAIN commit = 1..Len(commit) /\ DOMAIN commit' = 1..n /\ Len(commit) \in Nat /\ writes \in Nat
  BY <1>2 DEF CoverInv, GroupsOK
<1>4. ASSUME NEW i \in DOMAIN commit'
      PROVE  /\ commit'[i].write <= writes
             /\ commit'[i].write > 0 => Covers(info, commit'[i].group, commit'[i].write)
  <2>1. CASE i = n
    BY <1>2, <2>1 DEF CoverInv
  <2>2. CASE i \in DOMAIN commit
    BY <1>2, <1>3, <2>2 DEF CoverInv
  <2> QED BY <1>3, <2>1, <2>2
<1>5. ASSUME NEW t \in Workers
      PROVE  /\ job'[t].write <= writes
             /\ job'[t].write > 0 => Covers(info, job'[t].group, job'[t].write)
  <2>1. CASE t = s
    BY <1>1, <1>3, <2>1, IdleIsRow DEF CoverInv, GroupsOK
  <2>2. CASE t # s
    BY <1>1, <2>2 DEF CoverInv, GroupsOK
  <2> QED BY <2>1, <2>2
<1>6. \A g \in Groups : info'[g] # None => info'[g].write <= writes'
  BY <1>1 DEF CoverInv
<1> QED BY <1>1, <1>4, <1>5, <1>6 DEF CoverInv

\* A step of the service keeps the invariant.
LEMMA NextCovers == ASSUME CoverInv, [Next]_vars PROVE CoverInv'
<1>1. GroupsOK /\ GroupsOK' /\ writes \in Nat
  BY NextGroups DEF CoverInv, GroupsOK
<1>2. ASSUME NEW g \in Groups, NEW e \in Epochs, PutGroupInfo(g, e) PROVE CoverInv'
  <2>1. UpsertMLSGroupInfo(g, e) /\ UNCHANGED <<commit, job>>
    BY <1>2 DEF PutGroupInfo
  <2>2. /\ writes' = writes + 1
        /\ info'[g] \in InfoRow /\ info'[g].write = writes + 1
        /\ \A f \in Groups : f # g => info'[f] = info[f]
    BY <1>1, <2>1, Upserts
  <2>3. Workers \in SUBSET Workers /\ writes' >= writes
    BY <1>1, <2>2
  <2> QED BY <1>1, <2>1, <2>2, <2>3, CoverStep
<1>3. CASE DeleteGuildGroupInfo
  <2>1. UNCHANGED <<commit, job, writes>> /\ writes' >= writes
    BY <1>1, <1>3 DEF DeleteGuildGroupInfo
  <2>2. \A g \in Groups : info'[g] = info[g] \/ (g = "metadata" /\ info'[g] = None)
    BY <1>1, <1>3 DEF DeleteGuildGroupInfo, GroupsOK
  <2> QED BY <1>1, <2>1, <2>2, CoverStep
<1>4. ASSUME NEW s \in Workers, PostInfo(s) PROVE CoverInv'
  <2>1. /\ commit' = commit /\ UpsertMLSGroupInfo(job[s].group, job[s].epoch)
        /\ job'[s].group = job[s].group /\ job'[s].write = writes + 1
        /\ \A t \in Workers : t # s => job'[t] = job[t]
    BY <1>1, <1>4, PostInfoStores
  <2>2. job[s].group \in Groups /\ job[s].epoch \in Epochs
    BY <1>1 DEF GroupsOK, JobRow, Groups
  <2>3. /\ writes' = writes + 1
        /\ info'[job[s].group] \in InfoRow /\ info'[job[s].group].write = writes + 1
        /\ \A f \in Groups : f # job[s].group => info'[f] = info[f]
    BY <1>1, <2>1, <2>2, Upserts
  <2>4. job'[s].write <= writes' /\ Covers(info', job'[s].group, job'[s].write)
    BY <1>1, <2>1, <2>3, InfoIsThere DEF Covers
  <2>5. writes' >= writes
    BY <1>1, <2>3
  <2>6. \A t \in Workers \ (Workers \ {s}) : t = s
    OBVIOUS
  <2> QED BY <1>1, <2>1, <2>3, <2>4, <2>5, <2>6, CoverStep
<1>5. CASE UNCHANGED <<writes, info, commit>> /\ \A s \in Workers : job'[s] = job[s] \/ job'[s].write = 0
  <2>1. writes' >= writes
    BY <1>1, <1>5
  <2> QED BY <1>1, <1>5, <2>1, CoverStep
<1>6. ASSUME NEW S \in SUBSET (DOMAIN commit), GetCommitsSinceEpoch(S) PROVE CoverInv'
  BY <1>5, <1>6 DEF GetCommitsSinceEpoch
<1>7. ASSUME NEW s \in Workers, AppendMLSCommit(s) PROVE CoverInv'
  BY <1>1, <1>7, AppendCovers
<1> QED BY <1>1, <1>2, <1>3, <1>4, <1>5, <1>6, <1>7, QuietGroups DEF Next, GroupNext

\* For every number of committers, groups' writes and deletions, in any order:
\* who reads a commit that came with group info finds that info or a newer one,
\* unless it was of a voice group whose room has emptied.
THEOREM CommitsAreCovered == VoiceSpec => []InfoCoversCommits
<1>1. VoiceInit => CoverInv
  BY InitGroups, IdleIsRow DEF VoiceInit, Init, CoverInv
<1>2. CoverInv /\ [VoiceNext \/ Deliver]_<<vars, voice_vars>> => CoverInv'
  <2> SUFFICES ASSUME CoverInv, [VoiceNext \/ Deliver]_<<vars, voice_vars>> PROVE CoverInv'
    OBVIOUS
  <2>1. CASE [Next]_vars
    BY <2>1, NextCovers
  <2>2. CASE VoiceRestart \/ \E i \in DOMAIN cleaners : DeleteMLSGroupInfo(i)
    <3>1. GroupsOK /\ GroupsOK' /\ UNCHANGED <<commit, writes>> /\ writes \in Nat
      BY <2>2, VoiceGroups DEF CoverInv, GroupsOK
    <3>2. \A s \in Workers : job'[s] = job[s] \/ job'[s].write = 0
      BY <2>2, IdleIsRow DEF VoiceRestart, DeleteMLSGroupInfo
    <3>3. \A g \in Groups : info'[g] = info[g] \/ (g = "voice" /\ info'[g] = None)
      BY <2>2, <3>1 DEF VoiceRestart, DeleteMLSGroupInfo, GroupsOK, groups
    <3>4. writes' >= writes
      BY <3>1
    <3> QED BY <3>1, <3>2, <3>3, <3>4, CoverStep
  <2> QED BY <2>1, <2>2, VoiceSteps
<1>3. CoverInv => InfoCoversCommits
  BY DEF CoverInv, InfoCoversCommits, Covers
<1> QED BY <1>1, <1>2, <1>3, PTL DEF VoiceSpec


-----------------------------------------------------------------------------
(***************************************************************************)
(* The bars of the voice channel.                                          *)
(***************************************************************************)
AskRow == [at : 0..5, slipped : SUBSET Bars]

\* The checks before the n-th.
Before(n) == {Checks[i] : i \in 1..(n - 1)}

\* A bar b that was set behind the back of the token request a is known as
\* slipped, and the token p is marked with every bar.
GateOf(b, a, p) == b \cap Before(a.at) \subseteq a.slipped /\ (p # None => b \subseteq p)

GateOK ==
  /\ room \subseteq Users
  /\ bar \in [Users -> SUBSET Bars] /\ evict \in [Users -> SUBSET Bars]
  /\ stay \in [Users -> SUBSET Bars] /\ ask \in [Users -> AskRow]
  /\ pass \in [Users -> (SUBSET Bars) \cup {None}]

GateInv ==
  /\ GateOK
  /\ \A u \in Users : GateOf(bar[u], ask[u], pass[u])
  /\ BarredAreOut

\* The four checks are the four bars, in their order.
LEMMA ChecksInOrder ==
  /\ Before(0) = {} /\ Before(1) = {} /\ Before(2) = {"instance"}
  /\ Before(3) = {"instance", "guild"} /\ Before(4) = {"instance", "guild", "member"}
  /\ Before(5) = Bars
<1>1. 1..(0 - 1) = {} /\ 1..(1 - 1) = {} /\ 1..(2 - 1) = {1} /\ 1..(3 - 1) = {1, 2}
      /\ 1..(4 - 1) = {1, 2, 3} /\ 1..(5 - 1) = {1, 2, 3, 4}
  OBVIOUS
<1>2. Checks[1] = "instance" /\ Checks[2] = "guild" /\ Checks[3] = "member" /\ Checks[4] = "mute"
  BY DEF Checks
<1>3. Before(0) = {} /\ Before(1) = {}
  BY <1>1 DEF Before
<1>4. Before(2) = {"instance"}
  BY <1>1, <1>2 DEF Before
<1>5. Before(3) = {"instance", "guild"}
  BY <1>1, <1>2 DEF Before
<1>6. Before(4) = {"instance", "guild", "member"}
  BY <1>1, <1>2 DEF Before
<1>7. Before(5) = Bars
  BY <1>1, <1>2 DEF Before, Bars
<1> QED BY <1>3, <1>4, <1>5, <1>6, <1>7

\* A check of the request adds what it looked at to what is behind it.
LEMMA CheckAdds ==
  ASSUME NEW n \in 1..3
  PROVE  Before(n + 1) = Before(n) \cup {Checks[n]} /\ Checks[n] \in Bars
<1>1. Checks[1] = "instance" /\ Checks[2] = "guild" /\ Checks[3] = "member"
  BY DEF Checks
<1>2. n = 1 \/ n = 2 \/ n = 3
  OBVIOUS
<1>3. CASE n = 1
  BY <1>1, <1>3, ChecksInOrder DEF Bars
<1>4. CASE n = 2
  BY <1>1, <1>4, ChecksInOrder DEF Bars
<1>5. CASE n = 3
  BY <1>1, <1>5, ChecksInOrder DEF Bars
<1> QED BY <1>2, <1>3, <1>4, <1>5

\* A user without a request has nothing behind.
LEMMA NoAskIsFree ==
  ASSUME NEW b \in SUBSET Bars, NEW p PROVE
    NoAsk \in AskRow /\ ((p # None => b \subseteq p) => GateOf(b, NoAsk, p))
<1>1. NoAsk \in AskRow /\ NoAsk.at = 0 /\ NoAsk.slipped = {}
  BY DEF NoAsk, AskRow
<1> QED BY <1>1, ChecksInOrder DEF GateOf

\* A step that only moves the request of one user on.
LEMMA AskMoves ==
  ASSUME GateInv, NEW u \in Users, NEW a \in AskRow, ask' = [ask EXCEPT ![u] = a],
         GateOf(bar[u], a, pass[u]), UNCHANGED <<room, bar, evict, stay, pass>>
  PROVE  GateInv'
<1>1. GateOK' /\ BarredAreOut'
  BY DEF GateInv, GateOK, BarredAreOut
<1>2. ASSUME NEW v \in Users PROVE GateOf(bar[v], ask'[v], pass[v])
  BY DEF GateInv, GateOK
<1> QED BY <1>1, <1>2 DEF GateInv

\* The lookups of a request keep track of the bars behind it.
LEMMA ChecksTrack ==
  ASSUME GateInv, NEW u \in Users, Token(u) \/ TokenCheck(u) PROVE GateInv'
<1>1. /\ UNCHANGED <<room, bar, evict, stay, pass>>
      /\ ask[u] \in AskRow /\ ask[u].at \in 0..5 /\ ask[u].slipped \subseteq Bars
      /\ bar[u] \subseteq Bars /\ GateOf(bar[u], ask[u], pass[u])
  BY DEF Token, TokenCheck, room_vars, history, GateInv, GateOK, AskRow
<1>2. ASSUME ask' = [ask EXCEPT ![u] = NoAsk] PROVE GateInv'
  <2>1. GateOf(bar[u], NoAsk, pass[u]) /\ NoAsk \in AskRow
    BY <1>1, NoAskIsFree DEF GateOf
  <2> QED BY <1>1, <1>2, <2>1, AskMoves
<1>3. CASE Token(u)
  <2> DEFINE a == [ask[u] EXCEPT !.at = 1]
  <2>1. ask' = [ask EXCEPT ![u] = a]
    BY <1>3 DEF Token
  <2>2. a \in AskRow
    BY <1>1 DEF AskRow
  <2>3. a.at = 1
    BY <1>1 DEF AskRow
  <2>4. GateOf(bar[u], a, pass[u])
    <3> HIDE DEF a
    <3> QED BY <1>1, <2>3, ChecksInOrder DEF GateOf
  <2> HIDE DEF a
  <2> QED BY <1>1, <2>1, <2>2, <2>4, AskMoves
<1>4. CASE TokenCheck(u)
  <2> DEFINE n == ask[u].at
             r == Checks[n]
  <2>1. n \in 1..3 /\ n + 1 \in 0..5
    BY <1>4 DEF TokenCheck
  <2>2. Before(n + 1) = Before(n) \cup {r} /\ r \in Bars
    BY <2>1, CheckAdds
  <2>3. ASSUME NEW a \in AskRow, a.at = n + 1, ask[u].slipped \subseteq a.slipped,
               r \in bar[u] => r \in a.slipped, ask' = [ask EXCEPT ![u] = a]
        PROVE  GateInv'
    <3>1. GateOf(bar[u], a, pass[u])
      BY <1>1, <2>2, <2>3 DEF GateOf
    <3> QED BY <1>1, <2>3, <3>1, AskMoves
  <2>4. CASE r \notin bar[u] /\ ask' = [ask EXCEPT ![u].at = @ + 1]
    <3> DEFINE k == n + 1
               a == [ask[u] EXCEPT !.at = k]
    <3>1. ask' = [ask EXCEPT ![u] = a]
      BY <2>4
    <3>2. k \in 0..5
      BY <2>1
    <3>3. a \in AskRow /\ a.slipped = ask[u].slipped /\ a.at = k
      <4> HIDE DEF k
      <4> QED BY <1>1, <3>2 DEF AskRow
    <3> HIDE DEF a
    <3> QED BY <2>3, <2>4, <3>1, <3>3
  <2>5. CASE r \in bar[u] /\ ask' = [ask EXCEPT ![u] = [at |-> @.at + 1, slipped |-> @.slipped \cup {r}]]
    <3> DEFINE k == n + 1
               a == [at |-> k, slipped |-> ask[u].slipped \cup {r}]
    <3>1. ask' = [ask EXCEPT ![u] = a]
      BY <2>5
    <3>2. k \in 0..5
      BY <2>1
    <3>3. a \in AskRow /\ a.slipped = ask[u].slipped \cup {r} /\ a.at = k
      <4> HIDE DEF k, r
      <4> QED BY <1>1, <2>2, <3>2 DEF AskRow
    <3> HIDE DEF a
    <3> QED BY <2>3, <3>1, <3>3
  <2>6. CASE r = "guild" /\ ask' = [ask EXCEPT ![u] =
                 [at |-> 5, slipped |-> @.slipped \cup (bar[u] \ {"instance"})]]
    <3> DEFINE a == [at |-> 5, slipped |-> ask[u].slipped \cup (bar[u] \ {"instance"})]
    <3>1. ask' = [ask EXCEPT ![u] = a]
      BY <2>6
    <3>2. a \in AskRow /\ a.at = 5 /\ a.slipped = ask[u].slipped \cup (bar[u] \ {"instance"})
      BY <1>1 DEF AskRow
    <3> HIDE DEF a
    <3>3. n = 2
      BY <2>1, <2>6 DEF Checks
    <3>4. "instance" \in bar[u] => "instance" \in ask[u].slipped
      BY <1>1, <3>3, ChecksInOrder DEF GateOf
    <3>5. GateOf(bar[u], a, pass[u])
      BY <1>1, <3>2, <3>4, ChecksInOrder DEF GateOf
    <3> QED BY <1>1, <3>1, <3>2, <3>5, AskMoves
  <2>7. \/ ask' = [ask EXCEPT ![u] = NoAsk]
        \/ r \notin bar[u] /\ ask' = [ask EXCEPT ![u].at = @ + 1]
        \/ r \in bar[u] /\ ask' = [ask EXCEPT ![u] = [at |-> @.at + 1, slipped |-> @.slipped \cup {r}]]
        \/ r = "guild" /\ ask' = [ask EXCEPT ![u] =
                 [at |-> 5, slipped |-> @.slipped \cup (bar[u] \ {"instance"})]]
    BY <1>4 DEF TokenCheck
  <2> QED BY <1>2, <2>4, <2>5, <2>6, <2>7
<1> QED BY <1>3, <1>4


\* The token is marked with the bars that its request missed.
LEMMA IssueMarks == ASSUME GateInv, NEW u \in Users, TokenIssue(u) PROVE GateInv'
<1>1. /\ UNCHANGED <<room, bar, evict, stay>> /\ ask' = [ask EXCEPT ![u] = NoAsk]
      /\ ask[u] \in AskRow /\ ask[u].slipped \subseteq Bars
      /\ bar[u] \subseteq Bars /\ GateOf(bar[u], ask[u], pass[u])
  BY DEF TokenIssue, room_vars, history, GateInv, GateOK, AskRow
<1>2. ask[u].at = 4 \/ ask[u].at = 5
  BY DEF TokenIssue
<1>3. ASSUME NEW p \in (SUBSET Bars) \cup {None}, p # None => bar[u] \subseteq p,
             pass' = [pass EXCEPT ![u] = p]
      PROVE  GateInv'
  <2>1. NoAsk \in AskRow /\ GateOf(bar[u], NoAsk, p)
    BY <1>1, <1>3, NoAskIsFree
  <2>2. GateOK' /\ BarredAreOut'
    BY <1>1, <1>3, <2>1 DEF GateInv, GateOK, BarredAreOut
  <2>3. ASSUME NEW v \in Users PROVE GateOf(bar[v], ask'[v], pass'[v])
    BY <1>1, <1>3, <2>1 DEF GateInv, GateOK
  <2> QED BY <1>1, <2>2, <2>3 DEF GateInv
<1>4. bar[u] \ {"mute"} \subseteq ask[u].slipped /\ (ask[u].at = 5 => bar[u] \subseteq ask[u].slipped)
  BY <1>1, <1>2, ChecksInOrder DEF GateOf, Bars
<1>5. CASE ("mute" \notin bar[u] \/ ask[u].at = 5) /\ pass' = [pass EXCEPT ![u] = ask[u].slipped]
  <2>1. bar[u] \subseteq ask[u].slipped
    BY <1>4, <1>5
  <2> QED BY <1>1, <1>3, <1>5, <2>1
<1>6. CASE pass' = [pass EXCEPT ![u] = ask[u].slipped \cup {"mute"}]
  <2>1. ask[u].slipped \cup {"mute"} \in SUBSET Bars
    BY <1>1 DEF Bars
  <2>2. bar[u] \subseteq ask[u].slipped \cup {"mute"}
    BY <1>4
  <2> QED BY <1>3, <1>6, <2>1, <2>2
<1>7. CASE pass' = pass
  <2>1. pass' = [pass EXCEPT ![u] = pass[u]]
    BY <1>7 DEF GateInv, GateOK
  <2>2. pass[u] \in (SUBSET Bars) \cup {None} /\ (pass[u] # None => bar[u] \subseteq pass[u])
    BY <1>1 DEF GateInv, GateOK, GateOf
  <2> QED BY <1>3, <2>1, <2>2
<1> QED BY <1>5, <1>6, <1>7 DEF TokenIssue

\* Who joins brings the marks of the token.
LEMMA JoinMarks ==
  ASSUME GateInv, NEW u \in Users, JoinRoom(u) \/ LeaveRoom(u) PROVE GateInv'
<1>1. UNCHANGED <<bar, ask, pass, evict>>
  BY DEF JoinRoom, LeaveRoom, gate_vars
<1>2. CASE JoinRoom(u)
  <2>1. pass[u] # None /\ room' = room \cup {u} /\ stay' = [stay EXCEPT ![u] = pass[u]]
    BY <1>2 DEF JoinRoom
  <2>2. pass[u] \in SUBSET Bars
    BY <2>1 DEF GateInv, GateOK
  <2>3. bar[u] \subseteq pass[u]
    BY <2>1 DEF GateInv, GateOf
  <2> QED BY <1>1, <2>1, <2>2, <2>3 DEF GateInv, GateOK, BarredAreOut
<1>3. CASE LeaveRoom(u)
  <2>1. room' = room \ {u} /\ stay' = stay
    BY <1>3 DEF LeaveRoom, history
  <2> QED BY <1>1, <2>1 DEF GateInv, GateOK, BarredAreOut
<1> QED BY <1>2, <1>3

\* A bar marks the tokens, requests and stays that it comes too late for.
LEMMA BarMarks ==
  ASSUME GateInv, NEW u \in Users, NEW r \in Bars, NEW e \in BOOLEAN, Bar(u, r, e) PROVE GateInv'
<1> DEFINE a == [ask[u] EXCEPT !.slipped = IF r \in Passed(u) THEN ask[u].slipped \cup {r} ELSE ask[u].slipped]
           p == IF pass[u] = None THEN None ELSE pass[u] \cup {r}
<1>1. /\ room' = room /\ bar' = [bar EXCEPT ![u] = bar[u] \cup {r}]
      /\ ask' = [ask EXCEPT ![u] = a] /\ pass' = [pass EXCEPT ![u] = p]
      /\ \/ evict' = [evict EXCEPT ![u] = evict[u] \cup {r}] /\ stay' = stay
         \/ stay' = [stay EXCEPT ![u] = stay[u] \cup {r}] /\ evict' = evict
  BY DEF Bar, room_vars
<1>2. ask[u] \in AskRow /\ ask[u].slipped \subseteq Bars /\ Passed(u) = Before(ask[u].at)
      /\ GateOf(bar[u], ask[u], pass[u])
  BY DEF GateInv, GateOK, AskRow, Passed, Before
<1> DEFINE z == IF r \in Passed(u) THEN ask[u].slipped \cup {r} ELSE ask[u].slipped
<1>3. z \subseteq Bars /\ ask[u].slipped \subseteq z /\ (r \in Before(ask[u].at) => r \in z)
  BY <1>2
<1>4. a \in AskRow
  <2> HIDE DEF z
  <2>1. a = [ask[u] EXCEPT !.slipped = z]
    BY DEF z
  <2> QED BY <1>2, <1>3, <2>1 DEF AskRow
<1>5. a.at = ask[u].at /\ a.slipped = z
  BY <1>2 DEF AskRow
<1>6. p \in (SUBSET Bars) \cup {None} /\ (p # None => pass[u] # None /\ p = pass[u] \cup {r})
  BY DEF GateInv, GateOK
<1> HIDE DEF a, z, p
<1>7. GateOf(bar[u] \cup {r}, a, p)
  BY <1>2, <1>3, <1>5, <1>6 DEF GateOf
<1>8. GateOK'
  <2>1. bar' \in [Users -> SUBSET Bars] /\ room' \subseteq Users
    BY <1>1 DEF GateInv, GateOK
  <2>2. evict' \in [Users -> SUBSET Bars] /\ stay' \in [Users -> SUBSET Bars]
    BY <1>1 DEF GateInv, GateOK
  <2>3. ask' \in [Users -> AskRow] /\ pass' \in [Users -> (SUBSET Bars) \cup {None}]
    BY <1>1, <1>4, <1>6 DEF GateInv, GateOK
  <2> QED BY <2>1, <2>2, <2>3 DEF GateOK
<1>9. ASSUME NEW v \in Users PROVE GateOf(bar'[v], ask'[v], pass'[v])
  BY <1>1, <1>7 DEF GateInv, GateOK
<1>10. BarredAreOut'
  <2>1. \A v \in Users : /\ evict[v] \subseteq evict'[v] /\ stay[v] \subseteq stay'[v]
                         /\ v # u => bar'[v] = bar[v]
    BY <1>1 DEF GateInv, GateOK
  <2>2. bar'[u] = bar[u] \cup {r} /\ r \in evict'[u] \cup stay'[u]
    BY <1>1 DEF GateInv, GateOK
  <2> QED BY <1>1, <2>1, <2>2 DEF GateInv, GateOK, BarredAreOut
<1> QED BY <1>8, <1>9, <1>10 DEF GateInv

\* An eviction removes the user, finds nobody, or excuses the stay.
LEMMA EvictionEnds ==
  ASSUME GateInv, NEW u \in Users, RemoveParticipant(u) PROVE GateInv'
<1>1. /\ UNCHANGED <<bar, ask, pass>> /\ evict' = [evict EXCEPT ![u] = {}]
      /\ \/ room' = room \ {u} /\ stay' = stay
         \/ u \notin room /\ room' = room /\ stay' = stay
         \/ room' = room /\ stay' = [stay EXCEPT ![u] = stay[u] \cup evict[u]]
  BY DEF RemoveParticipant
<1>2. GateOK'
  <2>1. evict' \in [Users -> SUBSET Bars] /\ stay' \in [Users -> SUBSET Bars]
    BY <1>1 DEF GateInv, GateOK
  <2>2. room' \subseteq Users
    BY <1>1 DEF GateInv, GateOK
  <2> QED BY <1>1, <2>1, <2>2 DEF GateInv, GateOK
<1>3. ASSUME NEW v \in room' PROVE bar[v] \subseteq stay'[v] \cup evict'[v]
  <2>1. v \in Users /\ v \in room /\ bar[v] \subseteq stay[v] \cup evict[v]
    BY <1>1 DEF GateInv, GateOK, BarredAreOut
  <2>2. CASE v # u
    BY <1>1, <2>1, <2>2 DEF GateInv, GateOK
  <2>3. CASE v = u
    BY <1>1, <2>1, <2>3 DEF GateInv, GateOK
  <2> QED BY <2>2, <2>3
<1> QED BY <1>1, <1>2, <1>3 DEF GateInv, BarredAreOut

\* Lifting a bar makes everyone freer.
LEMMA LiftFrees ==
  ASSUME GateInv, NEW u \in Users, NEW r \in Bars, Lift(u, r) PROVE GateInv'
<1>1. bar' = [bar EXCEPT ![u] = bar[u] \ {r}] /\ UNCHANGED <<room, ask, pass, evict, stay>>
  BY DEF Lift, room_vars, history
<1>2. GateOK'
  BY <1>1 DEF GateInv, GateOK
<1>3. ASSUME NEW v \in Users PROVE bar'[v] \subseteq bar[v] /\ GateOf(bar'[v], ask[v], pass[v])
  <2>1. bar'[v] \subseteq bar[v] /\ GateOf(bar[v], ask[v], pass[v])
    BY <1>1 DEF GateInv, GateOK
  <2> QED BY <2>1 DEF GateOf
<1> QED BY <1>1, <1>2, <1>3 DEF GateInv, GateOK, BarredAreOut

\* A restart drops requests and evictions; the stays are excused.
LEMMA RestartFrees == ASSUME GateInv, VoiceRestart PROVE GateInv'
<1>1. /\ UNCHANGED <<room, bar, pass>>
      /\ ask' = [u \in Users |-> NoAsk] /\ evict' = [u \in Users |-> {}]
      /\ stay' = [u \in Users |-> stay[u] \cup evict[u]]
  BY DEF VoiceRestart
<1>2. ASSUME NEW u \in Users PROVE NoAsk \in AskRow /\ GateOf(bar[u], NoAsk, pass[u])
  <2>1. bar[u] \in SUBSET Bars /\ (pass[u] # None => bar[u] \subseteq pass[u])
    BY DEF GateInv, GateOK, GateOf
  <2> QED BY <2>1, NoAskIsFree
<1>3. GateOK'
  BY <1>1, <1>2 DEF GateInv, GateOK
<1> QED BY <1>1, <1>2, <1>3 DEF GateInv, GateOK, BarredAreOut

\* For every number of users, requests, bars and evictions: a participant who is
\* banned, kicked or muted is about to be evicted, or came with a token from
\* before the bar, or stays through a bar that evicts nobody or a failure.
THEOREM BarredStayOut == VoiceSpec => []BarredAreOut
<1>1. VoiceInit => GateInv
  <2> SUFFICES ASSUME VoiceInit PROVE GateInv
    OBVIOUS
  <2>1. NoAsk \in AskRow /\ \A u \in Users : GateOf({}, NoAsk, None)
    BY NoAskIsFree
  <2>2. /\ room = {} /\ ask = [u \in Users |-> NoAsk] /\ pass = [u \in Users |-> None]
        /\ bar = [u \in Users |-> {}] /\ evict = [u \in Users |-> {}] /\ stay = [u \in Users |-> {}]
    BY DEF VoiceInit
  <2>3. GateOK
    BY <2>1, <2>2 DEF GateOK
  <2>4. \A u \in Users : GateOf(bar[u], ask[u], pass[u])
    BY <2>1, <2>2
  <2> QED BY <2>2, <2>3, <2>4 DEF GateInv, BarredAreOut
<1>2. GateInv /\ [VoiceNext \/ Deliver]_<<vars, voice_vars>> => GateInv'
  <2> SUFFICES ASSUME GateInv, [VoiceNext \/ Deliver]_<<vars, voice_vars>> PROVE GateInv'
    OBVIOUS
  <2>1. CASE UNCHANGED <<room, bar, ask, pass, evict, stay>>
    BY <2>1 DEF GateInv, GateOK, BarredAreOut
  <2>3. ASSUME NEW u \in Users,
               \/ Token(u) \/ TokenCheck(u) \/ TokenIssue(u)
               \/ JoinRoom(u) \/ LeaveRoom(u) \/ RemoveParticipant(u)
               \/ \E r \in Bars : Lift(u, r) \/ \E e \in BOOLEAN : Bar(u, r, e)
        PROVE  GateInv'
    BY <2>3, ChecksTrack, IssueMarks, JoinMarks, BarMarks, EvictionEnds, LiftFrees
  <2>2. CASE Webhook \/ Deliver \/ UNCHANGED <<vars, voice_vars>> \/ \E i \in DOMAIN cleaners : DeleteMLSGroupInfo(i)
    BY <2>1, <2>2 DEF Webhook, Deliver, DeleteMLSGroupInfo, voice_vars, room_vars, gate_vars, history
  <2> QED BY <2>2, <2>3, RestartFrees DEF VoiceNext
<1>3. GateInv => BarredAreOut
  BY DEF GateInv
<1> QED BY <1>1, <1>2, <1>3, PTL DEF VoiceSpec


-----------------------------------------------------------------------------
(***************************************************************************)
(* The tracker and the webhooks under way.                                 *)
(***************************************************************************)
HookRow == [kind : {"joined", "left"}, user : Users, session : Nat]

Leaves(H, k, u) == H[k].kind = "left" /\ H[k].user = u
Joins(H, k, u) == H[k].kind = "joined" /\ H[k].user = u

\* Whether a tracker that holds T will hold u after the first i of the webhooks H.
In(T, H, u, i) ==
  \/ \E j \in 1..i : Joins(H, j, u) /\ \A k \in j..i : ~Leaves(H, k, u)
  \/ u \in T /\ \A k \in 1..i : ~Leaves(H, k, u)

\* The tracker only depends on the webhooks that it has been given.
LEMMA InAgree ==
  ASSUME NEW T, NEW u, NEW H, NEW G, NEW i \in Nat, \A k \in 1..i : H[k] = G[k], In(T, H, u, i)
  PROVE  In(T, G, u, i)
<1>1. \A k \in 1..i : (Joins(H, k, u) <=> Joins(G, k, u)) /\ (Leaves(H, k, u) <=> Leaves(G, k, u))
  BY DEF Joins, Leaves
<1>2. CASE \E j \in 1..i : Joins(H, j, u) /\ \A k \in j..i : ~Leaves(H, k, u)
  <2>1. PICK j \in 1..i : Joins(H, j, u) /\ \A k \in j..i : ~Leaves(H, k, u)
    BY <1>2
  <2>2. \A k \in j..i : k \in 1..i
    OBVIOUS
  <2>3. Joins(G, j, u) /\ \A k \in j..i : ~Leaves(G, k, u)
    BY <1>1, <2>1, <2>2
  <2> QED BY <2>3 DEF In
<1>3. CASE u \in T /\ \A k \in 1..i : ~Leaves(H, k, u)
  BY <1>1, <1>3 DEF In
<1> QED BY <1>2, <1>3 DEF In

\* One more webhook lets its user in or out.
LEMMA InNext ==
  ASSUME NEW T, NEW u, NEW H, NEW i \in Nat
  PROVE  In(T, H, u, i + 1) <=>
           Joins(H, i + 1, u) \/ (In(T, H, u, i) /\ ~Leaves(H, i + 1, u))
<1>1. ~(Joins(H, i + 1, u) /\ Leaves(H, i + 1, u))
  BY DEF Joins, Leaves
<1>2. 1..(i + 1) = (1..i) \cup {i + 1} /\ (\A j \in 1..i : j..(i + 1) = (j..i) \cup {i + 1})
      /\ (i + 1)..(i + 1) = {i + 1}
  OBVIOUS
<1>3. ASSUME In(T, H, u, i + 1) PROVE Joins(H, i + 1, u) \/ (In(T, H, u, i) /\ ~Leaves(H, i + 1, u))
  <2>1. CASE u \in T /\ \A k \in 1..(i + 1) : ~Leaves(H, k, u)
    BY <1>2, <2>1 DEF In
  <2>2. ASSUME NEW j \in 1..i, Joins(H, j, u), \A k \in j..(i + 1) : ~Leaves(H, k, u)
        PROVE  In(T, H, u, i) /\ ~Leaves(H, i + 1, u)
    BY <1>2, <2>2 DEF In
  <2> QED BY <1>2, <1>3, <2>1, <2>2 DEF In
<1>4. ASSUME Joins(H, i + 1, u) PROVE In(T, H, u, i + 1)
  <2>1. i + 1 \in 1..(i + 1) /\ \A k \in (i + 1)..(i + 1) : ~Leaves(H, k, u)
    BY <1>1, <1>2, <1>4
  <2> QED BY <1>4, <2>1 DEF In
<1>5. ASSUME In(T, H, u, i), ~Leaves(H, i + 1, u) PROVE In(T, H, u, i + 1)
  <2>1. CASE u \in T /\ \A k \in 1..i : ~Leaves(H, k, u)
    BY <1>2, <1>5, <2>1 DEF In
  <2>2. ASSUME NEW j \in 1..i, Joins(H, j, u), \A k \in j..i : ~Leaves(H, k, u)
        PROVE  In(T, H, u, i + 1)
    BY <1>2, <1>5, <2>2 DEF In
  <2> QED BY <1>5, <2>1, <2>2 DEF In
<1> QED BY <1>3, <1>4, <1>5

\* A webhook that LiveKit appends changes nothing before itself.
LEMMA InAppend ==
  ASSUME NEW T, NEW u, NEW H \in Seq(HookRow), NEW h \in HookRow
  PROVE  /\ \A i \in 0..Len(H) : In(T, Append(H, h), u, i) <=> In(T, H, u, i)
         /\ In(T, Append(H, h), u, Len(H) + 1) <=>
              (h.kind = "joined" /\ h.user = u) \/
              (In(T, H, u, Len(H)) /\ ~(h.kind = "left" /\ h.user = u))
<1> DEFINE G == Append(H, h)
<1>1. (\A k \in 1..Len(H) : G[k] = H[k]) /\ G[Len(H) + 1] = h /\ Len(H) \in Nat
  BY AppendProperties
<1> HIDE DEF G
<1>2. ASSUME NEW i \in 0..Len(H) PROVE In(T, G, u, i) <=> In(T, H, u, i)
  <2>1. i \in Nat /\ \A k \in 1..i : G[k] = H[k] /\ H[k] = G[k]
    BY <1>1
  <2> QED BY <2>1, InAgree
<1>3. In(T, G, u, Len(H) + 1) <=>
        Joins(G, Len(H) + 1, u) \/ (In(T, G, u, Len(H)) /\ ~Leaves(G, Len(H) + 1, u))
  BY <1>1, InNext
<1>4. In(T, G, u, Len(H)) <=> In(T, H, u, Len(H))
  BY <1>1, <1>2
<1> QED BY <1>1, <1>2, <1>3, <1>4 DEF G, Joins, Leaves

\* The tracker after the first webhook.
After(T, h) == IF h.kind = "joined" THEN T \cup {h.user} ELSE T \ {h.user}

\* Delivering the first webhook leaves the rest of the story as it was.
LEMMA InTail ==
  ASSUME NEW T, NEW u, NEW H \in Seq(HookRow), H # <<>>, NEW i \in 1..Len(H)
  PROVE  In(After(T, Head(H)), Tail(H), u, i - 1) <=> In(T, H, u, i)
<1> DEFINE G == Tail(H)
           h == Head(H)
<1>1. /\ h \in HookRow /\ Len(G) = Len(H) - 1 /\ Len(H) \in Nat /\ h = H[1]
      /\ \A k \in 1..Len(G) : G[k] = H[k + 1]
  BY HeadTailProperties
<1>2. i - 1 \in Nat /\ \A k \in 1..(i - 1) : k \in 1..Len(G) /\ k + 1 \in 2..i
  BY <1>1
<1>3. \A k \in 1..(i - 1) : /\ Joins(G, k, u) <=> Joins(H, k + 1, u)
                            /\ Leaves(G, k, u) <=> Leaves(H, k + 1, u)
  BY <1>1, <1>2 DEF Joins, Leaves
<1>4. u \in After(T, h) <=> Joins(H, 1, u) \/ (u \in T /\ ~Leaves(H, 1, u))
  BY <1>1 DEF After, Joins, Leaves, HookRow
<1> HIDE DEF G, h
<1>5. \A k \in 1..i : k = 1 \/ (k - 1 \in 1..(i - 1) /\ (k - 1) + 1 = k)
  BY <1>2
<1>6. ASSUME NEW j \in 1..(i - 1)
      PROVE  (\A k \in j..(i - 1) : ~Leaves(G, k, u)) <=> (\A k \in (j + 1)..i : ~Leaves(H, k, u))
  <2>1. ASSUME \A k \in j..(i - 1) : ~Leaves(G, k, u), NEW k \in (j + 1)..i PROVE ~Leaves(H, k, u)
    <3>1. k - 1 \in j..(i - 1) /\ k - 1 \in 1..(i - 1) /\ (k - 1) + 1 = k
      OBVIOUS
    <3>2. ~Leaves(G, k - 1, u)
      BY <2>1, <3>1
    <3> QED BY <1>3, <3>1, <3>2
  <2>2. ASSUME \A k \in (j + 1)..i : ~Leaves(H, k, u), NEW k \in j..(i - 1) PROVE ~Leaves(G, k, u)
    <3>1. k + 1 \in (j + 1)..i /\ k \in 1..(i - 1)
      OBVIOUS
    <3> QED BY <1>3, <2>2, <3>1
  <2> QED BY <2>1, <2>2
<1>7. (\A k \in 1..(i - 1) : ~Leaves(G, k, u)) <=> (\A k \in 2..i : ~Leaves(H, k, u))
  <2>1. ASSUME \A k \in 1..(i - 1) : ~Leaves(G, k, u), NEW k \in 2..i PROVE ~Leaves(H, k, u)
    <3>1. k - 1 \in 1..(i - 1) /\ (k - 1) + 1 = k
      OBVIOUS
    <3>2. ~Leaves(G, k - 1, u)
      BY <2>1, <3>1
    <3> QED BY <1>3, <3>1, <3>2
  <2>2. ASSUME \A k \in 2..i : ~Leaves(H, k, u), NEW k \in 1..(i - 1) PROVE ~Leaves(G, k, u)
    BY <1>2, <1>3, <2>2
  <2> QED BY <2>1, <2>2
<1>8. 1..i = {1} \cup 2..i /\ ~(Joins(H, 1, u) /\ Leaves(H, 1, u))
  BY DEF Joins, Leaves
<1>9. ASSUME In(After(T, h), G, u, i - 1) PROVE In(T, H, u, i)
  <2>1. ASSUME NEW j \in 1..(i - 1), Joins(G, j, u), \A k \in j..(i - 1) : ~Leaves(G, k, u)
        PROVE  In(T, H, u, i)
    <3>1. j + 1 \in 1..i /\ Joins(H, j + 1, u) /\ \A k \in (j + 1)..i : ~Leaves(H, k, u)
      BY <1>2, <1>3, <1>6, <2>1
    <3> QED BY <3>1 DEF In
  <2>2. CASE u \in After(T, h) /\ \A k \in 2..i : ~Leaves(H, k, u)
    <3>1. CASE Joins(H, 1, u)
      <4>1. 1 \in 1..i /\ \A k \in 1..i : ~Leaves(H, k, u)
        BY <1>8, <2>2, <3>1
      <4> QED BY <3>1, <4>1 DEF In
    <3>2. CASE u \in T /\ ~Leaves(H, 1, u)
      BY <1>8, <2>2, <3>2 DEF In
    <3> QED BY <1>4, <2>2, <3>1, <3>2
  <2> QED BY <1>7, <1>9, <2>1, <2>2 DEF In
<1>10. ASSUME In(T, H, u, i) PROVE In(After(T, h), G, u, i - 1)
  <2>1. ASSUME NEW j \in 1..i, Joins(H, j, u), \A k \in j..i : ~Leaves(H, k, u)
        PROVE  In(After(T, h), G, u, i - 1)
    <3>1. CASE j = 1
      BY <1>4, <1>7, <1>8, <2>1, <3>1 DEF In
    <3>2. CASE j # 1
      <4> DEFINE m == j - 1
      <4>1. m \in 1..(i - 1) /\ m + 1 = j
        BY <3>2
      <4>2. Joins(G, m, u)
        BY <1>3, <2>1, <4>1
      <4>3. \A k \in m..(i - 1) : ~Leaves(G, k, u)
        BY <1>6, <2>1, <4>1
      <4> QED BY <4>1, <4>2, <4>3 DEF In
    <3> QED BY <3>1, <3>2
  <2>2. CASE u \in T /\ \A k \in 1..i : ~Leaves(H, k, u)
    BY <1>4, <1>7, <1>8, <2>2 DEF In
  <2> QED BY <1>10, <2>1, <2>2 DEF In
<1> QED BY <1>9, <1>10 DEF G, h

\* The element that a cleaner takes out is the only one that goes.
LEMMA WithoutOne ==
  ASSUME NEW Q \in Seq(Nat), NEW i \in DOMAIN Q
  PROVE  /\ Without(Q, i) \in Seq(Nat)
         /\ \A k \in DOMAIN Without(Q, i) : \E m \in DOMAIN Q : Without(Q, i)[k] = Q[m]
<1> DEFINE a == SubSeq(Q, 1, i - 1)
           b == SubSeq(Q, i + 1, Len(Q))
<1>1. Len(Q) \in Nat /\ i \in 1..Len(Q) /\ DOMAIN Q = 1..Len(Q) /\ \A k \in 1..Len(Q) : Q[k] \in Nat
  OBVIOUS
<1>2. /\ a \in Seq(Nat) /\ Len(a) = i - 1 /\ \A k \in 1..(i - 1) : a[k] = Q[k]
  <2>1. \A k \in 1..(i - 1) : Q[k] \in Nat
    BY <1>1
  <2>2. /\ a \in Seq(Nat) /\ Len(a) = (IF 1 <= i - 1 THEN (i - 1) - 1 + 1 ELSE 0)
        /\ \A k \in 1..((i - 1) - 1 + 1) : a[k] = Q[1 + k - 1]
    <3> DEFINE m == i - 1
    <3>1. m \in Int /\ 1 \in Int /\ a = SubSeq(Q, 1, m) /\ \A k \in 1..m : Q[k] \in Nat
      BY <1>1, <2>1
    <3>2. /\ a \in Seq(Nat) /\ Len(a) = (IF 1 <= m THEN m - 1 + 1 ELSE 0)
          /\ \A k \in 1..(m - 1 + 1) : a[k] = Q[1 + k - 1]
      <4> HIDE DEF a, m
      <4> QED BY <3>1, SubSeqProperties
    <3> QED BY <3>2
  <2> HIDE DEF a
  <2> QED BY <1>1, <2>2
<1>3. /\ b \in Seq(Nat) /\ Len(b) = Len(Q) - i /\ \A k \in 1..(Len(Q) - i) : b[k] = Q[i + k]
  <2>1. \A k \in (i + 1)..Len(Q) : Q[k] \in Nat
    BY <1>1
  <2>2. /\ b \in Seq(Nat) /\ Len(b) = (IF i + 1 <= Len(Q) THEN Len(Q) - (i + 1) + 1 ELSE 0)
        /\ \A k \in 1..(Len(Q) - (i + 1) + 1) : b[k] = Q[(i + 1) + k - 1]
    <3> DEFINE m == i + 1
               n == Len(Q)
    <3>1. m \in Int /\ n \in Int /\ b = SubSeq(Q, m, n) /\ \A k \in m..n : Q[k] \in Nat
      BY <1>1, <2>1
    <3>2. /\ b \in Seq(Nat) /\ Len(b) = (IF m <= n THEN n - m + 1 ELSE 0)
          /\ \A k \in 1..(n - m + 1) : b[k] = Q[m + k - 1]
      <4> HIDE DEF b, m, n
      <4> QED BY <3>1, SubSeqProperties
    <3> QED BY <3>2
  <2> HIDE DEF b
  <2>3. Len(Q) - (i + 1) + 1 = Len(Q) - i /\ \A k \in 1..(Len(Q) - i) : (i + 1) + k - 1 = i + k
    BY <1>1
  <2>4. Len(b) = Len(Q) - i
    <3> DEFINE n == Len(Q)
               l == Len(b)
    <3>1. l = (IF i + 1 <= n THEN n - (i + 1) + 1 ELSE 0) /\ n \in Nat /\ i \in 1..n
      BY <1>1, <2>2
    <3> HIDE DEF n, l
    <3>2. l = n - i
      BY <3>1
    <3> QED BY <3>2 DEF n, l
  <2>5. ASSUME NEW k \in 1..(Len(Q) - i) PROVE b[k] = Q[i + k]
    <3>1. b[k] = Q[(i + 1) + k - 1]
      BY <2>2, <2>3
    <3> QED BY <2>3, <3>1
  <2> QED BY <2>2, <2>4, <2>5
<1> HIDE DEF a, b
<1>4. /\ a \o b \in Seq(Nat) /\ Len(a \o b) = Len(a) + Len(b)
      /\ \A k \in 1..(Len(a) + Len(b)) : (a \o b)[k] = IF k <= Len(a) THEN a[k] ELSE b[k - Len(a)]
  BY <1>2, <1>3, ConcatProperties
<1>5. ASSUME NEW k \in DOMAIN (a \o b) PROVE \E m \in DOMAIN Q : (a \o b)[k] = Q[m]
  <2>1. k \in 1..(Len(a) + Len(b)) /\ Len(a) = i - 1 /\ Len(b) = Len(Q) - i
    BY <1>2, <1>3, <1>4
  <2>2. CASE k <= Len(a)
    <3>1. k \in 1..(i - 1) /\ k \in DOMAIN Q /\ (a \o b)[k] = a[k]
      BY <1>1, <1>4, <2>1, <2>2
    <3> QED BY <1>2, <3>1
  <2>3. CASE ~(k <= Len(a))
    <3> DEFINE m == k - Len(a)
    <3>3. k \in Int /\ k <= Len(Q) - 1 /\ k >= i /\ m = k - (i - 1)
      BY <1>1, <2>1, <2>3
    <3>4. m \in 1..(Len(Q) - i) /\ i + m \in 1..Len(Q)
      BY <1>1, <3>3
    <3>1. m \in 1..(Len(Q) - i) /\ i + m \in DOMAIN Q
      BY <1>1, <3>4
    <3>2. (a \o b)[k] = b[m]
      BY <1>4, <2>1, <2>3
    <3> HIDE DEF m
    <3> QED BY <1>3, <3>1, <3>2
  <2> QED BY <2>2, <2>3
<1> QED BY <1>4, <1>5 DEF Without, a, b


-----------------------------------------------------------------------------
\* The i-th webhook will find that the last participant has left.
Ends(T, H, i) == H[i].kind = "left" /\ \A u \in Users : ~In(T, H, u, i)

RoomOK ==
  /\ room \subseteq Users /\ tracked \subseteq Users
  /\ hooks \in Seq(HookRow) /\ cleaners \in Seq(Nat)
  /\ session \in Nat /\ born \in Nat /\ forgot \in Nat /\ kept \in Nat

\* Nothing belongs to a session that is still to come.
NoneAhead ==
  /\ forgot <= session
  /\ \A i \in DOMAIN hooks : hooks[i].session <= session
  /\ \A i \in DOMAIN cleaners : cleaners[i] <= session

\* Whom the tracker will hold when all webhooks have come is in the room.
TrackerSound == \A u \in Users : In(tracked, hooks, u, Len(hooks)) => u \in room

\* Unless a restart has lost the tracker, it will hold all of the room.
TrackerFull == forgot # session => \A u \in room : In(tracked, hooks, u, Len(hooks))

\* Then no departure of the present session will look like the last one.
NotTheLast ==
  forgot # session /\ room # {} =>
    \A i \in DOMAIN hooks : hooks[i].kind = "left" /\ hooks[i].session = session
      => \E u \in Users : In(tracked, hooks, u, i)

\* And no goroutine deletes the group on behalf of the present session.
CleanersLate ==
  room # {} /\ forgot # session => \A i \in DOMAIN cleaners : cleaners[i] # session

\* The group of a session that is over, or whose room is empty, is going to be
\* deleted, by a goroutine or by the webhook that will start one.
GroupEnds ==
  info["voice"] # None /\ (born < session \/ (born = session /\ room = {})) =>
    \/ kept >= born
    \/ \E i \in DOMAIN cleaners : cleaners[i] >= born
    \/ \E i \in DOMAIN hooks : Ends(tracked, hooks, i) /\ hooks[i].session >= born

RoomInv ==
  RoomOK /\ NoneAhead /\ TrackerSound /\ TrackerFull /\ NotTheLast /\ CleanersLate /\ GroupEnds

\* What an appended webhook does.
LEMMA HookAppends ==
  ASSUME RoomInv, NEW u \in Users, NEW kind \in {"joined", "left"}, Hook(kind, u)
  PROVE  /\ hooks' \in Seq(HookRow) /\ Len(hooks') = Len(hooks) + 1 /\ Len(hooks) \in Nat
         /\ DOMAIN hooks = 1..Len(hooks) /\ DOMAIN hooks' = DOMAIN hooks \cup {Len(hooks) + 1}
         /\ \A i \in DOMAIN hooks : hooks'[i] = hooks[i]
         /\ hooks'[Len(hooks) + 1].kind = kind /\ hooks'[Len(hooks) + 1].session = session
         /\ \A v : \A i \in DOMAIN hooks : In(tracked, hooks', v, i) <=> In(tracked, hooks, v, i)
         /\ \A v : In(tracked, hooks', v, Len(hooks) + 1) <=>
              (kind = "joined" /\ u = v) \/
              (In(tracked, hooks, v, Len(hooks)) /\ ~(kind = "left" /\ u = v))
<1> DEFINE h == [kind |-> kind, user |-> u, session |-> session]
<1>1. hooks \in Seq(HookRow) /\ session \in Nat
  BY DEF RoomInv, RoomOK
<1>2. h \in HookRow /\ h.kind = kind /\ h.user = u /\ h.session = session
  BY <1>1 DEF HookRow
<1>3. hooks' = Append(hooks, h)
  BY DEF Hook
<1> HIDE DEF h
<1>4. /\ hooks' \in Seq(HookRow) /\ Len(hooks') = Len(hooks) + 1 /\ Len(hooks) \in Nat
      /\ \A i \in 1..Len(hooks) : hooks'[i] = hooks[i]
      /\ hooks'[Len(hooks) + 1] = h
  BY <1>1, <1>2, <1>3, AppendProperties
<1>5. DOMAIN hooks = 1..Len(hooks) /\ DOMAIN hooks' = DOMAIN hooks \cup {Len(hooks) + 1}
      /\ \A i \in DOMAIN hooks : i \in 0..Len(hooks)
  BY <1>1, <1>4
<1>6. ASSUME NEW v
      PROVE  /\ \A i \in 0..Len(hooks) : In(tracked, hooks', v, i) <=> In(tracked, hooks, v, i)
             /\ In(tracked, hooks', v, Len(hooks) + 1) <=>
                  (kind = "joined" /\ u = v) \/
                  (In(tracked, hooks, v, Len(hooks)) /\ ~(kind = "left" /\ u = v))
  BY <1>1, <1>2, <1>3, InAppend
<1> QED BY <1>2, <1>4, <1>5, <1>6

\* Who joins will be tracked, and the first of the room opens a session.
LEMMA JoinKeeps == ASSUME RoomInv, NEW u \in Users, JoinRoom(u) PROVE RoomInv'
<1> DEFINE n == Len(hooks) + 1
<1>1. /\ room' = room \cup {u} /\ u \notin room
      /\ session' = IF room = {} THEN session + 1 ELSE session
      /\ UNCHANGED <<info, tracked, cleaners, born, forgot, kept>> /\ Hook("joined", u)
  BY DEF JoinRoom, vars, groups
<1>2. /\ hooks' \in Seq(HookRow) /\ Len(hooks') = n /\ Len(hooks) \in Nat
      /\ DOMAIN hooks = 1..Len(hooks) /\ DOMAIN hooks' = DOMAIN hooks \cup {n}
      /\ \A i \in DOMAIN hooks : hooks'[i] = hooks[i]
      /\ hooks'[n].kind = "joined" /\ hooks'[n].session = session
      /\ \A v : \A i \in DOMAIN hooks : In(tracked, hooks', v, i) <=> In(tracked, hooks, v, i)
      /\ \A v : In(tracked, hooks', v, n) <=> u = v \/ In(tracked, hooks, v, Len(hooks))
  BY <1>1, HookAppends
<1> HIDE DEF n
<1>3. RoomOK /\ RoomOK'
  <2>1. session' \in Nat
    BY <1>1 DEF RoomInv, RoomOK
  <2> QED BY <1>1, <1>2, <2>1 DEF RoomInv, RoomOK
<1>4. session' >= session /\ session \in Nat /\ session' \in Nat /\ (room = {} => session' = session + 1)
      /\ (room # {} => session' = session)
  BY <1>1, <1>3 DEF RoomOK
<1>5. /\ forgot \in Nat /\ (\A i \in DOMAIN hooks : hooks[i].session \in Nat)
      /\ \A i \in DOMAIN cleaners : cleaners[i] \in Nat
  <2>1. \A i \in DOMAIN hooks : hooks[i] \in HookRow
    BY <1>3 DEF RoomOK
  <2> QED BY <1>3, <2>1 DEF RoomOK, HookRow
<1>6. NoneAhead'
  BY <1>1, <1>2, <1>4, <1>5 DEF RoomInv, NoneAhead
<1>7. TrackerSound'
  BY <1>1, <1>2 DEF RoomInv, TrackerSound
<1>8. TrackerFull'
  BY <1>1, <1>2, <1>4 DEF RoomInv, TrackerFull
<1>9. NotTheLast'
  <2> SUFFICES ASSUME forgot' # session', NEW i \in DOMAIN hooks', hooks'[i].kind = "left",
                      hooks'[i].session = session'
               PROVE  \E v \in Users : In(tracked', hooks', v, i)
    BY DEF NotTheLast
  <2>1. i \in DOMAIN hooks
    BY <1>2
  <2>2. hooks[i].session <= session /\ hooks[i].session = session' /\ hooks[i].kind = "left"
    BY <1>2, <2>1 DEF RoomInv, NoneAhead
  <2>3. room # {} /\ session' = session
    BY <1>4, <2>2
  <2>4. \E v \in Users : In(tracked, hooks, v, i)
    BY <1>1, <2>1, <2>2, <2>3 DEF RoomInv, NotTheLast
  <2> QED BY <1>1, <1>2, <2>1, <2>4
<1>10. CleanersLate'
  <2>1. CASE room = {}
    BY <1>1, <1>4, <1>5, <2>1 DEF RoomInv, NoneAhead, CleanersLate
  <2>2. CASE room # {}
    BY <1>1, <1>4, <2>2 DEF RoomInv, CleanersLate
  <2> QED BY <2>1, <2>2
<1>11. GroupEnds'
  <2>1. \A i \in DOMAIN hooks : Ends(tracked, hooks, i) => Ends(tracked, hooks', i)
    BY <1>2 DEF Ends
  <2>2. born \in Nat /\ (born < session' \/ (born = session' /\ room' = {})
          => born < session \/ (born = session /\ room = {}))
    BY <1>1, <1>3, <1>4 DEF RoomOK
  <2> QED BY <1>1, <1>2, <2>1, <2>2 DEF RoomInv, GroupEnds
<1> QED BY <1>3, <1>6, <1>7, <1>8, <1>9, <1>10, <1>11 DEF RoomInv

\* A departure is announced, and the last one will end the group.
LEMMA LeaveKeeps ==
  ASSUME RoomInv, NEW u \in Users, u \in room, room' = room \ {u}, Hook("left", u),
         UNCHANGED <<info, tracked, cleaners, session, born, forgot, kept>>
  PROVE  RoomInv'
<1> DEFINE n == Len(hooks) + 1
<1>2. /\ hooks' \in Seq(HookRow) /\ Len(hooks') = n /\ Len(hooks) \in Nat
      /\ DOMAIN hooks = 1..Len(hooks) /\ DOMAIN hooks' = DOMAIN hooks \cup {n}
      /\ \A i \in DOMAIN hooks : hooks'[i] = hooks[i]
      /\ hooks'[n].kind = "left" /\ hooks'[n].session = session
      /\ \A v : \A i \in DOMAIN hooks : In(tracked, hooks', v, i) <=> In(tracked, hooks, v, i)
      /\ \A v : In(tracked, hooks', v, n) <=> u # v /\ In(tracked, hooks, v, Len(hooks))
  BY HookAppends
<1> HIDE DEF n
<1>3. RoomOK /\ RoomOK'
  BY <1>2 DEF RoomInv, RoomOK
<1>4. NoneAhead'
  BY <1>2, <1>3 DEF RoomInv, NoneAhead, RoomOK
<1>5. TrackerSound'
  BY <1>2 DEF RoomInv, TrackerSound
<1>6. TrackerFull'
  BY <1>2 DEF RoomInv, TrackerFull
<1>7. NotTheLast'
  <2> SUFFICES ASSUME forgot # session, NEW v \in room', NEW i \in DOMAIN hooks',
                      hooks'[i].kind = "left", hooks'[i].session = session
               PROVE  \E w \in Users : In(tracked, hooks', w, i)
    BY DEF NotTheLast
  <2>1. CASE i = n
    <3>1. v \in Users /\ v # u /\ In(tracked, hooks, v, Len(hooks))
      BY <1>3 DEF RoomInv, TrackerFull, RoomOK
    <3> QED BY <1>2, <2>1, <3>1
  <2>2. CASE i \in DOMAIN hooks
    <3>1. \E w \in Users : In(tracked, hooks, w, i)
      BY <1>2, <2>2 DEF RoomInv, NotTheLast
    <3> QED BY <1>2, <2>2, <3>1
  <2> QED BY <1>2, <2>1, <2>2
<1>8. CleanersLate'
  BY DEF RoomInv, CleanersLate
<1>9. GroupEnds'
  <2>1. \A i \in DOMAIN hooks : Ends(tracked, hooks, i) => Ends(tracked, hooks', i)
    BY <1>2 DEF Ends
  <2>2. room' = {} => Ends(tracked, hooks', n)
    BY <1>2 DEF Ends, RoomInv, TrackerSound
  <2>3. born \in Nat /\ session \in Nat
    BY <1>3 DEF RoomOK
  <2>4. CASE born < session
    BY <1>2, <2>1, <2>3, <2>4 DEF RoomInv, GroupEnds
  <2>5. CASE born = session /\ room' = {}
    BY <1>2, <2>2, <2>3, <2>5 DEF GroupEnds
  <2> QED BY <2>4, <2>5 DEF GroupEnds
<1> QED BY <1>3, <1>4, <1>5, <1>6, <1>7, <1>8, <1>9 DEF RoomInv


\* The first webhook is taken off, and starts a goroutine when it ends the room.
LEMMA WebhookKeeps == ASSUME RoomInv, Webhook PROVE RoomInv'
<1> DEFINE h == Head(hooks)
<1>1. /\ hooks # <<>> /\ hooks' = Tail(hooks) /\ tracked' = After(tracked, h)
      /\ UNCHANGED <<info, room, session, born, forgot, kept>>
      /\ IF h.kind = "left" /\ tracked' = {} THEN cleaners' = Append(cleaners, h.session)
         ELSE cleaners' = cleaners
  BY DEF Webhook, DestroysGroup, Tracked, After, vars, groups, history
<1>2. RoomOK /\ hooks \in Seq(HookRow) /\ cleaners \in Seq(Nat) /\ session \in Nat /\ born \in Nat
  BY DEF RoomInv, RoomOK
<1>3. /\ h \in HookRow /\ h = hooks[1] /\ hooks' \in Seq(HookRow)
      /\ Len(hooks') = Len(hooks) - 1 /\ Len(hooks) \in Nat /\ Len(hooks) >= 1
      /\ \A i \in 1..Len(hooks') : hooks'[i] = hooks[i + 1]
  BY <1>1, <1>2, HeadTailProperties
<1>4. /\ DOMAIN hooks = 1..Len(hooks) /\ DOMAIN hooks' = 1..(Len(hooks) - 1)
      /\ \A i \in DOMAIN hooks' : i + 1 \in DOMAIN hooks /\ (i + 1) - 1 = i /\ hooks'[i] = hooks[i + 1]
  BY <1>2, <1>3
<1>5. \A v : \A i \in DOMAIN hooks : In(tracked', hooks', v, i - 1) <=> In(tracked, hooks, v, i)
  BY <1>1, <1>2, <1>4, InTail
<1>6. \A v : \A i \in DOMAIN hooks' : In(tracked', hooks', v, i) <=> In(tracked, hooks, v, i + 1)
  <2> SUFFICES ASSUME NEW v, NEW i \in DOMAIN hooks'
               PROVE  In(tracked', hooks', v, i) <=> In(tracked, hooks, v, i + 1)
    OBVIOUS
  <2>1. In(tracked', hooks', v, (i + 1) - 1) <=> In(tracked, hooks, v, i + 1)
    BY <1>4, <1>5
  <2> QED BY <1>4, <2>1
<1>7. \A v : In(tracked', hooks', v, Len(hooks')) <=> In(tracked, hooks, v, Len(hooks))
  BY <1>3, <1>4, <1>5
<1>8. \A v : In(tracked, hooks, v, 1) <=> v \in tracked'
  <2>1. \A v : In(tracked', hooks', v, 1 - 1) <=> In(tracked, hooks, v, 1)
    BY <1>3, <1>4, <1>5
  <2>2. 1..(1 - 1) = {}
    OBVIOUS
  <2>3. \A v : In(tracked', hooks', v, 1 - 1) <=> v \in tracked'
    BY <2>2 DEF In
  <2> QED BY <2>1, <2>3
<1>9. h.session \in Nat /\ h.user \in Users /\ tracked' \subseteq Users
  BY <1>1, <1>2, <1>3 DEF RoomOK, After, HookRow
<1>10. /\ cleaners' \in Seq(Nat) /\ DOMAIN cleaners \subseteq DOMAIN cleaners'
       /\ \A i \in DOMAIN cleaners : cleaners'[i] = cleaners[i]
       /\ \A i \in DOMAIN cleaners' : i \in DOMAIN cleaners \/ 
            (cleaners'[i] = h.session /\ h.kind = "left" /\ tracked' = {})
       /\ h.kind = "left" /\ tracked' = {} => \E i \in DOMAIN cleaners' : cleaners'[i] = h.session
  <2>1. CASE h.kind = "left" /\ tracked' = {}
    <3>1. cleaners' = Append(cleaners, h.session)
      BY <1>1, <2>1
    <3>2. /\ cleaners' \in Seq(Nat) /\ Len(cleaners') = Len(cleaners) + 1 /\ Len(cleaners) \in Nat
          /\ \A i \in 1..Len(cleaners) : cleaners'[i] = cleaners[i]
          /\ cleaners'[Len(cleaners) + 1] = h.session
      BY <1>2, <1>9, <3>1, AppendProperties
    <3>3. DOMAIN cleaners = 1..Len(cleaners) /\ DOMAIN cleaners' = 1..(Len(cleaners) + 1)
      BY <1>2, <3>2
    <3>4. DOMAIN cleaners' = DOMAIN cleaners \cup {Len(cleaners) + 1}
      BY <3>2, <3>3
    <3> QED BY <2>1, <3>2, <3>3, <3>4
  <2>2. CASE ~(h.kind = "left" /\ tracked' = {})
    BY <1>1, <1>2, <2>2
  <2> QED BY <2>1, <2>2
<1> HIDE DEF h
<1>11. RoomOK'
  BY <1>1, <1>2, <1>3, <1>9, <1>10 DEF RoomOK
<1>12. 1 \in DOMAIN hooks
  BY <1>3, <1>4
<1>13. NoneAhead'
  <2>1. h.session <= session
    BY <1>3, <1>12 DEF RoomInv, NoneAhead
  <2> QED BY <1>1, <1>4, <1>10, <2>1 DEF RoomInv, NoneAhead
<1>14. TrackerSound' /\ TrackerFull'
  BY <1>1, <1>7 DEF RoomInv, TrackerSound, TrackerFull
<1>15. NotTheLast'
  BY <1>1, <1>4, <1>6 DEF RoomInv, NotTheLast
<1>16. CleanersLate'
  <2> SUFFICES ASSUME room # {}, forgot # session, NEW i \in DOMAIN cleaners' PROVE cleaners'[i] # session
    BY <1>1 DEF CleanersLate
  <2>1. CASE i \in DOMAIN cleaners
    BY <1>10, <2>1 DEF RoomInv, CleanersLate
  <2>2. CASE cleaners'[i] = h.session /\ h.kind = "left" /\ tracked' = {}
    <3>1. h.session = session => \E v \in Users : In(tracked, hooks, v, 1)
      BY <1>3, <1>12, <2>2 DEF RoomInv, NotTheLast
    <3> QED BY <1>8, <2>2, <3>1
  <2> QED BY <1>10, <2>1, <2>2
<1>17. GroupEnds'
  <2> SUFFICES ASSUME info["voice"] # None, born < session \/ (born = session /\ room = {}), ~(kept >= born)
               PROVE  \/ \E i \in DOMAIN cleaners' : cleaners'[i] >= born
                      \/ \E i \in DOMAIN hooks' : Ends(tracked', hooks', i) /\ hooks'[i].session >= born
    BY <1>1 DEF GroupEnds
  <2>1. CASE \E i \in DOMAIN cleaners : cleaners[i] >= born
    BY <1>10, <2>1
  <2>2. ASSUME NEW i \in DOMAIN hooks, Ends(tracked, hooks, i), hooks[i].session >= born
        PROVE  \/ \E k \in DOMAIN cleaners' : cleaners'[k] >= born
               \/ \E k \in DOMAIN hooks' : Ends(tracked', hooks', k) /\ hooks'[k].session >= born
    <3>1. CASE i = 1
      <4>1. tracked' = {} /\ h.kind = "left" /\ h.session >= born
        BY <1>3, <1>8, <1>9, <2>2, <3>1 DEF Ends
      <4> QED BY <1>10, <4>1
    <3>2. CASE i # 1
      <4> DEFINE k == i - 1
      <4>1. k \in DOMAIN hooks' /\ k + 1 = i
        BY <1>3, <1>4, <3>2
      <4> HIDE DEF k
      <4>2. hooks'[k] = hooks[i] /\ \A v : In(tracked', hooks', v, k) <=> In(tracked, hooks, v, i)
        BY <1>4, <1>6, <4>1
      <4> QED BY <2>2, <4>1, <4>2 DEF Ends
    <3> QED BY <3>1, <3>2
  <2> QED BY <2>1, <2>2 DEF RoomInv, GroupEnds
<1> QED BY <1>11, <1>13, <1>14, <1>15, <1>16, <1>17 DEF RoomInv

\* A goroutine deletes the group, or fails and leaves it.
LEMMA CleanerKeeps ==
  ASSUME GroupsOK, RoomInv, NEW i \in DOMAIN cleaners, DeleteMLSGroupInfo(i) PROVE RoomInv'
<1>1. /\ cleaners' = Without(cleaners, i)
      /\ UNCHANGED <<room, hooks, tracked, session, born, forgot>>
      /\ \/ info' = [info EXCEPT !["voice"] = None] /\ kept' = kept
         \/ info' = info /\ kept' = session
  BY DEF DeleteMLSGroupInfo
<1>2. RoomOK /\ session \in Nat /\ born \in Nat
  BY DEF RoomInv, RoomOK
<1>3. /\ cleaners' \in Seq(Nat)
      /\ \A k \in DOMAIN cleaners' : \E m \in DOMAIN cleaners : cleaners'[k] = cleaners[m]
  BY <1>1, <1>2, WithoutOne DEF RoomOK
<1>4. RoomOK'
  BY <1>1, <1>2, <1>3 DEF RoomOK
<1>5. NoneAhead' /\ CleanersLate'
  BY <1>1, <1>3 DEF RoomInv, NoneAhead, CleanersLate
<1>6. TrackerSound' /\ TrackerFull' /\ NotTheLast'
  BY <1>1 DEF RoomInv, TrackerSound, TrackerFull, NotTheLast
<1>7. CASE info' = [info EXCEPT !["voice"] = None] /\ kept' = kept
  <2>1. info'["voice"] = None
    BY <1>7 DEF GroupsOK, Groups, ChannelGroups
  <2> QED BY <1>4, <1>5, <1>6, <2>1 DEF RoomInv, GroupEnds
<1>8. CASE info' = info /\ kept' = session
  <2>1. born < session \/ born = session => session >= born
    BY <1>2
  <2> QED BY <1>1, <1>4, <1>5, <1>6, <1>8, <2>1 DEF RoomInv, GroupEnds
<1> QED BY <1>1, <1>7, <1>8

\* A restart loses the tracker, the goroutines and the webhooks under way.
LEMMA RestartKeeps == ASSUME RoomInv, VoiceRestart PROVE RoomInv'
<1>1. /\ tracked' = {} /\ cleaners' = <<>> /\ hooks' = <<>> /\ forgot' = session
      /\ kept' = IF cleaners # <<>> \/ hooks # <<>> THEN session ELSE kept
      /\ UNCHANGED <<info, room, session, born>>
  BY DEF VoiceRestart, groups
<1>2. RoomOK /\ session \in Nat /\ born \in Nat
  BY DEF RoomInv, RoomOK
<1>3. DOMAIN hooks' = {} /\ DOMAIN cleaners' = {} /\ Len(hooks') = 0 /\ 1..0 = {}
  BY <1>1
<1>4. RoomOK'
  BY <1>1, <1>2 DEF RoomOK
<1>5. NoneAhead' /\ TrackerFull' /\ NotTheLast' /\ CleanersLate'
  BY <1>1, <1>2, <1>3 DEF NoneAhead, TrackerFull, NotTheLast, CleanersLate
<1>6. TrackerSound'
  BY <1>1, <1>3 DEF TrackerSound, In
<1>7. GroupEnds'
  <2>1. CASE cleaners # <<>> \/ hooks # <<>>
    BY <1>1, <1>2, <2>1 DEF GroupEnds
  <2>2. CASE cleaners = <<>> /\ hooks = <<>>
    BY <1>1, <2>2 DEF RoomInv, GroupEnds
  <2> QED BY <2>1, <2>2
<1> QED BY <1>4, <1>5, <1>6, <1>7 DEF RoomInv

\* A write of the group belongs to the session that goes on or comes next.
LEMMA DeliverKeeps == ASSUME RoomInv, Deliver PROVE RoomInv'
<1>1. /\ UNCHANGED <<room, hooks, tracked, cleaners, session, forgot, kept>>
      /\ born' = IF info'["voice"] = info["voice"] THEN born
                 ELSE IF room = {} THEN session + 1 ELSE session
  BY DEF Deliver, room_vars
<1>2. RoomOK /\ session \in Nat /\ born \in Nat /\ born' \in Nat
  BY <1>1 DEF RoomInv, RoomOK
<1>3. RoomOK' /\ NoneAhead' /\ TrackerSound' /\ TrackerFull' /\ NotTheLast' /\ CleanersLate'
  BY <1>1, <1>2 DEF RoomInv, RoomOK, NoneAhead, TrackerSound, TrackerFull, NotTheLast, CleanersLate
<1>4. CASE info'["voice"] = info["voice"]
  BY <1>1, <1>3, <1>4 DEF RoomInv, GroupEnds
<1>5. CASE info'["voice"] # info["voice"]
  <2>1. ~(born' < session \/ (born' = session /\ room = {}))
    BY <1>1, <1>2, <1>5
  <2> QED BY <1>1, <1>3, <2>1 DEF RoomInv, GroupEnds
<1> QED BY <1>4, <1>5

\* Every step of the server and of LiveKit keeps the invariant.
LEMMA RoomStep ==
  ASSUME GroupsOK, RoomInv, [VoiceNext \/ Deliver]_<<vars, voice_vars>> PROVE (GroupsOK /\ RoomInv)'
<1> SUFFICES RoomInv'
  BY NextGroups, VoiceGroups, VoiceSteps
<1>1. CASE UNCHANGED <<info, room, hooks, tracked, cleaners, session, born, forgot, kept>>
  BY <1>1 DEF RoomInv, RoomOK, NoneAhead, TrackerSound, TrackerFull, NotTheLast, CleanersLate, GroupEnds
<1>2. ASSUME NEW u \in Users, LeaveRoom(u) \/ RemoveParticipant(u) PROVE RoomInv'
  <2>1. CASE u \in room /\ room' = room \ {u} /\ Hook("left", u)
             /\ UNCHANGED <<info, tracked, cleaners, session, born, forgot, kept>>
    BY <2>1, LeaveKeeps
  <2> QED BY <1>1, <1>2, <2>1 DEF LeaveRoom, RemoveParticipant, vars, groups, history
<1>3. ASSUME NEW u \in Users,
             \/ Token(u) \/ TokenCheck(u) \/ TokenIssue(u)
             \/ \E r \in Bars : Lift(u, r) \/ \E e \in BOOLEAN : Bar(u, r, e)
      PROVE  RoomInv'
  BY <1>1, <1>3 DEF Token, TokenCheck, TokenIssue, Lift, Bar, vars, groups, room_vars, history
<1>4. CASE UNCHANGED <<vars, voice_vars>>
  BY <1>1, <1>4 DEF vars, groups, voice_vars, room_vars, history
<1> QED BY <1>2, <1>3, <1>4, JoinKeeps, WebhookKeeps, CleanerKeeps, RestartKeeps, DeliverKeeps
      DEF VoiceNext

\* It holds in an empty room.
LEMMA RoomStart == VoiceInit => GroupsOK /\ RoomInv
<1> SUFFICES ASSUME VoiceInit PROVE RoomInv
  BY InitGroups DEF VoiceInit
<1>1. /\ room = {} /\ hooks = <<>> /\ tracked = {} /\ cleaners = <<>>
      /\ session = 0 /\ born = 0 /\ forgot = 0 /\ kept = 0 /\ info["voice"] = None
  BY DEF VoiceInit, Init, Groups, ChannelGroups
<1>2. DOMAIN hooks = {} /\ DOMAIN cleaners = {} /\ Len(hooks) = 0 /\ 1..0 = {}
  BY <1>1
<1>3. TrackerSound
  BY <1>1, <1>2 DEF TrackerSound, In
<1>4. RoomOK
  BY <1>1 DEF RoomOK
<1> QED BY <1>1, <1>2, <1>3, <1>4 DEF RoomInv, NoneAhead, TrackerFull, NotTheLast, CleanersLate, GroupEnds

\* For every number of users, sessions, webhooks and goroutines under way: a
\* session has no voice group of an earlier one, unless its deletion is under
\* way, failed or was lost (webhook.go).
THEOREM SessionsStartFresh == VoiceSpec => []SessionStartsFresh
<1>1. RoomInv => SessionStartsFresh
  BY DEF RoomInv, GroupEnds, SessionStartsFresh, Ends
<1>2. /\ VoiceInit => GroupsOK /\ RoomInv
      /\ GroupsOK /\ RoomInv /\ [VoiceNext \/ Deliver]_<<vars, voice_vars>> => (GroupsOK /\ RoomInv)'
  BY RoomStart, RoomStep
<1> QED BY <1>1, <1>2, PTL DEF VoiceSpec

\* For every number of them: the group of a session with participants is
\* deleted only by the late goroutine of an earlier session, or after a restart
\* has lost the tracker.
THEOREM LiveGroupsSpared == VoiceSpec => LiveGroupSpared
<1> DEFINE Spared == info["voice"] # None /\ info'["voice"] = None /\ room # {} =>
              forgot = session \/ \E i \in DOMAIN cleaners :
                cleaners' = Without(cleaners, i) /\ cleaners[i] < session
           Inv == RoomInv /\ GroupsOK
<1>1. Inv /\ [VoiceNext \/ Deliver]_<<vars, voice_vars>> => [Spared]_<<vars, voice_vars>>
  <2> SUFFICES ASSUME Inv, [VoiceNext \/ Deliver]_<<vars, voice_vars>>,
                      info["voice"] # None, info'["voice"] = None, room # {}, forgot # session
               PROVE  \E i \in DOMAIN cleaners :
                        cleaners' = Without(cleaners, i) /\ cleaners[i] < session
    OBVIOUS
  <2>1. PICK i \in DOMAIN cleaners : DeleteMLSGroupInfo(i)
    <3>1. CASE \E g \in Groups, e \in Epochs : UpsertMLSGroupInfo(g, e)
      <4>1. PICK g \in Groups, e \in Epochs : UpsertMLSGroupInfo(g, e)
        BY <3>1
      <4>2. info'[g] # None /\ \A f \in Groups : f # g => info'[f] = info[f]
        BY <4>1, Upserts, InfoIsThere
      <4> QED BY <4>2 DEF Groups, ChannelGroups
    <3>2. CASE info'["voice"] = info["voice"]
      BY <3>2
    <3>3. CASE [Next]_vars
      <4>1. CASE DeleteGuildGroupInfo
        BY <3>2, <4>1 DEF DeleteGuildGroupInfo
      <4>2. ASSUME NEW s \in Workers, PostInfo(s) PROVE \E g \in Groups, e \in Epochs : UpsertMLSGroupInfo(g, e)
        <5>1. job[s].group \in Groups /\ job[s].epoch \in Epochs
          BY DEF GroupsOK, JobRow, Groups
        <5> QED BY <4>2, <5>1 DEF PostInfo
      <4>3. CASE info' = info
        BY <3>2, <4>3
      <4> QED BY <3>1, <3>3, <4>1, <4>2, <4>3, QuietGroups DEF Next, GroupNext, PutGroupInfo,
                AppendMLSCommit, GetCommitsSinceEpoch
    <3>4. CASE VoiceRestart
      BY <3>2, <3>4 DEF VoiceRestart, groups
    <3> QED BY <3>3, <3>4, VoiceSteps
  <2>2. cleaners' = Without(cleaners, i)
    BY <2>1 DEF DeleteMLSGroupInfo
  <2>3. cleaners[i] \in Nat /\ session \in Nat /\ cleaners[i] <= session /\ cleaners[i] # session
    BY DEF RoomInv, RoomOK, NoneAhead, CleanersLate
  <2> QED BY <2>1, <2>2, <2>3
<1>2. VoiceInit => Inv
  BY RoomStart
<1>3. Inv /\ [VoiceNext \/ Deliver]_<<vars, voice_vars>> => Inv'
  BY RoomStep
<1> QED BY <1>1, <1>2, <1>3, PTL DEF VoiceSpec, LiveGroupSpared
=============================================================================
