---------------------------- MODULE ChannelsProofs ----------------------------
(***************************************************************************)
(* Proofs about Channels: the channels of a category go with it, objects   *)
(* follow the rows they belong to, a move keeps the order of a guild, and  *)
(* overlapping presigns hold its storage quota.                            *)
(*                                                                         *)
(* What a request has read stays in its job while the tables move on, so   *)
(* the invariant says of every job what is still true of its list: the     *)
(* tree that a deletion has listed is whole or has been entered since, the *)
(* keys it took are those of every older attachment of the tree, what is   *)
(* being unlinked is not live, and a row that a failed presign withdraws   *)
(* has never had an upload URL.  JobOK takes the tables as parameters;     *)
(* KeepsJob shows that it survives what other requests do to them.         *)
(***************************************************************************)
EXTENDS Channels, SequenceTheorems, FiniteSetTheorems, WellFoundedInduction, TLAPS

\* models.Attachment: a row of attachments.
Attachment == [chan : Chans, size : Sizes, state : {"live", "deleted", "gone"}]

Pcs == {"idle", "insert", "list", "evict", "unlink", "sign", "undo", "lookup", "keys", "delete"}
       \cup Moving

Job == [pc : Pcs, chan : Chans \cup {None}, guild : Guilds \cup {None}, size : Nat, att : Nat,
        atts : SUBSET Nat, known : Nat, tree : SUBSET Chans, row : Channel \cup {None},
        parent : Chans \cup {None}, pos : Int, hits : SUBSET Chans, down : SUBSET Chans,
        up : SUBSET Chans, held : SUBSET Chans, crossed : BOOLEAN]

\* No channel is in a channel of the tree without being in the tree itself.
Whole(tree, c) == \A x \in Chans : c[x] # None /\ c[x].parent \in tree => x \in tree

\* What a job's record holds at each of its steps, given the channels c, the
\* ids p that were given out, the attachments a and the upload URLs u.
JobOK(j, c, p, a, u) ==
  /\ j \in Job
  /\ j.atts \subseteq 1 .. Len(a)
  /\ j.att # 0 => j.att \in (1 .. Len(a)) \ u
  /\ j.pc \in {"insert", "list", "lookup", "keys", "delete"} \cup Moving => j.chan \in Chans
  /\ j.pc = "insert" => j.size \in Sizes
  /\ j.pc \in {"list", "sign", "undo"} => j.att # 0
  /\ j.pc = "lookup" => j.chan \in p /\ (c[j.chan] # None => c[j.chan].guild = j.guild)
  /\ j.pc \in {"keys", "delete"} => j.crossed \/ Whole(j.tree, c)
  /\ j.pc = "delete" =>
       /\ j.known <= Len(a)
       /\ \A i \in j.atts : a[i].chan \in j.tree
       /\ \A i \in 1 .. Len(a) :
            i <= j.known /\ a[i].state = "live" /\ a[i].chan \in j.tree => i \in j.atts
  /\ j.pc = "unlink" => \A i \in j.atts : a[i].state # "live"
  /\ j.pc \in Moving => j.row \in Channel /\ j.row.guild = j.guild

\* Channels have ids that were given out, a live attachment has its channel,
\* and only attachments with an upload URL have objects.
Tables ==
  /\ chan \in [Chans -> Channel \cup {None}]
  /\ used \subseteq Chans
  /\ \A c \in Chans : chan[c] # None => c \in used
  /\ att \in Seq(Attachment)
  /\ url \subseteq 1 .. Len(att) /\ blob \subseteq url
  /\ \A i \in 1 .. Len(att) : att[i].state = "live" => chan[att[i].chan] # None

JobsOK == job \in [Workers -> Job] /\ \A s \in Workers : JobOK(job[s], chan, used, att, url)

\* Two presigns never have the same row.
AttsApart == \A s, t \in Workers : s # t /\ job[s].att = job[t].att => job[s].att = 0

\* The second part of ObjectsFollowRows, the first being part of JobOK.
Followed ==
  \A i \in blob : att[i].state # "live" =>
    i \in orphan \/ \E s \in Workers : job[s].pc = "unlink" /\ i \in job[s].atts

Inv == Tables /\ JobsOK /\ AttsApart /\ Followed /\ TreeDeleted

\* The idle record is a job.
LEMMA IdleOK ==
  /\ Idle \in Job
  /\ Idle.pc = "idle" /\ Idle.att = 0 /\ Idle.atts = {} /\ Idle.tree = {} /\ ~Idle.crossed
BY DEF Idle, Job, Pcs

\* An idle job has nothing to keep.
LEMMA IdleJobOK == \A c, p, a, u : JobOK(Idle, c, p, a, u)
BY IdleOK DEF JobOK, Moving

\* A table of n rows is a sequence of length n.
LEMMA RowsAreSeq ==
  ASSUME NEW S, NEW n \in Nat, NEW f \in [1 .. n -> S]
  PROVE  f \in Seq(S) /\ Len(f) = n
<1>1. f \in Seq(S)
  BY SeqDef
<1>2. DOMAIN f = 1 .. Len(f) /\ Len(f) \in Nat
  BY <1>1, LenProperties
<1>3. 1 .. n = 1 .. Len(f)
  BY <1>2
<1>4. Len(f) = n
  <2>1. n > 0 => n \in 1 .. Len(f)
    BY <1>3
  <2>2. Len(f) > 0 => Len(f) \in 1 .. n
    BY <1>2, <1>3
  <2> QED BY <1>2, <2>1, <2>2
<1> QED BY <1>1, <1>4

\* The rows of attachments, as the model's operators see them.
LEMMA AttRows ==
  ASSUME Tables
  PROVE  /\ Len(att) \in Nat /\ DOMAIN att = 1 .. Len(att)
         /\ att \in [1 .. Len(att) -> Attachment]
         /\ \A i : Live(i) <=> i \in 1 .. Len(att) /\ att[i].state = "live"
         /\ Active = {i \in 1 .. Len(att) : att[i].state = "live"}
<1>1. Len(att) \in Nat /\ DOMAIN att = 1 .. Len(att) /\ att \in [1 .. Len(att) -> Attachment]
  BY LenProperties DEF Tables
<1> QED BY <1>1 DEF Live, Active

(***************************************************************************)
(* What the tables may do under a job.                                     *)
(***************************************************************************)
\* Attachments are added at the end, keep their channel and their size, and
\* never come back.
AttStep ==
  /\ att' \in Seq(Attachment) /\ Len(att) <= Len(att')
  /\ \A i \in 1 .. Len(att) :
       /\ att'[i].chan = att[i].chan /\ att'[i].size = att[i].size
       /\ att'[i].state = "live" => att[i].state = "live"

\* A channel that is gone does not come back under its id.
ChanStep ==
  /\ used \subseteq used'
  /\ \A c \in used : chan'[c] # None => chan[c] # None /\ chan'[c].guild = chan[c].guild

\* A job whose tree is still whole and whose row gets no URL stays as it is.
LEMMA KeepsJob ==
  ASSUME Tables, NEW j, JobOK(j, chan, used, att, url), AttStep, ChanStep,
         j.att # 0 => j.att \notin url',
         j.pc \in {"keys", "delete"} => j.crossed \/ Whole(j.tree, chan')
  PROVE  JobOK(j, chan', used', att', url')
<1>1. Len(att) \in Nat /\ Len(att') \in Nat /\ Len(att) <= Len(att')
  BY AttRows, LenProperties DEF AttStep
<1>2. 1 .. Len(att) \subseteq 1 .. Len(att')
  BY <1>1
<1>3. j \in Job /\ j.atts \subseteq 1 .. Len(att) /\ j.known \in Nat
  BY DEF JobOK, Job
<1>4. j.atts \subseteq 1 .. Len(att') /\ (j.att # 0 => j.att \in (1 .. Len(att')) \ url')
  BY <1>2 DEF JobOK
<1>5. j.pc = "lookup" => j.chan \in used' /\ (chan'[j.chan] # None => chan'[j.chan].guild = j.guild)
  BY DEF JobOK, ChanStep
<1>6. j.pc = "delete" =>
        /\ j.known <= Len(att')
        /\ \A i \in j.atts : att'[i].chan \in j.tree
        /\ \A i \in 1 .. Len(att') :
             i <= j.known /\ att'[i].state = "live" /\ att'[i].chan \in j.tree => i \in j.atts
  <2> SUFFICES ASSUME j.pc = "delete"
               PROVE  /\ j.known <= Len(att')
                      /\ \A i \in j.atts : att'[i].chan \in j.tree
                      /\ \A i \in 1 .. Len(att') :
                           i <= j.known /\ att'[i].state = "live" /\ att'[i].chan \in j.tree
                             => i \in j.atts
    OBVIOUS
  <2>1. j.known <= Len(att)
    BY DEF JobOK
  <2>2. \A i \in 1 .. Len(att') : i <= j.known => i \in 1 .. Len(att)
    BY <1>1, <1>3, <2>1
  <2>3. j.known <= Len(att')
    BY <1>1, <1>3, <2>1
  <2> QED BY <1>3, <2>2, <2>3 DEF JobOK, AttStep
<1>7. j.pc = "unlink" => \A i \in j.atts : att'[i].state # "live"
  BY <1>3 DEF JobOK, AttStep
<1> QED BY <1>4, <1>5, <1>6, <1>7 DEF JobOK

\* Nothing is an AttStep and a ChanStep.
LEMMA SameAtts == Tables /\ UNCHANGED att => AttStep
<1> SUFFICES ASSUME Tables, UNCHANGED att PROVE AttStep
  OBVIOUS
<1>1. Len(att) \in Nat
  BY AttRows
<1> QED BY <1>1 DEF AttStep, Tables

\* Channels that stay make a ChanStep.
LEMMA SameChans == UNCHANGED <<chan, used>> => ChanStep
BY DEF ChanStep

\* SoftDelete takes the given rows out of the live ones and nothing else.
LEMMA SoftDeleted ==
  ASSUME Tables, NEW S, SoftDelete(S)
  PROVE  /\ AttStep /\ Len(att') = Len(att)
         /\ \A i \in 1 .. Len(att) :
              att'[i].state = "live" <=> att[i].state = "live" /\ i \notin S
<1> DEFINE n == Len(att)
<1>1. n \in Nat /\ DOMAIN att = 1 .. n /\ att \in [1 .. n -> Attachment]
  BY AttRows
<1>2. \A i \in 1 .. n : Live(i) <=> att[i].state = "live"
  BY AttRows
<1>3. att' = [i \in 1 .. n |-> IF i \in S /\ att[i].state = "live"
                               THEN [att[i] EXCEPT !.state = "deleted"] ELSE att[i]]
  BY <1>1, <1>2 DEF SoftDelete
<1>4. \A i \in 1 .. n : LET r == [att[i] EXCEPT !.state = "deleted"]
                        IN  /\ r \in Attachment /\ r.state = "deleted"
                            /\ r.chan = att[i].chan /\ r.size = att[i].size
  BY <1>1 DEF Attachment
<1>5. att' \in [1 .. n -> Attachment]
  BY <1>1, <1>3, <1>4
<1>6. att' \in Seq(Attachment) /\ Len(att') = n
  BY <1>1, <1>5, RowsAreSeq
<1>7. \A i \in 1 .. n : /\ att'[i].chan = att[i].chan /\ att'[i].size = att[i].size
                        /\ att'[i].state = "live" <=> att[i].state = "live" /\ i \notin S
  BY <1>3, <1>4
<1> QED BY <1>1, <1>6, <1>7 DEF AttStep

(***************************************************************************)
(* Steps that replace one job.                                             *)
(***************************************************************************)
\* The other jobs stay in order when the tables make their steps.
LEMMA JobReplaced ==
  ASSUME Inv, NEW s \in Workers, NEW k, job' = [job EXCEPT ![s] = k],
         UNCHANGED <<chan, used>>, AttStep,
         \A t \in Workers : t # s /\ job[t].att # 0 => job[t].att \notin url',
         JobOK(k, chan', used', att', url'),
         k.att # 0 => \A t \in Workers : t # s => job[t].att # k.att
  PROVE  JobsOK' /\ AttsApart'
<1>1. job \in [Workers -> Job] /\ Tables /\ ChanStep
  BY SameChans DEF Inv, JobsOK
<1>2. \A t \in Workers : job'[t] = IF t = s THEN k ELSE job[t]
  BY <1>1
<1>3. job' \in [Workers -> Job]
  BY <1>1 DEF JobOK
<1>4. ASSUME NEW t \in Workers, t # s
      PROVE  JobOK(job[t], chan', used', att', url')
  <2>1. JobOK(job[t], chan, used, att, url)
    BY DEF Inv, JobsOK
  <2>2. job[t].pc \in {"keys", "delete"} => job[t].crossed \/ Whole(job[t].tree, chan')
    BY <2>1 DEF JobOK
  <2>3. job[t].att # 0 => job[t].att \notin url'
    BY <1>4
  <2> QED BY <1>1, <2>1, <2>2, <2>3, KeepsJob
<1>5. JobsOK'
  BY <1>2, <1>3, <1>4 DEF JobsOK
<1>6. AttsApart'
  BY <1>2 DEF Inv, AttsApart
<1> QED BY <1>5, <1>6

\* The row of a job is its own, and has no URL as long as the job has it.
LEMMA OwnRow ==
  ASSUME Inv, NEW s \in Workers, NEW t \in Workers
  PROVE  /\ job[t].att # 0 => job[t].att \notin url
         /\ t # s /\ job[t].att = job[s].att => job[s].att = 0
BY DEF Inv, JobsOK, JobOK, AttsApart

\* A step that changes a job and no table.
LEMMA QuietStep ==
  ASSUME Inv, NEW s \in Workers, NEW k, job' = [job EXCEPT ![s] = k],
         UNCHANGED <<chan, used, att, blob, url, orphan, stray>>,
         JobOK(k, chan, used, att, url),
         k.att = 0 \/ k.att = job[s].att,
         job[s].pc = "unlink" => job[s].atts = {}
  PROVE  Inv'
<1>1. Tables /\ Tables' /\ AttStep /\ job \in [Workers -> Job]
  BY SameAtts DEF Inv, Tables, JobsOK
<1>2. JobOK(k, chan', used', att', url')
  OBVIOUS
<1>3. JobsOK' /\ AttsApart'
  BY <1>1, <1>2, OwnRow, JobReplaced
<1>4. Followed'
  BY <1>1 DEF Inv, Followed
<1> QED BY <1>1, <1>3, <1>4 DEF Inv, TreeDeleted

\* Ending a request that has nothing to delete changes no table.
LEMMA DoneStep ==
  ASSUME Inv, NEW s \in Workers, Done(s),
         UNCHANGED <<chan, used, att, blob, url, orphan, stray>>,
         job[s].pc = "unlink" => job[s].atts = {}
  PROVE  Inv'
BY QuietStep, IdleJobOK, IdleOK DEF Done

\* Moving on with the same record, for the steps that need no new fact.
LEMMA GotoStep ==
  ASSUME Inv, NEW s \in Workers, NEW pc \in {"sign", "undo"}, Goto(s, pc), job[s].att # 0,
         UNCHANGED <<chan, used, att, blob, url, orphan, stray>>,
         job[s].pc = "unlink" => job[s].atts = {}
  PROVE  Inv'
<1> DEFINE k == [job[s] EXCEPT !.pc = pc]
<1>1. job[s] \in Job /\ JobOK(job[s], chan, used, att, url) /\ job \in [Workers -> Job]
  BY DEF Inv, JobsOK
<1>2. k \in Job /\ k.pc = pc /\ k.atts = job[s].atts /\ k.att = job[s].att
  BY <1>1 DEF Job, Pcs
<1>3. job' = [job EXCEPT ![s] = k]
  BY <1>1 DEF Goto
<1> HIDE DEF k
<1>4. JobOK(k, chan, used, att, url)
  BY <1>1, <1>2 DEF JobOK, Moving
<1> QED BY <1>2, <1>3, <1>4, QuietStep

\* A request reads what it needs and the tables stay.
LEMMA ReadSteps ==
  ASSUME Inv, NEW s \in Workers
  PROVE  /\ \A c \in Chans, n \in Sizes : Presign(s, c, n) => Inv'
         /\ EnforceGuildAttachmentQuota(s) => Inv'
         /\ \A i \in DOMAIN att : ListExpiredAttachments(s, i) => Inv'
         /\ \A c \in Chans, p \in Chans \cup {None}, n \in 0 .. MaxPos :
              MoveChannel(s, c, p, n) => Inv'
         /\ \A c \in Chans : DeleteChannel(s, c) => Inv'
         /\ StorageKeys(s) => Inv'
<1>a. job[s] \in Job /\ JobOK(job[s], chan, used, att, url) /\ job \in [Workers -> Job]
  BY DEF Inv, JobsOK
<1>b. Tables /\ chan \in [Chans -> Channel \cup {None}]
      /\ Len(att) \in Nat /\ DOMAIN att = 1 .. Len(att)
      /\ Active = {i \in 1 .. Len(att) : att[i].state = "live"}
  BY AttRows DEF Inv, Tables
<1>c. \A n \in Sizes : n \in Nat
  BY ChannelsAssumption
<1>d. ASSUME NEW j, Start(s, j)
      PROVE  job[s].pc = "idle" /\ job' = [job EXCEPT ![s] = j]
  BY <1>d, IdleOK DEF Start
<1>1. ASSUME NEW c \in Chans, NEW n \in Sizes, Presign(s, c, n)
      PROVE  Inv'
  <2> DEFINE k == [Idle EXCEPT !.pc = "insert", !.chan = c, !.guild = chan[c].guild, !.size = n]
  <2>1. chan[c] \in Channel
    BY <1>b, <1>1 DEF Presign
  <2>2. k \in Job /\ k.pc = "insert" /\ k.chan = c /\ k.size = n /\ k.att = 0 /\ k.atts = {}
    <3>1. chan[c].guild \in Guilds /\ n \in Nat
      BY <1>c, <2>1 DEF Channel
    <3>2. k \in Job
      BY <3>1, IdleOK DEF Job, Pcs
    <3>3. k.pc = "insert" /\ k.chan = c /\ k.size = n /\ k.att = 0 /\ k.atts = {}
      BY DEF Idle
    <3> QED BY <3>2, <3>3
  <2>3. Start(s, k)
    BY <1>1 DEF Presign
  <2> HIDE DEF k
  <2>4. JobOK(k, chan, used, att, url)
    BY <2>2 DEF JobOK, Moving
  <2>5. UNCHANGED <<chan, used, att, blob, url, orphan, stray>>
    BY <1>1 DEF Presign, rows, history
  <2>6. job[s].pc = "idle" /\ job' = [job EXCEPT ![s] = k]
    BY <1>d, <2>3
  <2> QED BY <2>2, <2>3, <2>4, <2>5, <2>6, QuietStep
<1>2. ASSUME EnforceGuildAttachmentQuota(s)
      PROVE  Inv'
  <2>1. job[s].pc = "list" /\ job[s].att # 0
    BY <1>a, <1>2 DEF EnforceGuildAttachmentQuota, At, JobOK
  <2>2. CASE chan[job[s].chan] = None
    BY <1>2, <2>1, <2>2, GotoStep DEF EnforceGuildAttachmentQuota, rows, history
  <2>3. CASE chan[job[s].chan] # None
    <3> DEFINE V == Victims(job[s].guild)
               pc == IF V = {} THEN "sign" ELSE "evict"
               k == [job[s] EXCEPT !.pc = pc, !.atts = V]
    <3>1. V \subseteq 1 .. Len(att)
      BY <1>b DEF Victims, ActiveIn
    <3> HIDE DEF V
    <3>2. k \in Job /\ k.pc \in {"sign", "evict"} /\ k.atts = V /\ k.att = job[s].att
      <4>1. V \in SUBSET Nat /\ pc \in Pcs /\ pc \in {"sign", "evict"}
        BY <1>b, <3>1 DEF Pcs
      <4> HIDE DEF pc
      <4>2. k \in Job
        BY <1>a, <4>1 DEF Job
      <4>3. k.pc = pc /\ k.atts = V /\ k.att = job[s].att
        BY <1>a DEF Job
      <4> QED BY <4>1, <4>2, <4>3
    <3>3. job' = [job EXCEPT ![s] = k]
      BY <1>a, <1>2, <2>3 DEF EnforceGuildAttachmentQuota, V
    <3> HIDE DEF k
    <3>4. JobOK(k, chan, used, att, url)
      BY <1>a, <2>1, <3>1, <3>2 DEF JobOK, Moving
    <3>5. UNCHANGED <<chan, used, att, blob, url, orphan, stray>>
      BY <1>2 DEF EnforceGuildAttachmentQuota, rows, history
    <3> QED BY <2>1, <3>2, <3>3, <3>4, <3>5, QuietStep
  <2> QED BY <2>2, <2>3
<1>3. ASSUME NEW i \in DOMAIN att, ListExpiredAttachments(s, i)
      PROVE  Inv'
  <2> DEFINE A == {n \in Active : n <= i}
             k == [Idle EXCEPT !.pc = "evict", !.atts = A]
  <2>1. A \subseteq 1 .. Len(att)
    BY <1>b
  <2>2. Start(s, k)
    BY <1>3 DEF ListExpiredAttachments
  <2> HIDE DEF A
  <2>3. k \in Job /\ k.pc = "evict" /\ k.atts = A /\ k.att = 0
    <3>1. A \in SUBSET Nat
      BY <1>b, <2>1
    <3>2. k \in Job
      BY <3>1, IdleOK DEF Job, Pcs
    <3>3. k.pc = "evict" /\ k.atts = A /\ k.att = 0
      BY DEF Idle
    <3> QED BY <3>2, <3>3
  <2> HIDE DEF k
  <2>4. JobOK(k, chan, used, att, url)
    BY <2>1, <2>3 DEF JobOK, Moving
  <2>5. UNCHANGED <<chan, used, att, blob, url, orphan, stray>>
    BY <1>3 DEF ListExpiredAttachments, rows, history
  <2>6. job[s].pc = "idle" /\ job' = [job EXCEPT ![s] = k]
    BY <1>d, <2>2
  <2> QED BY <2>2, <2>3, <2>4, <2>5, <2>6, QuietStep
<1>4. ASSUME NEW c \in Chans, NEW p \in Chans \cup {None}, NEW n \in 0 .. MaxPos,
             MoveChannel(s, c, p, n)
      PROVE  Inv'
  <2> DEFINE k == [Idle EXCEPT !.pc = "gap", !.chan = c, !.guild = chan[c].guild,
                               !.row = chan[c], !.parent = p, !.pos = n]
  <2>1. chan[c] \in Channel /\ n \in Int
    BY <1>b, <1>4, ChannelsAssumption DEF MoveChannel
  <2>2. k \in Job /\ k.pc = "gap" /\ k.chan = c /\ k.guild = chan[c].guild
        /\ k.row = chan[c] /\ k.att = 0 /\ k.atts = {}
    <3>1. chan[c].guild \in Guilds
      BY <2>1 DEF Channel
    <3>2. k \in Job
      BY <2>1, <3>1, IdleOK DEF Job, Pcs, Moving
    <3>3. /\ k.pc = "gap" /\ k.chan = c /\ k.guild = chan[c].guild
          /\ k.row = chan[c] /\ k.att = 0 /\ k.atts = {}
      BY DEF Idle
    <3> QED BY <3>2, <3>3
  <2>3. Start(s, k)
    BY <1>4 DEF MoveChannel
  <2> HIDE DEF k
  <2>4. JobOK(k, chan, used, att, url)
    BY <2>1, <2>2 DEF JobOK, Moving
  <2>5. UNCHANGED <<chan, used, att, blob, url, orphan, stray>>
    BY <1>4 DEF MoveChannel, rows, history
  <2>6. job[s].pc = "idle" /\ job' = [job EXCEPT ![s] = k]
    BY <1>d, <2>3
  <2> QED BY <2>2, <2>3, <2>4, <2>5, <2>6, QuietStep
<1>5. ASSUME NEW c \in Chans, DeleteChannel(s, c)
      PROVE  Inv'
  <2> DEFINE k == [Idle EXCEPT !.pc = "lookup", !.chan = c, !.guild = chan[c].guild]
  <2>1. chan[c] \in Channel /\ c \in used
    BY <1>b, <1>5 DEF DeleteChannel, Tables
  <2>2. k \in Job /\ k.pc = "lookup" /\ k.chan = c /\ k.guild = chan[c].guild
        /\ k.att = 0 /\ k.atts = {}
    <3>1. chan[c].guild \in Guilds
      BY <2>1 DEF Channel
    <3>2. k \in Job
      BY <3>1, IdleOK DEF Job, Pcs
    <3>3. /\ k.pc = "lookup" /\ k.chan = c /\ k.guild = chan[c].guild
          /\ k.att = 0 /\ k.atts = {}
      BY DEF Idle
    <3> QED BY <3>2, <3>3
  <2>3. Start(s, k)
    BY <1>5 DEF DeleteChannel
  <2> HIDE DEF k
  <2>4. JobOK(k, chan, used, att, url)
    BY <2>1, <2>2 DEF JobOK, Moving
  <2>5. UNCHANGED <<chan, used, att, blob, url, orphan, stray>>
    BY <1>5 DEF DeleteChannel, rows, history
  <2>6. job[s].pc = "idle" /\ job' = [job EXCEPT ![s] = k]
    BY <1>d, <2>3
  <2> QED BY <2>2, <2>3, <2>4, <2>5, <2>6, QuietStep
<1>6. ASSUME StorageKeys(s)
      PROVE  Inv'
  <2> DEFINE A == {i \in Active : att[i].chan \in job[s].tree}
             n == Len(att)
             k == [job[s] EXCEPT !.pc = "delete", !.known = n, !.atts = A]
  <2>1. A \subseteq 1 .. n /\ n \in Nat /\ \A i \in 1 .. n :
          i \in A <=> att[i].state = "live" /\ att[i].chan \in job[s].tree
    BY <1>b
  <2>2. job[s].pc = "keys" /\ job' = [job EXCEPT ![s] = k]
    BY <1>a, <1>6 DEF StorageKeys, At
  <2> HIDE DEF A, n
  <2>3. k \in Job /\ k.pc = "delete" /\ k.known = n /\ k.atts = A /\ k.att = job[s].att
        /\ k.chan = job[s].chan /\ k.tree = job[s].tree /\ k.crossed = job[s].crossed
    <3>1. A \in SUBSET Nat
      BY <2>1
    <3>2. k \in Job
      BY <1>a, <2>1, <3>1 DEF Job, Pcs
    <3>3. /\ k.pc = "delete" /\ k.known = n /\ k.atts = A /\ k.att = job[s].att
          /\ k.chan = job[s].chan /\ k.tree = job[s].tree /\ k.crossed = job[s].crossed
      BY <1>a DEF Job
    <3> QED BY <3>2, <3>3
  <2> HIDE DEF k
  <2>4. JobOK(k, chan, used, att, url)
    <3>1. k.atts \subseteq 1 .. n /\ k.chan \in Chans /\ (k.crossed \/ Whole(k.tree, chan))
          /\ k.known <= n
      BY <1>a, <2>1, <2>2, <2>3 DEF JobOK
    <3>2. \A i \in k.atts : att[i].chan \in k.tree
      BY <2>1, <2>3
    <3>3. \A i \in 1 .. n : i <= k.known /\ att[i].state = "live" /\ att[i].chan \in k.tree
            => i \in k.atts
      BY <2>1, <2>3
    <3> QED BY <1>a, <2>3, <3>1, <3>2, <3>3 DEF JobOK, n, Moving
  <2>5. UNCHANGED <<chan, used, att, blob, url, orphan, stray>>
    BY <1>6 DEF StorageKeys, rows, history
  <2> QED BY <2>2, <2>3, <2>4, <2>5, QuietStep
<1> QED BY <1>1, <1>2, <1>3, <1>4, <1>5, <1>6

(***************************************************************************)
(* Steps that write attachments and objects.                               *)
(***************************************************************************)
\* The new row is at the end, its URL not yet given out.
LEMMA InsertInv ==
  ASSUME Inv, NEW s \in Workers, InsertAttachment(s)
  PROVE  Inv'
<1>a. job[s] \in Job /\ JobOK(job[s], chan, used, att, url) /\ job \in [Workers -> Job]
      /\ job[s].pc = "insert" /\ job[s].chan \in Chans /\ job[s].size \in Sizes
  BY DEF Inv, JobsOK, InsertAttachment, At, JobOK
<1>b. UNCHANGED <<chan, used, blob, url, orphan, stray>>
  BY DEF InsertAttachment, history
<1>1. CASE chan[job[s].chan] = None
  <2>1. Done(s) /\ UNCHANGED att
    BY <1>1 DEF InsertAttachment
  <2> QED BY <1>a, <1>b, <2>1, DoneStep
<1>2. CASE chan[job[s].chan] # None
  <2> DEFINE r == [chan |-> job[s].chan, size |-> job[s].size, state |-> "live"]
             n == Len(att)
             m == n + 1
             pc == IF Quota = None THEN "sign" ELSE "list"
             k == [job[s] EXCEPT !.pc = pc, !.att = m]
  <2>1. r \in Attachment /\ r.chan = job[s].chan
    BY <1>a DEF Attachment
  <2>2. n \in Nat /\ m \in Nat /\ m = n + 1 /\ 1 .. n \subseteq 1 .. m /\ m \in 1 .. m
        /\ m \notin 1 .. n /\ (\A i \in 1 .. m : i = m \/ i \in 1 .. n)
    BY AttRows DEF Inv
  <2>3. att' = Append(att, r) /\ job' = [job EXCEPT ![s] = k]
    BY <1>a, <1>2 DEF InsertAttachment
  <2> HIDE DEF r
  <2>4. att' \in Seq(Attachment) /\ Len(att') = m /\ att'[m] = r
        /\ \A i \in 1 .. n : att'[i] = att[i]
    BY <2>1, <2>2, <2>3, AppendProperties DEF Inv, Tables
  <2>5. pc \in Pcs /\ pc \in {"sign", "list"}
    BY DEF Pcs
  <2> HIDE DEF m, n, pc
  <2>6. k \in Job
    BY <1>a, <2>2, <2>5 DEF Job
  <2>7. k.pc = pc /\ k.att = m /\ k.atts = job[s].atts /\ k.chan = job[s].chan
    BY <1>a DEF Job
  <2> HIDE DEF k
  <2>8. url \subseteq 1 .. n /\ job[s].atts \subseteq 1 .. n
    BY <1>a DEF Inv, Tables, JobOK, n
  <2>9. JobOK(k, chan', used', att', url')
    <3>1. k.atts \subseteq 1 .. Len(att') /\ k.att \in (1 .. Len(att')) \ url' /\ k.chan \in Chans
      BY <1>a, <1>b, <2>2, <2>4, <2>7, <2>8
    <3> QED BY <2>2, <2>5, <2>6, <2>7, <3>1 DEF JobOK, Moving
  <2>10. \A t \in Workers : job[t].att # m
    <3>1. \A t \in Workers : job[t].att # 0 => job[t].att \in 1 .. n
      BY DEF Inv, JobsOK, JobOK, n
    <3> QED BY <2>2, <3>1
  <2>11. AttStep
    BY <2>2, <2>4 DEF AttStep, n
  <2>12. JobsOK' /\ AttsApart'
    BY <1>b, <2>3, <2>7, <2>9, <2>10, <2>11, OwnRow, JobReplaced
  <2>13. Tables'
    <3>1. \A i \in 1 .. Len(att') : att'[i].state = "live" => chan'[att'[i].chan] # None
      BY <1>b, <1>2, <2>1, <2>2, <2>4 DEF Inv, Tables, n
    <3>2. url' \subseteq 1 .. Len(att')
      BY <1>b, <2>2, <2>4, <2>8
    <3> QED BY <1>b, <2>4, <3>1, <3>2 DEF Inv, Tables
  <2>14. Followed'
    <3>1. \A i \in blob : att'[i] = att[i]
      BY <2>4, <2>8 DEF Inv, Tables
    <3>2. \A t \in Workers : job[t].pc = "unlink" => job'[t] = job[t]
      BY <1>a, <2>3
    <3> QED BY <1>b, <3>1, <3>2 DEF Inv, Followed
  <2> QED BY <1>b, <2>12, <2>13, <2>14 DEF Inv, TreeDeleted
<1> QED BY <1>1, <1>2

\* The rows stay in order when some of them are tombstoned.
LEMMA SoftDeleteTables ==
  ASSUME Tables, NEW S, SoftDelete(S), UNCHANGED <<chan, used, blob, url>>
  PROVE  Tables'
<1>1. AttStep /\ Len(att') = Len(att)
  BY SoftDeleted
<1>2. \A i \in 1 .. Len(att') : att'[i].state = "live" => chan'[att'[i].chan] # None
  BY <1>1 DEF AttStep, Tables
<1> QED BY <1>1, <1>2 DEF AttStep, Tables

\* Rows are tombstoned and their objects are the next to go.
LEMMA UnlinkStep ==
  ASSUME Inv, NEW s \in Workers, NEW S, SoftDelete(S), NEW k, job' = [job EXCEPT ![s] = k],
         UNCHANGED <<chan, used, blob, url, orphan, stray>>,
         k \in Job, k.pc = "unlink", k.atts = S \cap Active, k.att = 0 \/ k.att = job[s].att,
         job[s].pc # "unlink"
  PROVE  Inv'
<1>1. AttStep /\ Len(att') = Len(att)
      /\ \A i \in 1 .. Len(att) : att'[i].state = "live" <=> att[i].state = "live" /\ i \notin S
  BY SoftDeleted DEF Inv
<1>2. Active = {i \in 1 .. Len(att) : att[i].state = "live"} /\ job \in [Workers -> Job]
  BY AttRows DEF Inv, JobsOK
<1>3. JobOK(k, chan', used', att', url')
  <2>1. job[s].att # 0 => job[s].att \in (1 .. Len(att)) \ url
    BY DEF Inv, JobsOK, JobOK
  <2>2. k.atts \subseteq 1 .. Len(att') /\ \A i \in k.atts : att'[i].state # "live"
    BY <1>1, <1>2
  <2> QED BY <1>1, <2>1, <2>2 DEF JobOK, Moving
<1>4. JobsOK' /\ AttsApart'
  BY <1>1, <1>3, OwnRow, JobReplaced
<1>5. Tables'
  BY SoftDeleteTables DEF Inv
<1>6. Followed'
  <2> SUFFICES ASSUME NEW i \in blob, att'[i].state # "live"
               PROVE  i \in orphan \/ \E t \in Workers : job'[t].pc = "unlink" /\ i \in job'[t].atts
    BY DEF Followed
  <2>1. i \in 1 .. Len(att)
    BY DEF Inv, Tables
  <2>2. CASE att[i].state = "live"
    BY <1>1, <1>2, <2>1, <2>2
  <2>3. CASE att[i].state # "live"
    BY <1>2, <2>3 DEF Inv, Followed
  <2> QED BY <2>2, <2>3
<1> QED BY <1>4, <1>5, <1>6 DEF Inv, TreeDeleted

\* The rows of an eviction, and a single one.
LEMMA DeleteInv ==
  ASSUME Inv, NEW s \in Workers
  PROVE  /\ SoftDeleteAttachmentsByID(s) => Inv'
         /\ \A i \in DOMAIN att : DeleteAttachment(s, i) => Inv'
<1>a. job[s] \in Job /\ job[s].atts \subseteq 1 .. Len(att) /\ job \in [Workers -> Job]
  BY DEF Inv, JobsOK, JobOK
<1>b. Len(att) \in Nat /\ DOMAIN att = 1 .. Len(att)
      /\ (\A i : Live(i) <=> i \in 1 .. Len(att) /\ att[i].state = "live")
      /\ Active = {i \in 1 .. Len(att) : att[i].state = "live"}
  BY AttRows DEF Inv
<1>1. ASSUME SoftDeleteAttachmentsByID(s)
      PROVE  Inv'
  <2> DEFINE A == job[s].atts \cap Active
             k == [job[s] EXCEPT !.pc = "unlink", !.atts = A]
  <2>1. job' = [job EXCEPT ![s] = k]
    BY <1>1, <1>a DEF SoftDeleteAttachmentsByID
  <2>2. A \in SUBSET Nat
    BY <1>a, <1>b
  <2> HIDE DEF A
  <2>3. k \in Job
    BY <1>a, <2>2 DEF Job, Pcs
  <2>4. k.pc = "unlink" /\ k.atts = A /\ k.att = job[s].att
    BY <1>a DEF Job
  <2> HIDE DEF k
  <2>5. SoftDelete(job[s].atts) /\ UNCHANGED <<chan, used, blob, url, orphan, stray>>
        /\ job[s].pc = "evict"
    BY <1>1 DEF SoftDeleteAttachmentsByID, At, history
  <2> QED BY <2>1, <2>3, <2>4, <2>5, UnlinkStep DEF A
<1>2. ASSUME NEW i \in DOMAIN att, DeleteAttachment(s, i)
      PROVE  Inv'
  <2> DEFINE k == [Idle EXCEPT !.pc = "unlink", !.atts = {i}]
  <2>1. job' = [job EXCEPT ![s] = k] /\ job[s].pc = "idle"
    BY <1>2, IdleOK DEF DeleteAttachment, Start
  <2>2. {i} \in SUBSET Nat /\ {i} = {i} \cap Active
    BY <1>2, <1>b DEF DeleteAttachment
  <2>3. k \in Job
    BY <2>2, IdleOK DEF Job, Pcs
  <2>4. k.pc = "unlink" /\ k.atts = {i} /\ k.att = 0
    BY DEF Idle
  <2> HIDE DEF k
  <2>5. SoftDelete({i}) /\ UNCHANGED <<chan, used, blob, url, orphan, stray>>
    BY <1>2 DEF DeleteAttachment, history
  <2> QED BY <2>1, <2>2, <2>3, <2>4, <2>5, UnlinkStep
<1> QED BY <1>1, <1>2

\* An object goes when its turn comes, or is left over.
LEMMA DeleteObjectInv ==
  ASSUME Inv, NEW s \in Workers, DeleteObject(s)
  PROVE  Inv'
<1>a. job[s] \in Job /\ JobOK(job[s], chan, used, att, url) /\ job \in [Workers -> Job]
      /\ job[s].pc = "unlink"
  BY DEF Inv, JobsOK, DeleteObject, At
<1>b. UNCHANGED <<chan, used, att, url, stray>>
  BY DEF DeleteObject, rows
<1>1. CASE /\ job[s].atts = {} /\ IF job[s].att # 0 THEN Goto(s, "sign") ELSE Done(s)
           /\ UNCHANGED <<blob, orphan>>
  <2>1. CASE job[s].att # 0
    BY <1>b, <1>1, <2>1, GotoStep
  <2>2. CASE job[s].att = 0
    BY <1>b, <1>1, <2>2, DoneStep
  <2> QED BY <2>1, <2>2
<1>2. ASSUME NEW i \in job[s].atts, job' = [job EXCEPT ![s].atts = @ \ {i}],
             \/ blob' = blob \ {i} /\ orphan' = orphan \ {i}
             \/ Faults /\ orphan' = orphan \cup {i} /\ UNCHANGED blob
      PROVE  Inv'
  <2> DEFINE A == job[s].atts \ {i}
             k == [job[s] EXCEPT !.atts = A]
  <2>1. job' = [job EXCEPT ![s] = k] /\ A \in SUBSET Nat
    BY <1>a, <1>2 DEF Job
  <2> HIDE DEF A
  <2>2. k \in Job /\ k.pc = "unlink" /\ k.atts = A /\ k.att = job[s].att
    BY <1>a, <2>1 DEF Job
  <2> HIDE DEF k
  <2>3. JobOK(k, chan', used', att', url')
    <3>1. JobOK(k, chan, used, att, url)
      BY <1>a, <2>2 DEF JobOK, A, Moving
    <3> QED BY <1>b, <3>1
  <2>4. AttStep
    BY <1>b, SameAtts DEF Inv
  <2>5. JobsOK' /\ AttsApart'
    BY <1>b, <2>1, <2>2, <2>3, <2>4, OwnRow, JobReplaced
  <2>6. Tables'
    BY <1>b, <1>2 DEF Inv, Tables
  <2>7. Followed'
    <3> SUFFICES ASSUME NEW x \in blob', att[x].state # "live"
                 PROVE  \/ x \in orphan'
                        \/ \E t \in Workers : job'[t].pc = "unlink" /\ x \in job'[t].atts
      BY <1>b DEF Followed
    <3>1. CASE x = i
      BY <1>2, <3>1
    <3>2. CASE x # i
      <4>1. x \in blob
        BY <1>2
      <4>2. CASE x \in orphan
        BY <1>2, <3>2, <4>2
      <4>3. ASSUME NEW t \in Workers, job[t].pc = "unlink", x \in job[t].atts
            PROVE  job'[t].pc = "unlink" /\ x \in job'[t].atts
        BY <1>a, <2>1, <2>2, <3>2, <4>3 DEF A
      <4> QED BY <4>1, <4>2, <4>3 DEF Inv, Followed
    <3> QED BY <3>1, <3>2
  <2> QED BY <1>b, <2>5, <2>6, <2>7 DEF Inv, TreeDeleted
<1> QED BY <1>1, <1>2 DEF DeleteObject

\* The URL is given out, or the row is to be withdrawn.
LEMMA PresignPutInv ==
  ASSUME Inv, NEW s \in Workers, PresignPut(s)
  PROVE  Inv'
<1>a. job[s].pc = "sign" /\ job \in [Workers -> Job] /\ job[s].att # 0
      /\ job[s].att \in 1 .. Len(att)
  BY DEF Inv, JobsOK, JobOK, PresignPut, At
<1>b. UNCHANGED <<chan, used, att, blob, orphan, stray>>
  BY DEF PresignPut, rows, history
<1>1. CASE url' = url \cup {job[s].att} /\ Done(s)
  <2>1. job' = [job EXCEPT ![s] = Idle]
    BY <1>1 DEF Done
  <2>2. \A t \in Workers : t # s /\ job[t].att # 0 => job[t].att \notin url'
    BY <1>a, <1>1, OwnRow
  <2>3. AttStep
    BY <1>b, SameAtts DEF Inv
  <2>4. JobsOK' /\ AttsApart'
    BY <1>b, <2>1, <2>2, <2>3, IdleOK, IdleJobOK, JobReplaced
  <2>5. Tables'
    BY <1>a, <1>b, <1>1 DEF Inv, Tables
  <2>6. \A t \in Workers : job[t].pc = "unlink" => job'[t] = job[t]
    BY <1>a, <2>1
  <2>7. Followed'
    BY <1>b, <2>6 DEF Inv, Followed
  <2> QED BY <1>b, <2>4, <2>5, <2>7 DEF Inv, TreeDeleted
<1>2. CASE Faults /\ Goto(s, "undo") /\ UNCHANGED url
  BY <1>a, <1>b, <1>2, GotoStep
<1> QED BY <1>1, <1>2 DEF PresignPut

\* The row that is withdrawn has no object: its URL was never given out.
LEMMA UndoPresignInv ==
  ASSUME Inv, NEW s \in Workers, UndoPresign(s)
  PROVE  Inv'
<1>a. job[s].pc = "undo" /\ job \in [Workers -> Job] /\ job[s].att # 0 /\ job[s].att \notin url
  BY DEF Inv, JobsOK, JobOK, UndoPresign, At
<1>b. UNCHANGED <<chan, used, blob, url, orphan, stray>> /\ SoftDelete({job[s].att})
      /\ job' = [job EXCEPT ![s] = Idle]
  BY DEF UndoPresign, Done, history
<1>1. AttStep /\ \A i \in 1 .. Len(att) :
        att'[i].state = "live" <=> att[i].state = "live" /\ i \notin {job[s].att}
  BY <1>b, SoftDeleted DEF Inv
<1>2. JobsOK' /\ AttsApart'
  BY <1>b, <1>1, OwnRow, IdleOK, IdleJobOK, JobReplaced
<1>3. Tables'
  BY <1>b, SoftDeleteTables DEF Inv
<1>4. \A t \in Workers : job[t].pc = "unlink" => job'[t] = job[t]
  BY <1>a, <1>b
<1>5. \A i \in blob : att'[i].state # "live" => att[i].state # "live"
  BY <1>a, <1>1 DEF Inv, Tables
<1>6. Followed'
  BY <1>b, <1>4, <1>5 DEF Inv, Followed
<1> QED BY <1>b, <1>2, <1>3, <1>6 DEF Inv, TreeDeleted

\* A late upload is left over.
LEMMA UploadInv ==
  ASSUME Inv, NEW i, Upload(i)
  PROVE  Inv'
<1>1. UNCHANGED <<chan, used, att, url, job, stray>> /\ i \in url /\ blob' = blob \cup {i}
      /\ orphan' = IF Live(i) THEN orphan ELSE orphan \cup {i}
  BY DEF Upload, rows
<1>2. Tables' /\ JobsOK' /\ AttsApart'
  BY <1>1 DEF Inv, Tables, JobsOK, AttsApart
<1>3. Live(i) => att[i].state = "live"
  BY DEF Live
<1>4. Followed'
  BY <1>1, <1>3 DEF Inv, Followed
<1> QED BY <1>1, <1>2, <1>4 DEF Inv, TreeDeleted

\* What a request leaves behind is in orphan.
LEMMA AbandonInv ==
  ASSUME Inv, NEW s \in Workers, Abandon(s)
  PROVE  Inv'
<1>a. job \in [Workers -> Job]
  BY DEF Inv, JobsOK
<1>b. UNCHANGED <<chan, used, att, blob, url, stray>>
      /\ orphan' = IF job[s].pc = "unlink" THEN orphan \cup job[s].atts ELSE orphan
  BY DEF Abandon, At, rows
<1>1. CASE job[s].att # 0 /\ job[s].pc \in {"list", "evict"} /\ Goto(s, "undo")
  BY <1>b, <1>1, GotoStep
<1>2. CASE Done(s)
  <2>1. job' = [job EXCEPT ![s] = Idle]
    BY <1>2 DEF Done
  <2>2. AttStep
    BY <1>b, SameAtts DEF Inv
  <2>3. JobsOK' /\ AttsApart'
    BY <1>b, <2>1, <2>2, OwnRow, IdleOK, IdleJobOK, JobReplaced
  <2>4. Tables'
    BY <1>b DEF Inv, Tables
  <2>5. \A t \in Workers : t # s => job'[t] = job[t]
    BY <2>1
  <2>6. Followed'
    BY <1>b, <2>5 DEF Inv, Followed
  <2> QED BY <1>b, <2>3, <2>4, <2>6 DEF Inv, TreeDeleted
<1> QED BY <1>1, <1>2 DEF Abandon

(***************************************************************************)
(* Steps that write channels.                                              *)
(***************************************************************************)
\* A channel that comes under p is in no listed tree, or its job knows.
LEMMA MetOK ==
  ASSUME Inv, NEW t \in Workers, NEW p, AttStep, ChanStep, UNCHANGED url,
         \A x \in Chans : chan'[x] # None =>
           \/ chan[x] # None /\ chan'[x].parent = chan[x].parent
           \/ chan'[x].parent = p
  PROVE  LET e == Met(job[t], p) IN
         /\ JobOK(e, chan', used', att', url')
         /\ e.pc = job[t].pc /\ e.att = job[t].att /\ e.atts = job[t].atts
<1> DEFINE e == Met(job[t], p)
<1>1. job[t] \in Job /\ JobOK(job[t], chan, used, att, url) /\ Tables
  BY DEF Inv, JobsOK
<1>2. job[t].att # 0 => job[t].att \notin url'
  BY OwnRow
<1>3. CASE p \in job[t].tree \/ Disturbs(job[t])
  <2>1. e = [job[t] EXCEPT !.crossed = TRUE]
    BY <1>3 DEF Met
  <2>2. /\ e \in Job /\ e.crossed /\ e.pc = job[t].pc /\ e.chan = job[t].chan
        /\ e.guild = job[t].guild /\ e.size = job[t].size /\ e.att = job[t].att
        /\ e.atts = job[t].atts /\ e.known = job[t].known /\ e.tree = job[t].tree
        /\ e.row = job[t].row
    BY <1>1, <2>1 DEF Job
  <2> HIDE DEF e
  <2>3. JobOK(e, chan, used, att, url)
    BY <1>1, <2>2 DEF JobOK
  <2>4. JobOK(e, chan', used', att', url')
    BY <1>1, <1>2, <2>2, <2>3, KeepsJob
  <2> QED BY <2>2, <2>4 DEF e
<1>4. CASE ~(p \in job[t].tree \/ Disturbs(job[t]))
  <2>1. e = job[t]
    BY <1>4 DEF Met
  <2>2. Whole(job[t].tree, chan) => Whole(job[t].tree, chan')
    BY <1>4 DEF Whole
  <2>3. job[t].pc \in {"keys", "delete"} => job[t].crossed \/ Whole(job[t].tree, chan')
    BY <1>1, <2>2 DEF JobOK
  <2> HIDE DEF e
  <2>4. JobOK(job[t], chan', used', att', url')
    BY <1>1, <1>2, <2>3, KeepsJob
  <2> QED BY <2>1, <2>4 DEF e
<1> QED BY <1>3, <1>4

\* The jobs after a step that has met them, the one that took it replaced.
LEMMA MetJobs ==
  ASSUME Inv, NEW p, AttStep, ChanStep, UNCHANGED url,
         \A x \in Chans : chan'[x] # None =>
           \/ chan[x] # None /\ chan'[x].parent = chan[x].parent
           \/ chan'[x].parent = p,
         NEW D, NEW k, JobOK(k, chan', used', att', url'), k.att = 0,
         job' = [t \in Workers |-> IF t \in D THEN k ELSE Met(job[t], p)]
  PROVE  /\ JobsOK' /\ AttsApart'
         /\ \A t \in Workers \ D : job'[t].pc = job[t].pc /\ job'[t].atts = job[t].atts
<1>1. \A t \in Workers : t \in D => job'[t] = k
  OBVIOUS
<1>2. \A t \in Workers : t \notin D => /\ JobOK(job'[t], chan', used', att', url')
                                       /\ job'[t].pc = job[t].pc /\ job'[t].att = job[t].att
                                       /\ job'[t].atts = job[t].atts
  BY MetOK
<1>3. \A t \in Workers : JobOK(job'[t], chan', used', att', url')
  BY <1>1, <1>2
<1>4. JobsOK'
  <2>1. \A t \in Workers : job'[t] \in Job
    BY <1>3 DEF JobOK
  <2>2. job' \in [Workers -> Job]
    BY <2>1
  <2> QED BY <1>3, <2>2 DEF JobsOK
<1>5. \A t \in Workers : job'[t].att = 0 \/ job'[t].att = job[t].att
  BY <1>1, <1>2
<1>6. AttsApart'
  BY <1>5 DEF Inv, AttsApart
<1> QED BY <1>2, <1>4, <1>6

\* No object and no attachment changes, and no job that deletes objects ends.
LEMMA FollowedStays ==
  ASSUME Inv, UNCHANGED <<att, blob, orphan>>,
         \A t \in Workers : job[t].pc = "unlink" =>
           job'[t].pc = "unlink" /\ job'[t].atts = job[t].atts
  PROVE  Followed'
BY DEF Inv, Followed

\* A new channel has a new id.
LEMMA CreateChannelInv ==
  ASSUME Inv, NEW c \in Chans, NEW g \in Guilds, NEW b \in BOOLEAN, NEW p \in Chans \cup {None},
         NEW n \in 0 .. MaxPos, CreateChannel(c, g, b, p, n)
  PROVE  Inv' /\ ChanStep
<1> DEFINE r == [guild |-> g, category |-> b, parent |-> p, pos |-> n]
<1>1. r \in Channel /\ r.parent = p
  BY ChannelsAssumption DEF Channel
<1>2. c \notin used /\ used' = used \cup {c} /\ chan' = [chan EXCEPT ![c] = r]
      /\ UNCHANGED <<att, blob, url, orphan, stray>>
  BY DEF CreateChannel, history
<1>3. job' = [t \in Workers |-> Met(job[t], p)]
  BY DEF CreateChannel
<1> HIDE DEF r
<1>4. chan \in [Chans -> Channel \cup {None}] /\ chan[c] = None /\ used \subseteq Chans
  BY <1>2 DEF Inv, Tables
<1>5. \A x \in Chans : chan'[x] = IF x = c THEN r ELSE chan[x]
  BY <1>2, <1>4
<1>6. ChanStep
  BY <1>2, <1>4, <1>5 DEF ChanStep
<1>7. \A x \in Chans : chan'[x] # None =>
        \/ chan[x] # None /\ chan'[x].parent = chan[x].parent
        \/ chan'[x].parent = p
  BY <1>1, <1>5
<1> DEFINE D == {}
<1>8. job' = [t \in Workers |-> IF t \in D THEN Idle ELSE Met(job[t], p)]
  BY <1>3
<1> HIDE DEF D
<1>9. JobsOK' /\ AttsApart' /\ Followed'
  <2>1. AttStep
    BY <1>2, SameAtts DEF Inv
  <2>2. JobsOK' /\ AttsApart'
        /\ \A t \in Workers \ D : job'[t].pc = job[t].pc /\ job'[t].atts = job[t].atts
    BY <1>2, <1>6, <1>7, <1>8, <2>1, IdleJobOK, IdleOK, MetJobs
  <2>3. Followed'
    BY <1>2, <2>2, FollowedStays DEF D
  <2> QED BY <2>2, <2>3
<1>10. Tables'
  <2>1. chan' \in [Chans -> Channel \cup {None}]
    BY <1>1, <1>2, <1>4
  <2>2. \A i \in 1 .. Len(att) : att[i].state = "live" => chan'[att[i].chan] # None
    <3> SUFFICES ASSUME NEW i \in 1 .. Len(att), att[i].state = "live"
                 PROVE  chan'[att[i].chan] # None
      OBVIOUS
    <3>1. att[i] \in Attachment /\ chan[att[i].chan] # None
      BY AttRows DEF Inv, Tables
    <3>2. att[i].chan \in Chans /\ att[i].chan # c
      BY <1>4, <3>1 DEF Attachment
    <3> QED BY <1>5, <3>1, <3>2
  <2> QED BY <1>1, <1>2, <1>5, <2>1, <2>2 DEF Inv, Tables
<1>11. Inv'
  BY <1>2, <1>9, <1>10 DEF Inv, TreeDeleted
<1> QED BY <1>6, <1>11

\* Positions stay numbers, and only the channel that moves gets a parent.
LEMMA Moved ==
  ASSUME Inv, NEW s \in Workers, PlaceChannel(s),
         ~(chan[job[s].chan] # None /\ job[s].parent # None /\ chan[job[s].parent] = None)
  PROVE  LET j == job[s] IN
         /\ j.chan \in Chans /\ j.parent \in Chans \cup {None} /\ j.pos \in Int
         /\ j.row \in Channel /\ j.row.guild = j.guild
         /\ chan' \in [Chans -> Channel \cup {None}]
         /\ \A x \in Chans : chan'[x] = None <=> chan[x] = None
         /\ \A x \in Chans : chan[x] # None =>
              /\ chan'[x].guild = chan[x].guild /\ chan'[x].category = chan[x].category
              /\ x = j.chan => chan'[x].parent = j.parent /\ chan'[x].pos = j.pos
              /\ x # j.chan => /\ chan'[x].parent = chan[x].parent
                               /\ chan'[x].pos = Position(j, x)
<1> DEFINE j == job[s]
<1>1. j.pc = "place" /\ j \in Job /\ JobOK(j, chan, used, att, url)
  BY DEF Inv, JobsOK, PlaceChannel, At
<1>2. /\ j.chan \in Chans /\ j.parent \in Chans \cup {None} /\ j.pos \in Int
      /\ j.row \in Channel /\ j.row.guild = j.guild
  BY <1>1 DEF JobOK, Job, Moving
<1>3. chan' = [x \in Chans |->
        IF chan[x] = None THEN None
        ELSE IF x = j.chan THEN [chan[x] EXCEPT !.parent = j.parent, !.pos = j.pos]
        ELSE [chan[x] EXCEPT !.pos = Position(j, x)]]
  BY DEF PlaceChannel
<1> HIDE DEF j
<1>4. chan \in [Chans -> Channel \cup {None}]
  BY DEF Inv, Tables
<1>5. ASSUME NEW x \in Chans, chan[x] # None
      PROVE  /\ chan'[x] \in Channel
             /\ chan'[x].guild = chan[x].guild /\ chan'[x].category = chan[x].category
             /\ x = j.chan => chan'[x].parent = j.parent /\ chan'[x].pos = j.pos
             /\ x # j.chan => /\ chan'[x].parent = chan[x].parent
                              /\ chan'[x].pos = Position(j, x)
  <2>1. chan[x] \in Channel /\ chan[x].pos \in Int
    BY <1>4, <1>5 DEF Channel
  <2>2. CASE x = j.chan
    <3>1. chan'[x] = [chan[x] EXCEPT !.parent = j.parent, !.pos = j.pos]
      BY <1>3, <1>5, <2>2
    <3> QED BY <1>2, <2>1, <2>2, <3>1 DEF Channel
  <2>3. CASE x # j.chan
    <3> DEFINE q == Position(j, x)
    <3>1. q \in Int
      BY <2>1 DEF Position
    <3> HIDE DEF q
    <3>2. chan'[x] = [chan[x] EXCEPT !.pos = q]
      BY <1>3, <1>5, <2>3 DEF q
    <3>3. /\ chan'[x] \in Channel /\ chan'[x].guild = chan[x].guild
          /\ chan'[x].category = chan[x].category /\ chan'[x].parent = chan[x].parent
          /\ chan'[x].pos = q
      BY <2>1, <3>1, <3>2 DEF Channel
    <3> QED BY <2>3, <3>3 DEF q
  <2> QED BY <2>2, <2>3
<1>6. \A x \in Chans : chan[x] = None => chan'[x] = None
  BY <1>3
<1>7. \A x \in Chans : chan[x] # None => chan'[x] # None
  BY <1>5, ChannelsAssumption
<1>8. chan' \in [Chans -> Channel \cup {None}]
  <2>1. \A x \in Chans : chan'[x] \in Channel \cup {None}
    BY <1>5, <1>6
  <2>2. \E f : chan' = [x \in Chans |-> f[x]]
    <3>1. chan' = [x \in Chans |-> chan'[x]]
      BY <1>3
    <3> QED BY <3>1
  <2> QED BY <2>1, <2>2
<1> QED BY <1>2, <1>5, <1>6, <1>7, <1>8 DEF j

\* A move keeps the tables, and enters the tree of its new parent.
LEMMA PlaceChannelInv ==
  ASSUME Inv, NEW s \in Workers, PlaceChannel(s)
  PROVE  Inv' /\ ChanStep
<1> DEFINE j == job[s]
<1>a. j.pc = "place" /\ UNCHANGED <<used, att, blob, url, orphan, stray>>
  BY DEF PlaceChannel, At, history
<1>1. CASE chan[j.chan] # None /\ j.parent # None /\ chan[j.parent] = None
  <2>1. Done(s) /\ UNCHANGED chan
    BY <1>1 DEF PlaceChannel
  <2>2. Inv'
    BY <1>a, <2>1, DoneStep
  <2> QED BY <1>a, <2>1, <2>2, SameChans
<1>2. CASE ~(chan[j.chan] # None /\ j.parent # None /\ chan[j.parent] = None)
  <2>1. /\ chan' \in [Chans -> Channel \cup {None}]
        /\ \A x \in Chans : chan'[x] = None <=> chan[x] = None
        /\ \A x \in Chans : chan[x] # None =>
             /\ chan'[x].guild = chan[x].guild
             /\ x = j.chan => chan'[x].parent = j.parent
             /\ x # j.chan => chan'[x].parent = chan[x].parent
    BY <1>2, Moved
  <2> DEFINE D == {s}
  <2>2. job' = [w \in Workers |-> IF w \in D THEN Idle ELSE Met(job[w], j.parent)]
    BY <1>2 DEF PlaceChannel
  <2>3. used \subseteq Chans /\ \A c \in Chans : chan[c] # None => c \in used
    BY DEF Inv, Tables
  <2>4. ChanStep
    BY <1>a, <2>1, <2>3 DEF ChanStep
  <2>5. JobsOK' /\ AttsApart' /\ Followed'
    <3>1. AttStep
      BY <1>a, SameAtts DEF Inv
    <3>2. \A x \in Chans : chan'[x] # None =>
            \/ chan[x] # None /\ chan'[x].parent = chan[x].parent
            \/ chan'[x].parent = j.parent
      BY <2>1
    <3> HIDE DEF D, j
    <3>3. JobsOK' /\ AttsApart'
          /\ \A t \in Workers \ D : job'[t].pc = job[t].pc /\ job'[t].atts = job[t].atts
      BY <1>a, <2>2, <2>4, <3>1, <3>2, IdleJobOK, IdleOK, MetJobs
    <3>4. \A t \in Workers : job[t].pc = "unlink" =>
            job'[t].pc = "unlink" /\ job'[t].atts = job[t].atts
      BY <1>a, <3>3 DEF D, j
    <3> QED BY <1>a, <3>3, <3>4, FollowedStays
  <2>6. Tables'
    <3>1. \A i \in 1 .. Len(att) : att[i].chan \in Chans
      BY AttRows DEF Inv, Attachment
    <3> QED BY <1>a, <2>1, <3>1 DEF Inv, Tables
  <2>7. Inv'
    BY <1>a, <2>5, <2>6 DEF Inv, TreeDeleted
  <2> QED BY <2>4, <2>7
<1> QED BY <1>1, <1>2

\* A statement that shifts siblings.
Shifting(s) == GapSnapshot(s) \/ CloseGap(s) \/ RoomSnapshot(s) \/ MakeRoom(s)

\* It changes what its job has listed, shifted and locked, and nothing else.
LEMMA ShiftingJob ==
  ASSUME Inv, NEW s \in Workers, Shifting(s)
  PROVE  /\ UNCHANGED <<server, chan, used, att, blob, url, orphan, over, stray>>
         /\ \E k \in Job :
              /\ job' = [job EXCEPT ![s] = k]
              /\ job[s].pc \in Moving /\ k.pc \in Moving
              /\ k.chan = job[s].chan /\ k.guild = job[s].guild /\ k.att = job[s].att
              /\ k.atts = job[s].atts /\ k.row = job[s].row
<1> DEFINE Shifts(k) ==
             /\ k \in Job /\ job' = [job EXCEPT ![s] = k]
             /\ job[s].pc \in Moving /\ k.pc \in Moving
             /\ k.chan = job[s].chan /\ k.guild = job[s].guild /\ k.att = job[s].att
             /\ k.atts = job[s].atts /\ k.row = job[s].row
<1>a. job[s] \in Job /\ job \in [Workers -> Job]
  BY DEF Inv, JobsOK
<1>b. Above(job[s]) \subseteq Chans /\ From(job[s]) \subseteq Chans
      /\ Locked(job[s].hits) \subseteq Chans
  BY <1>a DEF Above, From, Scope, Locked, Job
<1>c. UNCHANGED <<server, chan, used, att, blob, url, orphan, over, stray>>
  BY DEF Shifting, GapSnapshot, CloseGap, RoomSnapshot, MakeRoom, rows, history
<1>1. CASE GapSnapshot(s)
  <2> DEFINE A == Above(job[s])
             k == [job[s] EXCEPT !.pc = "gapping", !.hits = A]
  <2>1. job' = [job EXCEPT ![s] = k] /\ job[s].pc = "gap"
    BY <1>a, <1>1 DEF GapSnapshot, At
  <2>2. A \subseteq Chans
    BY <1>b
  <2> HIDE DEF A
  <2>3. Shifts(k)
    BY <1>a, <2>1, <2>2 DEF Job, Pcs, Moving
  <2> QED BY <1>c, <2>3
<1>2. CASE CloseGap(s)
  <2> DEFINE A == job[s].hits \cap Above(job[s])
             L == Locked(job[s].hits)
             k == [job[s] EXCEPT !.pc = "room", !.hits = {}, !.down = A, !.held = L]
  <2>1. job' = [job EXCEPT ![s] = k] /\ job[s].pc = "gapping"
    BY <1>a, <1>2 DEF CloseGap, At
  <2>2. A \subseteq Chans /\ L \subseteq Chans
    BY <1>b
  <2> HIDE DEF A, L
  <2>3. Shifts(k)
    BY <1>a, <2>1, <2>2 DEF Job, Pcs, Moving
  <2> QED BY <1>c, <2>3
<1>3. CASE RoomSnapshot(s)
  <2> DEFINE A == From(job[s])
             k == [job[s] EXCEPT !.pc = "rooming", !.hits = A]
  <2>1. job' = [job EXCEPT ![s] = k] /\ job[s].pc = "room"
    BY <1>a, <1>3 DEF RoomSnapshot, At
  <2>2. A \subseteq Chans
    BY <1>b
  <2> HIDE DEF A
  <2>3. Shifts(k)
    BY <1>a, <2>1, <2>2 DEF Job, Pcs, Moving
  <2> QED BY <1>c, <2>3
<1>4. CASE MakeRoom(s)
  <2> DEFINE A == job[s].hits \cap From(job[s])
             L == job[s].held \cup Locked(job[s].hits)
             k == [job[s] EXCEPT !.pc = "place", !.hits = {}, !.up = A, !.held = L]
  <2>1. job' = [job EXCEPT ![s] = k] /\ job[s].pc = "rooming"
    BY <1>a, <1>4 DEF MakeRoom, At
  <2>2. A \subseteq Chans /\ L \subseteq Chans
    BY <1>a, <1>b DEF Job
  <2> HIDE DEF A, L
  <2>3. Shifts(k)
    BY <1>a, <2>1, <2>2 DEF Job, Pcs, Moving
  <2> QED BY <1>c, <2>3
<1> QED BY <1>1, <1>2, <1>3, <1>4 DEF Shifting

\* So the invariant stays.
LEMMA ShiftingInv ==
  ASSUME Inv, NEW s \in Workers, Shifting(s)
  PROVE  Inv'
<1>1. UNCHANGED <<chan, used, att, blob, url, orphan, stray>>
  BY ShiftingJob
<1>2. PICK k \in Job : /\ job' = [job EXCEPT ![s] = k]
                       /\ job[s].pc \in Moving /\ k.pc \in Moving
                       /\ k.chan = job[s].chan /\ k.guild = job[s].guild /\ k.att = job[s].att
                       /\ k.atts = job[s].atts /\ k.row = job[s].row
  BY ShiftingJob
<1>3. JobOK(job[s], chan, used, att, url)
  BY DEF Inv, JobsOK
<1>4. JobOK(k, chan, used, att, url) /\ job[s].pc # "unlink"
  BY <1>2, <1>3 DEF JobOK, Moving
<1> QED BY <1>1, <1>2, <1>4, QuietStep

\* The listed tree is whole when the category is at the top and holds
\* nothing but channels of its guild.
LEMMA DeleteChannelTreeInv ==
  ASSUME Inv, NEW s \in Workers, DeleteChannelTree(s)
  PROVE  Inv'
<1>a. job[s] \in Job /\ JobOK(job[s], chan, used, att, url) /\ job \in [Workers -> Job]
      /\ job[s].pc = "lookup" /\ job[s].chan \in Chans
  BY DEF Inv, JobsOK, JobOK, DeleteChannelTree, At
<1>b. UNCHANGED <<chan, used, att, blob, url, orphan, stray>>
  BY DEF DeleteChannelTree, rows, history
<1>1. CASE chan[job[s].chan] = None
  <2>1. Done(s)
    BY <1>1 DEF DeleteChannelTree
  <2> QED BY <1>a, <1>b, <2>1, DoneStep
<1>2. CASE chan[job[s].chan] # None
  <2> DEFINE c == job[s].chan
             T == TreeOf(c, job[s].guild)
             X == \E x \in Below(c) : ~Flat(x)
             k == [job[s] EXCEPT !.pc = "keys", !.tree = T, !.crossed = X]
  <2>1. job' = [job EXCEPT ![s] = k]
    BY <1>a, <1>2 DEF DeleteChannelTree
  <2>2. T \in SUBSET Chans /\ X \in BOOLEAN
    BY <1>a DEF TreeOf, Children
  <2>3. X \/ Whole(T, chan)
    <3> SUFFICES ASSUME ~X, NEW x \in Chans, chan[x] # None, chan[x].parent \in T
                 PROVE  x \in T
      BY DEF Whole
    <3>1. CASE chan[x].parent = c
      <4>1. x \in Children(c)
        BY <3>1 DEF Children
      <4>2. Flat(x)
        BY <4>1 DEF Below
      <4>3. chan[c].guild = job[s].guild
        BY <1>a, <1>2 DEF JobOK
      <4> QED BY <3>1, <4>1, <4>2, <4>3 DEF Flat, TreeOf, In
    <3>2. CASE chan[x].parent # c
      <4> DEFINE y == chan[x].parent
      <4>1. y \in Children(c) /\ x \in Children(y)
        BY <3>2 DEF TreeOf, Children
      <4>2. x \in Below(c)
        BY <4>1 DEF Below
      <4>3. chan[y].parent = None
        BY <4>2 DEF Flat
      <4>4. chan[y].parent = c
        BY <4>1 DEF Children
      <4> QED BY <1>a, <4>3, <4>4, ChannelsAssumption
    <3> QED BY <3>1, <3>2
  <2> HIDE DEF X, T
  <2>4. k \in Job
    BY <1>a, <2>2 DEF Job, Pcs
  <2>5. k.pc = "keys" /\ k.tree = T /\ k.crossed = X /\ k.chan = c /\ k.att = job[s].att
        /\ k.atts = job[s].atts
    BY <1>a DEF Job
  <2> HIDE DEF k
  <2>6. JobOK(k, chan, used, att, url)
    BY <1>a, <2>3, <2>4, <2>5 DEF JobOK, Moving
  <2> QED BY <1>a, <1>b, <2>1, <2>5, <2>6, QuietStep
<1> QED BY <1>1, <1>2

\* Rows of channels go with their attachments, and their children stay
\* without a parent.
LEMMA CascadeStep ==
  ASSUME Inv, NEW gone \in SUBSET Chans, \A x \in gone : chan[x] # None, Cascade(gone),
         UNCHANGED <<used, blob, url>>
  PROVE  /\ Tables' /\ AttStep /\ ChanStep /\ Len(att') = Len(att)
         /\ \A x \in Chans :
              /\ x \in gone => chan'[x] = None
              /\ x \in Left(gone) => chan'[x] # None /\ chan'[x].parent = None /\ chan[x] # None
              /\ x \notin gone \cup Left(gone) => chan'[x] = chan[x]
         /\ \A i \in 1 .. Len(att) :
              att'[i].state = "live" <=> att[i].state = "live" /\ att[i].chan \notin gone
<1> DEFINE n == Len(att)
           left == Left(gone)
<1>1. /\ n \in Nat /\ DOMAIN att = 1 .. n /\ att \in [1 .. n -> Attachment]
  BY AttRows DEF Inv
<1>2. /\ chan' = [c \in Chans |-> IF c \in gone THEN None
                                  ELSE IF c \in left THEN [chan[c] EXCEPT !.parent = None]
                                  ELSE chan[c]]
      /\ att' = [i \in 1 .. n |->
                   IF att[i].chan \in gone THEN [att[i] EXCEPT !.state = "gone"] ELSE att[i]]
  BY <1>1 DEF Cascade
<1>3. chan \in [Chans -> Channel \cup {None}] /\ left \subseteq Chans
      /\ left \cap gone = {} /\ \A x \in left : chan[x] # None
  <2>1. \A x : x \in left => x \notin gone /\ \E c \in gone : x \in Children(c)
    BY DEF Left
  <2>2. \A c : \A x \in Children(c) : x \in Chans /\ chan[x] # None
    BY DEF Children
  <2>3. left \subseteq Chans /\ \A x \in left : chan[x] # None
    BY <2>1, <2>2
  <2> HIDE DEF left
  <2> QED BY <2>1, <2>3 DEF Inv, Tables
<1> HIDE DEF left
<1>4. \A x \in Chans :
        /\ x \in gone => chan'[x] = None
        /\ x \in left => /\ chan'[x] \in Channel /\ chan'[x].parent = None
                         /\ chan'[x].guild = chan[x].guild
        /\ x \notin gone \cup left => chan'[x] = chan[x]
  <2> SUFFICES ASSUME NEW x \in Chans
               PROVE  /\ x \in gone => chan'[x] = None
                      /\ x \in left => /\ chan'[x] \in Channel /\ chan'[x].parent = None
                                       /\ chan'[x].guild = chan[x].guild
                      /\ x \notin gone \cup left => chan'[x] = chan[x]
    OBVIOUS
  <2>1. CASE x \in left
    <3>1. chan[x] \in Channel /\ x \notin gone
      BY <1>3, <2>1
    <3>2. chan'[x] = [chan[x] EXCEPT !.parent = None]
      BY <1>2, <2>1, <3>1
    <3> QED BY <2>1, <3>1, <3>2 DEF Channel
  <2>2. CASE x \notin left
    BY <1>2, <2>2
  <2> QED BY <2>1, <2>2
<1>5. \A i \in 1 .. n :
        /\ att'[i] \in Attachment /\ att'[i].chan = att[i].chan /\ att'[i].size = att[i].size
        /\ att'[i].state = "live" <=> att[i].state = "live" /\ att[i].chan \notin gone
  <2> SUFFICES ASSUME NEW i \in 1 .. n
               PROVE  /\ att'[i] \in Attachment
                      /\ att'[i].chan = att[i].chan /\ att'[i].size = att[i].size
                      /\ att'[i].state = "live" <=>
                           att[i].state = "live" /\ att[i].chan \notin gone
    OBVIOUS
  <2>1. att[i] \in Attachment
    BY <1>1
  <2>2. att'[i] = IF att[i].chan \in gone THEN [att[i] EXCEPT !.state = "gone"] ELSE att[i]
    BY <1>2
  <2> QED BY <2>1, <2>2 DEF Attachment
<1>6. att' \in Seq(Attachment) /\ Len(att') = n
  <2>1. att' \in [1 .. n -> Attachment]
    BY <1>2, <1>5
  <2> QED BY <1>1, <2>1, RowsAreSeq
<1>7. AttStep
  BY <1>1, <1>5, <1>6 DEF AttStep
<1>8. \A i \in 1 .. n : att[i].chan \in Chans /\ (att[i].state = "live" => chan[att[i].chan] # None)
  BY <1>1 DEF Inv, Tables, Attachment
<1>9. \A x \in Chans : chan[x] = None => chan'[x] = None
  BY <1>3, <1>4
<1>10. Tables'
  <2>1. chan' \in [Chans -> Channel \cup {None}]
    <3>1. ASSUME NEW x \in Chans
          PROVE  chan'[x] \in Channel \cup {None}
      <4>1. CASE x \in gone
        BY <1>4, <4>1
      <4>2. CASE x \in left
        BY <1>4, <4>2
      <4>3. CASE x \notin gone \cup left
        BY <1>3, <1>4, <4>3
      <4> QED BY <4>1, <4>2, <4>3
    <3>2. chan' = [x \in Chans |-> chan'[x]]
      BY <1>2
    <3> QED BY <3>1, <3>2
  <2>2. \A x \in Chans : chan'[x] # None => x \in used
    BY <1>9 DEF Inv, Tables
  <2>3. \A i \in 1 .. n : att'[i].state = "live" => chan'[att'[i].chan] # None
    <3> SUFFICES ASSUME NEW i \in 1 .. n, att'[i].state = "live"
                 PROVE  chan'[att'[i].chan] # None
      OBVIOUS
    <3>1. att'[i].chan \in Chans /\ att'[i].chan \notin gone /\ chan[att'[i].chan] # None
      BY <1>5, <1>8
    <3> QED BY <1>4, <3>1, ChannelsAssumption
  <2> QED BY <1>6, <2>1, <2>2, <2>3 DEF Inv, Tables
<1>11. ChanStep
  <2> SUFFICES ASSUME NEW c \in used, chan'[c] # None
               PROVE  chan[c] # None /\ chan'[c].guild = chan[c].guild
    BY DEF ChanStep
  <2>1. c \in Chans /\ c \notin gone /\ chan[c] # None
    BY <1>4, <1>9 DEF Inv, Tables
  <2> QED BY <1>4, <2>1
<1>12. \A x \in left : x \in Chans /\ chan'[x] # None /\ chan[x] # None
  BY <1>3, <1>4, ChannelsAssumption
<1> QED BY <1>4, <1>5, <1>6, <1>7, <1>10, <1>11, <1>12 DEF left

\* No channel is new to a tree by a cascade: the jobs meet None.
LEMMA CascadeJobs ==
  ASSUME Inv, NEW gone \in SUBSET Chans, \A x \in gone : chan[x] # None, Cascade(gone),
         UNCHANGED <<used, blob, url>>,
         NEW D, NEW k, JobOK(k, chan', used', att', url'), k.att = 0,
         job' = [t \in Workers |-> IF t \in D THEN k ELSE Met(job[t], None)]
  PROVE  /\ JobsOK' /\ AttsApart'
         /\ \A t \in Workers \ D : job'[t].pc = job[t].pc /\ job'[t].atts = job[t].atts
<1>1. AttStep /\ ChanStep
      /\ \A x \in Chans :
           /\ x \in gone => chan'[x] = None
           /\ x \in Left(gone) => chan'[x] # None /\ chan'[x].parent = None /\ chan[x] # None
           /\ x \notin gone \cup Left(gone) => chan'[x] = chan[x]
  BY CascadeStep
<1>2. \A x \in Chans : chan'[x] # None =>
        \/ chan[x] # None /\ chan'[x].parent = chan[x].parent
        \/ chan'[x].parent = None
  BY <1>1
<1> QED BY <1>1, <1>2, MetJobs

\* The rows of the tree go, and its listed objects are the next.
LEMMA DeleteRowsInv ==
  ASSUME Inv, NEW s \in Workers, DeleteRows(s)
  PROVE  Inv' /\ AttStep /\ ChanStep /\ Len(att') = Len(att)
<1> DEFINE j == job[s]
           n == Len(att)
           gone == {c \in j.tree : chan[c] # None}
           lost == {i \in Active : att[i].chan \in gone /\ i > j.known}
           k == [Idle EXCEPT !.pc = "unlink", !.atts = j.atts]
           D == {s}
<1>a. j \in Job /\ JobOK(j, chan, used, att, url) /\ job \in [Workers -> Job] /\ j.pc = "delete"
  BY DEF Inv, JobsOK, DeleteRows, At
<1>b. j.tree \subseteq Chans /\ j.atts \subseteq 1 .. n /\ j.known \in Nat
      /\ gone \in SUBSET Chans /\ \A x \in gone : chan[x] # None /\ x \in j.tree
  BY <1>a DEF Job, JobOK
<1>c. /\ n \in Nat /\ att \in [1 .. n -> Attachment]
      /\ Active = {i \in 1 .. n : att[i].state = "live"}
  BY AttRows DEF Inv
<1>d. /\ Cascade(gone)
      /\ stray' = IF j.crossed THEN stray ELSE stray \cup Left(gone)
      /\ orphan' = orphan \cup lost
      /\ job' = [t \in Workers |-> IF t \in D THEN k ELSE Met(job[t], None)]
      /\ UNCHANGED <<used, blob, url>>
  BY DEF DeleteRows
<1>1. j.crossed \/ Left(gone) = {}
  <2> SUFFICES ASSUME ~j.crossed, NEW x \in Left(gone) PROVE FALSE
    OBVIOUS
  <2>1. PICK c \in gone : x \in Children(c)
    BY DEF Left
  <2>2. x \in Chans /\ chan[x] # None /\ chan[x].parent \in j.tree
    BY <2>1 DEF Children
  <2>3. x \in j.tree
    BY <1>a, <2>2 DEF JobOK, Whole
  <2>4. x \notin gone
    BY DEF Left
  <2> QED BY <2>2, <2>3, <2>4
<1>2. TreeDeleted'
  BY <1>d, <1>1 DEF Inv, TreeDeleted
<1>3. \A x \in Chans : x \in gone <=> x \in j.tree /\ chan[x] # None
  OBVIOUS
<1> HIDE DEF gone
<1>4. /\ Tables' /\ AttStep /\ ChanStep /\ Len(att') = n
      /\ \A i \in 1 .. n :
           att'[i].state = "live" <=> att[i].state = "live" /\ att[i].chan \notin gone
  BY <1>b, <1>d, CascadeStep
<1>5. \A i \in 1 .. n : att[i].chan \in Chans /\ (att[i].state = "live" => chan[att[i].chan] # None)
  BY <1>c DEF Inv, Tables, Attachment
<1>6. k \in Job /\ k.pc = "unlink" /\ k.atts = j.atts /\ k.att = 0
  <2>1. j.atts \in SUBSET Nat
    BY <1>a DEF Job
  <2>2. k \in Job
    BY <2>1, IdleOK DEF Job, Pcs
  <2> QED BY <2>2 DEF Idle
<1> HIDE DEF k
<1>7. JobOK(k, chan', used', att', url')
  <2>1. \A i \in j.atts : att'[i].state # "live"
    <3>1. \A i \in j.atts : att[i].chan \in j.tree
      BY <1>a DEF JobOK
    <3> QED BY <1>b, <1>3, <1>4, <1>5, <3>1
  <2> QED BY <1>b, <1>4, <1>6, <2>1 DEF JobOK, Moving
<1>8. /\ JobsOK' /\ AttsApart'
      /\ \A t \in Workers \ D : job'[t].pc = job[t].pc /\ job'[t].atts = job[t].atts
  <2> HIDE DEF D
  <2> QED BY <1>b, <1>d, <1>6, <1>7, CascadeJobs
<1>9. job'[s] = k /\ \A t \in Workers : t # s => job'[t].pc = job[t].pc /\ job'[t].atts = job[t].atts
  BY <1>d, <1>8
<1>10. Followed'
  <2> SUFFICES ASSUME NEW i \in blob, att'[i].state # "live"
               PROVE  i \in orphan' \/ \E t \in Workers : job'[t].pc = "unlink" /\ i \in job'[t].atts
    BY <1>d DEF Followed
  <2>1. i \in 1 .. n
    BY DEF Inv, Tables
  <2>2. CASE att[i].state # "live"
    <3>1. i \in orphan \/ \E t \in Workers : job[t].pc = "unlink" /\ i \in job[t].atts
      BY <2>2 DEF Inv, Followed
    <3>2. \A t \in Workers : job[t].pc = "unlink" => t # s
      BY <1>a
    <3> QED BY <1>d, <1>9, <3>1, <3>2
  <2>3. CASE att[i].state = "live"
    <3>1. att[i].chan \in gone /\ i \in Active
      BY <1>c, <1>4, <2>1, <2>3
    <3>2. CASE i > j.known
      <4>1. i \in lost
        BY <3>1, <3>2
      <4> QED BY <1>d, <4>1
    <3>3. CASE i <= j.known
      <4>1. i \in j.atts
        BY <1>a, <1>b, <2>1, <2>3, <3>1, <3>3 DEF JobOK
      <4> QED BY <1>6, <1>9, <4>1
    <3> QED BY <1>b, <2>1, <3>2, <3>3
  <2> QED BY <2>2, <2>3
<1>11. Inv'
  BY <1>2, <1>4, <1>8, <1>10 DEF Inv
<1> QED BY <1>4, <1>11

\* The rows of a guild go, and the objects of its attachments are left over.
LEMMA DeleteServerInv ==
  ASSUME Inv, NEW g \in Guilds, DeleteServer(g)
  PROVE  Inv' /\ AttStep /\ ChanStep /\ Len(att') = Len(att)
<1> DEFINE gone == {c \in Chans : In(c, g)}
           n == Len(att)
           D == {}
<1>1. /\ Cascade(gone) /\ orphan' = orphan \cup ActiveIn(g)
      /\ job' = [t \in Workers |-> IF t \in D THEN Idle ELSE Met(job[t], None)]
      /\ UNCHANGED <<used, blob, url, stray>>
  BY DEF DeleteServer
<1>2. gone \in SUBSET Chans /\ \A x \in gone : chan[x] # None /\ chan[x].guild = g
  BY DEF In
<1> HIDE DEF gone, D
<1>3. /\ Tables' /\ AttStep /\ ChanStep /\ Len(att') = n
      /\ \A i \in 1 .. n :
           att'[i].state = "live" <=> att[i].state = "live" /\ att[i].chan \notin gone
  BY <1>1, <1>2, CascadeStep
<1>4. /\ JobsOK' /\ AttsApart'
      /\ \A t \in Workers \ D : job'[t].pc = job[t].pc /\ job'[t].atts = job[t].atts
  BY <1>1, <1>2, IdleJobOK, IdleOK, CascadeJobs
<1>5. Followed'
  <2> SUFFICES ASSUME NEW i \in blob, att'[i].state # "live"
               PROVE  i \in orphan' \/ \E t \in Workers : job'[t].pc = "unlink" /\ i \in job'[t].atts
    BY <1>1 DEF Followed
  <2>1. i \in 1 .. n
    BY DEF Inv, Tables
  <2>2. CASE att[i].state # "live"
    <3>1. i \in orphan \/ \E t \in Workers : job[t].pc = "unlink" /\ i \in job[t].atts
      BY <2>2 DEF Inv, Followed
    <3> QED BY <1>1, <1>4, <3>1 DEF D
  <2>3. CASE att[i].state = "live"
    <3>1. att[i].chan \in gone
      BY <1>3, <2>1, <2>3
    <3>2. i \in ActiveIn(g)
      BY <1>2, <2>1, <2>3, <3>1, AttRows DEF Inv, ActiveIn
    <3> QED BY <1>1, <3>2
  <2> QED BY <2>2, <2>3
<1>6. Inv'
  BY <1>1, <1>3, <1>4, <1>5 DEF Inv, TreeDeleted
<1> QED BY <1>3, <1>6

(***************************************************************************)
(* The invariant.                                                          *)
(***************************************************************************)
\* There is nothing at the start.
LEMMA InitInv == Init => Inv
<1> SUFFICES ASSUME Init PROVE Inv
  OBVIOUS
<1>1. chan = [c \in Chans |-> None] /\ used = {} /\ att = <<>> /\ blob = {} /\ url = {}
      /\ job = [s \in Workers |-> Idle] /\ stray = {}
  BY DEF Init
<1>2. Len(att) = 0 /\ att \in Seq(Attachment)
  BY <1>1
<1>3. Tables
  BY <1>1, <1>2 DEF Tables
<1>4. JobsOK
  BY <1>1, IdleOK, IdleJobOK DEF JobsOK
<1>5. AttsApart /\ Followed /\ TreeDeleted
  BY <1>1, IdleOK DEF AttsApart, Followed, TreeDeleted
<1> QED BY <1>3, <1>4, <1>5 DEF Inv

\* Every step keeps it.
LEMMA NextInv == Inv /\ [Next]_vars => Inv'
<1> SUFFICES ASSUME Inv, [Next]_vars PROVE Inv'
  OBVIOUS
<1>1. CASE UNCHANGED vars
  <2>1. UNCHANGED <<chan, used, att, blob, url, job, orphan, stray>>
    BY <1>1 DEF vars, rows, history
  <2> QED BY <2>1 DEF Inv, Tables, JobsOK, AttsApart, Followed, TreeDeleted
<1>2. ASSUME NEW s \in Workers,
             \/ \E c \in Chans, n \in Sizes : Presign(s, c, n)
             \/ EnforceGuildAttachmentQuota(s)
             \/ \E i \in DOMAIN att : ListExpiredAttachments(s, i)
             \/ \E c \in Chans, p \in Chans \cup {None}, n \in 0 .. MaxPos : MoveChannel(s, c, p, n)
             \/ \E c \in Chans : DeleteChannel(s, c)
             \/ StorageKeys(s)
      PROVE  Inv'
  BY <1>2, ReadSteps
<1>3. ASSUME NEW s \in Workers,
             \/ InsertAttachment(s) \/ SoftDeleteAttachmentsByID(s)
             \/ DeleteObject(s) \/ PresignPut(s) \/ UndoPresign(s)
             \/ \E i \in DOMAIN att : DeleteAttachment(s, i)
      PROVE  Inv'
  BY <1>3, InsertInv, DeleteInv, DeleteObjectInv, PresignPutInv, UndoPresignInv
<1>4. ASSUME NEW s \in Workers,
             \/ Shifting(s) \/ PlaceChannel(s)
             \/ DeleteChannelTree(s) \/ DeleteRows(s) \/ Abandon(s)
      PROVE  Inv'
  BY <1>4, ShiftingInv, PlaceChannelInv, DeleteChannelTreeInv, DeleteRowsInv, AbandonInv
<1>5. ASSUME NEW i \in DOMAIN att, Upload(i)
      PROVE  Inv'
  BY <1>5, UploadInv
<1>6. ASSUME NEW c \in Chans, NEW g \in Guilds, NEW b \in BOOLEAN, NEW p \in Chans \cup {None},
             NEW n \in 0 .. MaxPos, CreateChannel(c, g, b, p, n)
      PROVE  Inv'
  BY <1>6, CreateChannelInv
<1>7. ASSUME NEW g \in Guilds, DeleteServer(g)
      PROVE  Inv'
  BY <1>7, DeleteServerInv
<1> QED BY <1>1, <1>2, <1>3, <1>4, <1>5, <1>6, <1>7 DEF Next, Shifting

\* The invariant holds in every behaviour.
THEOREM Invariance == Spec => []Inv
BY InitInv, NextInv, PTL DEF Spec

\* A live attachment keeps its object, and the object of one that is not is
\* about to go, or is one that deleteChannel, deleteServer, the upload or a
\* failed deletion left over: for every number of requests, channels and
\* attachments.
THEOREM ObjectsFollow == Spec => []ObjectsFollowRows
<1>1. Inv => ObjectsFollowRows
  <2> SUFFICES ASSUME Inv PROVE ObjectsFollowRows
    OBVIOUS
  <2>1. \A i : Live(i) <=> i \in 1 .. Len(att) /\ att[i].state = "live"
    BY AttRows DEF Inv
  <2>2. \A s \in Workers : job[s].pc = "unlink" => \A i \in job[s].atts : att[i].state # "live"
    BY DEF Inv, JobsOK, JobOK
  <2>3. \A i \in blob : i \in 1 .. Len(att)
    BY DEF Inv, Tables
  <2> QED BY <2>1, <2>2, <2>3 DEF ObjectsFollowRows, At, Inv, Followed
<1> QED BY <1>1, Invariance, PTL

\* No channel outlives the category that DeleteChannelTree removes, unless it
\* was put there since the children were listed or the tree is deeper.
THEOREM TreesGoWhole == Spec => []TreeDeleted
<1>1. Inv => TreeDeleted
  BY DEF Inv
<1> QED BY <1>1, Invariance, PTL

(***************************************************************************)
(* Whose step it is.                                                       *)
(***************************************************************************)
\* A statement of the request s.
StepOf(s) ==
  \/ \E c \in Chans, n \in Sizes : Presign(s, c, n)
  \/ InsertAttachment(s) \/ EnforceGuildAttachmentQuota(s) \/ SoftDeleteAttachmentsByID(s)
  \/ DeleteObject(s) \/ PresignPut(s) \/ UndoPresign(s)
  \/ \E i \in DOMAIN att : DeleteAttachment(s, i) \/ ListExpiredAttachments(s, i)
  \/ \E c \in Chans, p \in Chans \cup {None}, n \in 0 .. MaxPos : MoveChannel(s, c, p, n)
  \/ Shifting(s) \/ PlaceChannel(s)
  \/ \E c \in Chans : DeleteChannel(s, c)
  \/ DeleteChannelTree(s) \/ StorageKeys(s) \/ DeleteRows(s) \/ Abandon(s)

\* A step that no job takes.
Outside ==
  \/ (\E i \in DOMAIN att : Upload(i)) \/ UNCHANGED vars
  \/ \E g \in Guilds : DeleteServer(g)
  \/ \E c \in Chans, g \in Guilds, b \in BOOLEAN, p \in Chans \cup {None}, n \in 0 .. MaxPos :
       CreateChannel(c, g, b, p, n)

\* A job that another's step leaves alone, or that has met what it committed.
Bystander(t) ==
  \/ UNCHANGED chan /\ job'[t] = job[t]
  \/ \E p : job'[t] = Met(job[t], p)

\* A request's statement leaves the other jobs as they are.
LEMMA OtherJobs ==
  ASSUME Inv, NEW s \in Workers, StepOf(s), NEW t \in Workers, t # s
  PROVE  Bystander(t)
<1>a. job \in [Workers -> Job]
  BY DEF Inv, JobsOK
<1>1. CASE PlaceChannel(s)
  <2>1. CASE Done(s) /\ UNCHANGED chan
    BY <1>a, <2>1 DEF Done, Bystander
  <2>2. CASE job' = [w \in Workers |-> IF w = s THEN Idle ELSE Met(job[w], job[s].parent)]
    <3>1. job'[t] = Met(job[t], job[s].parent)
      BY <2>2
    <3> QED BY <3>1 DEF Bystander
  <2> QED BY <1>1, <2>1, <2>2 DEF PlaceChannel
<1>2. CASE DeleteRows(s)
  <2>1. job'[t] = Met(job[t], None)
    BY <1>2 DEF DeleteRows
  <2> QED BY <2>1 DEF Bystander
<1>3. ASSUME \/ \E c \in Chans, n \in Sizes : Presign(s, c, n)
             \/ InsertAttachment(s) \/ EnforceGuildAttachmentQuota(s)
             \/ SoftDeleteAttachmentsByID(s)
      PROVE  UNCHANGED chan /\ job'[t] = job[t]
  BY <1>a, <1>3 DEF Presign, InsertAttachment, EnforceGuildAttachmentQuota,
                    SoftDeleteAttachmentsByID, Start, Goto, Done, rows
<1>4. ASSUME \/ DeleteObject(s) \/ PresignPut(s) \/ UndoPresign(s)
             \/ \E i \in DOMAIN att : DeleteAttachment(s, i) \/ ListExpiredAttachments(s, i)
      PROVE  UNCHANGED chan /\ job'[t] = job[t]
  BY <1>a, <1>4 DEF DeleteObject, PresignPut, UndoPresign, DeleteAttachment,
                    ListExpiredAttachments, Start, Goto, Done, rows
<1>5. ASSUME \/ \E c \in Chans, p \in Chans \cup {None}, n \in 0 .. MaxPos : MoveChannel(s, c, p, n)
             \/ \E c \in Chans : DeleteChannel(s, c)
             \/ DeleteChannelTree(s) \/ StorageKeys(s) \/ Abandon(s)
      PROVE  UNCHANGED chan /\ job'[t] = job[t]
  BY <1>a, <1>5 DEF MoveChannel, DeleteChannel, DeleteChannelTree, StorageKeys, Abandon,
                    Start, Goto, Done, rows
<1>6. ASSUME Shifting(s)
      PROVE  UNCHANGED chan /\ job'[t] = job[t]
  BY <1>a, <1>6, ShiftingJob
<1> QED BY <1>1, <1>2, <1>3, <1>4, <1>5, <1>6 DEF StepOf, Bystander

\* Only the commits of a move and of a deletion write channels.
LEMMA ActorChans ==
  ASSUME NEW s \in Workers, StepOf(s)
  PROVE  PlaceChannel(s) \/ DeleteRows(s) \/ UNCHANGED chan
<1>1. ASSUME \/ \E c \in Chans, n \in Sizes : Presign(s, c, n)
             \/ EnforceGuildAttachmentQuota(s)
             \/ \E i \in DOMAIN att : ListExpiredAttachments(s, i) \/ DeleteAttachment(s, i)
             \/ \E c \in Chans, p \in Chans \cup {None}, n \in 0 .. MaxPos : MoveChannel(s, c, p, n)
             \/ \E c \in Chans : DeleteChannel(s, c)
             \/ StorageKeys(s) \/ Shifting(s)
      PROVE  UNCHANGED chan
  BY <1>1 DEF Presign, EnforceGuildAttachmentQuota, ListExpiredAttachments, DeleteAttachment,
    MoveChannel, DeleteChannel, StorageKeys, Shifting, GapSnapshot, CloseGap, RoomSnapshot,
    MakeRoom, rows
<1>2. ASSUME \/ InsertAttachment(s) \/ SoftDeleteAttachmentsByID(s) \/ DeleteObject(s)
             \/ PresignPut(s) \/ UndoPresign(s) \/ DeleteChannelTree(s) \/ Abandon(s)
      PROVE  UNCHANGED chan
  BY <1>2 DEF InsertAttachment, SoftDeleteAttachmentsByID, DeleteObject, PresignPut, UndoPresign,
    DeleteChannelTree, Abandon, rows
<1> QED BY <1>1, <1>2 DEF StepOf

\* Which step the program has taken.
LEMMA Steps ==
  ASSUME Inv, [Next]_vars
  PROVE  \/ \E s \in Workers : StepOf(s)
         \/ /\ Outside /\ Len(att') = Len(att) /\ over' = over
            /\ \A t \in Workers : Bystander(t)
<1>1. ASSUME (\E i \in DOMAIN att : Upload(i)) \/ UNCHANGED vars
      PROVE  UNCHANGED <<att, over>> /\ \A t \in Workers : Bystander(t)
  BY <1>1 DEF Upload, vars, rows, history, Bystander
<1>2. ASSUME NEW c \in Chans, NEW g \in Guilds, NEW b \in BOOLEAN, NEW p \in Chans \cup {None},
             NEW n \in 0 .. MaxPos, CreateChannel(c, g, b, p, n)
      PROVE  UNCHANGED <<att, over>> /\ \A t \in Workers : Bystander(t)
  <2>1. UNCHANGED <<att, over>> /\ \A t \in Workers : job'[t] = Met(job[t], p)
    BY <1>2 DEF CreateChannel, history
  <2> QED BY <2>1 DEF Bystander
<1>3. ASSUME NEW g \in Guilds, DeleteServer(g)
      PROVE  Len(att') = Len(att) /\ over' = over /\ \A t \in Workers : Bystander(t)
  <2>1. over' = over /\ \A t \in Workers : job'[t] = Met(job[t], None)
    BY <1>3 DEF DeleteServer
  <2>2. Len(att') = Len(att)
    BY <1>3, DeleteServerInv
  <2> QED BY <2>1, <2>2 DEF Bystander
<1> QED BY <1>1, <1>2, <1>3 DEF Next, StepOf, Shifting, Outside

(***************************************************************************)
(* Moves under way.  The rows a move has shifted are locked, so no commit  *)
(* of another request changes them; and as long as the move is not crossed *)
(* the siblings that a statement listed are those that it should shift.    *)
(***************************************************************************)
\* The siblings from the new position on, once the gap is closed.
Room(j) == {x \in Scope(j.row.category, j.parent) \ {j.chan} :
              chan[x].pos - (IF x \in j.down THEN 1 ELSE 0) >= j.pos}

MoveOK(j) ==
  /\ j.down \cup j.up \subseteq j.held
  /\ j.held # {} => j.pc \in {"room", "rooming", "place"}
  /\ \A x \in j.held : x \in Chans /\ chan[x] # None
  /\ j.pc \in Moving /\ ~j.crossed =>
       /\ j.pc = "gapping" => Above(j) \subseteq j.hits
       /\ j.pc \in {"room", "rooming", "place"} => j.down = Above(j)
       /\ j.pc = "rooming" => Room(j) \subseteq j.hits
       /\ j.up = IF j.pc = "place" THEN Room(j) ELSE {}

\* Two transactions never hold the same row.
HeldApart == \A s, t \in Workers : s # t => job[s].held \cap job[t].held = {}

MoveInv == HeldApart /\ \A s \in Workers : MoveOK(job[s])

\* What others commit changes no row that the move holds; siblings that go
\* only make its lists shorter, and siblings that come cross it.
LEMMA MoveMet ==
  ASSUME Inv, NEW t \in Workers, MoveOK(job[t]), Bystander(t),
         \A x \in Chans : chan'[x] # chan[x] => x \notin job[t].held
  PROVE  MoveOK(job[t])' /\ job'[t].held = job[t].held
<1> DEFINE Fields == /\ job'[t].pc = job[t].pc /\ job'[t].chan = job[t].chan
                     /\ job'[t].row = job[t].row /\ job'[t].parent = job[t].parent
                     /\ job'[t].pos = job[t].pos /\ job'[t].hits = job[t].hits
                     /\ job'[t].down = job[t].down /\ job'[t].up = job[t].up
                     /\ job'[t].held = job[t].held
<1>a. job[t] \in Job
  BY DEF Inv, JobsOK
<1>1. \/ UNCHANGED chan /\ job'[t] = job[t]
      \/ job'[t] = [job[t] EXCEPT !.crossed = TRUE]
      \/ job'[t] = job[t] /\ ~Disturbs(job[t])
  BY DEF Bystander, Met
<1>2. Fields
  BY <1>a, <1>1 DEF Job
<1>3. /\ job'[t].down \cup job'[t].up \subseteq job'[t].held
      /\ job'[t].held # {} => job'[t].pc \in {"room", "rooming", "place"}
      /\ \A x \in job'[t].held : x \in Chans /\ chan'[x] # None
  BY <1>2 DEF MoveOK
<1>4. CASE job'[t].crossed
  BY <1>2, <1>3, <1>4 DEF MoveOK
<1>5. CASE job'[t] = job[t] /\ (UNCHANGED chan \/ ~Disturbs(job[t])) /\ job[t].pc \in Moving
           /\ ~job[t].crossed
  <2> DEFINE j == job[t]
  <2>1. ASSUME NEW p \in {j.row.parent, j.parent}, NEW x \in Scope(j.row.category, p)'
        PROVE  chan'[x] = chan[x] /\ x \in Scope(j.row.category, p)
    <3>1. x \in Chans /\ chan'[x] # None /\ InScope(chan'[x], j.row.category, p)
      BY <1>5, <2>1 DEF Scope
    <3>2. chan'[x] = chan[x]
      BY <1>5, <3>1 DEF Disturbs
    <3> QED BY <3>1, <3>2 DEF Scope
  <2>2. ASSUME NEW p, NEW x \in Scope(j.row.category, p), x \in j.held
        PROVE  chan'[x] = chan[x] /\ x \in Scope(j.row.category, p)'
    <3>1. x \in Chans /\ chan[x] # None /\ InScope(chan[x], j.row.category, p)
      BY <2>2 DEF Scope
    <3>2. chan'[x] = chan[x]
      BY <2>2, <3>1
    <3> QED BY <1>5, <3>1, <3>2 DEF Scope
  <2>3. Above(j)' \subseteq Above(j) /\ Above(j) \cap j.held \subseteq Above(j)'
    BY <1>5, <2>1, <2>2 DEF Above
  <2>4. Room(j)' \subseteq Room(j) /\ Room(j) \cap j.held \subseteq Room(j)'
    BY <1>5, <2>1, <2>2 DEF Room
  <2>5. j.down \subseteq j.held /\ j.up \subseteq j.held
    BY DEF MoveOK
  <2> HIDE DEF j
  <2>6. /\ j.pc = "gapping" => Above(j)' \subseteq j.hits
        /\ j.pc \in {"room", "rooming", "place"} => j.down = Above(j)'
        /\ j.pc = "rooming" => Room(j)' \subseteq j.hits
        /\ j.up = IF j.pc = "place" THEN Room(j)' ELSE {}
    <3>1. /\ j.pc = "gapping" => Above(j) \subseteq j.hits
          /\ j.pc \in {"room", "rooming", "place"} => j.down = Above(j)
          /\ j.pc = "rooming" => Room(j) \subseteq j.hits
          /\ j.up = IF j.pc = "place" THEN Room(j) ELSE {}
      BY <1>5 DEF MoveOK, j
    <3> DEFINE A == Above(j)
               B == Above(j)'
               R == Room(j)
               S == Room(j)'
    <3>2. B \subseteq A /\ A \cap j.held \subseteq B /\ S \subseteq R /\ R \cap j.held \subseteq S
      BY <2>3, <2>4
    <3>3. /\ j.pc = "gapping" => A \subseteq j.hits
          /\ j.pc \in {"room", "rooming", "place"} => j.down = A
          /\ j.pc = "rooming" => R \subseteq j.hits
          /\ j.up = IF j.pc = "place" THEN R ELSE {}
      BY <3>1
    <3> HIDE DEF A, B, R, S
    <3>4. /\ j.pc = "gapping" => B \subseteq j.hits
          /\ j.pc \in {"room", "rooming", "place"} => j.down = B
          /\ j.pc = "rooming" => S \subseteq j.hits
      BY <2>5, <3>2, <3>3
    <3>5. j.up = IF j.pc = "place" THEN S ELSE {}
      <4>1. CASE j.pc = "place"
        BY <2>5, <3>2, <3>3, <4>1
      <4>2. CASE j.pc # "place"
        BY <3>3, <4>2
      <4> QED BY <4>1, <4>2
    <3> QED BY <3>4, <3>5 DEF B, S
  <2> QED BY <1>2, <1>3, <1>5, <2>6 DEF MoveOK, j
<1>6. CASE job'[t].pc \notin Moving
  BY <1>2, <1>3, <1>6 DEF MoveOK
<1>7. job[t].crossed \in BOOLEAN /\ (job'[t] = [job[t] EXCEPT !.crossed = TRUE] => job'[t].crossed)
  BY <1>a DEF Job
<1> QED BY <1>1, <1>2, <1>4, <1>5, <1>6, <1>7

\* No commit changes a row that another request's transaction holds.
LEMMA HeldStay ==
  ASSUME Inv, MoveInv, NEW t \in Workers, Outside \/ \E s \in Workers : s # t /\ StepOf(s),
         NEW x \in Chans, chan'[x] # chan[x]
  PROVE  x \notin job[t].held
<1>a. \A w \in Workers : MoveOK(job[w])
  BY DEF MoveInv
<1>b. \A y \in job[t].held : y \in Chans /\ chan[y] # None
  BY <1>a DEF MoveOK
<1>1. ASSUME NEW s \in Workers, s # t, PlaceChannel(s)
      PROVE  x \notin job[t].held
  <2>1. s # t
    BY <1>1
  <2>2. CASE x = job[s].chan
    BY <1>1, <2>1, <2>2 DEF PlaceChannel, Free
  <2>3. CASE x # job[s].chan /\ chan[x] # None
    <3>1. chan'[x] = [chan[x] EXCEPT !.pos = Position(job[s], x)]
      BY <1>1, <2>3 DEF PlaceChannel
    <3>2. chan[x] \in Channel /\ chan[x].pos \in Int
      BY <2>3 DEF Inv, Tables, Channel
    <3>3. ASSUME x \notin job[s].down \cup job[s].up
          PROVE  FALSE
      <4>1. Position(job[s], x) = chan[x].pos
        BY <3>2, <3>3 DEF Position
      <4>2. chan'[x] = [chan[x] EXCEPT !.pos = chan[x].pos]
        BY <3>1, <4>1
      <4>3. chan'[x] = chan[x]
        BY <3>2, <4>2 DEF Channel
      <4> QED BY <4>3
    <3>4. x \in job[s].held
      BY <1>a, <3>3 DEF MoveOK
    <3> QED BY <2>1, <3>4 DEF MoveInv, HeldApart
  <2>4. CASE chan[x] = None
    BY <1>b, <2>4
  <2> QED BY <2>2, <2>3, <2>4
<1>2. ASSUME NEW s \in Workers, s # t, DeleteRows(s)
      PROVE  x \notin job[t].held
  <2> DEFINE gone == {c \in job[s].tree : chan[c] # None}
  <2>1. s # t /\ Free(s, gone \cup Left(gone)) /\ Cascade(gone)
    BY <1>2 DEF DeleteRows
  <2>2. x \in gone \cup Left(gone)
    BY <2>1 DEF Cascade
  <2> QED BY <2>1, <2>2 DEF Free
<1>3. ASSUME NEW g \in Guilds, DeleteServer(g)
      PROVE  x \notin job[t].held
  <2> DEFINE gone == {c \in Chans : In(c, g)}
  <2>1. job[t].held \cap (gone \cup Left(gone)) = {} /\ Cascade(gone)
    BY <1>3 DEF DeleteServer
  <2>2. x \in gone \cup Left(gone)
    BY <2>1 DEF Cascade
  <2> QED BY <2>1, <2>2
<1>4. ASSUME NEW c \in Chans, NEW g \in Guilds, NEW b \in BOOLEAN, NEW p \in Chans \cup {None},
             NEW n \in 0 .. MaxPos, CreateChannel(c, g, b, p, n)
      PROVE  x \notin job[t].held
  <2>1. chan[c] = None
    BY <1>4 DEF CreateChannel, Inv, Tables
  <2>2. x = c
    BY <1>4 DEF CreateChannel, Inv, Tables
  <2> QED BY <1>b, <2>1, <2>2
<1>5. ASSUME (\E i \in DOMAIN att : Upload(i)) \/ UNCHANGED vars
      PROVE  UNCHANGED chan
  BY <1>5 DEF Upload, vars, rows
<1>6. ASSUME NEW s \in Workers, s # t, StepOf(s)
      PROVE  x \notin job[t].held
  BY <1>1, <1>2, <1>6, ActorChans
<1> QED BY <1>3, <1>4, <1>5, <1>6 DEF Outside

\* A job that holds no row, and whose move has listed none.
Calm(j) == j.held = {} /\ j.down = {} /\ j.up = {} /\ (j.pc \in Moving => j.pc = "gap")

\* Apart from the statements that shift siblings, a request's own statements
\* leave its job calm.
LEMMA ActorCalm ==
  ASSUME Inv, MoveInv, NEW s \in Workers, StepOf(s), ~Shifting(s)
  PROVE  Calm(job'[s])
<1>a. job \in [Workers -> Job] /\ job[s] \in Job
  BY DEF Inv, JobsOK
<1>b. Calm(Idle)
  BY DEF Calm, Idle, Moving
<1>c. job[s].pc \notin Moving => Calm(job[s])
  BY DEF MoveInv, MoveOK, Calm, Moving
<1>d. ASSUME Done(s) PROVE Calm(job'[s])
  BY <1>a, <1>b, <1>d DEF Done
<1>e. ASSUME NEW pc, pc \notin Moving, Goto(s, pc), Calm(job[s]) PROVE Calm(job'[s])
  BY <1>a, <1>e DEF Goto, Job, Calm
<1>1. ASSUME NEW c \in Chans, \/ \E n \in Sizes : Presign(s, c, n)
                              \/ \E p \in Chans \cup {None}, n \in 0 .. MaxPos : MoveChannel(s, c, p, n)
                              \/ DeleteChannel(s, c)
      PROVE  Calm(job'[s])
  <2>1. CASE \E n \in Sizes : Presign(s, c, n)
    BY <1>a, <2>1 DEF Presign, Start, Idle, Calm, Moving
  <2>2. CASE \E p \in Chans \cup {None}, n \in 0 .. MaxPos : MoveChannel(s, c, p, n)
    BY <1>a, <2>2 DEF MoveChannel, Start, Idle, Calm, Moving
  <2>3. CASE DeleteChannel(s, c)
    BY <1>a, <2>3 DEF DeleteChannel, Start, Idle, Calm, Moving
  <2> QED BY <1>1, <2>1, <2>2, <2>3
<1>2. ASSUME NEW i \in DOMAIN att, DeleteAttachment(s, i) \/ ListExpiredAttachments(s, i)
      PROVE  Calm(job'[s])
  <2>1. CASE DeleteAttachment(s, i)
    BY <1>a, <2>1 DEF DeleteAttachment, Start, Idle, Calm, Moving
  <2>2. CASE ListExpiredAttachments(s, i)
    BY <1>a, <2>2 DEF ListExpiredAttachments, Start, Idle, Calm, Moving
  <2> QED BY <1>2, <2>1, <2>2
<1>3. ASSUME InsertAttachment(s) PROVE Calm(job'[s])
  <2>1. Calm(job[s]) /\ job[s].pc = "insert"
    BY <1>c, <1>3 DEF InsertAttachment, At, Moving
  <2>2. CASE Done(s)
    BY <1>d, <2>2
  <2>3. CASE job' = [job EXCEPT ![s].pc = IF Quota = None THEN "sign" ELSE "list",
                                ![s].att = Len(att) + 1]
    BY <1>a, <2>1, <2>3 DEF Calm, Moving, Job
  <2> QED BY <1>3, <2>2, <2>3 DEF InsertAttachment
<1>4. ASSUME EnforceGuildAttachmentQuota(s) PROVE Calm(job'[s])
  <2>1. Calm(job[s])
    BY <1>c, <1>4 DEF EnforceGuildAttachmentQuota, At, Moving
  <2> QED BY <1>a, <1>4, <2>1 DEF EnforceGuildAttachmentQuota, Goto, Calm, Moving, Job
<1>5. ASSUME SoftDeleteAttachmentsByID(s) PROVE Calm(job'[s])
  <2>1. Calm(job[s])
    BY <1>c, <1>5 DEF SoftDeleteAttachmentsByID, At, Moving
  <2> QED BY <1>a, <1>5, <2>1 DEF SoftDeleteAttachmentsByID, Calm, Moving, Job
<1>6. ASSUME DeleteObject(s) PROVE Calm(job'[s])
  <2>1. Calm(job[s]) /\ job[s].pc = "unlink"
    BY <1>c, <1>6 DEF DeleteObject, At, Moving
  <2>2. ASSUME NEW i, job' = [job EXCEPT ![s].atts = @ \ {i}]
        PROVE  Calm(job'[s])
    BY <1>a, <2>1, <2>2 DEF Calm, Moving, Job
  <2>3. \/ Goto(s, "sign") \/ Done(s) \/ \E i : job' = [job EXCEPT ![s].atts = @ \ {i}]
    BY <1>6 DEF DeleteObject
  <2> QED BY <1>d, <1>e, <2>1, <2>2, <2>3 DEF Moving
<1>7. ASSUME PresignPut(s) \/ UndoPresign(s) PROVE Calm(job'[s])
  <2>1. Calm(job[s])
    BY <1>c, <1>7 DEF PresignPut, UndoPresign, At, Moving
  <2>2. Goto(s, "undo") \/ Done(s)
    BY <1>7 DEF PresignPut, UndoPresign
  <2> QED BY <1>d, <1>e, <2>1, <2>2 DEF Moving
<1>8. ASSUME PlaceChannel(s) PROVE Calm(job'[s])
  <2>1. Done(s) \/ job'[s] = Idle
    BY <1>8 DEF PlaceChannel
  <2> QED BY <1>b, <1>d, <2>1
<1>9. ASSUME DeleteChannelTree(s) \/ StorageKeys(s) PROVE Calm(job'[s])
  <2>1. Calm(job[s])
    BY <1>c, <1>9 DEF DeleteChannelTree, StorageKeys, At, Moving
  <2>2. CASE Done(s)
    BY <1>d, <2>2
  <2>3. ASSUME NEW T, NEW X,
               job' = [job EXCEPT ![s].pc = "keys", ![s].tree = T, ![s].crossed = X]
        PROVE  Calm(job'[s])
    BY <1>a, <2>1, <2>3 DEF Calm, Moving, Job
  <2>4. ASSUME NEW m, NEW A,
               job' = [job EXCEPT ![s].pc = "delete", ![s].known = m, ![s].atts = A]
        PROVE  Calm(job'[s])
    BY <1>a, <2>1, <2>4 DEF Calm, Moving, Job
  <2>5. CASE DeleteChannelTree(s)
    BY <2>2, <2>3, <2>5 DEF DeleteChannelTree
  <2>6. CASE StorageKeys(s)
    BY <2>4, <2>6 DEF StorageKeys
  <2> QED BY <1>9, <2>5, <2>6
<1>10. ASSUME DeleteRows(s) PROVE Calm(job'[s])
  BY <1>10 DEF DeleteRows, Idle, Calm, Moving
<1>11. ASSUME Abandon(s) PROVE Calm(job'[s])
  <2>1. Done(s) \/ (Goto(s, "undo") /\ job[s].pc \in {"list", "evict"})
    BY <1>11 DEF Abandon
  <2> QED BY <1>c, <1>d, <1>e, <2>1 DEF Moving
<1> QED BY <1>1, <1>2, <1>3, <1>4, <1>5, <1>6, <1>7, <1>8, <1>9, <1>10, <1>11 DEF StepOf

\* A statement that shifts siblings takes what it lists, and rows nobody holds.
LEMMA ShiftingOK ==
  ASSUME Inv, MoveInv, NEW s \in Workers, Shifting(s)
  PROVE  /\ MoveOK(job[s])'
         /\ \A t \in Workers : t # s => job'[s].held \cap job[t].held = {}
<1>a. job \in [Workers -> Job] /\ job[s] \in Job /\ MoveOK(job[s])
      /\ \A t \in Workers : t # s => job[s].held \cap job[t].held = {}
  BY DEF Inv, JobsOK, MoveInv, HeldApart
<1>b. UNCHANGED chan
  BY ShiftingJob
<1>c. Above(job[s]) \subseteq Locked(Chans) /\ Room(job[s]) \subseteq Locked(Chans)
      /\ From(job[s]) \subseteq Locked(Chans) /\ job[s].hits \subseteq Chans
  BY <1>a DEF Above, Room, From, Scope, Locked, Job
<1>d. job[s].up = {} => From(job[s]) = Room(job[s])
  <2> SUFFICES ASSUME job[s].up = {} PROVE From(job[s]) = Room(job[s])
    OBVIOUS
  <2>1. \A x \in Scope(job[s].row.category, job[s].parent) : chan[x].pos \in Int
    BY DEF Scope, Inv, Tables, Channel
  <2>2. \A x \in Scope(job[s].row.category, job[s].parent) :
          Position(job[s], x) = chan[x].pos - (IF x \in job[s].down THEN 1 ELSE 0)
    BY <2>1 DEF Position
  <2> QED BY <2>2 DEF From, Room
<1>1. CASE GapSnapshot(s)
  <2>1. /\ job[s].pc = "gap" /\ job'[s].pc = "gapping" /\ job'[s].hits = Above(job[s])
        /\ job'[s].down = job[s].down /\ job'[s].up = job[s].up /\ job'[s].held = job[s].held
        /\ job'[s].row = job[s].row /\ job'[s].chan = job[s].chan
    BY <1>a, <1>1 DEF GapSnapshot, At, Job
  <2>2. job[s].held = {} /\ job[s].down = {} /\ job[s].up = {}
    BY <1>a, <2>1 DEF MoveOK
  <2>3. Above(job[s])' = Above(job[s])
    BY <1>b, <2>1 DEF Above, Scope
  <2> QED BY <2>1, <2>2, <2>3 DEF MoveOK
<1>2. CASE CloseGap(s)
  <2> DEFINE A == job[s].hits \cap Above(job[s])
             L == Locked(job[s].hits)
  <2>1. /\ job[s].pc = "gapping" /\ job'[s].pc = "room" /\ job'[s].down = A
        /\ job'[s].held = L /\ job'[s].up = job[s].up /\ job'[s].crossed = job[s].crossed
        /\ job'[s].row = job[s].row /\ job'[s].chan = job[s].chan
    BY <1>a, <1>2 DEF CloseGap, At, Job
  <2>2. job[s].up = {}
    BY <1>a, <2>1 DEF MoveOK
  <2>3. Above(job[s])' = Above(job[s])
    BY <1>b, <2>1 DEF Above, Scope
  <2>4. ~job[s].crossed => A = Above(job[s])
    BY <1>a, <2>1 DEF MoveOK, Moving
  <2>5. A \subseteq L /\ \A x \in L : x \in job[s].hits /\ x \in Chans /\ chan'[x] # None
    BY <1>b, <1>c DEF Locked
  <2>6. \A t \in Workers : t # s => L \cap job[t].held = {}
    BY <1>2, <2>5 DEF CloseGap, Free
  <2> HIDE DEF A, L
  <2> QED BY <2>1, <2>2, <2>3, <2>4, <2>5, <2>6 DEF MoveOK
<1>3. CASE RoomSnapshot(s)
  <2>1. /\ job[s].pc = "room" /\ job'[s].pc = "rooming" /\ job'[s].hits = From(job[s])
        /\ job'[s].down = job[s].down /\ job'[s].up = job[s].up /\ job'[s].held = job[s].held
        /\ job'[s].row = job[s].row /\ job'[s].chan = job[s].chan /\ job'[s].pos = job[s].pos
        /\ job'[s].parent = job[s].parent /\ job'[s].crossed = job[s].crossed
    BY <1>a, <1>3 DEF RoomSnapshot, At, Job
  <2>2. Above(job[s])' = Above(job[s]) /\ Room(job[s])' = Room(job[s])
    BY <1>b, <2>1 DEF Above, Room, Scope
  <2> QED BY <1>a, <1>b, <1>d, <2>1, <2>2 DEF MoveOK, Moving
<1>4. CASE MakeRoom(s)
  <2> DEFINE A == job[s].hits \cap From(job[s])
             L == Locked(job[s].hits)
  <2>1. /\ job[s].pc = "rooming" /\ job'[s].pc = "place" /\ job'[s].up = A
        /\ job'[s].held = job[s].held \cup L /\ job'[s].down = job[s].down
        /\ job'[s].row = job[s].row /\ job'[s].chan = job[s].chan /\ job'[s].pos = job[s].pos
        /\ job'[s].parent = job[s].parent /\ job'[s].crossed = job[s].crossed
    BY <1>a, <1>4 DEF MakeRoom, At, Job
  <2>2. Above(job[s])' = Above(job[s]) /\ Room(job[s])' = Room(job[s])
    BY <1>b, <2>1 DEF Above, Room, Scope
  <2>3. ~job[s].crossed => A = Room(job[s])
    BY <1>a, <1>d, <2>1 DEF MoveOK, Moving
  <2>4. A \subseteq L /\ \A x \in L : x \in job[s].hits /\ x \in Chans /\ chan'[x] # None
    BY <1>b, <1>c DEF Locked
  <2>5. \A t \in Workers : t # s => (job[s].held \cup L) \cap job[t].held = {}
    BY <1>4, <1>a, <2>4 DEF MakeRoom, Free
  <2>6. \A x \in job[s].held : x \in Chans /\ chan'[x] # None
    BY <1>a, <1>b DEF MoveOK
  <2>7. job[s].down \subseteq job[s].held /\ (~job[s].crossed => job[s].down = Above(job[s]))
    BY <1>a, <2>1 DEF MoveOK, Moving
  <2> HIDE DEF A, L
  <2> QED BY <2>1, <2>2, <2>3, <2>4, <2>5, <2>6, <2>7 DEF MoveOK
<1> QED BY <1>1, <1>2, <1>3, <1>4 DEF Shifting

\* Every step keeps it.
LEMMA NextMove ==
  ASSUME Inv, MoveInv, [Next]_vars
  PROVE  MoveInv'
<1>1. ASSUME NEW t \in Workers, Bystander(t), Outside \/ \E s \in Workers : s # t /\ StepOf(s)
      PROVE  MoveOK(job[t])' /\ job'[t].held = job[t].held
  <2>1. \A x \in Chans : chan'[x] # chan[x] => x \notin job[t].held
    BY <1>1, HeldStay
  <2>2. MoveOK(job[t])
    BY DEF MoveInv
  <2> QED BY <1>1, <2>1, <2>2, MoveMet
<1>2. ASSUME NEW s \in Workers, StepOf(s)
      PROVE  /\ MoveOK(job[s])'
             /\ \A t \in Workers : t # s => job'[s].held \cap job[t].held = {}
  <2>1. CASE Shifting(s)
    BY <2>1, ShiftingOK
  <2>2. CASE ~Shifting(s)
    <3>1. Calm(job'[s])
      BY <1>2, <2>2, ActorCalm
    <3> QED BY <3>1 DEF Calm, MoveOK, Moving
  <2> QED BY <2>1, <2>2
<1>3. CASE \E s \in Workers : StepOf(s)
  <2>1. PICK s \in Workers : StepOf(s)
    BY <1>3
  <2>2. \A t \in Workers : t # s => MoveOK(job[t])' /\ job'[t].held = job[t].held
    BY <1>1, <2>1, OtherJobs
  <2>3. \A t \in Workers : MoveOK(job[t])'
    BY <1>2, <2>1, <2>2
  <2>4. HeldApart'
    BY <1>2, <2>1, <2>2 DEF MoveInv, HeldApart
  <2> QED BY <2>3, <2>4 DEF MoveInv
<1>4. CASE Outside /\ \A t \in Workers : Bystander(t)
  BY <1>1, <1>4 DEF MoveInv, HeldApart
<1> QED BY <1>3, <1>4, Steps

(***************************************************************************)
(* MoveKeepsOrder.  Only the transaction of MoveChannel itself ends a move *)
(* and writes channels.  When the row it read is still current and nothing *)
(* has come to its scopes, its gap is at the position that no sibling has, *)
(* so closing it and making room for the new one are one to one on every   *)
(* scope of the guild.                                                     *)
(***************************************************************************)
\* What ends a move that is about to commit writes no channel, or commits it.
LEMMA MoveEnds ==
  ASSUME Inv, [Next]_vars, NEW s \in Workers, job[s].pc = "place", job'[s] = Idle
  PROVE  PlaceChannel(s) \/ UNCHANGED chan
<1>a. job[s] \in Job
  BY DEF Inv, JobsOK
<1>b. \A p : Met(job[s], p).pc = "place"
  BY <1>a DEF Met, Job
<1>1. ASSUME NEW t \in Workers, StepOf(t)
      PROVE  PlaceChannel(s) \/ UNCHANGED chan
  <2>1. CASE t = s
    <3>1. ~DeleteRows(s)
      BY DEF DeleteRows, At
    <3> QED BY <1>1, <2>1, <3>1, ActorChans
  <2>2. CASE t # s
    <3>1. Bystander(s)
      BY <1>1, <2>2, OtherJobs
    <3> QED BY <1>b, <3>1, IdleOK DEF Bystander
  <2> QED BY <2>1, <2>2
<1>2. CASE \A t \in Workers : Bystander(t)
  BY <1>b, <1>2, IdleOK DEF Bystander
<1> QED BY <1>1, <1>2, Steps

\* Where a position v ends up when the gap at r is closed and room is made at q,
\* for channels in the scopes (a) and (b) or not.
Shifted(v, r, q, a, b) ==
  LET w == IF a /\ v > r THEN v - 1 ELSE v IN IF b /\ w >= q THEN w + 1 ELSE w

\* Room is made at q.
LEMMA ShiftedAway ==
  ASSUME NEW v \in Int, NEW r \in Int, NEW q \in Int, NEW a \in BOOLEAN
  PROVE  Shifted(v, r, q, a, TRUE) # q
BY DEF Shifted

\* Two channels share a scope: both categories, or channels of one parent.
Siblings(x, y) == chan[x].category = chan[y].category
                  /\ (chan[x].category \/ chan[x].parent = chan[y].parent)

\* The move of a channel that is still where it was read.
LEMMA PlacedOrdered ==
  ASSUME Inv, MoveInv, NEW s \in Workers, PlaceChannel(s), NEW g \in Guilds, g = job[s].guild,
         chan[job[s].chan] = job[s].row, ~job[s].crossed, Ordered(g),
         \A x \in Chans : In(x, g) /\ chan[x].category => chan[x].parent = None
  PROVE  Ordered(g)'
<1> DEFINE j == job[s]
           c == j.chan
<1>1. CASE chan[c] # None /\ j.parent # None /\ chan[j.parent] = None
  <2>1. UNCHANGED chan
    BY <1>1 DEF PlaceChannel
  <2> QED BY <2>1 DEF Ordered, In
<1>2. CASE ~(chan[c] # None /\ j.parent # None /\ chan[j.parent] = None)
  <2>1. /\ c \in Chans /\ j.parent \in Chans \cup {None} /\ j.pos \in Int
        /\ j.row \in Channel /\ j.row.guild = g
        /\ \A x \in Chans : chan'[x] = None <=> chan[x] = None
        /\ \A x \in Chans : chan[x] # None =>
             /\ chan'[x].guild = chan[x].guild /\ chan'[x].category = chan[x].category
             /\ x = c => chan'[x].parent = j.parent /\ chan'[x].pos = j.pos
             /\ x # c => /\ chan'[x].parent = chan[x].parent
                         /\ chan'[x].pos = Position(j, x)
    BY <1>2, Moved
  <2>2. In(c, g) /\ chan[c] = j.row
    BY <2>1, ChannelsAssumption DEF In
  <2>3. \A x \in Chans : In(x, g) => chan[x] \in Channel /\ chan[x].pos \in Int
                                     /\ chan[x].category \in BOOLEAN
    BY DEF In, Inv, Tables, Channel
  <2> DEFINE r == j.row.pos
             q == j.pos
             a(x) == x \in Scope(j.row.category, j.row.parent)
             b(x) == x \in Scope(j.row.category, j.parent)
  <2>4. \A x \in Chans : In(x, g) /\ x # c =>
          chan'[x].pos = Shifted(chan[x].pos, r, q, a(x), b(x))
    <3> SUFFICES ASSUME NEW x \in Chans, In(x, g), x # c
                 PROVE  chan'[x].pos = Shifted(chan[x].pos, r, q, a(x), b(x))
      OBVIOUS
    <3>1. chan'[x].pos = Position(j, x)
      BY <2>1 DEF In
    <3>2. j.down = Above(j) /\ j.up = Room(j)
      BY DEF MoveInv, MoveOK, PlaceChannel, At, Moving
    <3> DEFINE v == chan[x].pos
    <3>3. v \in Int /\ r \in Int /\ q \in Int
      BY <2>1, <2>3 DEF Channel
    <3>4. x \in j.down <=> a(x) /\ v > r
      BY <3>2 DEF Above
    <3>5. x \in j.up <=> b(x) /\ v - (IF x \in j.down THEN 1 ELSE 0) >= q
      BY <3>2 DEF Room
    <3>6. chan'[x].pos = v - (IF x \in j.down THEN 1 ELSE 0) + (IF x \in j.up THEN 1 ELSE 0)
      BY <3>1 DEF Position
    <3> HIDE DEF v, r, q, a, b
    <3> DEFINE w == v - (IF x \in j.down THEN 1 ELSE 0)
    <3>7. w \in Int /\ w = (IF a(x) /\ v > r THEN v - 1 ELSE v)
      BY <3>3, <3>4
    <3>8. (x \in j.up <=> b(x) /\ w >= q)
          /\ chan'[x].pos = w + (IF x \in j.up THEN 1 ELSE 0)
      BY <3>5, <3>6
    <3> HIDE DEF w
    <3>9. chan'[x].pos = IF b(x) /\ w >= q THEN w + 1 ELSE w
      BY <3>3, <3>7, <3>8
    <3> QED BY <3>7, <3>9 DEF Shifted, v
  <2>5. \A x, y \in Chans : In(x, g) /\ In(y, g) /\ x # y /\ Siblings(x, y) =>
          chan[x].pos # chan[y].pos
    BY DEF Ordered, Siblings
  <2>6. ASSUME NEW x \in Chans, NEW y \in Chans, In(x, g), In(y, g), Siblings(x, y)
        PROVE  (a(x) <=> a(y)) /\ (b(x) <=> b(y))
    BY <2>3, <2>6 DEF Siblings, Scope, InScope, In
  <2>7. ASSUME NEW x \in Chans, In(x, g), a(x)
        PROVE  Siblings(x, c)
    <3>1. In(x, g) /\ chan[x].category \in BOOLEAN /\ chan[c].category \in BOOLEAN
      BY <2>1, <2>2, <2>3, <2>7
    <3>2. CASE chan[c].category
      <4>1. chan[x].category
        BY <2>2, <2>7, <3>2 DEF Scope, InScope
      <4>2. chan[x].category = TRUE /\ chan[c].category = TRUE
        BY <3>1, <3>2, <4>1
      <4> QED BY <4>2 DEF Siblings
    <3>3. CASE ~chan[c].category
      <4>1. /\ chan[x].parent = chan[c].parent
            /\ chan[c].parent = None => ~chan[x].category
        BY <2>2, <2>7, <3>3 DEF Scope, InScope
      <4>2. ~chan[x].category
        BY <2>7, <4>1
      <4>3. chan[x].category = FALSE /\ chan[c].category = FALSE
        BY <3>1, <3>3, <4>2
      <4> QED BY <4>1, <4>3 DEF Siblings
    <3> QED BY <3>2, <3>3
  <2>8. ASSUME NEW y \in Chans, In(y, g), y # c, chan[y].category = chan[c].category,
               chan[c].category \/ chan[y].parent = j.parent
        PROVE  b(y)
    BY <2>2, <2>3, <2>8 DEF Scope, InScope, In
  <2>9. j.row.pos \in Int
    BY <2>1 DEF Channel
  <2>10. \A x \in Chans : In(x, g)' => In(x, g)
    BY <2>1 DEF In
  <2> SUFFICES ASSUME NEW x \in Chans, NEW y \in Chans, In(x, g), In(y, g), x # y,
                      chan'[x].pos = chan'[y].pos, chan'[x].category = chan'[y].category,
                      chan'[x].category \/ chan'[x].parent = chan'[y].parent
               PROVE  FALSE
    BY <2>10 DEF Ordered
  <2>11. chan[x].category = chan[y].category /\ chan[x].category = chan'[x].category
    BY <2>1 DEF In
  <2>12. chan[x].pos \in Int /\ chan[y].pos \in Int /\ q \in Int /\ r \in Int
    BY <2>1, <2>3, <2>9
  <2>13. a(x) \in BOOLEAN /\ b(x) \in BOOLEAN /\ a(y) \in BOOLEAN /\ b(y) \in BOOLEAN
    OBVIOUS
  <2>14. CASE x # c /\ y # c
    <3>1. Siblings(x, y)
      BY <2>1, <2>11, <2>14 DEF Siblings, In
    <3>2. chan[x].pos # chan[y].pos
      BY <2>5, <3>1
    <3>3. (a(x) <=> a(y)) /\ (b(x) <=> b(y))
      BY <2>6, <3>1
    <3>4. a(x) => chan[x].pos # r /\ chan[y].pos # r
      BY <2>1, <2>2, <2>5, <2>7, <2>14, <3>3
    <3>5. /\ chan'[x].pos = Shifted(chan[x].pos, r, q, a(x), b(x))
          /\ chan'[y].pos = Shifted(chan[y].pos, r, q, a(y), b(y))
      BY <2>4, <2>14
    <3> HIDE DEF a, b, r, q
    <3> DEFINE v == chan[x].pos
               w == chan[y].pos
    <3>6. v \in Int /\ w \in Int /\ q \in Int /\ r \in Int /\ v # w /\ (a(x) => v # r /\ w # r)
          /\ Shifted(v, r, q, a(x), b(x)) = Shifted(w, r, q, a(y), b(y))
      BY <2>12, <3>2, <3>4, <3>5
    <3> HIDE DEF v, w
    <3>7. CASE a(x) /\ b(x)
      BY <3>3, <3>6, <3>7 DEF Shifted
    <3>8. CASE a(x) /\ ~b(x)
      BY <3>3, <3>6, <3>8 DEF Shifted
    <3>9. CASE ~a(x) /\ b(x)
      BY <3>3, <3>6, <3>9 DEF Shifted
    <3>10. CASE ~a(x) /\ ~b(x)
      BY <3>3, <3>6, <3>10 DEF Shifted
    <3> QED BY <3>7, <3>8, <3>9, <3>10
  <2>15. ASSUME NEW z \in Chans, In(z, g), z # c, chan'[z].category = chan'[c].category,
                chan'[c].category \/ chan'[z].parent = chan'[c].parent
         PROVE  chan'[z].pos # chan'[c].pos
    <3>1. b(z)
      BY <2>1, <2>2, <2>8, <2>15 DEF In
    <3>2. chan'[z].pos = Shifted(chan[z].pos, r, q, a(z), b(z)) /\ chan'[c].pos = q
      BY <2>1, <2>2, <2>4, <2>15 DEF In
    <3>3. chan[z].pos \in Int /\ a(z) \in BOOLEAN
      BY <2>3, <2>15
    <3> HIDE DEF a, b, r, q
    <3>4. chan'[z].pos = Shifted(chan[z].pos, r, q, a(z), TRUE)
      BY <3>1, <3>2 DEF Shifted
    <3> QED BY <2>12, <3>2, <3>3, <3>4, ShiftedAway
  <2>16. CASE x = c
    BY <2>15, <2>16
  <2>17. CASE y = c
    BY <2>11, <2>15, <2>17
  <2> QED BY <2>14, <2>16, <2>17
<1> QED BY <1>1, <1>2

\* A move leaves the channels of its guild at different positions in each
\* scope if they were before, whatever other requests commit between its
\* statements, unless a channel came to one of its scopes or was shifted
\* there: for every number of requests and channels (MoveChannel).
THEOREM MovesKeepOrder == Spec => MoveKeepsOrder
<1>1. Init => MoveInv
  BY DEF Init, MoveInv, HeldApart, MoveOK, Idle, Moving
<1>2. Inv /\ MoveInv /\ [Next]_vars => MoveInv'
  BY NextMove
<1>3. ASSUME Inv, MoveInv, [Next]_vars
      PROVE  \A s \in Workers, g \in Guilds :
               Placed(s, g) /\ ~job[s].crossed /\ Ordered(g) /\ FlatCategories(g) => Ordered(g)'
  <2> SUFFICES ASSUME NEW s \in Workers, NEW g \in Guilds, Placed(s, g), ~job[s].crossed,
                      Ordered(g), FlatCategories(g)
               PROVE  Ordered(g)'
    OBVIOUS
  <2>1. PlaceChannel(s) \/ UNCHANGED chan
    BY <1>3, MoveEnds DEF Placed, At
  <2>2. CASE PlaceChannel(s)
    <3>1. g = job[s].guild /\ chan[job[s].chan] = job[s].row
      BY DEF Placed
    <3>2. \A x \in Chans : In(x, g) /\ chan[x].category => chan[x].parent = None
      BY DEF FlatCategories
    <3> QED BY <1>3, <2>2, <3>1, <3>2, PlacedOrdered
  <2>3. CASE UNCHANGED chan
    BY <2>3 DEF Ordered, In
  <2> QED BY <2>1, <2>2, <2>3
<1> QED BY <1>1, <1>2, <1>3, Invariance, PTL DEF Spec, MoveKeepsOrder

(***************************************************************************)
(* Sums over finite sets.  Total(f, S) is the sum of f over S, defined     *)
(* without recursion as the number of pairs of an element i of S and a     *)
(* number from 1 to f[i], so that facts about cardinalities give facts     *)
(* about sums.  SumIsTotal shows that the iterated sum MapThenSumSet is    *)
(* this number: the smallest set on which they differed would have an      *)
(* element whose removal leaves them different.                            *)
(***************************************************************************)
Units(f, S) == UNION {{i} \X (1 .. f[i]) : i \in S}
Total(f, S) == Cardinality(Units(f, S))

\* MapThenSumSet with its operators filled in.
Pick(s) == CHOOSE x \in s : TRUE
IterOf(f, S) == CHOOSE g : g = [s \in SUBSET S |-> IF s = {} THEN 0 ELSE f[Pick(s)] + g[s \ {Pick(s)}]]
Sum(f, S) == IterOf(f, S)[S]

\* A set of numbers has a smallest one.
LEMMA NatMinimum ==
  ASSUME NEW T \in SUBSET Nat, T # {}
  PROVE  \E m \in T : \A n \in T : m <= n
<1>1. \E m \in T : \A n \in T : ~ (<<n, m>> \in OpToRel(<, Nat))
  BY NatLessThanWellFounded, WFMin
<1>2. \A m, n \in T : ~ (<<n, m>> \in OpToRel(<, Nat)) => m <= n
  BY DEF OpToRel
<1> QED
  BY <1>1, <1>2

\* There are n numbers from 1 to n.
LEMMA IntervalCount ==
  \A n \in Nat : IsFiniteSet(1 .. n) /\ Cardinality(1 .. n) = n
<1> SUFFICES ASSUME NEW n \in Nat PROVE IsFiniteSet(1 .. n) /\ Cardinality(1 .. n) = n
  OBVIOUS
<1>1. IsFiniteSet(1 .. n) /\ Cardinality(1 .. n) = IF 1 > n THEN 0 ELSE n - 1 + 1
  BY FS_Interval
<1> QED
  BY <1>1

\* A sum of numbers over a finite set is a number.
LEMMA UnitsFinite ==
  ASSUME NEW S, IsFiniteSet(S), NEW f, \A i \in S : f[i] \in Nat
  PROVE  IsFiniteSet(Units(f, S)) /\ Total(f, S) \in Nat
<1> DEFINE slice(i) == {i} \X (1 .. f[i])
<1> DEFINE h == [i \in S |-> slice(i)]
<1> DEFINE slices == {slice(i) : i \in S}
<1>1. ASSUME NEW i \in S PROVE IsFiniteSet(slice(i))
  <2>1. IsFiniteSet({i}) /\ IsFiniteSet(1 .. f[i])
    BY FS_Singleton, IntervalCount
  <2> QED
    BY <2>1, FS_Product
<1>2. h \in Surjection(S, slices)
  BY DEF Surjection
<1>3. IsFiniteSet(slices)
  <2> HIDE DEF h, slices
  <2> QED BY <1>2, FS_Surjection
<1>4. \A t \in slices : IsFiniteSet(t)
  BY <1>1
<1>5. IsFiniteSet(UNION slices)
  <2> HIDE DEF slices
  <2> QED BY <1>3, <1>4, FS_UNION
<1>6. IsFiniteSet(Units(f, S))
  BY <1>5 DEF Units
<1> QED
  BY <1>6, FS_CardinalityType DEF Total

\* The empty sum is zero.
LEMMA TotalEmpty == \A f : Total(f, {}) = 0
<1>1. \A f : Units(f, {}) = {}
  BY DEF Units
<1> QED
  BY <1>1, FS_EmptySet DEF Total

\* The sum over one element.
LEMMA TotalOne ==
  ASSUME NEW f, NEW i, f[i] \in Nat
  PROVE  Total(f, {i}) = f[i]
<1>1. Units(f, {i}) = {i} \X (1 .. f[i])
  BY DEF Units
<1>2. IsFiniteSet({i}) /\ Cardinality({i}) = 1
  BY FS_Singleton
<1>3. IsFiniteSet(1 .. f[i]) /\ Cardinality(1 .. f[i]) = f[i]
  BY IntervalCount
<1>4. Cardinality({i} \X (1 .. f[i])) = 1 * f[i]
  <2>1. Cardinality({i} \X (1 .. f[i])) = Cardinality({i}) * Cardinality(1 .. f[i])
    BY <1>2, <1>3, FS_Product, Zenon
  <2> QED BY <1>2, <1>3, <2>1, Zenon
<1>5. Total(f, {i}) = 1 * f[i]
  <2>1. Total(f, {i}) = Cardinality(Units(f, {i}))
    BY DEF Total
  <2> QED BY <1>1, <1>4, <2>1
<1> DEFINE k == f[i]
<1>6. k \in Nat /\ Total(f, {i}) = 1 * k
  BY <1>5
<1>7. Total(f, {i}) = k
  <2> HIDE DEF k
  <2> QED BY <1>6
<1> QED
  BY <1>7

\* The sum over a set is the sum over a part and over the rest.
LEMMA TotalSplit ==
  ASSUME NEW S, IsFiniteSet(S), NEW T \in SUBSET S, NEW f, \A i \in S : f[i] \in Nat
  PROVE  /\ Total(f, S) = Total(f, T) + Total(f, S \ T)
         /\ Total(f, S) \in Nat /\ Total(f, T) \in Nat /\ Total(f, S \ T) \in Nat
         /\ Total(f, T) <= Total(f, S)
<1>1. IsFiniteSet(T) /\ IsFiniteSet(S \ T)
  BY FS_Subset, FS_Difference
<1>2. /\ IsFiniteSet(Units(f, T)) /\ Total(f, T) \in Nat
      /\ IsFiniteSet(Units(f, S \ T)) /\ Total(f, S \ T) \in Nat /\ Total(f, S) \in Nat
  BY <1>1, UnitsFinite
<1>3. Units(f, S) = Units(f, T) \cup Units(f, S \ T)
  BY DEF Units
<1>4. Units(f, T) \cap Units(f, S \ T) = {}
  BY DEF Units
<1>5. Cardinality(Units(f, S)) =
        Cardinality(Units(f, T)) + Cardinality(Units(f, S \ T)) - Cardinality({})
  BY <1>2, <1>3, <1>4, FS_Union
<1>6. Total(f, S) = Total(f, T) + Total(f, S \ T)
  BY <1>2, <1>5, FS_EmptySet DEF Total
<1> QED
  BY <1>2, <1>6

\* A sum depends on the values in its set only.
LEMMA TotalSame ==
  ASSUME NEW S, NEW f, NEW h, \A i \in S : f[i] = h[i]
  PROVE  Total(f, S) = Total(h, S)
<1>1. Units(f, S) = Units(h, S)
  BY DEF Units
<1> QED
  BY <1>1 DEF Total

\* The iterated sum is the total.
LEMMA SumIsTotal ==
  ASSUME NEW S, IsFiniteSet(S), NEW f, \A i \in S : f[i] \in Nat
  PROVE  Sum(f, S) = Total(f, S)
<1> DEFINE body(g, s) == IF s = {} THEN 0 ELSE f[Pick(s)] + g[s \ {Pick(s)}]
<1> DEFINE tot == [s \in SUBSET S |-> Total(f, s)]
<1> DEFINE iter == IterOf(f, S)
<1>1. ASSUME NEW s \in SUBSET S, s # {}
      PROVE  /\ Pick(s) \in s /\ IsFiniteSet(s)
             /\ Total(f, s) = f[Pick(s)] + Total(f, s \ {Pick(s)})
  <2>1. Pick(s) \in s
    BY <1>1 DEF Pick
  <2>2. IsFiniteSet(s)
    BY FS_Subset
  <2>3. Total(f, s) = Total(f, {Pick(s)}) + Total(f, s \ {Pick(s)})
    BY <2>1, <2>2, TotalSplit
  <2>4. Total(f, {Pick(s)}) = f[Pick(s)]
    BY <2>1, TotalOne
  <2> QED
    BY <2>1, <2>2, <2>3, <2>4
<1>2. \A s \in SUBSET S : tot[s] = body(tot, s)
  <2> SUFFICES ASSUME NEW s \in SUBSET S PROVE tot[s] = body(tot, s)
    OBVIOUS
  <2>1. CASE s = {}
    BY <2>1, TotalEmpty
  <2>2. CASE s # {}
    BY <2>2, <1>1
  <2> QED
    BY <2>1, <2>2
<1>3. tot = [s \in SUBSET S |-> IF s = {} THEN 0 ELSE f[Pick(s)] + tot[s \ {Pick(s)}]]
  BY <1>2
<1>4. iter = [s \in SUBSET S |-> IF s = {} THEN 0 ELSE f[Pick(s)] + iter[s \ {Pick(s)}]]
  <2> HIDE DEF tot
  <2> QED BY <1>3, Zenon DEF IterOf
<1>5. \A s \in SUBSET S : iter[s] = body(iter, s)
  <2> HIDE DEF iter
  <2> QED BY <1>4
<1> HIDE DEF iter
<1> DEFINE bad == {s \in SUBSET S : iter[s] # Total(f, s)}
<1>6. ASSUME bad # {} PROVE FALSE
  <2> DEFINE sizes == {Cardinality(s) : s \in bad}
  <2>1. sizes \in SUBSET Nat /\ sizes # {}
    BY <1>6, FS_Subset, FS_CardinalityType
  <2>2. PICK m \in sizes : \A n \in sizes : m <= n
    <3> HIDE DEF sizes
    <3> QED BY <2>1, NatMinimum
  <2>3. PICK s \in bad : Cardinality(s) = m
    BY <2>2
  <2>4. s # {}
    BY <2>3, <1>5, TotalEmpty
  <2>5. IsFiniteSet(s) /\ Pick(s) \in s /\ Total(f, s) = f[Pick(s)] + Total(f, s \ {Pick(s)})
    BY <1>1, <2>3, <2>4
  <2>6. Cardinality(s \ {Pick(s)}) = Cardinality(s) - 1 /\ Cardinality(s) \in Nat
    BY <2>5, FS_RemoveElement, FS_CardinalityType
  <2>7. s \ {Pick(s)} \notin bad
    BY <2>2, <2>3, <2>6
  <2>8. iter[s \ {Pick(s)}] = Total(f, s \ {Pick(s)})
    BY <2>3, <2>7
  <2>9. iter[s] = Total(f, s)
    BY <1>5, <2>3, <2>4, <2>5, <2>8
  <2> QED
    BY <2>3, <2>9
<1>7. iter[S] = Total(f, S)
  BY <1>6
<1> QED
  BY <1>7 DEF Sum, iter

\* Taking the same elements from a set and from a part of it keeps a bound on
\* how much more the set weighs.
LEMMA RoomStays ==
  ASSUME NEW X, IsFiniteSet(X), NEW Y \in SUBSET X, NEW f, \A i \in X : f[i] \in Nat,
         NEW D, NEW q \in Nat, Total(f, X) <= q + Total(f, Y)
  PROVE  Total(f, X \ D) <= q + Total(f, Y \ D)
<1>1. IsFiniteSet(Y) /\ IsFiniteSet(X \cap D)
  BY FS_Subset, FS_Intersection
<1>2. X \cap D \in SUBSET X /\ Y \cap D \in SUBSET Y /\ Y \cap D \in SUBSET (X \cap D)
      /\ X \ (X \cap D) = X \ D /\ Y \ (Y \cap D) = Y \ D
  OBVIOUS
<1>3. /\ Total(f, X) = Total(f, X \cap D) + Total(f, X \ D)
      /\ Total(f, X) \in Nat /\ Total(f, X \cap D) \in Nat /\ Total(f, X \ D) \in Nat
  BY <1>2, TotalSplit
<1>4. /\ Total(f, Y) = Total(f, Y \cap D) + Total(f, Y \ D)
      /\ Total(f, Y) \in Nat /\ Total(f, Y \cap D) \in Nat /\ Total(f, Y \ D) \in Nat
  <2> DEFINE T == Y \cap D
  <2>1. (\A i \in Y : f[i] \in Nat) /\ T \in SUBSET Y /\ Y \ T = Y \ D
    OBVIOUS
  <2> HIDE DEF T
  <2>2. /\ Total(f, Y) = Total(f, T) + Total(f, Y \ T)
        /\ Total(f, Y) \in Nat /\ Total(f, T) \in Nat /\ Total(f, Y \ T) \in Nat
    BY <1>1, <2>1, TotalSplit
  <2> QED BY <2>1, <2>2 DEF T
<1>5. Total(f, Y \cap D) <= Total(f, X \cap D)
  <2>1. \A i \in X \cap D : f[i] \in Nat
    OBVIOUS
  <2> QED BY <1>1, <1>2, <2>1, TotalSplit
<1> QED
  BY <1>3, <1>4, <1>5

\* A larger set weighs no less.
LEMMA TotalGrows ==
  ASSUME NEW X, IsFiniteSet(X), NEW Y \in SUBSET X, NEW f, \A i \in X : f[i] \in Nat
  PROVE  Total(f, Y) <= Total(f, X) /\ Total(f, X) \in Nat /\ Total(f, Y) \in Nat
BY TotalSplit

\* What is left when the oldest go until the rest fits weighs no more than q.
LEMMA RestFits ==
  ASSUME NEW A \in SUBSET Nat, IsFiniteSet(A), NEW f, \A i \in A : f[i] \in Nat, NEW q \in Nat,
         NEW V \in SUBSET A,
         \A i \in A \ V : Total(f, {k \in A : k < i}) >= Total(f, A) - q
  PROVE  Total(f, A \ V) <= q
<1>1. CASE A \ V = {}
  <2>1. Total(f, {}) = 0
    BY TotalEmpty
  <2>2. Total(f, A \ V) = 0
    BY <1>1, <2>1, Zenon
  <2> QED BY <2>2
<1>2. CASE A \ V # {}
  <2> DEFINE R == A \ V
  <2>0. R \in SUBSET Nat /\ R # {}
    BY <1>2
  <2>a. \A i : i \in R <=> i \in A /\ i \notin V
    OBVIOUS
  <2> HIDE DEF R
  <2>1. PICK m \in R : \A n \in R : m <= n
    BY <2>0, NatMinimum
  <2> DEFINE B == {k \in A : k < m}
  <2>2. ASSUME NEW k \in B PROVE k \in V
    <3>1. k \in Nat /\ m \in Nat /\ k < m /\ k \in A
      BY <2>a
    <3>2. k \notin R
      BY <2>1, <3>1
    <3> QED BY <2>a, <3>1, <3>2
  <2>3. Total(f, B) >= Total(f, A) - q /\ B \in SUBSET A /\ B \in SUBSET V
    BY <2>a, <2>2
  <2> HIDE DEF B
  <2>4. Total(f, A) = Total(f, V) + Total(f, A \ V) /\ Total(f, A) \in Nat
        /\ Total(f, V) \in Nat /\ Total(f, A \ V) \in Nat
    BY TotalSplit
  <2>5. Total(f, B) <= Total(f, V) /\ Total(f, B) \in Nat
    <3>1. IsFiniteSet(V) /\ \A i \in V : f[i] \in Nat
      BY FS_Subset
    <3> QED BY <2>3, <3>1, TotalGrows
  <2>6. \A w, x, y, z \in Nat : x >= w - q /\ w = y + z /\ x <= y => z <= q
    OBVIOUS
  <2> QED
    BY <2>3, <2>4, <2>5, <2>6
<1> QED
  BY <1>1, <1>2

(***************************************************************************)
(* GuildQuotaHeld.  What a presign has listed is out of date when it       *)
(* evicts it.  The invariant looks ahead: whichever of the presigns that   *)
(* have listed evict now, the bytes that are left exceed the quota by no   *)
(* more than the rows of the other pending presigns weigh.  A listing      *)
(* makes the bytes fit once it is carried out; an insert weighs as much on *)
(* either side; a deletion takes as much from both, because the pending    *)
(* rows are among the guild's; and a presign that evicts was looked ahead  *)
(* to.                                                                     *)
(***************************************************************************)

\* The rows that an insert leaves.
LEMMA Inserted ==
  ASSUME Inv, NEW s \in Workers, InsertAttachment(s), chan[job[s].chan] # None
  PROVE  /\ Len(att') = Len(att) + 1 /\ \A i \in 1 .. Len(att) : att'[i] = att[i]
         /\ att'[Len(att')].chan = job[s].chan /\ att'[Len(att')].size = job[s].size
         /\ att'[Len(att')].state = "live"
         /\ job'[s] = [job[s] EXCEPT !.pc = IF Quota = None THEN "sign" ELSE "list", !.att = Len(att')]
         /\ \A t \in Workers : t # s => job'[t] = job[t]
         /\ job[s].chan \in Chans /\ job[s].size \in Sizes /\ job[s].pc = "insert"
<1>a. job[s] \in Job /\ JobOK(job[s], chan, used, att, url) /\ job \in [Workers -> Job]
      /\ job[s].pc = "insert" /\ job[s].chan \in Chans /\ job[s].size \in Sizes
  BY DEF Inv, JobsOK, InsertAttachment, At, JobOK
<1> DEFINE r == [chan |-> job[s].chan, size |-> job[s].size, state |-> "live"]
<1>1. r \in Attachment /\ r.chan = job[s].chan /\ r.size = job[s].size /\ r.state = "live"
  BY <1>a DEF Attachment
<1>2. att' = Append(att, r)
      /\ job' = [job EXCEPT ![s].pc = IF Quota = None THEN "sign" ELSE "list",
                            ![s].att = Len(att) + 1]
  BY DEF InsertAttachment
<1> HIDE DEF r
<1>3. att \in Seq(Attachment) /\ Len(att) \in Nat /\ Len(att) + 1 \in 1 .. Len(att) + 1
  BY AttRows DEF Inv, Tables
<1>4. Len(att') = Len(att) + 1 /\ att'[Len(att) + 1] = r /\ \A i \in 1 .. Len(att) : att'[i] = att[i]
  BY <1>1, <1>2, <1>3, AppendProperties
<1> DEFINE m == Len(att) + 1
           pc == IF Quota = None THEN "sign" ELSE "list"
<1>5. job' = [job EXCEPT ![s].pc = pc, ![s].att = m] /\ Len(att') = m
  BY <1>2, <1>4
<1> HIDE DEF m, pc
<1>6. job'[s] = [job[s] EXCEPT !.pc = pc, !.att = Len(att')]
      /\ \A t \in Workers : t # s => job'[t] = job[t]
  BY <1>a, <1>5
<1> QED BY <1>a, <1>1, <1>4, <1>6 DEF pc

\* No statement brings an attachment or a channel back, or changes the size
\* of an attachment or the guild of a channel.
LEMMA NextTables ==
  ASSUME Inv, [Next]_vars
  PROVE  /\ AttStep /\ ChanStep
         /\ (\A s \in Workers : ~(InsertAttachment(s) /\ chan[job[s].chan] # None)) =>
              Len(att') = Len(att)
<1>a. UNCHANGED att => AttStep /\ Len(att') = Len(att)
  BY SameAtts DEF Inv
<1>1. ASSUME NEW s \in Workers,
             \/ \E c \in Chans, n \in Sizes : Presign(s, c, n)
             \/ EnforceGuildAttachmentQuota(s) \/ DeleteObject(s) \/ PresignPut(s)
             \/ \E i \in DOMAIN att : ListExpiredAttachments(s, i)
             \/ \E c \in Chans, p \in Chans \cup {None}, n \in 0 .. MaxPos : MoveChannel(s, c, p, n)
             \/ \E c \in Chans : DeleteChannel(s, c)
             \/ Shifting(s) \/ DeleteChannelTree(s) \/ StorageKeys(s) \/ Abandon(s)
      PROVE  UNCHANGED <<chan, used, att>>
  BY <1>1, ShiftingJob DEF Presign, EnforceGuildAttachmentQuota, DeleteObject, PresignPut,
    ListExpiredAttachments, MoveChannel, DeleteChannel, DeleteChannelTree, StorageKeys, Abandon, rows
<1>2. ASSUME NEW s \in Workers,
             \/ SoftDeleteAttachmentsByID(s) \/ UndoPresign(s)
             \/ \E i \in DOMAIN att : DeleteAttachment(s, i)
      PROVE  UNCHANGED <<chan, used>> /\ AttStep /\ Len(att') = Len(att)
  <2>1. PICK S : SoftDelete(S)
    BY <1>2 DEF SoftDeleteAttachmentsByID, UndoPresign, DeleteAttachment
  <2>2. UNCHANGED <<chan, used>>
    BY <1>2 DEF SoftDeleteAttachmentsByID, UndoPresign, DeleteAttachment
  <2>3. AttStep /\ Len(att') = Len(att)
    BY <2>1, SoftDeleted DEF Inv
  <2> QED BY <2>2, <2>3
<1>3. ASSUME NEW s \in Workers, PlaceChannel(s)
      PROVE  UNCHANGED att /\ ChanStep
  BY <1>3, PlaceChannelInv DEF PlaceChannel
<1>4. ASSUME NEW s \in Workers, DeleteRows(s)
      PROVE  AttStep /\ ChanStep /\ Len(att') = Len(att)
  BY <1>4, DeleteRowsInv
<1>5. ASSUME NEW s \in Workers, InsertAttachment(s)
      PROVE  /\ AttStep /\ UNCHANGED <<chan, used>>
             /\ chan[job[s].chan] = None => Len(att') = Len(att)
  <2>1. UNCHANGED <<chan, used>>
    BY <1>5 DEF InsertAttachment
  <2>2. CASE chan[job[s].chan] = None
    <3>1. UNCHANGED att
      BY <1>5, <2>2 DEF InsertAttachment
    <3> QED BY <1>a, <2>1, <3>1
  <2>3. CASE chan[job[s].chan] # None
    <3>1. Len(att') = Len(att) + 1 /\ \A i \in 1 .. Len(att) : att'[i] = att[i]
      BY <1>5, <2>3, Inserted
    <3>2. att' \in Seq(Attachment) /\ Len(att) \in Nat
      BY <1>5, InsertInv, AttRows DEF Inv, Tables
    <3>3. AttStep
      BY <3>1, <3>2 DEF AttStep
    <3> QED BY <2>1, <2>3, <3>3
  <2> QED BY <2>2, <2>3
<1>6. ASSUME NEW c \in Chans, NEW g \in Guilds, NEW b \in BOOLEAN, NEW p \in Chans \cup {None},
             NEW n \in 0 .. MaxPos, CreateChannel(c, g, b, p, n)
      PROVE  UNCHANGED att /\ ChanStep
  BY <1>6, CreateChannelInv DEF CreateChannel
<1>7. ASSUME (\E i \in DOMAIN att : Upload(i)) \/ UNCHANGED vars
      PROVE  UNCHANGED <<chan, used, att>>
  BY <1>7 DEF Upload, vars, rows
<1>8. UNCHANGED <<chan, used>> => ChanStep
  BY SameChans
<1>9. ASSUME NEW s \in Workers, StepOf(s)
      PROVE  /\ AttStep /\ ChanStep
             /\ Len(att') = Len(att) \/ (InsertAttachment(s) /\ chan[job[s].chan] # None)
  BY <1>9, <1>a, <1>1, <1>2, <1>3, <1>4, <1>5, <1>8 DEF StepOf
<1>10. ASSUME NEW g \in Guilds, DeleteServer(g)
       PROVE  AttStep /\ ChanStep /\ Len(att') = Len(att)
  BY <1>10, DeleteServerInv
<1> QED BY <1>a, <1>6, <1>7, <1>8, <1>9, <1>10, Steps DEF Outside

\* What the quota's argument reads of a job stays.
Same(t) ==
  /\ job'[t].pc = job[t].pc /\ job'[t].chan = job[t].chan /\ job'[t].guild = job[t].guild
  /\ job'[t].att = job[t].att /\ job'[t].atts = job[t].atts

\* Another's step changes nothing of it.
LEMMA BystanderSame ==
  ASSUME Inv, NEW t \in Workers, Bystander(t)
  PROVE  Same(t)
<1>1. job[t] \in Job
  BY DEF Inv, JobsOK
<1> QED BY <1>1 DEF Bystander, Met, Job, Same

(***************************************************************************)
(* A job's channel is one that was given out; as long as it is there it is *)
(* in the job's guild.  The row of a presign is in the job's channel.      *)
(***************************************************************************)
OwnJob(s) ==
  /\ job[s].chan # None =>
       /\ job[s].chan \in used
       /\ chan[job[s].chan] # None => chan[job[s].chan].guild = job[s].guild
  /\ job[s].att # 0 => job[s].chan # None /\ att[job[s].att].chan = job[s].chan

JobsOwn == \A s \in Workers : OwnJob(s)

\* What a request's own statement makes of its job.
LEMMA ActorMoves ==
  ASSUME Inv, NEW s \in Workers, StepOf(s), ~(InsertAttachment(s) /\ chan[job[s].chan] # None)
  PROVE  \/ /\ job'[s].chan = job[s].chan /\ job'[s].guild = job[s].guild
            /\ job'[s].att = job[s].att
         \/ job'[s].chan = None /\ job'[s].att = 0
         \/ /\ job'[s].chan \in Chans /\ job'[s].att = 0 /\ chan[job'[s].chan] # None
            /\ job'[s].guild = chan[job'[s].chan].guild
<1> DEFINE Kept == /\ job'[s].chan = job[s].chan /\ job'[s].guild = job[s].guild
                   /\ job'[s].att = job[s].att
           Ended == job'[s].chan = None /\ job'[s].att = 0
           Begun == /\ job'[s].chan \in Chans /\ job'[s].att = 0 /\ chan[job'[s].chan] # None
                    /\ job'[s].guild = chan[job'[s].chan].guild
<1>a. job \in [Workers -> Job] /\ job[s] \in Job
  BY DEF Inv, JobsOK
<1>b. ASSUME Done(s) PROVE Ended
  BY <1>a, <1>b DEF Done, Idle
<1>c. ASSUME NEW pc, Goto(s, pc) PROVE Kept
  BY <1>a, <1>c DEF Goto, Job
<1>1. ASSUME NEW c \in Chans, NEW n \in Sizes, Presign(s, c, n)
      PROVE  Begun
  BY <1>a, <1>1 DEF Presign, Start, Idle
<1>2. ASSUME NEW c \in Chans, NEW p \in Chans \cup {None}, NEW n \in 0 .. MaxPos,
             MoveChannel(s, c, p, n)
      PROVE  Begun
  BY <1>a, <1>2 DEF MoveChannel, Start, Idle
<1>3. ASSUME NEW c \in Chans, DeleteChannel(s, c)
      PROVE  Begun
  BY <1>a, <1>3 DEF DeleteChannel, Start, Idle
<1>4. ASSUME NEW i \in DOMAIN att, DeleteAttachment(s, i) \/ ListExpiredAttachments(s, i)
      PROVE  Ended
  <2>1. CASE DeleteAttachment(s, i)
    BY <1>a, <2>1 DEF DeleteAttachment, Start, Idle
  <2>2. CASE ListExpiredAttachments(s, i)
    BY <1>a, <2>2 DEF ListExpiredAttachments, Start, Idle
  <2> QED BY <1>4, <2>1, <2>2
<1>5. ASSUME InsertAttachment(s) \/ UndoPresign(s) PROVE Ended
  <2>1. Done(s)
    BY <1>5 DEF InsertAttachment, UndoPresign
  <2> QED BY <1>b, <2>1
<1>6. ASSUME EnforceGuildAttachmentQuota(s) PROVE Kept
  BY <1>a, <1>6 DEF EnforceGuildAttachmentQuota, Goto, Job
<1>7. ASSUME SoftDeleteAttachmentsByID(s) PROVE Kept
  BY <1>a, <1>7 DEF SoftDeleteAttachmentsByID, Job
<1>8. ASSUME DeleteObject(s) PROVE Kept \/ Ended
  BY <1>a, <1>b, <1>8 DEF DeleteObject, Goto, Job
<1>9. ASSUME PresignPut(s) \/ Abandon(s) PROVE Kept \/ Ended
  BY <1>b, <1>c, <1>9 DEF PresignPut, Abandon
<1>10. ASSUME PlaceChannel(s) PROVE Ended
  <2>1. Done(s) \/ job'[s] = Idle
    BY <1>10 DEF PlaceChannel
  <2>2. Idle.chan = None /\ Idle.att = 0
    BY DEF Idle
  <2> QED BY <1>b, <2>1, <2>2
<1>11. ASSUME DeleteChannelTree(s) \/ StorageKeys(s) PROVE Kept \/ Ended
  BY <1>a, <1>b, <1>11 DEF DeleteChannelTree, StorageKeys, Job
<1>12. ASSUME DeleteRows(s) PROVE Ended
  BY <1>a, <1>12 DEF DeleteRows, Idle
<1>14. ASSUME Shifting(s) PROVE Kept
  BY <1>a, <1>14, ShiftingJob
<1> HIDE DEF Kept, Ended, Begun
<1>13. Kept \/ Ended \/ Begun
  BY <1>1, <1>2, <1>3, <1>4, <1>5, <1>6, <1>7, <1>8, <1>9, <1>10, <1>11, <1>12, <1>14 DEF StepOf
<1> QED BY <1>13 DEF Kept, Ended, Begun

\* Every step keeps it.
LEMMA NextOwn ==
  ASSUME Inv, JobsOwn, [Next]_vars
  PROVE  JobsOwn'
<1>a. AttStep /\ ChanStep /\ Len(att) \in Nat
  BY NextTables, AttRows DEF Inv
<1>b. \A s \in Workers : /\ job[s].att # 0 => job[s].att \in 1 .. Len(att)
                         /\ job[s].chan \in Chans \cup {None}
  BY DEF Inv, JobsOK, JobOK, Job
<1>c. ASSUME NEW s \in Workers, job'[s].chan = job[s].chan, job'[s].guild = job[s].guild,
             job'[s].att = job[s].att
      PROVE  OwnJob(s)'
  BY <1>a, <1>b, <1>c DEF JobsOwn, OwnJob, AttStep, ChanStep
<1>1. ASSUME NEW s \in Workers, StepOf(s)
      PROVE  OwnJob(s)'
  <2>1. CASE InsertAttachment(s) /\ chan[job[s].chan] # None
    <3>1. /\ att'[Len(att')].chan = job[s].chan
          /\ job'[s] = [job[s] EXCEPT !.pc = IF Quota = None THEN "sign" ELSE "list",
                                      !.att = Len(att')]
          /\ job[s].chan \in Chans
      BY <2>1, Inserted
    <3>2. job'[s].chan = job[s].chan /\ job'[s].guild = job[s].guild /\ job'[s].att = Len(att')
      BY <3>1 DEF Inv, JobsOK, Job
    <3> QED BY <1>a, <3>1, <3>2, ChannelsAssumption DEF JobsOwn, OwnJob, ChanStep
  <2>2. CASE job'[s].chan = None /\ job'[s].att = 0
    BY <2>2 DEF OwnJob
  <2>3. CASE /\ job'[s].chan \in Chans /\ job'[s].att = 0 /\ chan[job'[s].chan] # None
             /\ job'[s].guild = chan[job'[s].chan].guild
    <3>1. job'[s].chan \in used
      BY <2>3 DEF Inv, Tables
    <3> QED BY <1>a, <2>3, <3>1 DEF OwnJob, ChanStep
  <2> QED BY <1>1, <1>c, <2>1, <2>2, <2>3, ActorMoves
<1>2. ASSUME NEW s \in Workers, StepOf(s), NEW t \in Workers, t # s
      PROVE  OwnJob(t)'
  BY <1>2, <1>c, OtherJobs, BystanderSame DEF Same
<1>3. ASSUME NEW t \in Workers, Bystander(t)
      PROVE  OwnJob(t)'
  BY <1>3, <1>c, BystanderSame DEF Same
<1> QED BY <1>1, <1>2, <1>3, Steps DEF JobsOwn

Size == [i \in 1 .. Len(att) |-> att[i].size]

\* Presigns of the guild that have listed what they will evict, what a set of
\* them has listed, and the rows of the pending presigns outside the set.
Evicting(g) == {s \in Workers : job[s].pc = "evict" /\ job[s].att # 0 /\ job[s].guild = g}
Listed(E) == UNION {job[s].atts : s \in E}
Waiting(g, E) == {job[s].att : s \in Pending(g) \ E}

\* Once the presigns in E have evicted, the quota is exceeded by no more than
\* what the others have still to evict.
Fits(g, E) ==
  Total(Size, ActiveIn(g) \ Listed(E)) <= Quota + Total(Size, Waiting(g, E) \ Listed(E))

QuotaInv ==
  \A g \in Guilds \ over : Quota # None => \A E \in SUBSET Evicting(g) : Fits(g, E)

\* Bytes is the iterated sum of the sizes.
LEMMA BytesSum ==
  ASSUME NEW S
  PROVE  Bytes(S) = Sum([i \in S |-> att[i].size], S)
BY Zenon DEF Bytes, MapThenSumSet, MapThenFoldSet, Sum, IterOf, Pick

\* The sizes of attachments are numbers, and the sums over them are totals.
LEMMA Weighed ==
  ASSUME Tables
  PROVE  /\ \A i \in 1 .. Len(att) : Size[i] = att[i].size /\ Size[i] \in Nat
         /\ \A S \in SUBSET (1 .. Len(att)) :
              IsFiniteSet(S) /\ Total(Size, S) \in Nat /\ Bytes(S) = Total(Size, S)
<1>1. Len(att) \in Nat /\ att \in [1 .. Len(att) -> Attachment]
  BY AttRows
<1>2. \A i \in 1 .. Len(att) : Size[i] = att[i].size /\ Size[i] \in Nat
  BY <1>1, ChannelsAssumption DEF Size, Attachment
<1>3. ASSUME NEW S \in SUBSET (1 .. Len(att))
      PROVE  IsFiniteSet(S) /\ Total(Size, S) \in Nat /\ Bytes(S) = Total(Size, S)
  <2> DEFINE h == [i \in S |-> att[i].size]
  <2>1. IsFiniteSet(S)
    <3>1. IsFiniteSet(1 .. Len(att))
      BY <1>1, IntervalCount
    <3> QED BY <3>1, FS_Subset
  <2>2. \A i \in S : h[i] = Size[i] /\ h[i] \in Nat /\ Size[i] \in Nat
    BY <1>2
  <2>3. Bytes(S) = Sum(h, S)
    BY BytesSum
  <2> HIDE DEF h
  <2>4. Sum(h, S) = Total(h, S) /\ Total(h, S) = Total(Size, S)
    BY <2>1, <2>2, SumIsTotal, TotalSame
  <2>5. Total(Size, S) \in Nat
    BY <2>1, <2>2, UnitsFinite
  <2> QED BY <2>1, <2>3, <2>4, <2>5
<1> QED BY <1>2, <1>3

\* The rows the argument weighs: live attachments of the guild, in channels
\* that are there, and among them the rows of its pending presigns.
GuildRows ==
  /\ \A g : ActiveIn(g) = {i \in 1 .. Len(att) : att[i].state = "live"
                                                  /\ chan[att[i].chan].guild = g}
  /\ \A g, E : Waiting(g, E) \subseteq ActiveIn(g)
  /\ \A i \in 1 .. Len(att) : att[i].chan \in Chans /\ (att[i].state = "live" =>
       chan[att[i].chan] # None /\ att[i].chan \in used)

\* The tables and the jobs' rows of a reachable state are such.
LEMMA GuildRowsHold == Inv /\ JobsOwn => GuildRows
<1> SUFFICES ASSUME Inv, JobsOwn PROVE GuildRows
  OBVIOUS
<1>1. Active = {i \in 1 .. Len(att) : att[i].state = "live"}
      /\ \A i : Live(i) <=> i \in 1 .. Len(att) /\ att[i].state = "live"
  BY AttRows DEF Inv
<1>2. \A i \in 1 .. Len(att) : att[i].chan \in Chans /\ (att[i].state = "live" =>
        chan[att[i].chan] # None /\ att[i].chan \in used)
  BY AttRows DEF Inv, Tables, Attachment
<1>3. \A g : ActiveIn(g) = {i \in 1 .. Len(att) : att[i].state = "live"
                                                   /\ chan[att[i].chan].guild = g}
  BY <1>1 DEF ActiveIn
<1>4. ASSUME NEW g, NEW s \in Pending(g) PROVE job[s].att \in ActiveIn(g)
  BY <1>1, <1>2, <1>3 DEF Pending, JobsOwn, OwnJob
<1> QED BY <1>2, <1>3, <1>4 DEF GuildRows, Waiting

\* A step that adds no attachment.  E2 is E and the presigns that evict in
\* the step; the pending ones outside it stay pending or lose their rows.
LEMMA FitsStays ==
  ASSUME Inv, Inv', JobsOwn, JobsOwn', AttStep, ChanStep, Len(att') = Len(att),
         NEW g, Quota # None, NEW E, NEW E2, Fits(g, E2),
         \A i \in Listed(E2) : i \in 1 .. Len(att) /\ att'[i].state = "live" => i \in Listed(E)',
         \A i \in Listed(E)' : i \in Listed(E2),
         \A s \in Pending(g) \ E2 : att'[job[s].att].state = "live" =>
           s \in (Pending(g) \ E)' /\ job'[s].att = job[s].att
  PROVE  Fits(g, E)'
<1> DEFINE n == Len(att)
           X == ActiveIn(g) \ Listed(E2)
           Y == Waiting(g, E2) \ Listed(E2)
           D == {i \in 1 .. n : att'[i].state # "live"}
           U == Listed(E)'
           A == ActiveIn(g)'
           W == Waiting(g, E)'
           z == Size'
<1>1. /\ n \in Nat /\ Quota \in Nat
      /\ ActiveIn(g) = {i \in 1 .. n : att[i].state = "live" /\ chan[att[i].chan].guild = g}
      /\ Waiting(g, E2) \subseteq ActiveIn(g)
      /\ \A i \in 1 .. n : att[i].state = "live" => chan[att[i].chan] # None /\ att[i].chan \in used
  BY AttRows, GuildRowsHold, ChannelsAssumption DEF Inv, GuildRows
<1>2. /\ \A i \in 1 .. n : Size[i] \in Nat /\ z[i] = Size[i]
      /\ \A S \in SUBSET (1 .. n) : IsFiniteSet(S) /\ Total(Size, S) \in Nat
  <2>1. \A i \in 1 .. n : Size[i] = att[i].size /\ Size[i] \in Nat
    BY Weighed DEF Inv
  <2>2. \A S \in SUBSET (1 .. n) : IsFiniteSet(S) /\ Total(Size, S) \in Nat
    BY Weighed DEF Inv
  <2>3. \A i \in 1 .. n : z[i] = att'[i].size
    BY DEF Size
  <2> QED BY <1>1, <2>1, <2>2, <2>3 DEF AttStep
<1>3. A = {i \in 1 .. n : att'[i].state = "live" /\ chan'[att'[i].chan].guild = g} /\ W \subseteq A
      /\ \A i \in 1 .. n : att'[i].state = "live" => chan'[att'[i].chan] # None
  <2>1. GuildRows'
    BY GuildRowsHold, PTL
  <2>2. A = {i \in 1 .. Len(att') : att'[i].state = "live" /\ chan'[att'[i].chan].guild = g}
    BY <2>1 DEF GuildRows
  <2>3. W \subseteq A
    BY <2>1 DEF GuildRows
  <2> QED BY <2>2, <2>3 DEF Inv, Tables
<1> HIDE DEF n, A, W, U, z, D
<1>4. A \subseteq ActiveIn(g) \ D
  BY <1>1, <1>3 DEF AttStep, ChanStep, n, D
<1>5. A \ U \subseteq X \ D
  BY <1>3, <1>4 DEF n, U, D
<1>6. Y \ D \subseteq W \ U
  <2> SUFFICES ASSUME NEW i \in Y, i \notin D PROVE i \in W \ U
    OBVIOUS
  <2>1. PICK s \in Pending(g) \ E2 : i = job[s].att
    BY DEF Waiting
  <2>2. i \in 1 .. n
    BY <1>1
  <2>3. att'[i].state = "live"
    BY <2>2 DEF D
  <2>4. s \in (Pending(g) \ E)' /\ job'[s].att = i
    BY <2>1, <2>3
  <2>5. i \in W
    BY <2>4 DEF W, Waiting
  <2> QED BY <2>5 DEF U
<1>7. Total(Size, X) <= Quota + Total(Size, Y)
  BY DEF Fits
<1>8. X \in SUBSET (1 .. n) /\ Y \in SUBSET X /\ X \ D \in SUBSET (1 .. n) /\ W \ U \in SUBSET (1 .. n)
      /\ A \ U \in SUBSET (X \ D) /\ Y \ D \in SUBSET (W \ U) /\ A \ U \in SUBSET (1 .. n)
  BY <1>1, <1>3, <1>5, <1>6
<1> HIDE DEF X, Y
<1>9. Total(Size, X \ D) <= Quota + Total(Size, Y \ D)
  <2>1. IsFiniteSet(X) /\ \A i \in X : Size[i] \in Nat
    BY <1>2, <1>8
  <2> QED BY <1>1, <1>7, <1>8, <2>1, RoomStays
<1>10. /\ Total(Size, A \ U) <= Total(Size, X \ D) /\ Total(Size, Y \ D) <= Total(Size, W \ U)
       /\ Total(Size, A \ U) \in Nat /\ Total(Size, X \ D) \in Nat
       /\ Total(Size, Y \ D) \in Nat /\ Total(Size, W \ U) \in Nat
  <2>1. /\ IsFiniteSet(X \ D) /\ \A i \in X \ D : Size[i] \in Nat
        /\ IsFiniteSet(W \ U) /\ \A i \in W \ U : Size[i] \in Nat
    BY <1>2, <1>8
  <2>2. Total(Size, A \ U) <= Total(Size, X \ D) /\ Total(Size, A \ U) \in Nat
        /\ Total(Size, X \ D) \in Nat
    BY <1>8, <2>1, TotalGrows
  <2>3. Total(Size, Y \ D) <= Total(Size, W \ U) /\ Total(Size, Y \ D) \in Nat
        /\ Total(Size, W \ U) \in Nat
    BY <1>8, <2>1, TotalGrows
  <2> QED BY <2>2, <2>3
<1>11. Total(Size, A \ U) <= Quota + Total(Size, W \ U)
  BY <1>1, <1>9, <1>10
<1>12. Total(z, A \ U) = Total(Size, A \ U) /\ Total(z, W \ U) = Total(Size, W \ U)
  <2>1. (\A i \in A \ U : z[i] = Size[i]) /\ \A i \in W \ U : z[i] = Size[i]
    BY <1>2, <1>8
  <2> QED BY <2>1, TotalSame
<1>13. Total(z, A \ U) <= Quota + Total(z, W \ U)
  BY <1>11, <1>12
<1> QED BY <1>13 DEF Fits, z, A, U, W

\* A pending presign that acts evicts, stays pending, loses its row, or is
\* noted in over.
LEMMA ActorQuota ==
  ASSUME Inv, NEW s \in Workers, StepOf(s), ~EnforceGuildAttachmentQuota(s),
         ~(InsertAttachment(s) /\ chan[job[s].chan] # None)
  PROVE  /\ over \subseteq over'
         /\ job'[s].pc = "evict" => job'[s].att = 0
         /\ \A g : s \in Pending(g) =>
              \/ job[s].pc = "evict" /\ \A i \in job[s].atts : att'[i].state # "live"
              \/ job'[s].pc = "undo" /\ job'[s].att = job[s].att /\ job'[s].guild = job[s].guild
              \/ att'[job[s].att].state # "live"
              \/ g \in over'
<1> DEFINE Pends == job[s].pc \in {"list", "evict", "undo"}
           Goal == /\ over \subseteq over'
                   /\ job'[s].pc = "evict" => job'[s].att = 0
                   /\ \A g : s \in Pending(g) =>
                        \/ job[s].pc = "evict" /\ \A i \in job[s].atts : att'[i].state # "live"
                        \/ job'[s].pc = "undo" /\ job'[s].att = job[s].att
                           /\ job'[s].guild = job[s].guild
                        \/ att'[job[s].att].state # "live"
                        \/ g \in over'
<1>a. job \in [Workers -> Job] /\ job[s] \in Job /\ job[s].atts \subseteq 1 .. Len(att)
      /\ (job[s].att # 0 => job[s].att \in 1 .. Len(att))
  BY DEF Inv, JobsOK, JobOK
<1>b. \A g : s \in Pending(g) => Pends /\ job[s].att # 0 /\ job[s].guild = g
  BY DEF Pending
<1>c. Idle.pc = "idle"
  BY IdleOK
<1> HIDE DEF Pends
<1>1. ASSUME InsertAttachment(s) PROVE over' = over /\ ~Pends /\ job'[s].pc # "evict"
  <2>1. over' = over /\ job[s].pc = "insert" /\ Done(s)
    BY <1>1 DEF InsertAttachment, At, history
  <2> QED BY <1>a, <1>c, <2>1 DEF Pends, Done
<1>2. ASSUME NEW c \in Chans,
             \/ \E n \in Sizes : Presign(s, c, n)
             \/ \E p \in Chans \cup {None}, n \in 0 .. MaxPos : MoveChannel(s, c, p, n)
             \/ DeleteChannel(s, c)
      PROVE  over' = over /\ ~Pends /\ job'[s].pc # "evict"
  <2>1. over' = over /\ job[s] = Idle
    BY <1>2 DEF Presign, MoveChannel, DeleteChannel, Start, history
  <2>2. CASE \E n \in Sizes : Presign(s, c, n)
    BY <1>a, <1>c, <2>1, <2>2 DEF Presign, Start, Idle, Pends
  <2>3. CASE \E p \in Chans \cup {None}, n \in 0 .. MaxPos : MoveChannel(s, c, p, n)
    BY <1>a, <1>c, <2>1, <2>3 DEF MoveChannel, Start, Idle, Pends
  <2>4. CASE DeleteChannel(s, c)
    BY <1>a, <1>c, <2>1, <2>4 DEF DeleteChannel, Start, Idle, Pends
  <2> QED BY <1>2, <2>2, <2>3, <2>4
<1>3. ASSUME NEW i \in DOMAIN att, DeleteAttachment(s, i)
      PROVE  over' = over /\ ~Pends /\ job'[s].pc # "evict"
  <2>1. over' = over /\ job[s] = Idle
    BY <1>3 DEF DeleteAttachment, Start, history
  <2>2. job'[s].pc # "evict"
    BY <1>a, <1>3 DEF DeleteAttachment, Start, Idle
  <2> QED BY <1>c, <2>1, <2>2 DEF Pends
<1>4. ASSUME NEW i \in DOMAIN att, ListExpiredAttachments(s, i)
      PROVE  over' = over /\ ~Pends /\ job'[s].att = 0
  <2>1. over' = over /\ job[s] = Idle
    BY <1>4 DEF ListExpiredAttachments, Start, history
  <2>2. job'[s].att = 0
    BY <1>a, <1>4 DEF ListExpiredAttachments, Start, Idle
  <2> QED BY <1>c, <2>1, <2>2 DEF Pends
<1>5. ASSUME DeleteObject(s) PROVE over' = over /\ ~Pends /\ job'[s].pc # "evict"
  <2>1. over' = over /\ job[s].pc = "unlink"
    BY <1>5 DEF DeleteObject, At
  <2>2. job'[s].pc # "evict"
    <3>1. ASSUME Goto(s, "sign") \/ Done(s)
          PROVE  job'[s].pc # "evict"
      BY <1>a, <1>c, <3>1 DEF Goto, Done, Job
    <3>2. ASSUME NEW i, job' = [job EXCEPT ![s].atts = @ \ {i}]
          PROVE  job'[s].pc # "evict"
      BY <1>a, <2>1, <3>2 DEF Job
    <3> QED BY <1>5, <3>1, <3>2 DEF DeleteObject
  <2> QED BY <2>1, <2>2 DEF Pends
<1>6. ASSUME PresignPut(s) PROVE over' = over /\ ~Pends /\ job'[s].pc # "evict"
  <2>1. over' = over /\ job[s].pc = "sign"
    BY <1>6 DEF PresignPut, At, history
  <2>2. job'[s].pc # "evict"
    BY <1>a, <1>c, <1>6 DEF PresignPut, Goto, Done, Job
  <2> QED BY <2>1, <2>2 DEF Pends
<1>7. ASSUME PlaceChannel(s) PROVE over' = over /\ ~Pends /\ job'[s].pc # "evict"
  <2>1. over' = over /\ job[s].pc = "place"
    BY <1>7 DEF PlaceChannel, At, history
  <2>2. Done(s) \/ job'[s] = Idle
    BY <1>7 DEF PlaceChannel
  <2>3. job'[s].pc # "evict"
    BY <1>a, <1>c, <2>2 DEF Done
  <2> QED BY <2>1, <2>3 DEF Pends
<1>8. ASSUME DeleteChannelTree(s) \/ StorageKeys(s)
      PROVE  over' = over /\ ~Pends /\ job'[s].pc # "evict"
  <2>1. over' = over /\ job[s].pc \in {"lookup", "keys"}
    BY <1>8 DEF DeleteChannelTree, StorageKeys, At, history
  <2>2. job'[s].pc # "evict"
    BY <1>a, <1>c, <1>8 DEF DeleteChannelTree, StorageKeys, Done, Job
  <2> QED BY <2>1, <2>2 DEF Pends
<1>9. ASSUME DeleteRows(s) PROVE over' = over /\ ~Pends /\ job'[s].pc # "evict"
  <2>1. over' = over /\ job[s].pc = "delete"
    BY <1>9 DEF DeleteRows, At
  <2>2. job'[s].pc # "evict"
    BY <1>a, <1>9 DEF DeleteRows, Idle
  <2> QED BY <2>1, <2>2 DEF Pends
<1>10. ASSUME SoftDeleteAttachmentsByID(s) PROVE Goal
  <2>1. over' = over /\ job[s].pc = "evict" /\ SoftDelete(job[s].atts)
    BY <1>10 DEF SoftDeleteAttachmentsByID, At, history
  <2>2. job'[s].pc # "evict"
    BY <1>a, <1>10 DEF SoftDeleteAttachmentsByID, Job
  <2>3. \A i \in job[s].atts : att'[i].state # "live"
    BY <1>a, <2>1, SoftDeleted DEF Inv
  <2> QED BY <2>1, <2>2, <2>3
<1>11. ASSUME UndoPresign(s) PROVE Goal
  <2>1. over' = over /\ SoftDelete({job[s].att}) /\ job' = [job EXCEPT ![s] = Idle]
    BY <1>11 DEF UndoPresign, Done, history
  <2>2. job'[s].pc # "evict"
    BY <1>a, <1>c, <2>1
  <2>3. job[s].att # 0 => att'[job[s].att].state # "live"
    BY <1>a, <2>1, SoftDeleted DEF Inv
  <2> QED BY <1>b, <2>1, <2>2, <2>3
<1>12. ASSUME Abandon(s) PROVE Goal
  <2>1. CASE Goto(s, "undo") /\ over' = over
    <3>1. job'[s].pc = "undo" /\ job'[s].att = job[s].att /\ job'[s].guild = job[s].guild
      BY <1>a, <2>1 DEF Goto, Job
    <3> QED BY <2>1, <3>1
  <2>2. CASE /\ Done(s)
             /\ over' = IF s \in Pending(job[s].guild) THEN over \cup {job[s].guild} ELSE over
    <3>1. job'[s].pc # "evict"
      BY <1>a, <1>c, <2>2 DEF Done
    <3>2. \A g : s \in Pending(g) => g \in over'
      BY <1>b, <2>2
    <3> QED BY <2>2, <3>1, <3>2
  <2> QED BY <1>12, <2>1, <2>2 DEF Abandon
<1>14. ASSUME Shifting(s) PROVE over' = over /\ ~Pends /\ job'[s].pc # "evict"
  <2>1. over' = over /\ job[s].pc \in Moving /\ job'[s].pc \in Moving
    BY <1>a, <1>14, ShiftingJob
  <2> QED BY <2>1 DEF Pends, Moving
<1> HIDE DEF Goal
<1>13. Goal
  <2>1. ASSUME over' = over, ~Pends, job'[s].pc # "evict" \/ job'[s].att = 0
        PROVE  Goal
    BY <1>b, <2>1 DEF Goal
  <2>2. CASE \E c \in Chans :
               \/ \E n \in Sizes : Presign(s, c, n)
               \/ \E p \in Chans \cup {None}, n \in 0 .. MaxPos : MoveChannel(s, c, p, n)
               \/ DeleteChannel(s, c)
    BY <1>2, <2>1, <2>2
  <2>3. CASE \E i \in DOMAIN att : DeleteAttachment(s, i) \/ ListExpiredAttachments(s, i)
    BY <1>3, <1>4, <2>1, <2>3
  <2>4. CASE InsertAttachment(s) \/ DeleteObject(s) \/ PresignPut(s) \/ PlaceChannel(s)
             \/ Shifting(s) \/ DeleteChannelTree(s) \/ StorageKeys(s) \/ DeleteRows(s)
    BY <1>1, <1>5, <1>6, <1>7, <1>8, <1>9, <1>14, <2>1, <2>4
  <2> QED BY <1>10, <1>11, <1>12, <2>2, <2>3, <2>4 DEF StepOf
<1> QED BY <1>13 DEF Goal

\* A pending presign evicts, stays pending, or loses its row.
Pursued(g, s) ==
  s \in Pending(g) =>
    \/ job[s].pc = "evict" /\ \A i \in job[s].atts : att'[i].state # "live"
    \/ /\ job'[s].pc \in {"list", "evict", "undo"}
       /\ job'[s].att = job[s].att /\ job'[s].guild = job[s].guild
    \/ att'[job[s].att].state # "live"

\* A step of the requests in D, none of them in E, that adds no attachment.
LEMMA ActorFits ==
  ASSUME Inv, Inv', JobsOwn, JobsOwn', QuotaInv, AttStep, ChanStep, Len(att') = Len(att),
         over \subseteq over', NEW g \in Guilds, g \notin over', Quota # None,
         NEW E, E \subseteq Evicting(g)', NEW D \in SUBSET Workers,
         \A t \in Workers \ D : Same(t),
         \A s \in D : s \notin E /\ Pursued(g, s)
  PROVE  Fits(g, E)'
<1>1. PICK F : F = {s \in D : s \in Evicting(g) /\ \A i \in job[s].atts : att'[i].state # "live"}
  OBVIOUS
<1>2. PICK E2 : E2 = E \cup F
  OBVIOUS
<1>3. \A t \in E : t \in Workers \ D /\ Same(t) /\ t \in Evicting(g)
  BY DEF Evicting, Same
<1>4. E2 \in SUBSET Evicting(g)
  BY <1>1, <1>2, <1>3
<1>5. Fits(g, E2)
  BY <1>4 DEF QuotaInv
<1>6. \A i \in Listed(E2) : att'[i].state = "live" => i \in Listed(E)'
  <2> SUFFICES ASSUME NEW i \in Listed(E2), att'[i].state = "live"
               PROVE  i \in Listed(E)'
    OBVIOUS
  <2>1. PICK t \in E2 : i \in job[t].atts
    BY DEF Listed
  <2>2. t \in E
    BY <1>1, <1>2, <2>1
  <2>3. i \in job'[t].atts
    BY <1>3, <2>1, <2>2 DEF Same
  <2> QED BY <2>2, <2>3 DEF Listed
<1>7. \A i \in Listed(E)' : i \in Listed(E2)
  BY <1>2, <1>3 DEF Listed, Same
<1>8. ASSUME NEW s \in Pending(g) \ E2, att'[job[s].att].state = "live"
      PROVE  s \in (Pending(g) \ E)' /\ job'[s].att = job[s].att
  <2>1. s \in Workers /\ job[s].pc \in {"list", "evict", "undo"} /\ job[s].att # 0
        /\ job[s].guild = g /\ s \notin E /\ s \notin F
    BY <1>2, <1>8 DEF Pending
  <2>2. job'[s].pc \in {"list", "evict", "undo"} /\ job'[s].att = job[s].att
        /\ job'[s].guild = job[s].guild
    <3>1. CASE s \in D
      <4>1. ~(job[s].pc = "evict" /\ \A i \in job[s].atts : att'[i].state # "live")
        BY <1>1, <2>1, <3>1 DEF Evicting
      <4> QED BY <1>8, <3>1, <4>1 DEF Pursued
    <3>2. CASE s \notin D
      BY <2>1, <3>2 DEF Same
    <3> QED BY <3>1, <3>2
  <2>3. job[s].att \in 1 .. Len(att') /\ DOMAIN att' = 1 .. Len(att')
    <3>1. job[s].att \in 1 .. Len(att)
      BY <2>1 DEF Inv, JobsOK, JobOK
    <3>2. att' \in Seq(Attachment)
      BY DEF Inv, Tables
    <3> QED BY <3>1, <3>2
  <2>4. Live(job[s].att)'
    BY <1>8, <2>2, <2>3 DEF Live
  <2> QED BY <2>1, <2>2, <2>4 DEF Pending
<1> QED BY <1>5, <1>6, <1>7, <1>8, FitsStays

\* One more element.
LEMMA TotalAdd ==
  ASSUME NEW X, IsFiniteSet(X), NEW m, m \notin X, NEW f, f[m] \in Nat, \A i \in X : f[i] \in Nat
  PROVE  Total(f, X \cup {m}) = f[m] + Total(f, X) /\ Total(f, X) \in Nat
<1> DEFINE S == X \cup {m}
<1>1. IsFiniteSet(S) /\ (\A i \in S : f[i] \in Nat) /\ {m} \in SUBSET S /\ S \ {m} = X
  BY FS_AddElement
<1> HIDE DEF S
<1>2. Total(f, S) = Total(f, {m}) + Total(f, S \ {m}) /\ Total(f, S \ {m}) \in Nat
  BY <1>1, TotalSplit
<1>3. Total(f, {m}) = f[m]
  BY TotalOne
<1> QED BY <1>1, <1>2, <1>3 DEF S

\* A new row counts on both sides: its presign has still to list and evict.
LEMMA InsertFits ==
  ASSUME Inv, Inv', JobsOwn, JobsOwn', QuotaInv, NEW s \in Workers, InsertAttachment(s),
         chan[job[s].chan] # None, NEW g \in Guilds, g \notin over', Quota # None,
         NEW E, E \subseteq Evicting(g)'
  PROVE  Fits(g, E)'
<1>0. PICK n, m : n = Len(att) /\ m = Len(att')
  OBVIOUS
<1> DEFINE z == Size'
           A == ActiveIn(g)
           W == Waiting(g, E)
           U == Listed(E)
           A2 == ActiveIn(g)'
           W2 == Waiting(g, E)'
<1>1. /\ m = n + 1 /\ \A i \in 1 .. n : att'[i] = att[i]
      /\ att'[m].chan = job[s].chan /\ att'[m].size = job[s].size /\ att'[m].state = "live"
      /\ job'[s] = [job[s] EXCEPT !.pc = "list", !.att = m]
      /\ \A t \in Workers : t # s => job'[t] = job[t]
      /\ job[s].chan \in Chans /\ job[s].size \in Sizes /\ job[s].pc = "insert"
  BY <1>0, Inserted
<1>2. chan' = chan /\ over' = over
  BY DEF InsertAttachment, history
<1>3. n \in Nat /\ Quota \in Nat /\ DOMAIN att' = 1 .. m
  <2>1. att' \in Seq(Attachment)
    BY DEF Inv, Tables
  <2> QED BY <1>0, <2>1, AttRows, ChannelsAssumption DEF Inv
<1>4. job'[s].pc = "list" /\ job'[s].att = m /\ job'[s].guild = job[s].guild
  BY <1>1 DEF Inv, JobsOK, Job
<1>5. s \notin E /\ \A t \in E : t \in Workers /\ job'[t] = job[t] /\ t \in Evicting(g)
  BY <1>1, <1>4 DEF Evicting
<1>6. Total(Size, A \ U) <= Quota + Total(Size, W \ U)
  <2>1. E \in SUBSET Evicting(g)
    BY <1>5
  <2>2. Fits(g, E)
    BY <1>2, <2>1 DEF QuotaInv
  <2> QED BY <2>2 DEF Fits
<1>7. Listed(E)' = U
  BY <1>5 DEF Listed
<1>8. U \subseteq 1 .. n /\ m \notin 1 .. n /\ m \in Nat /\ 1 .. n \subseteq 1 .. m
      /\ \A i \in 1 .. m : i \in 1 .. n \/ i = m
  <2>1. \A t \in E : job[t].atts \subseteq 1 .. n
    BY <1>0, <1>5 DEF Inv, JobsOK, JobOK
  <2> QED BY <1>1, <1>3, <2>1 DEF Listed
<1>9. /\ A = {i \in 1 .. n : att[i].state = "live" /\ chan[att[i].chan].guild = g} /\ W \subseteq A
      /\ A2 = {i \in 1 .. m : att'[i].state = "live" /\ chan'[att'[i].chan].guild = g}
      /\ W2 \subseteq A2
  <2>1. GuildRows /\ GuildRows'
    BY GuildRowsHold, PTL
  <2>2. A = {i \in 1 .. n : att[i].state = "live" /\ chan[att[i].chan].guild = g} /\ W \subseteq A
    BY <1>0, <2>1 DEF GuildRows
  <2>3. A2 = {i \in 1 .. m : att'[i].state = "live" /\ chan'[att'[i].chan].guild = g}
    BY <1>0, <2>1 DEF GuildRows
  <2>4. W2 \subseteq A2
    BY <2>1 DEF GuildRows
  <2> QED BY <2>2, <2>3, <2>4
<1>10. chan[job[s].chan].guild = job[s].guild
  BY <1>1, ChannelsAssumption DEF JobsOwn, OwnJob
<1>11. A2 = IF job[s].guild = g THEN A \cup {m} ELSE A
  <2>1. \A i \in 1 .. n : i \in A2 <=> i \in A
    BY <1>1, <1>2, <1>8, <1>9
  <2>2. m \in A2 <=> job[s].guild = g
    BY <1>1, <1>2, <1>3, <1>8, <1>9, <1>10
  <2>3. A \subseteq 1 .. n /\ A2 \subseteq 1 .. m
    BY <1>9
  <2> HIDE DEF A, A2
  <2>4. CASE job[s].guild = g
    BY <1>8, <2>1, <2>2, <2>3, <2>4
  <2>5. CASE job[s].guild # g
    <3>1. A2 = A
      BY <1>8, <2>1, <2>2, <2>3, <2>5
    <3> QED BY <2>5, <3>1
  <2> QED BY <2>4, <2>5
<1>12. W \subseteq W2
  <2> SUFFICES ASSUME NEW t \in Pending(g), t \notin E PROVE job[t].att \in W2
    BY DEF Waiting
  <2>1. t \in Workers /\ t # s /\ job'[t] = job[t] /\ job[t].att \in A
    BY <1>1, <1>9 DEF Pending, Waiting
  <2>2. job[t].att \in 1 .. m /\ att'[job[t].att].state = "live"
    BY <1>1, <1>8, <1>9, <2>1
  <2>3. Live(job[t].att)'
    BY <1>3, <2>1, <2>2 DEF Live
  <2>4. t \in Pending(g)'
    BY <2>1, <2>3 DEF Pending
  <2> QED BY <2>1, <2>4 DEF Waiting
<1>13. job[s].guild = g => m \in W2
  <2> SUFFICES ASSUME job[s].guild = g PROVE m \in W2
    OBVIOUS
  <2>1. m \in 1 .. m /\ m # 0
    BY <1>1, <1>3
  <2>2. Live(m)'
    BY <1>1, <1>3, <2>1 DEF Live
  <2>3. s \in Pending(g)'
    BY <1>4, <2>1, <2>2 DEF Pending
  <2> QED BY <1>4, <1>5, <2>3 DEF Waiting
<1>14. /\ \A i \in 1 .. n : Size[i] \in Nat /\ z[i] = Size[i]
       /\ \A i \in 1 .. m : z[i] \in Nat
       /\ \A S \in SUBSET (1 .. m) : IsFiniteSet(S)
  <2>1. \A i \in 1 .. n : Size[i] = att[i].size /\ Size[i] \in Nat
    BY <1>0, Weighed DEF Inv
  <2>2. \A i \in 1 .. m : z[i] = att'[i].size
    BY <1>0 DEF Size
  <2>3. att'[m].size \in Nat
    BY <1>1, ChannelsAssumption
  <2>4. \A S \in SUBSET (1 .. m) : IsFiniteSet(S)
    <3>1. IsFiniteSet(1 .. m)
      BY <1>8, IntervalCount
    <3> QED BY <3>1, FS_Subset
  <2> QED BY <1>1, <1>8, <2>1, <2>2, <2>3, <2>4
<1> HIDE DEF A, W, A2, W2, z, U
<1> DEFINE X == A \ U
           Y == W \ U
<1>15. /\ X \in SUBSET (1 .. n) /\ Y \in SUBSET (1 .. n) /\ X \in SUBSET (1 .. m) /\ Y \in SUBSET (1 .. m)
       /\ W2 \ U \in SUBSET (1 .. m) /\ Y \in SUBSET (W2 \ U) /\ m \notin X /\ m \notin Y /\ m \notin U
  BY <1>8, <1>9, <1>12
<1>16. /\ job[s].guild = g => A2 \ U = X \cup {m} /\ Y \cup {m} \in SUBSET (W2 \ U)
       /\ job[s].guild # g => A2 \ U = X
  BY <1>11, <1>13, <1>15
<1>17. Total(z, X) <= Quota + Total(z, Y) /\ Total(z, X) \in Nat /\ Total(z, Y) \in Nat
  <2>1. Total(z, X) = Total(Size, X) /\ Total(z, Y) = Total(Size, Y)
    <3>1. (\A i \in X : z[i] = Size[i]) /\ \A i \in Y : z[i] = Size[i]
      BY <1>14, <1>15
    <3> HIDE DEF X, Y
    <3> QED BY <3>1, TotalSame
  <2>2. Total(z, X) \in Nat /\ Total(z, Y) \in Nat
    <3> HIDE DEF X, Y
    <3>1. IsFiniteSet(X) /\ IsFiniteSet(Y) /\ (\A i \in X : z[i] \in Nat) /\ \A i \in Y : z[i] \in Nat
      BY <1>14, <1>15
    <3> QED BY <3>1, UnitsFinite
  <2> QED BY <1>6, <2>1, <2>2
<1> HIDE DEF X, Y
<1>18. IsFiniteSet(W2 \ U) /\ (\A i \in W2 \ U : z[i] \in Nat) /\ IsFiniteSet(X) /\ IsFiniteSet(Y)
       /\ (\A i \in X : z[i] \in Nat) /\ (\A i \in Y : z[i] \in Nat) /\ (m \in 1 .. m => z[m] \in Nat)
       /\ m \in 1 .. m
  BY <1>1, <1>3, <1>14, <1>15
<1>19. Total(z, A2 \ U) <= Quota + Total(z, W2 \ U)
  <2>1. CASE job[s].guild = g
    <3>1. Total(z, X \cup {m}) = z[m] + Total(z, X)
      BY <1>15, <1>18, TotalAdd
    <3>2. Total(z, Y \cup {m}) = z[m] + Total(z, Y)
      BY <1>15, <1>18, TotalAdd
    <3> DEFINE Y2 == Y \cup {m}
    <3>3. Y2 \in SUBSET (W2 \ U)
      BY <1>16, <2>1
    <3> HIDE DEF Y2
    <3>4. Total(z, Y2) <= Total(z, W2 \ U) /\ Total(z, W2 \ U) \in Nat
      BY <1>18, <3>3, TotalGrows
    <3>5. z[m] \in Nat /\ A2 \ U = X \cup {m}
      BY <1>16, <1>18, <2>1
    <3>6. Total(z, A2 \ U) = z[m] + Total(z, X) /\ z[m] + Total(z, Y) <= Total(z, W2 \ U)
      BY <3>1, <3>2, <3>4, <3>5 DEF Y2
    <3> QED BY <1>3, <1>17, <3>4, <3>5, <3>6
  <2>2. CASE job[s].guild # g
    <3>1. Total(z, Y) <= Total(z, W2 \ U) /\ Total(z, W2 \ U) \in Nat
      BY <1>15, <1>18, TotalGrows
    <3>2. A2 \ U = X
      BY <1>16, <2>2
    <3>3. Total(z, A2 \ U) = Total(z, X)
      BY <3>2
    <3> QED BY <1>3, <1>17, <3>1, <3>3
  <2> QED BY <2>1, <2>2
<1> QED BY <1>7, <1>19 DEF Fits, A2, W2, z

\* The listing leaves out the oldest attachments until the rest fits.
LEMMA ListFits ==
  ASSUME Inv, Inv', JobsOwn, JobsOwn', NEW s \in Workers, EnforceGuildAttachmentQuota(s),
         chan[job[s].chan] # None, NEW g, g = job[s].guild, Quota # None,
         NEW E, E \subseteq Workers, Victims(g) = {} \/ s \in E
  PROVE  Fits(g, E)'
<1>0. PICK n : n = Len(att)
  OBVIOUS
<1> DEFINE A == ActiveIn(g)
           V == Victims(g)
           U2 == Listed(E)'
           W2 == Waiting(g, E)'
<1>1. UNCHANGED <<chan, att>>
  BY DEF EnforceGuildAttachmentQuota, rows
<1>2. V # {} => job'[s].atts = V
  BY DEF EnforceGuildAttachmentQuota, Inv, JobsOK, Job
<1>3. /\ n \in Nat /\ Quota \in Nat
      /\ \A i \in 1 .. n : Size[i] \in Nat
      /\ \A S \in SUBSET (1 .. n) : IsFiniteSet(S) /\ Total(Size, S) \in Nat /\ Bytes(S) = Total(Size, S)
  BY <1>0, AttRows, Weighed, ChannelsAssumption DEF Inv
<1>4. Size' = Size
  BY <1>1 DEF Size
<1>5. ActiveIn(g)' = A /\ A \subseteq 1 .. n /\ W2 \subseteq A
  <2>1. GuildRows /\ GuildRows'
    BY GuildRowsHold, PTL
  <2>2. A = {i \in 1 .. n : att[i].state = "live" /\ chan[att[i].chan].guild = g}
    BY <1>0, <2>1 DEF GuildRows
  <2>3. ActiveIn(g)' = {i \in 1 .. n : att[i].state = "live" /\ chan[att[i].chan].guild = g}
    BY <1>0, <1>1, <2>1 DEF GuildRows
  <2>4. W2 \subseteq ActiveIn(g)'
    BY <2>1 DEF GuildRows
  <2> QED BY <2>2, <2>3, <2>4
<1>6. V \subseteq A /\ \A i \in A \ V : ~(Bytes({k \in A : k < i}) < Bytes(A) - Quota)
  BY DEF Victims
<1> HIDE DEF A, V, U2, W2
<1>7. Total(Size, A \ V) <= Quota
  <2>1. A \in SUBSET Nat /\ V \in SUBSET A /\ IsFiniteSet(A) /\ \A i \in A : Size[i] \in Nat
    BY <1>3, <1>5, <1>6
  <2>2. ASSUME NEW i \in A \ V
        PROVE  Total(Size, {k \in A : k < i}) >= Total(Size, A) - Quota
    <3>1. {k \in A : k < i} \in SUBSET (1 .. n) /\ A \in SUBSET (1 .. n)
      BY <1>5
    <3>2. ~(Total(Size, {k \in A : k < i}) < Total(Size, A) - Quota)
      BY <1>3, <1>6, <3>1
    <3>3. Total(Size, {k \in A : k < i}) \in Nat /\ Total(Size, A) \in Nat
      BY <1>3, <3>1
    <3> QED BY <1>3, <3>2, <3>3
  <2> QED BY <1>3, <2>1, <2>2, RestFits
<1>8. A \ U2 \subseteq A \ V
  <2>1. CASE V = {}
    BY <2>1
  <2>2. CASE V # {}
    <3>1. s \in E /\ job'[s].atts = V
      BY <1>2, <2>2 DEF V
    <3> QED BY <3>1 DEF U2, Listed
  <2> QED BY <2>1, <2>2
<1>9. Total(Size, A \ U2) <= Total(Size, A \ V) /\ Total(Size, A \ U2) \in Nat
      /\ Total(Size, A \ V) \in Nat /\ Total(Size, W2 \ U2) \in Nat
  <2>1. A \ U2 \in SUBSET (A \ V) /\ A \ V \in SUBSET (1 .. n) /\ W2 \ U2 \in SUBSET (1 .. n)
    BY <1>5, <1>8
  <2>2. IsFiniteSet(A \ V) /\ (\A i \in A \ V : Size[i] \in Nat) /\ Total(Size, W2 \ U2) \in Nat
    BY <1>3, <2>1
  <2> QED BY <2>1, <2>2, TotalGrows
<1>10. Total(Size, A \ U2) <= Quota + Total(Size, W2 \ U2)
  BY <1>3, <1>7, <1>9
<1> QED BY <1>4, <1>5, <1>10 DEF Fits, U2, W2

\* Every step keeps the bound.
LEMMA NextQuota ==
  ASSUME Inv, Inv', JobsOwn, JobsOwn', QuotaInv, [Next]_vars
  PROVE  QuotaInv'
<1> SUFFICES ASSUME NEW g \in Guilds, g \notin over', Quota # None, NEW E, E \subseteq Evicting(g)'
             PROVE  Fits(g, E)'
  BY DEF QuotaInv
<1>a. AttStep /\ ChanStep /\ job \in [Workers -> Job]
  BY NextTables DEF Inv, JobsOK
<1>b. \A t \in E : t \in Workers /\ job'[t].pc = "evict" /\ job'[t].att # 0
  BY DEF Evicting
<1>1. CASE Len(att') = Len(att) /\ over' = over /\ \A t \in Workers : Bystander(t)
  <2>1. PICK D \in SUBSET Workers : D = {}
    OBVIOUS
  <2>2. Len(att') = Len(att) /\ over \subseteq over'
    BY <1>1
  <2>3. \A t \in Workers \ D : Same(t)
    BY <1>1, BystanderSame
  <2> QED BY <1>a, <2>1, <2>2, <2>3, ActorFits
<1>2. ASSUME NEW s \in Workers, StepOf(s)
      PROVE  Fits(g, E)'
  <2>1. PICK D \in SUBSET Workers : D = {s}
    OBVIOUS
  <2>2. \A t \in Workers \ D : Same(t)
    BY <1>2, <2>1, OtherJobs, BystanderSame
  <2>3. CASE InsertAttachment(s) /\ chan[job[s].chan] # None
    BY <2>3, InsertFits
  <2>4. ASSUME ~(InsertAttachment(s) /\ chan[job[s].chan] # None), ~EnforceGuildAttachmentQuota(s)
        PROVE  Fits(g, E)'
    <3>1. /\ over \subseteq over'
          /\ job'[s].pc = "evict" => job'[s].att = 0
          /\ s \in Pending(g) =>
               \/ job[s].pc = "evict" /\ \A i \in job[s].atts : att'[i].state # "live"
               \/ job'[s].pc = "undo" /\ job'[s].att = job[s].att /\ job'[s].guild = job[s].guild
               \/ att'[job[s].att].state # "live"
      BY <1>2, <2>4, ActorQuota
    <3>2. Len(att') = Len(att)
      <4>1. \A t \in Workers : ~(InsertAttachment(t) /\ chan[job[t].chan] # None)
        <5> SUFFICES ASSUME NEW t \in Workers, InsertAttachment(t), chan[job[t].chan] # None, t # s
                     PROVE  FALSE
          BY <2>4
        <5>1. Same(t)
          BY <1>2, OtherJobs, BystanderSame
        <5>2. job[t].pc = "insert" /\ job'[t].att = Len(att') /\ job'[t].pc \in {"sign", "list"}
          <6> DEFINE pc == IF Quota = None THEN "sign" ELSE "list"
          <6>1. job'[t] = [job[t] EXCEPT !.pc = pc, !.att = Len(att')]
            BY Inserted
          <6>2. job[t].pc = "insert" /\ job[t] \in Job
            BY <1>a DEF InsertAttachment, At
          <6>3. pc \in {"sign", "list"}
            OBVIOUS
          <6> HIDE DEF pc
          <6>4. job'[t].pc = pc /\ job'[t].att = Len(att')
            BY <6>1, <6>2 DEF Job
          <6> QED BY <6>2, <6>3, <6>4
        <5> QED BY <5>1, <5>2 DEF Same
      <4> QED BY <4>1, NextTables
    <3>3. s \notin E
      BY <1>b, <3>1
    <3>4. \A t \in D : t \notin E /\ Pursued(g, t)
      BY <2>1, <3>1, <3>3 DEF Pursued
    <3> QED BY <1>a, <2>2, <3>1, <3>2, <3>4, ActorFits
  <2>5. ASSUME EnforceGuildAttachmentQuota(s)
        PROVE  Fits(g, E)'
    <3>1. Len(att') = Len(att) /\ over' = over /\ job[s].pc = "list"
      BY <2>5 DEF EnforceGuildAttachmentQuota, rows, history, At
    <3>2. CASE chan[job[s].chan] # None /\ g = job[s].guild /\ (Victims(g) = {} \/ s \in E)
      BY <1>b, <2>5, <3>2, ListFits
    <3>3. CASE chan[job[s].chan] # None /\ g # job[s].guild
      <4>1. job'[s].guild = job[s].guild
        BY <1>a, <2>5, <3>3 DEF EnforceGuildAttachmentQuota, Job
      <4>2. s \notin E
        BY <3>3, <4>1 DEF Evicting
      <4>3. s \notin Pending(g)
        BY <3>3 DEF Pending
      <4>4. \A t \in D : t \notin E /\ Pursued(g, t)
        BY <2>1, <4>2, <4>3 DEF Pursued
      <4> QED BY <1>a, <2>2, <3>1, <4>4, ActorFits
    <3>4. CASE /\ \/ chan[job[s].chan] = None
                  \/ g = job[s].guild /\ Victims(g) # {} /\ s \notin E
      <4>1. job'[s].pc \in {"undo", "evict"} /\ job'[s].att = job[s].att
            /\ job'[s].guild = job[s].guild
        BY <1>a, <2>5, <3>4 DEF EnforceGuildAttachmentQuota, Goto, Job
      <4>2. s \notin E
        <5>1. chan[job[s].chan] = None => job'[s].pc = "undo"
          BY <1>a, <2>5 DEF EnforceGuildAttachmentQuota, Goto, Job
        <5> QED BY <1>b, <3>4, <5>1
      <4>3. \A t \in D : t \notin E /\ Pursued(g, t)
        BY <2>1, <4>1, <4>2 DEF Pursued
      <4>4. over \subseteq over'
        BY <3>1
      <4> QED BY <1>a, <2>2, <3>1, <4>3, <4>4, ActorFits
    <3> QED BY <3>2, <3>3, <3>4
  <2> QED BY <2>3, <2>4, <2>5
<1> QED BY <1>1, <1>2, Steps

\* The attachments of a guild exceed its quota by no more than the rows whose
\* presigns have still to evict or to be withdrawn, whatever requests overlap
\* and whatever fails, unless one broke off in between: for every number of
\* requests and attachments (enforceGuildAttachmentQuota).
THEOREM GuildQuotasHold == Spec => []GuildQuotaHeld
<1>1. Init => JobsOwn /\ QuotaInv
  <2> SUFFICES ASSUME Init PROVE JobsOwn /\ QuotaInv
    OBVIOUS
  <2>1. att = <<>> /\ job = [s \in Workers |-> Idle]
    BY DEF Init
  <2>2. JobsOwn
    BY <2>1 DEF JobsOwn, OwnJob, Idle
  <2>3. ASSUME NEW g \in Guilds, Quota # None, NEW E \in SUBSET Evicting(g)
        PROVE  Fits(g, E)
    <3>1. Active = {}
      BY <2>1 DEF Active, Live
    <3>2. ActiveIn(g) = {} /\ Quota \in Nat
      BY <2>3, <3>1, ChannelsAssumption DEF ActiveIn
    <3>3. Waiting(g, E) = {}
      BY <2>1, IdleOK DEF Waiting, Pending
    <3>4. Total(Size, {}) = 0
      BY TotalEmpty
    <3>5. ActiveIn(g) \ Listed(E) = {} /\ Waiting(g, E) \ Listed(E) = {}
      BY <3>2, <3>3
    <3>6. Total(Size, ActiveIn(g) \ Listed(E)) = 0 /\ Total(Size, Waiting(g, E) \ Listed(E)) = 0
      BY <3>4, <3>5, Zenon
    <3> QED BY <3>2, <3>6 DEF Fits
  <2> QED BY <2>2, <2>3 DEF QuotaInv
<1>2. Inv /\ JobsOwn /\ QuotaInv /\ [Next]_vars => (JobsOwn /\ QuotaInv)'
  <2> SUFFICES ASSUME Inv, JobsOwn, QuotaInv, [Next]_vars
               PROVE  JobsOwn' /\ QuotaInv'
    OBVIOUS
  <2>1. Inv' /\ JobsOwn'
    BY NextInv, NextOwn
  <2> QED BY <2>1, NextQuota
<1>3. Inv /\ JobsOwn /\ QuotaInv => GuildQuotaHeld
  <2> SUFFICES ASSUME Inv, JobsOwn, QuotaInv, NEW g \in Guilds \ over, Quota # None
               PROVE  Bytes(ActiveIn(g)) <= Quota + Bytes({job[s].att : s \in Pending(g)})
    BY DEF GuildQuotaHeld
  <2>1. PICK E \in SUBSET Evicting(g) : E = {}
    OBVIOUS
  <2>2. Fits(g, E)
    BY DEF QuotaInv
  <2> DEFINE W == {job[s].att : s \in Pending(g)}
  <2>3. Listed(E) = {} /\ Waiting(g, E) = W
    BY <2>1 DEF Listed, Waiting
  <2>4. ActiveIn(g) \in SUBSET (1 .. Len(att)) /\ W \in SUBSET (1 .. Len(att))
    BY <2>3, GuildRowsHold DEF GuildRows
  <2>5. Bytes(ActiveIn(g)) = Total(Size, ActiveIn(g)) /\ Bytes(W) = Total(Size, W)
    BY <2>4, Weighed DEF Inv
  <2>6. ActiveIn(g) \ Listed(E) = ActiveIn(g) /\ Waiting(g, E) \ Listed(E) = W
    BY <2>3
  <2> HIDE DEF W
  <2>7. Total(Size, ActiveIn(g)) <= Quota + Total(Size, W)
    BY <2>2, <2>6 DEF Fits
  <2>8. Bytes(ActiveIn(g)) <= Quota + Bytes(W)
    BY <2>5, <2>7
  <2> QED BY <2>8 DEF W
<1> QED BY <1>1, <1>2, <1>3, Invariance, PTL DEF Spec
=============================================================================
