------------------------------ MODULE Channels ------------------------------
(***************************************************************************)
(* The channels of guilds and the attachments posted in them               *)
(* (internal/api/channels.go and attachments.go on internal/db/channels.go *)
(* and attachments.go, and the retention loop of cmd/hush/main.go): the    *)
(* category tree with its positions, presigned uploads, the guild's        *)
(* storage quota, and the removal of rows and of the objects behind them.  *)
(*                                                                         *)
(* A job is a request between two statements.  The transactions of         *)
(* MoveChannel and DeleteChannelTree run at READ COMMITTED: each statement *)
(* sees what is committed when it starts and what its own transaction has  *)
(* written, waits for rows that another open transaction has written, and  *)
(* writes the latest version of those that still match.  Membership,       *)
(* content types and system channels, which no request deletes or moves,   *)
(* are left out; so are presigned downloads.                               *)
(***************************************************************************)
EXTENDS Integers, Sequences, FiniteSetsExt

CONSTANTS
  Guilds, Chans, Workers,
  Sizes,       \* sizes a presign may ask for
  Quota,       \* max_guild_attachment_storage_bytes, or None
  MaxAtts,     \* bound of the attachments that are ever made
  MaxPos,      \* bound of the positions that requests name
  Faults,      \* whether statements and object calls may fail
  None

VARIABLES
  server,   \* guilds whose row exists
  chan,     \* channels: guild, category or not, parent_id and position, or None
  used,     \* ids of channels that have been given out
  att,      \* attachments in the order of created_at
  blob,     \* attachments that have an object in the storage backend
  url,      \* attachments whose upload URL the client has been given
  job,
  orphan,   \* history: attachments that may keep an object nobody deletes
  over,     \* history: guilds where a presign broke off before it evicted
  stray     \* history: channels that outlived the category they were in

rows == <<server, chan, used, att>>
history == <<orphan, over, stray>>
vars == <<rows, blob, url, job, history>>

\* models.Channel: a row of channels.
Channel == [guild : Guilds, category : BOOLEAN, parent : Chans \cup {None}, pos : Int]

ASSUME ChannelsAssumption ==
  /\ Sizes \subseteq Nat \ {0} /\ Quota \in (Nat \ {0}) \cup {None} /\ MaxAtts \in Nat /\ MaxPos \in Nat
  /\ Faults \in BOOLEAN /\ None \notin Guilds \cup Chans
  /\ None \notin Channel

Idle == [pc |-> "idle", chan |-> None, guild |-> None, size |-> 0, att |-> 0, atts |-> {},
         known |-> 0, tree |-> {}, row |-> None, parent |-> None, pos |-> 0,
         hits |-> {}, down |-> {}, up |-> {}, held |-> {}, crossed |-> FALSE]

Init ==
  /\ server = Guilds
  /\ chan = [c \in Chans |-> None]
  /\ used = {}
  /\ att = <<>>
  /\ blob = {} /\ url = {}
  /\ job = [s \in Workers |-> Idle]
  /\ orphan = {} /\ over = {} /\ stray = {}

At(s, pc) == job[s].pc = pc
Goto(s, pc) == job' = [job EXCEPT ![s].pc = pc]
Done(s) == job' = [job EXCEPT ![s] = Idle]
Start(s, j) == job[s] = Idle /\ job' = [job EXCEPT ![s] = j]

(***************************************************************************)
(* Attachments.                                                            *)
(***************************************************************************)
Live(i) == i \in DOMAIN att /\ att[i].state = "live"
Active == {i \in DOMAIN att : Live(i)}
ActiveIn(g) == {i \in Active : chan[att[i].chan].guild = g}
Bytes(S) == MapThenSumSet(LAMBDA i : att[i].size, S)

SoftDelete(S) ==
  att' = [i \in DOMAIN att |-> IF i \in S /\ Live(i) THEN [att[i] EXCEPT !.state = "deleted"] ELSE att[i]]

Presign(s, c, n) ==
  /\ chan[c] # None
  /\ Quota # None => n <= Quota
  /\ Start(s, [Idle EXCEPT !.pc = "insert", !.chan = c, !.guild = chan[c].guild, !.size = n])
  /\ UNCHANGED <<rows, blob, url, history>>

InsertAttachment(s) ==
  /\ At(s, "insert") /\ Len(att) < MaxAtts
  /\ IF chan[job[s].chan] = None THEN Done(s) /\ UNCHANGED att
     ELSE /\ att' = Append(att, [chan |-> job[s].chan, size |-> job[s].size, state |-> "live"])
          /\ job' = [job EXCEPT ![s].pc = IF Quota = None THEN "sign" ELSE "list",
                                ![s].att = Len(att) + 1]
  /\ UNCHANGED <<server, chan, used, blob, url, history>>

VictimsOffByOne(g) ==    \* mutant: one attachment too few
  {i \in ActiveIn(g) : Bytes({k \in ActiveIn(g) : k <= i}) <= Bytes(ActiveIn(g)) - Quota}

\* The oldest attachments of the guild, until the rest fits.
Victims(g) ==
  {i \in ActiveIn(g) : Bytes({k \in ActiveIn(g) : k < i}) < Bytes(ActiveIn(g)) - Quota}

\* enforceGuildAttachmentQuota: list, tombstone, delete the objects.
EnforceGuildAttachmentQuota(s) ==
  /\ At(s, "list")
  /\ IF chan[job[s].chan] = None THEN Goto(s, "undo")
     ELSE LET V == Victims(job[s].guild) IN
          job' = [job EXCEPT ![s].pc = IF V = {} THEN "sign" ELSE "evict", ![s].atts = V]
  /\ UNCHANGED <<rows, blob, url, history>>

\* SoftDeleteAttachmentsByID returns the rows that changed.
SoftDeleteAttachmentsByID(s) ==
  /\ At(s, "evict")
  /\ SoftDelete(job[s].atts)
  /\ job' = [job EXCEPT ![s].pc = "unlink", ![s].atts = @ \cap Active]
  /\ UNCHANGED <<server, chan, used, blob, url, history>>

\* backend.Delete of one object after the other; a failure is logged.
DeleteObject(s) ==
  /\ At(s, "unlink")
  /\ \/ /\ job[s].atts = {} /\ IF job[s].att # 0 THEN Goto(s, "sign") ELSE Done(s)
        /\ UNCHANGED <<blob, orphan>>
     \/ \E i \in job[s].atts :
          /\ job' = [job EXCEPT ![s].atts = @ \ {i}]
          /\ \/ blob' = blob \ {i} /\ orphan' = orphan \ {i}
             \/ Faults /\ orphan' = orphan \cup {i} /\ UNCHANGED blob
  /\ UNCHANGED <<rows, url, over, stray>>

PresignPut(s) ==
  /\ At(s, "sign")
  /\ \/ url' = url \cup {job[s].att} /\ Done(s)
     \/ Faults /\ Goto(s, "undo") /\ UNCHANGED url
  /\ UNCHANGED <<rows, blob, history>>

\* The row of a presign that failed is tombstoned; no object is deleted.
UndoPresign(s) ==
  /\ At(s, "undo")
  /\ SoftDelete({job[s].att})
  /\ Done(s)
  /\ UNCHANGED <<server, chan, used, blob, url, history>>

\* The client's upload, whatever has become of the row.
Upload(i) ==
  /\ i \in url /\ i \notin blob
  /\ blob' = blob \cup {i}
  /\ orphan' = IF Live(i) THEN orphan ELSE orphan \cup {i}
  /\ UNCHANGED <<rows, url, job, over, stray>>

DeleteAttachment(s, i) ==
  /\ Live(i)
  /\ SoftDelete({i})
  /\ Start(s, [Idle EXCEPT !.pc = "unlink", !.atts = {i}])
  /\ UNCHANGED <<server, chan, used, blob, url, history>>

\* runMessageRetentionCleanup: the attachments up to i have expired.
ListExpiredAttachments(s, i) ==
  /\ Live(i)
  /\ Start(s, [Idle EXCEPT !.pc = "evict", !.atts = {k \in Active : k <= i}])
  /\ UNCHANGED <<rows, blob, url, history>>

(***************************************************************************)
(* The tree.                                                               *)
(***************************************************************************)
In(c, g) == chan[c] # None /\ chan[c].guild = g
Children(c) == {x \in Chans : chan[x] # None /\ chan[x].parent = c}

\* What shiftPositions takes for a scope: categories among categories, other
\* channels among those of one parent.  The guild is not part of it.
InScope(r, category, p) ==
  IF category THEN r.category ELSE r.parent = p /\ (p = None => ~r.category)
Scope(category, p) == {x \in Chans : chan[x] # None /\ InScope(chan[x], category, p)}

Moving == {"gap", "gapping", "room", "rooming", "place"}

\* This step commits a row in a scope of an open move: a sibling is new there
\* or has another position than the move may have seen.
Disturbs(j) ==
  /\ j.pc \in Moving
  /\ \E x \in Chans : /\ chan'[x] # chan[x] /\ chan'[x] # None
                      /\ \E p \in {j.row.parent, j.parent} : InScope(chan'[x], j.row.category, p)

\* What another request's step means to a job: that it disturbs a move, or
\* puts a channel in p, of which the job has listed the children already.
Met(j, p) == IF p \in j.tree \/ Disturbs(j) THEN [j EXCEPT !.crossed = TRUE] ELSE j

\* Neither the type nor the guild of the parent is looked at.
CreateChannel(c, g, category, p, n) ==
  /\ c \notin used /\ used' = used \cup {c}
  /\ g \in server
  /\ category => p = None
  /\ p # None => chan[p] # None
  /\ chan' = [chan EXCEPT ![c] = [guild |-> g, category |-> category, parent |-> p, pos |-> n]]
  /\ job' = [s \in Workers |-> Met(job[s], p)]
  /\ UNCHANGED <<server, att, blob, url, history>>

\* moveChannel's checks and the reads of MoveChannel's transaction.
MoveChannel(s, c, p, n) ==
  /\ chan[c] # None
  /\ p # None => In(p, chan[c].guild) /\ chan[p].category
  /\ Start(s, [Idle EXCEPT !.pc = "gap", !.chan = c, !.guild = chan[c].guild, !.row = chan[c],
                           !.parent = p, !.pos = n])
  /\ UNCHANGED <<rows, blob, url, history>>

\* The transaction's own view of a position.
Position(j, x) ==
  chan[x].pos - (IF x \in j.down THEN 1 ELSE 0) + (IF x \in j.up THEN 1 ELSE 0)

FromNext(j) ==    \* mutant: the channel at the new position stays
  {x \in Scope(j.row.category, j.parent) \ {j.chan} : Position(j, x) > j.pos}

\* The rows the two UPDATEs of shiftPositions match: siblings after the old
\* position, and siblings from the new one on.
Above(j) == {x \in Scope(j.row.category, j.row.parent) \ {j.chan} : chan[x].pos > j.row.pos}
From(j) == {x \in Scope(j.row.category, j.parent) \ {j.chan} : Position(j, x) >= j.pos}

\* A row an open transaction has locked: others wait for its end.
Free(s, S) == \A w \in Workers \ {s} : job[w].held \cap S = {}
Locked(S) == {x \in S : chan[x] # None}

GapSnapshot(s) ==
  /\ At(s, "gap")
  /\ job' = [job EXCEPT ![s].pc = "gapping", ![s].hits = Above(job[s])]
  /\ UNCHANGED <<rows, blob, url, history>>

CloseGap(s) ==
  /\ At(s, "gapping")
  /\ LET j == job[s] IN
       /\ Free(s, j.hits)
       /\ job' = [job EXCEPT ![s].pc = "room", ![s].hits = {},
                             ![s].down = j.hits \cap Above(j), ![s].held = Locked(j.hits)]
  /\ UNCHANGED <<rows, blob, url, history>>

RoomSnapshot(s) ==
  /\ At(s, "room")
  /\ job' = [job EXCEPT ![s].pc = "rooming", ![s].hits = From(job[s])]
  /\ UNCHANGED <<rows, blob, url, history>>

MakeRoom(s) ==
  /\ At(s, "rooming")
  /\ LET j == job[s] IN
       /\ Free(s, j.hits)
       /\ job' = [job EXCEPT ![s].pc = "place", ![s].hits = {},
                             ![s].up = j.hits \cap From(j), ![s].held = @ \cup Locked(j.hits)]
  /\ UNCHANGED <<rows, blob, url, history>>

\* The channel's own UPDATE and the commit.  A parent that is gone by now
\* fails the transaction.
PlaceChannel(s) ==
  /\ At(s, "place")
  /\ LET j == job[s] IN
       /\ Free(s, {j.chan})
       /\ IF chan[j.chan] # None /\ j.parent # None /\ chan[j.parent] = None
          THEN Done(s) /\ UNCHANGED chan
          ELSE /\ chan' = [x \in Chans |->
                    IF chan[x] = None THEN None
                    ELSE IF x = j.chan THEN [chan[x] EXCEPT !.parent = j.parent, !.pos = j.pos]
                    ELSE [chan[x] EXCEPT !.pos = Position(j, x)]]
               /\ job' = [w \in Workers |-> IF w = s THEN Idle ELSE Met(job[w], j.parent)]
  /\ UNCHANGED <<server, used, att, blob, url, history>>

\* deleteChannel; the transaction of DeleteChannelTree lists the tree, takes
\* the storage keys, and deletes.
DeleteChannel(s, c) ==
  /\ chan[c] # None
  /\ Start(s, [Idle EXCEPT !.pc = "lookup", !.chan = c, !.guild = chan[c].guild])
  /\ UNCHANGED <<rows, blob, url, history>>

OnlyRoot(c, g) == {c}    \* mutant: the channels of a category are left to the schema

TreeOf(c, g) == {c} \cup IF chan[c].category THEN {x \in Children(c) : In(x, g)} ELSE {}

\* A channel of a category at the top of its guild, as createChannel and the
\* comment on DeleteChannelTree have it.
Flat(x) == LET p == chan[x].parent IN
           chan[p].category /\ chan[p].parent = None /\ chan[p].guild = chan[x].guild
Below(c) == Children(c) \cup UNION {Children(x) : x \in Children(c)}

DeleteChannelTree(s) ==
  /\ At(s, "lookup")
  /\ IF chan[job[s].chan] = None THEN Done(s)
     ELSE job' = [job EXCEPT ![s].pc = "keys", ![s].tree = TreeOf(job[s].chan, job[s].guild),
                             ![s].crossed = \E x \in Below(job[s].chan) : ~Flat(x)]
  /\ UNCHANGED <<rows, blob, url, history>>

KeysOfRoot(s) ==    \* mutant: the keys of the channel itself
  /\ At(s, "keys")
  /\ job' = [job EXCEPT ![s].pc = "delete", ![s].known = Len(att),
                        ![s].atts = {i \in Active : att[i].chan = job[s].chan}]
  /\ UNCHANGED <<rows, blob, url, history>>

StorageKeys(s) ==
  /\ At(s, "keys")
  /\ job' = [job EXCEPT ![s].pc = "delete", ![s].known = Len(att),
                        ![s].atts = {i \in Active : att[i].chan \in job[s].tree}]
  /\ UNCHANGED <<rows, blob, url, history>>

\* Channels whose parent is to go, and what the schema makes of the tables:
\* parent_id ON DELETE SET NULL, and the attachments go with their channel.
Left(gone) == (UNION {Children(c) : c \in gone}) \ gone
Cascade(gone) ==
  /\ chan' = [c \in Chans |-> IF c \in gone THEN None
                              ELSE IF c \in Left(gone) THEN [chan[c] EXCEPT !.parent = None]
                              ELSE chan[c]]
  /\ att' = [i \in DOMAIN att |->
               IF att[i].chan \in gone THEN [att[i] EXCEPT !.state = "gone"] ELSE att[i]]

\* The DELETE and the commit; then the objects of the keys are deleted.
DeleteRows(s) ==
  /\ At(s, "delete")
  /\ LET j == job[s]
         gone == {c \in j.tree : chan[c] # None}
     IN  /\ Free(s, gone \cup Left(gone))
         /\ Cascade(gone)
         /\ stray' = IF j.crossed THEN stray ELSE stray \cup Left(gone)
         /\ orphan' = orphan \cup {i \in Active : att[i].chan \in gone /\ i > j.known}
         /\ job' = [w \in Workers |-> IF w = s THEN [Idle EXCEPT !.pc = "unlink", !.atts = j.atts]
                                      ELSE Met(job[w], None)]
  /\ UNCHANGED <<server, used, blob, url, over>>

\* deleteServer: channels and attachments go by cascade, and no object does.
DeleteServer(g) ==
  /\ g \in server /\ server' = server \ {g}
  /\ LET gone == {c \in Chans : In(c, g)} IN
       /\ \A s \in Workers : job[s].held \cap (gone \cup Left(gone)) = {}
       /\ Cascade(gone)
  /\ orphan' = orphan \cup ActiveIn(g)
  /\ job' = [w \in Workers |-> Met(job[w], None)]
  /\ UNCHANGED <<used, blob, url, over, stray>>

\* Presigns of the guild that have still to evict, or to withdraw their row.
Pending(g) == {s \in Workers : job[s].pc \in {"list", "evict", "undo"} /\ job[s].att # 0
                                 /\ Live(job[s].att) /\ job[s].guild = g}

(***************************************************************************)
(* A statement fails, or the process stops.  Objects that were still to be *)
(* deleted stay.  Moves that wait for each other's rows are a deadlock,    *)
(* which the database ends by failing one of them.                         *)
(***************************************************************************)
Wanted(s) == IF At(s, "place") THEN {job[s].chan} ELSE job[s].hits
Deadlocked(s) ==
  \E D \in SUBSET Workers :
    s \in D /\ \A t \in D : \E w \in D \ {t} : job[w].held \cap Wanted(t) # {}

Abandon(s) ==
  /\ Faults \/ Deadlocked(s)
  /\ job[s] # Idle
  /\ \/ /\ job[s].att # 0 /\ job[s].pc \in {"list", "evict"}
        /\ Goto(s, "undo") /\ UNCHANGED over
     \/ /\ Done(s)
        /\ over' = IF s \in Pending(job[s].guild) THEN over \cup {job[s].guild} ELSE over
  /\ orphan' = IF At(s, "unlink") THEN orphan \cup job[s].atts ELSE orphan
  /\ UNCHANGED <<rows, blob, url, stray>>

Next ==
  \/ \E s \in Workers :
       \/ \E c \in Chans, n \in Sizes : Presign(s, c, n)
       \/ InsertAttachment(s) \/ EnforceGuildAttachmentQuota(s) \/ SoftDeleteAttachmentsByID(s)
       \/ DeleteObject(s) \/ PresignPut(s) \/ UndoPresign(s)
       \/ \E i \in DOMAIN att : DeleteAttachment(s, i) \/ ListExpiredAttachments(s, i)
       \/ \E c \in Chans, p \in Chans \cup {None}, n \in 0 .. MaxPos : MoveChannel(s, c, p, n)
       \/ GapSnapshot(s) \/ CloseGap(s) \/ RoomSnapshot(s) \/ MakeRoom(s) \/ PlaceChannel(s)
       \/ \E c \in Chans : DeleteChannel(s, c)
       \/ DeleteChannelTree(s) \/ StorageKeys(s) \/ DeleteRows(s) \/ Abandon(s)
  \/ \E i \in DOMAIN att : Upload(i)
  \/ \E g \in Guilds : DeleteServer(g)
  \/ \E c \in Chans, g \in Guilds, b \in BOOLEAN, p \in Chans \cup {None}, n \in 0 .. MaxPos :
       CreateChannel(c, g, b, p, n)

Spec == Init /\ [][Next]_vars

(***************************************************************************)
(* Properties.                                                             *)
(***************************************************************************)
\* The attachments of a guild exceed its quota by no more than the ones whose
\* presigns have still to evict, however these overlap, unless one broke off
\* in between (enforceGuildAttachmentQuota).
GuildQuotaHeld ==
  \A g \in Guilds \ over :
    Quota # None => Bytes(ActiveIn(g)) <= Quota + Bytes({job[s].att : s \in Pending(g)})

\* A live attachment that was uploaded keeps its object as long as it is live;
\* and the object of one that is not is about to be deleted, unless it was
\* uploaded after the row had gone, its deletion failed, its row came between
\* the reading of the keys and the DELETE (deleteChannel), or its guild was
\* deleted (deleteServer).
ObjectsFollowRows ==
  /\ \A s \in Workers : At(s, "unlink") => \A i \in job[s].atts : ~Live(i)
  /\ \A i \in blob : ~Live(i) =>
       i \in orphan \/ \E s \in Workers : At(s, "unlink") /\ i \in job[s].atts

\* The channels of a category go with it, unless one was put there after the
\* children were listed, or the tree is deeper than DeleteChannelTree takes
\* it to be (moveChannel nests categories, createChannel takes any parent).
TreeDeleted == stray = {}

Ordered(g) ==
  \A x, y \in Chans : In(x, g) /\ In(y, g) /\ x # y /\ chan[x].pos = chan[y].pos =>
    \/ chan[x].category # chan[y].category
    \/ ~chan[x].category /\ chan[x].parent # chan[y].parent

\* A move of a channel that is still where it was read ends.
Placed(s, g) == /\ At(s, "place") /\ job'[s] = Idle /\ g = job[s].guild
               /\ chan[job[s].chan] = job[s].row
FlatCategories(g) == \A x \in Chans : In(x, g) /\ chan[x].category => chan[x].parent = None

\* A move leaves the channels of its guild at different positions in each
\* scope if they were before, although deletions and moves in other scopes go
\* on between its statements; unless a channel has come to one of its scopes
\* or been shifted there since the move began, or a category is nested
\* (MoveChannel).
MoveKeepsOrder ==
  [][\A s \in Workers, g \in Guilds :
       Placed(s, g) /\ ~job[s].crossed /\ Ordered(g) /\ FlatCategories(g) => Ordered(g)']_vars

(***************************************************************************)
(* A statement a comment makes that the code does not meet.                *)
(***************************************************************************)
\* "shifting sibling channels to maintain a contiguous, collision-free
\* position sequence within each scope" (MoveChannel): no move of a channel
\* that is still where it was read makes two siblings collide.
MovesCollisionFree ==
  [][\A s \in Workers, g \in Guilds :
       Placed(s, g) /\ Ordered(g) /\ FlatCategories(g) => Ordered(g)']_vars
=============================================================================
