------------------------------ MODULE MCChannels ------------------------------
(***************************************************************************)
(* Instances of Channels for TLC.                                          *)
(***************************************************************************)
EXTENDS Channels, TLC

CONSTANTS g1, Scenarios

VARIABLE scenario    \* which requests a behaviour makes

Existing == {c \in Chans : chan[c] # None}
Jobs(pcs) == \A s \in Workers : job[s].pc \in pcs \cup {"idle"}

OneGuild == \A c \in Existing : chan[c].guild = g1
At0 == \A c \in Existing : chan[c].pos = 0

Movers == {s \in Workers : job[s].pc \in Moving}

\* Every scope has positions from 0 on, as the clients number them.
Neat == /\ Ordered(g1) /\ FlatCategories(g1)
        /\ \A c \in Existing : chan[c].pos < Cardinality(Scope(chan[c].category, chan[c].parent))

\* Quota: presigns in two channels, before any upload.  Files: two attachments
\* of one guild, each as large as the quota, and all that deletes them.
\* Order: two moves at a time in one guild, or one after the other in two, to
\* the first two positions; no guild is deleted.  Tree: moves to the first
\* position that cross deletions, in one guild.
Bounds ==
  \/ /\ scenario = "quota" /\ OneGuild /\ blob = {} /\ orphan = {} /\ At0 /\ Cardinality(used) <= 2
     /\ \A c \in Existing : ~chan[c].category /\ chan[c].parent = None
     /\ Jobs({"insert", "list", "evict", "unlink", "sign", "undo"})
     /\ \A s \in Workers : job[s].pc \in {"evict", "unlink"} => job[s].att # 0
  \/ /\ scenario = "files" /\ At0 /\ OneGuild /\ Cardinality(used) <= 2 /\ Len(att) <= 2
     /\ Movers = {} /\ \A s \in Workers : job[s].size \in {0, Quota}
     /\ \A s \in Workers : At(s, "insert") /\ job[s].chan \in Existing => ~chan[job[s].chan].category
     /\ Cardinality(used) = 2 => \A c \in Existing : chan[c].category \/ chan[c].parent # None
  \/ /\ scenario = "order" /\ Jobs(Moving) /\ server = Guilds
     /\ \A c \in Existing : chan[c].pos <= MaxPos
     /\ \A s \in Movers : job[s].pos <= 1 /\ (Cardinality(Movers) > 1 => OneGuild)
  \/ /\ scenario = "tree" /\ OneGuild /\ Jobs(Moving \cup {"lookup", "keys", "delete", "unlink"})
     /\ \A c \in Existing : chan[c].pos <= 1
     /\ Cardinality(Movers) <= 1 /\ \A s \in Movers : job[s].pos = 0

\* The channels are made first.
MCInit == Init /\ scenario \in Scenarios
MCNext ==
  /\ Next /\ UNCHANGED scenario /\ Bounds' /\ server' \cup {g1} = Guilds
  /\ used' # used => Jobs({}) /\ att = <<>> /\ used = Existing
  /\ scenario = "tree" /\ used' # used => At0'
  /\ scenario = "order" => /\ \A c \in used' \ used : LET r == chan'[c] IN
                                r.pos = Cardinality(Scope(r.category, r.parent))
                           /\ Cardinality(Movers) = 1 /\ Cardinality(Movers') = 2 => Neat
MCSpec == MCInit /\ [][MCNext]_<<vars, scenario>>

Interchangeable == Permutations(Chans) \cup Permutations(Workers)
=============================================================================
