--------------------------- MODULE TransparencyLog ---------------------------
(***************************************************************************)
(* The key transparency log (internal/transparency/service.go with the     *)
(* tables of internal/db/transparency.go): an in-memory Merkle tree under  *)
(* a mutex, two tables it is persisted to in two statements, recovery at   *)
(* start, and proof requests that take the mutex several times.            *)
(*                                                                         *)
(* An entry stands for its deterministic CBOR encoding.  Signatures over   *)
(* entries and heads bind what they sign and are left out.                 *)
(***************************************************************************)
EXTENDS MerkleTree, FiniteSets

CONSTANTS
  Entries,     \* log entries the handlers append
  Owner,       \* the public key of every entry
  PubKeys,     \* public keys
  Readers,     \* proof requests that can be in flight at once
  LogFaults,   \* a part of {"entry", "head", "crash"}: what may fail
  MaxSize,     \* bound of the in-memory tree
  MaxRestarts, \* bound of the restarts
  NoEntry

VARIABLES
  tree,      \* TransparencyService.tree
  append,    \* the append that holds the mutex: its phase, entry and index
  entries,   \* transparency_log_entries: leaf_index -> entry, UNIQUE
  heads,     \* transparency_tree_heads: tree_size -> fringe
  receipts,  \* history: the AppendResults handed to clients
  reader,    \* GetProof requests
  restarts,  \* history: number of restarts
  faults     \* history: the faults that left log and heads apart

logVars == <<tree, append, entries, heads, receipts, reader, restarts, faults>>

Free == [phase |-> "free", entry |-> NoEntry, index |-> 0]
Quiet == [pc |-> "idle", found |-> {}, root |-> ZeroHash, size |-> 0, proofs |-> {}]

ASSUME LogAssumption ==
  /\ Owner \in [Entries -> PubKeys]
  /\ LogFaults \subseteq {"entry", "head", "crash"}
  /\ MaxSize \in Nat /\ MaxRestarts \in Nat
  /\ NoEntry \notin Entries

LogInit ==
  /\ tree = NewMerkleTree
  /\ append = Free
  /\ entries = <<>>              \* a function with an empty domain
  /\ heads = <<>>
  /\ receipts = {}
  /\ reader = [p \in Readers |-> Quiet]
  /\ restarts = 0
  /\ faults = {}

Insert(table, key, value) ==
  [k \in DOMAIN table \cup {key} |-> IF k = key THEN value ELSE table[k]]

(***************************************************************************)
(* AppendEntry.  The mutex is taken before the tree grows and held over    *)
(* both INSERTs.                                                           *)
(***************************************************************************)
AppendToTree(e) ==
  /\ append = Free
  /\ tree.size < MaxSize
  /\ append' = [phase |-> "entry", entry |-> e, index |-> tree.size]
  /\ tree' = Append1(tree, e)
  /\ UNCHANGED <<entries, heads, receipts, reader, restarts, faults>>

UpsertLogEntry ==    \* mutant: ON CONFLICT DO UPDATE
  /\ append.phase = "entry"
  /\ entries' = Insert(entries, append.index, append.entry)
  /\ append' = [append EXCEPT !.phase = "head"]
  /\ UNCHANGED <<tree, heads, receipts, reader, restarts, faults>>

\* InsertLogEntry.  An error, a taken leaf_index among them, is returned to
\* the caller; the tree keeps the leaf.
InsertLogEntry ==
  /\ append.phase = "entry"
  /\ IF append.index \in DOMAIN entries
     THEN append' = Free /\ UNCHANGED <<entries, faults>>
     ELSE \/ /\ entries' = Insert(entries, append.index, append.entry)
             /\ append' = [append EXCEPT !.phase = "head"]
             /\ UNCHANGED faults
          \/ /\ "entry" \in LogFaults
             /\ append' = Free
             /\ faults' = faults \cup {"entry"}
             /\ UNCHANGED entries
  /\ UNCHANGED <<tree, heads, receipts, reader, restarts>>

\* InsertTreeHead, an upsert whose failure is only logged, and the result.
InsertTreeHead ==
  /\ append.phase = "head"
  /\ \/ heads' = Insert(heads, tree.size, tree.fringe) /\ UNCHANGED faults
     \/ "head" \in LogFaults /\ faults' = faults \cup {"head"} /\ UNCHANGED heads
  /\ receipts' = receipts \cup
       {[entry |-> append.entry, index |-> append.index,
         size |-> tree.size, root |-> Root(tree),
         path |-> Proof(tree, append.index)]}
  /\ append' = Free
  /\ UNCHANGED <<tree, entries, reader, restarts>>

(***************************************************************************)
(* Restart: the process is gone, RecoverFromDB rebuilds the tree.  A crash *)
(* before the entry is stored loses nothing; one between the two inserts   *)
(* loses the head.                                                         *)
(***************************************************************************)
GetAllLeafHashes ==     \* ORDER BY leaf_index; an index that is missing is skipped
  LET Before(k) == Cardinality({j \in DOMAIN entries : j < k})
  IN  [i \in 1 .. Cardinality(DOMAIN entries) |->
         LeafHash(entries[CHOOSE k \in DOMAIN entries : Before(k) = i - 1])]

RecoverOldest ==    \* mutant: ORDER BY tree_size ASC
  IF DOMAIN heads = {} THEN NewMerkleTree
  ELSE LET size == CHOOSE n \in DOMAIN heads : \A m \in DOMAIN heads : m >= n
       IN  SetLeaves(FromFringe(heads[size], size), GetAllLeafHashes)

RecoverFromDB ==
  IF DOMAIN heads = {} THEN NewMerkleTree
  ELSE LET size == CHOOSE n \in DOMAIN heads : \A m \in DOMAIN heads : m <= n
       IN  SetLeaves(FromFringe(heads[size], size), GetAllLeafHashes)

Restart ==
  /\ restarts < MaxRestarts
  /\ append = Free \/ "crash" \in LogFaults
  /\ tree' = RecoverFromDB
  /\ append' = Free
  /\ reader' = [p \in Readers |-> Quiet]
  /\ restarts' = restarts + 1
  /\ faults' = IF append.phase = "head" THEN faults \cup {"crash"} ELSE faults
  /\ UNCHANGED <<entries, heads, receipts>>

(***************************************************************************)
(* GetProof: the entries of a key without the mutex, root and size under   *)
(* it, then every audit path under it again.                               *)
(***************************************************************************)
GetLogEntriesByPubKey(p, k) ==
  /\ reader[p] = Quiet
  /\ LET found == {i \in DOMAIN entries : Owner[entries[i]] = k} IN
       /\ found # {}
       /\ reader' = [reader EXCEPT ![p].pc = "root", ![p].found = found]
  /\ UNCHANGED <<tree, append, entries, heads, receipts, restarts, faults>>

ReadRoot(p) ==
  /\ reader[p].pc = "root"
  /\ append = Free
  /\ reader' = [reader EXCEPT ![p].pc = "paths", ![p].root = Root(tree),
                              ![p].size = tree.size]
  /\ UNCHANGED <<tree, append, entries, heads, receipts, restarts, faults>>

\* A proof that cannot be made, the index being outside the tree, is left out.
ReadPath(p) ==
  /\ reader[p].pc = "paths"
  /\ append = Free
  /\ \E i \in reader[p].found :
       reader' = [reader EXCEPT ![p].found = @ \ {i},
         ![p].proofs = @ \cup (IF i >= tree.size THEN {} ELSE
            {[index |-> i, entry |-> entries[i], path |-> Proof(tree, i),
              at |-> tree.size]})]
  /\ UNCHANGED <<tree, append, entries, heads, receipts, restarts, faults>>

Respond(p) ==
  /\ reader[p].pc = "paths" /\ reader[p].found = {}
  /\ reader' = [reader EXCEPT ![p] = Quiet]
  /\ UNCHANGED <<tree, append, entries, heads, receipts, restarts, faults>>

LogNext ==
  \/ \E e \in Entries : AppendToTree(e)
  \/ InsertLogEntry
  \/ InsertTreeHead
  \/ Restart
  \/ \E p \in Readers : \/ \E k \in PubKeys : GetLogEntriesByPubKey(p, k)
                        \/ ReadRoot(p) \/ ReadPath(p) \/ Respond(p)

LogSpec == LogInit /\ [][LogNext]_logVars

(***************************************************************************)
(* Properties.                                                             *)
(***************************************************************************)
\* The tree built from entries 0 .. n-1 of the table.
LogTree(n) == FoldLeft(Append1, NewMerkleTree, [i \in 1 .. n |-> entries[i - 1]])

\* Between two appends the tree in memory is the tree of the stored entries:
\* no entry is missing from the tree and no leaf is missing from the table.
TreeMatchesLog ==
  append = Free => /\ DOMAIN entries = 0 .. tree.size - 1
                   /\ tree = LogTree(tree.size)

\* What a client holds a receipt for stays in the log at the index it was
\* given, through failed inserts, lost heads and restarts.
ReceiptsKept ==
  \A r \in receipts : r.index \in DOMAIN entries /\ entries[r.index] = r.entry

\* The root in a receipt commits to the stored entries up to it, and the audit
\* path in the receipt proves the entry under that root (AppendEntry).
ReceiptCommits(r) ==
  /\ (0 .. r.size - 1) \subseteq DOMAIN entries
  /\ r.root = Root(LogTree(r.size))
  /\ VerifyProof(r.entry, r.index, r.size, r.path, r.root)

Verifies(p, proof) ==
  VerifyProof(proof.entry, proof.index, reader[p].size, proof.path, reader[p].root)

\* Through any sequence of appends and restarts in which no insert failed and
\* no crash fell between the two inserts, the tree is the tree of the table
\* (RecoverFromDB), every receipt, those of a recovered tree among them, proves
\* its entry against the stored log, and a proof that GetProof returns fails to
\* verify only because the log grew between reading the root and the path.
SoundUnlessFaulted ==
  faults = {} =>
    /\ TreeMatchesLog
    /\ \A r \in receipts : ReceiptCommits(r)
    /\ \A p \in Readers : \A proof \in reader[p].proofs :
         proof.at = reader[p].size => Verifies(p, proof)

(***************************************************************************)
(* Statements the comments of the code make that its behaviour does not    *)
(* meet; README.md, "Known deviations", gives the constants that show it.  *)
(***************************************************************************)
\* SetLeaves' contract: as many leaf hashes as the tree has leaves.
LeavesMatchSize == Len(tree.leaves) = tree.size

\* Every proof GetProof returns verifies against the root and the tree size
\* it returns with it.
ProofsVerify == \A p \in Readers : \A proof \in reader[p].proofs : Verifies(p, proof)
=============================================================================
