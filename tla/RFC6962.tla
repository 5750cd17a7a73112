------------------------------- MODULE RFC6962 -------------------------------
(***************************************************************************)
(* The tree of internal/transparency/tree.go against the definitions of    *)
(* RFC 6962, section 2.1, which the comments of that file refer to: the    *)
(* Merkle tree hash and the audit path, both recursive, and split at the   *)
(* largest power of two smaller than the number of leaves.  Data is        *)
(* appended one leaf after the other, whatever it is.                      *)
(***************************************************************************)
EXTENDS MerkleTree

CONSTANTS
  Data,       \* leaf data
  MaxLeaves   \* bound of the number of leaves

VARIABLE added   \* the data appended so far

ASSUME DataAssumption == MaxLeaves \in Nat

TreeInit == added = <<>>

AppendLeaf(d) == Len(added) < MaxLeaves /\ added' = Append(added, d)

TreeNext == \E d \in Data : AppendLeaf(d)

TreeSpec == TreeInit /\ [][TreeNext]_added

Split(n) == CHOOSE k \in {2^e : e \in 0 .. n} : k < n /\ n <= 2 * k

\* RunHashes(D)[n][i] is the Merkle tree hash of the n data of D from index i,
\* indices counted from zero.
RunHashes(D) ==
  LET hash[n \in 0 .. Len(D)] ==
        [i \in 0 .. Len(D) - n |->
           IF n = 0 THEN ZeroHash
           ELSE IF n = 1 THEN LeafHash(D[i + 1])
           ELSE NodeHash(hash[Split(n)][i], hash[n - Split(n)][i + Split(n)])]
  IN  hash
MTH(D) == RunHashes(D)[Len(D)][0]

\* RunPaths(D, m)[n][i] is the audit path of the leaf at index m in the tree of
\* these n data.
RunPaths(D, m) ==
  LET path[n \in 0 .. Len(D)] ==
        [i \in 0 .. Len(D) - n |->
           IF n <= 1 THEN <<>>
           ELSE IF m < i + Split(n)
             THEN Append(path[Split(n)][i], RunHashes(D)[n - Split(n)][i + Split(n)])
             ELSE Append(path[n - Split(n)][i + Split(n)], RunHashes(D)[Split(n)][i])]
  IN  path
PATH(m, D) == RunPaths(D, m)[Len(D)][0]

Built(D) == FoldLeft(Append1, NewMerkleTree, D)

\* The root folded from the fringe, which Append maintains without looking at
\* the leaves, is the Merkle tree hash of all data appended, and Proof, which
\* walks rows with promoted odd nodes, returns the audit path of every leaf.
TreeIsRFC6962 ==
  LET t == Built(added) IN
  /\ Root(t) = MTH(added)
  /\ \A m \in 0 .. t.size - 1 : Proof(t, m) = PATH(m, added)

\* VerifyProof accepts the proof of every leaf; no proof the tree can give,
\* for this or another index, makes it accept other data; and proof and root
\* must come from one tree: the proof of the tree before the last append fails
\* under the new root and the new proof under the old root, which is what
\* GetProof, reading the two under separate locks, relies on clients to find.
VerifyExact ==
  LET t == Built(added)
      before == Built(Front(added))
  IN  /\ \A m, j \in 0 .. t.size - 1, d \in Data :
           /\ VerifyProof(added[m + 1], m, t.size, Proof(t, m), Root(t))
           /\ VerifyProof(d, j, t.size, Proof(t, m), Root(t)) => d = added[j + 1]
      /\ \A m \in 0 .. t.size - 2 :
           /\ ~VerifyProof(added[m + 1], m, t.size, Proof(before, m), Root(t))
           /\ ~VerifyProof(added[m + 1], m, before.size, Proof(t, m), Root(before))
=============================================================================
