------------------------------ MODULE MerkleTree ------------------------------
(***************************************************************************)
(* The append-only Merkle tree of internal/transparency/tree.go.  Hashes   *)
(* are symbolic: SHA-256 with the 0x00 and 0x01 prefixes of RFC 6962 is an *)
(* injective pair of constructors that never agree.                        *)
(*                                                                         *)
(* A tree is [leaves, fringe, size] as in the code: leaves is what Proof   *)
(* rebuilds the tree from, fringe and size are what Append and Root use.   *)
(***************************************************************************)
EXTENDS Integers, Sequences, SequencesExt

LeafHash(data) == <<"leaf", data>>
NodeHash(left, right) == <<"node", left, right>>
ZeroHash == <<"zero">>

NewMerkleTree == [leaves |-> <<>>, fringe |-> <<>>, size |-> 0]

\* Recovery: the fringe and size of a tree head, then the leaf hashes.
FromFringe(fringe, size) == [leaves |-> <<>>, fringe |-> fringe, size |-> size]
SetLeaves(t, hashes) == [t EXCEPT !.leaves = hashes]

\* How often Append's loop "for n > 0 && n%2 == 1 { ...; n /= 2 }" runs.
Merges(n) == CHOOSE k \in 0 .. n : n % 2^k = 2^k - 1 /\ (n \div 2^k) % 2 = 0

\* The last Merges(size) hashes of the fringe are folded into the new leaf.
Append1(t, data) ==
  LET keep == Len(t.fringe) - Merges(t.size)
      carry == FoldRight(NodeHash, SubSeq(t.fringe, keep + 1, Len(t.fringe)),
                         LeafHash(data))
  IN  [leaves |-> Append(t.leaves, LeafHash(data)),
       fringe |-> Append(SubSeq(t.fringe, 1, keep), carry),
       size   |-> t.size + 1]

Root(t) == IF t.size = 0 THEN ZeroHash
           ELSE FoldRight(NodeHash, Front(t.fringe), Last(t.fringe))

\* bits.Len64(size - 1): the levels above the leaves.
TreeDepth(size) == IF size <= 1 THEN 0 ELSE CHOOSE d \in 1 .. size :
                                              2^(d-1) < size /\ size <= 2^d

\* buildTree: size leaves, missing ones zero and surplus ones cut, then level
\* by level; an odd last node is promoted as it is.
Row(leaves, size) == [i \in 1 .. size |-> IF i <= Len(leaves) THEN leaves[i] ELSE ZeroHash]
ParentsDuplicated(row) ==    \* mutant: an odd last node is paired with itself
  [i \in 1 .. (Len(row) + 1) \div 2 |->
     NodeHash(row[2*i - 1], row[IF 2 * i <= Len(row) THEN 2*i ELSE 2*i - 1])]
Parents(row) == [i \in 1 .. (Len(row) + 1) \div 2 |->
                   IF 2 * i <= Len(row) THEN NodeHash(row[2*i - 1], row[2*i])
                   ELSE row[2*i - 1]]
BuildTree(leaves, size) ==
  LET level[k \in 0 .. TreeDepth(size)] ==
        IF k = 0 THEN Row(leaves, size) ELSE Parents(level[k - 1])
  IN  level

\* The sibling on every level, none where the node is promoted.
Proof(t, leafIndex) ==
  LET levels == BuildTree(t.leaves, t.size)
      Sibling(k) ==
        LET idx == leafIndex \div 2^k
            row == levels[k]
        IN  IF idx % 2 = 1 THEN <<row[idx]>>
            ELSE IF idx + 1 < Len(row) THEN <<row[idx + 2]>> ELSE <<>>
  IN  FlattenSeq([k \in 1 .. TreeDepth(t.size) |-> Sibling(k - 1)])

Promoted(idx, n) == idx % 2 = 0 /\ idx + 1 >= n

AcceptsPrefix(end, expectedRoot) == end.ok /\ end.hash = expectedRoot    \* mutant
Accepts(end, expectedRoot) == end.ok /\ end.rest = <<>> /\ end.hash = expectedRoot

\* The loop of VerifyProof: state after level k, with the row length n, the
\* hash so far and the path still to consume.
VerifyProof(data, leafIndex, treeSize, path, expectedRoot) ==
  LET Step(acc, k) ==
        LET idx == leafIndex \div 2^k
            next == (acc.n + 1) \div 2
        IN  IF ~acc.ok \/ Promoted(idx, acc.n) THEN [acc EXCEPT !.n = next]
            ELSE IF acc.rest = <<>> THEN [acc EXCEPT !.ok = FALSE]
            ELSE [ok |-> TRUE, n |-> next, rest |-> Tail(acc.rest),
                  hash |-> IF idx % 2 = 0 THEN NodeHash(acc.hash, Head(acc.rest))
                           ELSE NodeHash(Head(acc.rest), acc.hash)]
      end == FoldLeft(Step, [ok |-> TRUE, n |-> treeSize, rest |-> path,
                             hash |-> LeafHash(data)],
                      [k \in 1 .. TreeDepth(treeSize) |-> k - 1])
  IN  leafIndex < treeSize /\ Accepts(end, expectedRoot)
=============================================================================
