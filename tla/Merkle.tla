------------------------------- MODULE Merkle -------------------------------
(***************************************************************************)
(* The Merkle tree of a batch of time stamps (CORE/merkle.py).  A digest   *)
(* is the term it is computed over, so digests collide where the bytes     *)
(* they are computed over are equal, and nowhere else.                     *)
(***************************************************************************)
EXTENDS Integers, Sequences

LEAF_PREFIX == "0"
NODE_PREFIX == "1"

\* The digest of a prefix and the bytes after it; two digests joined are a pair.
leaf_hash(data) == <<LEAF_PREFIX, data>>
node_hash(left, right) == <<NODE_PREFIX, <<left, right>>>>

build_leaves(payloads) == [i \in DOMAIN payloads |-> leaf_hash(payloads[i])]

\* Mutant: the odd one out is paired with itself.
UpDoubled(level) == [i \in 1..(Len(level) + 1) \div 2 |->
    node_hash(level[2 * i - 1], level[IF 2 * i <= Len(level) THEN 2 * i ELSE Len(level)])]
\* One level up: pairs, and the odd one out as it is.
Up(level) == [i \in 1..(Len(level) + 1) \div 2 |->
    IF 2 * i <= Len(level) THEN node_hash(level[2 * i - 1], level[2 * i]) ELSE level[Len(level)]]

\* The levels, the leaves first, up to the one of a single node.
build_tree(leaves) ==
    LET level[k \in 0..Len(leaves)] == IF k = 0 THEN leaves ELSE Up(level[k - 1])
        top == CHOOSE k \in 0..Len(leaves) : Len(level[k]) = 1 /\ \A j \in 0..k - 1 : Len(level[j]) > 1
    IN  [k \in 1..top + 1 |-> level[k - 1]]
root(tree) == tree[Len(tree)][1]

\* The sibling on each level that has one, and whether it stands to the right; positions
\* count from 0, and a level up there are half as many.
Sibling(at) == IF at % 2 = 0 THEN at + 1 ELSE at - 1
Climb(p, level) ==
    [at   |-> p.at \div 2,
     path |-> IF Sibling(p.at) < Len(level)
              THEN Append(p.path, [sibling |-> level[Sibling(p.at) + 1], right |-> p.at % 2 = 0])
              ELSE p.path]
proof(tree, index) ==
    LET p[k \in 0..Len(tree) - 1] ==
            IF k = 0 THEN [at |-> index, path |-> <<>>] ELSE Climb(p[k - 1], tree[k])
    IN  p[Len(tree) - 1].path

Walk(h, step) == IF step.right THEN node_hash(h, step.sibling) ELSE node_hash(step.sibling, h)
compute_root(leaf, path) ==
    LET h[k \in 0..Len(path)] == IF k = 0 THEN leaf ELSE Walk(h[k - 1], path[k])
    IN  h[Len(path)]
verify_proof(leaf, path, top) == compute_root(leaf, path) = top
=============================================================================
