------------------------------ MODULE Sharding ------------------------------
(***************************************************************************)
(* ThresholdSharder: Shamir sharing of a secret over a prime field, and    *)
(* the life of a sharing as the enrolment and resharding scripts drive it: *)
(* enrolment in epoch 1, nodes that leave, a new sharing of the same       *)
(* secret for the remaining nodes in epoch 2, installed node by node.      *)
(*                                                                         *)
(* The field is any prime field; the code's prime is 2^521 - 1.            *)
(***************************************************************************)
EXTENDS Integers, FiniteSets, FiniteSetsExt

CONSTANTS
    Prime,      \* self.prime
    Threshold,  \* self.t
    Total,      \* self.n of the first sharing
    Remaining,  \* self.n of the second
    Secrets,    \* int.from_bytes of the secrets that may be enrolled
    NoShard     \* a node that holds nothing

ASSUME ShardingAssumption ==
    /\ Prime \in Nat /\ Total \in Nat /\ Total < Prime
    /\ Threshold \in 1..Remaining /\ Remaining \in 1..Total
    /\ Secrets \subseteq Nat

VARIABLES
    secret,
    held,     \* the shard each node stores
    pending,  \* e2_data: the shards of epoch 2 still to be installed
    stage

shardingVars == <<secret, held, pending, stage>>

Field == 0..(Prime - 1)

-----------------------------------------------------------------------------
(* The arithmetic of the class *)

\* The value at x of the polynomial with coeffs[d] at degree d.
Polynomial(coeffs, x) ==
    MapThenSumSet(LAMBDA d : coeffs[d] * x ^ d, 0..(Threshold - 1)) % Prime

\* A bug: the nodes' points are counted one too far.
ShardSecretShifted(s, random, n, epoch) ==
    LET coeffs == [d \in 0..(Threshold - 1) |-> IF d = 0 THEN s ELSE random[d]]
    IN  [i \in 1..n |-> [epoch |-> epoch, y |-> Polynomial(coeffs, i + 1)]]

\* shard_secret: node i gets the value at i.  The random coefficients are
\* reduced modulo the prime, the secret is not.
ShardSecret(s, random, n, epoch) ==
    LET coeffs == [d \in 0..(Threshold - 1) |-> IF d = 0 THEN s ELSE random[d]]
    IN  [i \in 1..n |-> [epoch |-> epoch, y |-> Polynomial(coeffs, i)]]

\* pow(a, -1, prime)
InverseOf(a) == CHOOSE z \in 1..(Prime - 1) : (a * z) % Prime = 1

\* The Lagrange coefficient at zero of the point x among points.
LagrangeAtZero(x, points) ==
    MapThenFoldSet(LAMBDA a, b : (a * b) % Prime, 1,
                   LAMBDA j : ((0 - j) % Prime) * InverseOf((x - j) % Prime),
                   LAMBDA S : CHOOSE j \in S : TRUE,
                   points \ {x})

\* reconstruct_secret: y gives the shard of every point.
ReconstructSecret(points, y) ==
    MapThenSumSet(LAMBDA x : y[x] * LagrangeAtZero(x, points), points) % Prime

\* Lagrange's theorem for the formulas of the class, a fact about numbers and
\* not about a sharing: a polynomial below degree Threshold is reconstructed
\* from its values at any Threshold points.
Interpolates ==
    \A coeffs \in [0..(Threshold - 1) -> Secrets \cup Field] :
        \A S \in kSubset(Threshold, 1..Total) :
            ReconstructSecret(S, [x \in S |-> Polynomial(coeffs, x)])
              = coeffs[0] % Prime

-----------------------------------------------------------------------------
(* The scripts *)

Random == [1..(Threshold - 1) -> Field]
Nothing == [i \in 1..Remaining |-> NoShard]

\* A node with a shard is told from one without.
ASSUME NoShardAssumption ==
    \A s \in Secrets, r \in Random, e \in {1, 2} :
        \A i \in 1..Total : ShardSecret(s, r, Total, e)[i] # NoShard

ShardingInit ==
    /\ secret \in Secrets
    /\ \E r \in Random : held = ShardSecret(secret, r, Total, 1)
    /\ pending = Nothing
    /\ stage = "enrolled"

\* The nodes above Remaining are decommissioned.
Leave ==
    /\ stage = "enrolled"
    /\ stage' = "left"
    /\ held' = [i \in 1..Total |-> IF i > Remaining THEN NoShard ELSE held[i]]
    /\ UNCHANGED <<secret, pending>>

\* The same secret is shared anew among the remaining nodes.
Reshard(r) ==
    /\ stage = "left"
    /\ stage' = "resharding"
    /\ pending' = ShardSecret(secret, r, Remaining, 2)
    /\ UNCHANGED <<secret, held>>

\* A node's shard is replaced.
Install(i) ==
    /\ stage = "resharding"
    /\ pending[i] # NoShard
    /\ held' = [held EXCEPT ![i] = pending[i]]
    /\ pending' = [pending EXCEPT ![i] = NoShard]
    /\ UNCHANGED <<secret, stage>>

ShardingNext ==
    \/ Leave
    \/ \E r \in Random : Reshard(r)
    \/ \E i \in 1..Remaining : Install(i)

ShardingSpec == ShardingInit /\ [][ShardingNext]_shardingVars

-----------------------------------------------------------------------------
(* Properties *)

Holders(e) == {i \in 1..Total : held[i] # NoShard /\ held[i].epoch = e}

\* "default: 3-of-5", "dynamic length handling": at any moment, any Threshold
\* nodes that hold shards of one epoch reconstruct the secret, before and
\* after nodes leave and while the new sharing is installed node by node.  Of
\* a secret that is not below the prime, which is accepted like any other,
\* they reconstruct the same remainder.
ThresholdReconstructs ==
    \A e \in {1, 2} :
        \A S \in kSubset(Threshold, Holders(e)) :
            ReconstructSecret(S, [x \in S |-> held[x].y]) = secret % Prime
=============================================================================
