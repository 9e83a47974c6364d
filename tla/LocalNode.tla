----------------------------- MODULE LocalNode ------------------------------
(***************************************************************************)
(* The local node's view of the quorums (scp/LocalNode.cpp): its own       *)
(* quorum set mQSet and, for each node it heard from, the quorum set of    *)
(* that node's latest statement.  The operators of QuorumSets are compared *)
(* here with what the paper, and the comments of LocalNode.h, say they     *)
(* compute: slices, v-blocking sets and quorums.                           *)
(***************************************************************************)
EXTENDS QuorumSets

CONSTANTS Node,          \* node identifiers
          ConfigQSets,   \* quorum sets the configuration may give the local node
          StmtQSets,     \* quorum sets the statements of other nodes may name
          MaxWeight      \* stands for UINT64_MAX

ASSUME ConfigAssumption ==
    \A q \in ConfigQSets : isQuorumSetSane(q, FALSE)

ASSUME StmtAssumption ==
    \A q \in StmtQSets : isQuorumSetSane(q, FALSE)

VARIABLES mQSet,     \* LocalNode::mQSet
          envQSet    \* node -> quorum set of its latest statement (partial)

vars == <<mQSet, envQSet>>

\* The constructor normalises the configured set.
Init ==
    /\ \E q \in ConfigQSets : mQSet = normalizeQSet(q, {})
    /\ envQSet = <<>>

\* SCP::updateLocalQuorumSet stores the set as it is given.
updateQuorumSet ==
    \E q \in ConfigQSets : mQSet' = q /\ UNCHANGED envQSet

\* A statement that names quorum set q becomes the latest one of node n.
recordStatement(n, q) ==
    /\ envQSet' = [m \in DOMAIN envQSet \cup {n} |-> IF m = n THEN q ELSE envQSet[m]]
    /\ UNCHANGED mQSet

Next == updateQuorumSet \/ \E n \in Node, q \in StmtQSets : recordStatement(n, q)

Spec == Init /\ [][Next]_vars

-----------------------------------------------------------------------------
(* Reference definitions. *)

\* The slices of a quorum set, spelt out: the unions of enough of its entries.
RECURSIVE Slices(_)
Slices(q) ==
    LET choices == [i \in 1..Entries(q) |->
                       IF i <= Len(q.validators)
                       THEN {{q.validators[i]}}
                       ELSE Slices(q.innerSets[i - Len(q.validators)])]
        pick(I) == {UNION {f[i] : i \in I} :
                       f \in {g \in [I -> UNION {choices[i] : i \in I}] :
                                 \A i \in I : g[i] \in choices[i]}}
    IN  UNION {pick(I) : I \in kSubset(q.threshold, 1..Entries(q))}

HasSlice(q, S) == \E s \in Slices(q) : s \subseteq S

\* A statement names its quorum set by hash: the set itself may be one that nobody
\* has sent yet.  Those the node can look up, when the quorum set "gone" is not there.
Lacking == {{}} \cup {{q} : q \in Range(envQSet)}
LookUp(gone) ==
    Restrict(envQSet, {n \in DOMAIN envQSet : envQSet[n] \notin gone})

\* V is a quorum when it holds a slice of each of its members.
IsQuorumOf(V, qf) == \A n \in V : n \in DOMAIN qf /\ HasSlice(qf[n], V)

\* The nodes the members of S depend on, through the quorum sets of qf.
RECURSIVE Reach(_, _)
Reach(S, qf) ==
    LET T == S \cup UNION {forAllNodes(qf[n]) : n \in S \cap DOMAIN qf}
    IN  IF T = S THEN S ELSE Reach(T, qf)

\* S satisfies the quorum set, or a set in it.
RECURSIVE SatisfiedWithin(_, _)
SatisfiedWithin(q, S) ==
    \/ isQuorumSlice(q, S)
    \/ \E i \in DOMAIN q.innerSets : SatisfiedWithin(q.innerSets[i], S)

-----------------------------------------------------------------------------
(* Properties. *)

\* isQuorumSlice accepts a set of nodes exactly when it contains a slice, and
\* isVBlocking exactly when it meets every slice: the countdowns of
\* isQuorumSliceInternal and isVBlockingInternal, which enumerate no slices.
SliceTestsAreExact ==
    \A S \in SUBSET Node :
        /\ isQuorumSlice(mQSet, S) <=> HasSlice(mQSet, S)
        /\ isVBlocking(mQSet, S) <=> \A s \in Slices(mQSet) : s \cap S # {}

\* normalizeQSet changes the shape of a quorum set and not its slices, keeps it
\* sane, and normalising twice is normalising once: the quorum set hash the
\* constructor publishes stands for what was configured.
NormalizeKeepsMeaning ==
    LET q == normalizeQSet(mQSet, {})
    IN  /\ \A S \in SUBSET Node : isQuorumSlice(q, S) <=> isQuorumSlice(mQSet, S)
        /\ isQuorumSetSane(q, FALSE)
        /\ normalizeQSet(q, {}) = q

\* findClosestVBlocking returns a smallest set of agreeing nodes whose failure,
\* together with the nodes that do not agree, blocks the quorum set (the "fail_at"
\* and "fail_with" of the info command): for a configuration, and for the node whose
\* quorum set it is, which does not fail.  A set that this node satisfies alone cannot
\* be blocked; the code takes it to be, also where it is an inner set.
ClosestVBlockingIsSmallest ==
    \A agree \in SUBSET Node, excluded \in {{}} \cup {{n} : n \in Node} :
        LET others    == agree \ excluded
            blocks(F) == isVBlocking(mQSet, (Node \ (agree \cup excluded)) \cup F)
            res       == ToSet(findClosestVBlocking(mQSet, agree, excluded))
        IN  ~ SatisfiedWithin(mQSet, excluded) =>
                /\ res \subseteq others
                /\ blocks(res)
                /\ \A F \in SUBSET others : blocks(F) => Cardinality(res) <= Cardinality(F)

\* getNodeWeight is 0 exactly for the nodes outside the quorum set, and never
\* above the maximum: nomination gives every node of the set a chance to lead.
WeightIsPositiveExactlyInside ==
    \A n \in Node :
        LET w == getNodeWeight(n, mQSet, MaxWeight)
        IN  /\ w <= MaxWeight
            /\ w > 0 <=> n \in forAllNodes(mQSet)

\* isQuorum finds a quorum among the nodes whose statement passes the filter
\* exactly when there is one that holds a slice of the local node: dropping
\* nodes until nothing changes loses no quorum (LocalNode.h: "for each v \in V
\* there is q \in Q(v) included in V and we have quorum on V").  A node whose
\* quorum set is not available is in no quorum.
QuorumTestIsExact ==
    \A gone \in Lacking, P \in SUBSET DOMAIN envQSet :
        isQuorum(mQSet, P, LookUp(gone))
            <=> \E V \in SUBSET P : IsQuorumOf(V, LookUp(gone)) /\ HasSlice(mQSet, V)

\* isNodeInQuorum answers TRUE for the nodes reachable through the quorum sets
\* that are available, and FALSE only when every node it reached has a statement
\* whose quorum set is: nothing it could not look up might lead to the node.
NodeInQuorumIsReachability ==
    \A gone \in Lacking, local, node \in Node :
        LET res == isNodeInQuorum(local, node, [n \in DOMAIN envQSet |-> {envQSet[n]}],
                                  StmtQSets \ gone)
            reached == Reach({local}, LookUp(gone))
        IN  /\ res = "TRUE" <=> node \in reached
            /\ res = "FALSE" <=> node \notin reached /\ reached \subseteq DOMAIN LookUp(gone)

\* Every question that is answered from the node's own quorum set alone.
OwnQueriesAreExact ==
    SliceTestsAreExact /\ ClosestVBlockingIsSmallest /\ WeightIsPositiveExactlyInside

\* Every question that is answered from the quorum sets of the latest statements,
\* whatever their order, and however many statements, or which of their
\* quorum sets, are missing.
ViewQueriesAreExact == QuorumTestIsExact /\ NodeInQuorumIsReachability
=============================================================================
