------------------------------- MODULE Groups -------------------------------
(***************************************************************************)
(* The groups of group/group.go: initGroup fills groupNum groups of        *)
(* memberNum nodes one member at a time, and start_num carries over from a *)
(* group to the next.  The loops are steps, so that every prefix of the    *)
(* assignment is a state.                                                  *)
(***************************************************************************)
EXTENDS Integers, FiniteSets

CONSTANTS MaxN, MaxGroups  \* bounds on the configurations that are checked

VARIABLES
    N, groupNum, memberNum, myId,  \* the configuration
    start_num, i, j,               \* the loops of initGroup
    groupList, myGroup

vars == <<N, groupNum, memberNum, myId, start_num, i, j, groupList, myGroup>>
config == <<N, groupNum, memberNum, myId>>

NewGroupManager ==
    /\ N \in 1..MaxN
    /\ groupNum \in 1..MaxGroups
    /\ memberNum \in 1..N
    /\ myId \in 1..N
    /\ start_num = 0 /\ i = 0 /\ j = 0
    /\ groupList = [g \in 0..(groupNum - 1) |-> {}]
    /\ myGroup = {}

\* Mutant: the next group does not step back by one.
NextGroupAhead ==
    /\ i < groupNum /\ j = memberNum
    /\ i' = i + 1 /\ j' = 0
    /\ UNCHANGED <<config, start_num, groupList, myGroup>>

\* The end of the outer loop's body.
NextGroup ==
    /\ i < groupNum /\ j = memberNum
    /\ start_num' = start_num - 1
    /\ i' = i + 1 /\ j' = 0
    /\ UNCHANGED <<config, groupList, myGroup>>

\* The body of the inner loop.
AddMember ==
    LET member_id == ((i + start_num) % N) + 1
    IN  /\ i < groupNum /\ j < memberNum
        /\ groupList' = [groupList EXCEPT ![i] = @ \cup {member_id}]
        /\ myGroup' = IF member_id = myId THEN myGroup \cup {i} ELSE myGroup
        /\ start_num' = start_num + 1
        /\ j' = j + 1
        /\ UNCHANGED <<config, i>>

Next == AddMember \/ NextGroup

Spec == NewGroupManager /\ [][Next]_vars

Done == i = groupNum

IsInMyGroup(groupId) == groupId \in myGroup

IsInGroup(groupId, node) == node \in groupList[groupId]

-----------------------------------------------------------------------------

\* The groups take the nodes in turn: group g gets the memberNum nodes after those
\* of the groups before it, counted around, so no two nodes differ by more than one
\* in the number of groups they serve.  What a node believes of itself, which
\* decides whether it keeps and executes a microblock, is what the group lists say
\* by which others send.
DealtInTurn ==
    Done =>
        /\ \A g \in 0..(groupNum - 1) :
              /\ groupList[g] = {((g * memberNum + m) % N) + 1 : m \in 0..(memberNum - 1)}
              /\ IsInMyGroup(g) <=> IsInGroup(g, myId)
        /\ \A a, b \in 1..N :
              Cardinality({g \in 0..(groupNum - 1) : IsInGroup(g, a)})
                 <= Cardinality({g \in 0..(groupNum - 1) : IsInGroup(g, b)}) + 1

=============================================================================
