----------------------------- MODULE MCSysNodes -----------------------------
(***************************************************************************)
(* Small instances of SysNodes for TLC.                                    *)
(***************************************************************************)
EXTENDS SysNodes, TLC

CONSTANTS k1, K1, k2, n1, n2

\* Two spellings of one key, and a key with a quotation mark.
LowerCase == [k \in Keys |-> IF k = K1 THEN k1 ELSE k]

\* "n1" and "n2", "n1|n2", the empty name, and the name of the list.
SomeNames == {<<n1>>, <<n2>>, <<n1, n2>>, <<Blank>>, <<dbKey>>}

\* Two nodes behind one address, on different ports.
OneHost ==
    {[ips |-> {"10.0.0.1", "192.168.0.1"}, ports |-> {6791, 16791}],
     [ips |-> {"192.168.0.1", "192.168.0.2"}, ports |-> {6792, 16792}]}

\* Bounds: the registrations, the records, the consensus nodes and the parts of
\* the list together, and one step of the user contracts, whose states do not
\* depend on nodes.
MaxWork == 4
Work ==
    /\ Cardinality({k \in Keys : registerInfos[k].status # "none"})
       + Cardinality({x \in NodeNames : Exists(x)}) + Len(nodesName)
       + Cardinality({x \in NodeNames : node[x].type = CONSENSUS_NODE}) <= MaxWork
    /\ user[Creator].status = "enabled" /\ getRoles(Creator) = {chainCreator}
    /\ roleRequest[Creator].status = "none" /\ application[Creator].state = "none"
=============================================================================
