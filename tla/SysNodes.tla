------------------------------ MODULE SysNodes ------------------------------
(***************************************************************************)
(* Nodes in the C++ system contracts: NodeRegister (registrations) and     *)
(* NodeManager (the table of nodes), on top of users and their roles.      *)
(*                                                                         *)
(* NodeManager keeps a record under each node's name and the names in one  *)
(* string, nodesName, which '|' separates.  Strings that are names are     *)
(* therefore sequences of parts, of which '|' is the separator: the empty  *)
(* string is <<Blank>>, and joining two strings by '|' is concatenation.   *)
(* The list is stored beside the records, under the key dbKey.             *)
(*                                                                         *)
(* rapidjson is built with its assertions, which abort: a lookup that      *)
(* meets a text that is no JSON object traps.  Descriptions and delayNum   *)
(* are left out, and no member occurs twice in a JSON text.                *)
(***************************************************************************)
EXTENDS SysUsers, Naturals, Sequences

CONSTANTS
    Keys,        \* public keys, as they are spelled
    Lower,       \* the spelling of a key in lower case
    NoKey,
    Parts,       \* what '|' separates
    Blank,       \* the part without a character
    dbKey,       \* the part "nodesName"
    JsonText,    \* the JSON text of a node, which is no name
    NodeNames,   \* bound: the names that calls mention
    NoNode,
    Quoted,      \* keys and names with characters that JSON escapes
    Endpoints,   \* IP addresses and ports: records of two sets
    MaxListed    \* bound: the parts of nodesName

OBSERVER == 0
CONSENSUS_NODE == 1

ASSUME KeysAssumption == NoKey \notin Keys /\ NoNode \notin NodeNames
ASSUME LowerAssumption ==
    Lower \in [Keys -> Keys] /\ \A k \in Keys : Lower[Lower[k]] = Lower[k]
ASSUME PartsAssumption ==
    /\ {Blank, dbKey} \subseteq Parts /\ Blank # dbKey /\ JsonText \notin Parts
    /\ NodeNames \subseteq Seq(Parts) \ {<< >>}
ASSUME EndpointsAssumption == \A e \in Endpoints : e.ips # {} /\ e.ports # {}

VARIABLES
    registerInfos,   \* NodeRegister: the registration of each public key
    node,            \* NodeManager: the record under each name
    nodesName        \* NodeManager: the text under dbKey, the names joined

nodeVars == <<registerInfos, node, nodesName>>
sysVars == <<userVars, nodeVars>>

Types == {OBSERVER, CONSENSUS_NODE}
NoEndpoint == [ips |-> {}, ports |-> {}]
RegisterInfo == [status : {"none", "unapproved", "passed", "refused"},
                 name : NodeNames \cup {NoNode}, type : Types,
                 endpoint : Endpoints \cup {NoEndpoint}]
Node == [publicKey : Keys \cup {NoKey}, type : Types, status : {"normal", "deleted"}]

NodeInit ==
    /\ registerInfos = [k \in Keys |-> [status |-> "none", name |-> NoNode,
                                        type |-> OBSERVER, endpoint |-> NoEndpoint]]
    /\ node = [x \in NodeNames |-> [publicKey |-> NoKey, type |-> OBSERVER,
                                    status |-> "deleted"]]
    /\ nodesName = <<Blank>>

-----------------------------------------------------------------------------
(* NodeManager.                                                            *)

\* A record is stored under x.  Under dbKey that is so while nothing was joined
\* to the record.
Exists(x) == node[x].publicKey # NoKey /\ (x = <<dbKey>> => nodesName = <<JsonText>>)
NodeAdmins == {chainCreator, chainAdmin, nodeAdmin}

\* The parts of nodesName, except an empty last one.
getNodesName ==
    LET n == Len(nodesName) IN
    {nodesName[i] : i \in IF nodesName[n] = Blank THEN 1 .. n - 1 ELSE 1 .. n}

\* getNodes reads the record of each part, and traps when there is none.
Readable == \A p \in getNodesName : <<p>> \in NodeNames /\ Exists(<<p>>)
getNodesByKey(k) == {p \in getNodesName : node[<<p>>].publicKey = k}
getNormalNodes == {<<p>> : p \in {q \in getNodesName : node[<<q>>].status = "normal"}}

\* nodesNum is 0 for a condition that is no JSON object, in which case it does
\* not read the list.  Conditions are put together without escapes.
Unused(s, found) == s \in Quoted \/ (Readable /\ ~found)

\* Mutants of Adds: the public key, or the name, is not compared.
AddsAnyKey(o, x, k, type) ==
    /\ isValidUser(user, o) /\ getRoles(o) \cap NodeAdmins # {}
    /\ Unused(x, x \in getNormalNodes)
    /\ type = OBSERVER
AddsAnyName(o, x, k, type) ==
    /\ isValidUser(user, o) /\ getRoles(o) \cap NodeAdmins # {}
    /\ Unused(k, getNodesByKey(k) # {})
    /\ type = OBSERVER

\* add called by o succeeds.  The name of a deleted node can be used again, the
\* public key of a listed node cannot.  Keys are compared as they are spelled.
Adds(o, x, k, type) ==
    /\ isValidUser(user, o) /\ getRoles(o) \cap NodeAdmins # {}
    /\ Unused(k, getNodesByKey(k) # {})
    /\ Unused(x, x \in getNormalNodes)
    /\ type = OBSERVER

\* The list with the name x, or x alone when the list is the empty string.
Joined(x) == IF nodesName = <<Blank>> THEN x ELSE nodesName \o x

\* Mutant of Store: the name is not listed.
StoreUnlisted(x, k, status) ==
    /\ node' = [node EXCEPT ![x] = [publicKey |-> k, type |-> OBSERVER, status |-> status]]
    /\ UNCHANGED nodesName

\* The name is joined to the list, and the record replaces what is stored under
\* the name: the record of a deleted node, or the list itself.
Store(x, k, status) ==
    /\ Len(Joined(x)) <= MaxListed
    /\ nodesName' = IF x = <<dbKey>> THEN <<JsonText>> ELSE Joined(x)
    /\ node' = [node EXCEPT ![x] = [publicKey |-> k, type |-> OBSERVER, status |-> status]]

add(o, x, k, type, status) ==
    /\ Adds(o, x, k, type)
    /\ Store(x, k, status)
    /\ UNCHANGED <<userVars, registerInfos>>

\* checkCallerPermission lets every enabled user with a role pass, since its
\* last alternative is a constant.  A deleted node may become normal again.
update(o, x, type, status) ==
    /\ isValidUser(user, o) /\ getRoles(o) # {}
    /\ Exists(x)
    /\ node' = [node EXCEPT ![x].type = type, ![x].status = status]
    /\ UNCHANGED <<userVars, registerInfos, nodesName>>

-----------------------------------------------------------------------------
(* NodeRegister.                                                           *)

canRegister(o) == isValidUser(user, o) /\ getRoles(o) \cap NodeAdmins # {}
canApprove(o) == isValidUser(user, o) /\ getRoles(o) \cap {chainCreator, chainAdmin} # {}

Passed == {k \in Keys : registerInfos[k].status = "passed"}

ifNameUsed(x) == \E k \in Passed : registerInfos[k].name = x

\* One address of the two registrations is the same, and one port.
Clash(e, f) == e.ips \cap f.ips # {} /\ e.ports \cap f.ports # {}
ifIPPortUsed(e) == \E k \in Passed : Clash(registerInfos[k].endpoint, e)

Free(info) == ~ifNameUsed(info.name) /\ ~ifIPPortUsed(info.endpoint)

\* Letters, digits, '-' and '_', or nothing at all.
checkNameFormat(x) == Len(x) = 1 /\ x \notin Quoted

\* Mutant of registerNode: the key is registered as it is spelled.
registerNodeRaw(o, k, x, type, e) ==
    LET info == [status |-> "unapproved", name |-> x, type |-> type, endpoint |-> e] IN
    /\ canRegister(o)
    /\ registerInfos[k].status = "none"
    /\ checkNameFormat(x)
    /\ Free(info)
    /\ registerInfos' = [registerInfos EXCEPT ![k] = info]
    /\ UNCHANGED <<userVars, node, nodesName>>

registerNode(o, k, x, type, e) ==
    LET info == [status |-> "unapproved", name |-> x, type |-> type, endpoint |-> e] IN
    /\ canRegister(o)
    /\ registerInfos[Lower[k]].status = "none"
    /\ checkNameFormat(x)
    /\ Free(info)
    /\ registerInfos' = [registerInfos EXCEPT ![Lower[k]] = info]
    /\ UNCHANGED <<userVars, node, nodesName>>

\* Mutant of MayDecide: approve does not check again.
MayDecideUnchecked(o, pk) ==
    canApprove(o) /\ registerInfos[pk].status = "unapproved"

\* The checks that approve makes again, whatever its verdict: meanwhile
\* another registration of the name may have passed.
MayDecide(o, pk) ==
    /\ canApprove(o) /\ registerInfos[pk].status = "unapproved"
    /\ Free(registerInfos[pk])

Decide(pk, status) ==
    /\ registerInfos' = [registerInfos EXCEPT ![pk].status = status]
    /\ UNCHANGED userVars

\* approve with PASSED: add returns 0 because it stored the node, or because it
\* failed in the virtual machine and stored nothing.
pass(o, k) ==
    LET pk == Lower[k]
        info == registerInfos[pk]
    IN
    /\ MayDecide(o, pk)
    /\ \/ Adds(o, info.name, pk, info.type) /\ Store(info.name, pk, "normal")
       \/ UNCHANGED <<node, nodesName>>
    /\ Decide(pk, "passed")

refuse(o, k) ==
    /\ MayDecide(o, Lower[k])
    /\ Decide(Lower[k], "refused")
    /\ UNCHANGED <<node, nodesName>>

-----------------------------------------------------------------------------
NodeStep(o) ==
    \/ \E k \in Keys : pass(o, k) \/ refuse(o, k)
    \/ \E k \in Keys, x \in NodeNames, t \in Types, e \in Endpoints :
           registerNode(o, k, x, t, e)
    \/ \E k \in Keys, x \in NodeNames, t \in Types, s \in {"normal", "deleted"} :
           add(o, x, k, t, s)
    \/ \E x \in NodeNames, t \in Types, s \in {"normal", "deleted"} :
           update(o, x, t, s)

SysNext ==
    \/ UserNext /\ UNCHANGED nodeVars
    \/ \E o \in Accounts : NodeStep(o)

SysSpec == Init /\ NodeInit /\ [][SysNext]_sysVars

-----------------------------------------------------------------------------
\* A name that getNodesName returns as it was added.
Listable(x) == Len(x) = 1 /\ x[1] \notin {Blank, dbKey}

\* A node of the name "nodesName" has replaced the list.
ListLost == \E i \in DOMAIN nodesName : nodesName[i] = JsonText

\* Every record is of its type, and every node whose name is one part can be
\* found by getNodes through the list, unless a node called "nodesName" was
\* stored in place of the list (nodeManager.cpp:196-199).
NodeTypeOK ==
    /\ registerInfos \in [Keys -> RegisterInfo]
    /\ node \in [NodeNames -> Node]
    /\ nodesName \in Seq(Parts \cup {JsonText}) /\ nodesName # << >>
    /\ \A x \in NodeNames :
         Listable(x) /\ Exists(x) => x[1] \in getNodesName \/ ListLost

\* A public key, as it is spelled, is that of one node, although names are used
\* again, records are replaced, nodes are added with and without a registration,
\* and names that are split, dropped or take the list's place are added between
\* them ("the public key must be unique", nodeManager.cpp:145-147).  It is not so
\* for two spellings of a key, and for keys that make the condition unreadable.
KeysUnique ==
    \A x, y \in NodeNames :
        /\ x # y /\ Listable(x) /\ Listable(y)
        /\ Exists(x) /\ node[x].publicKey \notin Quoted
        => node[x].publicKey # node[y].publicKey

\* Registrations that passed have different names and no address and port in
\* common, also when they were registered side by side before any passed.
PassedDistinct ==
    \A k, l \in Passed : k # l =>
        /\ registerInfos[k].name # registerInfos[l].name
        /\ ~Clash(registerInfos[k].endpoint, registerInfos[l].endpoint)

\* A public key is registered once, however it is spelled: after the verdict
\* neither its registration nor one of another spelling changes ("public keys of
\* earlier registrations cannot apply again", nodeRegister.cpp:438).
RegisteredOnce ==
    [][\A k, l \in Keys :
         /\ Lower[k] = Lower[l]
         /\ registerInfos[k].status \in {"passed", "refused"}
         => registerInfos'[l] = registerInfos[l]]_sysVars

\* A normal node is never replaced by another if its name is listed as it is and
\* can be compared, whatever other names were added ("the name must not be that
\* of a node that is not deleted", nodeManager.cpp:154-157).
NormalNodesStay ==
    [][\A x \in NodeNames :
         /\ Listable(x) /\ x \notin Quoted
         /\ Exists(x) /\ node[x].status = "normal"
         => node'[x].publicKey = node[x].publicKey]_sysVars
=============================================================================
