--------------------------- MODULE SysNodesProofs ---------------------------
(***************************************************************************)
(* The table of nodes and the registrations of nodes agree, for any keys,  *)
(* names and endpoints, on top of what SysUsersProofs shows of users.      *)
(*                                                                         *)
(* The node contracts never write what the user contracts store, so the    *)
(* system implements UserSpec and has all its properties.  The inductive   *)
(* invariant of the node contracts adds to the properties of SysNodes that *)
(* registrations have names and are kept under keys in lower case.         *)
(***************************************************************************)
EXTENDS SysNodes, SysUsersProofs

\* Registrations have names, and are kept under the key in lower case.
RegistrationsNamed ==
    \A k \in Keys : registerInfos[k].status # "none" =>
        registerInfos[k].name \in NodeNames /\ Lower[k] = k

\* The inductive invariant.
NodeInv ==
    /\ NodeTypeOK
    /\ RegistrationsNamed
    /\ KeysUnique
    /\ PassedDistinct

-----------------------------------------------------------------------------
(* Users.                                                                  *)

\* The operations of the node contracts leave what the user contracts store
\* alone: the whole system implements the specification of users and roles.
THEOREM NodesKeepUsers == SysSpec => UserSpec
  <1>1. [SysNext]_sysVars => [UserNext]_userVars
    <2> SUFFICES ASSUME [SysNext]_sysVars PROVE [UserNext]_userVars
      OBVIOUS
    <2>1. ASSUME NEW o \in Accounts, NodeStep(o) PROVE UNCHANGED userVars
      BY <2>1 DEF NodeStep, pass, refuse, registerNode, add, update, Decide
    <2> QED
      BY <2>1 DEF SysNext, sysVars
  <1> QED
    BY <1>1, PTL DEF SysSpec, UserSpec

\* The creator's place, the names and the users are safe whatever is done with
\* nodes, and roles still change by the hierarchy only.
THEOREM UsersSafeWithNodes ==
    SysSpec => /\ [](TypeOK /\ CreatorRemains /\ NamesIndexed /\ NamesUnique /\ UsersApproved)
               /\ RolesRuled /\ DeletedForGood
  <1>1. UserSpec => [](TypeOK /\ CreatorRemains /\ NamesIndexed /\ NamesUnique /\ UsersApproved)
    BY UserInvariance, PTL DEF UserInv
  <1> QED
    BY <1>1, NodesKeepUsers, RolesAreRuled, DeletedIsForGood

-----------------------------------------------------------------------------
(* The list of names.                                                      *)

\* The parts of a listable name are the name itself.
LEMMA OnePart ==
  ASSUME NEW x \in NodeNames, Listable(x)
  PROVE  /\ x = <<x[1]>> /\ x[1] \in Parts
         /\ x[1] # Blank /\ x # <<dbKey>>
  <1>1. x \in Seq(Parts) /\ Len(x) = 1
    BY PartsAssumption DEF Listable
  <1>2. x[1] \in Parts /\ x = <<x[1]>>
    BY <1>1
  <1>3. x[1] # Blank /\ x[1] # dbKey
    BY DEF Listable
  <1>4. x # <<dbKey>>
    BY <1>3
  <1> QED
    BY <1>2, <1>3, <1>4

\* getNodesName returns every part of the list that is not empty.
LEMMA ListedParts ==
  ASSUME NodeTypeOK, NEW i \in DOMAIN nodesName, nodesName[i] # Blank
  PROVE  nodesName[i] \in getNodesName
  <1>1. /\ Len(nodesName) \in Nat /\ DOMAIN nodesName = 1 .. Len(nodesName)
    BY DEF NodeTypeOK
  <1>2. CASE nodesName[Len(nodesName)] = Blank
    <2>1. i \in 1 .. Len(nodesName) - 1
      BY <1>1, <1>2
    <2> QED
      BY <1>2, <2>1 DEF getNodesName
  <1>3. CASE nodesName[Len(nodesName)] # Blank
    BY <1>1, <1>3 DEF getNodesName
  <1> QED
    BY <1>2, <1>3

\* No lookup can be made once the list was lost.
LEMMA LostUnreadable == ASSUME NodeTypeOK, ListLost PROVE ~Readable
  <1>1. PICK i \in DOMAIN nodesName : nodesName[i] = JsonText
    BY DEF ListLost
  <1>2. JsonText \in getNodesName
    BY <1>1, ListedParts, PartsAssumption
  <1>3. <<JsonText>> \notin NodeNames
    <2> SUFFICES ASSUME <<JsonText>> \in NodeNames PROVE FALSE
      OBVIOUS
    <2>1. <<JsonText>> \in Seq(Parts)
      BY PartsAssumption
    <2>2. <<JsonText>>[1] \in Parts
      BY <2>1
    <2> QED
      BY <2>2, PartsAssumption
  <1> QED
    BY <1>2, <1>3 DEF Readable

\* A lookup finds every node whose name is listable.
LEMMA ReadableListed ==
  ASSUME NodeTypeOK, Readable, NEW x \in NodeNames, Listable(x), Exists(x)
  PROVE  x = <<x[1]>> /\ x[1] \in getNodesName
  BY LostUnreadable, OnePart DEF NodeTypeOK

\* Joining a name to the list keeps the parts of both that are not empty.
LEMMA JoinedParts ==
  ASSUME NodeTypeOK, NEW x \in NodeNames
  PROVE  /\ Joined(x) \in Seq(Parts \cup {JsonText}) /\ Joined(x) # << >>
         /\ \A i \in DOMAIN x : \E j \in DOMAIN Joined(x) : Joined(x)[j] = x[i]
         /\ \A i \in DOMAIN nodesName : nodesName[i] # Blank =>
              \E j \in DOMAIN Joined(x) : Joined(x)[j] = nodesName[i]
  <1>0. /\ x \in Seq(Parts) /\ x # << >>
        /\ nodesName \in Seq(Parts \cup {JsonText}) /\ nodesName # << >>
    BY PartsAssumption DEF NodeTypeOK
  <1>1. x \in Seq(Parts \cup {JsonText})
    BY <1>0
  <1>2. CASE nodesName = <<Blank>>
    <2>1. Joined(x) = x
      BY <1>2 DEF Joined
    <2>2. \A i \in DOMAIN nodesName : nodesName[i] = Blank
      BY <1>2
    <2> QED
      BY <1>0, <1>1, <2>1, <2>2
  <1>3. CASE nodesName # <<Blank>>
    <2>1. Joined(x) = nodesName \o x
      BY <1>3 DEF Joined
    <2>2. /\ Joined(x) \in Seq(Parts \cup {JsonText})
          /\ Len(Joined(x)) = Len(nodesName) + Len(x)
          /\ Len(x) \in Nat /\ Len(nodesName) \in Nat
          /\ \A i \in 1 .. Len(Joined(x)) : Joined(x)[i] =
               IF i <= Len(nodesName) THEN nodesName[i] ELSE x[i - Len(nodesName)]
      BY <1>0, <1>1, <2>1
    <2>3. /\ DOMAIN Joined(x) = 1 .. Len(nodesName) + Len(x)
          /\ DOMAIN x = 1 .. Len(x) /\ DOMAIN nodesName = 1 .. Len(nodesName)
      BY <1>0, <2>2
    <2>4. ASSUME NEW i \in DOMAIN x PROVE \E j \in DOMAIN Joined(x) : Joined(x)[j] = x[i]
      <3>1. /\ i + Len(nodesName) \in DOMAIN Joined(x)
            /\ Joined(x)[i + Len(nodesName)] = x[i]
        BY <2>2, <2>3
      <3> QED
        BY <3>1
    <2>5. ASSUME NEW i \in DOMAIN nodesName
          PROVE  \E j \in DOMAIN Joined(x) : Joined(x)[j] = nodesName[i]
      <3>1. i \in DOMAIN Joined(x) /\ Joined(x)[i] = nodesName[i]
        BY <2>2, <2>3
      <3> QED
        BY <3>1
    <2>6. Joined(x) # << >>
      <3>1. Len(nodesName) # 0
        BY <1>0
      <3> QED
        BY <2>2, <3>1
    <2> QED
      BY <2>2, <2>4, <2>5, <2>6
  <1> QED
    BY <1>2, <1>3

-----------------------------------------------------------------------------
(* Nodes: one lemma for each thing that is stored.                         *)

LEMMA NodeInitial == NodeInit => NodeInv
  <1> SUFFICES ASSUME NodeInit PROVE NodeInv
    OBVIOUS
  <1> USE KeysAssumption
  <1>1. /\ registerInfos \in [Keys -> RegisterInfo]
        /\ node \in [NodeNames -> Node]
    BY DEF NodeInit, RegisterInfo, Node, Types, OBSERVER
  <1>2. nodesName \in Seq(Parts \cup {JsonText}) /\ nodesName # << >>
    BY PartsAssumption DEF NodeInit
  <1>3. \A x \in NodeNames : ~Exists(x)
    BY DEF NodeInit, Exists
  <1>4. Passed = {}
    BY DEF NodeInit, Passed
  <1>5. RegistrationsNamed
    BY DEF NodeInit, RegistrationsNamed
  <1> QED
    BY <1>1, <1>2, <1>3, <1>4, <1>5 DEF NodeInv, NodeTypeOK, KeysUnique, PassedDistinct

\* What add stores under the name x.
LEMMA StoreRecords ==
  ASSUME NodeTypeOK, NEW x \in NodeNames, NEW k \in Keys,
         NEW status \in {"normal", "deleted"}, Store(x, k, status)
  PROVE  /\ node' \in [NodeNames -> Node]
         /\ nodesName' \in Seq(Parts \cup {JsonText}) /\ nodesName' # << >>
         /\ \A y \in NodeNames :
              /\ node'[y].publicKey = IF y = x THEN k ELSE node[y].publicKey
              /\ Listable(y) => (Exists(y)' <=> (y = x \/ Exists(y)))
         /\ \A y \in NodeNames : Listable(y) /\ Exists(y)' =>
              y[1] \in getNodesName' \/ ListLost'
  <1>0. /\ node \in [NodeNames -> Node]
        /\ nodesName' = IF x = <<dbKey>> THEN <<JsonText>> ELSE Joined(x)
        /\ node' = [node EXCEPT ![x] = [publicKey |-> k, type |-> OBSERVER,
                                        status |-> status]]
        /\ k # NoKey
    BY KeysAssumption DEF NodeTypeOK, Store
  <1>1. /\ Joined(x) \in Seq(Parts \cup {JsonText}) /\ Joined(x) # << >>
        /\ \A i \in DOMAIN x : \E j \in DOMAIN Joined(x) : Joined(x)[j] = x[i]
        /\ \A i \in DOMAIN nodesName : nodesName[i] # Blank =>
             \E j \in DOMAIN Joined(x) : Joined(x)[j] = nodesName[i]
    BY JoinedParts
  <1>2. node' \in [NodeNames -> Node]
    BY <1>0 DEF Node, Types
  <1>3. nodesName' \in Seq(Parts \cup {JsonText}) /\ nodesName' # << >>
    <2>1. <<JsonText>> \in Seq(Parts \cup {JsonText}) /\ <<JsonText>> # << >>
      OBVIOUS
    <2> QED
      BY <1>0, <1>1, <2>1
  <1>4. \A y \in NodeNames :
           node'[y].publicKey = IF y = x THEN k ELSE node[y].publicKey
    BY <1>0
  <1>5. \A y \in NodeNames : Listable(y) => (Exists(y)' <=> (y = x \/ Exists(y)))
    BY <1>0, <1>4, OnePart DEF Exists
  <1>6. ASSUME NEW y \in NodeNames, Listable(y), Exists(y)'
        PROVE  y[1] \in getNodesName' \/ ListLost'
    <2>1. CASE x = <<dbKey>>
      <3>1. nodesName' = <<JsonText>>
        BY <1>0, <2>1
      <3>2. 1 \in DOMAIN nodesName' /\ nodesName'[1] = JsonText
        BY <3>1
      <3> QED
        BY <3>2 DEF ListLost
    <2>2. CASE x # <<dbKey>>
      <3>1. nodesName' = Joined(x)
        BY <1>0, <2>2
      <3>2. ASSUME NEW p, p # Blank, NEW j \in DOMAIN nodesName', nodesName'[j] = p
            PROVE  p \in getNodesName'
        <4>1. /\ Len(nodesName') \in Nat /\ DOMAIN nodesName' = 1 .. Len(nodesName')
          BY <1>3
        <4>2. CASE nodesName'[Len(nodesName')] = Blank
          <5>1. j \in 1 .. Len(nodesName') - 1
            BY <3>2, <4>1, <4>2
          <5> QED
            BY <3>2, <4>2, <5>1 DEF getNodesName
        <4>3. CASE nodesName'[Len(nodesName')] # Blank
          BY <3>2, <4>1, <4>3 DEF getNodesName
        <4> QED
          BY <4>2, <4>3
      <3>3. y = <<y[1]>> /\ y[1] # Blank
        BY <1>6, OnePart
      <3>4. CASE y = x
        <4>1. 1 \in DOMAIN x
          BY <3>3, <3>4
        <4>2. PICK j \in DOMAIN Joined(x) : Joined(x)[j] = x[1]
          BY <1>1, <4>1
        <4> QED
          BY <3>1, <3>2, <3>3, <3>4, <4>2
      <3>5. CASE y # x
        <4>1. y[1] \in getNodesName \/ ListLost
          BY <1>5, <1>6, <3>5 DEF NodeTypeOK
        <4>2. CASE y[1] \in getNodesName
          <5>1. PICK i \in DOMAIN nodesName : nodesName[i] = y[1]
            <6>1. /\ Len(nodesName) \in Nat /\ DOMAIN nodesName = 1 .. Len(nodesName)
              BY DEF NodeTypeOK
            <6> QED
              BY <4>2, <6>1 DEF getNodesName
          <5>2. PICK j \in DOMAIN Joined(x) : Joined(x)[j] = y[1]
            BY <1>1, <3>3, <5>1
          <5> QED
            BY <3>1, <3>2, <3>3, <5>2
        <4>3. CASE ListLost
          <5>1. PICK i \in DOMAIN nodesName : nodesName[i] = JsonText
            BY <4>3 DEF ListLost
          <5>2. JsonText # Blank
            BY PartsAssumption
          <5>3. PICK j \in DOMAIN Joined(x) : Joined(x)[j] = JsonText
            BY <1>1, <5>1, <5>2
          <5> QED
            BY <3>1, <5>3 DEF ListLost
        <4> QED
          BY <4>1, <4>2, <4>3
      <3> QED
        BY <3>4, <3>5
    <2> QED
      BY <2>1, <2>2
  <1> QED
    BY <1>2, <1>3, <1>4, <1>5, <1>6

\* A node that add stores has a key that no node has whose name is listable.
LEMMA StoreKeeps ==
  ASSUME NodeTypeOK, KeysUnique, NEW o, NEW x \in NodeNames, NEW k \in Keys,
         NEW type, NEW status \in {"normal", "deleted"},
         Adds(o, x, k, type), Store(x, k, status)
  PROVE  /\ node' \in [NodeNames -> Node]
         /\ nodesName' \in Seq(Parts \cup {JsonText}) /\ nodesName' # << >>
         /\ \A y \in NodeNames : Listable(y) /\ Exists(y)' =>
              y[1] \in getNodesName' \/ ListLost'
         /\ KeysUnique'
  <1>1. /\ node' \in [NodeNames -> Node]
        /\ nodesName' \in Seq(Parts \cup {JsonText}) /\ nodesName' # << >>
        /\ \A y \in NodeNames :
             /\ node'[y].publicKey = IF y = x THEN k ELSE node[y].publicKey
             /\ Listable(y) => (Exists(y)' <=> (y = x \/ Exists(y)))
        /\ \A y \in NodeNames : Listable(y) /\ Exists(y)' =>
             y[1] \in getNodesName' \/ ListLost'
    BY StoreRecords
  <1>2. ASSUME k \notin Quoted, NEW y \in NodeNames, Listable(y), node[y].publicKey = k
        PROVE  FALSE
    <2>1. Readable /\ getNodesByKey(k) = {}
      BY <1>2 DEF Adds, Unused
    <2>2. Exists(y)
      BY <1>2, OnePart, KeysAssumption DEF Exists
    <2>3. y = <<y[1]>> /\ y[1] \in getNodesName
      BY <1>2, <2>1, <2>2, ReadableListed
    <2>4. y[1] \in getNodesByKey(k)
      BY <1>2, <2>3 DEF getNodesByKey
    <2> QED
      BY <2>1, <2>4
  <1>3. KeysUnique'
    <2> SUFFICES ASSUME NEW y \in NodeNames, NEW z \in NodeNames, y # z,
                        Listable(y), Listable(z), Exists(y)',
                        node'[y].publicKey \notin Quoted
                 PROVE  node'[y].publicKey # node'[z].publicKey
      BY DEF KeysUnique, Listable
    <2>1. CASE y = x
      BY <1>1, <1>2, <2>1
    <2>2. CASE z = x
      BY <1>1, <1>2, <2>2
    <2>3. CASE y # x /\ z # x
      BY <1>1, <2>3 DEF KeysUnique
    <2> QED
      BY <2>1, <2>2, <2>3
  <1> QED
    BY <1>1, <1>3

\* The properties of registrations when one, of the key k, was decided on.
LEMMA DecideKeeps ==
  ASSUME NodeInv, NEW o, NEW k \in Keys, MayDecide(o, k),
         NEW status \in {"passed", "refused"}, Decide(k, status)
  PROVE  /\ registerInfos' \in [Keys -> RegisterInfo]
         /\ RegistrationsNamed' /\ PassedDistinct'
  <1>0. /\ registerInfos \in [Keys -> RegisterInfo]
        /\ registerInfos' = [registerInfos EXCEPT ![k].status = status]
    BY DEF NodeInv, NodeTypeOK, Decide
  <1>1. registerInfos' \in [Keys -> RegisterInfo]
    BY <1>0 DEF RegisterInfo
  <1>2. \A l \in Keys :
           /\ registerInfos'[l].name = registerInfos[l].name
           /\ registerInfos'[l].endpoint = registerInfos[l].endpoint
           /\ registerInfos'[l].status = IF l = k THEN status ELSE registerInfos[l].status
    BY <1>0 DEF RegisterInfo
  <1>3. registerInfos[k].status = "unapproved"
    BY DEF MayDecide
  <1>4. RegistrationsNamed'
    BY <1>2, <1>3 DEF NodeInv, RegistrationsNamed
  <1>5. \A l \in Passed' : l # k => l \in Passed
    BY <1>2 DEF Passed
  <1>6. \A l \in Passed :
           /\ registerInfos[l].name # registerInfos[k].name
           /\ ~Clash(registerInfos[l].endpoint, registerInfos[k].endpoint)
    BY DEF MayDecide, Free, ifNameUsed, ifIPPortUsed
  <1>7. PassedDistinct'
    <2> SUFFICES ASSUME NEW l \in Passed', NEW m \in Passed', l # m
                 PROVE  /\ registerInfos'[l].name # registerInfos'[m].name
                        /\ ~Clash(registerInfos'[l].endpoint, registerInfos'[m].endpoint)
      BY DEF PassedDistinct, Clash
    <2>1. l \in Keys /\ m \in Keys
      BY DEF Passed
    <2>2. CASE l = k
      BY <1>2, <1>5, <1>6, <2>1, <2>2 DEF Clash
    <2>3. CASE m = k
      BY <1>2, <1>5, <1>6, <2>1, <2>3
    <2>4. CASE l # k /\ m # k
      BY <1>2, <1>5, <2>1, <2>4 DEF NodeInv, PassedDistinct
    <2> QED
      BY <2>2, <2>3, <2>4
  <1> QED
    BY <1>1, <1>4, <1>7

\* The table of nodes is as before.
LEMMA TableKept ==
  ASSUME NodeInv, node' = node, nodesName' = nodesName
  PROVE  /\ node' \in [NodeNames -> Node]
         /\ nodesName' \in Seq(Parts \cup {JsonText}) /\ nodesName' # << >>
         /\ \A y \in NodeNames : Listable(y) /\ Exists(y)' =>
              y[1] \in getNodesName' \/ ListLost'
         /\ KeysUnique'
  BY DEF NodeInv, NodeTypeOK, KeysUnique, Listable, Exists, getNodesName, ListLost

\* A new registration has not passed.
LEMMA RegisterNodeKeeps ==
  ASSUME NodeInv, NEW o, NEW k \in Keys, NEW x \in NodeNames, NEW t \in Types,
         NEW e \in Endpoints, registerNode(o, k, x, t, e)
  PROVE  NodeInv'
  <1> DEFINE pk == Lower[k]
  <1>0. /\ registerInfos \in [Keys -> RegisterInfo]
        /\ registerInfos[pk].status = "none"
        /\ registerInfos' = [registerInfos EXCEPT ![pk] =
              [status |-> "unapproved", name |-> x, type |-> t, endpoint |-> e]]
        /\ node' = node /\ nodesName' = nodesName
    BY DEF NodeInv, NodeTypeOK, registerNode
  <1>1. pk \in Keys /\ Lower[pk] = pk
    BY LowerAssumption
  <1> HIDE DEF pk
  <1>2. registerInfos' \in [Keys -> RegisterInfo]
    BY <1>0, <1>1 DEF RegisterInfo
  <1>3. RegistrationsNamed'
    BY <1>0, <1>1 DEF NodeInv, RegistrationsNamed
  <1>4. /\ Passed' = Passed
        /\ \A l \in Passed : registerInfos'[l] = registerInfos[l]
    BY <1>0, <1>1 DEF Passed
  <1>5. PassedDistinct'
    BY <1>0, <1>4 DEF NodeInv, PassedDistinct, Clash
  <1> QED
    BY <1>0, <1>2, <1>3, <1>5, TableKept DEF NodeInv, NodeTypeOK

LEMMA PassKeeps ==
  ASSUME NodeInv, NEW o, NEW k \in Keys, pass(o, k)
  PROVE  NodeInv'
  <1> DEFINE pk == Lower[k]
             x == registerInfos[pk].name
  <1>0. pk \in Keys
    BY LowerAssumption
  <1>1. /\ MayDecide(o, pk)
        /\ \/ Adds(o, x, pk, registerInfos[pk].type) /\ Store(x, pk, "normal")
           \/ node' = node /\ nodesName' = nodesName
        /\ Decide(pk, "passed")
    BY DEF pass
  <1>2. x \in NodeNames
    BY <1>0, <1>1 DEF MayDecide, NodeInv, RegistrationsNamed
  <1> HIDE DEF pk, x
  <1>3. /\ node' \in [NodeNames -> Node]
        /\ nodesName' \in Seq(Parts \cup {JsonText}) /\ nodesName' # << >>
        /\ \A y \in NodeNames : Listable(y) /\ Exists(y)' =>
             y[1] \in getNodesName' \/ ListLost'
        /\ KeysUnique'
    <2>1. CASE node' = node /\ nodesName' = nodesName
      BY <2>1, TableKept
    <2>2. CASE Adds(o, x, pk, registerInfos[pk].type) /\ Store(x, pk, "normal")
      BY <1>0, <1>2, <2>2, StoreKeeps DEF NodeInv
    <2> QED
      BY <1>1, <2>1, <2>2
  <1>4. /\ registerInfos' \in [Keys -> RegisterInfo]
        /\ RegistrationsNamed' /\ PassedDistinct'
    BY <1>0, <1>1, DecideKeeps
  <1> QED
    BY <1>3, <1>4 DEF NodeInv, NodeTypeOK

LEMMA RefuseKeeps ==
  ASSUME NodeInv, NEW o, NEW k \in Keys, refuse(o, k)
  PROVE  NodeInv'
  <1>1. /\ Lower[k] \in Keys /\ MayDecide(o, Lower[k]) /\ Decide(Lower[k], "refused")
        /\ node' = node /\ nodesName' = nodesName
    BY LowerAssumption DEF refuse
  <1>2. /\ registerInfos' \in [Keys -> RegisterInfo]
        /\ RegistrationsNamed' /\ PassedDistinct'
    BY <1>1, DecideKeeps
  <1> QED
    BY <1>1, <1>2, TableKept DEF NodeInv, NodeTypeOK

\* add without a registration, and update, leave the registrations alone.
LEMMA RegistrationsKept ==
  ASSUME NodeInv, registerInfos' = registerInfos
  PROVE  /\ registerInfos' \in [Keys -> RegisterInfo]
         /\ RegistrationsNamed' /\ PassedDistinct'
  BY DEF NodeInv, NodeTypeOK, RegistrationsNamed, PassedDistinct, Passed, Clash

LEMMA AddKeeps ==
  ASSUME NodeInv, NEW o, NEW x \in NodeNames, NEW k \in Keys, NEW t,
         NEW s \in {"normal", "deleted"}, add(o, x, k, t, s)
  PROVE  NodeInv'
  <1>1. Adds(o, x, k, t) /\ Store(x, k, s) /\ registerInfos' = registerInfos
    BY DEF add
  <1>2. /\ node' \in [NodeNames -> Node]
        /\ nodesName' \in Seq(Parts \cup {JsonText}) /\ nodesName' # << >>
        /\ \A y \in NodeNames : Listable(y) /\ Exists(y)' =>
             y[1] \in getNodesName' \/ ListLost'
        /\ KeysUnique'
    BY <1>1, StoreKeeps DEF NodeInv
  <1> QED
    BY <1>1, <1>2, RegistrationsKept DEF NodeInv, NodeTypeOK

LEMMA UpdateKeeps ==
  ASSUME NodeInv, NEW o, NEW x \in NodeNames, NEW t \in Types,
         NEW s \in {"normal", "deleted"}, update(o, x, t, s)
  PROVE  NodeInv'
  <1>1. /\ registerInfos' = registerInfos /\ nodesName' = nodesName
        /\ node \in [NodeNames -> Node]
        /\ node' = [node EXCEPT ![x].type = t, ![x].status = s]
    BY DEF update, NodeInv, NodeTypeOK
  <1>2. node' \in [NodeNames -> Node]
    BY <1>1 DEF Node
  <1>3. \A y \in NodeNames : node'[y].publicKey = node[y].publicKey
    BY <1>1 DEF Node
  <1>4. \A y \in NodeNames : Exists(y)' <=> Exists(y)
    BY <1>1, <1>3 DEF Exists
  <1>5. KeysUnique'
    BY <1>3, <1>4 DEF NodeInv, KeysUnique, Listable
  <1>6. \A y \in NodeNames : Listable(y) /\ Exists(y)' =>
          y[1] \in getNodesName' \/ ListLost'
    BY <1>1, <1>4 DEF NodeInv, NodeTypeOK, getNodesName, ListLost
  <1>7. nodesName' \in Seq(Parts \cup {JsonText}) /\ nodesName' # << >>
    BY <1>1 DEF NodeInv, NodeTypeOK
  <1> QED
    BY <1>1, <1>2, <1>5, <1>6, <1>7, RegistrationsKept DEF NodeInv, NodeTypeOK

LEMMA NodeStepKeeps == ASSUME NodeInv, [SysNext]_sysVars PROVE NodeInv'
  <1>1. CASE UNCHANGED nodeVars
    BY <1>1, TableKept, RegistrationsKept DEF nodeVars, NodeInv, NodeTypeOK
  <1>2. ASSUME NEW o \in Accounts, NodeStep(o) PROVE NodeInv'
    BY <1>2, PassKeeps, RefuseKeeps, RegisterNodeKeeps, AddKeeps, UpdateKeeps
    DEF NodeStep
  <1> QED
    BY <1>1, <1>2 DEF SysNext, sysVars

LEMMA NodeInvariance == SysSpec => []NodeInv
  BY NodeInitial, NodeStepKeeps, PTL DEF SysSpec

-----------------------------------------------------------------------------
(* The properties of SysNodes.                                             *)

\* Every record is of its type, and every node whose name getNodesName returns as
\* it was added is in the list of names, unless a node called "nodesName" took
\* the place of the list.
THEOREM NodesTyped == SysSpec => []NodeTypeOK
  BY NodeInvariance, PTL DEF NodeInv

\* No two such nodes have one public key in the same spelling, whether they were
\* added with or without a registration, and although records are replaced.
THEOREM KeysAreUnique == SysSpec => []KeysUnique
  BY NodeInvariance, PTL DEF NodeInv

\* Registrations that passed have no name, and no address and port, in common.
THEOREM PassedAreDistinct == SysSpec => []PassedDistinct
  BY NodeInvariance, PTL DEF NodeInv

\* What is done to a registration that was decided on, or to another spelling of
\* its key.
LEMMA DecidedStep ==
  ASSUME NodeInv, [SysNext]_sysVars, NEW k \in Keys, NEW l \in Keys,
         Lower[k] = Lower[l], registerInfos[k].status \in {"passed", "refused"}
  PROVE  registerInfos'[l] = registerInfos[l]
  <1>0. Lower[k] = k /\ registerInfos \in [Keys -> RegisterInfo]
    BY DEF NodeInv, RegistrationsNamed, NodeTypeOK
  <1>1. ASSUME NEW m \in Keys, registerInfos[Lower[m]].status \in {"none", "unapproved"}
        PROVE  l # Lower[m]
    <2> SUFFICES ASSUME l = Lower[m] PROVE FALSE
      OBVIOUS
    <2>1. Lower[l] = l
      BY LowerAssumption
    <2> QED
      BY <1>0, <1>1, <2>1
  <1>2. ASSUME NEW o \in Accounts, NEW m \in Keys, pass(o, m) \/ refuse(o, m)
        PROVE  registerInfos'[l] = registerInfos[l]
    <2>1. /\ registerInfos[Lower[m]].status = "unapproved"
          /\ \E s : registerInfos' = [registerInfos EXCEPT ![Lower[m]].status = s]
      BY <1>2 DEF pass, refuse, MayDecide, Decide
    <2> QED
      BY <1>0, <1>1, <2>1
  <1>3. ASSUME NEW o, NEW m \in Keys, NEW x, NEW t, NEW e, registerNode(o, m, x, t, e)
        PROVE  registerInfos'[l] = registerInfos[l]
    <2>1. /\ registerInfos[Lower[m]].status = "none"
          /\ \E info : registerInfos' = [registerInfos EXCEPT ![Lower[m]] = info]
      BY <1>3 DEF registerNode
    <2> QED
      BY <1>0, <1>1, <2>1
  <1>4. ASSUME NEW o \in Accounts, NodeStep(o) PROVE registerInfos'[l] = registerInfos[l]
    BY <1>2, <1>3, <1>4 DEF NodeStep, add, update
  <1> QED
    BY <1>4 DEF SysNext, sysVars, nodeVars

\* A public key is registered once in all its spellings, and the verdict stands.
THEOREM RegistrationsAreFinal == SysSpec => RegisteredOnce
  <1>1. ASSUME NodeInv, [SysNext]_sysVars
        PROVE  \A k, l \in Keys :
                 /\ Lower[k] = Lower[l]
                 /\ registerInfos[k].status \in {"passed", "refused"}
                 => registerInfos'[l] = registerInfos[l]
    BY <1>1, DecidedStep
  <1> QED
    BY <1>1, NodeInvariance, PTL DEF SysSpec, RegisteredOnce

LEMMA NormalNodesStep ==
  ASSUME NodeInv, [SysNext]_sysVars, NEW x \in NodeNames, Listable(x), x \notin Quoted,
         Exists(x), node[x].status = "normal"
  PROVE  node'[x].publicKey = node[x].publicKey
  <1>0. node \in [NodeNames -> Node] /\ NodeTypeOK
    BY DEF NodeInv, NodeTypeOK
  <1>1. CASE node' = node
    BY <1>1
  <1>2. ASSUME NEW o, NEW y \in NodeNames, NEW k, NEW t, NEW s,
               Adds(o, y, k, t), Store(y, k, s)
        PROVE  node'[x].publicKey = node[x].publicKey
    <2>1. node' = [node EXCEPT ![y] = [publicKey |-> k, type |-> OBSERVER, status |-> s]]
      BY <1>2 DEF Store
    <2>2. x # y
      <3> SUFFICES ASSUME x = y PROVE FALSE
        OBVIOUS
      <3>1. Readable /\ x \notin getNormalNodes
        BY <1>2 DEF Adds, Unused
      <3>2. x = <<x[1]>> /\ x[1] \in getNodesName
        BY <1>0, <3>1, ReadableListed
      <3> QED
        BY <3>1, <3>2 DEF getNormalNodes
    <2> QED
      BY <1>0, <2>1, <2>2
  <1>3. ASSUME NEW o, NEW k \in Keys, pass(o, k)
        PROVE  node'[x].publicKey = node[x].publicKey
    <2>1. registerInfos[Lower[k]].name \in NodeNames
      BY <1>3, LowerAssumption DEF pass, MayDecide, NodeInv, RegistrationsNamed
    <2> QED
      BY <1>1, <1>2, <1>3, <2>1 DEF pass
  <1>4. ASSUME NEW o, NEW y \in NodeNames, NEW t, NEW s, update(o, y, t, s)
        PROVE  node'[x].publicKey = node[x].publicKey
    BY <1>0, <1>4 DEF update, Node
  <1> QED
    BY <1>1, <1>2, <1>3, <1>4
    DEF SysNext, sysVars, nodeVars, NodeStep, refuse, registerNode, add

\* No operation replaces a normal node by another if its name is listed as it is
\* and can be compared: only the name of a deleted node is given to another.
THEOREM NormalNodesRemain == SysSpec => NormalNodesStay
  <1>1. ASSUME NodeInv, [SysNext]_sysVars
        PROVE  \A x \in NodeNames :
                 /\ Listable(x) /\ x \notin Quoted
                 /\ Exists(x) /\ node[x].status = "normal"
                 => node'[x].publicKey = node[x].publicKey
    BY <1>1, NormalNodesStep
  <1> QED
    BY <1>1, NodeInvariance, PTL DEF SysSpec, NormalNodesStay
=============================================================================
