------------------------------ MODULE SysUsers ------------------------------
(***************************************************************************)
(* Users and their roles in the C++ system contracts: UserRegister         *)
(* (applications), UserManager (users), RoleManager (roles) and            *)
(* RoleRegister (applications for roles), which call each other.           *)
(*                                                                         *)
(* A transaction calls one operation and runs alone, so an operation with  *)
(* all the calls it makes is one action.  A refused call changes nothing.  *)
(* An operation that one contract calls in another may also fail in the    *)
(* virtual machine, by a trap or for want of gas: it then changes nothing  *)
(* and callInt64 returns 0, which the caller takes for success.  Lookups   *)
(* are taken to be answered.  Contact data, and the lists of addresses by  *)
(* state that UserRegister keeps for its queries, are left out.            *)
(***************************************************************************)
EXTENDS FiniteSets

CONSTANTS
    Accounts,   \* addresses
    Creator,    \* the account that deployed the system contracts
    Names,      \* user names, none of which is empty or also an address
    Root,       \* the name of the creator
    EmptyName,  \* the empty string, which addRole takes for a name
    NoName,     \* no name
    Nobody,     \* no account
    Asked       \* bound: the sets of roles that calls mention

chainCreator == "chainCreator"
chainAdmin == "chainAdmin"
nodeAdmin == "nodeAdmin"
contractAdmin == "contractAdmin"
contractDeployer == "contractDeployer"
contractCaller == "contractCaller"
Roles == {chainCreator, chainAdmin, nodeAdmin, contractAdmin, contractDeployer}

\* RoleRegister takes requests for one role more than RoleManager knows.
validRoles == Roles \cup {contractCaller}

ASSUME CreatorAssumption == Creator \in Accounts /\ Root \in Names
ASSUME NamesAssumption ==
    NoName \notin Names /\ EmptyName \notin Names \cup {NoName} /\ Nobody \notin Accounts
ASSUME AskedAssumption == Asked \subseteq SUBSET validRoles

VARIABLES
    application,   \* UserRegister: the application of each account
    applicant,     \* UserRegister: the account that applied under a name
    user,          \* UserManager: the record of each account
    userNamed,     \* UserManager: the account of a name
    userRole,      \* RoleManager: mapUserRoles
    roleRequest    \* RoleRegister: AddressInfoMap

userVars == <<application, applicant, user, userNamed, userRole, roleRequest>>

Application == [state : {"none", "audit", "active", "reject"},
                name : Names \cup {NoName}, roles : SUBSET validRoles]
User == [status : {"none", "enabled", "disabled", "deleted"}, name : Names \cup {NoName}]
RoleNames == Names \cup {EmptyName}
UserRole == [name : RoleNames \cup {NoName}, roles : SUBSET Roles]
RoleRequest == [status : {"none", "approving", "approved", "rejected"},
                name : Names \cup {NoName}, roles : SUBSET validRoles]

NoRoles == [name |-> NoName, roles |-> {}]

Init ==
    /\ application = [a \in Accounts |-> [state |-> "none", name |-> NoName, roles |-> {}]]
    /\ applicant = [n \in Names |-> Nobody]
    /\ user = [a \in Accounts |-> IF a = Creator THEN [status |-> "enabled", name |-> Root]
                                  ELSE [status |-> "none", name |-> NoName]]
    /\ userNamed = [n \in Names |-> IF n = Root THEN Creator ELSE Nobody]
    /\ userRole = [a \in Accounts |-> IF a = Creator
                                      THEN [name |-> Root, roles |-> {chainCreator}]
                                      ELSE NoRoles]
    /\ roleRequest = [a \in Accounts |-> [status |-> "none", name |-> NoName, roles |-> {}]]

-----------------------------------------------------------------------------
(* What the contracts ask of each other.                                   *)

\* UserManager.isValidUser, and util::getUserStatus, on the records us.
isValidUser(us, a) == us[a].status = "enabled"

getRoles(a) == userRole[a].roles

\* The roles of a are searched for "Admin" and for "chainCreator".
isAdminRole(a) == getRoles(a) \cap {chainCreator, chainAdmin, nodeAdmin, contractAdmin} # {}

\* Mutant of isRolesValid: any roles pass.
rolesNotEmpty(roles) == roles # {}

\* Roles that RoleManager knows, and at least one.
isRolesValid(roles) == roles # {} /\ roles \subseteq Roles

isChainCreator(a) == chainCreator \in getRoles(a)

\* The roles that a caller must not touch, by one of its own roles.
Above(role) ==
    CASE role = chainCreator -> {chainCreator}
      [] role = chainAdmin -> {chainCreator, chainAdmin}
      [] OTHER -> Roles

ifHavePermission(callerRoles, roles) ==
    \E r \in callerRoles : roles \cap Above(r) = {}

-----------------------------------------------------------------------------
(* RoleManager.                                                            *)

\* Mutant of AddsRole: another account may have the name.
AddsRoleAnyName(us, o, a, name, roles) ==
    /\ isValidUser(us, o) /\ isValidUser(us, a)
    /\ isRolesValid(roles)
    /\ ifHavePermission(getRoles(o), roles)
    /\ userRole[a].name \in {NoName, name}

\* addRole called by o does not return an error; us are the users.
AddsRole(us, o, a, name, roles) ==
    /\ isValidUser(us, o) /\ isValidUser(us, a)
    /\ isRolesValid(roles)
    /\ ifHavePermission(getRoles(o), roles)
    /\ \A b \in Accounts : userRole[b].name = name => b = a
    /\ userRole[a].name \in {NoName, name}

WithRoles(a, name, roles) ==
    [userRole EXCEPT ![a] = [name |-> name, roles |-> @.roles \cup roles]]

addRole(o, a, name, roles) ==
    /\ AddsRole(user, o, a, name, roles)
    /\ userRole' = WithRoles(a, name, roles)
    /\ UNCHANGED <<application, applicant, user, userNamed, roleRequest>>

removeRole(o, a, roles) ==
    /\ isValidUser(user, o)
    /\ userRole[a].name # NoName
    /\ isRolesValid(roles)
    /\ ifHavePermission(getRoles(o), roles)
    /\ userRole' = [userRole EXCEPT ![a].roles = @ \ roles]
    /\ UNCHANGED <<application, applicant, user, userNamed, roleRequest>>

-----------------------------------------------------------------------------
(* UserRegister.                                                           *)

\* An account applies for itself, once, and under a name that nobody has.
registerUser(o, name, roles) ==
    /\ application[o].state = "none"
    /\ applicant[name] = Nobody
    /\ userNamed[name] = Nobody
    /\ application' = [application EXCEPT ![o] =
                          [state |-> "audit", name |-> name, roles |-> roles]]
    /\ applicant' = [applicant EXCEPT ![name] = o]
    /\ UNCHANGED <<user, userNamed, userRole, roleRequest>>

\* What addUser stores: the record, and the account under its name.
StoreUser(a, name) ==
    /\ user' = [user EXCEPT ![a] = [status |-> "enabled", name |-> name]]
    /\ userNamed' = [userNamed EXCEPT ![name] = a]

MayAudit(o, a) ==
    /\ application[a].state = "audit"
    /\ isValidUser(user, o) /\ isAdminRole(o)

\* approve with USER_STATE_ACTIVE, which calls addUser of UserManager and then,
\* if roles were applied for, addRole of RoleManager.  If one returns an error
\* all is undone; if one fails in the virtual machine approve goes on.
approve(o, a) ==
    LET name == application[a].name
        roles == application[a].roles IN
    /\ MayAudit(o, a)
    /\ application' = [application EXCEPT ![a].state = "active"]
    /\ \/ user[a].status = "none" /\ StoreUser(a, name)
       \/ UNCHANGED <<user, userNamed>>
    /\ \/ AddsRole(user', o, a, name, roles) /\ userRole' = WithRoles(a, name, roles)
       \/ UNCHANGED userRole
    /\ UNCHANGED <<applicant, roleRequest>>

\* Mutant of reject: the name is not freed.
rejectKeepsName(o, a) ==
    /\ MayAudit(o, a)
    /\ application' = [application EXCEPT ![a].state = "reject"]
    /\ UNCHANGED <<applicant, user, userNamed, userRole, roleRequest>>

\* approve with USER_STATE_REJECT: the name is free again, the record stays.
reject(o, a) ==
    /\ MayAudit(o, a)
    /\ application' = [application EXCEPT ![a].state = "reject"]
    /\ applicant' = [applicant EXCEPT ![application[a].name] = Nobody]
    /\ UNCHANGED <<user, userNamed, userRole, roleRequest>>

-----------------------------------------------------------------------------
(* UserManager.                                                            *)

\* Mutant of addUser: the application need not be approved.
addUserUnapproved(o, a, name) ==
    /\ user[a].status = "none"
    /\ isAdminRole(o) /\ isValidUser(user, o)
    /\ StoreUser(a, name)
    /\ UNCHANGED <<application, applicant, userRole, roleRequest>>

\* addUser, called directly: for an approved account that has no record, since
\* addUser failed in approve.  The name is the caller's, and is not compared.
addUser(o, a, name) ==
    /\ user[a].status = "none"
    /\ isAdminRole(o) /\ isValidUser(user, o)
    /\ application[a].state = "active"
    /\ StoreUser(a, name)
    /\ UNCHANGED <<application, applicant, userRole, roleRequest>>

\* Mutant of setUserStatus: a deleted user can be enabled.
setAnyStatus(o, a, status) ==
    /\ user[a].status # "none"
    /\ isAdminRole(o) /\ isValidUser(user, o)
    /\ user' = [user EXCEPT ![a].status = status]
    /\ UNCHANGED <<application, applicant, userNamed, userRole, roleRequest>>

\* An enabled administrator changes the status of a user that is not deleted.
setUserStatus(o, a, status) ==
    /\ user[a].status \notin {"none", "deleted"}
    /\ isAdminRole(o) /\ isValidUser(user, o)
    /\ user' = [user EXCEPT ![a].status = status]
    /\ UNCHANGED <<application, applicant, userNamed, userRole, roleRequest>>

enable(o, a) == setUserStatus(o, a, "enabled")

\* Mutant of disable: the chain creator too.
disableAnybody(o, a) == setUserStatus(o, a, "disabled")

\* The chain creator can be neither disabled nor deleted.
disable(o, a) == ~isChainCreator(a) /\ setUserStatus(o, a, "disabled")
delUser(o, a) == ~isChainCreator(a) /\ setUserStatus(o, a, "deleted")

-----------------------------------------------------------------------------
(* RoleRegister.                                                           *)

\* A new request replaces the one before.
registerRole(o, roles) ==
    LET requireRoles == roles \ getRoles(o) IN
    /\ isValidUser(user, o)
    /\ chainCreator \notin roles
    /\ requireRoles # {}
    /\ roleRequest' = [roleRequest EXCEPT ![o] =
            [status |-> "approving", name |-> user[o].name, roles |-> requireRoles]]
    /\ UNCHANGED <<application, applicant, user, userNamed, userRole>>

\* The caller must have permission over the roles that a has now.
MayApproveRole(o, a) ==
    /\ isValidUser(user, o)
    /\ ifHavePermission(getRoles(o), getRoles(a))
    /\ roleRequest[a].status = "approving"

\* Mutant of approveRole: the answer of addRole is ignored.
approveRoleUnchecked(o, a) ==
    LET req == roleRequest[a] IN
    /\ MayApproveRole(o, a)
    /\ isRolesValid(req.roles)
    /\ userRole' = WithRoles(a, req.name, req.roles)
    /\ roleRequest' = [roleRequest EXCEPT ![a].status = "approved"]
    /\ UNCHANGED <<application, applicant, user, userNamed>>

\* approveRole with S_APPROVED: addRole checks the requested roles; after an
\* error the request stays as it is, but if addRole fails in the virtual
\* machine the request is approved and no role is given.
approveRole(o, a) ==
    LET req == roleRequest[a] IN
    /\ MayApproveRole(o, a)
    /\ \/ /\ AddsRole(user, o, a, req.name, req.roles)
          /\ userRole' = WithRoles(a, req.name, req.roles)
       \/ UNCHANGED userRole
    /\ roleRequest' = [roleRequest EXCEPT ![a].status = "approved"]
    /\ UNCHANGED <<application, applicant, user, userNamed>>

rejectRole(o, a) ==
    /\ MayApproveRole(o, a)
    /\ roleRequest' = [roleRequest EXCEPT ![a].status = "rejected"]
    /\ UNCHANGED <<application, applicant, user, userNamed, userRole>>

-----------------------------------------------------------------------------
\* A transaction that account o sends.
UserStep(o) ==
    \/ \E name \in Names, roles \in Asked \cup {{}} : registerUser(o, name, roles)
    \/ \E roles \in Asked : registerRole(o, roles)
    \/ \E a \in Accounts :
        \/ approve(o, a) \/ reject(o, a)
        \/ enable(o, a) \/ disable(o, a) \/ delUser(o, a)
        \/ approveRole(o, a) \/ rejectRole(o, a)
        \/ \E roles \in Asked : removeRole(o, a, roles)
        \/ \E name \in RoleNames, roles \in Asked : addRole(o, a, name, roles)
        \/ \E name \in Names : addUser(o, a, name)

UserNext == \E o \in Accounts : UserStep(o)

UserSpec == Init /\ [][UserNext]_userVars

-----------------------------------------------------------------------------
\* Every record is of its type: of the roles that an application may mention
\* only those that RoleManager knows become roles of a user.
TypeOK ==
    /\ application \in [Accounts -> Application]
    /\ applicant \in [Names -> Accounts \cup {Nobody}]
    /\ user \in [Accounts -> User]
    /\ userNamed \in [Names -> Accounts \cup {Nobody}]
    /\ userRole \in [Accounts -> UserRole]
    /\ roleRequest \in [Accounts -> RoleRequest]

\* The creator, and nobody else, has the role chainCreator, and is an enabled
\* user, whatever the other administrators do: there is always somebody who
\* can appoint administrators.
CreatorRemains ==
    /\ isValidUser(user, Creator)
    /\ {a \in Accounts : isChainCreator(a)} = {Creator}

\* The maps of names agree with the records: UserRegister knows the account of
\* every application that is waiting or approved, and of no other, and in
\* UserManager every user's name leads to a user of that name.
NamesIndexed ==
    /\ \A n \in Names, a \in Accounts :
           applicant[n] = a <=>
               application[a].name = n /\ application[a].state \in {"audit", "active"}
    /\ \A n \in Names, a \in Accounts :
           userNamed[n] = a => user[a].name = n /\ user[a].status # "none"
    /\ \A a \in Accounts :
           user[a].status # "none" => userNamed[user[a].name] # Nobody

\* User a does not have the name it applied under.
Misnamed(a) ==
    a # Creator /\ user[a].status # "none" /\ user[a].name # application[a].name

\* The name under which an account applied and was not rejected is that of no
\* other user, and no two users have one name, unless a user was added by a
\* direct call of addUser under a name it had not applied for.  No two holders
\* of roles have one name, although every call of addRole gives it anew.
NamesUnique ==
    \A a, b \in Accounts : a # b =>
        /\ /\ application[a].state \in {"audit", "active"}
           /\ user[b].status # "none" /\ application[a].name = user[b].name
           => Misnamed(b)
        /\ user[a].status # "none" /\ user[b].status # "none" /\ user[a].name = user[b].name
           => Misnamed(a) \/ Misnamed(b)
        /\ userRole[a].name # NoName => userRole[a].name # userRole[b].name

\* Every user but the creator has an approved application of its own, and
\* roles, and requests for roles with the user's name, are those of users,
\* whichever of the calls from contract to contract fail.  An approved
\* application, or request, may be left without its user, or its roles.
UsersApproved ==
    /\ \A a \in Accounts \ {Creator} : user[a].status # "none" => application[a].state = "active"
    /\ \A a \in Accounts : userRole[a].name # NoName => user[a].status # "none"
    /\ \A a \in Accounts : roleRequest[a].status # "none" =>
           user[a].status # "none" /\ roleRequest[a].name = user[a].name

\* The roles r that o may give or take by the hierarchy of roles.
Rules(o, r) ==
    isValidUser(user, o) /\ \/ isChainCreator(o) /\ r # chainCreator
                            \/ chainAdmin \in getRoles(o) /\ r \notin {chainCreator, chainAdmin}

\* A role changes hands only by an enabled user who stands above it, whichever
\* contract was called and however old the application is; it is given to a
\* user that is enabled then.
RolesRuled ==
    [][userRole' # userRole =>
         \A o \in Accounts : UserStep(o) => \A a \in Accounts, r \in Roles :
            /\ (r \in getRoles(a)) # (r \in userRole'[a].roles) => Rules(o, r)
            /\ r \in userRole'[a].roles \ getRoles(a) => isValidUser(user', a)]_userVars

\* A deleted user stays deleted and is given no role, and a rejected applicant
\* never becomes a user.
DeletedForGood ==
    [][\A a \in Accounts :
         /\ user[a].status = "deleted" =>
                user'[a].status = "deleted" /\ userRole'[a].roles \subseteq getRoles(a)
         /\ application[a].state = "reject" => user'[a] = user[a] \/ a = Creator]_userVars
=============================================================================
