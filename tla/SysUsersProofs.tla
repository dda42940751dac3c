--------------------------- MODULE SysUsersProofs ---------------------------
(***************************************************************************)
(* The registers of users and roles agree, and roles change hands by the   *)
(* hierarchy only, for any accounts, names and sets of roles.              *)
(*                                                                         *)
(* The inductive invariant is the conjunction of the invariants of         *)
(* SysUsers with the fact that whoever applied or is a user has a name.    *)
(* The theorems follow from one preservation lemma for each operation.     *)
(***************************************************************************)
EXTENDS SysUsers, TLAPS

\* Applications and users have names.
NamesGiven ==
    \A a \in Accounts :
        /\ application[a].state # "none" => application[a].name \in Names
        /\ user[a].status # "none" => user[a].name \in Names

\* The inductive invariant.
UserInv ==
    /\ TypeOK
    /\ CreatorRemains
    /\ NamesGiven
    /\ NamesIndexed
    /\ NamesUnique
    /\ UsersApproved

-----------------------------------------------------------------------------
(* Roles.                                                                  *)

\* Every role of a caller forbids to touch the role of the chain creator.
LEMMA PermissionSparesCreator ==
  ASSUME NEW callerRoles, NEW roles, ifHavePermission(callerRoles, roles)
  PROVE  chainCreator \notin roles
  BY DEF ifHavePermission, Above, Roles, chainCreator, chainAdmin

\* Only the chain creator and chain administrators have permission over any
\* known role, and the latter not over each other.
LEMMA PermissionRules ==
  ASSUME NEW callerRoles, NEW roles, ifHavePermission(callerRoles, roles),
         NEW r \in roles, r \in Roles
  PROVE  \/ chainCreator \in callerRoles /\ r # chainCreator
         \/ chainAdmin \in callerRoles /\ r \notin {chainCreator, chainAdmin}
  <1>1. PICK c \in callerRoles : roles \cap Above(c) = {}
    BY DEF ifHavePermission
  <1>2. CASE c = chainCreator
    BY <1>1, <1>2 DEF Above
  <1>3. CASE c = chainAdmin
    BY <1>1, <1>3 DEF Above, chainCreator, chainAdmin
  <1>4. CASE c \notin {chainCreator, chainAdmin}
    BY <1>1, <1>4 DEF Above
  <1> QED
    BY <1>2, <1>3, <1>4

-----------------------------------------------------------------------------
(* The invariant is inductive: one lemma for each operation.               *)

LEMMA UserInit == Init => UserInv
  <1> SUFFICES ASSUME Init PROVE UserInv
    OBVIOUS
  <1> USE CreatorAssumption, NamesAssumption
  <1>1. TypeOK
    BY DEF Init, TypeOK, Application, User, UserRole, RoleRequest, NoRoles,
           Roles, validRoles, RoleNames
  <1>2. CreatorRemains
    BY DEF Init, CreatorRemains, isValidUser, isChainCreator, getRoles, NoRoles
  <1>3. NamesIndexed
    BY DEF Init, NamesIndexed
  <1>4. NamesUnique
    BY DEF Init, NamesUnique, NoRoles
  <1>5. UsersApproved /\ NamesGiven
    BY DEF Init, UsersApproved, NamesGiven, NoRoles
  <1> QED
    BY <1>1, <1>2, <1>3, <1>4, <1>5 DEF UserInv

\* addRole, alone or called by another contract, when the roles that o may
\* give are given to an enabled user a.
LEMMA WithRolesKeeps ==
  ASSUME TypeOK, NEW o, NEW a \in Accounts, NEW name \in RoleNames, NEW roles, NEW us,
         AddsRole(us, o, a, name, roles), userRole' = WithRoles(a, name, roles)
  PROVE  /\ userRole' \in [Accounts -> UserRole]
         /\ \A b \in Accounts : isChainCreator(b)' <=> isChainCreator(b)
         /\ \A b \in Accounts : b # a => userRole'[b] = userRole[b]
         /\ userRole'[a].name = name
         /\ \A b, c \in Accounts :
                /\ b # c /\ userRole'[b].name # NoName
                /\ userRole[b].name # NoName => userRole[b].name # userRole[c].name
                => userRole'[b].name # userRole'[c].name
  <1>1. chainCreator \notin roles
    BY PermissionSparesCreator DEF AddsRole
  <1>2. userRole' = [userRole EXCEPT ![a] = [name |-> name,
                                             roles |-> userRole[a].roles \cup roles]]
    BY DEF WithRoles
  <1>3. userRole' \in [Accounts -> UserRole]
    BY <1>2 DEF TypeOK, UserRole, AddsRole, isRolesValid
  <1>4. \A b \in Accounts : isChainCreator(b)' <=> isChainCreator(b)
    BY <1>1, <1>2 DEF TypeOK, UserRole, isChainCreator, getRoles
  <1>5. \A b \in Accounts : b # a => userRole'[b] = userRole[b]
    BY <1>2 DEF TypeOK
  <1>6. userRole'[a].name = name
    BY <1>2 DEF TypeOK
  <1>7. \A b \in Accounts : userRole[b].name = name => b = a
    BY DEF AddsRole
  <1>8. \A b, c \in Accounts :
            /\ b # c /\ userRole'[b].name # NoName
            /\ userRole[b].name # NoName => userRole[b].name # userRole[c].name
            => userRole'[b].name # userRole'[c].name
    BY <1>5, <1>6, <1>7
  <1> QED
    BY <1>3, <1>4, <1>5, <1>6, <1>8

LEMMA RegisterUserKeeps ==
  ASSUME UserInv, NEW o \in Accounts, NEW name \in Names,
         NEW roles \in SUBSET validRoles, registerUser(o, name, roles)
  PROVE  UserInv'
  <1>0. /\ application \in [Accounts -> Application]
        /\ applicant \in [Names -> Accounts \cup {Nobody}]
        /\ application[o].state = "none" /\ applicant[name] = Nobody
        /\ userNamed[name] = Nobody /\ Nobody \notin Accounts
        /\ application' = [application EXCEPT ![o] =
                              [state |-> "audit", name |-> name, roles |-> roles]]
        /\ applicant' = [applicant EXCEPT ![name] = o]
        /\ user' = user /\ userNamed' = userNamed
        /\ userRole' = userRole /\ roleRequest' = roleRequest
    BY NamesAssumption DEF UserInv, TypeOK, registerUser
  <1>1. TypeOK'
    BY <1>0 DEF UserInv, TypeOK, Application
  <1>2. CreatorRemains' /\ NamesGiven'
    BY <1>0 DEF UserInv, CreatorRemains, NamesGiven, isValidUser, isChainCreator, getRoles
  <1>3. NamesIndexed'
    BY <1>0 DEF UserInv, NamesIndexed
  <1>4. NamesUnique'
    <2>1. \A b \in Accounts : user[b].status # "none" => user[b].name # name
      BY <1>0 DEF UserInv, NamesIndexed
    <2>2. \A b \in Accounts : Misnamed(b) => Misnamed(b)'
      <3>1. user[o].status # "none" => o = Creator
        BY <1>0 DEF UserInv, UsersApproved
      <3> QED
        BY <1>0, <3>1 DEF Misnamed
    <2> QED
      BY <1>0, <2>1, <2>2 DEF UserInv, NamesUnique
  <1>5. UsersApproved'
    BY <1>0 DEF UserInv, UsersApproved
  <1> QED
    BY <1>1, <1>2, <1>3, <1>4, <1>5 DEF UserInv

\* What addUser stores, called directly or by approve, for the account a whose
\* application is approved then; or nothing, when it fails.
LEMMA StoreUserKeeps ==
  ASSUME UserInv, NEW a \in Accounts, NEW name \in Names,
         application[a].state \in {"audit", "active"},
         application' = [application EXCEPT ![a].state = "active"], applicant' = applicant,
         \/ user[a].status = "none" /\ StoreUser(a, name)
         \/ UNCHANGED <<user, userNamed>>
  PROVE  /\ application' \in [Accounts -> Application]
         /\ user' \in [Accounts -> User]
         /\ userNamed' \in [Names -> Accounts \cup {Nobody}]
         /\ \A b \in Accounts : user[b].status # "none" => user'[b] = user[b]
         /\ NamesGiven' /\ NamesIndexed'
         /\ \A b, c \in Accounts : b # c =>
               /\ /\ application'[b].state \in {"audit", "active"}
                  /\ user'[c].status # "none" /\ application'[b].name = user'[c].name
                  => Misnamed(c)'
               /\ /\ user'[b].status # "none" /\ user'[c].status # "none"
                  /\ user'[b].name = user'[c].name
                  => Misnamed(b)' \/ Misnamed(c)'
         /\ \A b \in Accounts \ {Creator} :
               user'[b].status # "none" => application'[b].state = "active"
  <1>0. /\ application \in [Accounts -> Application] /\ user \in [Accounts -> User]
        /\ userNamed \in [Names -> Accounts \cup {Nobody}] /\ Nobody \notin Accounts
    BY NamesAssumption DEF UserInv, TypeOK
  <1>1. application' \in [Accounts -> Application]
    BY <1>0 DEF Application
  <1>2. \A b \in Accounts :
           /\ application'[b].name = application[b].name
           /\ application'[b].state = IF b = a THEN "active" ELSE application[b].state
    BY <1>0 DEF Application
  <1>3. \A b \in Accounts :
            application'[b].state \in {"audit", "active"}
              <=> application[b].state \in {"audit", "active"}
    BY <1>2
  <1>4. \A n \in Names, b \in Accounts :
            applicant'[n] = b <=>
               application'[b].name = n /\ application'[b].state \in {"audit", "active"}
    BY <1>2, <1>3 DEF UserInv, NamesIndexed
  <1>5. CASE UNCHANGED <<user, userNamed>>
    <2>1. \A b \in Accounts : Misnamed(b)' <=> Misnamed(b)
      BY <1>2, <1>5 DEF Misnamed
    <2>2. NamesGiven' /\ NamesIndexed'
      BY <1>2, <1>3, <1>4, <1>5 DEF UserInv, NamesGiven, NamesIndexed
    <2>3. \A b \in Accounts \ {Creator} :
              user'[b].status # "none" => application'[b].state = "active"
      BY <1>2, <1>5 DEF UserInv, UsersApproved
    <2> QED
      BY <1>0, <1>1, <1>2, <1>3, <1>5, <2>1, <2>2, <2>3 DEF UserInv, NamesUnique
  <1>6. CASE user[a].status = "none" /\ StoreUser(a, name)
    <2>0. /\ user' = [user EXCEPT ![a] = [status |-> "enabled", name |-> name]]
          /\ userNamed' = [userNamed EXCEPT ![name] = a]
      BY <1>6 DEF StoreUser
    <2>1. user' \in [Accounts -> User] /\ userNamed' \in [Names -> Accounts \cup {Nobody}]
      BY <1>0, <2>0 DEF User
    <2>2. /\ user'[a].name = name /\ user'[a].status = "enabled"
          /\ \A b \in Accounts : b # a => user'[b] = user[b]
      BY <1>0, <2>0
    <2>3. a # Creator
      BY <1>6 DEF UserInv, CreatorRemains, isValidUser
    <2>4. \A b \in Accounts : b # a => (Misnamed(b)' <=> Misnamed(b))
      BY <1>2, <2>2 DEF Misnamed
    <2>5. Misnamed(a)' <=> name # application[a].name
      BY <1>2, <2>2, <2>3 DEF Misnamed
    <2>6. NamesGiven' /\ \A b \in Accounts \ {Creator} :
              user'[b].status # "none" => application'[b].state = "active"
      BY <1>2, <1>3, <2>2 DEF UserInv, NamesGiven, UsersApproved
    <2>7. NamesIndexed'
      <3>1. \A n \in Names, b \in Accounts :
               userNamed'[n] = b => user'[b].name = n /\ user'[b].status # "none"
        BY <1>0, <1>6, <2>0, <2>2 DEF UserInv, NamesIndexed
      <3>2. \A b \in Accounts :
               user'[b].status # "none" => userNamed'[user'[b].name] # Nobody
        BY <1>0, <2>0, <2>2 DEF UserInv, NamesIndexed, NamesGiven
      <3> QED
        BY <1>4, <3>1, <3>2 DEF NamesIndexed
    \* Another application under the name makes it one that a did not apply for.
    <2>8. ASSUME NEW b \in Accounts, b # a, application[b].state \in {"audit", "active"},
                 application[b].name = name
          PROVE  name # application[a].name
      BY <2>8 DEF UserInv, NamesIndexed
    <2>9. ASSUME NEW b \in Accounts, NEW c \in Accounts, b # c
          PROVE  /\ /\ application'[b].state \in {"audit", "active"}
                    /\ user'[c].status # "none" /\ application'[b].name = user'[c].name
                    => Misnamed(c)'
                 /\ /\ user'[b].status # "none" /\ user'[c].status # "none"
                    /\ user'[b].name = user'[c].name
                    => Misnamed(b)' \/ Misnamed(c)'
      <3>1. CASE c = a
        BY <1>2, <1>3, <2>2, <2>4, <2>5, <2>8, <2>9, <3>1 DEF UserInv, NamesUnique
      <3>2. CASE b = a
        BY <1>2, <1>3, <2>2, <2>4, <2>5, <2>9, <3>2 DEF UserInv, NamesUnique
      <3>3. CASE b # a /\ c # a
        BY <1>2, <1>3, <2>2, <2>4, <2>9, <3>3 DEF UserInv, NamesUnique
      <3> QED
        BY <3>1, <3>2, <3>3
    <2> QED
      BY <1>1, <1>6, <2>1, <2>2, <2>6, <2>7, <2>9
  <1> QED
    BY <1>5, <1>6

\* The parts of the invariant that approve and addUser have in common: a may
\* have become a user, and may have been given roles as a user.
LEMMA NewUserKeeps ==
  ASSUME UserInv, NEW a \in Accounts, NEW name \in Names,
         application[a].state \in {"audit", "active"},
         application' = [application EXCEPT ![a].state = "active"], applicant' = applicant,
         \/ user[a].status = "none" /\ StoreUser(a, name)
         \/ UNCHANGED <<user, userNamed>>,
         userRole' \in [Accounts -> UserRole],
         \A b \in Accounts : isChainCreator(b)' <=> isChainCreator(b),
         \A b \in Accounts : userRole'[b].name # userRole[b].name => user'[b].status # "none",
         \A b, c \in Accounts :
               /\ b # c /\ userRole'[b].name # NoName
               /\ userRole[b].name # NoName => userRole[b].name # userRole[c].name
               => userRole'[b].name # userRole'[c].name,
         roleRequest' = roleRequest
  PROVE  UserInv'
  <1>1. /\ application' \in [Accounts -> Application]
        /\ user' \in [Accounts -> User]
        /\ userNamed' \in [Names -> Accounts \cup {Nobody}]
        /\ \A b \in Accounts : user[b].status # "none" => user'[b] = user[b]
        /\ NamesGiven' /\ NamesIndexed'
        /\ \A b, c \in Accounts : b # c =>
              /\ /\ application'[b].state \in {"audit", "active"}
                 /\ user'[c].status # "none" /\ application'[b].name = user'[c].name
                 => Misnamed(c)'
              /\ /\ user'[b].status # "none" /\ user'[c].status # "none"
                 /\ user'[b].name = user'[c].name
                 => Misnamed(b)' \/ Misnamed(c)'
        /\ \A b \in Accounts \ {Creator} :
              user'[b].status # "none" => application'[b].state = "active"
    BY StoreUserKeeps
  <1>2. TypeOK'
    BY <1>1 DEF UserInv, TypeOK
  <1>3. CreatorRemains'
    BY <1>1, CreatorAssumption DEF UserInv, CreatorRemains, isValidUser
  <1>4. NamesUnique'
    <2>1. \A b, c \in Accounts : b # c /\ userRole'[b].name # NoName =>
              userRole'[b].name # userRole'[c].name
      BY DEF UserInv, NamesUnique
    <2> QED
      BY <1>1, <2>1 DEF NamesUnique
  <1>5. UsersApproved'
    <2>1. \A b \in Accounts : userRole'[b].name # NoName => user'[b].status # "none"
      BY <1>1 DEF UserInv, UsersApproved
    <2>2. \A b \in Accounts : roleRequest'[b].status # "none" =>
              user'[b].status # "none" /\ roleRequest'[b].name = user'[b].name
      BY <1>1 DEF UserInv, UsersApproved
    <2> QED
      BY <1>1, <2>1, <2>2 DEF UsersApproved
  <1> QED
    BY <1>1, <1>2, <1>3, <1>4, <1>5 DEF UserInv

LEMMA ApproveKeeps ==
  ASSUME UserInv, NEW o \in Accounts, NEW a \in Accounts, approve(o, a)
  PROVE  UserInv'
  <1> DEFINE name == application[a].name
             roles == application[a].roles
  <1>0. /\ application[a].state \in {"audit", "active"}
        /\ application' = [application EXCEPT ![a].state = "active"]
        /\ applicant' = applicant /\ roleRequest' = roleRequest
        /\ \/ user[a].status = "none" /\ StoreUser(a, name)
           \/ UNCHANGED <<user, userNamed>>
        /\ \/ AddsRole(user', o, a, name, roles) /\ userRole' = WithRoles(a, name, roles)
           \/ UNCHANGED userRole
    BY DEF approve, MayAudit
  <1>1. name \in Names
    BY <1>0 DEF UserInv, NamesGiven
  <1> HIDE DEF name, roles
  <1>2. /\ userRole' \in [Accounts -> UserRole]
        /\ \A b \in Accounts : isChainCreator(b)' <=> isChainCreator(b)
        /\ \A b \in Accounts : userRole'[b].name # userRole[b].name => user'[b].status # "none"
        /\ \A b, c \in Accounts :
               /\ b # c /\ userRole'[b].name # NoName
               /\ userRole[b].name # NoName => userRole[b].name # userRole[c].name
               => userRole'[b].name # userRole'[c].name
    <2>1. CASE UNCHANGED userRole
      BY <2>1 DEF UserInv, TypeOK, isChainCreator, getRoles
    <2>2. CASE AddsRole(user', o, a, name, roles) /\ userRole' = WithRoles(a, name, roles)
      <3>1. user'[a].status = "enabled"
        BY <2>2 DEF AddsRole, isValidUser
      <3>2. name \in RoleNames
        BY <1>1 DEF RoleNames
      <3> QED
        BY <2>2, <3>1, <3>2, WithRolesKeeps DEF UserInv
    <2> QED
      BY <1>0, <2>1, <2>2
  <1> QED
    BY <1>0, <1>1, <1>2, NewUserKeeps

LEMMA AddUserKeeps ==
  ASSUME UserInv, NEW o \in Accounts, NEW a \in Accounts, NEW name \in Names,
         addUser(o, a, name)
  PROVE  UserInv'
  <1>1. /\ application[a].state = "active" /\ application' = application
        /\ applicant' = applicant /\ roleRequest' = roleRequest /\ userRole' = userRole
        /\ user[a].status = "none" /\ StoreUser(a, name)
    BY DEF addUser
  <1>2. application' = [application EXCEPT ![a].state = "active"]
    BY <1>1 DEF UserInv, TypeOK, Application
  <1>3. \A b \in Accounts : isChainCreator(b)' <=> isChainCreator(b)
    BY <1>1 DEF isChainCreator, getRoles
  <1>4. userRole' \in [Accounts -> UserRole]
    BY <1>1 DEF UserInv, TypeOK
  <1>5. \A b, c \in Accounts :
           /\ b # c /\ userRole'[b].name # NoName
           /\ userRole[b].name # NoName => userRole[b].name # userRole[c].name
           => userRole'[b].name # userRole'[c].name
    BY <1>1
  <1> QED
    BY <1>1, <1>2, <1>3, <1>4, <1>5, NewUserKeeps

LEMMA RejectKeeps ==
  ASSUME UserInv, NEW o \in Accounts, NEW a \in Accounts, reject(o, a)
  PROVE  UserInv'
  <1>0. /\ application \in [Accounts -> Application]
        /\ applicant \in [Names -> Accounts \cup {Nobody}]
        /\ Nobody \notin Accounts
        /\ application[a].state = "audit"
        /\ application' = [application EXCEPT ![a].state = "reject"]
        /\ applicant' = [applicant EXCEPT ![application[a].name] = Nobody]
        /\ user' = user /\ userNamed' = userNamed
        /\ userRole' = userRole /\ roleRequest' = roleRequest
    BY NamesAssumption DEF UserInv, TypeOK, reject, MayAudit
  <1>1. application[a].name \in Names
    BY <1>0 DEF UserInv, NamesGiven
  <1>2. \A b \in Accounts :
           /\ application'[b].name = application[b].name
           /\ application'[b].state = IF b = a THEN "reject" ELSE application[b].state
    BY <1>0 DEF Application
  <1>3. TypeOK'
    <2>1. application' \in [Accounts -> Application]
      BY <1>0 DEF Application
    <2> QED
      BY <1>0, <1>1, <2>1 DEF UserInv, TypeOK
  <1>4. CreatorRemains' /\ NamesGiven'
    BY <1>0, <1>2 DEF UserInv, CreatorRemains, NamesGiven,
                isValidUser, isChainCreator, getRoles
  <1>5. NamesIndexed'
    \* The name was that of no other application.
    <2>1. applicant[application[a].name] = a
      BY <1>0, <1>1 DEF UserInv, NamesIndexed
    <2>2. \A n \in Names, b \in Accounts :
           applicant'[n] = b <=>
               application'[b].name = n /\ application'[b].state \in {"audit", "active"}
      BY <1>0, <1>1, <1>2, <2>1 DEF UserInv, NamesIndexed
    <2> QED
      BY <1>0, <2>2 DEF UserInv, NamesIndexed
  <1>6. NamesUnique'
    <2>1. \A b \in Accounts : Misnamed(b)' <=> Misnamed(b)
      BY <1>0, <1>2 DEF Misnamed
    <2> QED
      BY <1>0, <1>2, <2>1 DEF UserInv, NamesUnique
  <1>7. UsersApproved'
    BY <1>0, <1>2 DEF UserInv, UsersApproved
  <1> QED
    BY <1>3, <1>4, <1>5, <1>6, <1>7 DEF UserInv

\* enable, disable and delUser.
LEMMA SetUserStatusKeeps ==
  ASSUME UserInv, NEW o \in Accounts, NEW a \in Accounts,
         NEW status \in {"enabled", "disabled", "deleted"},
         status # "enabled" => ~isChainCreator(a),
         setUserStatus(o, a, status)
  PROVE  UserInv'
  <1>0. /\ user \in [Accounts -> User]
        /\ user[a].status \notin {"none", "deleted"}
        /\ user' = [user EXCEPT ![a].status = status]
        /\ application' = application /\ applicant' = applicant
        /\ userNamed' = userNamed
        /\ userRole' = userRole /\ roleRequest' = roleRequest
    BY DEF UserInv, TypeOK, setUserStatus
  <1>1. \A b \in Accounts :
           /\ user'[b].name = user[b].name
           /\ user'[b].status = IF b = a THEN status ELSE user[b].status
    BY <1>0 DEF User
  <1>2. \A b \in Accounts : user'[b].status # "none" <=> user[b].status # "none"
    BY <1>0, <1>1
  <1>3. TypeOK'
    <2>1. user' \in [Accounts -> User]
      BY <1>0 DEF User
    <2> QED
      BY <1>0, <2>1 DEF UserInv, TypeOK
  <1>4. CreatorRemains'
    <2>1. \A b \in Accounts : isChainCreator(b)' <=> isChainCreator(b)
      BY <1>0 DEF isChainCreator, getRoles
    <2> QED
      BY <1>1, <2>1, CreatorAssumption DEF UserInv, CreatorRemains, isValidUser
  <1>5. NamesGiven'
    BY <1>0, <1>1, <1>2 DEF UserInv, NamesGiven
  <1>6. NamesIndexed'
    BY <1>0, <1>1, <1>2 DEF UserInv, NamesIndexed
  <1>7. NamesUnique'
    <2>1. \A b \in Accounts : Misnamed(b)' <=> Misnamed(b)
      BY <1>0, <1>1, <1>2 DEF Misnamed
    <2> QED
      BY <1>0, <1>1, <1>2, <2>1 DEF UserInv, NamesUnique
  <1>8. UsersApproved'
    BY <1>0, <1>1, <1>2 DEF UserInv, UsersApproved
  <1> QED
    BY <1>3, <1>4, <1>5, <1>6, <1>7, <1>8 DEF UserInv

LEMMA RegisterRoleKeeps ==
  ASSUME UserInv, NEW o \in Accounts, NEW roles \in SUBSET validRoles,
         registerRole(o, roles)
  PROVE  UserInv'
  <1>0. /\ roleRequest \in [Accounts -> RoleRequest]
        /\ user \in [Accounts -> User] /\ user[o].status = "enabled"
        /\ roleRequest' = [roleRequest EXCEPT ![o] =
              [status |-> "approving", name |-> user[o].name,
               roles |-> roles \ getRoles(o)]]
        /\ application' = application /\ applicant' = applicant
        /\ user' = user /\ userNamed' = userNamed /\ userRole' = userRole
    BY DEF UserInv, TypeOK, registerRole, isValidUser
  <1>1. TypeOK'
    <2>1. user[o].name \in Names \cup {NoName}
      BY <1>0 DEF User
    <2>2. roleRequest' \in [Accounts -> RoleRequest]
      BY <1>0, <2>1 DEF RoleRequest
    <2> QED
      BY <1>0, <2>2 DEF UserInv, TypeOK
  <1>2. CreatorRemains' /\ NamesGiven' /\ NamesIndexed' /\ NamesUnique'
    BY <1>0 DEF UserInv, CreatorRemains, NamesGiven, NamesIndexed, NamesUnique,
                Misnamed, isValidUser, isChainCreator, getRoles
  <1>3. UsersApproved'
    BY <1>0 DEF UserInv, UsersApproved
  <1> QED
    BY <1>1, <1>2, <1>3 DEF UserInv

\* approveRole and rejectRole change the status of a's request; approveRole
\* gives roles, as does addRole.
LEMMA RoleStepKeeps ==
  ASSUME UserInv, NEW o \in Accounts, NEW a \in Accounts,
         \/ approveRole(o, a) \/ rejectRole(o, a)
         \/ \E name \in RoleNames, roles \in SUBSET validRoles : addRole(o, a, name, roles)
         \/ \E roles \in SUBSET validRoles : removeRole(o, a, roles)
  PROVE  UserInv'
  <1>0. /\ roleRequest \in [Accounts -> RoleRequest]
        /\ userRole \in [Accounts -> UserRole]
        /\ application' = application /\ applicant' = applicant
        /\ user' = user /\ userNamed' = userNamed
    BY DEF UserInv, TypeOK, approveRole, rejectRole, addRole, removeRole
  <1>1. /\ roleRequest' \in [Accounts -> RoleRequest]
        /\ \A b \in Accounts :
              /\ roleRequest'[b].name = roleRequest[b].name
              /\ roleRequest'[b].status = "none" <=> roleRequest[b].status = "none"
    <2>1. CASE approveRole(o, a)
      BY <1>0, <2>1 DEF approveRole, MayApproveRole, RoleRequest
    <2>2. CASE rejectRole(o, a)
      BY <1>0, <2>2 DEF rejectRole, MayApproveRole, RoleRequest
    <2>3. CASE roleRequest' = roleRequest
      BY <1>0, <2>3
    <2> QED
      BY <2>1, <2>2, <2>3 DEF addRole, removeRole
  <1>2. /\ userRole' \in [Accounts -> UserRole]
        /\ \A b \in Accounts : isChainCreator(b)' <=> isChainCreator(b)
        /\ \A b \in Accounts :
              userRole'[b].name # userRole[b].name => user[b].status = "enabled"
        /\ \A b, c \in Accounts :
               /\ b # c /\ userRole'[b].name # NoName
               /\ userRole[b].name # NoName => userRole[b].name # userRole[c].name
               => userRole'[b].name # userRole'[c].name
    <2>1. ASSUME NEW name \in RoleNames, NEW roles, AddsRole(user, o, a, name, roles),
                 userRole' = WithRoles(a, name, roles)
          PROVE  <1>2
      BY <1>0, <2>1, WithRolesKeeps DEF UserInv, AddsRole, isValidUser
    <2>2. CASE approveRole(o, a)
      <3>1. roleRequest[a].name \in RoleNames
        BY <2>2 DEF approveRole, MayApproveRole, UserInv, UsersApproved, NamesGiven,
                    RoleNames
      <3>2. CASE UNCHANGED userRole
        BY <1>0, <3>2 DEF isChainCreator, getRoles
      <3> QED
        BY <2>1, <2>2, <3>1, <3>2 DEF approveRole
    <2>3. CASE \E name \in RoleNames, roles \in SUBSET validRoles : addRole(o, a, name, roles)
      BY <2>1, <2>3 DEF addRole
    <2>4. ASSUME NEW roles \in SUBSET validRoles, removeRole(o, a, roles)
          PROVE  <1>2
      <3>1. chainCreator \notin roles
        BY <2>4, PermissionSparesCreator DEF removeRole
      <3>2. userRole' = [userRole EXCEPT ![a].roles = userRole[a].roles \ roles]
        BY <2>4 DEF removeRole
      <3>3. userRole' \in [Accounts -> UserRole]
        BY <1>0, <3>2 DEF UserRole
      <3>4. \A b \in Accounts :
               /\ userRole'[b].name = userRole[b].name
               /\ userRole'[b].roles =
                    IF b = a THEN userRole[b].roles \ roles ELSE userRole[b].roles
        BY <1>0, <3>2 DEF UserRole
      <3> QED
        BY <3>1, <3>3, <3>4 DEF isChainCreator, getRoles
    <2>5. CASE rejectRole(o, a)
      BY <1>0, <2>5 DEF rejectRole, isChainCreator, getRoles
    <2> QED
      BY <2>2, <2>3, <2>4, <2>5
  <1>3. TypeOK'
    BY <1>0, <1>1, <1>2 DEF UserInv, TypeOK
  <1>4. CreatorRemains'
    BY <1>0, <1>2 DEF UserInv, CreatorRemains, isValidUser
  <1>5. NamesGiven' /\ NamesIndexed'
    BY <1>0 DEF UserInv, NamesGiven, NamesIndexed
  <1>6. NamesUnique'
    BY <1>0, <1>2 DEF UserInv, NamesUnique, Misnamed
  <1>7. UsersApproved'
    BY <1>0, <1>1, <1>2 DEF UserInv, UsersApproved
  <1> QED
    BY <1>3, <1>4, <1>5, <1>6, <1>7 DEF UserInv

LEMMA UserStepKeeps == ASSUME UserInv, [UserNext]_userVars PROVE UserInv'
  <1>1. CASE UNCHANGED userVars
    BY <1>1 DEF userVars, UserInv, TypeOK, CreatorRemains, NamesGiven, NamesIndexed,
                NamesUnique, Misnamed, UsersApproved, isValidUser,
                isChainCreator, getRoles
  <1>2. ASSUME NEW o \in Accounts, UserStep(o) PROVE UserInv'
    <2>1. ASSUME NEW name \in Names, NEW roles \in SUBSET validRoles,
                 registerUser(o, name, roles)
          PROVE  UserInv'
      BY <2>1, RegisterUserKeeps
    <2>2. ASSUME NEW roles \in SUBSET validRoles, registerRole(o, roles) PROVE UserInv'
      BY <2>2, RegisterRoleKeeps
    <2>3. ASSUME NEW a \in Accounts,
                 approve(o, a) \/ reject(o, a)
                   \/ enable(o, a) \/ disable(o, a) \/ delUser(o, a)
          PROVE  UserInv'
      BY <2>3, ApproveKeeps, RejectKeeps, SetUserStatusKeeps DEF enable, disable, delUser
    <2>4. ASSUME NEW a \in Accounts,
                 \/ approveRole(o, a) \/ rejectRole(o, a)
                 \/ \E name \in RoleNames, roles \in SUBSET validRoles : addRole(o, a, name, roles)
                 \/ \E roles \in SUBSET validRoles : removeRole(o, a, roles)
          PROVE  UserInv'
      BY <2>4, RoleStepKeeps
    <2>5. ASSUME NEW a \in Accounts, NEW name \in Names, addUser(o, a, name) PROVE UserInv'
      BY <2>5, AddUserKeeps
    <2> QED
      BY <1>2, <2>1, <2>2, <2>3, <2>4, <2>5, AskedAssumption DEF UserStep
  <1> QED
    BY <1>1, <1>2 DEF UserNext

LEMMA UserInvariance == UserSpec => []UserInv
  BY UserInit, UserStepKeeps, PTL DEF UserSpec

-----------------------------------------------------------------------------
(* The invariants of SysUsers.                                             *)

\* Every record of the four contracts is of its type; in particular no role
\* that RoleManager does not know becomes a role of a user.
THEOREM UsersTyped == UserSpec => []TypeOK
  BY UserInvariance, PTL DEF UserInv

\* The creator is for ever an enabled user and the only chain creator, since no
\* role has permission over the creator's, and disable and delUser spare it.
THEOREM CreatorStays == UserSpec => []CreatorRemains
  BY UserInvariance, PTL DEF UserInv

\* The maps from names to accounts that UserRegister and UserManager keep agree
\* with their records: every user's name leads to a user of that name.
THEOREM NamesAreIndexed == UserSpec => []NamesIndexed
  BY UserInvariance, PTL DEF UserInv

\* No two users, and no user and other applicant, have one name, unless a user
\* was added directly under a name it had not applied for; no two holders of
\* roles have one name.
THEOREM NamesAreUnique == UserSpec => []NamesUnique
  BY UserInvariance, PTL DEF UserInv

\* Every user but the creator was approved, and roles and requests for roles are
\* those of users, also when calls that approve and approveRole make fail in the
\* virtual machine and are taken for successes.
THEOREM UsersAreApproved == UserSpec => []UsersApproved
  BY UserInvariance, PTL DEF UserInv

-----------------------------------------------------------------------------
(* The action properties of SysUsers.                                      *)

\* What giving roles changes, by permission of o and to a user enabled in us.
LEMMA WithRolesRuled ==
  ASSUME TypeOK, NEW o, NEW a \in Accounts, NEW name, NEW roles, NEW us,
         isValidUser(user, o), AddsRole(us, o, a, name, roles),
         userRole' = WithRoles(a, name, roles),
         NEW b \in Accounts, NEW r \in Roles
  PROVE  /\ (r \in getRoles(b)) # (r \in userRole'[b].roles) => Rules(o, r)
         /\ r \in userRole'[b].roles \ getRoles(b) => isValidUser(us, b)
  <1>1. /\ \A c \in Accounts : c # a => userRole'[c] = userRole[c]
        /\ userRole'[a].roles = userRole[a].roles \cup roles
    BY DEF WithRoles, TypeOK
  <1>2. isValidUser(us, a) /\ ifHavePermission(getRoles(o), roles)
    BY DEF AddsRole
  <1>3. r \in roles => Rules(o, r)
    BY <1>2, PermissionRules DEF Rules, isChainCreator
  <1>4. CASE b = a
    BY <1>1, <1>2, <1>3, <1>4 DEF getRoles
  <1>5. CASE b # a
    BY <1>1, <1>5 DEF getRoles
  <1> QED
    BY <1>4, <1>5

LEMMA StepRuled ==
  ASSUME TypeOK, NEW o \in Accounts, UserStep(o), NEW b \in Accounts, NEW r \in Roles
  PROVE  /\ (r \in getRoles(b)) # (r \in userRole'[b].roles) => Rules(o, r)
         /\ r \in userRole'[b].roles \ getRoles(b) => isValidUser(user', b)
  <1> DEFINE Goal == /\ (r \in getRoles(b)) # (r \in userRole'[b].roles) => Rules(o, r)
                     /\ r \in userRole'[b].roles \ getRoles(b) => isValidUser(user', b)
  <1>1. CASE userRole' = userRole
    <2>1. userRole'[b].roles = getRoles(b)
      BY <1>1 DEF getRoles
    <2> QED
      BY <2>1
  <1>2. ASSUME NEW a \in Accounts, approve(o, a) PROVE Goal
    <2> DEFINE name == application[a].name
               roles == application[a].roles
    <2>1. isValidUser(user, o)
      BY <1>2 DEF approve, MayAudit
    <2>2. CASE AddsRole(user', o, a, name, roles) /\ userRole' = WithRoles(a, name, roles)
      <3> HIDE DEF name, roles
      <3> QED
        BY <2>1, <2>2, WithRolesRuled
    <2> QED
      BY <1>1, <1>2, <2>2 DEF approve
  <1>3. ASSUME NEW a \in Accounts, approveRole(o, a) PROVE Goal
    BY <1>1, <1>3, WithRolesRuled DEF approveRole, MayApproveRole
  <1>4. ASSUME NEW a \in Accounts, NEW name, NEW roles, addRole(o, a, name, roles)
        PROVE  Goal
    BY <1>4, WithRolesRuled DEF addRole, AddsRole
  <1>5. ASSUME NEW a \in Accounts, NEW roles, removeRole(o, a, roles) PROVE Goal
    <2>1. isValidUser(user, o) /\ ifHavePermission(getRoles(o), roles)
      BY <1>5 DEF removeRole
    <2>2. userRole' = [userRole EXCEPT ![a].roles = userRole[a].roles \ roles]
      BY <1>5 DEF removeRole
    <2>3. \A c \in Accounts : userRole'[c].roles =
              IF c = a THEN userRole[c].roles \ roles ELSE userRole[c].roles
      BY <2>2 DEF TypeOK, UserRole
    <2>4. r \in roles => Rules(o, r)
      BY <2>1, PermissionRules DEF Rules, isChainCreator
    <2>5. userRole'[b].roles \subseteq getRoles(b)
      BY <2>3 DEF getRoles
    <2>6. CASE r \in roles
      BY <2>4, <2>5, <2>6
    <2>7. CASE r \notin roles
      <3>1. r \in userRole'[b].roles <=> r \in getRoles(b)
        BY <2>3, <2>7 DEF getRoles
      <3> QED
        BY <2>5, <3>1
    <2> QED
      BY <2>6, <2>7
  <1> QED
    BY <1>1, <1>2, <1>3, <1>4, <1>5
    DEF UserStep, registerUser, registerRole, reject, enable, disable, delUser,
        setUserStatus, rejectRole, addUser

\* A role is given or taken only by an enabled user who stands above it in the
\* hierarchy of roles, and given only to an enabled user, whichever of the four
\* contracts is called.
THEOREM RolesAreRuled == UserSpec => RolesRuled
  <1>1. ASSUME TypeOK
        PROVE  userRole' # userRole =>
                 \A o \in Accounts : UserStep(o) => \A a \in Accounts, r \in Roles :
                    /\ (r \in getRoles(a)) # (r \in userRole'[a].roles) => Rules(o, r)
                    /\ r \in userRole'[a].roles \ getRoles(a) => isValidUser(user', a)
    BY <1>1, StepRuled
  <1> QED
    BY <1>1, UsersTyped, PTL DEF RolesRuled

LEMMA DeletedStep ==
  ASSUME UserInv, [UserNext]_userVars, NEW b \in Accounts
  PROVE  /\ user[b].status = "deleted" =>
                user'[b].status = "deleted" /\ userRole'[b].roles \subseteq getRoles(b)
         /\ application[b].state = "reject" => user'[b] = user[b] \/ b = Creator
  <1> DEFINE Goal ==
        /\ user[b].status = "deleted" =>
                user'[b].status = "deleted" /\ userRole'[b].roles \subseteq getRoles(b)
        /\ application[b].state = "reject" => user'[b] = user[b] \/ b = Creator
  <1>0. user \in [Accounts -> User] /\ userRole \in [Accounts -> UserRole]
    BY DEF UserInv, TypeOK
  <1>1. CASE user' = user /\ userRole' = userRole
    BY <1>1 DEF getRoles
  <1>2. ASSUME NEW o \in Accounts, UserStep(o) PROVE Goal
    \* Only an enabled user is given a role.
    <2>1. user'[b].status # "enabled" => userRole'[b].roles \subseteq getRoles(b)
      <3>1. userRole' \in [Accounts -> UserRole]
        BY <1>2, UserStepKeeps DEF UserNext, UserInv, TypeOK
      <3>2. userRole'[b].roles \subseteq Roles
        BY <3>1 DEF UserRole
      <3> QED
        BY <1>2, <3>2, StepRuled DEF UserInv, isValidUser
    <2>2. CASE user' = user
      BY <2>1, <2>2
    <2>3. ASSUME NEW a \in Accounts, application[a].state # "reject",
                 user[a].status = "none", NEW name, StoreUser(a, name)
          PROVE  Goal
      <3>1. \A c \in Accounts : c # a => user'[c] = user[c]
        BY <1>0, <2>3 DEF StoreUser
      <3> QED
        BY <2>1, <2>3, <3>1
    <2>4. ASSUME NEW a \in Accounts, approve(o, a) PROVE Goal
      BY <2>2, <2>4, <2>3 DEF approve, MayAudit
    <2>5. ASSUME NEW a \in Accounts, NEW status, setUserStatus(o, a, status) PROVE Goal
      <3>1. user[a].status \notin {"none", "deleted"}
        BY <2>5 DEF setUserStatus
      <3>2. \A c \in Accounts : c # a => user'[c] = user[c]
        BY <1>0, <2>5 DEF setUserStatus
      <3>3. application[a].state = "reject" => a = Creator
        BY <3>1 DEF UserInv, UsersApproved
      <3> QED
        BY <2>1, <3>1, <3>2, <3>3
    <2>6. ASSUME NEW a \in Accounts, NEW name, addUser(o, a, name) PROVE Goal
      BY <2>3, <2>6 DEF addUser
    <2> QED
      BY <1>2, <2>2, <2>4, <2>5, <2>6
      DEF UserStep, registerUser, registerRole, reject, enable, disable, delUser,
          approveRole, rejectRole, addRole, removeRole
  <1> QED
    BY <1>1, <1>2 DEF UserNext, userVars

\* No operation brings a deleted user back or gives it a role, and a rejected
\* applicant never becomes a user.
THEOREM DeletedIsForGood == UserSpec => DeletedForGood
  <1>1. ASSUME UserInv, [UserNext]_userVars
        PROVE  \A a \in Accounts :
                  /\ user[a].status = "deleted" =>
                        user'[a].status = "deleted" /\ userRole'[a].roles \subseteq getRoles(a)
                  /\ application[a].state = "reject" => user'[a] = user[a] \/ a = Creator
    BY <1>1, DeletedStep
  <1> QED
    BY <1>1, UserInvariance, PTL DEF UserSpec, DeletedForGood
=============================================================================
